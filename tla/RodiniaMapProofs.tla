-------------------------- MODULE RodiniaMapProofs --------------------------
(***************************************************************************)
(* Proofs that the store is the durable map of RodiniaKV, for any keys,    *)
(* files and requests: where one thread calls it, as the isolate of        *)
(* rodinia_flutter does, with deadlines, purges, compactions, drops,       *)
(* failing appends and crashes; and for any number of threads with all of  *)
(* these but compactions and the readers of a store that has deadlines.    *)
(* At the end: no call waits in vain for a lock, and none is endless.      *)
(***************************************************************************)
EXTENDS RodiniaStoreProofs, FiniteSetTheorems

-----------------------------------------------------------------------------
(* What a call carries from one step to the next is its own: no other call  *)
(* touches it.                                                              *)

\* A step of one call leaves the locals of the others alone.
LEMMA OthersKeep ==
  ASSUME Typed, NEW t \in Threads,
         Begin(t) \/ Call(t) \/ CommitFails(t) \/ LogFails(t),
         NEW u \in Threads \ {t}
  PROVE  /\ pc'[u] = pc[u] /\ req'[u] = req[u] /\ ent'[u] = ent[u]
         /\ plan'[u] = plan[u] /\ todo'[u] = todo[u] /\ ret'[u] = ret[u]
<1> USE DEF scratch
<1>1. CASE Return(t)
  BY <1>1 DEF Return, Goto, Typed, TypeOK
<1>2. CASE ~Return(t)
  <2>5. ~LogFails(t)
    BY <1>2, LogFailsReturns
  <2>1. CASE \/ Set(t) \/ Import(t) \/ Delete(t) \/ Clear(t) \/ Increment(t)
             \/ ListPush(t) \/ DeleteFromList(t) \/ SetIfAbsent(t)
    <3>1. PICK op, plans : Decide(t, op, plans)
      BY <2>1 DEF Set, Import, Delete, Clear, Increment, ListPush, DeleteFromList, SetIfAbsent
    <3> QED
      BY <3>1 DEF Decide, Goto, Typed, TypeOK
  <2>2. CASE \/ LockCache(t) \/ SetIfAbsentReturns(t) \/ Commit(t) \/ CommitFails(t)
             \/ Unlock(t) \/ Publish(t) \/ Begin(t)
    BY <1>2, <2>2 DEF LockCache, SetIfAbsentReturns, Commit, CommitFails, Unlock, Publish,
                      Begin, Goto, Typed, TypeOK
  <2>3. CASE \/ ReadEntry(t) \/ CheckEntry(t) \/ CollectExpired(t) \/ RemoveExpired(t)
             \/ LogExpiry(t) \/ PublishExpiry(t) \/ ExpiryDone(t)
    BY <1>2, <2>3 DEF ReadEntry, CheckEntry, CollectExpired, RemoveExpired, LogExpiry,
                      PublishExpiry, ExpiryDone, Goto, Typed, TypeOK
  <2>4. CASE OpenTmp(t) \/ WriteTmp(t) \/ RenameTmp(t) \/ Reopen(t) \/ CloseLog(t)
    BY <1>2, <2>4 DEF OpenTmp, WriteTmp, RenameTmp, Reopen, CloseLog, Goto, Typed, TypeOK
  <2> QED
    BY <2>1, <2>2, <2>3, <2>4, <2>5 DEF Call
<1> QED
  BY <1>1, <1>2

\* A plan says what is written and what will be announced of it.
Sound(p) ==
  \/ p.type = "set" /\ p.ent # None /\ p.news \in {"present", "none"}
  \/ p.type = "delete" /\ p.ent = None /\ p.news = "absent"
  \/ p.type = "clear" /\ p.news = "cleared"
  \/ p.type = "none" /\ p.news = "none"

\* What a write has prepared when it takes its locks, and what it has decided.
Prepared(t) ==
  /\ pc[t] \notin {"commit", "unlock", "publish"} => plan[t] = None
  /\ pc[t] = "publish" => plan[t] # None
  /\ plan[t] # None => Sound(plan[t])
  /\ pc[t] \in {"cache", "wal", "commit"} /\ req[t].op # "import" => todo[t] = {}
  /\ pc[t] \in {"cache", "wal"} /\ req[t].op \in {"set", "import"} => ent[t] # None
  /\ pc[t] = "commit" => plan[t].type # "none"
  /\ pc[t] = "commit" /\ req[t].op = "import" => plan[t].type = "set" /\ plan[t].news = "none"

PreparedInv == \A t \in Threads : Prepared(t)

LEMMA PreparedInit == Init => PreparedInv
BY DEF Init, PreparedInv, Prepared

LEMMA BeginPrepared ==
  ASSUME NEW t \in Threads, Typed, Prepared(t), Begin(t)
  PROVE  Prepared(t)'
<1>1. PICK r \in Requests :
         /\ req' = [req EXCEPT ![t] = r]
         /\ ent' = [ent EXCEPT ![t] = IF r.op \in {"set", "import"} THEN NewEntry(r) ELSE None]
         /\ todo' = [todo EXCEPT ![t] = IF r.op = "import" THEN Keys ELSE {}]
         /\ Goto(t, FirstLock(r.op))
  BY DEF Begin
<1>2. NewEntry(r) # None
  BY NewEntryType, StoreAssumption, EntryAssumption DEF Typed, TypeOK
<1>3. /\ pc[t] = "idle" /\ pc'[t] \in {"read", "wal", "cache"}
      /\ req'[t] = r /\ plan'[t] = plan[t]
      /\ r.op \in {"set", "import"} => ent'[t] # None
      /\ r.op # "import" => todo'[t] = {}
  BY <1>1, <1>2 DEF Begin, Goto, FirstLock, Typed, TypeOK
<1> QED
  BY <1>3 DEF Prepared

LEMMA DecidePrepared ==
  ASSUME NEW t \in Threads, Typed, Prepared(t), NEW op, NEW plans, Decide(t, op, plans),
         \A p \in plans : Sound(p),
         op = "import" => \A p \in plans : p.type = "set" /\ p.news = "none"
  PROVE  Prepared(t)'
<1>1. PICK p \in plans :
         plan' = [plan EXCEPT ![t] = p] /\ Goto(t, IF p.type = "none" THEN "unlock" ELSE "commit")
  BY DEF Decide
<1>2. /\ pc[t] = "wal" /\ plan'[t] = p /\ req'[t] = req[t] /\ req[t].op = op
      /\ todo'[t] = todo[t]
      /\ pc'[t] = IF p.type = "none" THEN "unlock" ELSE "commit"
  BY <1>1 DEF Decide, Goto, Typed, TypeOK
<1> QED
  BY <1>2 DEF Prepared, Sound

\* Every decision announces what it writes.
LEMMA DecisionsPrepared ==
  ASSUME NEW t \in Threads, Typed, Prepared(t),
         \/ Set(t) \/ Import(t) \/ Delete(t) \/ Clear(t) \/ Increment(t)
         \/ ListPush(t) \/ DeleteFromList(t) \/ SetIfAbsent(t)
  PROVE  Prepared(t)'
<1> USE DEF Write, Erase, Leave, Sound
<1>1. pc[t] = "wal"
  BY DEF Set, Import, Delete, Clear, Increment, ListPush, DeleteFromList, SetIfAbsent, Decide
<1>2. req[t] \in Request
  BY <1>1, StoreAssumption DEF Typed, Placed
<1>3. Live(t) \in Entry \cup {None}
  BY <1>2, LiveAtType DEF Live, Found, Typed, TypeOK, Index, Request
<1>4. Live(t) # None => Live(t).n \in Int
  BY <1>3 DEF Entry
<1>5. \A len \in Int : ListOf(t, len) # None
  BY <1>1, ListOfType, EntryAssumption
<1>6. req[t].op \in {"set", "import"} => ent[t] # None
  BY <1>1 DEF Prepared
<1>7. CASE Set(t)
  <2>1. Sound(Write(ent[t], Ok(0), "present"))
    BY <1>6, <1>7 DEF Set, Decide
  <2> QED
    BY <1>7, <2>1, DecidePrepared DEF Set
<1>8. CASE Import(t)
  <2>1. Sound(Write(ent[t], Ok(0), "none"))
    BY <1>6, <1>8 DEF Import, Decide
  <2> QED
    BY <1>8, <2>1, DecidePrepared DEF Import
<1>9. CASE Delete(t)
  BY <1>9, DecidePrepared DEF Delete
<1>10. CASE Clear(t)
  BY <1>10, DecidePrepared DEF Clear
<1>11. CASE Increment(t)
  <2> DEFINE next == Saturate((IF Live(t) = None THEN 0 ELSE Live(t).n) + req[t].n)
             e == [kind |-> "int", n |-> next, enc |-> None, exp |-> Deadline(req[t].ttl, now)]
  <2>1. next \in Int
    BY <1>2, <1>4, SaturateType DEF Request
  <2>2. Deadline(req[t].ttl, now) \in Deadlines
    <3>1. now \in Nat /\ req[t].ttl \in Int \cup {Never}
      BY <1>2, StoreAssumption DEF Request, Typed, TypeOK
    <3> QED
      BY <3>1, DeadlineType
  <2>3. e # None
    BY <2>1, <2>2, EntryAssumption DEF Entry, Kinds
  <2>4. Sound(Write(e, Ok(next), "present")) /\ Sound(Leave(Err))
    BY <2>3
  <2> HIDE DEF Sound, Write, Leave
  <2> QED
    BY <1>11, <2>4, DecidePrepared DEF Increment
<1>12. CASE ListPush(t)
  <2> DEFINE len == OneMore(IF Live(t) = None THEN 0 ELSE Live(t).n)
  <2>1. len \in Int
    BY <1>4, OneMoreType
  <2>2. Sound(Write(ListOf(t, len), Ok(len), "present")) /\ Sound(Leave(Err))
    BY <1>5, <2>1
  <2> HIDE DEF Sound, Write, Leave
  <2> QED
    BY <1>12, <2>2, DecidePrepared DEF ListPush
<1>13. CASE DeleteFromList(t)
  <2> DEFINE left(m) == Live(t).n - m
             outcome(m) ==
               IF m = 0 THEN Leave(No)
               ELSE IF left(m) = 0 THEN Erase(Ok(1), "absent")
               ELSE IF ~CanSeal(req[t].enc) THEN Leave(Err)
               ELSE Write(ListOf(t, left(m)), Ok(1), "present")
             plans == IF Found(t) = None THEN {Leave(No)}
                      ELSE IF Live(t) = None THEN {Erase(No, "absent")}
                      ELSE IF NotAList(t) THEN {Leave(Err)}
                      ELSE {outcome(m) : m \in 0..Live(t).n}
  <2>1. ASSUME Live(t) # None, NEW m \in 0..Live(t).n
        PROVE  Sound(outcome(m))
    <3>1. left(m) \in Int
      BY <1>4, <2>1
    <3>2. ListOf(t, left(m)) # None
      BY <1>5, <3>1
    <3> QED
      BY <3>2
  <2>2. \A p \in plans : Sound(p)
    <3> HIDE DEF outcome
    <3>1. Sound(Leave(No)) /\ Sound(Erase(No, "absent")) /\ Sound(Leave(Err))
      OBVIOUS
    <3> HIDE DEF Sound
    <3> QED
      BY <2>1, <3>1
  <2>3. Decide(t, "delete_from_list", plans)
    BY <1>13 DEF DeleteFromList
  <2> HIDE DEF plans
  <2> QED
    BY <2>2, <2>3, DecidePrepared
<1>14. CASE SetIfAbsent(t)
  <2>1. NewEntry(req[t]) # None
    BY <1>2, NewEntryType, StoreAssumption, EntryAssumption DEF Typed, TypeOK
  <2>2. Sound(Write(NewEntry(req[t]), Ok(1), "present"))
    BY <2>1
  <2> QED
    BY <1>14, <2>2, DecidePrepared DEF SetIfAbsent
<1> QED
  BY <1>7, <1>8, <1>9, <1>10, <1>11, <1>12, <1>13, <1>14

\* A step that decides nothing, prepares nothing, or returns.
LEMMA OnwardPrepared ==
  ASSUME NEW t \in Threads, Typed, Prepared(t),
         \/ LockCache(t) \/ SetIfAbsentReturns(t) \/ Commit(t) \/ CommitFails(t)
         \/ Unlock(t) \/ Publish(t)
         \/ ReadEntry(t) \/ CheckEntry(t) \/ CollectExpired(t) \/ RemoveExpired(t)
         \/ LogExpiry(t) \/ PublishExpiry(t) \/ ExpiryDone(t)
         \/ OpenTmp(t) \/ WriteTmp(t) \/ RenameTmp(t) \/ Reopen(t) \/ CloseLog(t)
         \/ LogFails(t)
  PROVE  Prepared(t)'
<1> USE DEF scratch
<1>6. LogFails(t) => Return(t)
  BY LogFailsReturns
<1>1. CASE Return(t)
  <2>1. pc'[t] = "idle" /\ plan'[t] = None
    BY <1>1 DEF Return, Goto, Typed, TypeOK
  <2> QED
    BY <2>1 DEF Prepared
<1>2. CASE Commit(t)
  <2>1. /\ pc[t] = "commit" /\ UNCHANGED <<req, plan>> /\ todo'[t] \subseteq todo[t]
        /\ pc'[t] \in {"commit", "unlock"}
    BY <1>2 DEF Commit, Goto, Typed, TypeOK
  <2> QED
    BY <2>1 DEF Prepared
<1>3. CASE CommitFails(t)
  <2>1. pc'[t] = "unlock" /\ plan'[t] = Leave(Err)
    BY <1>3 DEF CommitFails, Goto, Typed, TypeOK
  <2> QED
    BY <2>1 DEF Prepared, Leave, Sound
<1>4. CASE LockCache(t) \/ SetIfAbsentReturns(t) \/ (Unlock(t) /\ ~Return(t))
  <2>1. /\ UNCHANGED scratch
        /\ \/ pc[t] = "cache" /\ pc'[t] = "wal"
           \/ pc[t] = "wal" /\ pc'[t] = "unlock"
           \/ pc[t] = "unlock" /\ pc'[t] = "publish" /\ plan[t] # None
    BY <1>4 DEF LockCache, SetIfAbsentReturns, Unlock, Goto, Typed, TypeOK
  <2> QED
    BY <2>1 DEF Prepared
<1>5. CASE /\ ~Return(t) /\ ~Commit(t) /\ ~CommitFails(t)
           /\ ~LockCache(t) /\ ~SetIfAbsentReturns(t) /\ ~Unlock(t)
  <2>1. /\ UNCHANGED plan
        /\ pc[t] \notin {"cache", "wal", "commit", "unlock", "publish"}
        /\ pc'[t] \notin {"cache", "wal", "commit", "unlock", "publish"}
    BY <1>5, <1>6
            DEF Publish, ReadEntry, CheckEntry, CollectExpired, RemoveExpired, LogExpiry,
                PublishExpiry, ExpiryDone, OpenTmp, WriteTmp, RenameTmp, Reopen, CloseLog,
                Goto, Typed, TypeOK
  <2> QED
    BY <2>1 DEF Prepared
<1> QED
  BY <1>1, <1>2, <1>3, <1>4, <1>5, <1>6

LEMMA PreparedStep == Typed /\ PreparedInv /\ [Next]_vars => PreparedInv'
<1> SUFFICES ASSUME Typed, PreparedInv, [Next]_vars, NEW u \in Threads
             PROVE  Prepared(u)'
  BY DEF PreparedInv
<1>1. Prepared(u)
  BY DEF PreparedInv
<1>2. CASE Begin(u) \/ Call(u) \/ CommitFails(u) \/ LogFails(u)
  BY <1>1, <1>2, BeginPrepared, DecisionsPrepared, OnwardPrepared DEF Call
<1>3. ASSUME NEW t \in Threads \ {u},
             Begin(t) \/ Call(t) \/ CommitFails(t) \/ LogFails(t)
      PROVE  Prepared(u)'
  BY <1>1, <1>3, OthersKeep DEF Prepared
<1>4. CASE Crash
  BY <1>4 DEF Crash, Prepared
<1>5. CASE SetEncryptionKey \/ Tick \/ Open \/ UNCHANGED vars
  <2>1. UNCHANGED thread
    BY <1>5 DEF SetEncryptionKey, Tick, Open, vars
  <2> QED
    BY <1>1, <2>1 DEF Prepared, thread, scratch
<1> QED
  BY <1>2, <1>3, <1>4, <1>5 DEF Next

-----------------------------------------------------------------------------
(* What was decided is what the map of now calls for, whatever the other    *)
(* calls do: the lock of the cache is held until it is done.                *)

\* import stores entries as it is given them and seals nothing.
ImportsPlain == \A r \in Requests : r.op = "import" => ~r.enc

Seals(r) == IF r.enc THEN EncKeys ELSE {None}

\* The entry a set or an import has prepared: the clock was read before the lock.
Timely(e, r) ==
  \E at \in 0..now, c \in Seals(r) :
    e = [kind |-> r.kind, n |-> r.n, enc |-> c, exp |-> Deadline(r.ttl, at)]

SealedList(t, e, len) ==
  \E c \in Seals(req[t]) :
    e = [kind |-> "list", n |-> len, enc |-> c, exp |-> KeptDeadline(t)]

\* The plans that answer the call as the map of now would.
ChosenPut(t, p) ==
  /\ req[t].op \in {"set", "import", "set_if_absent"} /\ p.type = "set"
  /\ Timely(p.ent, req[t])
  /\ IF req[t].op = "set_if_absent" THEN p.ret = Ok(1) /\ Live(t) = None ELSE p.ret = Ok(0)

ChosenAdd(t, p) ==
  LET sum == Saturate((IF Live(t) = None THEN 0 ELSE Live(t).n) + req[t].n)
  IN /\ req[t].op = "increment" /\ p.type = "set"
     /\ Live(t) # None => Live(t).kind = "int" /\ Live(t).enc = None
     /\ p.ret = Ok(sum)
     /\ p.ent = [kind |-> "int", n |-> sum, enc |-> None, exp |-> Deadline(req[t].ttl, now)]

ChosenPush(t, p) ==
  LET len == OneMore(IF Live(t) = None THEN 0 ELSE Live(t).n)
  IN /\ req[t].op = "list_push" /\ p.type = "set"
     /\ Live(t) # None => Live(t).kind = "list"
     /\ p.ret = Ok(len) /\ SealedList(t, p.ent, len)

ChosenPull(t, p) ==
  /\ req[t].op = "delete_from_list"
  /\ \/ p.type = "delete" /\ p.ret = No /\ Live(t) = None
     \/ /\ Live(t) # None /\ Live(t).kind = "list" /\ p.ret = Ok(1)
        /\ \/ p.type = "delete" /\ 0 \in 0..(Live(t).n - 1)
           \/ /\ p.type = "set"
              /\ \E left \in 1..(Live(t).n - 1) : SealedList(t, p.ent, left)

ChosenRemoval(t, p) ==
  \/ req[t].op = "delete" /\ p.type = "delete" /\ p.ret = Ok(1)
  \/ req[t].op = "clear" /\ p.type = "clear" /\ p.ret = Ok(0)

Choice(t, p) ==
  \/ ChosenPut(t, p) \/ ChosenAdd(t, p) \/ ChosenPush(t, p)
  \/ ChosenPull(t, p) \/ ChosenRemoval(t, p)

Faithful(t) ==
  /\ pc[t] \in {"cache", "wal"} /\ req[t].op \in {"set", "import"} => Timely(ent[t], req[t])
  /\ pc[t] = "commit" => Choice(t, plan[t])
  /\ pc[t] = "idle" => ret[t] = NoAnswer

FaithfulInv == \A t \in Threads : Faithful(t)

LEMMA FaithfulInit == Init => FaithfulInv
BY DEF Init, FaithfulInv, Faithful

LEMMA BeginFaithful ==
  ASSUME NEW t \in Threads, ImportsPlain, Typed, Begin(t)
  PROVE  Faithful(t)'
<1>1. PICK r \in Requests :
         /\ r.op = "set" => CanSeal(r.enc)
         /\ req' = [req EXCEPT ![t] = r]
         /\ ent' = [ent EXCEPT ![t] = IF r.op \in {"set", "import"} THEN NewEntry(r) ELSE None]
         /\ Goto(t, FirstLock(r.op))
  BY DEF Begin
<1>2. /\ pc'[t] \in {"read", "wal", "cache"} /\ req'[t] = r /\ UNCHANGED now
      /\ r.op \in {"set", "import"} => ent'[t] = NewEntry(r)
  BY <1>1 DEF Begin, Goto, FirstLock, Typed, TypeOK
<1>3. now \in 0..now /\ ekey \in EncKeys \cup {None}
  BY StoreAssumption DEF Typed, TypeOK
<1>4. r.op \in {"set", "import"} => Seal(r.enc) \in Seals(r)
  BY <1>1, <1>3 DEF ImportsPlain, CanSeal, Seal, Seals
<1>5. r.op \in {"set", "import"} => Timely(NewEntry(r), r)
  BY <1>3, <1>4 DEF Timely, NewEntry
<1> QED
  BY <1>2, <1>5 DEF Faithful, Timely, Seals

\* While neither entries nor clock change, a choice stays right.
LEMMA ChoiceStays ==
  ASSUME NEW t \in Threads, NEW p, Choice(t, p), UNCHANGED <<now, cache>>, req'[t] = req[t]
  PROVE  Choice(t, p)'
<1>1. Live(t)' = Live(t) /\ KeptDeadline(t)' = KeptDeadline(t)
  BY DEF Live, Found, KeptDeadline
<1>2. \A e, r : Timely(e, r)' = Timely(e, r)
  BY DEF Timely, Seals
<1>3. \A e, len : SealedList(t, e, len)' = SealedList(t, e, len)
  BY <1>1 DEF SealedList, Seals
<1>4. ChosenPut(t, p) => ChosenPut(t, p)'
  BY <1>1, <1>2 DEF ChosenPut
<1>5. ChosenAdd(t, p) => ChosenAdd(t, p)'
  BY <1>1 DEF ChosenAdd
<1>6. ChosenPush(t, p) => ChosenPush(t, p)'
  BY <1>1, <1>3 DEF ChosenPush
<1>7. ChosenPull(t, p) => ChosenPull(t, p)'
  BY <1>1, <1>3 DEF ChosenPull
<1>8. ChosenRemoval(t, p) => ChosenRemoval(t, p)'
  BY DEF ChosenRemoval
<1> QED
  BY <1>4, <1>5, <1>6, <1>7, <1>8 DEF Choice

LEMMA DecideFaithful ==
  ASSUME NEW t \in Threads, Typed, NEW op, NEW plans, Decide(t, op, plans),
         \A p \in plans : p.type = "none" \/ Choice(t, p)
  PROVE  Faithful(t)'
<1>1. PICK p \in plans :
         plan' = [plan EXCEPT ![t] = p] /\ Goto(t, IF p.type = "none" THEN "unlock" ELSE "commit")
  BY DEF Decide
<1>2. /\ pc'[t] = IF p.type = "none" THEN "unlock" ELSE "commit"
      /\ plan'[t] = p /\ UNCHANGED <<now, cache, req>>
  BY <1>1 DEF Decide, Goto, mem, Typed, TypeOK
<1>3. Choice(t, p) => Choice(t, p)'
  BY <1>2, ChoiceStays
<1> QED
  BY <1>1, <1>2, <1>3 DEF Faithful

LEMMA DecisionsFaithful ==
  ASSUME NEW t \in Threads, Typed, Faithful(t),
         \/ Set(t) \/ Import(t) \/ Delete(t) \/ Clear(t) \/ Increment(t)
         \/ ListPush(t) \/ DeleteFromList(t) \/ SetIfAbsent(t)
  PROVE  Faithful(t)'
<1>1. pc[t] = "wal"
  BY DEF Set, Import, Delete, Clear, Increment, ListPush, DeleteFromList, SetIfAbsent, Decide
<1>2. req[t] \in Request /\ req[t].enc \in BOOLEAN
  BY <1>1, StoreAssumption DEF Typed, Placed, Request
<1>3. Live(t) \in Entry \cup {None}
  BY <1>2, LiveAtType DEF Live, Found, Typed, TypeOK, Index, Request
<1>4. Live(t) # None => Live(t).n \in Int
  BY <1>3 DEF Entry
<1>5. ekey \in EncKeys \cup {None}
  BY DEF Typed, TypeOK
<1>6. CanSeal(req[t].enc) => Seal(req[t].enc) \in Seals(req[t])
  BY <1>2, <1>5 DEF CanSeal, Seal, Seals
<1>7. \A len : CanSeal(req[t].enc) => SealedList(t, ListOf(t, len), len)
  BY <1>6 DEF SealedList, ListOf
<1>8. CASE Set(t)
  <2>1. ChosenPut(t, Write(ent[t], Ok(0), "present"))
    BY <1>1, <1>8 DEF Set, Decide, Faithful, ChosenPut, Write
  <2> QED
    BY <1>8, <2>1, DecideFaithful DEF Set, Choice
<1>9. CASE Import(t)
  <2>1. ChosenPut(t, Write(ent[t], Ok(0), "none"))
    BY <1>1, <1>9 DEF Import, Decide, Faithful, ChosenPut, Write
  <2> QED
    BY <1>9, <2>1, DecideFaithful DEF Import, Choice
<1>10. CASE Delete(t)
  <2>1. ChosenRemoval(t, Erase(Ok(1), "absent")) /\ Leave(No).type = "none"
    BY <1>10 DEF Delete, Decide, ChosenRemoval, Erase, Leave
  <2> QED
    BY <1>10, <2>1, DecideFaithful DEF Delete, Choice
<1>11. CASE Clear(t)
  <2> DEFINE p == [type |-> "clear", ent |-> None, ret |-> Ok(0), news |-> "cleared"]
  <2>1. ChosenRemoval(t, p)
    BY <1>11 DEF Clear, Decide, ChosenRemoval
  <2>2. Decide(t, "clear", {p})
    BY <1>11 DEF Clear
  <2> HIDE DEF p
  <2> QED
    BY <2>1, <2>2, DecideFaithful DEF Choice
<1>12. CASE Increment(t)
  <2> DEFINE next == Saturate((IF Live(t) = None THEN 0 ELSE Live(t).n) + req[t].n)
             e == [kind |-> "int", n |-> next, enc |-> None, exp |-> Deadline(req[t].ttl, now)]
             refused == Live(t) # None /\ (Live(t).enc # None \/ Live(t).kind # "int")
             p == IF refused THEN Leave(Err) ELSE Write(e, Ok(next), "present")
  <2>1. Decide(t, "increment", {p})
    BY <1>12 DEF Increment
  <2>2. req[t].op = "increment"
    BY <2>1 DEF Decide
  <2>3. p.type = "none" \/ ChosenAdd(t, p)
    BY <2>2 DEF ChosenAdd, Write, Leave
  <2> HIDE DEF p
  <2> QED
    BY <2>1, <2>3, DecideFaithful DEF Choice
<1>13. CASE ListPush(t)
  <2> DEFINE len == OneMore(IF Live(t) = None THEN 0 ELSE Live(t).n)
             p == IF NotAList(t) \/ ~CanSeal(req[t].enc) THEN Leave(Err)
                  ELSE Write(ListOf(t, len), Ok(len), "present")
  <2>1. Decide(t, "list_push", {p})
    BY <1>13 DEF ListPush
  <2>2. req[t].op = "list_push"
    BY <2>1 DEF Decide
  <2>3. p.type = "none" \/ ChosenPush(t, p)
    BY <1>7, <2>2 DEF ChosenPush, NotAList, Write, Leave
  <2> HIDE DEF p
  <2> QED
    BY <2>1, <2>3, DecideFaithful DEF Choice
<1>14. CASE DeleteFromList(t)
  <2> DEFINE left(m) == Live(t).n - m
             outcome(m) ==
               IF m = 0 THEN Leave(No)
               ELSE IF left(m) = 0 THEN Erase(Ok(1), "absent")
               ELSE IF ~CanSeal(req[t].enc) THEN Leave(Err)
               ELSE Write(ListOf(t, left(m)), Ok(1), "present")
             plans == IF Found(t) = None THEN {Leave(No)}
                      ELSE IF Live(t) = None THEN {Erase(No, "absent")}
                      ELSE IF NotAList(t) THEN {Leave(Err)}
                      ELSE {outcome(m) : m \in 0..Live(t).n}
             Fits(p) == p.type = "none" \/ ChosenPull(t, p)
  <2>1. Decide(t, "delete_from_list", plans)
    BY <1>14 DEF DeleteFromList
  <2>2. req[t].op = "delete_from_list"
    BY <2>1 DEF Decide
  <2>3. Fits(Leave(No)) /\ Fits(Leave(Err)) /\ (Live(t) = None => Fits(Erase(No, "absent")))
    BY <2>2 DEF ChosenPull, Leave, Erase
  <2>4. ASSUME Live(t) # None, ~NotAList(t), NEW m \in 0..Live(t).n
        PROVE  Fits(outcome(m))
    <3>1. Live(t).n \in Int /\ Live(t).kind = "list"
      BY <1>4, <2>4 DEF NotAList
    <3>2. CASE m = 0 \/ (left(m) # 0 /\ ~CanSeal(req[t].enc))
      BY <3>1, <3>2 DEF Leave
    <3>3. CASE m # 0 /\ left(m) = 0
      BY <2>2, <2>4, <3>1, <3>3 DEF Erase, ChosenPull
    <3>4. CASE m # 0 /\ left(m) # 0 /\ CanSeal(req[t].enc)
      <4>1. left(m) \in 1..(Live(t).n - 1)
        BY <3>1, <3>4
      <4>2. SealedList(t, ListOf(t, left(m)), left(m))
        BY <1>7, <3>4
      <4> QED
        BY <2>2, <2>4, <3>1, <3>4, <4>1, <4>2 DEF Write, ChosenPull
    <3> QED
      BY <3>2, <3>3, <3>4
  <2>5. \A p \in plans : Fits(p)
    <3> HIDE DEF outcome, Fits
    <3> QED
      BY <2>3, <2>4
  <2> HIDE DEF plans
  <2> QED
    BY <2>1, <2>5, DecideFaithful DEF Choice
<1>15. CASE SetIfAbsent(t)
  <2>1. now \in 0..now
    BY StoreAssumption DEF Typed, TypeOK
  <2>2. Timely(NewEntry(req[t]), req[t])
    BY <1>6, <1>15, <2>1 DEF SetIfAbsent, Timely, NewEntry
  <2>3. ChosenPut(t, Write(NewEntry(req[t]), Ok(1), "present"))
    BY <1>15, <2>2 DEF SetIfAbsent, ChosenPut, Write
  <2> QED
    BY <1>15, <2>3, DecideFaithful DEF SetIfAbsent, Choice
<1> QED
  BY <1>8, <1>9, <1>10, <1>11, <1>12, <1>13, <1>14, <1>15

\* A call that goes on to where nothing is decided, or returns.
LEMMA OnwardFaithful ==
  ASSUME NEW t \in Threads, Typed,
         \/ SetIfAbsentReturns(t) \/ CommitFails(t) \/ Unlock(t) \/ Publish(t)
         \/ ReadEntry(t) \/ CheckEntry(t) \/ CollectExpired(t)
         \/ RemoveExpired(t) \/ LogExpiry(t) \/ PublishExpiry(t) \/ ExpiryDone(t)
         \/ OpenTmp(t) \/ WriteTmp(t) \/ RenameTmp(t) \/ Reopen(t) \/ CloseLog(t)
         \/ LogFails(t)
  PROVE  Faithful(t)'
<1>3. LogFails(t) => Return(t)
  BY LogFailsReturns
<1>1. CASE Return(t)
  <2>1. pc'[t] = "idle" /\ ret'[t] = NoAnswer
    BY <1>1 DEF Return, Goto, Typed, TypeOK
  <2> QED
    BY <2>1 DEF Faithful
<1>2. CASE ~Return(t)
  <2>1. pc'[t] \notin {"cache", "wal", "commit", "idle"}
    BY <1>2, <1>3
            DEF SetIfAbsentReturns, CommitFails, Unlock, Publish, ReadEntry, CheckEntry,
                CollectExpired, RemoveExpired, LogExpiry, PublishExpiry, ExpiryDone, OpenTmp,
                WriteTmp, RenameTmp, Reopen, CloseLog, Goto, Typed, TypeOK
  <2> QED
    BY <2>1 DEF Faithful
<1> QED
  BY <1>1, <1>2, <1>3

LEMMA CommitFaithful ==
  ASSUME NEW t \in Threads, Typed, Prepared(t), Faithful(t), Commit(t)
  PROVE  Faithful(t)'
<1>1. /\ pc[t] = "commit" /\ UNCHANGED <<now, req, plan>>
      /\ pc'[t] = "unlock" \/ (pc'[t] = "commit" /\ todo'[t] # {})
  BY DEF Commit, Goto, Typed, TypeOK
<1>2. pc'[t] = "commit" => req[t].op = "import"
  BY <1>1 DEF Commit, Target, Prepared, Typed, TypeOK
<1>3. req[t].op = "import" => Choice(t, plan[t])'
  BY <1>1 DEF Faithful, Choice, ChosenPut, ChosenAdd, ChosenPush, ChosenPull, ChosenRemoval,
              Timely, Seals
<1> QED
  BY <1>1, <1>2, <1>3 DEF Faithful

LEMMA WaitingFaithful ==
  ASSUME NEW t \in Threads, Typed, Faithful(t),
         LockCache(t) \/ SetEncryptionKey \/ Tick \/ Crash \/ Open \/ UNCHANGED vars
  PROVE  Faithful(t)'
<1> USE DEF mem, thread, scratch
<1>1. CASE Crash
  BY <1>1 DEF Crash, Faithful
<1>2. CASE ~Crash
  <2>1. now \in Nat /\ now' \in {now, now + 1}
    BY <1>2, StoreAssumption
       DEF LockCache, SetEncryptionKey, Tick, Open, vars, Typed, TypeOK
  <2>2. \A e, r : Timely(e, r) => Timely(e, r)'
    BY <2>1 DEF Timely, Seals
  <2>3. CASE LockCache(t)
    <3>1. pc[t] = "cache" /\ pc'[t] = "wal" /\ UNCHANGED <<req, ent>>
      BY <2>3 DEF LockCache, Goto, Typed, TypeOK
    <3> QED
      BY <2>2, <3>1 DEF Faithful
  <2>4. CASE ~LockCache(t)
    <3>1. UNCHANGED thread
      BY <1>2, <2>4 DEF SetEncryptionKey, Tick, Open, vars
    <3>2. pc[t] = "commit" => UNCHANGED <<now, cache>>
      BY <1>2, <2>4 DEF SetEncryptionKey, Tick, Open, vars, Typed, Placed
    <3>3. ASSUME pc[t] = "commit" PROVE Choice(t, plan[t])'
      <4>1. PICK p : p = plan[t] /\ Choice(t, p)
        BY <3>3 DEF Faithful
      <4>2. UNCHANGED <<now, cache, req>> /\ p = plan'[t]
        BY <3>1, <3>2, <3>3, <4>1
      <4>3. Choice(t, p)'
        BY <4>1, <4>2, ChoiceStays
      <4> QED
        BY <4>2, <4>3
    <3> QED
      BY <2>2, <3>1, <3>3 DEF Faithful
  <2> QED
    BY <2>3, <2>4
<1> QED
  BY <1>1, <1>2

\* The lock of the cache keeps the others from what a call has decided on.
LEMMA OthersFaithful ==
  ASSUME Typed, LockInv, NEW t \in Threads,
         Begin(t) \/ Call(t) \/ CommitFails(t) \/ LogFails(t),
         NEW u \in Threads \ {t}, Faithful(u)
  PROVE  Faithful(u)'
<1> USE DEF mem
<1>1. /\ pc'[u] = pc[u] /\ req'[u] = req[u] /\ ent'[u] = ent[u]
      /\ plan'[u] = plan[u] /\ ret'[u] = ret[u]
  BY OthersKeep
<1>2. CASE UNCHANGED <<now, cache>>
  <2>1. pc[u] = "commit" => Choice(u, plan[u])'
    <3> SUFFICES ASSUME pc[u] = "commit" PROVE Choice(u, plan[u])'
      OBVIOUS
    <3>1. PICK p : p = plan[u] /\ Choice(u, p)
      BY DEF Faithful
    <3>2. Choice(u, p)'
      BY <1>1, <1>2, <3>1, ChoiceStays
    <3> QED
      BY <1>1, <3>1, <3>2
  <2> QED
    BY <1>1, <1>2, <2>1 DEF Faithful, Timely, Seals
<1>3. CASE Commit(t) \/ CommitFails(t) \/ RemoveExpired(t)
  <2>1. pc[t] = "commit" \/ wr = None
    BY <1>3 DEF Commit, CommitFails, RemoveExpired
  <2>2. pc[u] # "commit"
    BY <2>1, StoreAssumption DEF LockInv, Writing
  <2>3. UNCHANGED now
    BY <1>3 DEF Commit, CommitFails, RemoveExpired
  <2> QED
    BY <1>1, <2>2, <2>3 DEF Faithful, Timely, Seals
<1>4. CASE ~(Commit(t) \/ CommitFails(t) \/ RemoveExpired(t))
  <2>1. CASE \E op, plans : Decide(t, op, plans)
    BY <1>2, <2>1 DEF Decide
  <2>2. CASE ~ \E op, plans : Decide(t, op, plans)
    <3>1. UNCHANGED <<now, cache>>
      BY <1>4, <2>2, LogFailsReturns
         DEF Begin, Call, Set, Import, Delete, Clear, Increment, ListPush, DeleteFromList,
             SetIfAbsent, LockCache, SetIfAbsentReturns, Unlock, Publish, ReadEntry, CheckEntry,
             CollectExpired, LogExpiry, PublishExpiry, ExpiryDone, OpenTmp, WriteTmp,
             RenameTmp, Reopen, CloseLog
    <3> QED
      BY <1>2, <3>1
  <2> QED
    BY <2>1, <2>2
<1> QED
  BY <1>3, <1>4

LEMMA FaithfulStep ==
  ImportsPlain /\ Typed /\ LockInv /\ PreparedInv /\ FaithfulInv /\ [Next]_vars => FaithfulInv'
<1> SUFFICES ASSUME ImportsPlain, Typed, LockInv, PreparedInv, FaithfulInv, [Next]_vars,
                    NEW u \in Threads
             PROVE  Faithful(u)'
  BY DEF FaithfulInv
<1>1. Prepared(u) /\ Faithful(u)
  BY DEF PreparedInv, FaithfulInv
<1>2. CASE Begin(u) \/ Call(u) \/ CommitFails(u) \/ LogFails(u)
  BY <1>1, <1>2, BeginFaithful, DecisionsFaithful, CommitFaithful, OnwardFaithful,
     WaitingFaithful DEF Call
<1>3. ASSUME NEW t \in Threads \ {u},
             Begin(t) \/ Call(t) \/ CommitFails(t) \/ LogFails(t)
      PROVE  Faithful(u)'
  BY <1>1, <1>3, OthersFaithful
<1>4. CASE SetEncryptionKey \/ Tick \/ Crash \/ Open \/ UNCHANGED vars
  BY <1>1, <1>4, WaitingFaithful
<1> QED
  BY <1>2, <1>3, <1>4 DEF Next

-----------------------------------------------------------------------------
(* One thread.  At rest log and cache agree because at every step between   *)
(* they agree but for what the call in progress is about to mend.           *)

Alone == \E t : Threads = {t}

\* A key about to be announced is there.
Announces(t) ==
  pc[t] \in {"unlock", "publish"} /\ plan[t] # None /\ plan[t].news = "present"
    => cache[req[t].key] # None

\* What a call found expired is still there, and still expired, or gone.
Expiring(t) ==
  /\ pc[t] = "check" => ent[t] = cache[req[t].key]
  /\ pc[t] \in {"remove", "log", "expired"} =>
       \A k \in todo[t] : cache[k] # None => IsExpired(cache[k], now)
  /\ pc[t] \in {"log", "expired"} => cache[cur[t]] = None

\* A compaction writes the index of now to a file that is not the log, and then it is.
Rewriting(t) ==
  /\ pc[t] \in {"write", "rename"} => tmp \in Inodes /\ file[t] = tmp
  /\ pc[t] = "rename" => disk[tmp].img = cache
  /\ pc[t] = "reopen" => path \in Inodes /\ path # writer /\ disk[path].img = cache

\* The call is about to announce that the key is gone.
Telling(t, k) ==
  \/ /\ pc[t] \in {"unlock", "publish"} /\ plan[t] # None
     /\ plan[t].news = "cleared" \/ (plan[t].news = "absent" /\ req[t].key = k)
  \/ pc[t] \in {"log", "expired"} /\ cur[t] = k

Heard(t) ==
  \A k \in Keys : seen[k] => cache[k] # None \/ k \in silent \/ Telling(t, k)

\* The temporary file is another than the log and than the file written to.
Names == tmp # None => tmp # path /\ (up => tmp # writer)

\* But for a compaction about to reopen it, the log is the file written to and
\* holds every append, until one misses the disk or a reopening fails.
Logged(t) ==
  up /\ pc[t] # "reopen" /\ path # None /\ ~dirty
    => path = writer /\ disk[path].img = ahead

AloneAt(t) ==
  /\ Heard(t) /\ Names /\ Logged(t) /\ Mirrored
  /\ Announces(t) /\ Expiring(t) /\ Rewriting(t)

AloneInv == \A t \in Threads : AloneAt(t)

LEMMA AloneInit == Init => AloneInv
BY DEF Init, AloneInv, AloneAt, Heard, Names, Logged, Mirrored, Announces,
       Expiring, Rewriting

\* A returning call leaves nothing half done.
LEMMA ReturnAlone ==
  ASSUME NEW t \in Threads, Typed, Return(t)
  PROVE  /\ pc'[t] = "idle"
         /\ Announces(t)' /\ Expiring(t)' /\ Rewriting(t)'
<1>1. pc'[t] = "idle" /\ plan'[t] = None
  BY DEF Return, Goto, Typed, TypeOK
<1> QED
  BY <1>1 DEF Announces, Expiring, Rewriting

\* A step that touches neither entries nor files.
LEMMA LocalAlone ==
  ASSUME NEW t \in Threads, AloneAt(t),
         UNCHANGED <<up, now, cache, seen, silent, files>>,
         pc[t] # "reopen", pc'[t] # "reopen",
         \A k \in Keys : Telling(t, k) => Telling(t, k)'
  PROVE  Heard(t)' /\ Names' /\ Logged(t)' /\ Mirrored'
<1>1. Heard(t)'
  BY DEF AloneAt, Heard
<1>2. Names' /\ Logged(t)' /\ Mirrored'
  BY DEF AloneAt, Names, Logged, Mirrored, LiveIndex, files
<1> QED
  BY <1>1, <1>2

\* An append keeps the log true to the cache, or is known to have failed.
LEMMA AppendAlone ==
  ASSUME NEW t \in Threads, Typed, AloneAt(t), up, pc[t] # "reopen", UNCHANGED up,
         NEW type, NEW key, NEW e, AppendRecord(type, key, e) \/ AppendFails(type, key, e)
  PROVE  /\ Names' /\ Logged(t)'
         /\ UNCHANGED <<path, tmp, writer>>
         /\ ~dirty' => ~dirty /\ ahead' = Apply(ahead, type, key, e)
<1>1. writer \in Inodes /\ disk \in [Inodes -> [img : Index, torn : BOOLEAN]]
  BY DEF Typed, TypeOK, Placed
<1>2. UNCHANGED <<path, tmp, writer>>
  BY DEF AppendRecord, AppendFails
<1>3. Names'
  BY <1>2 DEF AloneAt, Names
<1>4. ~dirty' => ~dirty /\ ahead' = Apply(ahead, type, key, e) /\ disk'[writer].img = ahead'
  <2>1. CASE AppendFails(type, key, e)
    BY <2>1 DEF AppendFails
  <2>2. CASE AppendRecord(type, key, e)
    <3>1. dirty' <=> dirty \/ disk[writer].torn
      BY <2>2 DEF AppendRecord
    <3>2. ~disk[writer].torn => disk'[writer].img = ahead'
      BY <1>1, <2>2 DEF AppendRecord, Flushed
    <3> QED
      BY <2>2, <3>1, <3>2 DEF AppendRecord
  <2> QED
    BY <2>1, <2>2
<1>5. Logged(t)'
  BY <1>2, <1>4 DEF AloneAt, Logged
<1> QED
  BY <1>2, <1>3, <1>4, <1>5

-----------------------------------------------------------------------------
(* Writes.                                                                  *)

LEMMA BeginAlone ==
  ASSUME NEW t \in Threads, Typed, AloneAt(t), Begin(t)
  PROVE  AloneAt(t)'
<1> USE DEF mem
<1>1. pc[t] = "idle" /\ pc'[t] \in {"read", "wal", "cache"}
  BY DEF Begin, Goto, FirstLock, Typed, TypeOK
<1>2. Announces(t)' /\ Expiring(t)' /\ Rewriting(t)'
  BY <1>1 DEF Announces, Expiring, Rewriting
<1>3. Heard(t)' /\ Names' /\ Logged(t)' /\ Mirrored'
  BY <1>1, LocalAlone DEF Begin, Telling
<1> QED
  BY <1>2, <1>3 DEF AloneAt

\* A decision is announced only when it has been committed.
LEMMA DecisionsAlone ==
  ASSUME NEW t \in Threads, Typed, AloneAt(t), Prepared(t)',
         \/ Set(t) \/ Import(t) \/ Delete(t) \/ Clear(t) \/ Increment(t)
         \/ ListPush(t) \/ DeleteFromList(t) \/ SetIfAbsent(t)
  PROVE  AloneAt(t)'
<1> USE DEF mem
<1>1. PICK op, plans : Decide(t, op, plans)
  BY DEF Set, Import, Delete, Clear, Increment, ListPush, DeleteFromList, SetIfAbsent
<1>2. PICK p \in plans :
         plan' = [plan EXCEPT ![t] = p] /\ Goto(t, IF p.type = "none" THEN "unlock" ELSE "commit")
  BY <1>1 DEF Decide
<1>3. /\ pc[t] = "wal" /\ plan'[t] = p
      /\ pc'[t] = IF p.type = "none" THEN "unlock" ELSE "commit"
  BY <1>1, <1>2 DEF Decide, Goto, Typed, TypeOK
<1>4. Announces(t)'
  BY <1>3 DEF Announces, Prepared, Sound
<1>5. Expiring(t)' /\ Rewriting(t)'
  BY <1>3 DEF Expiring, Rewriting
<1>6. Heard(t)' /\ Names' /\ Logged(t)' /\ Mirrored'
  BY <1>1, <1>3, LocalAlone DEF Decide, Telling
<1> QED
  BY <1>4, <1>5, <1>6 DEF AloneAt

\* Log and cache take the record together, or the log is known to lack it.
LEMMA CommitAlone ==
  ASSUME NEW t \in Threads, Typed, Prepared(t), AloneAt(t), Commit(t)
  PROVE  AloneAt(t)'
<1> USE DEF locks
<1>1. /\ pc[t] = "commit" /\ up /\ UNCHANGED <<up, now, seen, silent, req, ent, plan>>
      /\ req[t] \in Request /\ plan[t] \in Plans
  BY StoreAssumption DEF Commit, Typed, Placed
<1>2. Sound(plan[t]) /\ plan[t].type # "none" /\ plan[t] # None
  BY <1>1, PlanAssumption DEF Prepared
<1>3. PICK k \in Target(t) :
        /\ AppendRecord(plan[t].type, k, plan[t].ent)
        /\ cache' = Apply(cache, plan[t].type, k, plan[t].ent)
        /\ todo' = [todo EXCEPT ![t] = @ \ {k}]
  BY DEF Commit
<1>4. k \in Keys /\ (req[t].op # "import" => k = req[t].key)
  BY <1>1 DEF Target, Request, Typed, TypeOK
<1>5. cache \in Index /\ ahead \in Index
  BY DEF Typed, TypeOK
<1>6. /\ pc'[t] \in {"commit", "unlock"}
      /\ req[t].op # "import" => todo'[t] = {} /\ pc'[t] = "unlock"
  BY <1>1, <1>3 DEF Commit, Goto, Prepared, Typed, TypeOK
<1>7. /\ Names' /\ Logged(t)'
      /\ ~dirty' => ~dirty /\ ahead' = Apply(ahead, plan[t].type, k, plan[t].ent)
  BY <1>1, <1>3, AppendAlone
<1>8. Mirrored'
  BY <1>1, <1>3, <1>4, <1>5, <1>7, ApplyMirrors DEF AloneAt, Mirrored
<1>9. Heard(t)'
  <2> SUFFICES ASSUME NEW j \in Keys, seen[j]
               PROVE  cache'[j] # None \/ j \in silent \/ Telling(t, j)'
    BY <1>1 DEF Heard
  <2>1. cache[j] # None \/ j \in silent
    BY <1>1 DEF AloneAt, Heard, Telling
  <2>2. CASE plan[t].type = "set"
    BY <1>2, <1>3, <1>5, <2>1, <2>2 DEF Apply, Index, Sound
  <2>3. CASE plan[t].type = "clear"
    BY <1>1, <1>2, <1>6, <2>3 DEF Sound, Telling, Prepared
  <2>4. CASE plan[t].type = "delete"
    BY <1>1, <1>2, <1>3, <1>4, <1>5, <1>6, <2>1, <2>4 DEF Apply, Index, Sound, Telling, Prepared
  <2> QED
    BY <1>2, <2>2, <2>3, <2>4 DEF Sound
<1>10. Announces(t)'
  BY <1>1, <1>2, <1>3, <1>4, <1>5, <1>6 DEF Announces, Sound, Apply, Index, Prepared
<1>11. Expiring(t)' /\ Rewriting(t)'
  BY <1>6 DEF Expiring, Rewriting
<1> QED
  BY <1>7, <1>8, <1>9, <1>10, <1>11 DEF AloneAt

\* A write that fails announces nothing; the key a delete took with it is known.
LEMMA CommitFailsAlone ==
  ASSUME NEW t \in Threads, Typed, AloneAt(t), CommitFails(t)
  PROVE  AloneAt(t)'
<1> USE DEF locks
<1>1. /\ pc[t] = "commit" /\ up /\ UNCHANGED <<up, now, seen, req>>
      /\ pc'[t] = "unlock" /\ plan'[t] = Leave(Err)
  BY DEF CommitFails, Goto, Typed, TypeOK, Placed
<1>2. PICK k \in Target(t) :
        /\ AppendFails(plan[t].type, k, plan[t].ent)
        /\ \/ cache' = [cache EXCEPT ![k] = None] /\ silent' = silent \cup {k}
           \/ UNCHANGED <<cache, silent>>
  BY DEF CommitFails
<1>3. Names' /\ Logged(t)' /\ dirty'
  <2>1. UNCHANGED <<path, tmp, writer>> /\ dirty'
    BY <1>2 DEF AppendFails
  <2> QED
    BY <1>1, <2>1 DEF AloneAt, Names, Logged
<1>4. Mirrored'
  BY <1>3 DEF Mirrored
<1>5. Heard(t)'
  BY <1>1, <1>2 DEF AloneAt, Heard, Telling, Typed, TypeOK, Index
<1>6. Announces(t)' /\ Expiring(t)' /\ Rewriting(t)'
  BY <1>1 DEF Leave, Announces, Expiring, Rewriting
<1> QED
  BY <1>3, <1>4, <1>5, <1>6 DEF AloneAt

\* Taking and leaving the locks, and telling the subscribers.
LEMMA LocksAlone ==
  ASSUME NEW t \in Threads, Typed, Prepared(t), AloneAt(t),
         LockCache(t) \/ SetIfAbsentReturns(t) \/ Unlock(t)
  PROVE  AloneAt(t)'
<1> USE DEF mem, scratch
<1>1. CASE LockCache(t) \/ SetIfAbsentReturns(t)
  <2>1. /\ pc[t] \in {"cache", "wal"} /\ pc'[t] \in {"wal", "unlock"}
        /\ UNCHANGED <<up, now, mem, files, scratch>>
    BY <1>1 DEF LockCache, SetIfAbsentReturns, Goto, Typed, TypeOK
  <2>2. Heard(t)' /\ Names' /\ Logged(t)' /\ Mirrored'
    BY <2>1, LocalAlone DEF Telling
  <2>3. Announces(t)' /\ Expiring(t)' /\ Rewriting(t)'
    BY <2>1 DEF Prepared, Announces, Expiring, Rewriting
  <2> QED
    BY <2>2, <2>3 DEF AloneAt
<1>2. CASE Unlock(t) /\ pc'[t] = "publish"
  <2>1. pc[t] = "unlock" /\ plan[t] # None /\ UNCHANGED <<up, now, mem, files, scratch>>
    BY <1>2 DEF Unlock, Return, Goto, Typed, TypeOK
  <2>2. Heard(t)' /\ Names' /\ Logged(t)' /\ Mirrored'
    BY <1>2, <2>1, LocalAlone DEF Telling
  <2>3. Announces(t)' /\ Expiring(t)' /\ Rewriting(t)'
    BY <1>2, <2>1 DEF AloneAt, Announces, Expiring, Rewriting
  <2> QED
    BY <2>2, <2>3 DEF AloneAt
<1>3. CASE Unlock(t) /\ pc'[t] # "publish"
  <2>1. pc[t] = "unlock" /\ Return(t) /\ (plan[t] # None => plan[t].news = "none")
    BY <1>3 DEF Unlock, Goto, Typed, TypeOK
  <2>2. UNCHANGED <<up, now, mem, files>>
    BY <1>3 DEF Unlock
  <2>3. Heard(t)' /\ Names' /\ Logged(t)' /\ Mirrored'
    BY <2>1, <2>2, ReturnAlone, LocalAlone DEF Telling
  <2> QED
    BY <2>1, <2>3, ReturnAlone DEF AloneAt
<1> QED
  BY <1>1, <1>2, <1>3

LEMMA PublishAlone ==
  ASSUME NEW t \in Threads, Typed, Prepared(t), AloneAt(t), Publish(t)
  PROVE  AloneAt(t)'
<1>1. /\ pc[t] = "publish" /\ Return(t) /\ UNCHANGED <<up, now, cache, silent, files>>
      /\ pc'[t] = "idle" /\ plan[t] # None /\ Sound(plan[t])
  BY ReturnAlone DEF Publish, Prepared
<1>2. Heard(t)'
  <2> SUFFICES ASSUME NEW k \in Keys, seen'[k]
               PROVE  cache[k] # None \/ k \in silent
    BY <1>1 DEF Heard
  <2>1. plan[t].news # "cleared" /\ seen' = [seen EXCEPT ![req[t].key] = (plan[t].news = "present")]
    BY DEF Publish
  <2>2. CASE k = req[t].key
    BY <1>1, <2>1, <2>2 DEF AloneAt, Announces, Typed, TypeOK
  <2>3. CASE k # req[t].key
    BY <1>1, <2>1, <2>3 DEF AloneAt, Heard, Telling, Typed, TypeOK
  <2> QED
    BY <2>2, <2>3
<1>3. Names' /\ Logged(t)' /\ Mirrored'
  BY <1>1 DEF AloneAt, Names, Logged, Mirrored, LiveIndex, files
<1> QED
  BY <1>1, <1>2, <1>3, ReturnAlone DEF AloneAt

-----------------------------------------------------------------------------
(* Reads and the expiry.                                                    *)

LEMMA ReadAlone ==
  ASSUME NEW t \in Threads, Typed, AloneAt(t),
         ReadEntry(t) \/ CheckEntry(t) \/ CollectExpired(t) \/ ExpiryDone(t)
  PROVE  AloneAt(t)'
<1>1. /\ pc[t] \in {"read", "check", "remove"} /\ pc'[t] # "reopen"
      /\ UNCHANGED <<up, now, mem, files>>
  BY ReturnAlone DEF ReadEntry, CheckEntry, CollectExpired, ExpiryDone, Goto, Typed, TypeOK
<1>2. Heard(t)' /\ Names' /\ Logged(t)' /\ Mirrored'
  BY <1>1, LocalAlone DEF mem, Telling
<1>3. CASE Return(t)
  BY <1>2, <1>3, ReturnAlone DEF AloneAt
<1>4. CASE ReadEntry(t) /\ ~Return(t)
  <2>1. pc'[t] = "check" /\ ent'[t] = cache[req[t].key] /\ UNCHANGED <<req, plan, todo, cache>>
    BY <1>4 DEF ReadEntry, Goto, Found, mem, Typed, TypeOK
  <2> QED
    BY <1>1, <1>2, <2>1 DEF AloneAt, Announces, Expiring, Rewriting
<1>5. CASE CheckEntry(t) /\ ~Return(t)
  <2>1. /\ pc[t] = "check" /\ pc'[t] = "remove" /\ todo'[t] = {req[t].key}
        /\ IsExpired(ent[t], now) /\ UNCHANGED <<now, req, plan, cache>>
    BY <1>5 DEF CheckEntry, Goto, mem, Typed, TypeOK
  <2> QED
    BY <1>1, <1>2, <2>1 DEF AloneAt, Announces, Expiring, Rewriting, IsExpired
<1>6. CASE CollectExpired(t)
  <2>1. /\ pc'[t] = "remove" /\ UNCHANGED <<now, req, plan, cache>>
        /\ todo'[t] = {k \in Keys : cache[k] # None /\ IsExpired(cache[k], now)}
    BY <1>6 DEF CollectExpired, Goto, mem, Typed, TypeOK
  <2> QED
    BY <1>1, <1>2, <2>1 DEF AloneAt, Announces, Expiring, Rewriting, IsExpired
<1>7. CASE ExpiryDone(t) /\ ~Return(t)
  <2>1. pc'[t] = "snapshot" /\ UNCHANGED plan
    BY <1>7 DEF ExpiryDone, Goto, scratch, Typed, TypeOK
  <2> QED
    BY <1>1, <1>2, <2>1 DEF AloneAt, Announces, Expiring, Rewriting
<1> QED
  BY <1>3, <1>4, <1>5, <1>6, <1>7

\* The key that leaves the cache was dead already: the log still says the same.
LEMMA RemoveExpiredAlone ==
  ASSUME NEW t \in Threads, Typed, AloneAt(t), RemoveExpired(t)
  PROVE  AloneAt(t)'
<1>1. PICK k \in todo[t] :
        /\ todo' = [todo EXCEPT ![t] = @ \ {k}]
        /\ cache' = [cache EXCEPT ![k] = None]
        /\ IF cache[k] = None
             THEN UNCHANGED <<pc, cur>>
             ELSE Goto(t, "log") /\ cur' = [cur EXCEPT ![t] = k]
  BY DEF RemoveExpired
<1>2. /\ pc[t] = "remove" /\ UNCHANGED <<up, now, seen, silent, files, req, ent, plan, file>>
      /\ todo'[t] \subseteq todo[t] /\ k \in Keys
  BY <1>1 DEF RemoveExpired, Typed, TypeOK
<1>3. cache \in Index /\ (cache[k] # None => IsExpired(cache[k], now))
  BY <1>1, <1>2 DEF AloneAt, Expiring, Typed, TypeOK
<1>4. /\ pc'[t] \in {"remove", "log"} /\ cache'[k] = None
      /\ \A j \in Keys : cache'[j] = IF j = k THEN None ELSE cache[j]
      /\ pc'[t] = "log" => cur'[t] = k
      /\ pc'[t] = "remove" => cache[k] = None
  BY <1>1, <1>2, <1>3 DEF Goto, Index, Typed, TypeOK
<1>5. Heard(t)'
  BY <1>2, <1>4 DEF AloneAt, Heard, Telling
<1>6. Names' /\ Logged(t)'
  BY <1>2, <1>4 DEF AloneAt, Names, Logged, files
<1>7. Mirrored'
  <2>1. \A j \in Keys : LiveAt(cache'[j], now) = LiveAt(cache[j], now)
    BY <1>3, <1>4 DEF LiveAt
  <2>2. LiveIndex(cache', now) = LiveIndex(cache, now)
    BY <2>1, LiveEqual
  <2> QED
    BY <1>2, <2>2 DEF AloneAt, Mirrored, LiveIndex, files
<1>8. Announces(t)' /\ Rewriting(t)'
  BY <1>2, <1>4 DEF AloneAt, Announces, Rewriting
<1>9. Expiring(t)'
  <2>1. \A j \in todo[t] : j \in Keys
    BY DEF Typed, TypeOK
  <2> QED
    BY <1>2, <1>4, <2>1 DEF AloneAt, Expiring, IsExpired
<1> QED
  BY <1>5, <1>6, <1>7, <1>8, <1>9 DEF AloneAt

LEMMA LogExpiryAlone ==
  ASSUME NEW t \in Threads, Typed, AloneAt(t), LogExpiry(t)
  PROVE  AloneAt(t)'
<1>1. /\ pc[t] = "log" /\ pc'[t] = "expired" /\ up /\ cur[t] \in Keys
      /\ UNCHANGED <<up, now, mem, scratch>>
      /\ AppendRecord("delete", cur[t], None) \/ AppendFails("delete", cur[t], None)
  BY DEF LogExpiry, Goto, Typed, TypeOK, Placed
<1>2. Names' /\ Logged(t)' /\ (~dirty' => ~dirty /\ ahead' = Apply(ahead, "delete", cur[t], None))
  BY <1>1, AppendAlone
<1>3. Mirrored'
  <2> SUFFICES ASSUME ~dirty' PROVE LiveIndex(ahead', now) = LiveIndex(cache, now)
    BY <1>1 DEF Mirrored, mem
  <2>1. LiveIndex(ahead, now) = LiveIndex(cache, now)
    BY <1>1, <1>2 DEF AloneAt, Mirrored
  <2>2. cache \in Index /\ ahead \in Index /\ cache[cur[t]] = None
    BY <1>1 DEF AloneAt, Expiring, Typed, TypeOK
  <2>3. Apply(cache, "delete", cur[t], None) = cache
    BY <1>1, <2>2 DEF Apply, Index
  <2> QED
    BY <1>1, <1>2, <2>1, <2>2, <2>3, ApplyMirrors
<1>4. Heard(t)' /\ Expiring(t)'
  BY <1>1 DEF AloneAt, Heard, Telling, Expiring, mem, scratch
<1>5. Announces(t)' /\ Rewriting(t)'
  BY <1>1 DEF AloneAt, Announces, Rewriting, scratch
<1> QED
  BY <1>2, <1>3, <1>4, <1>5 DEF AloneAt

LEMMA PublishExpiryAlone ==
  ASSUME NEW t \in Threads, Typed, AloneAt(t), PublishExpiry(t)
  PROVE  AloneAt(t)'
<1>1. /\ pc[t] = "expired" /\ pc'[t] = "remove" /\ cur[t] \in Keys
      /\ seen' = [seen EXCEPT ![cur[t]] = FALSE]
      /\ UNCHANGED <<up, now, cache, silent, files, req, plan, todo>>
  BY DEF PublishExpiry, Goto, Typed, TypeOK, Placed
<1>2. Heard(t)'
  BY <1>1 DEF AloneAt, Heard, Telling, Typed, TypeOK
<1>3. Names' /\ Logged(t)' /\ Mirrored'
  BY <1>1 DEF AloneAt, Names, Logged, Mirrored, LiveIndex, files
<1>4. Announces(t)' /\ Rewriting(t)'
  BY <1>1 DEF AloneAt, Announces, Rewriting
<1>5. Expiring(t)'
  BY <1>1 DEF AloneAt, Expiring, IsExpired
<1> QED
  BY <1>2, <1>3, <1>4, <1>5 DEF AloneAt

-----------------------------------------------------------------------------
(* Compactions, and the end of the log.                                     *)

\* A sweep keeps what has a name or an open handle.
LEMMA SweepKeeps ==
  ASSUME NEW d, NEW held, NEW i \in Inodes \cap held
  PROVE  Sweep(d, held)[i] = d[i]
BY DEF Sweep

LEMMA OpenTmpAlone ==
  ASSUME NEW t \in Threads, Typed, AloneAt(t), OpenTmp(t)
  PROVE  AloneAt(t)'
<1> USE DEF mem
<1>1. PICK i \in IF tmp = None THEN Unused ELSE {tmp} :
        tmp' = i /\ disk' = Empty(i) /\ file' = [file EXCEPT ![t] = i]
  BY DEF OpenTmp
<1>2. /\ pc[t] = "snapshot" /\ pc'[t] = "write" /\ up
      /\ UNCHANGED <<up, now, mem, path, writer, ahead, dirty, req, ent, plan, todo, cur>>
  BY DEF OpenTmp, Goto, Typed, TypeOK, Placed
<1>3. i \in Inodes /\ i # path /\ i # writer
  BY <1>2 DEF Unused, Held, AloneAt, Names, Typed, TypeOK
<1>4. file'[t] = i
  BY <1>1 DEF Typed, TypeOK
<1>5. path \in Inodes => disk'[path] = disk[path]
  BY <1>1, <1>3 DEF Empty, Typed, TypeOK
<1>6. Names' /\ Mirrored'
  BY <1>1, <1>2, <1>3 DEF AloneAt, Names, Mirrored, LiveIndex
<1>7. Logged(t)'
  BY <1>2, <1>5 DEF AloneAt, Logged, Typed, TypeOK
<1>8. Heard(t)'
  BY <1>2 DEF AloneAt, Heard, Telling
<1>9. Announces(t)' /\ Expiring(t)' /\ Rewriting(t)'
  BY <1>1, <1>2, <1>3, <1>4 DEF AloneAt, Announces, Expiring, Rewriting
<1> QED
  BY <1>6, <1>7, <1>8, <1>9 DEF AloneAt

LEMMA WriteTmpAlone ==
  ASSUME NEW t \in Threads, Typed, AloneAt(t), WriteTmp(t)
  PROVE  AloneAt(t)'
<1> USE DEF mem, scratch
<1>1. /\ pc[t] = "write" /\ pc'[t] = "rename" /\ up
      /\ UNCHANGED <<up, now, mem, path, tmp, writer, ahead, dirty, scratch>>
      /\ disk' = [disk EXCEPT ![file[t]].img = cache]
  BY DEF WriteTmp, Goto, Typed, TypeOK, Placed
<1>2. tmp \in Inodes /\ file[t] = tmp /\ tmp # path /\ tmp # None
  BY <1>1, StoreAssumption DEF AloneAt, Rewriting, Names
<1>3. disk'[tmp].img = cache /\ (path \in Inodes => disk'[path] = disk[path])
  BY <1>1, <1>2 DEF Typed, TypeOK
<1>4. Names' /\ Mirrored'
  BY <1>1 DEF AloneAt, Names, Mirrored, LiveIndex
<1>5. Logged(t)'
  BY <1>1, <1>3 DEF AloneAt, Logged, Typed, TypeOK
<1>6. Heard(t)'
  BY <1>1 DEF AloneAt, Heard, Telling
<1>7. Announces(t)' /\ Expiring(t)' /\ Rewriting(t)'
  BY <1>1, <1>2, <1>3 DEF AloneAt, Announces, Expiring, Rewriting
<1> QED
  BY <1>4, <1>5, <1>6, <1>7 DEF AloneAt

LEMMA RenameTmpAlone ==
  ASSUME NEW t \in Threads, Typed, AloneAt(t), RenameTmp(t)
  PROVE  AloneAt(t)'
<1> USE DEF mem
<1>1. /\ pc[t] = "rename" /\ up /\ disk' = Sweep(disk, Held')
      /\ UNCHANGED <<up, now, mem, writer, ahead, dirty>>
  BY DEF RenameTmp, Typed, Placed
<1>2. tmp \in Inodes /\ tmp # None /\ tmp # writer /\ disk[tmp].img = cache
  BY <1>1, StoreAssumption DEF AloneAt, Rewriting, Names
<1>3. /\ path' = tmp /\ tmp' = None /\ pc'[t] = "reopen"
      /\ UNCHANGED <<req, ent, plan, todo, cur>>
  BY <1>2 DEF RenameTmp, Goto, Typed, TypeOK
<1>4. disk'[tmp].img = cache
  BY <1>1, <1>2, <1>3, SweepKeeps DEF Held
<1>5. Names' /\ Mirrored' /\ Logged(t)'
  BY <1>1, <1>3 DEF AloneAt, Names, Mirrored, LiveIndex, Logged
<1>6. Heard(t)'
  BY <1>1, <1>3 DEF AloneAt, Heard, Telling
<1>7. Announces(t)' /\ Expiring(t)' /\ Rewriting(t)'
  BY <1>1, <1>2, <1>3, <1>4 DEF AloneAt, Announces, Expiring, Rewriting
<1> QED
  BY <1>5, <1>6, <1>7 DEF AloneAt

\* The log is the cache again, whatever the appends before have missed.
LEMMA ReopenAlone ==
  ASSUME NEW t \in Threads, Typed, AloneAt(t), Reopen(t)
  PROVE  AloneAt(t)'
<1> USE DEF mem
<1>1. /\ pc[t] = "reopen" /\ up /\ Return(t) /\ UNCHANGED <<up, now, mem, tmp>>
  BY DEF Reopen, Typed, Placed
<1>2. path \in Inodes /\ path # None /\ path # writer /\ disk[path].img = cache
  BY <1>1, StoreAssumption DEF AloneAt, Rewriting
<1>3. /\ path' = path /\ writer' = path /\ disk' = Sweep(Flushed(ahead), Held')
      /\ ahead' = disk'[path].img /\ ~dirty'
  BY <1>2 DEF Reopen
<1>4. disk'[path].img = cache
  <2>1. disk'[path] = Flushed(ahead)[path]
    BY <1>2, <1>3, SweepKeeps DEF Held
  <2> QED
    BY <1>2, <2>1 DEF Flushed, Typed, TypeOK
<1>5. pc'[t] = "idle" /\ Announces(t)' /\ Expiring(t)' /\ Rewriting(t)'
  BY <1>1, ReturnAlone
<1>6. Names'
  BY <1>1, <1>2, <1>3 DEF AloneAt, Names
<1>7. Logged(t)' /\ Mirrored'
  BY <1>1, <1>3, <1>4 DEF Logged, Mirrored, LiveIndex
<1>8. Heard(t)'
  BY <1>1 DEF AloneAt, Heard, Telling
<1> QED
  BY <1>5, <1>6, <1>7, <1>8 DEF AloneAt

LEMMA CloseLogAlone ==
  ASSUME NEW t \in Threads, Typed, AloneAt(t), CloseLog(t)
  PROVE  AloneAt(t)'
<1> USE DEF mem
<1>1. /\ pc[t] = "wal" /\ up /\ Return(t)
      /\ UNCHANGED <<up, now, mem, tmp, writer, ahead, dirty>>
      /\ path' \in {None, path} /\ disk' = Sweep(Flushed(ahead), Held')
  BY DEF CloseLog, Typed, Placed
<1>2. pc'[t] = "idle" /\ Announces(t)' /\ Expiring(t)' /\ Rewriting(t)'
  BY <1>1, ReturnAlone
<1>3. Names' /\ Mirrored'
  BY <1>1 DEF AloneAt, Names, Mirrored, LiveIndex
<1>4. Logged(t)'
  <2> SUFFICES ASSUME path' # None, ~dirty
               PROVE  path = writer /\ disk'[path].img = ahead
    BY <1>1 DEF Logged
  <2>1. path' = path /\ path \in Inodes /\ path = writer /\ disk[path].img = ahead
    BY <1>1 DEF AloneAt, Logged, Typed, TypeOK
  <2>2. disk'[path] = Flushed(ahead)[path]
    BY <1>1, <2>1, SweepKeeps DEF Held
  <2> QED
    BY <2>1, <2>2 DEF Flushed, Typed, TypeOK
<1>5. Heard(t)'
  BY <1>1 DEF AloneAt, Heard, Telling
<1> QED
  BY <1>2, <1>3, <1>4, <1>5 DEF AloneAt

\* A call that fails at a file leaves the log as it was, or apart from the file
\* written to, and then the store knows no more of its appends.
LEMMA LogFailsAlone ==
  ASSUME NEW t \in Threads, Typed, AloneAt(t), LogFails(t)
  PROVE  AloneAt(t)'
<1> USE DEF mem
<1>1. /\ up /\ Return(t) /\ UNCHANGED <<up, now, mem, path, tmp, writer, ahead>>
      /\ dirty' = dirty \/ dirty'
      /\ pc[t] \in {"snapshot", "write", "rename", "reopen", "wal"}
  BY LogFailsReturns DEF Typed, Placed
<1>2. pc'[t] = "idle" /\ Announces(t)' /\ Expiring(t)' /\ Rewriting(t)'
  BY <1>1, ReturnAlone
<1>3. Names' /\ Mirrored'
  BY <1>1 DEF AloneAt, Names, Mirrored, LiveIndex
<1>4. Logged(t)'
  <2> SUFFICES ASSUME path # None, ~dirty'
               PROVE  path = writer /\ disk'[path].img = ahead
    BY <1>1 DEF Logged
  <2>1. ~dirty /\ path \in Inodes /\ pc[t] # "reopen"
    BY <1>1 DEF LogFails, CompactFails, ReopenFails, CloseFails, Typed, TypeOK
  <2>2. path = writer /\ disk[path].img = ahead
    BY <1>1, <2>1 DEF AloneAt, Logged
  <2>3. CASE CompactFails(t)
    <3>1. PICK held : disk' = Sweep(disk, held) /\ path \in held
      BY <1>1, <2>3 DEF CompactFails, Held
    <3> QED
      BY <2>1, <2>2, <3>1, SweepKeeps
  <2>4. CASE CloseFails(t)
    <3>1. disk' = disk \/ disk' = Flushed(ahead)
      BY <2>4 DEF CloseFails
    <3> QED
      BY <2>1, <2>2, <3>1 DEF Flushed, Typed, TypeOK
  <2>5. CompactFails(t) \/ CloseFails(t)
    BY <2>1 DEF LogFails, ReopenFails
  <2> QED
    BY <1>1, <2>2, <2>3, <2>4, <2>5
<1>5. Heard(t)'
  BY <1>1 DEF AloneAt, Heard, Telling
<1> QED
  BY <1>2, <1>3, <1>4, <1>5 DEF AloneAt

-----------------------------------------------------------------------------
(* The process.                                                             *)

LEMMA CrashAlone ==
  ASSUME NEW t \in Threads, Typed, AloneAt(t), Crash
  PROVE  AloneAt(t)'
BY DEF Crash, AloneAt, Heard, Names, Logged, Mirrored, Announces, Expiring,
       Rewriting

\* Opening replays the log; a call cannot have begun before.
LEMMA OpenAlone ==
  ASSUME NEW t \in Threads, Typed, AloneAt(t), Open
  PROVE  AloneAt(t)'
<1> USE DEF locks, thread, scratch
<1>1. PICK i \in IF path = None THEN Unused ELSE {path} :
        /\ path' = i /\ writer' = i
        /\ ahead' = disk[i].img
        /\ cache' = LiveIndex(disk[i].img, now)
        /\ seen' = [k \in Keys |-> cache'[k] # None]
  BY DEF Open
<1>2. pc[t] = "idle" /\ UNCHANGED <<now, disk, tmp, dirty, thread>>
  BY DEF Open, Typed, Placed
<1>3. i \in Inodes /\ (tmp # None => tmp # i)
  BY DEF Unused, Held, AloneAt, Names, Typed, TypeOK
<1>4. Names' /\ Logged(t)'
  BY <1>1, <1>2, <1>3 DEF Names, Logged
<1>5. Mirrored'
  <2> DEFINE img == disk[i].img
  <2>1. img \in Index
    BY <1>3 DEF Typed, TypeOK
  <2>2. \A k \in Keys : LiveAt(img[k], now) = LiveAt(LiveIndex(img, now)[k], now)
    BY DEF LiveIndex, LiveAt
  <2>3. LiveIndex(img, now) = LiveIndex(LiveIndex(img, now), now)
    BY <2>2, LiveEqual
  <2> QED
    BY <1>1, <1>2, <2>3 DEF Mirrored
<1>6. Heard(t)'
  BY <1>1 DEF Heard
<1>7. Announces(t)' /\ Expiring(t)' /\ Rewriting(t)'
  BY <1>2 DEF AloneAt, Announces, Expiring, Rewriting
<1> QED
  BY <1>4, <1>5, <1>6, <1>7 DEF AloneAt

\* What was expired stays so, and what two indexes leave live they go on leaving.
LEMMA TickAlone ==
  ASSUME NEW t \in Threads, Typed, AloneAt(t), Tick
  PROVE  AloneAt(t)'
<1> USE DEF mem, locks, files, thread, scratch
<1>1. now \in Nat /\ now' = now + 1 /\ UNCHANGED <<up, mem, files, thread>>
  BY StoreAssumption DEF Tick, Typed, TypeOK
<1>2. \A e \in Entry : IsExpired(e, now) => IsExpired(e, now')
  BY <1>1, EntryAssumption DEF Entry, Deadlines, IsExpired
<1>3. ahead \in Index /\ cache \in Index
  BY DEF Typed, TypeOK
<1>4. Mirrored'
  <2> SUFFICES ASSUME up, ~dirty, NEW k \in Keys
               PROVE  LiveAt(ahead[k], now') = LiveAt(cache[k], now')
    BY <1>1, LiveEqual DEF Mirrored
  <2>1. LiveAt(ahead[k], now) = LiveAt(cache[k], now)
    BY LiveEqualAt DEF AloneAt, Mirrored
  <2>2. ahead[k] \in Entry \cup {None} /\ cache[k] \in Entry \cup {None}
    BY <1>3 DEF Index
  <2> QED
    BY <1>2, <2>1, <2>2, EntryAssumption DEF LiveAt
<1>5. Expiring(t)'
  <2> SUFFICES ASSUME pc[t] \in {"remove", "log", "expired"}, NEW k \in todo[t], cache[k] # None
               PROVE  IsExpired(cache[k], now')
    BY <1>1 DEF AloneAt, Expiring
  <2>1. k \in Keys /\ IsExpired(cache[k], now)
    BY DEF AloneAt, Expiring, Typed, TypeOK
  <2> QED
    BY <1>2, <1>3, <2>1 DEF Index
<1>6. Heard(t)' /\ Names' /\ Logged(t)' /\ Announces(t)' /\ Rewriting(t)'
  BY <1>1 DEF AloneAt, Heard, Telling, Names, Logged, Announces, Rewriting
<1> QED
  BY <1>4, <1>5, <1>6 DEF AloneAt

LEMMA IdleAlone ==
  ASSUME NEW t \in Threads, AloneAt(t), SetEncryptionKey \/ UNCHANGED vars
  PROVE  AloneAt(t)'
<1>1. UNCHANGED <<up, now, cache, seen, silent, files, thread>>
  BY DEF SetEncryptionKey, vars, mem
<1> QED
  BY <1>1
     DEF AloneAt, Heard, Telling, Names, Logged, Mirrored, LiveIndex, Announces,
         Expiring, Rewriting, files, thread, scratch

-----------------------------------------------------------------------------
LEMMA AloneStep ==
  Alone /\ Typed /\ PreparedInv /\ PreparedInv' /\ AloneInv /\ [Next]_vars => AloneInv'
<1> SUFFICES ASSUME NEW t, Threads = {t}, Typed, Prepared(t), Prepared(t)', AloneAt(t), [Next]_vars
             PROVE  AloneAt(t)'
  BY DEF Alone, AloneInv, PreparedInv
<1>1. t \in Threads
  OBVIOUS
<1>2. CASE Begin(t) \/ Call(t) \/ CommitFails(t) \/ LogFails(t)
  BY <1>1, <1>2, BeginAlone, DecisionsAlone, CommitAlone, CommitFailsAlone, LocksAlone,
     PublishAlone, ReadAlone, RemoveExpiredAlone, LogExpiryAlone, PublishExpiryAlone,
     OpenTmpAlone, WriteTmpAlone, RenameTmpAlone, ReopenAlone, CloseLogAlone,
     LogFailsAlone
     DEF Call
<1>3. CASE SetEncryptionKey \/ Tick \/ Crash \/ Open \/ UNCHANGED vars
  BY <1>1, <1>3, IdleAlone, TickAlone, CrashAlone, OpenAlone
<1> QED
  BY <1>2, <1>3 DEF Next

LEMMA AlwaysPrepared == Spec => []PreparedInv
BY PreparedInit, PreparedStep, AlwaysTyped, PTL DEF Spec

LEMMA AlwaysAlone == Spec => [](Alone => AloneInv)
<1>1. Init => (Alone => AloneInv)
  BY AloneInit
<1>2. Typed /\ PreparedInv /\ PreparedInv' /\ (Alone => AloneInv) /\ [Next]_vars => (Alone => AloneInv)'
  BY AloneStep DEF Alone
<1> QED
  BY <1>1, <1>2, AlwaysTyped, AlwaysPrepared, PTL DEF Spec

\* wal.rs:16-17 where one thread calls the store: at rest a restart serves what
\* the process serves, with deadlines, purges, compactions, crashes, appends and
\* files that fail, as long as no append has failed since the log was opened or
\* rewritten and the last compaction has reopened it.
THEOREM AloneDurability == Spec => [](Alone => BackedLogRebuildsIndex)
<1>1. (Alone => AloneInv) => (Alone => BackedLogRebuildsIndex)
  <2> SUFFICES ASSUME NEW t, Threads = {t}, AloneAt(t), up, pc[t] = "idle", path # None, ~dirty
               PROVE  Recovered = LiveIndex(cache, now)
    BY DEF Alone, AloneInv, BackedLogRebuildsIndex, Backed, LogRebuildsIndex, Quiet
  <2> QED
    BY DEF AloneAt, Logged, Mirrored, Recovered
<1> QED
  BY <1>1, AlwaysAlone, PTL

\* Where one thread calls the store no event is missing: at rest a subscriber
\* that believes in a key finds it, but for those a failed delete took along.
THEOREM AloneEvents == Spec => [](Alone => NoPhantomKey)
<1>1. (Alone => AloneInv) => (Alone => NoPhantomKey)
  <2> SUFFICES ASSUME NEW t, Threads = {t}, AloneAt(t), pc[t] = "idle",
                      NEW k \in Keys, seen[k]
               PROVE  cache[k] # None \/ k \in silent
    BY DEF Alone, AloneInv, NoPhantomKey, Quiet
  <2> QED
    BY DEF AloneAt, Heard, Telling
<1> QED
  BY <1>1, AlwaysAlone, PTL

-----------------------------------------------------------------------------
(* The refinement.  The map is the live cache while the process runs and    *)
(* the log while it is down; RodiniaKV's operators are RodiniaEntry's, and  *)
(* a commit is an abstract write because what was decided still holds.      *)

MapNow == IF up THEN LiveIndex(cache, now) ELSE Recovered

\* The operators of the abstract specification are those of the detailed one.
LEMMA SameOperators ==
  /\ \A e, at : Map!LiveAt(e, at) = LiveAt(e, at)
  /\ \A index, at : Map!LiveIndex(index, at) = LiveIndex(index, at)
  /\ \A ttl, at : Map!Deadline(ttl, at) = Deadline(ttl, at)
  /\ \A x : Map!Saturate(x) = Saturate(x) /\ Map!OneMore(x) = OneMore(x)
  /\ Map!EmptyIndex = EmptyIndex
<1>1. \A e, at : Map!LiveAt(e, at) = LiveAt(e, at)
  BY DEF Map!LiveAt, LiveAt, Map!IsExpired, IsExpired
<1> QED
  BY <1>1 DEF Map!LiveIndex, LiveIndex, Map!Deadline, Deadline, Map!Saturate, Saturate,
              Map!OneMore, OneMore, Map!EmptyIndex, EmptyIndex

\* A return is the delivery of an answer, or nothing the map can see.
LEMMA Delivers ==
  ASSUME NEW t \in Threads, Return(t), up, UNCHANGED <<up, now, cache>>
  PROVE  Map!KvNext
<1>1. Map!Deliver(t)
  BY DEF Map!Deliver, Return, NoAnswer, LiveIndex
<1> QED
  BY <1>1 DEF Map!KvNext

LEMMA Stutters ==
  ASSUME up, UNCHANGED <<up, now, cache, ret>>
  PROVE  Map!KvNext
BY DEF Map!KvNext, LiveIndex

LEMMA Declines ==
  ASSUME NEW t \in Threads, up, UNCHANGED <<up, now>>,
         LiveIndex(cache, now)' = LiveIndex(cache, now),
         \E r \in {No, Err} : ret' = [ret EXCEPT ![t] = r]
  PROVE  Map!KvNext
<1>1. Map!Decline(t)
  BY DEF Map!Decline, Map!Answer, No, Err
<1> QED
  BY <1>1 DEF Map!KvNext

\* What the record of a key does to the map.
LEMMA ApplyToMap ==
  ASSUME cache \in Index, UNCHANGED now, NEW k \in Keys, NEW e, NEW type \in RecordTypes,
         cache' = Apply(cache, type, k, e)
  PROVE  /\ type = "set" =>
              LiveIndex(cache, now)' = [LiveIndex(cache, now) EXCEPT ![k] = LiveAt(e, now)]
         /\ type = "delete" =>
              LiveIndex(cache, now)' = [LiveIndex(cache, now) EXCEPT ![k] = None]
         /\ type = "clear" => LiveIndex(cache, now)' = EmptyIndex
<1>1. LiveAt(None, now) = None
  BY DEF LiveAt
<1> QED
  BY <1>1 DEF Apply, LiveIndex, Index, EmptyIndex

LEMMA CommitRefines ==
  ASSUME NEW t \in Threads, Typed, Prepared(t), Faithful(t), Commit(t)
  PROVE  Map!KvNext
<1> DEFINE r == req[t]
           p == plan[t]
           kv == LiveIndex(cache, now)
<1>1. /\ pc[t] = "commit" /\ up /\ UNCHANGED <<up, now>>
      /\ r \in Requests /\ r \in Request /\ p \in Plans /\ cache \in Index
  BY StoreAssumption DEF Commit, Typed, TypeOK, Placed
<1>2. Choice(t, p) /\ p.type \in RecordTypes
  BY <1>1 DEF Faithful, Prepared, Plans
<1>3. PICK k \in Target(t) :
        /\ cache' = Apply(cache, p.type, k, p.ent)
        /\ todo' = [todo EXCEPT ![t] = @ \ {k}]
  BY DEF Commit
<1>4. k \in Keys /\ (r.op # "import" => k = r.key)
  BY <1>1 DEF Target, Request, Typed, TypeOK
<1>5. IF todo'[t] = {} THEN ret' = [ret EXCEPT ![t] = p.ret] ELSE UNCHANGED ret
  BY DEF Commit
<1>6. r.op # "import" => ret' = [ret EXCEPT ![t] = p.ret]
  BY <1>1, <1>3, <1>5 DEF Prepared, Typed, TypeOK
<1>7. /\ p.type = "set" => kv' = [kv EXCEPT ![k] = LiveAt(p.ent, now)]
      /\ p.type = "delete" => kv' = [kv EXCEPT ![k] = None]
      /\ p.type = "clear" => kv' = EmptyIndex
  BY <1>1, <1>2, <1>3, <1>4, ApplyToMap
<1>8. r.op # "import" => kv[r.key] = Live(t)
  BY <1>4 DEF Live, Found, LiveIndex
<1>9. ASSUME Timely(p.ent, r) PROVE LiveAt(p.ent, now) \in Map!Fresh(r)
  <2>1. PICK at \in 0..now, c \in Seals(r) :
          p.ent = [kind |-> r.kind, n |-> r.n, enc |-> c, exp |-> Deadline(r.ttl, at)]
    BY <1>9 DEF Timely
  <2>2. LiveAt(p.ent, now) \in Map!Stored(r, r.kind, r.n, Deadline(r.ttl, at))
    BY <2>1, SameOperators DEF Map!Stored, Seals
  <2> QED
    BY <2>1, <2>2, SameOperators DEF Map!Fresh
<1>10. ASSUME NEW len, SealedList(t, p.ent, len), NEW exp, exp = KeptDeadline(t)
       PROVE  LiveAt(p.ent, now) \in Map!Stored(r, "list", len, exp)
  BY <1>10, SameOperators DEF SealedList, Map!Stored, Seals
<1>11. r.op # "import" => Map!Kept(r) = KeptDeadline(t)
  BY <1>1, <1>8, SameOperators DEF Map!Kept, KeptDeadline
<1>12. ASSUME \/ Map!Put(t, r) \/ Map!PutOneOf(t, r) \/ Map!PutIfAbsent(t, r) \/ Map!Add(t, r)
              \/ Map!Push(t, r) \/ Map!Pull(t, r) \/ Map!Remove(t, r) \/ Map!RemoveAll(t, r)
       PROVE  Map!KvNext
  BY <1>1, <1>12 DEF Map!KvNext
<1>13. CASE ChosenPut(t, p)
  <2>1. /\ kv' = [kv EXCEPT ![k] = LiveAt(p.ent, now)] /\ LiveAt(p.ent, now) \in Map!Fresh(r)
        /\ r.op \in {"set", "import", "set_if_absent"}
    BY <1>7, <1>9, <1>13 DEF ChosenPut
  <2>2. CASE r.op = "set"
    <3>1. k = r.key /\ ret' = [ret EXCEPT ![t] = Ok(0)]
      BY <1>4, <1>6, <1>13, <2>2 DEF ChosenPut
    <3>2. Map!Put(t, r)
      BY <1>1, <2>1, <2>2, <3>1 DEF Map!Put, Map!Becomes, Map!Answer, Ok
    <3> QED
      BY <1>12, <3>2
  <2>3. CASE r.op = "import"
    <3>1. UNCHANGED ret \/ ret' = [ret EXCEPT ![t] = Ok(0)]
      BY <1>5, <1>13, <2>3 DEF ChosenPut
    <3>2. Map!PutOneOf(t, r)
      BY <1>1, <1>4, <2>1, <2>3, <3>1 DEF Map!PutOneOf, Map!Becomes, Map!Answer, Ok
    <3> QED
      BY <1>12, <3>2
  <2>4. CASE r.op = "set_if_absent"
    <3>1. k = r.key /\ ret' = [ret EXCEPT ![t] = Ok(1)] /\ kv[r.key] = None
      BY <1>4, <1>6, <1>8, <1>13, <2>4 DEF ChosenPut
    <3>2. Map!PutIfAbsent(t, r)
      BY <1>1, <2>1, <2>4, <3>1 DEF Map!PutIfAbsent, Map!Becomes, Map!Answer, Ok
    <3> QED
      BY <1>12, <3>2
  <2> QED
    BY <2>1, <2>2, <2>3, <2>4
<1>14. CASE ChosenAdd(t, p)
  <2>1. /\ r.op = "increment" /\ k = r.key /\ kv[r.key] = Live(t)
        /\ kv' = [kv EXCEPT ![r.key] = LiveAt(p.ent, now)]
    BY <1>4, <1>7, <1>8, <1>14 DEF ChosenAdd
  <2>2. Map!Add(t, r)
    BY <1>1, <1>6, <1>14, <2>1, SameOperators DEF ChosenAdd, Map!Add, Map!Answer, Ok
  <2> QED
    BY <1>12, <2>2
<1>15. CASE ChosenPush(t, p)
  <2> DEFINE len == OneMore(IF Live(t) = None THEN 0 ELSE Live(t).n)
  <2>1. /\ r.op = "list_push" /\ k = r.key /\ kv[r.key] = Live(t)
        /\ kv' = [kv EXCEPT ![r.key] = LiveAt(p.ent, now)]
        /\ ret' = [ret EXCEPT ![t] = Ok(len)]
        /\ Live(t) # None => Live(t).kind = "list"
    BY <1>4, <1>6, <1>7, <1>8, <1>15 DEF ChosenPush
  <2>2. LiveAt(p.ent, now) \in Map!Stored(r, "list", len, Map!Kept(r))
    BY <1>10, <1>11, <1>15, <2>1 DEF ChosenPush
  <2>3. Map!Push(t, r)
    BY <1>1, <2>1, <2>2, SameOperators DEF Map!Push, Map!Becomes, Map!Answer, Ok
  <2> QED
    BY <1>12, <2>3
<1>16. CASE ChosenPull(t, p)
  <2>1. r.op = "delete_from_list" /\ k = r.key /\ kv[r.key] = Live(t)
    BY <1>4, <1>8, <1>16 DEF ChosenPull
  <2>2. CASE p.type = "delete" /\ p.ret = No /\ Live(t) = None
    <3>1. kv' = kv
      BY <1>7, <2>1, <2>2 DEF LiveIndex
    <3> QED
      BY <1>1, <1>6, <2>1, <2>2, <3>1, Declines
  <2>3. CASE Live(t) # None /\ Live(t).kind = "list" /\ p.ret = Ok(1)
    <3>1. ret' = [ret EXCEPT ![t] = Ok(1)]
      BY <1>6, <2>1, <2>3
    <3>2. CASE p.type = "delete" /\ 0 \in 0..(Live(t).n - 1)
      <4>1. kv' = [kv EXCEPT ![r.key] = None]
        BY <1>7, <2>1, <3>2
      <4>2. Map!Pull(t, r)
        BY <1>1, <2>1, <2>3, <3>1, <3>2, <4>1 DEF Map!Pull, Map!Answer, Ok
      <4> QED
        BY <1>12, <4>2
    <3>3. ASSUME p.type = "set", NEW left \in 1..(Live(t).n - 1), SealedList(t, p.ent, left)
          PROVE  Map!KvNext
      <4>1. kv' = [kv EXCEPT ![r.key] = LiveAt(p.ent, now)]
        BY <1>7, <2>1, <3>3
      <4>2. LiveAt(p.ent, now) \in Map!Stored(r, "list", left, Map!Kept(r))
        BY <1>10, <1>11, <2>1, <3>3
      <4>3. left \in 0..(Live(t).n - 1) /\ left # 0
        <5>1. left \in Int /\ left >= 1 /\ left <= Live(t).n - 1
          BY <3>3
        <5> QED
          BY <5>1
      <4>4. Map!Pull(t, r)
        BY <1>1, <2>1, <2>3, <3>1, <4>1, <4>2, <4>3 DEF Map!Pull, Map!Becomes, Map!Answer, Ok
      <4> QED
        BY <1>12, <4>4
    <3> QED
      BY <1>16, <2>3, <3>2, <3>3 DEF ChosenPull
  <2> QED
    BY <1>16, <2>2, <2>3 DEF ChosenPull
<1>17. CASE ChosenRemoval(t, p)
  <2>1. r.op \in {"delete", "clear"} /\ k = r.key
    BY <1>4, <1>17 DEF ChosenRemoval
  <2>2. CASE r.op = "delete"
    <3>1. kv' = [kv EXCEPT ![r.key] = None] /\ ret' = [ret EXCEPT ![t] = Ok(1)]
      BY <1>6, <1>7, <1>17, <2>1, <2>2 DEF ChosenRemoval
    <3>2. Map!Remove(t, r)
      BY <1>1, <2>2, <3>1 DEF Map!Remove, Map!Answer, Ok
    <3> QED
      BY <1>12, <3>2
  <2>3. CASE r.op = "clear"
    <3>1. kv' = EmptyIndex /\ ret' = [ret EXCEPT ![t] = Ok(0)]
      BY <1>6, <1>7, <1>17, <2>1, <2>3 DEF ChosenRemoval
    <3>2. Map!RemoveAll(t, r)
      BY <1>1, <2>3, <3>1, SameOperators DEF Map!RemoveAll, Map!Answer, Ok
    <3> QED
      BY <1>12, <3>2
  <2> QED
    BY <2>1, <2>2, <2>3
<1> QED
  BY <1>2, <1>13, <1>14, <1>15, <1>16, <1>17 DEF Choice

\* A failed delete takes its key along and the log is known to lack that.
LEMMA CommitFailsRefines ==
  ASSUME NEW t \in Threads, Typed, Faithful(t), CommitFails(t)
  PROVE  Map!KvNext
<1>1. /\ pc[t] = "commit" /\ up /\ UNCHANGED <<up, now>> /\ ret' = [ret EXCEPT ![t] = Err]
      /\ req[t] \in Requests /\ req[t] \in Request /\ cache \in Index
  BY StoreAssumption DEF CommitFails, Typed, TypeOK, Placed
<1>2. PICK k \in Target(t) :
        /\ AppendFails(plan[t].type, k, plan[t].ent)
        /\ IF plan[t].type = "delete" THEN cache' = [cache EXCEPT ![k] = None] ELSE UNCHANGED cache
  BY DEF CommitFails
<1>3. CASE plan[t].type = "delete"
  <2>1. Choice(t, plan[t]) /\ req[t].op \in {"delete", "delete_from_list"}
    BY <1>1, <1>3 DEF Faithful, Choice, ChosenPut, ChosenAdd, ChosenPush, ChosenPull, ChosenRemoval
  <2>2. k = req[t].key /\ k \in Keys
    BY <1>1, <2>1 DEF Target, Request
  <2>3. cache' = Apply(cache, "delete", k, None)
    BY <1>2, <1>3 DEF Apply
  <2>4. LiveIndex(cache, now)' = [LiveIndex(cache, now) EXCEPT ![k] = None]
    BY <1>1, <2>2, <2>3, ApplyToMap DEF RecordTypes
  <2>5. ~Backed'
    BY <1>2 DEF AppendFails, Backed
  <2>6. Map!Remove(t, req[t])
    BY <1>1, <2>1, <2>2, <2>4, <2>5 DEF Map!Remove, Map!Answer, Err
  <2> QED
    BY <1>1, <2>6 DEF Map!KvNext
<1>4. CASE plan[t].type # "delete"
  BY <1>1, <1>2, <1>4, Declines DEF LiveIndex
<1> QED
  BY <1>3, <1>4

\* Decisions change nothing yet; those that need no commit are answered.
LEMMA DecisionsRefine ==
  ASSUME NEW t \in Threads, Typed,
         \/ Set(t) \/ Import(t) \/ Delete(t) \/ Clear(t) \/ Increment(t)
         \/ ListPush(t) \/ DeleteFromList(t) \/ SetIfAbsent(t) \/ SetIfAbsentReturns(t)
  PROVE  Map!KvNext
<1> USE DEF Write, Erase, Leave
<1>1. pc[t] = "wal" /\ up /\ UNCHANGED <<up, now, cache>>
  BY DEF Set, Import, Delete, Clear, Increment, ListPush, DeleteFromList, SetIfAbsent,
         SetIfAbsentReturns, Decide, mem, Typed, Placed
<1>2. ret' = ret \/ \E r \in {No, Err} : ret' = [ret EXCEPT ![t] = r]
  BY SMTT(60) DEF Set, Import, Delete, Clear, Increment, ListPush, DeleteFromList, SetIfAbsent,
         SetIfAbsentReturns, Decide
<1> QED
  BY <1>1, <1>2, Stutters, Declines DEF LiveIndex

\* Reads, expiries, compactions and the locks are not seen.
LEMMA UnseenRefines ==
  ASSUME NEW t \in Threads, Typed,
         \/ Begin(t) \/ LockCache(t) \/ Unlock(t) \/ Publish(t)
         \/ ReadEntry(t) \/ CheckEntry(t) \/ CollectExpired(t)
         \/ LogExpiry(t) \/ PublishExpiry(t) \/ ExpiryDone(t)
         \/ OpenTmp(t) \/ WriteTmp(t) \/ RenameTmp(t) \/ Reopen(t) \/ CloseLog(t)
         \/ LogFails(t)
  PROVE  Map!KvNext
<1>3. LogFails(t) => up /\ Return(t) /\ UNCHANGED <<up, now, cache>>
  BY LogFailsReturns DEF mem, Typed, Placed
<1>1. up /\ UNCHANGED <<up, now, cache>>
  BY <1>3
     DEF Begin, LockCache, Unlock, Publish, ReadEntry, CheckEntry, CollectExpired,
         LogExpiry, PublishExpiry, ExpiryDone, OpenTmp, WriteTmp, RenameTmp, Reopen, CloseLog,
         mem, Typed, Placed
<1>2. UNCHANGED ret \/ Return(t)
  BY <1>3
     DEF Begin, LockCache, Unlock, Publish, ReadEntry, CheckEntry, CollectExpired,
         LogExpiry, PublishExpiry, ExpiryDone, OpenTmp, WriteTmp, RenameTmp, Reopen, CloseLog
<1> QED
  BY <1>1, <1>2, Stutters, Delivers

\* An expired key was not in the map; a calm store removes none.
LEMMA RemoveExpiredRefines ==
  ASSUME NEW t \in Threads, Typed, AloneAt(t) \/ Durable, RemoveExpired(t)
  PROVE  Map!KvNext
<1>1. pc[t] = "remove" /\ up /\ UNCHANGED <<up, now, ret>> /\ cache \in Index
  BY DEF RemoveExpired, Typed, TypeOK, Placed
<1>2. PICK k \in todo[t] : cache' = [cache EXCEPT ![k] = None]
  BY DEF RemoveExpired
<1>3. cache[k] # None => IsExpired(cache[k], now)
  BY <1>1, <1>2 DEF AloneAt, Expiring, Durable, Unhurried
<1>4. \A j \in Keys : LiveAt(cache'[j], now) = LiveAt(cache[j], now)
  BY <1>1, <1>2, <1>3 DEF LiveAt, Index
<1>5. LiveIndex(cache', now) = LiveIndex(cache, now)
  BY <1>4, LiveEqual
<1> QED
  BY <1>1, <1>5 DEF Map!KvNext, LiveIndex

LEMMA TickRefines ==
  ASSUME Typed, Tick
  PROVE  Map!KvNext
<1>1. /\ now \in Nat /\ now' = now + 1 /\ UNCHANGED <<up, cache, disk, path, dirty, ret>>
      /\ cache \in Index /\ (path # None => disk[path].img \in Index)
  BY StoreAssumption DEF Tick, Typed, TypeOK, mem, files, thread
<1>2. EmptyIndex \in Index /\ LiveIndex(EmptyIndex, now') = EmptyIndex
  BY EmptyIndexType DEF EmptyIndex, LiveIndex, LiveAt
<1>3. MapNow' = LiveIndex(MapNow, now')
  <2>1. CASE up
    BY <1>1, <2>1, LiveAgain DEF MapNow
  <2>2. CASE ~up /\ path # None
    BY <1>1, <2>2, LiveAgain DEF MapNow, Recovered
  <2>3. CASE ~up /\ path = None
    BY <1>1, <1>2, <2>3 DEF MapNow, Recovered
  <2> QED
    BY <2>1, <2>2, <2>3
<1>4. Map!Expire
  BY <1>1, <1>3, SameOperators DEF Map!Expire, MapNow, Backed
<1> QED
  BY <1>4 DEF Map!KvNext

\* What the log of a store holds that holds the map.
LEMMA BackedLog ==
  ASSUME Typed, up, Backed, Durable \/ (AloneInv /\ \E t : Threads = {t})
  PROVE  LiveIndex(disk[path].img, now) = LiveIndex(cache, now)
<1>1. CASE Durable
  BY <1>1 DEF Durable, InStep, Mirrored, Backed
<1>2. ASSUME NEW t, Threads = {t}, AloneInv
      PROVE  LiveIndex(disk[path].img, now) = LiveIndex(cache, now)
  <2>1. AloneAt(t)
    BY <1>2 DEF AloneInv
  <2> QED
    BY <2>1 DEF Backed, AloneAt, Logged, Mirrored, Rewriting
<1> QED
  BY <1>1, <1>2

\* A crash loses nothing that a log that holds the map can give back.
LEMMA CrashRefines ==
  ASSUME Typed, Durable \/ (AloneInv /\ \E t : Threads = {t}), Crash
  PROVE  Map!KvNext
<1>1. /\ up /\ ~up' /\ UNCHANGED <<now, path>>
      /\ ret' = [u \in Threads |-> NoAnswer]
  BY DEF Crash
<1>2. \/ disk' = Sweep(disk, {path})
      \/ disk' = Sweep([disk EXCEPT ![writer].torn = TRUE], {path})
  BY DEF Crash
<1>3. path # None => path \in Inodes /\ disk'[path].img = disk[path].img
  <2> SUFFICES ASSUME path # None
               PROVE  path \in Inodes /\ disk'[path].img = disk[path].img
    OBVIOUS
  <2>1. path \in Inodes /\ disk \in [Inodes -> [img : Index, torn : BOOLEAN]]
    BY DEF Typed, TypeOK
  <2>2. \A d : Sweep(d, {path})[path] = d[path]
    BY <2>1 DEF Sweep
  <2>3. [disk EXCEPT ![writer].torn = TRUE][path].img = disk[path].img
    BY <2>1
  <2>4. PICK d : disk' = Sweep(d, {path}) /\ d[path].img = disk[path].img
    BY <1>2, <2>3
  <2> QED
    BY <2>1, <2>2, <2>4
<1>4. Backed => LiveIndex(disk[path].img, now) = LiveIndex(cache, now)
  BY <1>1, BackedLog
<1>5. Backed => MapNow' = MapNow
  BY <1>1, <1>3, <1>4 DEF MapNow, Recovered, Backed
<1>6. Map!Restart
  BY <1>1, <1>5 DEF Map!Restart, MapNow, NoAnswer
<1> QED
  BY <1>6 DEF Map!KvNext

LEMMA OpenRefines ==
  ASSUME Typed, FaithfulInv, Open
  PROVE  Map!KvNext
<1>1. ~up /\ up' /\ UNCHANGED <<now, ret>>
  BY DEF Open, thread
<1>2. CASE path = None
  <2>1. ret = [u \in Threads |-> NoAnswer]
    BY <1>1 DEF FaithfulInv, Faithful, Typed, TypeOK, Placed
  <2>2. Map!Restart
    BY <1>1, <1>2, <2>1 DEF Map!Restart, NoAnswer, Backed
  <2> QED
    BY <2>2 DEF Map!KvNext
<1>3. CASE path # None
  <2>1. /\ cache' = LiveIndex(disk[path].img, now)
        /\ now \in Nat /\ disk[path].img \in Index
    BY <1>3, StoreAssumption DEF Open, Typed, TypeOK
  <2>2. MapNow' = MapNow
    BY <1>1, <1>3, <2>1, LiveAgain DEF MapNow, Recovered
  <2> QED
    BY <1>1, <2>2 DEF Map!KvNext, MapNow
<1> QED
  BY <1>2, <1>3

\* One thread that does what it likes, or any number of threads in a calm store.
Sheltered == Alone \/ Calm

ShelterInv == (Alone => AloneInv) /\ (Calm => Durable)

LEMMA RefinementStep ==
  ASSUME Sheltered, Typed, PreparedInv, FaithfulInv, ShelterInv, [Next]_vars
  PROVE  [Map!KvNext]_(Map!kvVars)
<1>1. Durable \/ (AloneInv /\ \E t : Threads = {t})
  BY DEF Sheltered, ShelterInv, Alone
<1>2. ASSUME NEW t \in Threads,
             Begin(t) \/ Call(t) \/ CommitFails(t) \/ LogFails(t)
      PROVE  Map!KvNext
  <2>1. Prepared(t) /\ Faithful(t) /\ (AloneAt(t) \/ Durable)
    BY <1>1 DEF PreparedInv, FaithfulInv, AloneInv
  <2> QED
    BY <1>2, <2>1, CommitRefines, CommitFailsRefines, DecisionsRefine, UnseenRefines,
       RemoveExpiredRefines DEF Call
<1>3. CASE SetEncryptionKey
  BY <1>3, Stutters DEF SetEncryptionKey, thread
<1>4. CASE Tick \/ Crash \/ Open
  BY <1>1, <1>4, TickRefines, CrashRefines, OpenRefines
<1>5. CASE UNCHANGED vars
  BY <1>5 DEF vars, mem, files, thread, Map!kvVars, Backed, Recovered, LiveIndex
<1> QED
  BY <1>2, <1>3, <1>4, <1>5 DEF Next

LEMMA RefinementInit == Init => Map!Init
BY SameOperators DEF Init, Map!Init, Backed, Recovered, NoAnswer

LEMMA AlwaysSheltered == Spec => []ShelterInv
BY AlwaysAlone, AlwaysDurable, PTL DEF ShelterInv

\* The store is the durable map it promises to be: for one thread with
\* deadlines, encryption, purges, compactions, drops, crashes and appends and
\* files that fail, a reopened log's among them, and for any number of threads with all of these but compactions,
\* where nobody sets a deadline or nobody looks for expired entries; for any
\* keys, files and requests.
THEOREM StoreImplementsMap == Sheltered /\ ImportsPlain => (Spec => ImplementsMap)
<1> SUFFICES ASSUME Sheltered, ImportsPlain
             PROVE  Spec => ImplementsMap
  OBVIOUS
<1>1. Init => FaithfulInv /\ Map!Init
  BY FaithfulInit, RefinementInit
<1>2. Typed /\ LockInv /\ PreparedInv /\ FaithfulInv /\ [Next]_vars => FaithfulInv'
  BY FaithfulStep
<1>3. Typed /\ PreparedInv /\ FaithfulInv /\ ShelterInv /\ [Next]_vars => [Map!KvNext]_(Map!kvVars)
  BY RefinementStep
<1> QED
  BY <1>1, <1>2, <1>3, AlwaysLocked, AlwaysPrepared, AlwaysSheltered, PTL
     DEF Spec, ImplementsMap, Map!KvSpec

-----------------------------------------------------------------------------
(* That every call returns is a matter of fairness, and TLC's (CallsReturn). *)
(* What the code owes to it is not: whoever waits for a lock waits for a     *)
(* thread that holds one and can go on, and every step brings its call       *)
(* nearer to its return, whatever the others do.                             *)

\* The next step of the call finds the locks it takes free, and what it needs.
Ready(t) ==
  /\ pc[t] = "commit" => Target(t) # {}
  /\ pc[t] \in {"wal", "log", "reopen"} => wl = None
  /\ pc[t] \in {"read", "snapshot"} => wr = None
  /\ pc[t] = "cache" \/ (pc[t] = "remove" /\ todo[t] # {}) => wr = None /\ rd = {}
  /\ (pc[t] = "snapshot" /\ tmp = None) \/ (pc[t] = "reopen" /\ path = None) => Unused # {}

Holders == ({wr, wl} \cup rd) \ {None}

NoDeadlock ==
  \A t \in Threads : pc[t] = "idle" \/ Ready(t) \/ \E u \in Holders : Ready(u)

\* The file system has room for the log, the file it replaces, a temporary
\* file, and one for every thread.
Roomy ==
  IsFiniteSet(Threads) /\ ~(IsFiniteSet(Inodes) /\ Cardinality(Inodes) <= Cardinality(Threads) + 3)

LEMMA RoomForOne ==
  ASSUME Roomy, Typed
  PROVE  Unused # {}
<1> DEFINE files3 == {path, tmp, writer}
           temps  == {file[t] : t \in Threads}
<1>1. IsFiniteSet(files3) /\ Cardinality(files3) <= 3
  <2>1. IsFiniteSet({path}) /\ Cardinality({path}) = 1
    BY FS_Singleton
  <2>2. IsFiniteSet({path} \cup {tmp}) /\ Cardinality({path} \cup {tmp}) <= 2
    BY <2>1, FS_AddElement
  <2>3. /\ IsFiniteSet(({path} \cup {tmp}) \cup {writer})
        /\ Cardinality(({path} \cup {tmp}) \cup {writer}) <= 3
    <3>1. Cardinality({path} \cup {tmp}) \in Nat
      BY <2>2, FS_CardinalityType
    <3> QED
      BY <2>2, <3>1, FS_AddElement
  <2>4. files3 = ({path} \cup {tmp}) \cup {writer}
    OBVIOUS
  <2> QED
    BY <2>3, <2>4
<1>2. IsFiniteSet(temps) /\ Cardinality(temps) <= Cardinality(Threads)
  <2>1. file \in Surjection(Threads, temps)
    BY DEF Surjection, Typed, TypeOK
  <2> QED
    BY <2>1, FS_Surjection DEF Roomy
<1>3. IsFiniteSet(Held) /\ Cardinality(Held) <= Cardinality(Threads) + 3
  <2>1. /\ IsFiniteSet(files3 \cup temps)
        /\ Cardinality(files3 \cup temps)
             = Cardinality(files3) + Cardinality(temps) - Cardinality(files3 \cap temps)
    BY <1>1, <1>2, FS_Union
  <2>2. IsFiniteSet(files3 \cap temps)
    BY <1>1, FS_Subset
  <2>3. /\ Cardinality(files3) \in Nat /\ Cardinality(temps) \in Nat
        /\ Cardinality(files3 \cap temps) \in Nat /\ Cardinality(Threads) \in Nat
    BY <1>1, <1>2, <2>2, FS_CardinalityType DEF Roomy
  <2>4. Held = files3 \cup temps
    BY DEF Held
  <2> HIDE DEF files3, temps
  <2> QED
    BY <1>1, <1>2, <2>1, <2>3, <2>4
<1>4. SUFFICES ASSUME Unused = {} PROVE FALSE
  OBVIOUS
<1>5. Inodes \in SUBSET Held
  BY <1>4 DEF Unused
<1>6. IsFiniteSet(Inodes) /\ Cardinality(Inodes) <= Cardinality(Held)
  BY <1>3, <1>5, FS_Subset
<1>7. Cardinality(Inodes) \in Nat /\ Cardinality(Held) \in Nat /\ Cardinality(Threads) \in Nat
  BY <1>3, <1>6, FS_CardinalityType DEF Roomy
<1> QED
  BY <1>3, <1>6, <1>7 DEF Roomy

\* An import has a key to write until it has written all of them.
Supplied(t) ==
  pc[t] \in {"cache", "wal", "commit"} /\ req[t].op = "import" => todo[t] # {}

SuppliedInv == \A t \in Threads : Supplied(t)

LEMMA SuppliedStep == Typed /\ SuppliedInv /\ [Next]_vars => SuppliedInv'
<1> SUFFICES ASSUME Typed, SuppliedInv, [Next]_vars, NEW u \in Threads
             PROVE  Supplied(u)'
  BY DEF SuppliedInv
<1>1. Supplied(u)
  BY DEF SuppliedInv
<1>2. CASE Begin(u)
  <2>1. PICK r \in Requests :
           /\ req' = [req EXCEPT ![u] = r]
           /\ todo' = [todo EXCEPT ![u] = IF r.op = "import" THEN Keys ELSE {}]
    BY <1>2 DEF Begin
  <2>2. r.key \in Keys
    BY StoreAssumption DEF Request
  <2> QED
    BY <2>1, <2>2 DEF Supplied, Typed, TypeOK
<1>3. CASE Commit(u)
  BY <1>1, <1>3 DEF Commit, Goto, Supplied, Typed, TypeOK
<1>4. CASE \/ Set(u) \/ Import(u) \/ Delete(u) \/ Clear(u) \/ Increment(u)
           \/ ListPush(u) \/ DeleteFromList(u) \/ SetIfAbsent(u)
  <2>1. \E op, plans : Decide(u, op, plans)
    BY <1>4 DEF Set, Import, Delete, Clear, Increment, ListPush, DeleteFromList, SetIfAbsent
  <2>2. pc[u] = "wal" /\ UNCHANGED <<req, todo>>
    BY <2>1 DEF Decide
  <2> QED
    BY <1>1, <2>2 DEF Supplied
<1>5. CASE LockCache(u)
  BY <1>1, <1>5 DEF LockCache, scratch, Supplied
<1>6. CASE \/ CommitFails(u) \/ SetIfAbsentReturns(u) \/ Unlock(u) \/ Publish(u)
           \/ ReadEntry(u) \/ CheckEntry(u) \/ CollectExpired(u) \/ RemoveExpired(u)
           \/ LogExpiry(u) \/ PublishExpiry(u) \/ ExpiryDone(u)
           \/ OpenTmp(u) \/ WriteTmp(u) \/ RenameTmp(u) \/ Reopen(u) \/ CloseLog(u)
           \/ LogFails(u)
  <2>2. LogFails(u) => pc'[u] = "idle"
    BY LogFailsReturns DEF Return, Goto, Typed, TypeOK
  <2>1. pc'[u] \notin {"cache", "wal", "commit"}
    BY <1>6, <2>2
            DEF CommitFails, SetIfAbsentReturns, Unlock, Publish, ReadEntry, CheckEntry,
                CollectExpired, RemoveExpired, LogExpiry, PublishExpiry, ExpiryDone, OpenTmp,
                WriteTmp, RenameTmp, Reopen, CloseLog, Return, Goto, Typed, TypeOK
  <2> QED
    BY <2>1 DEF Supplied
<1>7. ASSUME NEW t \in Threads \ {u},
             Begin(t) \/ Call(t) \/ CommitFails(t) \/ LogFails(t)
      PROVE  Supplied(u)'
  BY <1>1, <1>7, OthersKeep DEF Supplied
<1>8. CASE Crash
  BY <1>8 DEF Crash, Supplied
<1>9. CASE SetEncryptionKey \/ Tick \/ Open \/ UNCHANGED vars
  <2>1. UNCHANGED thread
    BY <1>9 DEF SetEncryptionKey, Tick, Open, vars
  <2> QED
    BY <1>1, <2>1 DEF Supplied, thread, scratch
<1> QED
  BY <1>2, <1>3, <1>4, <1>5, <1>6, <1>7, <1>8, <1>9 DEF Next, Call

LEMMA AlwaysSupplied == Spec => []SuppliedInv
<1>1. Init => SuppliedInv
  BY DEF Init, SuppliedInv, Supplied
<1> QED
  BY <1>1, SuppliedStep, AlwaysTyped, PTL DEF Spec

\* The order of the locks: whoever waits for one waits for a thread that holds
\* one and can go on.  The log's mutex is taken last, under the cache's write
\* lock or alone, and a reader that compacts takes it only when it has let go.
THEOREM LocksAreOrdered == Spec => [](Roomy => NoDeadlock)
<1>1. ASSUME Roomy, Typed, LockInv, SuppliedInv, NEW t \in Threads, pc[t] # "idle", ~Ready(t)
      PROVE  \E u \in Holders : Ready(u)
  <2>1. Unused # {}
    BY <1>1, RoomForOne
  <2>2. ASSUME NEW u \in Threads, pc[u] = "commit" PROVE Target(u) # {}
    BY <1>1, <2>2 DEF SuppliedInv, Supplied, Target
  <2>3. CASE wl # None
    <3>1. wl \in Threads /\ pc[wl] \in {"commit", "unlock"}
      BY <1>1, <2>3 DEF LockInv, Typed, TypeOK
    <3>2. Ready(wl)
      BY <2>2, <3>1 DEF Ready
    <3> QED
      BY <2>3, <3>2 DEF Holders
  <2>4. CASE wl = None /\ wr # None
    <3>1. wr \in Threads /\ pc[wr] \in {"wal", "commit", "unlock"}
      BY <1>1, <2>4 DEF LockInv, Writing, Deciding, Typed, TypeOK
    <3>2. Ready(wr)
      BY <2>2, <2>4, <3>1 DEF Ready
    <3> QED
      BY <2>4, <3>2 DEF Holders
  <2>5. CASE wl = None /\ wr = None /\ rd # {}
    <3>1. PICK u \in rd : u \in Threads /\ pc[u] \in {"write", "rename"}
      BY <1>1, <2>5 DEF LockInv, Snapshotting
    <3>2. Ready(u)
      BY <3>1 DEF Ready
    <3>3. u # None
      BY <3>1, StoreAssumption
    <3> QED
      BY <3>1, <3>2, <3>3 DEF Holders
  <2>6. CASE wl = None /\ wr = None /\ rd = {}
    BY <1>1, <2>1, <2>2, <2>6 DEF Ready
  <2> QED
    BY <2>3, <2>4, <2>5, <2>6
<1>2. Typed /\ LockInv /\ SuppliedInv => (Roomy => NoDeadlock)
  BY <1>1 DEF NoDeadlock
<1> QED
  BY <1>2, AlwaysLocked, AlwaysSupplied, PTL

\* How far a call is from its return: the steps on its way, and three more for
\* every key it has still to write or to expire.
Place == [idle |-> 0, publish |-> 1, unlock |-> 2, commit |-> 3, wal |-> 4, cache |-> 5,
          reopen |-> 1, rename |-> 2, write |-> 3, snapshot |-> 4,
          remove |-> 5, expired |-> 6, log |-> 7, check |-> 9, read |-> 10]

Left(t) == Place[pc[t]] + 3 * Cardinality(IF pc[t] = "read" THEN Keys ELSE todo[t])

\* A step of a call brings it nearer to its return, and no other step of
\* anybody takes it away from there.
Shortens ==
  \A t \in Threads :
    /\ Call(t) \/ CommitFails(t) \/ LogFails(t) => Left(t)' < Left(t)
    /\ pc[t] # "idle" => Left(t)' <= Left(t)

LEMMA LeftType ==
  ASSUME IsFiniteSet(Keys), NEW l \in Labels, NEW keys \in SUBSET Keys
  PROVE  /\ Place[l] \in Nat
         /\ Cardinality(keys) \in Nat /\ Cardinality(keys) <= Cardinality(Keys)
BY FS_Subset, FS_CardinalityType DEF Place, Labels

\* A step on to another label, with no more keys to see to.
LEMMA Onward ==
  ASSUME IsFiniteSet(Keys), Typed, Typed', NEW t \in Threads,
         pc'[t] # "read",
         Place[pc'[t]] < Place[pc[t]], todo'[t] \subseteq todo[t] \/ pc[t] = "read"
  PROVE  Left(t)' < Left(t)
<1>1. /\ pc[t] \in Labels /\ pc'[t] \in Labels
      /\ todo[t] \in SUBSET Keys /\ todo'[t] \in SUBSET Keys
  BY DEF Typed, TypeOK
<1>2. PICK a \in SUBSET Keys : a = IF pc[t] = "read" THEN Keys ELSE todo[t]
  BY <1>1
<1>3. todo'[t] \subseteq a
  BY <1>1, <1>2
<1>4. Cardinality(todo'[t]) <= Cardinality(a)
  <2>1. IsFiniteSet(a)
    BY FS_Subset
  <2> QED
    BY <1>3, <2>1, FS_Subset
<1>5. /\ Place[pc[t]] \in Nat /\ Place[pc'[t]] \in Nat
      /\ Cardinality(a) \in Nat /\ Cardinality(todo'[t]) \in Nat
  BY <1>1, LeftType
<1>6. /\ Left(t) = Place[pc[t]] + 3 * Cardinality(a)
      /\ Left(t)' = Place[pc'[t]] + 3 * Cardinality(todo'[t])
  BY <1>2 DEF Left, Place
<1> QED
  BY <1>4, <1>5, <1>6

\* A key less to see to is worth two steps back.
LEMMA OneKeyLess ==
  ASSUME IsFiniteSet(Keys), Typed, Typed', NEW t \in Threads, NEW k \in todo[t],
         todo'[t] = todo[t] \ {k}, pc[t] # "read", pc'[t] # "read",
         Place[pc'[t]] <= Place[pc[t]] + 2
  PROVE  Left(t)' < Left(t)
<1>1. /\ pc[t] \in Labels /\ pc'[t] \in Labels
      /\ todo[t] \in SUBSET Keys /\ todo'[t] \in SUBSET Keys
  BY DEF Typed, TypeOK
<1>2. IsFiniteSet(todo[t])
  BY <1>1, FS_Subset
<1>3. Cardinality(todo'[t]) = Cardinality(todo[t]) - 1
  BY <1>2, FS_RemoveElement
<1>4. /\ Place[pc[t]] \in Nat /\ Place[pc'[t]] \in Nat
      /\ Cardinality(todo[t]) \in Nat /\ Cardinality(todo'[t]) \in Nat
  BY <1>1, LeftType
<1>5. /\ Left(t) = Place[pc[t]] + 3 * Cardinality(todo[t])
      /\ Left(t)' = Place[pc'[t]] + 3 * Cardinality(todo'[t])
  BY DEF Left, Place
<1> QED
  BY <1>3, <1>4, <1>5

LEMMA StepShortens ==
  ASSUME IsFiniteSet(Keys), Typed, Typed', PreparedInv, NEW t \in Threads,
         Call(t) \/ CommitFails(t) \/ LogFails(t)
  PROVE  Left(t)' < Left(t)
<1>9. LogFails(t) => Return(t) /\ pc[t] # "idle"
  BY LogFailsReturns
<1>1. CASE Return(t)
  <2>1. pc[t] # "idle"
    BY <1>1, <1>9
            DEF Call, CommitFails, LockCache, Set, Import, Delete, Clear, Increment, ListPush,
                DeleteFromList, SetIfAbsent, SetIfAbsentReturns, Decide, Commit, Unlock,
                Publish, ReadEntry, CheckEntry, CollectExpired, RemoveExpired, LogExpiry,
                PublishExpiry, ExpiryDone, OpenTmp, WriteTmp, RenameTmp, Reopen, CloseLog
  <2>2. pc'[t] = "idle" /\ todo'[t] = {}
    BY <1>1 DEF Return, Goto, Typed, TypeOK
  <2>3. Place[pc'[t]] < Place[pc[t]]
    BY <2>1, <2>2 DEF Place, Labels, Typed, TypeOK
  <2> QED
    BY <2>2, <2>3, Onward
<1>2. CASE \/ Set(t) \/ Import(t) \/ Delete(t) \/ Clear(t) \/ Increment(t)
           \/ ListPush(t) \/ DeleteFromList(t) \/ SetIfAbsent(t)
  <2>1. \E op, plans : Decide(t, op, plans)
    BY <1>2 DEF Set, Import, Delete, Clear, Increment, ListPush, DeleteFromList, SetIfAbsent
  <2>2. pc[t] = "wal" /\ pc'[t] \in {"unlock", "commit"} /\ todo'[t] = todo[t]
    BY <2>1 DEF Decide, Goto, Typed, TypeOK
  <2> QED
    BY <2>2, Onward DEF Place
<1>3. CASE Commit(t)
  <2>1. PICK k \in Target(t) : todo' = [todo EXCEPT ![t] = @ \ {k}]
    BY <1>3 DEF Commit
  <2>2. pc[t] = "commit" /\ todo'[t] = todo[t] \ {k}
        /\ pc'[t] = IF todo'[t] = {} THEN "unlock" ELSE "commit"
    BY <1>3, <2>1 DEF Commit, Goto, Typed, TypeOK
  <2>3. CASE todo'[t] = {}
    BY <2>2, <2>3, Onward DEF Place
  <2>4. CASE todo'[t] # {}
    <3>1. req[t].op = "import"
      BY <2>2, <2>4 DEF PreparedInv, Prepared
    <3>2. k \in todo[t]
      BY <2>1, <3>1 DEF Target
    <3> QED
      BY <2>2, <2>4, <3>2, OneKeyLess DEF Place
  <2> QED
    BY <2>3, <2>4
<1>4. CASE RemoveExpired(t)
  <2>1. PICK k \in todo[t] : todo'[t] = todo[t] \ {k}
    BY <1>4 DEF RemoveExpired, Typed, TypeOK
  <2>2. pc[t] = "remove" /\ pc'[t] \in {"remove", "log"}
    BY <1>4 DEF RemoveExpired, Goto, Typed, TypeOK
  <2> QED
    BY <2>1, <2>2, OneKeyLess DEF Place
<1>5. CASE CheckEntry(t) /\ ~Return(t)
  <2>1. /\ pc[t] = "check" /\ pc'[t] = "remove" /\ todo'[t] = {req[t].key}
    BY <1>5 DEF CheckEntry, Goto, Typed, TypeOK
  <2>2. Cardinality(todo'[t]) = 1
    BY <2>1, FS_Singleton
  <2>3. Cardinality(todo[t]) \in Nat
    BY LeftType DEF Typed, TypeOK
  <2>4. Left(t) = 9 + 3 * Cardinality(todo[t]) /\ Left(t)' = 5 + 3 * 1
    BY <2>1, <2>2 DEF Left, Place
  <2> QED
    BY <2>3, <2>4
<1>6. CASE ~Return(t) /\ (ReadEntry(t) \/ CollectExpired(t))
  <2>1. pc[t] = "read" /\ pc'[t] \in {"check", "remove"}
    BY <1>6 DEF ReadEntry, CollectExpired, Goto, Typed, TypeOK
  <2> QED
    BY <2>1, Onward DEF Place
<1>7. CASE /\ ~Return(t)
           /\ \/ LockCache(t) \/ SetIfAbsentReturns(t) \/ Unlock(t) \/ Publish(t)
              \/ LogExpiry(t) \/ PublishExpiry(t) \/ ExpiryDone(t)
              \/ OpenTmp(t) \/ WriteTmp(t) \/ RenameTmp(t) \/ Reopen(t) \/ CloseLog(t)
  <2>1. /\ todo'[t] = todo[t]
        /\ \/ pc[t] = "cache" /\ pc'[t] = "wal"
           \/ pc[t] = "wal" /\ pc'[t] = "unlock"
           \/ pc[t] = "unlock" /\ pc'[t] = "publish"
           \/ pc[t] = "log" /\ pc'[t] = "expired"
           \/ pc[t] = "expired" /\ pc'[t] = "remove"
           \/ pc[t] = "remove" /\ pc'[t] = "snapshot"
           \/ pc[t] = "snapshot" /\ pc'[t] = "write"
           \/ pc[t] = "write" /\ pc'[t] = "rename"
           \/ pc[t] = "rename" /\ pc'[t] = "reopen"
    BY <1>7 DEF LockCache, SetIfAbsentReturns, Unlock, Publish, LogExpiry, PublishExpiry,
                ExpiryDone, OpenTmp, WriteTmp, RenameTmp, Reopen, CloseLog, scratch, Goto,
                Typed, TypeOK
  <2> QED
    BY <2>1, Onward DEF Place
<1>8. CASE CommitFails(t)
  <2>1. pc[t] = "commit" /\ pc'[t] = "unlock" /\ todo'[t] = {}
    BY <1>8 DEF CommitFails, Goto, Typed, TypeOK
  <2> QED
    BY <2>1, Onward DEF Place
<1> QED
  BY <1>1, <1>2, <1>3, <1>4, <1>5, <1>6, <1>7, <1>8, <1>9 DEF Call

\* A call of any thread takes no more than ten steps and three for every key;
\* with LocksAreOrdered that is all that CallsReturn asks of the code.
THEOREM CallsShorten == IsFiniteSet(Keys) => (Spec => [][Shortens]_vars)
<1> SUFFICES ASSUME IsFiniteSet(Keys) PROVE Spec => [][Shortens]_vars
  OBVIOUS
<1>1. ASSUME Typed, Typed', PreparedInv, [Next]_vars PROVE [Shortens]_vars
  <2> SUFFICES ASSUME Next, NEW u \in Threads
               PROVE  /\ Call(u) \/ CommitFails(u) \/ LogFails(u) => Left(u)' < Left(u)
                      /\ pc[u] # "idle" => Left(u)' <= Left(u)
    BY <1>1 DEF Shortens
  <2>1. Left(u) \in Nat /\ Left(u)' \in Nat
    <3>1. /\ Place[pc[u]] \in Nat /\ Cardinality(todo[u]) \in Nat
          /\ Place[pc'[u]] \in Nat /\ Cardinality(todo'[u]) \in Nat
          /\ Cardinality(Keys) \in Nat
      BY <1>1, LeftType DEF Typed, TypeOK
    <3> QED
      BY <3>1 DEF Left, Place
  <2>2. CASE Call(u) \/ CommitFails(u) \/ LogFails(u)
    BY <1>1, <2>1, <2>2, StepShortens
  <2>3. CASE ~(Call(u) \/ CommitFails(u) \/ LogFails(u)) /\ pc[u] # "idle"
    <3>1. CASE \E t \in Threads : Begin(t) \/ Call(t) \/ CommitFails(t) \/ LogFails(t)
      <4>1. PICK t \in Threads : Begin(t) \/ Call(t) \/ CommitFails(t) \/ LogFails(t)
        BY <3>1
      <4>2. t # u
        BY <2>3, <4>1 DEF Begin
      <4>3. pc'[u] = pc[u] /\ todo'[u] = todo[u]
        BY <1>1, <4>1, <4>2, OthersKeep
      <4>4. Left(u)' = Left(u)
        BY <4>3 DEF Left, Place
      <4> QED
        BY <2>1, <2>3, <4>4
    <3>2. CASE Crash
      <4>1. pc'[u] = "idle" /\ todo'[u] = {}
        BY <3>2 DEF Crash
      <4>2. Left(u)' = 0
        BY <4>1, FS_EmptySet DEF Left, Place
      <4> QED
        BY <2>1, <2>3, <4>2
    <3>3. CASE SetEncryptionKey \/ Tick \/ Open
      <4>1. UNCHANGED thread
        BY <3>3 DEF SetEncryptionKey, Tick, Open
      <4>2. Left(u)' = Left(u)
        BY <4>1 DEF Left, Place, thread, scratch
      <4> QED
        BY <2>1, <2>3, <4>2
    <3> QED
      BY <3>1, <3>2, <3>3 DEF Next
  <2> QED
    BY <2>2, <2>3
<1> QED
  BY <1>1, AlwaysTyped, AlwaysPrepared, PTL DEF Spec
=============================================================================
