------------------------- MODULE RodiniaStoreProofs -------------------------
(***************************************************************************)
(* Proofs about RodiniaStore, for any keys, threads, files and requests.   *)
(***************************************************************************)
EXTENDS RodiniaProperties, TLAPS

-----------------------------------------------------------------------------
(* The operators of RodiniaEntry stay within their types.                   *)

\* An entry, or its absence, as a reader of the index sees it.
LEMMA LiveAtType ==
  ASSUME NEW e \in Entry \cup {None}, NEW at
  PROVE  LiveAt(e, at) \in Entry \cup {None}
BY DEF LiveAt

LEMMA LiveIndexType ==
  ASSUME NEW index \in Index, NEW at
  PROVE  LiveIndex(index, at) \in Index
BY LiveAtType DEF LiveIndex, Index

\* Applying a log record to an index yields an index.
LEMMA ApplyType ==
  ASSUME NEW index \in Index, NEW type, NEW key, NEW e \in Entry \cup {None}
  PROVE  Apply(index, type, key, e) \in Index
BY DEF Apply, Index, EmptyIndex

LEMMA DeadlineType ==
  ASSUME NEW ttl \in Int \cup {Never}, NEW at \in Nat
  PROVE  Deadline(ttl, at) \in Deadlines
BY EntryAssumption DEF Deadline, Deadlines

LEMMA SaturateType ==
  ASSUME NEW x \in Int
  PROVE  Saturate(x) \in Int
BY EntryAssumption DEF Saturate

LEMMA OneMoreType ==
  ASSUME NEW len \in Int
  PROVE  OneMore(len) \in Int
BY EntryAssumption DEF OneMore

LEMMA EmptyIndexType == EmptyIndex \in Index
BY DEF EmptyIndex, Index

LEMMA SealType ==
  ASSUME ekey \in EncKeys \cup {None}, NEW enc \in BOOLEAN
  PROVE  Seal(enc) \in EncKeys \cup {None}
BY DEF Seal

LEMMA NewEntryType ==
  ASSUME ekey \in EncKeys \cup {None}, now \in Nat, NEW r \in Request
  PROVE  NewEntry(r) \in Entry
BY SealType, DeadlineType DEF NewEntry, Request, Entry, Kinds

LEMMA AnswerTypes ==
  /\ No \in Results /\ Err \in Results /\ NoAnswer \in Results
  /\ \A n \in Int : Ok(n) \in Results
BY DEF No, Err, NoAnswer, Ok, Results

LEMMA LabelTypes ==
  \A op : FirstLock(op) \in Labels \ {"idle", "commit", "log", "expired"}
BY DEF FirstLock, Labels

-----------------------------------------------------------------------------
(* Type correctness.  TypeOK alone is not inductive: a call that commits    *)
(* needs a decision, an expiry needs its key, an append needs a log.        *)

Placed ==
  /\ up => writer \in Inodes
  /\ \A t \in Threads :
       /\ pc[t] # "idle" => up /\ req[t] \in Requests
       /\ pc[t] = "commit" => plan[t] \in Plans
       /\ pc[t] \in {"log", "expired"} => cur[t] \in Keys

Typed == TypeOK /\ Placed

\* Every behaviour starts in a typed state: the process is down, no call runs.
LEMMA TypedInit == Init => Typed
<1> SUFFICES ASSUME Init PROVE Typed
  OBVIOUS
<1>1. TypeOK
  <2>1. disk \in [Inodes -> [img : Index, torn : BOOLEAN]]
    BY EmptyIndexType DEF Init
  <2>2. ret \in [Threads -> Results]
    BY AnswerTypes DEF Init
  <2>3. pc \in [Threads -> Labels]
    BY DEF Init, Labels
  <2>4. /\ now \in 0..MaxTime /\ faults \in 0..MaxFaults
    BY StoreAssumption DEF Init
  <2> QED
    BY <2>1, <2>2, <2>3, <2>4, EmptyIndexType DEF Init, TypeOK
<1>2. Placed
  BY DEF Init, Placed
<1> QED
  BY <1>1, <1>2 DEF Typed

\* A call that returns forgets its locals.
LEMMA ReturnType ==
  ASSUME NEW t \in Threads, Return(t), Typed
  PROVE  /\ pc' = [pc EXCEPT ![t] = "idle"] /\ pc' \in [Threads -> Labels]
         /\ req' \in [Threads -> Requests \cup {None}]
         /\ ent' \in [Threads -> Entry \cup {None}]
         /\ plan' \in [Threads -> Plans \cup {None}]
         /\ todo' \in [Threads -> SUBSET Keys]
         /\ cur' \in [Threads -> Keys \cup {None}]
         /\ file' \in [Threads -> Inodes \cup {None}]
         /\ ret' \in [Threads -> Results]
         /\ \A u \in Threads \ {t} : req'[u] = req[u] /\ plan'[u] = plan[u] /\ cur'[u] = cur[u]
BY AnswerTypes DEF Return, Goto, Typed, TypeOK, Labels

\* A call that goes on keeps the type of its program counter.
LEMMA GotoType ==
  ASSUME NEW t \in Threads, NEW l \in Labels, Goto(t, l), Typed
  PROVE  pc' \in [Threads -> Labels] /\ pc' = [pc EXCEPT ![t] = l]
BY DEF Goto, Typed, TypeOK

\* Appending a record keeps the files typed, whether it reaches the disk or not.
LEMMA AppendType ==
  ASSUME NEW type, NEW key, NEW e \in Entry \cup {None}, Typed, up,
         AppendRecord(type, key, e) \/ AppendFails(type, key, e)
  PROVE  /\ ahead' \in Index /\ dirty' \in BOOLEAN /\ faults' \in 0..MaxFaults
         /\ disk' \in [Inodes -> [img : Index, torn : BOOLEAN]]
         /\ UNCHANGED <<path, tmp, writer>>
<1>1. writer \in Inodes
  BY DEF Typed, TypeOK, Placed
<1>2. Apply(ahead, type, key, e) \in Index
  BY ApplyType DEF Typed, TypeOK
<1>3. CASE AppendRecord(type, key, e)
  <2>1. ahead' \in Index
    BY <1>2, <1>3 DEF AppendRecord
  <2> QED
    BY <1>1, <1>3, <2>1 DEF AppendRecord, Flushed, Typed, TypeOK
<1>4. CASE AppendFails(type, key, e)
  BY <1>2, <1>4, StoreAssumption DEF AppendFails, FaultHappens, Typed, TypeOK
<1> QED
  BY <1>3, <1>4

LEMMA BeginTyped ==
  ASSUME Typed, NEW t \in Threads, Begin(t)
  PROVE  Typed'
<1>1. PICK r \in Requests :
         /\ req' = [req EXCEPT ![t] = r]
         /\ ent' = [ent EXCEPT ![t] = IF r.op \in {"set", "import"} THEN NewEntry(r) ELSE None]
         /\ todo' = [todo EXCEPT ![t] = IF r.op = "import" THEN Keys ELSE {}]
         /\ Goto(t, FirstLock(r.op))
  BY DEF Begin
<1>2. r \in Request /\ r # None
  BY StoreAssumption
<1>3. NewEntry(r) \in Entry
  BY <1>2, NewEntryType, StoreAssumption DEF Typed, TypeOK
<1>4. FirstLock(r.op) \in Labels \ {"idle", "commit", "log", "expired"}
  BY LabelTypes
<1>5. pc' \in [Threads -> Labels] /\ pc' = [pc EXCEPT ![t] = FirstLock(r.op)]
  BY <1>1, <1>4, GotoType
<1>6. TypeOK'
  BY <1>1, <1>3, <1>5 DEF Begin, Typed, TypeOK, mem, locks, files
<1>7. Placed'
  BY <1>1, <1>2, <1>4, <1>5 DEF Begin, Typed, TypeOK, Placed, mem, locks, files
<1> QED
  BY <1>6, <1>7 DEF Typed

LEMMA DecideTyped ==
  ASSUME Typed, NEW t \in Threads, NEW op, NEW plans \in SUBSET Plans,
         Decide(t, op, plans)
  PROVE  Typed'
<1>1. PICK p \in plans :
         /\ plan' = [plan EXCEPT ![t] = p]
         /\ Goto(t, IF p.type = "none" THEN "unlock" ELSE "commit")
         /\ ret' = IF p.type = "none" THEN [ret EXCEPT ![t] = p.ret] ELSE ret
  BY DEF Decide
<1>2. p \in Plans /\ p.ret \in Results
  BY DEF Plans
<1>3. ret' \in [Threads -> Results]
  BY <1>1, <1>2 DEF Typed, TypeOK
<1>4. /\ pc' \in [Threads -> Labels]
      /\ pc' = [pc EXCEPT ![t] = IF p.type = "none" THEN "unlock" ELSE "commit"]
  BY <1>1, GotoType DEF Labels
<1>5. TypeOK'
  BY <1>1, <1>2, <1>3, <1>4 DEF Decide, Typed, TypeOK, mem, files
<1>6. Placed'
  BY <1>1, <1>2, <1>4 DEF Decide, Typed, TypeOK, Placed, mem, files
<1> QED
  BY <1>5, <1>6 DEF Typed

\* The list a push or a removal writes is an entry.
LEMMA ListOfType ==
  ASSUME Typed, NEW t \in Threads, pc[t] = "wal", NEW len \in Int
  PROVE  ListOf(t, len) \in Entry
<1>1. req[t] \in Request
  BY StoreAssumption DEF Typed, Placed
<1>2. Live(t) \in Entry \cup {None}
  BY <1>1, LiveAtType DEF Live, Found, Typed, TypeOK, Index, Request
<1>3. Live(t) # None => Live(t).exp \in Deadlines
  BY <1>2 DEF Entry
<1>4. now \in Nat /\ ekey \in EncKeys \cup {None}
  BY StoreAssumption DEF Typed, TypeOK
<1>5. Deadline(req[t].ttl, now) \in Deadlines /\ Never \in Deadlines
  BY <1>1, <1>4, DeadlineType DEF Request, Deadlines
<1>6. KeptDeadline(t) \in Deadlines
  BY <1>3, <1>5 DEF KeptDeadline
<1>7. Seal(req[t].enc) \in EncKeys \cup {None}
  BY <1>1, <1>4, SealType DEF Request
<1> QED
  BY <1>6, <1>7 DEF ListOf, Entry, Kinds

\* Whatever a call decides, it decides on a plan.
LEMMA DecisionsTyped ==
  ASSUME Typed, NEW t \in Threads,
         \/ Set(t) \/ Import(t) \/ Delete(t) \/ Clear(t) \/ Increment(t)
         \/ ListPush(t) \/ DeleteFromList(t) \/ SetIfAbsent(t)
  PROVE  Typed'
<1> USE DEF Write, Erase, Leave, Plans, RecordTypes, Ok, No, Err, Results
<1>1. pc[t] = "wal"
  BY DEF Set, Import, Delete, Clear, Increment, ListPush, DeleteFromList, SetIfAbsent, Decide
<1>2. req[t] \in Request
  BY <1>1, StoreAssumption DEF Typed, Placed
<1>3. Live(t) \in Entry \cup {None}
  BY <1>2, LiveAtType DEF Live, Found, Typed, TypeOK, Index, Request
<1>4. Live(t) # None => Live(t).n \in Int /\ Live(t).exp \in Deadlines
  BY <1>3 DEF Entry
<1>5. now \in Nat /\ ekey \in EncKeys \cup {None} /\ ent[t] \in Entry \cup {None}
  BY StoreAssumption DEF Typed, TypeOK
<1>6. Deadline(req[t].ttl, now) \in Deadlines
  BY <1>2, <1>5, DeadlineType DEF Request
<1>7. \A len \in Int : ListOf(t, len) \in Entry
  BY <1>1, ListOfType
<1>8. CASE Set(t)
  <2>1. Write(ent[t], Ok(0), "present") \in Plans
    BY <1>5
  <2> QED
    BY <1>8, <2>1, DecideTyped DEF Set
<1>9. CASE Import(t)
  <2>1. Write(ent[t], Ok(0), "none") \in Plans
    BY <1>5
  <2> QED
    BY <1>9, <2>1, DecideTyped DEF Import
<1>10. CASE Delete(t)
  <2>1. Erase(Ok(1), "absent") \in Plans /\ Leave(No) \in Plans
    OBVIOUS
  <2> QED
    BY <1>10, <2>1, DecideTyped DEF Delete
<1>11. CASE Clear(t)
  <2>1. [type |-> "clear", ent |-> None, ret |-> Ok(0), news |-> "cleared"] \in Plans
    OBVIOUS
  <2> QED
    BY <1>11, <2>1, DecideTyped DEF Clear
<1>12. CASE Increment(t)
  <2> DEFINE next == Saturate((IF Live(t) = None THEN 0 ELSE Live(t).n) + req[t].n)
             e == [kind |-> "int", n |-> next, enc |-> None, exp |-> Deadline(req[t].ttl, now)]
  <2>1. next \in Int
    BY <1>2, <1>4, SaturateType DEF Request
  <2>2. e \in Entry
    BY <1>6, <2>1 DEF Entry, Kinds
  <2>3. Write(e, Ok(next), "present") \in Plans /\ Leave(Err) \in Plans
    BY <2>1, <2>2
  <2> QED
    BY <1>12, <2>3, DecideTyped DEF Increment
<1>13. CASE ListPush(t)
  <2> DEFINE len == OneMore(IF Live(t) = None THEN 0 ELSE Live(t).n)
  <2>1. len \in Int
    BY <1>4, OneMoreType
  <2>2. Write(ListOf(t, len), Ok(len), "present") \in Plans /\ Leave(Err) \in Plans
    BY <1>7, <2>1
  <2> QED
    BY <1>13, <2>2, DecideTyped DEF ListPush
<1>14. CASE DeleteFromList(t)
  <2> DEFINE left(m) == Live(t).n - m
             outcome(m) ==
               IF m = 0 THEN Leave(No)
               ELSE IF left(m) = 0 THEN Erase(Ok(1), "absent")
               ELSE IF ~CanSeal(req[t].enc) THEN Leave(Err)
               ELSE Write(ListOf(t, left(m)), Ok(1), "present")
             plans == IF Found(t) = None THEN {Leave(No)}
                      ELSE IF Live(t) = None THEN {Erase(No, "absent")}
                      ELSE IF NotAList(t) THEN {Leave(Err)}
                      ELSE {outcome(m) : m \in 0..Live(t).n}
  <2>1. ASSUME Live(t) # None, NEW m \in 0..Live(t).n
        PROVE  outcome(m) \in Plans
    <3>1. left(m) \in Int
      BY <1>4, <2>1
    <3>2. ListOf(t, left(m)) \in Entry
      BY <1>7, <3>1
    <3>3. Ok(1) \in Results
      OBVIOUS
    <3> QED
      BY <3>2, <3>3
  <2>2. plans \in SUBSET Plans
    <3> HIDE DEF outcome
    <3>1. Leave(No) \in Plans /\ Erase(No, "absent") \in Plans /\ Leave(Err) \in Plans
      OBVIOUS
    <3> QED
      BY <2>1, <3>1
  <2>3. Decide(t, "delete_from_list", plans)
    BY <1>14 DEF DeleteFromList
  <2> HIDE DEF plans
  <2> QED
    BY <2>2, <2>3, DecideTyped
<1>15. CASE SetIfAbsent(t)
  <2>1. NewEntry(req[t]) \in Entry
    BY <1>2, <1>5, NewEntryType
  <2>2. Write(NewEntry(req[t]), Ok(1), "present") \in Plans
    BY <2>1
  <2> QED
    BY <1>15, <2>2, DecideTyped DEF SetIfAbsent
<1> QED
  BY <1>8, <1>9, <1>10, <1>11, <1>12, <1>13, <1>14, <1>15

\* A write takes the cache's lock, commits and returns.
LEMMA CommittingTyped ==
  ASSUME Typed, NEW t \in Threads,
         \/ LockCache(t) \/ SetIfAbsentReturns(t) \/ Commit(t) \/ CommitFails(t)
         \/ Unlock(t) \/ Publish(t)
  PROVE  Typed'
<1> USE DEF mem, locks, files, scratch
<1>1. CASE LockCache(t)
  <2>1. pc' \in [Threads -> Labels] /\ pc' = [pc EXCEPT ![t] = "wal"]
    BY <1>1, GotoType DEF LockCache, Labels
  <2> QED
    BY <1>1, <2>1 DEF LockCache, Typed, TypeOK, Placed
<1>2. CASE SetIfAbsentReturns(t)
  <2>1. pc' \in [Threads -> Labels] /\ pc' = [pc EXCEPT ![t] = "unlock"]
    BY <1>2, GotoType DEF SetIfAbsentReturns, Labels
  <2>2. ret' \in [Threads -> Results]
    BY <1>2, AnswerTypes DEF SetIfAbsentReturns, Typed, TypeOK
  <2> QED
    BY <1>2, <2>1, <2>2 DEF SetIfAbsentReturns, Typed, TypeOK, Placed
<1>3. CASE Commit(t)
  <2>1. /\ pc[t] = "commit" /\ up
        /\ plan[t] \in Plans /\ plan[t].ent \in Entry \cup {None} /\ plan[t].ret \in Results
    BY <1>3 DEF Commit, Typed, Placed, Plans
  <2>2. PICK k \in Target(t) :
          /\ AppendRecord(plan[t].type, k, plan[t].ent)
          /\ cache' = Apply(cache, plan[t].type, k, plan[t].ent)
          /\ todo' = [todo EXCEPT ![t] = @ \ {k}]
    BY <1>3 DEF Commit
  <2>3. cache' \in Index
    BY <2>1, <2>2, ApplyType DEF Typed, TypeOK
  <2>4. todo' \in [Threads -> SUBSET Keys]
    BY <2>2 DEF Typed, TypeOK
  <2>5. /\ pc' \in [Threads -> Labels] /\ ret' \in [Threads -> Results]
        /\ pc' = pc \/ pc' = [pc EXCEPT ![t] = "unlock"]
    <3>1. CASE todo'[t] = {}
      <4>1. Goto(t, "unlock") /\ ret' = [ret EXCEPT ![t] = plan[t].ret]
        BY <1>3, <3>1 DEF Commit
      <4> QED
        BY <2>1, <4>1, GotoType DEF Typed, TypeOK, Labels
    <3>2. CASE todo'[t] # {}
      BY <1>3, <3>2 DEF Commit, Typed, TypeOK
    <3> QED
      BY <3>1, <3>2
  <2>6. /\ ahead' \in Index /\ dirty' \in BOOLEAN /\ faults' \in 0..MaxFaults
        /\ disk' \in [Inodes -> [img : Index, torn : BOOLEAN]]
        /\ UNCHANGED <<path, tmp, writer>>
    BY <2>1, <2>2, AppendType
  <2>7. UNCHANGED <<up, now, ekey, seen, silent, rd, wr, wl, req, ent, plan, cur, file>>
    BY <1>3 DEF Commit
  <2>8. TypeOK'
    BY <2>3, <2>4, <2>5, <2>6, <2>7 DEF Typed, TypeOK
  <2>9. Placed'
    BY <2>1, <2>5, <2>6, <2>7 DEF Typed, TypeOK, Placed
  <2> QED
    BY <2>8, <2>9 DEF Typed
<1>4. CASE CommitFails(t)
  <2>1. up /\ req[t] \in Request /\ plan[t] \in Plans /\ plan[t].ent \in Entry \cup {None}
    BY <1>4, StoreAssumption DEF CommitFails, Typed, Placed, Plans
  <2>2. PICK k \in Target(t) :
          /\ AppendFails(plan[t].type, k, plan[t].ent)
          /\ IF plan[t].type = "delete"
               THEN cache' = [cache EXCEPT ![k] = None] /\ silent' = silent \cup {k}
               ELSE UNCHANGED <<cache, silent>>
    BY <1>4 DEF CommitFails
  <2>3. k \in Keys
    BY <2>1 DEF Target, Request, Typed, TypeOK
  <2>4. cache' \in Index /\ silent' \in SUBSET Keys
    BY <2>2, <2>3 DEF Typed, TypeOK, Index
  <2>5. Leave(Err) \in Plans
    BY AnswerTypes DEF Leave, Plans
  <2>6. /\ plan' \in [Threads -> Plans \cup {None}]
        /\ todo' \in [Threads -> SUBSET Keys] /\ ret' \in [Threads -> Results]
    BY <1>4, <2>5, AnswerTypes DEF CommitFails, Typed, TypeOK
  <2>7. pc' \in [Threads -> Labels] /\ pc' = [pc EXCEPT ![t] = "unlock"]
    BY <1>4, GotoType DEF CommitFails, Labels
  <2>8. /\ ahead' \in Index /\ dirty' \in BOOLEAN /\ faults' \in 0..MaxFaults
        /\ disk' \in [Inodes -> [img : Index, torn : BOOLEAN]]
        /\ UNCHANGED <<path, tmp, writer>>
    BY <2>1, <2>2, AppendType
  <2>9. /\ UNCHANGED <<up, now, ekey, seen, rd, wr, wl, req, ent, cur, file>>
        /\ plan' = [plan EXCEPT ![t] = Leave(Err)]
    BY <1>4 DEF CommitFails
  <2>10. TypeOK'
    BY <2>4, <2>6, <2>7, <2>8, <2>9 DEF Typed, TypeOK
  <2>11. Placed'
    BY <1>4, <2>7, <2>8, <2>9 DEF CommitFails, Typed, TypeOK, Placed
  <2> QED
    BY <2>10, <2>11 DEF Typed
<1>5. CASE Unlock(t)
  <2>1. CASE Return(t)
    BY <1>5, <2>1, ReturnType DEF Unlock, Typed, TypeOK, Placed
  <2>2. CASE Goto(t, "publish") /\ UNCHANGED <<scratch, ret>>
    <3>1. pc' \in [Threads -> Labels] /\ pc' = [pc EXCEPT ![t] = "publish"]
      BY <2>2, GotoType DEF Labels
    <3> QED
      BY <1>5, <2>2, <3>1 DEF Unlock, Typed, TypeOK, Placed
  <2> QED
    BY <1>5, <2>1, <2>2 DEF Unlock
<1>6. CASE Publish(t)
  <2>1. seen' \in [Keys -> BOOLEAN]
    BY <1>6 DEF Publish, Typed, TypeOK
  <2> QED
    BY <1>6, <2>1, ReturnType, SMTT(30) DEF Publish, Typed, TypeOK, Placed
<1> QED
  BY <1>1, <1>2, <1>3, <1>4, <1>5, <1>6

\* A read clones an entry; an expiry removes it, logs that and publishes it.
LEMMA ReadingTyped ==
  ASSUME Typed, NEW t \in Threads,
         \/ ReadEntry(t) \/ CheckEntry(t) \/ CollectExpired(t) \/ RemoveExpired(t)
         \/ LogExpiry(t) \/ PublishExpiry(t) \/ ExpiryDone(t)
  PROVE  Typed'
<1> USE DEF mem, locks, files, scratch
<1>1. pc[t] \in {"read", "check", "remove", "log", "expired"} /\ up /\ req[t] \in Request
  BY StoreAssumption
     DEF ReadEntry, CheckEntry, CollectExpired, RemoveExpired, LogExpiry, PublishExpiry,
         ExpiryDone, Typed, Placed
<1>2. CASE ReadEntry(t)
  <2>1. CASE Return(t)
    BY <1>2, <2>1, ReturnType DEF ReadEntry, Typed, TypeOK, Placed
  <2>2. CASE ent' = [ent EXCEPT ![t] = Found(t)] /\ Goto(t, "check") /\ UNCHANGED <<req, plan, todo, cur, file, ret>>
    <3>1. Found(t) \in Entry \cup {None}
      BY <1>1 DEF Found, Request, Typed, TypeOK, Index
    <3>2. pc' \in [Threads -> Labels] /\ pc' = [pc EXCEPT ![t] = "check"]
      BY <2>2, GotoType DEF Labels
    <3> QED
      BY <1>1, <1>2, <2>2, <3>1, <3>2 DEF ReadEntry, Typed, TypeOK, Placed
  <2> QED
    BY <1>2, <2>1, <2>2 DEF ReadEntry
<1>3. CASE CheckEntry(t)
  <2>1. CASE Return(t)
    BY <1>3, <2>1, ReturnType DEF CheckEntry, Typed, TypeOK, Placed
  <2>2. CASE todo' = [todo EXCEPT ![t] = {req[t].key}] /\ Goto(t, "remove") /\ UNCHANGED <<req, ent, plan, cur, file, ret>>
    <3>1. todo' \in [Threads -> SUBSET Keys]
      BY <1>1, <2>2 DEF Request, Typed, TypeOK
    <3>2. pc' \in [Threads -> Labels] /\ pc' = [pc EXCEPT ![t] = "remove"]
      BY <2>2, GotoType DEF Labels
    <3> QED
      BY <1>1, <1>3, <2>2, <3>1, <3>2 DEF CheckEntry, Typed, TypeOK, Placed
  <2> QED
    BY <1>3, <2>1, <2>2 DEF CheckEntry
<1>4. CASE CollectExpired(t)
  <2>1. pc' \in [Threads -> Labels] /\ pc' = [pc EXCEPT ![t] = "remove"]
    BY <1>4, GotoType DEF CollectExpired, Labels
  <2>2. todo' \in [Threads -> SUBSET Keys]
    BY <1>4 DEF CollectExpired, Typed, TypeOK
  <2> QED
    BY <1>1, <1>4, <2>1, <2>2 DEF CollectExpired, Typed, TypeOK, Placed
<1>5. CASE RemoveExpired(t)
  <2>1. PICK k \in todo[t] :
          /\ todo' = [todo EXCEPT ![t] = @ \ {k}]
          /\ cache' = [cache EXCEPT ![k] = None]
          /\ \/ UNCHANGED <<pc, cur>>
             \/ Goto(t, "log") /\ cur' = [cur EXCEPT ![t] = k]
    BY <1>5 DEF RemoveExpired
  <2>2. k \in Keys
    BY DEF Typed, TypeOK
  <2>3. cache' \in Index /\ todo' \in [Threads -> SUBSET Keys]
    BY <2>1, <2>2 DEF Typed, TypeOK, Index
  <2>4. /\ cur' \in [Threads -> Keys \cup {None}] /\ pc' \in [Threads -> Labels]
        /\ \/ UNCHANGED <<pc, cur>>
           \/ pc' = [pc EXCEPT ![t] = "log"] /\ cur' = [cur EXCEPT ![t] = k]
    BY <2>1, <2>2, GotoType, SMTT(30) DEF Typed, TypeOK, Labels
  <2>5. TypeOK'
    BY <1>5, <2>3, <2>4 DEF RemoveExpired, Typed, TypeOK
  <2>6. Placed'
    BY <1>1, <1>5, <2>2, <2>4, ZenonT(60) DEF RemoveExpired, Typed, TypeOK, Placed
  <2> QED
    BY <2>5, <2>6 DEF Typed
<1>6. CASE LogExpiry(t)
  <2>1. pc' \in [Threads -> Labels] /\ pc' = [pc EXCEPT ![t] = "expired"]
    BY <1>6, GotoType DEF LogExpiry, Labels
  <2>2. /\ ahead' \in Index /\ dirty' \in BOOLEAN /\ faults' \in 0..MaxFaults
        /\ disk' \in [Inodes -> [img : Index, torn : BOOLEAN]]
        /\ UNCHANGED <<path, tmp, writer>>
    BY <1>1, <1>6, AppendType DEF LogExpiry
  <2>3. pc[t] = "log" /\ UNCHANGED <<up, now, mem, locks, scratch, ret>>
    BY <1>6 DEF LogExpiry
  <2>4. TypeOK'
    BY <2>1, <2>2, <2>3 DEF Typed, TypeOK
  <2>5. Placed'
    BY <1>1, <2>1, <2>2, <2>3 DEF Typed, TypeOK, Placed
  <2> QED
    BY <2>4, <2>5 DEF Typed
<1>7. CASE PublishExpiry(t)
  <2>1. pc' \in [Threads -> Labels] /\ pc' = [pc EXCEPT ![t] = "remove"]
    BY <1>7, GotoType DEF PublishExpiry, Labels
  <2>2. seen' \in [Keys -> BOOLEAN] /\ cur' \in [Threads -> Keys \cup {None}]
    BY <1>7 DEF PublishExpiry, Typed, TypeOK
  <2> QED
    BY <1>1, <1>7, <2>1, <2>2 DEF PublishExpiry, Typed, TypeOK, Placed
<1>8. CASE ExpiryDone(t)
  <2>1. CASE Return(t)
    BY <1>8, <2>1, ReturnType DEF ExpiryDone, Typed, TypeOK, Placed
  <2>2. CASE Goto(t, "snapshot") /\ UNCHANGED <<scratch, ret>>
    <3>1. pc' \in [Threads -> Labels] /\ pc' = [pc EXCEPT ![t] = "snapshot"]
      BY <2>2, GotoType DEF Labels
    <3> QED
      BY <1>1, <1>8, <2>2, <3>1 DEF ExpiryDone, Typed, TypeOK, Placed
  <2> QED
    BY <1>8, <2>1, <2>2 DEF ExpiryDone
<1> QED
  BY <1>2, <1>3, <1>4, <1>5, <1>6, <1>7, <1>8

\* What a sweep or a flush leaves on the disk is still an index per file.
LEMMA DiskTypes ==
  ASSUME Typed
  PROVE  /\ \A i : Empty(i) \in [Inodes -> [img : Index, torn : BOOLEAN]]
         /\ \A img \in Index : Flushed(img) \in [Inodes -> [img : Index, torn : BOOLEAN]]
         /\ \A d \in [Inodes -> [img : Index, torn : BOOLEAN]] :
              \A held : Sweep(d, held) \in [Inodes -> [img : Index, torn : BOOLEAN]]
<1>1. NoFile \in [img : Index, torn : BOOLEAN]
  BY EmptyIndexType DEF NoFile
<1> QED
  BY <1>1 DEF Empty, Flushed, Sweep, Typed, TypeOK

\* A compaction, a close or a drop that fails returns: a new image on the disk
\* is the buffer's, the locks but for a read guard are as they were.
LEMMA LogFailsReturns ==
  ASSUME NEW t \in Threads, LogFails(t)
  PROVE  /\ Return(t)
         /\ UNCHANGED <<up, now, mem, wr, wl, path, tmp, writer, ahead>>
         /\ \E held : disk' = disk \/ disk' = Sweep(disk, held) \/ disk' = Flushed(ahead)
         /\ dirty' = dirty \/ dirty' = TRUE
         /\ faults' = faults \/ (faults < MaxFaults /\ faults' = faults + 1)
         /\ \/ pc[t] \in {"write", "rename"} /\ rd' = rd \ {t}
            \/ pc[t] = "snapshot" /\ wr = None /\ rd' = rd \ {t}
            \/ pc[t] = "reopen" /\ rd' = rd
            \/ pc[t] = "wal" /\ req[t].op \in {"close", "drop"} /\ rd' = rd
BY DEF LogFails, CompactFails, ReopenFails, CloseFails, FaultHappens, locks

LEMMA CompactingTyped ==
  ASSUME Typed, NEW t \in Threads,
         OpenTmp(t) \/ WriteTmp(t) \/ RenameTmp(t) \/ Reopen(t) \/ CloseLog(t)
  PROVE  Typed'
<1> USE DEF mem, locks, files, scratch
<1>1. pc[t] \in {"snapshot", "write", "rename", "reopen", "wal"} /\ up /\ req[t] \in Request
  BY StoreAssumption
     DEF OpenTmp, WriteTmp, RenameTmp, Reopen, CloseLog, Typed, Placed
<1>2. CASE OpenTmp(t)
  <2>1. PICK i \in IF tmp = None THEN Unused ELSE {tmp} :
          tmp' = i /\ disk' = Empty(i) /\ file' = [file EXCEPT ![t] = i]
    BY <1>2 DEF OpenTmp
  <2>2. i \in Inodes
    BY DEF Unused, Typed, TypeOK
  <2>3. pc' \in [Threads -> Labels] /\ pc' = [pc EXCEPT ![t] = "write"]
    BY <1>2, GotoType DEF OpenTmp, Labels
  <2>4. disk' \in [Inodes -> [img : Index, torn : BOOLEAN]]
    BY <2>1, DiskTypes
  <2> QED
    BY <1>1, <1>2, <2>1, <2>2, <2>3, <2>4 DEF OpenTmp, Typed, TypeOK, Placed
<1>3. CASE WriteTmp(t)
  <2>1. pc' \in [Threads -> Labels] /\ pc' = [pc EXCEPT ![t] = "rename"]
    BY <1>3, GotoType DEF WriteTmp, Labels
  <2>2. disk' \in [Inodes -> [img : Index, torn : BOOLEAN]]
    BY <1>3 DEF WriteTmp, Typed, TypeOK
  <2> QED
    BY <1>1, <1>3, <2>1, <2>2 DEF WriteTmp, Typed, TypeOK, Placed
<1>4. CASE RenameTmp(t)
  <2>1. disk' \in [Inodes -> [img : Index, torn : BOOLEAN]]
    BY <1>4, DiskTypes DEF RenameTmp, Typed, TypeOK
  <2>2. CASE Return(t) /\ UNCHANGED <<path, tmp>>
    BY <1>4, <2>1, <2>2, ReturnType, ZenonT(60) DEF RenameTmp, Typed, TypeOK, Placed
  <2>3. CASE /\ path' = tmp /\ tmp' = None /\ Goto(t, "reopen")
             /\ file' = [file EXCEPT ![t] = None] /\ UNCHANGED <<req, ent, plan, todo, cur, ret>>
    <3>1. pc' \in [Threads -> Labels] /\ pc' = [pc EXCEPT ![t] = "reopen"]
      BY <2>3, GotoType DEF Labels
    <3> QED
      BY <1>1, <1>4, <2>1, <2>3, <3>1 DEF RenameTmp, Typed, TypeOK, Placed
  <2> QED
    BY <1>4, <2>2, <2>3 DEF RenameTmp
<1>5. CASE Reopen(t)
  <2>1. PICK i \in IF path = None THEN Unused ELSE {path} :
          /\ path' = i /\ writer' = i
          /\ disk' = Sweep(Flushed(ahead), Held')
          /\ ahead' = disk'[i].img
          /\ dirty' = (dirty /\ i = writer)
    BY <1>5 DEF Reopen
  <2>2. i \in Inodes
    BY DEF Unused, Typed, TypeOK
  <2>3. disk' \in [Inodes -> [img : Index, torn : BOOLEAN]]
    BY <2>1, DiskTypes DEF Typed, TypeOK
  <2>4. ahead' \in Index /\ dirty' \in BOOLEAN
    BY <2>1, <2>2, <2>3
  <2> QED
    BY <1>5, <2>1, <2>2, <2>3, <2>4, ReturnType, ZenonT(60) DEF Reopen, Typed, TypeOK, Placed
<1>6. CASE CloseLog(t)
  <2>1. disk' \in [Inodes -> [img : Index, torn : BOOLEAN]]
    BY <1>6, DiskTypes DEF CloseLog, Typed, TypeOK
  <2> QED
    BY <1>6, <2>1, ReturnType, ZenonT(60) DEF CloseLog, Typed, TypeOK, Placed
<1> QED
  BY <1>2, <1>3, <1>4, <1>5, <1>6

LEMMA LogFailsTyped ==
  ASSUME Typed, NEW t \in Threads, LogFails(t)
  PROVE  Typed'
<1> USE DEF mem
<1>1. ahead \in Index /\ disk \in [Inodes -> [img : Index, torn : BOOLEAN]]
  BY DEF Typed, TypeOK
<1>2. disk' \in [Inodes -> [img : Index, torn : BOOLEAN]]
  <2>1. PICK held : disk' = disk \/ disk' = Sweep(disk, held) \/ disk' = Flushed(ahead)
    BY LogFailsReturns
  <2>2. /\ Flushed(ahead) \in [Inodes -> [img : Index, torn : BOOLEAN]]
        /\ Sweep(disk, held) \in [Inodes -> [img : Index, torn : BOOLEAN]]
    BY <1>1, DiskTypes
  <2> QED
    BY <1>1, <2>1, <2>2
<1>3. dirty' \in BOOLEAN /\ rd' \in SUBSET Threads
  <2>1. (dirty' = dirty \/ dirty' = TRUE) /\ (rd' = rd \/ rd' = rd \ {t})
    BY LogFailsReturns
  <2> QED
    BY <2>1 DEF Typed, TypeOK
<1>4. faults' \in 0..MaxFaults
  <2>1. faults' = faults \/ (faults < MaxFaults /\ faults' = faults + 1)
    BY LogFailsReturns
  <2> QED
    BY <2>1, StoreAssumption DEF Typed, TypeOK
<1>5. /\ Return(t) /\ UNCHANGED <<up, now, mem, wr, wl, path, tmp, writer, ahead>>
  BY LogFailsReturns
<1> QED
  BY <1>2, <1>3, <1>4, <1>5, ReturnType, ZenonT(60) DEF Typed, TypeOK, Placed

LEMMA ProcessTyped ==
  ASSUME Typed, SetEncryptionKey \/ Tick \/ Crash \/ Open
  PROVE  Typed'
<1> USE DEF mem, locks, files, thread, scratch
<1>1. CASE SetEncryptionKey
  BY <1>1 DEF SetEncryptionKey, Typed, TypeOK, Placed
<1>2. CASE Tick
  <2>1. now' \in 0..MaxTime
    BY <1>2, StoreAssumption DEF Tick, Typed, TypeOK
  <2> QED
    BY <1>2, <2>1 DEF Tick, Typed, TypeOK, Placed
<1>3. CASE Crash
  <2>1. disk' \in [Inodes -> [img : Index, torn : BOOLEAN]] /\ faults' \in 0..MaxFaults
    <3>1. [disk EXCEPT ![writer].torn = TRUE] \in [Inodes -> [img : Index, torn : BOOLEAN]]
      BY DEF Typed, TypeOK
    <3>2. CASE disk' = Sweep(disk, {path}) /\ UNCHANGED faults
      BY <3>2, DiskTypes DEF Typed, TypeOK
    <3>3. CASE /\ disk' = Sweep([disk EXCEPT ![writer].torn = TRUE], {path})
               /\ FaultHappens("tear")
      <4>1. disk' \in [Inodes -> [img : Index, torn : BOOLEAN]]
        BY <3>1, <3>3, DiskTypes
      <4>2. faults' \in 0..MaxFaults
        BY <3>3, StoreAssumption DEF FaultHappens, Typed, TypeOK
      <4> QED
        BY <4>1, <4>2
    <3> QED
      BY <1>3, <3>2, <3>3 DEF Crash
  <2>2. pc' \in [Threads -> Labels] /\ pc' = [u \in Threads |-> "idle"]
    BY <1>3 DEF Crash, Labels
  <2>3. ret' \in [Threads -> Results]
    BY <1>3, AnswerTypes DEF Crash
  <2>4. TypeOK'
    BY <1>3, <2>1, <2>2, <2>3, EmptyIndexType DEF Crash, Typed, TypeOK
  <2>5. Placed'
    BY <1>3, <2>2 DEF Crash, Placed
  <2> QED
    BY <2>4, <2>5 DEF Typed
<1>4. CASE Open
  <2>1. PICK i \in IF path = None THEN Unused ELSE {path} :
          /\ path' = i /\ writer' = i
          /\ ahead' = disk[i].img
          /\ cache' = LiveIndex(disk[i].img, now)
          /\ seen' = [k \in Keys |-> cache'[k] # None]
    BY <1>4 DEF Open
  <2>2. i \in Inodes
    BY DEF Unused, Typed, TypeOK
  <2>3. ahead' \in Index /\ cache' \in Index /\ seen' \in [Keys -> BOOLEAN]
    BY <2>1, <2>2, LiveIndexType DEF Typed, TypeOK
  <2> QED
    BY <1>4, <2>1, <2>2, <2>3 DEF Open, Typed, TypeOK, Placed
<1> QED
  BY <1>1, <1>2, <1>3, <1>4

LEMMA TypedStep == Typed /\ [Next]_vars => Typed'
<1> SUFFICES ASSUME Typed, [Next]_vars PROVE Typed'
  OBVIOUS
<1>1. CASE \E t \in Threads : Begin(t)
  BY <1>1, BeginTyped
<1>2. CASE \E t \in Threads : Call(t)
  BY <1>2, DecisionsTyped, CommittingTyped, ReadingTyped, CompactingTyped DEF Call
<1>3. CASE \E t \in Threads : CommitFails(t)
  BY <1>3, CommittingTyped
<1>6. CASE \E t \in Threads : LogFails(t)
  BY <1>6, LogFailsTyped
<1>4. CASE SetEncryptionKey \/ Tick \/ Crash \/ Open
  BY <1>4, ProcessTyped
<1>5. CASE UNCHANGED vars
  BY <1>5 DEF vars, mem, locks, files, thread, scratch, Typed, TypeOK, Placed
<1> QED
  BY <1>1, <1>2, <1>3, <1>4, <1>5, <1>6 DEF Next

LEMMA AlwaysTyped == Spec => []Typed
BY TypedInit, TypedStep, PTL DEF Spec

\* Every reachable state is typed, for any number of threads, keys and files
\* and any requests: store.rs never commits without a decision.
THEOREM TypeCorrect == Spec => []TypeOK
<1>1. Typed => TypeOK
  BY DEF Typed
<1> QED
  BY <1>1, AlwaysTyped, PTL

-----------------------------------------------------------------------------
(* Mutual exclusion.  WritersExclude speaks of program counters only; what  *)
(* makes it inductive is that the locks say who is where: the cache's       *)
(* writer is the thread that writes, its readers are the snapshots being    *)
(* taken, and the log's mutex belongs to a writer that has decided.         *)

LockInv ==
  /\ \A t \in Threads : Writing(t) <=> wr = t
  /\ rd = {t \in Threads : Snapshotting(t)}
  /\ wr # None => rd = {}
  /\ \A t \in Threads : pc[t] = "commit" => wl = t
  /\ \A t \in Threads : wl = t => pc[t] \in {"commit", "unlock"}
  /\ \A t \in Threads : pc[t] = "cache" => req[t].op \notin {"close", "drop"}

\* A thread that holds neither lock is not at one of these.
Outside(t) == ~Writing(t) /\ ~Snapshotting(t)

LEMMA LockInit == Init => LockInv
BY StoreAssumption DEF Init, LockInv, Writing, Deciding, Snapshotting

\* A step of a thread outside the locks that stays outside them.
LEMMA Elsewhere ==
  ASSUME Typed, LockInv, NEW t \in Threads, NEW l,
         pc' = [pc EXCEPT ![t] = l], UNCHANGED <<rd, wr, wl>>,
         \A u \in Threads \ {t} : req'[u] = req[u],
         Outside(t), Outside(t)', l = "cache" => req'[t].op \notin {"close", "drop"}
  PROVE  LockInv'
<1>1. \A u \in Threads \ {t} : pc'[u] = pc[u] /\ req'[u] = req[u]
  BY DEF Typed, TypeOK
<1>2. pc[t] \notin {"commit", "unlock"} /\ pc'[t] \notin {"commit", "unlock"}
  BY DEF Outside, Writing
<1>3. \A u \in Threads : Writing(u)' = Writing(u) /\ Snapshotting(u)' = Snapshotting(u)
  BY <1>1 DEF Outside, Writing, Deciding, Snapshotting
<1> QED
  BY <1>1, <1>2, <1>3 DEF LockInv, Typed, TypeOK

LEMMA BeginLocks ==
  ASSUME Typed, LockInv, NEW t \in Threads, Begin(t)
  PROVE  LockInv'
<1>1. PICK r \in Requests :
         req' = [req EXCEPT ![t] = r] /\ Goto(t, FirstLock(r.op))
  BY DEF Begin
<1>2. pc' = [pc EXCEPT ![t] = FirstLock(r.op)] /\ pc[t] = "idle" /\ UNCHANGED <<rd, wr, wl>>
  BY <1>1 DEF Begin, Goto, locks
<1>3. pc'[t] = FirstLock(r.op) /\ req'[t] = r
  BY <1>1, <1>2 DEF Typed, TypeOK
<1>4. Outside(t)' /\ (FirstLock(r.op) = "cache" => r.op \notin {"close", "drop"})
  BY <1>3 DEF Outside, Writing, Deciding, Snapshotting, FirstLock
<1>5. Outside(t)
  BY <1>2 DEF Outside, Writing, Deciding, Snapshotting
<1>6. \A u \in Threads \ {t} : req'[u] = req[u]
  BY <1>1 DEF Typed, TypeOK
<1> QED
  BY <1>2, <1>3, <1>4, <1>5, <1>6, Elsewhere

\* A read, an expiry or the end of a compaction holds no lock between its steps.
LEMMA ReadingLocks ==
  ASSUME Typed, LockInv, NEW t \in Threads,
         \/ ReadEntry(t) \/ CheckEntry(t) \/ CollectExpired(t) \/ RemoveExpired(t)
         \/ LogExpiry(t) \/ PublishExpiry(t) \/ ExpiryDone(t)
         \/ Publish(t) \/ Reopen(t) \/ CloseLog(t)
  PROVE  LockInv'
<1> USE DEF mem, locks, files, scratch
<1>1. /\ Outside(t)
      /\ UNCHANGED <<rd, wr, wl>>
  BY DEF ReadEntry, CheckEntry, CollectExpired, RemoveExpired, LogExpiry, PublishExpiry,
         ExpiryDone, Publish, Reopen, CloseLog, Outside, Writing, Deciding, Snapshotting
<1>2. \/ Return(t)
      \/ UNCHANGED <<pc, req>>
      \/ /\ UNCHANGED req
         /\ \E l \in {"check", "remove", "log", "expired", "snapshot"} : pc' = [pc EXCEPT ![t] = l]
  BY DEF ReadEntry, CheckEntry, CollectExpired, RemoveExpired, LogExpiry, PublishExpiry,
         ExpiryDone, Publish, Reopen, CloseLog, Goto
<1>3. CASE Return(t)
  <2>1. pc' = [pc EXCEPT ![t] = "idle"] /\ \A u \in Threads \ {t} : req'[u] = req[u]
    BY <1>3, ReturnType
  <2>2. pc'[t] = "idle"
    BY <2>1 DEF Typed, TypeOK
  <2>3. Outside(t)'
    BY <2>2 DEF Outside, Writing, Deciding, Snapshotting
  <2> QED
    BY <1>1, <2>1, <2>3, Elsewhere
<1>4. CASE UNCHANGED <<pc, req>>
  BY <1>1, <1>4 DEF LockInv, Writing, Deciding, Snapshotting
<1>5. ASSUME UNCHANGED req,
             NEW l \in {"check", "remove", "log", "expired", "snapshot"},
             pc' = [pc EXCEPT ![t] = l]
      PROVE  LockInv'
  <2>1. pc'[t] = l
    BY <1>5 DEF Typed, TypeOK
  <2>2. Outside(t)'
    BY <2>1 DEF Outside, Writing, Deciding, Snapshotting
  <2> QED
    BY <1>1, <1>5, <2>2, Elsewhere
<1> QED
  BY <1>2, <1>3, <1>4, <1>5

\* Every decision is taken with the log's mutex in hand, or without a need for it.
LEMMA DecidingLocks ==
  ASSUME Typed, LockInv, NEW t \in Threads,
         \/ Set(t) \/ Import(t) \/ Delete(t) \/ Clear(t) \/ Increment(t)
         \/ ListPush(t) \/ DeleteFromList(t) \/ SetIfAbsent(t) \/ SetIfAbsentReturns(t)
  PROVE  LockInv'
<1>1. /\ Writing(t)
      /\ UNCHANGED <<rd, wr, req>>
      /\ \/ pc' = [pc EXCEPT ![t] = "unlock"] /\ wl' \in {wl, t} /\ (wl' = t => wl \in {None, t})
         \/ pc' = [pc EXCEPT ![t] = "commit"] /\ wl' = t /\ wl = None
  BY DEF Set, Import, Delete, Clear, Increment, ListPush, DeleteFromList, SetIfAbsent,
         SetIfAbsentReturns, Decide, Goto, Writing, Deciding, locks, scratch
<1>2. \A u \in Threads : Writing(u)' = Writing(u) /\ Snapshotting(u)' = Snapshotting(u)
  BY <1>1 DEF Writing, Deciding, Snapshotting, Typed, TypeOK
<1>3. \A u \in Threads \ {t} : pc'[u] = pc[u]
  BY <1>1 DEF Typed, TypeOK
<1>4. \A u \in Threads \ {t} : pc[u] # "commit"
  BY <1>1 DEF LockInv, Writing
<1> QED
  BY <1>1, <1>2, <1>3, <1>4, StoreAssumption DEF LockInv, Typed, TypeOK

LEMMA HoldingLocks ==
  ASSUME Typed, LockInv, NEW t \in Threads,
         \/ LockCache(t) \/ Commit(t) \/ CommitFails(t) \/ Unlock(t)
         \/ OpenTmp(t) \/ WriteTmp(t) \/ RenameTmp(t)
  PROVE  LockInv'
<1> USE StoreAssumption DEF mem, locks, files, scratch
<1>1. CASE LockCache(t)
  BY <1>1 DEF LockCache, Goto, LockInv, Writing, Deciding, Snapshotting, Typed, TypeOK
<1>2. CASE Commit(t) \/ CommitFails(t)
  <2>1. /\ pc[t] = "commit" /\ UNCHANGED <<rd, wr, wl, req>>
        /\ pc' = pc \/ pc' = [pc EXCEPT ![t] = "unlock"]
    BY <1>2 DEF Commit, CommitFails, Goto
  <2> QED
    BY <2>1 DEF LockInv, Writing, Deciding, Snapshotting, Typed, TypeOK
<1>3. CASE Unlock(t)
  <2>1. /\ pc[t] = "unlock" /\ wr' = None /\ rd' = rd
        /\ wl' = IF wl = t THEN None ELSE wl
        /\ \/ pc' = [pc EXCEPT ![t] = "publish"] /\ UNCHANGED req
           \/ pc' = [pc EXCEPT ![t] = "idle"] /\ \A u \in Threads \ {t} : req'[u] = req[u]
    BY <1>3, ReturnType DEF Unlock, Goto
  <2>2. \A u \in Threads \ {t} : pc'[u] = pc[u] /\ req'[u] = req[u]
    BY <2>1 DEF Typed, TypeOK
  <2>3. pc'[t] \in {"publish", "idle"}
    BY <2>1 DEF Typed, TypeOK
  <2>4. wr = t
    BY <2>1 DEF LockInv, Writing
  <2> QED
    BY <2>1, <2>2, <2>3, <2>4 DEF LockInv, Writing, Deciding, Snapshotting
<1>4. CASE OpenTmp(t)
  BY <1>4 DEF OpenTmp, Goto, LockInv, Writing, Deciding, Snapshotting, Typed, TypeOK
<1>5. CASE WriteTmp(t)
  BY <1>5 DEF WriteTmp, Goto, LockInv, Writing, Deciding, Snapshotting, Typed, TypeOK
<1>6. CASE RenameTmp(t)
  <2>1. /\ pc[t] = "rename" /\ rd' = rd \ {t} /\ UNCHANGED <<wr, wl>>
        /\ \E l \in {"reopen", "idle"} : pc' = [pc EXCEPT ![t] = l]
        /\ \A u \in Threads \ {t} : req'[u] = req[u]
    BY <1>6, ReturnType DEF RenameTmp, Goto
  <2> QED
    BY <2>1 DEF LockInv, Writing, Deciding, Snapshotting, Typed, TypeOK
<1> QED
  BY <1>1, <1>2, <1>3, <1>4, <1>5, <1>6

LEMMA LogFailsLocks ==
  ASSUME Typed, LockInv, NEW t \in Threads, LogFails(t)
  PROVE  LockInv'
<1>1. /\ UNCHANGED <<wr, wl>> /\ rd' = rd \ {t}
      /\ pc[t] \in {"snapshot", "write", "rename", "reopen"}
         \/ (pc[t] = "wal" /\ req[t].op \in {"close", "drop"})
  <2>1. rd = {u \in Threads : Snapshotting(u)}
    BY DEF LockInv
  <2> QED
    BY <2>1, LogFailsReturns DEF Snapshotting
<1>2. /\ pc' = [pc EXCEPT ![t] = "idle"]
      /\ \A u \in Threads \ {t} : req'[u] = req[u]
  BY LogFailsReturns, ReturnType
<1>3. \A u \in Threads \ {t} : pc'[u] = pc[u] /\ req'[u] = req[u]
  BY <1>2 DEF Typed, TypeOK
<1>4. pc'[t] = "idle"
  BY <1>2 DEF Typed, TypeOK
<1> QED
  BY <1>1, <1>3, <1>4, StoreAssumption DEF LockInv, Writing, Deciding, Snapshotting

LEMMA LockStep == Typed /\ LockInv /\ [Next]_vars => LockInv'
<1> SUFFICES ASSUME Typed, LockInv, [Next]_vars PROVE LockInv'
  OBVIOUS
<1> USE DEF mem, locks, files, thread, scratch
<1>1. CASE \E t \in Threads : Begin(t)
  BY <1>1, BeginLocks
<1>2. CASE \E t \in Threads : Call(t) \/ CommitFails(t) \/ LogFails(t)
  BY <1>2, ReadingLocks, DecidingLocks, HoldingLocks, LogFailsLocks DEF Call
<1>3. CASE SetEncryptionKey \/ Tick \/ Open \/ UNCHANGED vars
  BY <1>3 DEF SetEncryptionKey, Tick, Open, vars, LockInv, Writing, Deciding, Snapshotting
<1>4. CASE Crash
  BY <1>4, StoreAssumption DEF Crash, LockInv, Writing, Deciding, Snapshotting
<1> QED
  BY <1>1, <1>2, <1>3, <1>4 DEF Next

LEMMA AlwaysLocked == Spec => [](Typed /\ LockInv)
<1>1. Init => Typed /\ LockInv
  BY TypedInit, LockInit
<1>2. Typed /\ LockInv /\ [Next]_vars => (Typed /\ LockInv)'
  BY TypedStep, LockStep
<1> QED
  BY <1>1, <1>2, PTL DEF Spec

\* Between its decision and its unlock a write has the cache to itself: no
\* other write decides or commits, no snapshot is taken.  store.rs takes the
\* cache's write lock before it looks at an entry and keeps it until the record
\* is appended and the cache updated.
THEOREM Exclusion == Spec => []WritersExclude
<1>1. LockInv => WritersExclude
  BY StoreAssumption DEF LockInv, WritersExclude
<1> QED
  BY <1>1, AlwaysLocked, PTL

-----------------------------------------------------------------------------
(* Indexes as a reader sees them.                                           *)

\* LiveIndex tells two indexes apart key by key.
LEMMA LiveEqual ==
  ASSUME NEW a, NEW b, NEW at,
         \A k \in Keys : LiveAt(a[k], at) = LiveAt(b[k], at)
  PROVE  LiveIndex(a, at) = LiveIndex(b, at)
BY DEF LiveIndex

LEMMA LiveEqualAt ==
  ASSUME NEW a, NEW b, NEW at, LiveIndex(a, at) = LiveIndex(b, at), NEW k \in Keys
  PROVE  LiveAt(a[k], at) = LiveAt(b[k], at)
<1>1. LiveIndex(a, at)[k] = LiveIndex(b, at)[k]
  OBVIOUS
<1> QED
  BY <1>1 DEF LiveIndex

\* The same record keeps two indexes equal for a reader.
LEMMA ApplyMirrors ==
  ASSUME NEW a \in Index, NEW b \in Index, NEW at, LiveIndex(a, at) = LiveIndex(b, at),
         NEW type, NEW key \in Keys, NEW e
  PROVE  LiveIndex(Apply(a, type, key, e), at) = LiveIndex(Apply(b, type, key, e), at)
<1>1. ASSUME NEW k \in Keys
      PROVE  LiveAt(Apply(a, type, key, e)[k], at) = LiveAt(Apply(b, type, key, e)[k], at)
  <2>1. LiveAt(a[k], at) = LiveAt(b[k], at)
    BY LiveEqualAt
  <2> QED
    BY <2>1 DEF Apply, Index
<1> QED
  BY <1>1, LiveEqual

\* A live index read again is what it was, and later it is what is still live.
LEMMA LiveAgain ==
  ASSUME NEW index \in Index, now \in Nat
  PROVE  /\ LiveIndex(LiveIndex(index, now), now) = LiveIndex(index, now)
         /\ LiveIndex(LiveIndex(index, now), now + 1) = LiveIndex(index, now + 1)
<1>1. ASSUME NEW at \in {now, now + 1}, NEW e \in Entry \cup {None}
      PROVE  LiveAt(LiveAt(e, now), at) = LiveAt(e, at)
  <2>1. e \in Entry /\ IsExpired(e, now) => IsExpired(e, at)
    BY <1>1, EntryAssumption DEF IsExpired, Entry, Deadlines
  <2> QED
    BY <2>1 DEF LiveAt
<1>2. \A at \in {now, now + 1}, k \in Keys : LiveAt(LiveIndex(index, now)[k], at) = LiveAt(index[k], at)
  BY <1>1 DEF LiveIndex, Index
<1> QED
  BY <1>2, LiveEqual

-----------------------------------------------------------------------------
(* Where no call sets a deadline no entry has one: not in memory, not in    *)
(* any file, and not in what a call carries, whatever fails or crashes.     *)

Undated == \A r \in Requests : r.ttl = Never

\* No TTL in an entry, in an index.
Eternal(e) == e # None => e.exp = Never
EternalIndex(img) == \A k \in Keys : Eternal(img[k])

Timeless ==
  /\ EternalIndex(cache) /\ EternalIndex(ahead)
  /\ \A i \in Inodes : EternalIndex(disk[i].img)
  /\ \A t \in Threads : Eternal(ent[t]) /\ (plan[t] # None => Eternal(plan[t].ent))

LEMMA EternalApply ==
  ASSUME NEW img \in Index, EternalIndex(img), NEW e, Eternal(e), NEW type, NEW key
  PROVE  EternalIndex(Apply(img, type, key, e))
BY DEF Apply, EmptyIndex, EternalIndex, Eternal, Index

LEMMA EternalLive ==
  ASSUME NEW img, EternalIndex(img), NEW at
  PROVE  EternalIndex(LiveIndex(img, at))
BY DEF LiveIndex, LiveAt, EternalIndex, Eternal

LEMMA TimelessInit == Init => Timeless
BY DEF Init, Timeless, EternalIndex, Eternal, EmptyIndex

\* A thread that changes nothing but its own locals.
LEMMA LocalsTimeless ==
  ASSUME Typed, Timeless, NEW t \in Threads, UNCHANGED <<cache, ahead, disk>>,
         \A u \in Threads \ {t} : ent'[u] = ent[u] /\ plan'[u] = plan[u],
         Eternal(ent'[t]), plan'[t] # None => Eternal(plan'[t].ent)
  PROVE  Timeless'
BY DEF Timeless, EternalIndex, Eternal

\* A call that returns or goes on without a new entry.
LEMMA OnwardTimeless ==
  ASSUME Typed, Timeless, NEW t \in Threads, Return(t) \/ UNCHANGED <<ent, plan>>
  PROVE  \A u \in Threads : Eternal(ent[u])' /\ (plan[u] # None => Eternal(plan[u].ent))'
BY DEF Return, Timeless, Eternal, Typed, TypeOK

\* What an append, a sweep or a flush leaves on the disk.
LEMMA DiskTimeless ==
  ASSUME Typed, Timeless
  PROVE  /\ EternalIndex(NoFile.img)
         /\ \A img : EternalIndex(img) => \A i \in Inodes : EternalIndex(Flushed(img)[i].img)
         /\ \A d, held : \A i \in Inodes : EternalIndex(d[i].img) => EternalIndex(Sweep(d, held)[i].img)
<1>1. EternalIndex(NoFile.img)
  BY DEF NoFile, EmptyIndex, EternalIndex, Eternal
<1>2. ASSUME NEW img, EternalIndex(img), NEW i \in Inodes
      PROVE  EternalIndex(Flushed(img)[i].img)
  <2>1. Flushed(img)[i].img \in {disk[i].img, img}
    BY DEF Flushed, Typed, TypeOK
  <2> QED
    BY <1>2, <2>1 DEF Timeless
<1> QED
  BY <1>1, <1>2 DEF Sweep

LEMMA AppendTimeless ==
  ASSUME Typed, Timeless, NEW type, NEW key, NEW e, Eternal(e),
         AppendRecord(type, key, e) \/ AppendFails(type, key, e)
  PROVE  EternalIndex(ahead') /\ \A i \in Inodes : EternalIndex(disk'[i].img)
<1>1. EternalIndex(ahead')
  <2>1. ahead' = Apply(ahead, type, key, e)
    BY DEF AppendRecord, AppendFails
  <2> QED
    BY <2>1, EternalApply DEF Typed, TypeOK, Timeless
<1>2. disk' = Flushed(ahead') \/ disk' = disk
  BY DEF AppendRecord, AppendFails
<1> QED
  BY <1>1, <1>2, DiskTimeless DEF Timeless

LEMMA DecideTimeless ==
  ASSUME Typed, Timeless, NEW t \in Threads, NEW op, NEW plans \in SUBSET Plans,
         Decide(t, op, plans), \A p \in plans : Eternal(p.ent)
  PROVE  Timeless'
<1>1. PICK p \in plans : plan' = [plan EXCEPT ![t] = p]
  BY DEF Decide
<1>2. UNCHANGED <<cache, ahead, disk, ent>>
  BY DEF Decide, mem, files
<1>3. plan'[t] = p /\ \A u \in Threads \ {t} : plan'[u] = plan[u]
  BY <1>1 DEF Typed, TypeOK
<1> QED
  BY <1>2, <1>3, LocalsTimeless DEF Timeless

\* No decision sets a deadline of its own accord: see KeptDeadline, NewEntry.
LEMMA DecisionsTimeless ==
  ASSUME Undated, Typed, Timeless, NEW t \in Threads,
         \/ Set(t) \/ Import(t) \/ Delete(t) \/ Clear(t) \/ Increment(t)
         \/ ListPush(t) \/ DeleteFromList(t) \/ SetIfAbsent(t)
  PROVE  Timeless'
<1> USE DEF Write, Erase, Leave, Plans, RecordTypes, Ok, No, Err, Results
<1>1. pc[t] = "wal"
  BY DEF Set, Import, Delete, Clear, Increment, ListPush, DeleteFromList, SetIfAbsent, Decide
<1>2. up /\ req[t] \in Requests /\ req[t] \in Request /\ req[t].ttl = Never
  BY <1>1, StoreAssumption DEF Typed, Placed, Undated
<1>3. Eternal(Live(t)) /\ Live(t) \in Entry \cup {None}
  BY <1>2, LiveAtType
     DEF Timeless, Live, LiveAt, Found, Request, EternalIndex, Eternal, Typed, TypeOK, Index
<1>4. Deadline(req[t].ttl, now) = Never /\ KeptDeadline(t) = Never
  BY <1>2, <1>3 DEF Deadline, KeptDeadline, Eternal
<1>5. /\ ekey \in EncKeys \cup {None} /\ now \in Nat /\ Never \in Deadlines
      /\ ent[t] \in Entry \cup {None} /\ Eternal(ent[t])
  BY StoreAssumption DEF Typed, TypeOK, Timeless, Deadlines
<1>6. \A len \in Int : ListOf(t, len) \in Entry /\ ListOf(t, len).exp = Never
  <2>1. Seal(req[t].enc) \in EncKeys \cup {None}
    BY <1>2, <1>5, SealType DEF Request
  <2> QED
    BY <1>4, <1>5, <2>1 DEF ListOf, Entry, Kinds
<1>7. Live(t) # None => Live(t).n \in Int
  BY <1>3 DEF Entry
<1>8. CASE Set(t)
  <2> DEFINE p == Write(ent[t], Ok(0), "present")
  <2>1. p \in Plans /\ p.ent = ent[t]
    BY <1>5
  <2>2. Decide(t, "set", {p})
    BY <1>8 DEF Set
  <2> HIDE DEF p
  <2> QED
    BY <1>5, <2>1, <2>2, DecideTimeless
<1>9. CASE Import(t)
  <2> DEFINE p == Write(ent[t], Ok(0), "none")
  <2>1. p \in Plans /\ p.ent = ent[t]
    BY <1>5
  <2>2. Decide(t, "import", {p})
    BY <1>9 DEF Import
  <2> HIDE DEF p
  <2> QED
    BY <1>5, <2>1, <2>2, DecideTimeless
<1>10. CASE Delete(t)
  <2> DEFINE p == IF Found(t) # None THEN Erase(Ok(1), "absent") ELSE Leave(No)
  <2>1. p \in Plans /\ p.ent = None
    OBVIOUS
  <2>2. Decide(t, "delete", {p})
    BY <1>10 DEF Delete
  <2> HIDE DEF p
  <2> QED
    BY <2>1, <2>2, DecideTimeless DEF Eternal
<1>11. CASE Clear(t)
  <2> DEFINE p == [type |-> "clear", ent |-> None, ret |-> Ok(0), news |-> "cleared"]
  <2>1. p \in Plans /\ p.ent = None
    OBVIOUS
  <2>2. Decide(t, "clear", {p})
    BY <1>11 DEF Clear
  <2> HIDE DEF p
  <2> QED
    BY <2>1, <2>2, DecideTimeless DEF Eternal
<1>12. CASE Increment(t)
  <2> DEFINE next == Saturate((IF Live(t) = None THEN 0 ELSE Live(t).n) + req[t].n)
             e == [kind |-> "int", n |-> next, enc |-> None, exp |-> Deadline(req[t].ttl, now)]
             p == IF Live(t) # None /\ (Live(t).enc # None \/ Live(t).kind # "int")
                    THEN Leave(Err) ELSE Write(e, Ok(next), "present")
  <2>1. next \in Int
    BY <1>2, <1>7, SaturateType DEF Request
  <2>2. e \in Entry /\ e.exp = Never
    BY <1>4, <1>5, <2>1 DEF Entry, Kinds
  <2>3. p \in Plans /\ p.ent \in {e, None}
    BY <2>1, <2>2
  <2>4. Decide(t, "increment", {p})
    BY <1>12 DEF Increment
  <2>5. Eternal(p.ent)
    BY <2>2, <2>3 DEF Eternal
  <2> HIDE DEF p
  <2> QED
    BY <2>3, <2>4, <2>5, DecideTimeless
<1>13. CASE ListPush(t)
  <2> DEFINE len == OneMore(IF Live(t) = None THEN 0 ELSE Live(t).n)
             p == IF NotAList(t) \/ ~CanSeal(req[t].enc) THEN Leave(Err)
                  ELSE Write(ListOf(t, len), Ok(len), "present")
  <2>1. len \in Int
    BY <1>7, OneMoreType
  <2>2. p \in Plans /\ p.ent \in {ListOf(t, len), None}
    BY <1>6, <2>1
  <2>3. Decide(t, "list_push", {p})
    BY <1>13 DEF ListPush
  <2>4. Eternal(p.ent)
    BY <1>6, <2>1, <2>2 DEF Eternal
  <2> HIDE DEF p
  <2> QED
    BY <2>2, <2>3, <2>4, DecideTimeless
<1>14. CASE DeleteFromList(t)
  <2> DEFINE left(m) == Live(t).n - m
             outcome(m) ==
               IF m = 0 THEN Leave(No)
               ELSE IF left(m) = 0 THEN Erase(Ok(1), "absent")
               ELSE IF ~CanSeal(req[t].enc) THEN Leave(Err)
               ELSE Write(ListOf(t, left(m)), Ok(1), "present")
             plans == IF Found(t) = None THEN {Leave(No)}
                      ELSE IF Live(t) = None THEN {Erase(No, "absent")}
                      ELSE IF NotAList(t) THEN {Leave(Err)}
                      ELSE {outcome(m) : m \in 0..Live(t).n}
  <2>1. ASSUME Live(t) # None, NEW m \in 0..Live(t).n
        PROVE  outcome(m) \in Plans /\ Eternal(outcome(m).ent)
    <3>1. left(m) \in Int
      BY <1>7, <2>1
    <3>2. ListOf(t, left(m)) \in Entry /\ ListOf(t, left(m)).exp = Never
      BY <1>6, <3>1
    <3> QED
      BY <3>2 DEF Eternal
  <2>2. plans \in SUBSET Plans /\ \A p \in plans : Eternal(p.ent)
    <3> HIDE DEF outcome
    <3>1. /\ Leave(No) \in Plans /\ Erase(No, "absent") \in Plans /\ Leave(Err) \in Plans
          /\ Eternal(Leave(No).ent) /\ Eternal(Erase(No, "absent").ent) /\ Eternal(Leave(Err).ent)
      BY DEF Eternal
    <3> QED
      BY <2>1, <3>1
  <2>3. Decide(t, "delete_from_list", plans)
    BY <1>14 DEF DeleteFromList
  <2> HIDE DEF plans
  <2> QED
    BY <2>2, <2>3, DecideTimeless
<1>15. CASE SetIfAbsent(t)
  <2> DEFINE p == Write(NewEntry(req[t]), Ok(1), "present")
  <2>1. p \in Plans /\ p.ent = NewEntry(req[t])
    BY <1>2, <1>5, NewEntryType
  <2>2. Eternal(p.ent)
    BY <1>4, <2>1 DEF NewEntry, Eternal
  <2>3. Decide(t, "set_if_absent", {p})
    BY <1>15 DEF SetIfAbsent
  <2> HIDE DEF p
  <2> QED
    BY <2>1, <2>2, <2>3, DecideTimeless
<1> QED
  BY <1>8, <1>9, <1>10, <1>11, <1>12, <1>13, <1>14, <1>15

LEMMA CommitsTimeless ==
  ASSUME Typed, Timeless, NEW t \in Threads, Commit(t) \/ CommitFails(t)
  PROVE  Timeless'
<1>1. Eternal(plan[t].ent)
  BY PlanAssumption DEF Commit, CommitFails, Typed, Placed, Timeless
<1>2. PICK k \in Target(t) :
        /\ \/ AppendRecord(plan[t].type, k, plan[t].ent)
           \/ AppendFails(plan[t].type, k, plan[t].ent)
        /\ \/ cache' = Apply(cache, plan[t].type, k, plan[t].ent)
           \/ cache' = [cache EXCEPT ![k] = None]
           \/ cache' = cache
  BY DEF Commit, CommitFails
<1>3. EternalIndex(cache')
  <2>1. EternalIndex(Apply(cache, plan[t].type, k, plan[t].ent))
    BY <1>1, EternalApply DEF Timeless, Typed, TypeOK
  <2>2. EternalIndex([cache EXCEPT ![k] = None])
    BY DEF EternalIndex, Eternal, Timeless, Typed, TypeOK, Index
  <2> QED
    BY <1>2, <2>1, <2>2 DEF Timeless
<1>4. EternalIndex(ahead') /\ \A i \in Inodes : EternalIndex(disk'[i].img)
  BY <1>1, <1>2, AppendTimeless
<1>5. ent' = ent /\ (plan' = plan \/ plan' = [plan EXCEPT ![t] = Leave(Err)])
  BY DEF Commit, CommitFails
<1>6. Eternal(Leave(Err).ent)
  BY DEF Leave, Eternal
<1> QED
  BY <1>3, <1>4, <1>5, <1>6 DEF Timeless, Eternal, Typed, TypeOK

LEMMA ReadingTimeless ==
  ASSUME Typed, Timeless, NEW t \in Threads,
         \/ ReadEntry(t) \/ CheckEntry(t) \/ CollectExpired(t) \/ RemoveExpired(t)
         \/ LogExpiry(t) \/ PublishExpiry(t) \/ ExpiryDone(t)
  PROVE  Timeless'
<1> USE DEF mem, files, scratch
<1>1. CASE ReadEntry(t)
  <2>1. UNCHANGED <<cache, ahead, disk>>
    BY <1>1 DEF ReadEntry
  <2>2. CASE Return(t)
    BY <2>1, <2>2, OnwardTimeless DEF Timeless
  <2>3. CASE ent' = [ent EXCEPT ![t] = Found(t)] /\ UNCHANGED plan
    <3>1. Eternal(Found(t))
      BY <1>1, StoreAssumption
         DEF ReadEntry, Found, Timeless, EternalIndex, Typed, TypeOK, Placed, Request
    <3>2. ent'[t] = Found(t) /\ \A u \in Threads \ {t} : ent'[u] = ent[u]
      BY <2>3 DEF Typed, TypeOK
    <3> QED
      BY <2>1, <2>3, <3>1, <3>2, LocalsTimeless DEF Timeless
  <2> QED
    BY <1>1, <2>2, <2>3 DEF ReadEntry
<1>2. CASE CheckEntry(t) \/ CollectExpired(t) \/ PublishExpiry(t) \/ ExpiryDone(t)
  <2>1. /\ UNCHANGED <<cache, ahead, disk>>
        /\ Return(t) \/ UNCHANGED <<ent, plan>>
    BY <1>2 DEF CheckEntry, CollectExpired, PublishExpiry, ExpiryDone
  <2> QED
    BY <2>1, OnwardTimeless DEF Timeless
<1>3. CASE RemoveExpired(t)
  <2>1. /\ \E k \in todo[t] : cache' = [cache EXCEPT ![k] = None]
        /\ UNCHANGED <<ahead, disk, ent, plan>>
    BY <1>3 DEF RemoveExpired
  <2> QED
    BY <2>1 DEF Timeless, EternalIndex, Eternal, Typed, TypeOK, Index
<1>4. CASE LogExpiry(t)
  <2>1. /\ \E k : AppendRecord("delete", k, None) \/ AppendFails("delete", k, None)
        /\ UNCHANGED <<cache, ent, plan>>
    BY <1>4 DEF LogExpiry
  <2>2. EternalIndex(ahead') /\ \A i \in Inodes : EternalIndex(disk'[i].img)
    BY <2>1, AppendTimeless DEF Eternal
  <2> QED
    BY <2>1, <2>2 DEF Timeless, EternalIndex, Eternal
<1> QED
  BY <1>1, <1>2, <1>3, <1>4

LEMMA LocalTimeless ==
  ASSUME Undated, Typed, Timeless, NEW t \in Threads,
         \/ Begin(t) \/ LockCache(t) \/ SetIfAbsentReturns(t) \/ Unlock(t) \/ Publish(t)
  PROVE  Timeless'
<1> USE DEF mem, files, scratch
<1>1. CASE Begin(t)
  <2>1. PICK r \in Requests :
          ent' = [ent EXCEPT ![t] = IF r.op \in {"set", "import"} THEN NewEntry(r) ELSE None]
    BY <1>1 DEF Begin
  <2>2. Eternal(NewEntry(r))
    BY DEF NewEntry, Eternal, Undated, Deadline
  <2>3. Eternal(ent'[t]) /\ \A u \in Threads \ {t} : ent'[u] = ent[u]
    BY <2>1, <2>2 DEF Eternal, Typed, TypeOK
  <2>4. UNCHANGED <<cache, ahead, disk, plan>>
    BY <1>1 DEF Begin
  <2> QED
    BY <2>3, <2>4, LocalsTimeless DEF Timeless
<1>2. CASE LockCache(t) \/ SetIfAbsentReturns(t) \/ Unlock(t) \/ Publish(t)
  <2>1. UNCHANGED <<cache, ahead, disk>> /\ (Return(t) \/ UNCHANGED <<ent, plan>>)
    BY <1>2 DEF LockCache, SetIfAbsentReturns, Unlock, Publish
  <2> QED
    BY <2>1, OnwardTimeless DEF Timeless
<1> QED
  BY <1>1, <1>2

LEMMA CompactingTimeless ==
  ASSUME Typed, Timeless, NEW t \in Threads,
         OpenTmp(t) \/ WriteTmp(t) \/ RenameTmp(t) \/ Reopen(t) \/ CloseLog(t)
  PROVE  Timeless'
<1> USE DEF mem, files, scratch
<1>1. UNCHANGED cache /\ (Return(t) \/ UNCHANGED <<ent, plan>>)
  BY DEF OpenTmp, WriteTmp, RenameTmp, Reopen, CloseLog
<1>2. EternalIndex(ahead') /\ \A i \in Inodes : EternalIndex(disk'[i].img)
  <2>1. CASE OpenTmp(t)
    BY <2>1, DiskTimeless DEF OpenTmp, Empty, Timeless, Typed, TypeOK
  <2>2. CASE WriteTmp(t)
    <3>1. \A i \in Inodes : disk'[i].img \in {disk[i].img, cache}
      BY <2>2 DEF WriteTmp, Typed, TypeOK
    <3> QED
      BY <2>2, <3>1 DEF WriteTmp, Timeless
  <2>3. CASE RenameTmp(t)
    <3>1. disk' = Sweep(disk, Held') /\ ahead' = ahead
      BY <2>3 DEF RenameTmp
    <3> QED
      BY <3>1, DiskTimeless DEF Timeless
  <2>4. CASE CloseLog(t)
    <3>1. disk' = Sweep(Flushed(ahead), Held') /\ ahead' = ahead
      BY <2>4 DEF CloseLog
    <3> QED
      BY <3>1, DiskTimeless DEF Timeless
  <2>5. CASE Reopen(t)
    <3>1. PICK i \in IF path = None THEN Unused ELSE {path} :
            disk' = Sweep(Flushed(ahead), Held') /\ ahead' = disk'[i].img
      BY <2>5 DEF Reopen
    <3>2. i \in Inodes
      BY DEF Unused, Typed, TypeOK
    <3> QED
      BY <3>1, <3>2, DiskTimeless DEF Timeless
  <2> QED
    BY <2>1, <2>2, <2>3, <2>4, <2>5
<1> QED
  BY <1>1, <1>2, OnwardTimeless DEF Timeless

LEMMA LogFailsTimeless ==
  ASSUME Typed, Timeless, NEW t \in Threads, LogFails(t)
  PROVE  Timeless'
<1>1. UNCHANGED <<cache, ahead>> /\ \A i \in Inodes : EternalIndex(disk'[i].img)
  <2>1. \A i \in Inodes : EternalIndex(disk[i].img)
    BY DEF Timeless
  <2>2. EternalIndex(ahead)
    BY DEF Timeless
  <2> QED
    BY <2>1, <2>2, LogFailsReturns, DiskTimeless DEF mem
<1> QED
  BY <1>1, LogFailsReturns, OnwardTimeless DEF Timeless

LEMMA ProcessTimeless ==
  ASSUME Typed, Timeless, SetEncryptionKey \/ Tick \/ Crash \/ Open \/ UNCHANGED vars
  PROVE  Timeless'
<1> USE DEF mem, files, thread, scratch
<1>1. CASE SetEncryptionKey \/ Tick \/ UNCHANGED vars
  BY <1>1 DEF SetEncryptionKey, Tick, vars, Timeless, EternalIndex, Eternal
<1>2. CASE Crash
  <2>1. PICK d : disk' = Sweep(d, {path}) /\ \A i \in Inodes : d[i].img = disk[i].img
    <3>1. \A i \in Inodes : [disk EXCEPT ![writer].torn = TRUE][i].img = disk[i].img
      BY DEF Typed, TypeOK
    <3> QED
      BY <1>2, <3>1 DEF Crash
  <2>2. \A i \in Inodes : EternalIndex(disk'[i].img)
    BY <2>1, DiskTimeless DEF Timeless
  <2>3. EternalIndex(EmptyIndex)
    BY DEF EmptyIndex, EternalIndex, Eternal
  <2> QED
    BY <1>2, <2>2, <2>3 DEF Crash, Timeless, Eternal
<1>3. CASE Open
  <2>1. PICK i \in IF path = None THEN Unused ELSE {path} :
          ahead' = disk[i].img /\ cache' = LiveIndex(disk[i].img, now)
    BY <1>3 DEF Open
  <2>2. i \in Inodes /\ UNCHANGED <<disk, ent, plan>>
    BY <1>3 DEF Open, Unused, Typed, TypeOK
  <2>3. EternalIndex(ahead') /\ EternalIndex(cache')
    BY <2>1, <2>2, EternalLive DEF Timeless
  <2> QED
    BY <2>2, <2>3 DEF Timeless, EternalIndex, Eternal
<1> QED
  BY <1>1, <1>2, <1>3

LEMMA TimelessStep == Undated /\ Typed /\ Timeless /\ [Next]_vars => Timeless'
BY DecisionsTimeless, CommitsTimeless, ReadingTimeless, LocalTimeless, CompactingTimeless,
   LogFailsTimeless, ProcessTimeless DEF Next, Call

\* No deadline comes from nowhere.
LEMMA AlwaysTimeless == Spec => [](Undated => Timeless)
<1>1. Init => (Undated => Timeless)
  BY TimelessInit
<1>2. Typed /\ (Undated => Timeless) /\ [Next]_vars => (Undated => Timeless)'
  BY TimelessStep DEF Undated
<1> QED
  BY <1>1, <1>2, AlwaysTyped, PTL DEF Spec

-----------------------------------------------------------------------------
(* Durability.  What parts the log from the index is a call that works on   *)
(* either without the other's lock: the expiry a reader starts, and a       *)
(* compaction.  Where neither comes to pass they move together, whatever    *)
(* the threads do, and however appends fail and crashes cut them.           *)

\* Nobody looks for expired entries: set_if_absent and the calls that build on
\* what they find overlook them.
Unread == \A r \in Requests : r.op \notin {"get", "purge"}

Calm == (Undated \/ Unread) /\ \A r \in Requests : r.op # "compact"

\* The log is the file written to, unless it has been dropped, and holds every
\* append unless one has failed.
InStep ==
  up => /\ path \in {writer, None}
        /\ path # None /\ ~dirty => disk[path].img = ahead

\* What is live in the cache is what the appended records leave live.
Mirrored == up /\ ~dirty => LiveIndex(ahead, now) = LiveIndex(cache, now)

Unhurried(t) ==
  /\ pc[t] \notin {"log", "expired", "snapshot", "write", "rename", "reopen"}
  /\ pc[t] \in {"read", "check", "remove"} => Undated
  /\ pc[t] = "check" => ent[t] # None
  /\ pc[t] = "remove" => todo[t] = {}

Durable == InStep /\ Mirrored /\ \A t \in Threads : Unhurried(t)

LEMMA DurableInit == Init => Durable
BY DEF Init, Durable, InStep, Mirrored, Unhurried

\* A step of a thread on nothing but its own locals.
LEMMA LocalsDurable ==
  ASSUME Typed, Durable, NEW t \in Threads, UNCHANGED <<up, now, cache, files>>,
         \A u \in Threads \ {t} : UNCHANGED <<pc[u], ent[u], todo[u]>>,
         Unhurried(t)'
  PROVE  Durable'
BY DEF Durable, InStep, Mirrored, Unhurried, LiveIndex, files

\* A return leaves nothing behind.
LEMMA ReturnUnhurried ==
  ASSUME Typed, NEW t \in Threads, Return(t)
  PROVE  Unhurried(t)' /\ \A u \in Threads \ {t} : UNCHANGED <<pc[u], ent[u], todo[u]>>
BY DEF Return, Goto, Unhurried, Typed, TypeOK

LEMMA ReturnDurable ==
  ASSUME Typed, Durable, NEW t \in Threads, Return(t), UNCHANGED <<up, now, cache, files>>
  PROVE  Durable'
BY ReturnUnhurried, LocalsDurable

\* A step to a place where nothing has to be said.
LEMMA GotoDurable ==
  ASSUME Typed, Durable, NEW t \in Threads, UNCHANGED <<up, now, cache, files>>,
         NEW l \in {"cache", "wal", "commit", "unlock", "publish"},
         pc' = [pc EXCEPT ![t] = l],
         \A u \in Threads \ {t} : UNCHANGED <<ent[u], todo[u]>>
  PROVE  Durable'
<1>1. Unhurried(t)' /\ \A u \in Threads \ {t} : pc'[u] = pc[u]
  BY DEF Unhurried, Typed, TypeOK
<1> QED
  BY <1>1, LocalsDurable

\* An append reaches the file written to, or is known to have failed.
LEMMA AppendInStep ==
  ASSUME Typed, Durable, up, up', NEW type, NEW key, NEW e,
         AppendRecord(type, key, e) \/ AppendFails(type, key, e)
  PROVE  /\ InStep'
         /\ ~dirty' => ~dirty /\ ahead' = Apply(ahead, type, key, e)
<1>1. writer \in Inodes /\ disk \in [Inodes -> [img : Index, torn : BOOLEAN]]
  BY DEF Typed, TypeOK, Placed
<1>2. UNCHANGED <<path, writer>>
  BY DEF AppendRecord, AppendFails
<1>3. ~dirty' => ~dirty /\ ahead' = Apply(ahead, type, key, e) /\ disk'[writer].img = ahead'
  <2>1. CASE AppendFails(type, key, e)
    BY <2>1 DEF AppendFails
  <2>2. CASE AppendRecord(type, key, e)
    <3>1. dirty' <=> dirty \/ disk[writer].torn
      BY <2>2 DEF AppendRecord
    <3>2. ~disk[writer].torn => disk'[writer].img = ahead'
      BY <1>1, <2>2 DEF AppendRecord, Flushed
    <3> QED
      BY <2>2, <3>1, <3>2 DEF AppendRecord
  <2> QED
    BY <2>1, <2>2
<1> QED
  BY <1>2, <1>3 DEF Durable, InStep

\* A committing write appends its record and changes the index in one step.
LEMMA CommitDurable ==
  ASSUME Typed, Durable, NEW t \in Threads, Commit(t) \/ CommitFails(t)
  PROVE  Durable'
<1>1. up /\ UNCHANGED <<up, now, ent>> /\ req[t] \in Request /\ pc[t] = "commit"
  BY StoreAssumption DEF Commit, CommitFails, Typed, Placed
<1>2. /\ pc' = pc \/ pc' = [pc EXCEPT ![t] = "unlock"]
      /\ \A u \in Threads \ {t} : todo'[u] = todo[u]
  BY DEF Commit, CommitFails, Goto, Typed, TypeOK
<1>3. \A u \in Threads : Unhurried(u)'
  BY <1>1, <1>2 DEF Durable, Unhurried, Typed, TypeOK
<1>4. InStep' /\ Mirrored'
  <2>1. PICK k \in Target(t) :
          \/ /\ AppendRecord(plan[t].type, k, plan[t].ent)
             /\ cache' = Apply(cache, plan[t].type, k, plan[t].ent)
          \/ AppendFails(plan[t].type, k, plan[t].ent)
    BY DEF Commit, CommitFails
  <2>2. k \in Keys
    BY <1>1 DEF Target, Request, Typed, TypeOK
  <2>3. /\ InStep'
        /\ ~dirty' => ~dirty /\ ahead' = Apply(ahead, plan[t].type, k, plan[t].ent)
    BY <1>1, <2>1, AppendInStep
  <2>4. ~dirty' => cache' = Apply(cache, plan[t].type, k, plan[t].ent)
    BY <2>1 DEF AppendFails
  <2>5. Mirrored'
    BY <1>1, <2>2, <2>3, <2>4, ApplyMirrors DEF Durable, Mirrored, Typed, TypeOK
  <2> QED
    BY <2>3, <2>5
<1> QED
  BY <1>3, <1>4 DEF Durable

\* A calm store has nothing to expire, so its reads and purges only return.
LEMMA ReadingDurable ==
  ASSUME Calm, Typed, Undated => Timeless, Durable, NEW t \in Threads,
         \/ ReadEntry(t) \/ CheckEntry(t) \/ CollectExpired(t) \/ RemoveExpired(t)
         \/ LogExpiry(t) \/ PublishExpiry(t) \/ ExpiryDone(t)
  PROVE  Durable'
<1> USE DEF mem
<1>1. up /\ req[t] \in Requests /\ req[t] \in Request /\ req[t].op # "compact"
  BY StoreAssumption
     DEF ReadEntry, CheckEntry, CollectExpired, RemoveExpired, LogExpiry, PublishExpiry,
         ExpiryDone, Typed, Placed, Calm
<1>2. pc[t] \in {"read", "check", "remove"} /\ (pc[t] = "remove" => todo[t] = {})
  BY DEF ReadEntry, CheckEntry, CollectExpired, RemoveExpired, LogExpiry, PublishExpiry,
         ExpiryDone, Durable, Unhurried
<1>3. Undated /\ EternalIndex(cache) /\ Eternal(ent[t])
  BY <1>2 DEF Durable, Unhurried, Timeless
<1>4. CASE ReadEntry(t)
  <2>1. CASE Found(t) = None
    BY <1>4, <2>1, ReturnDurable DEF ReadEntry
  <2>2. CASE Found(t) # None
    <3>1. /\ ent' = [ent EXCEPT ![t] = Found(t)] /\ pc' = [pc EXCEPT ![t] = "check"]
          /\ UNCHANGED <<up, now, cache, files, todo>>
      BY <1>4, <2>2 DEF ReadEntry, Goto
    <3>2. /\ Unhurried(t)'
          /\ \A u \in Threads \ {t} : UNCHANGED <<pc[u], ent[u], todo[u]>>
      BY <1>3, <2>2, <3>1 DEF Unhurried, Typed, TypeOK
    <3> QED
      BY <3>1, <3>2, LocalsDurable
  <2> QED
    BY <2>1, <2>2
<1>5. CASE CheckEntry(t)
  <2>1. ~IsExpired(ent[t], now)
    BY <1>3, <1>5 DEF CheckEntry, Durable, Unhurried, Eternal, IsExpired
  <2> QED
    BY <1>5, <2>1, ReturnDurable DEF CheckEntry
<1>6. CASE CollectExpired(t)
  <2>1. {k \in Keys : cache[k] # None /\ IsExpired(cache[k], now)} = {}
    BY <1>3 DEF EternalIndex, Eternal, IsExpired
  <2>2. /\ todo' = [todo EXCEPT ![t] = {}] /\ pc' = [pc EXCEPT ![t] = "remove"]
        /\ UNCHANGED <<up, now, cache, files, ent>>
    BY <1>6, <2>1 DEF CollectExpired, Goto
  <2>3. /\ Unhurried(t)'
        /\ \A u \in Threads \ {t} : UNCHANGED <<pc[u], ent[u], todo[u]>>
    BY <1>3, <2>2 DEF Unhurried, Typed, TypeOK
  <2> QED
    BY <2>2, <2>3, LocalsDurable
<1>7. CASE RemoveExpired(t) \/ LogExpiry(t) \/ PublishExpiry(t)
  BY <1>2, <1>7 DEF RemoveExpired, LogExpiry, PublishExpiry
<1>8. CASE ExpiryDone(t)
  BY <1>1, <1>8, ReturnDurable DEF ExpiryDone
<1> QED
  BY <1>4, <1>5, <1>6, <1>7, <1>8

\* The steps of a call that touch neither entries nor files.
LEMMA LocalDurable ==
  ASSUME Calm, Typed, Durable, NEW t \in Threads,
         \/ Begin(t) \/ LockCache(t) \/ SetIfAbsentReturns(t) \/ Unlock(t) \/ Publish(t)
         \/ \E op, plans : Decide(t, op, plans)
  PROVE  Durable'
<1> USE DEF mem, locks, scratch
<1>1. CASE Begin(t)
  <2>1. PICK r \in Requests :
          /\ todo' = [todo EXCEPT ![t] = IF r.op = "import" THEN Keys ELSE {}]
          /\ pc' = [pc EXCEPT ![t] = FirstLock(r.op)]
    BY <1>1 DEF Begin, Goto
  <2>2. FirstLock(r.op) \in {"read", "wal", "cache"} /\ (FirstLock(r.op) = "read" => Undated)
    BY DEF FirstLock, Calm, Unread
  <2>3. UNCHANGED <<up, now, cache, files>> /\ \A u \in Threads \ {t} : ent'[u] = ent[u]
    BY <1>1 DEF Begin, Typed, TypeOK
  <2>4. /\ Unhurried(t)'
        /\ \A u \in Threads \ {t} : UNCHANGED <<pc[u], todo[u]>>
    BY <2>1, <2>2 DEF Unhurried, Typed, TypeOK
  <2> QED
    BY <2>3, <2>4, LocalsDurable
<1>2. CASE LockCache(t) \/ SetIfAbsentReturns(t) \/ \E op, plans : Decide(t, op, plans)
  <2>1. /\ \E l \in {"wal", "commit", "unlock"} : pc' = [pc EXCEPT ![t] = l]
        /\ UNCHANGED <<up, now, cache, files, ent, todo>>
    BY <1>2 DEF LockCache, SetIfAbsentReturns, Decide, Goto
  <2> QED
    BY <2>1, GotoDurable
<1>3. CASE Unlock(t) \/ Publish(t)
  <2>1. /\ UNCHANGED <<up, now, cache, files>>
        /\ Return(t) \/ (Goto(t, "publish") /\ UNCHANGED scratch)
    BY <1>3 DEF Unlock, Publish
  <2>2. CASE Goto(t, "publish") /\ UNCHANGED scratch
    BY <2>1, <2>2, GotoDurable DEF Goto
  <2> QED
    BY <2>1, <2>2, ReturnDurable
<1> QED
  BY <1>1, <1>2, <1>3

\* Closing flushes an empty buffer, and dropping takes the log's name away.
LEMMA CloseDurable ==
  ASSUME Typed, Durable, NEW t \in Threads, CloseLog(t)
  PROVE  Durable'
<1>1. /\ up /\ UNCHANGED <<up, now, cache, writer, ahead, dirty>> /\ Return(t)
      /\ disk' = Sweep(Flushed(ahead), Held') /\ path' \in {path, None}
  BY DEF CloseLog, mem, Typed, Placed
<1>2. InStep'
  <2> SUFFICES ASSUME path' # None, ~dirty PROVE path' = writer /\ disk'[path].img = ahead
    BY <1>1 DEF Durable, InStep
  <2>1. path' = path /\ path = writer /\ path \in Inodes /\ disk[path].img = ahead
    BY <1>1 DEF Durable, InStep, Typed, TypeOK
  <2>2. Flushed(ahead)[path].img = ahead /\ path \in Held'
    BY <2>1 DEF Flushed, Held, Typed, TypeOK
  <2> QED
    BY <1>1, <2>1, <2>2 DEF Sweep
<1>3. Mirrored'
  BY <1>1 DEF Durable, Mirrored, LiveIndex
<1>4. \A u \in Threads : Unhurried(u)'
  BY <1>1, ReturnUnhurried DEF Durable, Unhurried
<1> QED
  BY <1>2, <1>3, <1>4 DEF Durable

\* What fails of a close or a drop leaves the log as it is; nobody compacts.
LEMMA LogFailsDurable ==
  ASSUME Typed, Durable, NEW t \in Threads, LogFails(t)
  PROVE  Durable'
<1>1. CloseFails(t)
  BY DEF LogFails, CompactFails, ReopenFails, Durable, Unhurried
<1>2. /\ up /\ UNCHANGED <<up, now, cache, path, writer, ahead, dirty>> /\ Return(t)
      /\ disk' = disk \/ disk' = Flushed(ahead)
  BY <1>1 DEF CloseFails, mem, Typed, Placed
<1>3. InStep'
  <2> SUFFICES ASSUME path # None, ~dirty PROVE path = writer /\ disk'[path].img = ahead
    BY <1>2 DEF Durable, InStep
  <2>1. path = writer /\ path \in Inodes /\ disk[path].img = ahead
    BY <1>2 DEF Durable, InStep, Typed, TypeOK
  <2> QED
    BY <1>2, <2>1 DEF Flushed, Typed, TypeOK
<1>4. Mirrored'
  BY <1>2 DEF Durable, Mirrored, LiveIndex
<1>5. \A u \in Threads : Unhurried(u)'
  BY <1>2, ReturnUnhurried DEF Durable, Unhurried
<1> QED
  BY <1>3, <1>4, <1>5 DEF Durable

\* A crash takes the memory, opening the log brings back what it holds, and
\* time passes for both alike.
LEMMA ProcessDurable ==
  ASSUME Typed, Durable, SetEncryptionKey \/ Tick \/ Crash \/ Open \/ UNCHANGED vars
  PROVE  Durable'
<1> USE DEF mem, locks, files, thread, scratch
<1>1. CASE SetEncryptionKey \/ UNCHANGED vars
  BY <1>1 DEF SetEncryptionKey, vars, Durable, InStep, Mirrored, Unhurried, LiveIndex
<1>2. CASE Tick
  <2>1. now \in Nat /\ now' = now + 1 /\ UNCHANGED <<up, cache, files, pc, ent, todo>>
    BY <1>2, StoreAssumption DEF Tick, Typed, TypeOK
  <2>2. \A index \in Index : LiveIndex(index, now') = LiveIndex(LiveIndex(index, now), now')
    BY <2>1, LiveAgain
  <2>3. Mirrored'
    BY <2>1, <2>2 DEF Durable, Mirrored, Typed, TypeOK
  <2> QED
    BY <2>1, <2>3 DEF Durable, InStep, Unhurried
<1>3. CASE Crash
  BY <1>3 DEF Crash, Durable, InStep, Mirrored, Unhurried
<1>4. CASE Open
  <2>1. PICK i \in IF path = None THEN Unused ELSE {path} :
          /\ path' = i /\ writer' = i /\ ahead' = disk[i].img
          /\ cache' = LiveIndex(disk[i].img, now)
    BY <1>4 DEF Open
  <2>2. i \in Inodes /\ UNCHANGED <<now, disk, pc, ent, todo>>
    BY <1>4 DEF Open, Unused, Typed, TypeOK
  <2>3. disk[i].img \in Index /\ now \in Nat
    BY <2>2, StoreAssumption DEF Typed, TypeOK
  <2>4. LiveIndex(cache', now) = LiveIndex(ahead', now)
    BY <2>1, <2>3, LiveAgain
  <2>5. InStep' /\ Mirrored'
    BY <2>1, <2>2, <2>4 DEF InStep, Mirrored
  <2> QED
    BY <2>2, <2>5 DEF Durable, Unhurried
<1> QED
  BY <1>1, <1>2, <1>3, <1>4

LEMMA DurableStep ==
  ASSUME Calm, Typed, Undated => Timeless, Durable, [Next]_vars
  PROVE  Durable'
<1>1. ASSUME NEW t \in Threads, Call(t) \/ Begin(t) \/ CommitFails(t) \/ LogFails(t)
      PROVE  Durable'
  <2>1. CASE OpenTmp(t) \/ WriteTmp(t) \/ RenameTmp(t) \/ Reopen(t)
    BY <2>1 DEF OpenTmp, WriteTmp, RenameTmp, Reopen, Durable, Unhurried
  <2>2. CASE \/ Set(t) \/ Import(t) \/ Delete(t) \/ Clear(t) \/ Increment(t)
             \/ ListPush(t) \/ DeleteFromList(t) \/ SetIfAbsent(t)
    <3>1. \E op, plans : Decide(t, op, plans)
      BY <2>2 DEF Set, Import, Delete, Clear, Increment, ListPush, DeleteFromList, SetIfAbsent
    <3> QED
      BY <3>1, LocalDurable
  <2> QED
    BY <1>1, <2>1, <2>2, CommitDurable, ReadingDurable, LocalDurable, CloseDurable, LogFailsDurable
       DEF Call
<1> QED
  BY <1>1, ProcessDurable DEF Next

LEMMA AlwaysDurable == Spec => [](Calm => Durable)
<1>1. Init => (Calm => Durable)
  BY DurableInit
<1>2. Typed /\ (Undated => Timeless) /\ (Calm => Durable) /\ [Next]_vars => (Calm => Durable)'
  BY DurableStep DEF Calm, Undated, Unread
<1> QED
  BY <1>1, <1>2, AlwaysTyped, AlwaysTimeless, PTL DEF Spec

\* wal.rs:16-17 for any number of threads and keys, with drops, failing appends
\* and crashes that cut records: at rest a restart serves what the process
\* serves as long as no append has failed, where nobody compacts, and either
\* nobody sets a deadline or nobody looks for expired entries.
THEOREM Durability == Spec => [](Calm => BackedLogRebuildsIndex)
<1>1. (Calm => Durable) => (Calm => BackedLogRebuildsIndex)
  BY DEF BackedLogRebuildsIndex, Backed, LogRebuildsIndex, Quiet, Recovered, Durable, InStep,
         Mirrored
<1> QED
  BY <1>1, AlwaysDurable, PTL

\* Where no append can fail and no crash can cut a record, none is missed.
Faultless == ~dirty /\ \A i \in Inodes : ~disk[i].torn

Whole(d) == \A i \in Inodes : ~d[i].torn

LEMMA SweepWhole ==
  ASSUME NEW d, NEW held, Whole(d)
  PROVE  Whole(Sweep(d, held))
BY DEF Whole, Sweep, NoFile

LEMMA WritesWhole ==
  ASSUME Typed, up, Faultless, NEW img
  PROVE  /\ Whole(disk) /\ Whole(Flushed(img))
         /\ writer \in Inodes => ~disk[writer].torn
         /\ \A i \in Inodes : Whole(Empty(i)) /\ Whole([disk EXCEPT ![i].img = img])
BY DEF Whole, Flushed, Faultless, Empty, NoFile, Typed, TypeOK

LEMMA FaultlessStep ==
  ASSUME Faults = {}, Typed, Faultless, [Next]_vars
  PROVE  Faultless'
<1>1. Faultless <=> ~dirty /\ Whole(disk)
  BY DEF Faultless, Whole
<1>2. Faultless' <=> ~dirty' /\ Whole(disk')
  BY DEF Faultless, Whole
<1>3. up => writer \in Inodes
  BY DEF Typed, Placed
<1>4. ASSUME NEW t \in Threads, Call(t) \/ Begin(t) \/ CommitFails(t) PROVE Faultless'
  <2>1. up
    <3>1. pc[t] # "idle" \/ Begin(t)
      BY <1>4 DEF Call, CommitFails, LockCache, Set, Import, Delete, Clear, Increment, ListPush,
                  DeleteFromList, SetIfAbsent, SetIfAbsentReturns, Decide, Commit, Unlock,
                  Publish, ReadEntry, CheckEntry, CollectExpired, RemoveExpired, LogExpiry,
                  PublishExpiry, ExpiryDone, OpenTmp, WriteTmp, RenameTmp, Reopen, CloseLog
    <3> QED
      BY <3>1 DEF Begin, Typed, Placed
  <2>2. CASE Commit(t) \/ LogExpiry(t)
    <3>1. PICK type, key, e : AppendRecord(type, key, e)
      BY <2>2 DEF Commit, LogExpiry, AppendFails, FaultHappens
    <3> QED
      BY <1>1, <1>2, <1>3, <2>1, <3>1, WritesWhole DEF AppendRecord
  <2>3. CASE CommitFails(t)
    BY <2>3 DEF CommitFails, AppendFails, FaultHappens
  <2>4. CASE OpenTmp(t)
    <3>1. PICK i : i \in Inodes /\ disk' = Empty(i) /\ dirty' = dirty
      BY <2>4 DEF OpenTmp, Unused, Typed, TypeOK
    <3> QED
      BY <1>1, <1>2, <2>1, <3>1, WritesWhole
  <2>5. CASE WriteTmp(t)
    <3>1. disk' = [disk EXCEPT ![file[t]].img = cache] /\ dirty' = dirty
      BY <2>5 DEF WriteTmp
    <3>2. Whole(disk')
      BY <1>1, <3>1 DEF Whole, Typed, TypeOK
    <3> QED
      BY <1>1, <1>2, <3>1, <3>2
  <2>6. CASE RenameTmp(t) \/ Reopen(t) \/ CloseLog(t)
    <3>1. /\ dirty' => dirty
          /\ \E held : disk' = Sweep(disk, held) \/ disk' = Sweep(Flushed(ahead), held)
      <4>1. CASE RenameTmp(t)
        BY <4>1 DEF RenameTmp
      <4>2. CASE Reopen(t)
        BY <4>2 DEF Reopen
      <4>3. CASE CloseLog(t)
        BY <4>3 DEF CloseLog
      <4> QED
        BY <2>6, <4>1, <4>2, <4>3
    <3> QED
      BY <1>1, <1>2, <2>1, <3>1, WritesWhole, SweepWhole
  <2>7. CASE UNCHANGED files
    BY <1>1, <1>2, <2>7 DEF files
  <2> QED
    BY <1>4, <2>2, <2>3, <2>4, <2>5, <2>6, <2>7
       DEF Call, Begin, LockCache, Set, Import, Delete, Clear, Increment, ListPush,
           DeleteFromList, SetIfAbsent, SetIfAbsentReturns, Decide, Unlock, Publish, ReadEntry,
           CheckEntry, CollectExpired, RemoveExpired, PublishExpiry, ExpiryDone
<1>5. CASE Crash
  <2>1. disk' = Sweep(disk, {path}) /\ ~dirty'
    BY <1>5 DEF Crash, FaultHappens
  <2> QED
    BY <1>1, <1>2, <2>1, SweepWhole
<1>6. CASE SetEncryptionKey \/ Tick \/ Open \/ UNCHANGED vars
  <2>1. UNCHANGED <<disk, dirty>>
    BY <1>6 DEF SetEncryptionKey, Tick, Open, files, vars
  <2> QED
    BY <1>1, <1>2, <2>1
<1>7. ASSUME NEW t \in Threads, LogFails(t) PROVE FALSE
  BY <1>7 DEF LogFails, CompactFails, ReopenFails, CloseFails, FaultHappens
<1> QED
  BY <1>4, <1>5, <1>6, <1>7 DEF Next

LEMMA AlwaysFaultless == Spec => [](Faults = {} => Faultless)
<1>1. Init => (Faults = {} => Faultless)
  BY DEF Init, Faultless
<1>2. Typed /\ (Faults = {} => Faultless) /\ [Next]_vars => (Faults = {} => Faultless)'
  BY FaultlessStep
<1> QED
  BY <1>1, <1>2, AlwaysTyped, PTL DEF Spec

\* Where appends reach the disk, a log that has a name is enough: a restart at
\* rest serves what the process serves, for any number of threads and keys.
THEOREM FaultlessDurability == Spec => [](Calm /\ Faults = {} => LogRebuildsIndex)
<1>1. /\ Calm => BackedLogRebuildsIndex
      /\ Faults = {} => Faultless
      => (Calm /\ Faults = {} => LogRebuildsIndex)
  BY DEF BackedLogRebuildsIndex, Backed, LogRebuildsIndex, Faultless
<1> QED
  BY <1>1, Durability, AlwaysFaultless, PTL

=============================================================================
