---------------------------- MODULE RodiniaStore ----------------------------
(***************************************************************************)
(* rodinia_ffi/src/store.rs over wal.rs, called by several threads of one  *)
(* process.  `cache` is an index under a read-write lock (rd, wr), the     *)
(* write-ahead log has a mutex (wl), and a call takes its steps between    *)
(* the points where it acquires and releases them:                         *)
(*                                                                         *)
(*   writes    idle -> cache -> wal -> commit -> unlock -> publish -> idle *)
(*   reads     idle -> read -> check (-> remove -> log -> expired) -> idle *)
(*   compact   as a purge of the expired keys, then                        *)
(*             snapshot -> write -> rename -> reopen -> idle               *)
(*                                                                         *)
(* Files are inodes: `path` and `tmp` are the names rodinia.wal and        *)
(* rodinia.wal.tmp, `writer` is the inode the open log writes to.  `ahead` *)
(* is what that inode rebuilds once the writer's buffer is flushed.        *)
(***************************************************************************)
EXTENDS RodiniaEntry

CONSTANTS
  Threads,   \* threads that call the store
  Inodes,    \* files of the directory; as many as can be open at once
  Requests,  \* the calls threads may make
  Faults,    \* "append": a flush may fail; "tear": a crash may cut a record;
             \* "file": a file may not be opened, written, renamed or unlinked
  MaxTime,   \* bound: the clock stops here
  MaxFaults  \* bound: faults in one behaviour

Ops == {"set", "set_if_absent", "increment", "list_push", "delete_from_list",
        "delete", "clear", "import", "get", "purge", "compact", "close", "drop"}

Request == [op : Ops, key : Keys, kind : Kinds, n : Int,
            ttl : Int \cup {Never}, enc : BOOLEAN]

ASSUME StoreAssumption ==
  /\ Requests \subseteq Request
  /\ Faults \subseteq {"append", "tear", "file"}
  /\ None \notin Threads \cup Inodes
  /\ None \notin Request
  /\ MaxTime \in Nat /\ MaxFaults \in Nat

VARIABLES
  up,      \* the process runs and the store is open
  now,     \* the clock
  ekey,    \* Store.encryption_key
  cache,   \* Store.cache
  seen,    \* what a subscriber of "*" believes: key -> present
  rd, wr,  \* readers and writer of the cache lock
  wl,      \* owner of the log's mutex
  disk,    \* inode -> [img: the index it rebuilds, torn: ends in a cut record]
  path, tmp, writer, ahead,
  pc, req, \* program counter and request of each thread
  ent,     \* the entry a thread has prepared or cloned
  plan,    \* what a thread decided under the locks
  todo,    \* keys a purge has still to expire, or an import to write
  cur,     \* the key being expired
  file,    \* the temporary file a compaction writes
  ret,     \* what the write a thread is in will answer
  faults,  \* faults so far
  \* History variables; no action depends on them.
  dirty,   \* since the log was opened or rewritten an append missed the disk,
           \* or the reopening failed that appends need to get there
  silent   \* keys a failed call has removed without an event

mem     == <<ekey, cache, seen, silent>>
locks   == <<rd, wr, wl>>
files   == <<disk, path, tmp, writer, ahead, dirty, faults>>
scratch == <<req, ent, plan, todo, cur, file>>
thread  == <<pc, scratch, ret>>
vars    == <<up, now, mem, locks, files, thread>>

Results == [st : {"ok", "no", "err", "none"}, n : Int]
Plans == [type : RecordTypes \cup {"none"}, ent : Entry \cup {None},
          ret : Results, news : {"present", "absent", "cleared", "none"}]
ASSUME PlanAssumption == None \notin Plans

Labels == {"idle", "cache", "wal", "commit", "unlock", "publish", "read",
           "check", "remove", "log", "expired", "snapshot", "write",
           "rename", "reopen"}

TypeOK ==
  /\ up \in BOOLEAN /\ now \in 0..MaxTime
  /\ ekey \in EncKeys \cup {None}
  /\ cache \in Index /\ seen \in [Keys -> BOOLEAN]
  /\ rd \in SUBSET Threads
  /\ wr \in Threads \cup {None} /\ wl \in Threads \cup {None}
  /\ disk \in [Inodes -> [img : Index, torn : BOOLEAN]]
  /\ path \in Inodes \cup {None} /\ tmp \in Inodes \cup {None}
  /\ writer \in Inodes \cup {None} /\ ahead \in Index
  /\ pc \in [Threads -> Labels]
  /\ req \in [Threads -> Requests \cup {None}]
  /\ ent \in [Threads -> Entry \cup {None}]
  /\ plan \in [Threads -> Plans \cup {None}]
  /\ todo \in [Threads -> SUBSET Keys]
  /\ cur \in [Threads -> Keys \cup {None}]
  /\ file \in [Threads -> Inodes \cup {None}]
  /\ ret \in [Threads -> Results]
  /\ faults \in 0..MaxFaults /\ dirty \in BOOLEAN /\ silent \in SUBSET Keys

Ok(n) == [st |-> "ok", n |-> n]
No    == [st |-> "no", n |-> 0]
Err   == [st |-> "err", n |-> 0]
NoAnswer == [st |-> "none", n |-> 0]

Init ==
  /\ up = FALSE /\ now = 0 /\ ekey = None
  /\ cache = EmptyIndex /\ seen = [k \in Keys |-> FALSE]
  /\ rd = {} /\ wr = None /\ wl = None
  /\ disk = [i \in Inodes |-> [img |-> EmptyIndex, torn |-> FALSE]]
  /\ path = None /\ tmp = None /\ writer = None /\ ahead = EmptyIndex
  /\ pc = [t \in Threads |-> "idle"]
  /\ req = [t \in Threads |-> None] /\ ent = [t \in Threads |-> None]
  /\ plan = [t \in Threads |-> None] /\ todo = [t \in Threads |-> {}]
  /\ cur = [t \in Threads |-> None] /\ file = [t \in Threads |-> None]
  /\ ret = [t \in Threads |-> NoAnswer]
  /\ faults = 0 /\ dirty = FALSE /\ silent = {}

Goto(t, l) == pc' = [pc EXCEPT ![t] = l]

\* The call returns and its locals are gone.
Return(t) ==
  /\ Goto(t, "idle")
  /\ req' = [req EXCEPT ![t] = None] /\ ent' = [ent EXCEPT ![t] = None]
  /\ plan' = [plan EXCEPT ![t] = None] /\ todo' = [todo EXCEPT ![t] = {}]
  /\ cur' = [cur EXCEPT ![t] = None] /\ file' = [file EXCEPT ![t] = None]
  /\ ret' = [ret EXCEPT ![t] = NoAnswer]

\* encode_value needs the encryption key for an encrypted value,
\* decode_value the very key the entry was sealed with.
CanSeal(enc) == enc => ekey # None
Seal(enc) == IF enc THEN ekey ELSE None
CanOpen(e) == e.enc = None \/ e.enc = ekey

NewEntry(r) == [kind |-> r.kind, n |-> r.n, enc |-> Seal(r.enc),
                exp |-> Deadline(r.ttl, now)]

NoFile == [img |-> EmptyIndex, torn |-> FALSE]

Empty(i) == [disk EXCEPT ![i] = NoFile]

\* An inode without a name or an open handle is gone.
Sweep(d, held) == [i \in Inodes |-> IF i \in held THEN d[i] ELSE NoFile]

Held   == {path, tmp, writer} \cup {file[t] : t \in Threads}
Unused == Inodes \ Held

-----------------------------------------------------------------------------
(* Wal::append and flush.  A record behind a cut one is never read again.   *)

FaultHappens(kind) ==
  /\ kind \in Faults /\ faults < MaxFaults
  /\ faults' = faults + 1

Flushed(img) ==
  [disk EXCEPT ![writer].img = IF disk[writer].torn THEN @ ELSE img]

\* Mutant: the record is written but the buffer is not flushed.
AppendRecordUnflushed(type, key, e) ==
  /\ ahead' = Apply(ahead, type, key, e)
  /\ UNCHANGED <<disk, path, tmp, writer, dirty, faults>>

AppendRecord(type, key, e) ==
  /\ ahead' = Apply(ahead, type, key, e)
  /\ disk' = Flushed(ahead')
  /\ dirty' = (dirty \/ disk[writer].torn)
  /\ UNCHANGED <<path, tmp, writer, faults>>

\* The record stays in the BufWriter and goes out with the next flush.
AppendFails(type, key, e) ==
  /\ FaultHappens("append")
  /\ ahead' = Apply(ahead, type, key, e)
  /\ dirty' = TRUE
  /\ UNCHANGED <<disk, path, tmp, writer>>

-----------------------------------------------------------------------------
(* Beginning a call: the steps before its first lock.                       *)

FirstLock(op) ==
  IF op \in {"get", "purge", "compact"} THEN "read"
  ELSE IF op \in {"close", "drop"} THEN "wal" ELSE "cache"

\* Store::set encodes the value, or fails for want of a key, and reads the
\* clock before it takes a lock.
Begin(t) ==
  /\ up /\ pc[t] = "idle"
  /\ \E r \in Requests :
       /\ r.op = "set" => CanSeal(r.enc)
       /\ req' = [req EXCEPT ![t] = r]
       /\ ent' = [ent EXCEPT ![t] = IF r.op \in {"set", "import"} THEN NewEntry(r) ELSE None]
       /\ todo' = [todo EXCEPT ![t] = IF r.op = "import" THEN Keys ELSE {}]
       /\ Goto(t, FirstLock(r.op))
  /\ UNCHANGED <<up, now, mem, locks, files, plan, cur, file, ret>>

\* Mutant: a writer does not wait for the readers.
LockCachePastReaders(t) ==
  /\ pc[t] = "cache"
  /\ wr = None
  /\ wr' = t
  /\ Goto(t, "wal")
  /\ UNCHANGED <<up, now, mem, rd, wl, files, scratch, ret>>

LockCache(t) ==
  /\ pc[t] = "cache"
  /\ wr = None /\ rd = {}
  /\ wr' = t
  /\ Goto(t, "wal")
  /\ UNCHANGED <<up, now, mem, rd, wl, files, scratch, ret>>

-----------------------------------------------------------------------------
(* Deciding, under both locks, what to append and what to put in the cache. *)

Write(e, r, news) == [type |-> "set", ent |-> e, ret |-> r, news |-> news]
Erase(r, news) == [type |-> "delete", ent |-> None, ret |-> r, news |-> news]
Leave(r) == [type |-> "none", ent |-> None, ret |-> r, news |-> "none"]

Found(t) == cache[req[t].key]
Live(t)  == LiveAt(Found(t), now)

Decide(t, op, plans) ==
  /\ pc[t] = "wal" /\ req[t].op = op
  /\ wl = None /\ wl' = t
  /\ \E p \in plans :
       /\ plan' = [plan EXCEPT ![t] = p]
       /\ Goto(t, IF p.type = "none" THEN "unlock" ELSE "commit")
       /\ ret' = IF p.type = "none" THEN [ret EXCEPT ![t] = p.ret] ELSE ret
  /\ UNCHANGED <<up, now, mem, rd, wr, files, req, ent, todo, cur, file>>

Set(t) == Decide(t, "set", {Write(ent[t], Ok(0), "present")})

\* import writes the same entry under every key, one record after another,
\* and publishes nothing.
Import(t) == Decide(t, "import", {Write(ent[t], Ok(0), "none")})

Delete(t) ==
  Decide(t, "delete", {IF Found(t) # None THEN Erase(Ok(1), "absent") ELSE Leave(No)})

Clear(t) ==
  Decide(t, "clear", {[type |-> "clear", ent |-> None, ret |-> Ok(0), news |-> "cleared"]})

\* A live entry that is not a plain integer is an InvalidCounterValue.
Increment(t) ==
  LET r    == req[t]
      base == IF Live(t) = None THEN 0 ELSE Live(t).n
      next == Saturate(base + r.n)
  IN Decide(t, "increment",
       {IF Live(t) # None /\ (Live(t).enc # None \/ Live(t).kind # "int")
          THEN Leave(Err)
          ELSE Write([kind |-> "int", n |-> next, enc |-> None,
                      exp |-> Deadline(r.ttl, now)], Ok(next), "present")})

\* Mutant: a push forgets the deadline of the list it extends.
KeptDeadlineForgotten(t) == Deadline(req[t].ttl, now)

\* A live list keeps its deadline unless the call brings a TTL of its own.
KeptDeadline(t) ==
  IF req[t].ttl # Never THEN Deadline(req[t].ttl, now)
  ELSE IF Live(t) = None THEN Never ELSE Live(t).exp

ListOf(t, len) == [kind |-> "list", n |-> len, enc |-> Seal(req[t].enc),
                   exp |-> KeptDeadline(t)]

NotAList(t) == Live(t) # None /\ ~(CanOpen(Live(t)) /\ Live(t).kind = "list")

ListPush(t) ==
  LET len == OneMore(IF Live(t) = None THEN 0 ELSE Live(t).n)
  IN Decide(t, "list_push",
       {IF NotAList(t) \/ ~CanSeal(req[t].enc) THEN Leave(Err)
        ELSE Write(ListOf(t, len), Ok(len), "present")})

\* The call removes as many items as equal the given one: any number of them.
DeleteFromList(t) ==
  LET left(m) == Live(t).n - m
      outcome(m) ==
        IF m = 0 THEN Leave(No)
        ELSE IF left(m) = 0 THEN Erase(Ok(1), "absent")
        ELSE IF ~CanSeal(req[t].enc) THEN Leave(Err)
        ELSE Write(ListOf(t, left(m)), Ok(1), "present")
  IN Decide(t, "delete_from_list",
       IF Found(t) = None THEN {Leave(No)}
       ELSE IF Live(t) = None THEN {Erase(No, "absent")}
       ELSE IF NotAList(t) THEN {Leave(Err)}
       ELSE {outcome(m) : m \in 0..Live(t).n})

\* Mutant: set_if_absent writes without looking.
SetIfAbsentUnchecked(t) ==
  /\ pc[t] = "wal" /\ req[t].op = "set_if_absent" /\ CanSeal(req[t].enc)
  /\ Decide(t, "set_if_absent", {Write(NewEntry(req[t]), Ok(1), "present")})

\* set_if_absent looks, and may return, before it asks for the log's mutex.
SetIfAbsent(t) ==
  /\ pc[t] = "wal" /\ req[t].op = "set_if_absent"
  /\ Live(t) = None /\ CanSeal(req[t].enc)
  /\ Decide(t, "set_if_absent", {Write(NewEntry(req[t]), Ok(1), "present")})

SetIfAbsentReturns(t) ==
  /\ pc[t] = "wal" /\ req[t].op = "set_if_absent"
  /\ Live(t) # None \/ ~CanSeal(req[t].enc)
  /\ ret' = [ret EXCEPT ![t] = IF Live(t) # None THEN No ELSE Err]
  /\ Goto(t, "unlock")
  /\ UNCHANGED <<up, now, mem, locks, files, scratch>>

-----------------------------------------------------------------------------
(* Committing a write and returning from it.                                *)

Target(t) == IF req[t].op = "import" THEN todo[t] ELSE {req[t].key}

Commit(t) ==
  /\ pc[t] = "commit"
  /\ \E k \in Target(t) :
       /\ AppendRecord(plan[t].type, k, plan[t].ent)
       /\ cache' = Apply(cache, plan[t].type, k, plan[t].ent)
       /\ todo' = [todo EXCEPT ![t] = @ \ {k}]
  /\ IF todo'[t] = {}
       THEN Goto(t, "unlock") /\ ret' = [ret EXCEPT ![t] = plan[t].ret]
       ELSE UNCHANGED <<pc, ret>>
  /\ UNCHANGED <<up, now, ekey, seen, silent, locks, req, ent, plan, cur, file>>

\* A failing append returns through `?`; a delete has left the cache already.
CommitFails(t) ==
  /\ pc[t] = "commit"
  /\ \E k \in Target(t) :
       /\ AppendFails(plan[t].type, k, plan[t].ent)
       /\ IF plan[t].type = "delete"
            THEN cache' = [cache EXCEPT ![k] = None] /\ silent' = silent \cup {k}
            ELSE UNCHANGED <<cache, silent>>
  /\ plan' = [plan EXCEPT ![t] = Leave(Err)]
  /\ todo' = [todo EXCEPT ![t] = {}]
  /\ ret' = [ret EXCEPT ![t] = Err]
  /\ Goto(t, "unlock")
  /\ UNCHANGED <<up, now, ekey, seen, locks, req, ent, cur, file>>

\* Mutant: a return path that leaves the log's mutex locked.
UnlockKeepsLog(t) ==
  /\ pc[t] = "unlock"
  /\ wr' = None
  /\ IF plan[t] # None /\ plan[t].news # "none"
       THEN Goto(t, "publish") /\ UNCHANGED <<scratch, ret>>
       ELSE Return(t)
  /\ UNCHANGED <<up, now, mem, rd, wl, files>>

Unlock(t) ==
  /\ pc[t] = "unlock"
  /\ wr' = None
  /\ wl' = IF wl = t THEN None ELSE wl
  /\ IF plan[t] # None /\ plan[t].news # "none"
       THEN Goto(t, "publish") /\ UNCHANGED <<scratch, ret>>
       ELSE Return(t)
  /\ UNCHANGED <<up, now, mem, rd, files>>

\* EventBus::publish, after the locks are dropped: what a subscriber learns.
Publish(t) ==
  /\ pc[t] = "publish"
  /\ seen' = IF plan[t].news = "cleared" THEN [k \in Keys |-> FALSE]
             ELSE [seen EXCEPT ![req[t].key] = (plan[t].news = "present")]
  /\ Return(t)
  /\ UNCHANGED <<up, now, ekey, cache, silent, locks, files>>

-----------------------------------------------------------------------------
(* Reads, and the expiry they start after the read lock is gone.            *)

\* get, contains and list_get clone the entry under the read lock ...
ReadEntry(t) ==
  /\ pc[t] = "read" /\ req[t].op = "get" /\ wr = None
  /\ IF Found(t) = None
       THEN Return(t)
       ELSE /\ ent' = [ent EXCEPT ![t] = Found(t)]
            /\ Goto(t, "check")
            /\ UNCHANGED <<req, plan, todo, cur, file, ret>>
  /\ UNCHANGED <<up, now, mem, locks, files>>

\* ... and look at its deadline without it.
CheckEntry(t) ==
  /\ pc[t] = "check"
  /\ IF IsExpired(ent[t], now)
       THEN /\ todo' = [todo EXCEPT ![t] = {req[t].key}]
            /\ Goto(t, "remove")
            /\ UNCHANGED <<req, ent, plan, cur, file, ret>>
       ELSE Return(t)
  /\ UNCHANGED <<up, now, mem, locks, files>>

\* purge_expired, also the first step of compact, lists the expired keys.
CollectExpired(t) ==
  /\ pc[t] = "read" /\ req[t].op \in {"purge", "compact"} /\ wr = None
  /\ todo' = [todo EXCEPT ![t] =
                {k \in Keys : cache[k] # None /\ IsExpired(cache[k], now)}]
  /\ Goto(t, "remove")
  /\ UNCHANGED <<up, now, mem, locks, files, req, ent, plan, cur, file, ret>>

\* expire_key takes the cache's write lock alone and removes whatever is there.
RemoveExpired(t) ==
  /\ pc[t] = "remove" /\ wr = None /\ rd = {}
  /\ \E k \in todo[t] :
       /\ todo' = [todo EXCEPT ![t] = @ \ {k}]
       /\ cache' = [cache EXCEPT ![k] = None]
       /\ IF cache[k] = None
            THEN UNCHANGED <<pc, cur>>
            ELSE Goto(t, "log") /\ cur' = [cur EXCEPT ![t] = k]
  /\ UNCHANGED <<up, now, ekey, seen, silent, locks, files, req, ent, plan, file, ret>>

\* Then, with the cache unlocked, it appends the Delete record.
LogExpiry(t) ==
  /\ pc[t] = "log" /\ wl = None
  /\ \/ AppendRecord("delete", cur[t], None)
     \/ AppendFails("delete", cur[t], None)
  /\ Goto(t, "expired")
  /\ UNCHANGED <<up, now, mem, locks, scratch, ret>>

\* Mutant: an expiry nobody hears of.
PublishExpirySilently(t) ==
  /\ pc[t] = "expired"
  /\ cur' = [cur EXCEPT ![t] = None]
  /\ Goto(t, "remove")
  /\ UNCHANGED <<up, now, mem, locks, files, req, ent, plan, todo, file, ret>>

PublishExpiry(t) ==
  /\ pc[t] = "expired"
  /\ seen' = [seen EXCEPT ![cur[t]] = FALSE]
  /\ cur' = [cur EXCEPT ![t] = None]
  /\ Goto(t, "remove")
  /\ UNCHANGED <<up, now, ekey, cache, silent, locks, files, req, ent, plan, todo, file, ret>>

ExpiryDone(t) ==
  /\ pc[t] = "remove" /\ todo[t] = {}
  /\ IF req[t].op = "compact" THEN Goto(t, "snapshot") /\ UNCHANGED <<scratch, ret>>
                              ELSE Return(t)
  /\ UNCHANGED <<up, now, mem, locks, files>>

-----------------------------------------------------------------------------
(* Store::compact after its purge: Wal::compact under the read lock, then   *)
(* Wal::reopen under the log's mutex.                                       *)

\* The temporary file is created, or truncated if it is there already.
OpenTmp(t) ==
  /\ pc[t] = "snapshot" /\ wr = None
  /\ rd' = rd \cup {t}
  /\ \E i \in IF tmp = None THEN Unused ELSE {tmp} :
       /\ tmp' = i
       /\ disk' = Empty(i)
       /\ file' = [file EXCEPT ![t] = i]
  /\ Goto(t, "write")
  /\ UNCHANGED <<up, now, mem, wr, wl, path, writer, ahead, dirty, faults>>
  /\ UNCHANGED <<req, ent, plan, todo, cur, ret>>

WriteTmp(t) ==
  /\ pc[t] = "write"
  /\ disk' = [disk EXCEPT ![file[t]].img = cache]
  /\ Goto(t, "rename")
  /\ UNCHANGED <<up, now, mem, locks, path, tmp, writer, ahead, dirty, faults, scratch, ret>>

\* The read guard drops here; if the name is gone, compact returns the error.
RenameTmp(t) ==
  /\ pc[t] = "rename"
  /\ rd' = rd \ {t}
  /\ IF tmp # None
       THEN /\ path' = tmp /\ tmp' = None
            /\ Goto(t, "reopen")
            /\ file' = [file EXCEPT ![t] = None]
            /\ UNCHANGED <<req, ent, plan, todo, cur, ret>>
       ELSE Return(t) /\ UNCHANGED <<path, tmp>>
  /\ UNCHANGED <<up, now, mem, wr, wl, writer, ahead, dirty, faults>>
  /\ disk' = Sweep(disk, Held')

\* The `?`s of Wal::compact: the file cannot be opened, written or renamed.
\* The read guard drops, and what was written stays behind under its name.
CompactFails(t) ==
  /\ FaultHappens("file")
  /\ pc[t] \in {"snapshot", "write", "rename"} /\ (pc[t] = "snapshot" => wr = None)
  /\ Return(t)
  /\ rd' = rd \ {t}
  /\ UNCHANGED <<up, now, mem, wr, wl, path, tmp, writer, ahead, dirty>>
  /\ disk' = Sweep(disk, Held')

\* Mutant: a compaction that goes on writing to the file it has replaced.
ReopenForgotten(t) ==
  /\ pc[t] = "reopen" /\ wl = None
  /\ Return(t)
  /\ UNCHANGED <<up, now, mem, locks, files>>

\* Replacing the BufWriter flushes the old one to the inode it still holds.
Reopen(t) ==
  /\ pc[t] = "reopen" /\ wl = None
  /\ Return(t)
  /\ UNCHANGED <<up, now, mem, locks, tmp, faults>>
  /\ \E i \in IF path = None THEN Unused ELSE {path} :
       /\ path' = i /\ writer' = i
       /\ disk' = Sweep(Flushed(ahead), Held')
       /\ ahead' = disk'[i].img
       /\ dirty' = (dirty /\ i = writer)

\* The `?` of Wal::reopen: the writer stays on the file that was replaced, and
\* every later append goes there, until a compaction reopens the log.
ReopenFails(t) ==
  /\ FaultHappens("file")
  /\ pc[t] = "reopen" /\ wl = None
  /\ Return(t)
  /\ dirty' = TRUE
  /\ UNCHANGED <<up, now, mem, locks, disk, path, tmp, writer, ahead>>

\* Store::close flushes; Store::drop flushes and unlinks the log.
CloseLog(t) ==
  /\ pc[t] = "wal" /\ req[t].op \in {"close", "drop"} /\ wl = None
  /\ Return(t)
  /\ path' = IF req[t].op = "drop" THEN None ELSE path
  /\ UNCHANGED <<up, now, mem, locks, tmp, writer, ahead, dirty, faults>>
  /\ disk' = Sweep(Flushed(ahead), Held')

\* Their `?`s: a flush has something to do, and can fail again, where a failed
\* append has left its record in the buffer; drop's unlink comes after it.
CloseFails(t) ==
  /\ pc[t] = "wal" /\ req[t].op \in {"close", "drop"} /\ wl = None
  /\ Return(t)
  /\ UNCHANGED <<up, now, mem, locks, path, tmp, writer, ahead, dirty>>
  /\ \/ "append" \in Faults /\ dirty /\ UNCHANGED <<disk, faults>>
     \/ FaultHappens("file") /\ req[t].op = "drop" /\ disk' = Flushed(ahead)

-----------------------------------------------------------------------------
(* The process around the store.                                            *)

SetEncryptionKey ==
  /\ up
  /\ \E k \in EncKeys : k # ekey /\ ekey' = k
  /\ UNCHANGED <<up, now, cache, seen, silent, locks, files, thread>>

\* A write reads the clock once and acts on that reading under its locks, so
\* time is taken to stand still between its decision and its commit.
Tick ==
  /\ now < MaxTime
  /\ \A t \in Threads : pc[t] # "commit"
  /\ now' = now + 1
  /\ UNCHANGED <<up, mem, locks, files, thread>>

\* Everything in memory is lost; a thread in Wal::append may leave half a
\* record.  Nobody reads what a temporary file left behind holds: it is
\* truncated before its next use.
Crash ==
  /\ up
  /\ up' = FALSE /\ ekey' = None
  /\ cache' = EmptyIndex /\ seen' = [k \in Keys |-> FALSE]
  /\ rd' = {} /\ wr' = None /\ wl' = None
  /\ \/ disk' = Sweep(disk, {path}) /\ UNCHANGED faults
     \/ /\ FaultHappens("tear")
        /\ \E t \in Threads : pc[t] = "commit" \/ (pc[t] = "log" /\ wl = None)
        /\ disk' = Sweep([disk EXCEPT ![writer].torn = TRUE], {path})
  /\ writer' = None /\ ahead' = EmptyIndex /\ dirty' = FALSE /\ silent' = {}
  /\ pc' = [t \in Threads |-> "idle"]
  /\ req' = [t \in Threads |-> None] /\ ent' = [t \in Threads |-> None]
  /\ plan' = [t \in Threads |-> None] /\ todo' = [t \in Threads |-> {}]
  /\ cur' = [t \in Threads |-> None] /\ file' = [t \in Threads |-> None]
  /\ ret' = [t \in Threads |-> NoAnswer]
  /\ UNCHANGED <<now, path, tmp>>

\* Store::open replays the log, drops what has expired and appends from then
\* on behind the last byte of the file, whole record or not.
Open ==
  /\ ~up /\ up' = TRUE
  /\ \E i \in IF path = None THEN Unused ELSE {path} :
       /\ path' = i /\ writer' = i
       /\ ahead' = disk[i].img
       /\ cache' = LiveIndex(disk[i].img, now)
       /\ seen' = [k \in Keys |-> cache'[k] # None]
  /\ UNCHANGED <<now, ekey, silent, locks, disk, tmp, dirty, faults, thread>>

-----------------------------------------------------------------------------
Call(t) ==
  \/ LockCache(t) \/ Set(t) \/ Import(t) \/ Delete(t) \/ Clear(t)
  \/ Increment(t) \/ ListPush(t) \/ DeleteFromList(t)
  \/ SetIfAbsent(t) \/ SetIfAbsentReturns(t)
  \/ Commit(t) \/ Unlock(t) \/ Publish(t)
  \/ ReadEntry(t) \/ CheckEntry(t) \/ CollectExpired(t)
  \/ RemoveExpired(t) \/ LogExpiry(t) \/ PublishExpiry(t) \/ ExpiryDone(t)
  \/ OpenTmp(t) \/ WriteTmp(t) \/ RenameTmp(t) \/ Reopen(t) \/ CloseLog(t)

LogFails(t) == CompactFails(t) \/ ReopenFails(t) \/ CloseFails(t)

Next ==
  \/ \E t \in Threads : Begin(t) \/ Call(t) \/ CommitFails(t) \/ LogFails(t)
  \/ SetEncryptionKey \/ Tick \/ Crash \/ Open

Spec == Init /\ [][Next]_vars

\* parking_lot hands a lock to every waiter in the end, so a thread whose next
\* step is enabled again and again takes it.
FairSpec == Spec /\ \A t \in Threads : SF_vars(Call(t))
=============================================================================
