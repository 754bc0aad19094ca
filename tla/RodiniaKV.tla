----------------------------- MODULE RodiniaKV ------------------------------
(***************************************************************************)
(* What the rodinia store promises (the API table of                       *)
(* rodinia_flutter/README.md, the comments of lib/rodinia_store.dart and   *)
(* of wal.rs): one durable map from keys to live entries.  Every write     *)
(* takes effect at once or not at all, counters and lists build on the     *)
(* value they find, an entry leaves the map when its deadline comes, and a *)
(* crash changes nothing as long as the log holds the map.  What reads     *)
(* answer is left out, and a call may always decline.                      *)
(***************************************************************************)
EXTENDS RodiniaEntry

CONSTANTS Threads, Requests

VARIABLES
  kv,       \* the live entries
  now,      \* the clock
  backed,   \* the log holds the map: it has its name, and every append reached it
  result    \* thread -> what the write it is in will answer

kvVars == <<kv, now, backed, result>>

Init ==
  /\ kv = EmptyIndex /\ now = 0 /\ backed \in BOOLEAN
  /\ result = [t \in Threads |-> [st |-> "none", n |-> 0]]

Answer(t, st, n) == result' = [result EXCEPT ![t] = [st |-> st, n |-> n]]

\* Reading the clock may precede the write: the deadline counts from `at`.
Stored(r, kind, n, exp) ==
  {LiveAt([kind |-> kind, n |-> n, enc |-> c, exp |-> exp], now)
     : c \in IF r.enc THEN EncKeys ELSE {None}}

Fresh(r) == UNION {Stored(r, r.kind, r.n, Deadline(r.ttl, at)) : at \in 0..now}

Becomes(k, entries) == \E e \in entries : kv' = [kv EXCEPT ![k] = e]

Put(t, r) ==
  /\ r.op = "set" /\ Becomes(r.key, Fresh(r)) /\ Answer(t, "ok", 0)
  /\ UNCHANGED now

\* An import is not atomic: its keys are written one by one.
PutOneOf(t, r) ==
  /\ r.op = "import" /\ \E k \in Keys : Becomes(k, Fresh(r))
  /\ result' = result \/ Answer(t, "ok", 0)
  /\ UNCHANGED now

PutIfAbsent(t, r) ==
  /\ r.op = "set_if_absent"
  /\ IF kv[r.key] = None
       THEN Becomes(r.key, Fresh(r)) /\ Answer(t, "ok", 1)
       ELSE kv' = kv /\ Answer(t, "no", 0)
  /\ UNCHANGED now

Add(t, r) ==
  LET old == kv[r.key]
      sum == Saturate((IF old = None THEN 0 ELSE old.n) + r.n)
  IN /\ r.op = "increment"
     /\ old # None => old.kind = "int" /\ old.enc = None
     /\ kv' = [kv EXCEPT ![r.key] =
                 LiveAt([kind |-> "int", n |-> sum, enc |-> None,
                         exp |-> Deadline(r.ttl, now)], now)]
     /\ Answer(t, "ok", sum)
     /\ UNCHANGED now

Kept(r) ==
  IF r.ttl # Never THEN Deadline(r.ttl, now)
  ELSE IF kv[r.key] = None THEN Never ELSE kv[r.key].exp

Push(t, r) ==
  LET old == kv[r.key]
      len == OneMore(IF old = None THEN 0 ELSE old.n)
  IN /\ r.op = "list_push"
     /\ old # None => old.kind = "list"
     /\ Becomes(r.key, Stored(r, "list", len, Kept(r)))
     /\ Answer(t, "ok", len)
     /\ UNCHANGED now

Pull(t, r) ==
  LET old == kv[r.key]
  IN /\ r.op = "delete_from_list"
     /\ old # None /\ old.kind = "list"
     /\ \E left \in 0..(old.n - 1) :
          IF left = 0 THEN kv' = [kv EXCEPT ![r.key] = None]
          ELSE Becomes(r.key, Stored(r, "list", left, Kept(r)))
     /\ Answer(t, "ok", 1)
     /\ UNCHANGED now

\* A key whose deadline has come may still be reported as removed, and a call
\* that fails to log the removal of a key has removed it all the same.
Remove(t, r) ==
  /\ \/ r.op = "delete" /\ Answer(t, "ok", 1)
     \/ r.op \in {"delete", "delete_from_list"} /\ Answer(t, "err", 0) /\ ~backed'
  /\ kv' = [kv EXCEPT ![r.key] = None]
  /\ UNCHANGED now

RemoveAll(t, r) ==
  /\ r.op = "clear" /\ kv' = EmptyIndex /\ Answer(t, "ok", 0)
  /\ UNCHANGED now

\* Nothing to do ("no"), or a call that fails ("err").
Decline(t) ==
  /\ Answer(t, "no", 0) \/ Answer(t, "err", 0)
  /\ UNCHANGED <<kv, now>>

\* A call returns its answer.
Deliver(t) ==
  /\ result' = [result EXCEPT ![t] = [st |-> "none", n |-> 0]]
  /\ UNCHANGED <<kv, now>>

Expire == now' = now + 1 /\ kv' = LiveIndex(kv, now') /\ UNCHANGED <<backed, result>>

\* The process ends, and with it the calls in progress; the map survives in
\* the log.
Restart ==
  /\ backed => kv' = kv
  /\ result' = [t \in Threads |-> [st |-> "none", n |-> 0]]
  /\ UNCHANGED now

KvNext ==
  \/ \E t \in Threads : Decline(t) \/ Deliver(t) \/ \E r \in Requests :
       \/ Put(t, r) \/ PutOneOf(t, r) \/ PutIfAbsent(t, r) \/ Add(t, r)
       \/ Push(t, r) \/ Pull(t, r) \/ Remove(t, r) \/ RemoveAll(t, r)
  \/ Expire \/ Restart
  \/ UNCHANGED <<kv, now, result>>

KvSpec == Init /\ [][KvNext]_kvVars
=============================================================================
