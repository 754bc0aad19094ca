---------------------------- MODULE RodiniaEntry ----------------------------
(***************************************************************************)
(* Entries, deadlines and log records of the rodinia key-value store       *)
(* (rodinia_ffi/src/cache.rs, wal.rs and the value handling of store.rs).  *)
(* A value is abstracted to its kind and a number: the payload's identity  *)
(* for "raw" bytes, the counter for "int", the number of items for "list". *)
(***************************************************************************)
EXTENDS Integers

CONSTANTS
  Keys,      \* database keys
  EncKeys,   \* encryption keys an application may install
  MaxInt,    \* the i64 maximum of the instance: counters saturate here
  MaxLen,    \* bound: the items of a list are counted up to this many
  None,      \* no entry, no lock owner, no file, no encryption key
  Never      \* the deadline of an entry without TTL

Kinds == {"raw", "int", "list"}

Deadlines == Nat \cup {Never}

Entry == [kind : Kinds, n : Int, enc : EncKeys \cup {None}, exp : Deadlines]

ASSUME EntryAssumption ==
  /\ MaxInt \in Nat
  /\ MaxLen \in Nat
  /\ None \notin Keys \cup EncKeys
  /\ None \notin Entry
  /\ Never \notin Int

\* Entry::is_expired: a deadline that has come is over, t <= now.
IsExpired(e, at) == e.exp # Never /\ e.exp <= at

\* What a reader at time `at` may see of a slot of the index.
LiveAt(e, at) == IF e # None /\ ~IsExpired(e, at) THEN e ELSE None

\* Mutant: a negative TTL is added as it is.
DeadlineUnclamped(ttl, at) == IF ttl = Never THEN Never ELSE at + ttl

\* expires_at_from_ttl: no TTL is no deadline, a negative TTL counts as 0.
Deadline(ttl, at) ==
  IF ttl = Never THEN Never ELSE at + (IF ttl < 0 THEN 0 ELSE ttl)

\* i64::saturating_add
Saturate(x) ==
  IF x > MaxInt THEN MaxInt ELSE IF x < -MaxInt - 1 THEN -MaxInt - 1 ELSE x

\* The number of items after a push.
OneMore(len) == IF len < MaxLen THEN len + 1 ELSE MaxLen

(***************************************************************************)
(* An index, and equally the index a log rebuilds: Store::open folds the   *)
(* records of Wal::replay from the left, so a log is modelled by the index *)
(* it rebuilds, and appending a record applies the record to that index.   *)
(***************************************************************************)
Index == [Keys -> Entry \cup {None}]

EmptyIndex == [k \in Keys |-> None]

RecordTypes == {"set", "delete", "clear"}

Apply(index, type, key, ent) ==
  IF type = "clear"
    THEN EmptyIndex
    ELSE [index EXCEPT ![key] = IF type = "set" THEN ent ELSE None]

LiveIndex(index, at) == [k \in Keys |-> LiveAt(index[k], at)]
=============================================================================
