------------------------- MODULE RodiniaProperties --------------------------
(***************************************************************************)
(* What the store's calls must keep true, whatever the interleaving.       *)
(***************************************************************************)
EXTENDS RodiniaStore

\* The index a restart at this moment would serve.
Recovered ==
  IF path = None THEN EmptyIndex ELSE LiveIndex(disk[path].img, now)

Quiet == up /\ \A t \in Threads : pc[t] = "idle"

\* wal.rs:16-17: the log is replayed on startup to rebuild the in-memory index.
\* Once every call has returned, a restart would serve exactly the live entries
\* the process serves now.
LogRebuildsIndex ==
  Quiet /\ path # None => Recovered = LiveIndex(cache, now)

\* The log has a name, every append since it was opened or rewritten has reached
\* the disk, and what appends write to is the file of that name: a compaction
\* that cannot reopen the log ends this until another one can.
Backed == path # None /\ ~dirty

\* The same for a store whose appends and files may fail and whose crashes may
\* cut a record, while the log is backed: a compaction repairs what a failed
\* append or reopening (Wal::append, Wal::reopen returning their io error) left
\* behind.
BackedLogRebuildsIndex == Backed => LogRebuildsIndex

\* A thread between its decision and its unlock has the cache to itself, so
\* what it decided on is still there when it commits; no snapshot is being
\* taken meanwhile, and no other thread appends.
Deciding(t) == pc[t] = "wal" /\ req[t].op \notin {"close", "drop"}

Writing(t) == Deciding(t) \/ pc[t] \in {"commit", "unlock"}

Snapshotting(t) == pc[t] \in {"write", "rename"}

WritersExclude ==
  \A t, u \in Threads : t # u => ~(Writing(t) /\ (Writing(u) \/ Snapshotting(u)))

\* A subscriber to "*" that believes in a key finds it in the cache, once the
\* calls have returned: no event is missing for a key that went away, but for
\* those a failed call took along.
NoPhantomKey ==
  Quiet => \A k \in Keys : seen[k] => cache[k] # None \/ k \in silent

\* Every call returns: no two calls wait for each other's lock.
CallsReturn == \A t \in Threads : pc[t] # "idle" ~> pc[t] = "idle"

\* The store implements the durable map: its live entries are the cache's while
\* the process runs and the log's while it is down.
Map == INSTANCE RodiniaKV WITH
  kv <- IF up THEN LiveIndex(cache, now) ELSE Recovered,
  backed <- Backed,
  result <- ret

ImplementsMap == Map!KvSpec
=============================================================================
