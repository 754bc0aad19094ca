--------------------------- MODULE MCRodiniaStore ---------------------------
(***************************************************************************)
(* Instances of RodiniaStore for TLC, and the properties the runs check.   *)
(***************************************************************************)
EXTENDS RodiniaProperties, TLC

Req(op, k, kind, n, ttl) ==
  [op |-> op, key |-> k, kind |-> kind, n |-> n, ttl |-> ttl, enc |-> FALSE]

\* Two threads, no deadlines, no compaction: the calm store of the proofs.
WriteRequests ==
  {Req("set", k, "raw", 1, Never) : k \in Keys}
  \cup {Req("set_if_absent", k, "int", 0, Never) : k \in Keys}
  \cup {Req("increment", k, "int", 1, Never) : k \in Keys}
  \cup {Req(op, k, "list", 0, Never) : op \in {"list_push", "delete_from_list", "delete", "get"}, k \in Keys}
  \cup {Req(op, CHOOSE k \in Keys : TRUE, "raw", 2, Never) : op \in {"clear", "import", "purge", "close", "drop"}}

\* Inodes are interchangeable where no liveness is checked.
InodeSymmetry == Permutations(Inodes)

First == CHOOSE k \in Keys : TRUE

\* One thread that also sets deadlines, encrypts, purges, compacts and drops.
AloneRequests ==
  {Req("set", First, "raw", 1, ttl) : ttl \in {1, -1}}
  \cup {[Req("list_push", First, "list", 1, 1) EXCEPT !.enc = TRUE]}
  \cup {Req(op, First, "list", 1, Never)
          : op \in {"set_if_absent", "list_push", "delete_from_list", "get"}}
  \cup {Req(op, First, "raw", 1, Never)
          : op \in {"delete", "clear", "import", "purge", "compact", "close", "drop"}}

\* Writes that race with the lazy expiry.
ExpiryRequests ==
  {Req("set", k, "raw", 1, ttl) : k \in Keys, ttl \in {Never, 1}}
  \cup {Req("get", k, "raw", 0, Never) : k \in Keys}

\* One call of every way to take the locks, for two threads.
LockRequests ==
  {Req("set", k, "raw", 1, 0) : k \in Keys}
  \cup {Req(op, k, "list", 1, Never)
          : op \in {"set_if_absent", "get", "purge", "compact", "close"}, k \in Keys}
=============================================================================
