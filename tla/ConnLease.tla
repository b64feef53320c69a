------------------------------ MODULE ConnLease ------------------------------
(***************************************************************************)
(* What a gRPC connection pool promises to the request handlers that use   *)
(* it, with no channel, no clock and no goroutine in sight.                *)
(*                                                                         *)
(* A connection is absent (it does not exist), pooled (it exists and the   *)
(* pool, or a goroutine of the pool, owns it) or leased to one request.    *)
(* At most Size connections exist; a leased connection is neither closed   *)
(* nor moved to another request: only its lessee gives it back.            *)
(***************************************************************************)
EXTENDS Integers, FiniteSets

CONSTANTS
  Requests,   \* request handlers
  Clients,    \* connections that may exist
  Size,       \* how many of them may exist at the same time
  absent,     \* state of a connection that does not exist
  pooled      \* state of a connection the pool owns

VARIABLE lease

LeaseTypeOK == lease \in [Clients -> Requests \cup {absent, pooled}]

Existing == {c \in Clients : lease[c] # absent}

HasLease(r) == \E c \in Clients : lease[c] = r

LeaseInit ==
  /\ lease \in [Clients -> {absent, pooled}]
  /\ Cardinality(Existing) <= Size

\* The pool hands a connection it owns to a request that has none.
Grant(r, c) ==
  /\ lease[c] = pooled
  /\ ~HasLease(r)
  /\ lease' = [lease EXCEPT ![c] = r]

\* The pool dials a connection for a request that has none.
Open(r, c) ==
  /\ lease[c] = absent
  /\ Cardinality(Existing) < Size
  /\ ~HasLease(r)
  /\ lease' = [lease EXCEPT ![c] = r]

\* The lessee gives its connection back.
GiveBack(r, c) ==
  /\ lease[c] = r
  /\ lease' = [lease EXCEPT ![c] = pooled]

\* The pool closes a connection, which nobody has on lease.
Retire(c) ==
  /\ lease[c] = pooled
  /\ lease' = [lease EXCEPT ![c] = absent]

LeaseNext ==
  \E c \in Clients :
    \/ Retire(c)
    \/ \E r \in Requests : Grant(r, c) \/ Open(r, c) \/ GiveBack(r, c)

LeaseSpec == LeaseInit /\ [][LeaseNext]_lease
==============================================================================
