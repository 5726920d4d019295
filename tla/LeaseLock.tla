------------------------------ MODULE LeaseLock ------------------------------
(***************************************************************************)
(* What a state store's lock_state and unlock_state promise about one      *)
(* state: a lease is granted only where there is none or the last one has  *)
(* lapsed, it stays on record until it lapses or is given up, and each of  *)
(* these is a single step.  InMemoryStateStore is this module under its    *)
(* mutex; FsLease shows that the filesystem backend implements it.         *)
(***************************************************************************)
EXTENDS Naturals

CONSTANTS
  Client,   \* Terraform operations that lock the state, each through some provider
  NoLease,  \* no record
  MaxSkew   \* how far apart the wall clocks of the clients' hosts may be

VARIABLES
  clock,    \* the slowest host's wall clock; another reads at most clock + MaxSkew
  lease,    \* the lease on record
  held      \* the lease each client has been granted and has not given up

vars == <<clock, lease, held>>

\* StateLock.is_expired; expires_at <= 0 asks for a lock that is only released explicitly.
IsExpired(l, now) == l.expires > 0 /\ now >= l.expires

\* Lapsed by the clock of some host.
MayHaveLapsed(l) == IsExpired(l, clock + MaxSkew)

Init ==
  /\ clock \in Nat
  /\ lease = NoLease
  /\ held = [c \in Client |-> NoLease]

Tick == clock' = clock + 1 /\ UNCHANGED <<lease, held>>

\* lock_state: nothing on record, or a lapsed lease, is replaced by a lease with a fresh id.
Record(c) ==
  /\ lease # NoLease => MayHaveLapsed(lease)
  /\ lease' \in [id : Nat, holder : {c}, expires : Nat]
  /\ \A d \in Client : held[d] # NoLease => held[d].id # lease'.id

Grant(c) ==
  /\ Record(c)
  /\ held' = [held EXCEPT ![c] = lease']
  /\ UNCHANGED clock

\* A lease goes on record and its client never learns of it: the call failed after the write.
GrantLost(c) ==
  /\ Record(c)
  /\ UNCHANGED <<clock, held>>

\* A lapsed lease may vanish without a new one: its reclaimer failed half-way.
Lapse ==
  /\ lease # NoLease /\ MayHaveLapsed(lease)
  /\ lease' = NoLease
  /\ UNCHANGED <<clock, held>>

\* A client stops relying on its lease: it asks for the unlock, somebody breaks the lock by
\* its id on the client's behalf, or its process dies.  The record stays.
GiveUp(c) ==
  /\ held' = [held EXCEPT ![c] = NoLease]
  /\ UNCHANGED <<clock, lease>>

\* unlock_state takes off the record a lease nobody relies on.
Release ==
  /\ lease # NoLease
  /\ \A c \in Client : held[c] # lease
  /\ lease' = NoLease
  /\ UNCHANGED <<clock, held>>

Next ==
  \/ Tick \/ Lapse \/ Release
  \/ \E c \in Client : Grant(c) \/ GrantLost(c) \/ GiveUp(c)

Spec == Init /\ [][Next]_vars

==============================================================================
