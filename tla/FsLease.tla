------------------------------- MODULE FsLease -------------------------------
(***************************************************************************)
(* FileSystemStateStore's lease on one state: lock_state and unlock_state  *)
(* as the steps their worker threads take, over a lock file that is        *)
(* truncated, written and fsynced in place.  The file mutex is the         *)
(* abstract Mutex, which FileMutex implements.  Wall clocks of different   *)
(* hosts differ by at most MaxSkew and do not run backwards.               *)
(***************************************************************************)
EXTENDS Naturals

CONSTANTS
  Client,    \* Terraform operations that lock the state, each in its own worker thread
  NoLease,   \* read_lease's None
  NoClient,  \* nobody is in the mutex
  Empty,     \* the lock file has no bytes
  Torn,      \* the lock file has bytes that do not parse as a lease
  Ttl,       \* values of ttl_seconds; 0 stands for every non-positive one
  MaxSkew,   \* difference between the hosts' wall clocks
  MaxClock,  \* bound on the clock
  MaxIssued  \* bound on the number of lock ids issued

ASSUME TtlAssumption == Ttl \subseteq Nat
ASSUME BoundsAssumption == MaxSkew \in Nat /\ MaxClock \in Nat /\ MaxIssued \in Nat

\* A StateLock: its id, its holder and its absolute expiry (0: none).
Lease == [id : Nat, holder : Client, expires : Nat]

ASSUME NullAssumption ==
  /\ NoLease \notin Lease
  /\ NoClient \notin Client
  /\ Empty \notin Lease /\ Torn \notin Lease

VARIABLES
  clock,   \* the slowest host's wall clock
  skew,    \* how far each client's host is ahead of it
  file,    \* the bytes of the lock file
  mutex,   \* the client inside exclusive_file_mutex
  pc,      \* where each client's call is
  local,   \* the variables of the call in progress
  held,    \* the lease each client was returned and has not given up
  issued   \* lock ids issued so far: uuid4 never repeats one

vars == <<clock, skew, file, mutex, pc, local, held, issued>>

Label == {"idle", "lockWait", "lockRead", "lockWrite", "lockFsync",
          "unlockWait", "unlockRead", "unlockFsync"}

\* now: time.time() as lock_state read it; expires: what the StateLock will say; id: the id it
\* is given, or the lock_id unlock_state was called with.
NoLocal == [now |-> 0, expires |-> 0, id |-> 0]

TypeOK ==
  /\ clock \in 0..MaxClock
  /\ skew \in [Client -> 0..MaxSkew]
  /\ file \in Lease \cup {Empty, Torn}
  /\ mutex \in Client \cup {NoClient}
  /\ pc \in [Client -> Label]
  /\ local \in [Client -> [now : Nat, expires : Nat, id : 0..MaxIssued]]
  /\ held \in [Client -> Lease \cup {NoLease}]
  /\ issued \in 0..MaxIssued

Init ==
  /\ clock = 0
  /\ skew \in [Client -> 0..MaxSkew]
  /\ file = Empty
  /\ mutex = NoClient
  /\ pc = [c \in Client |-> "idle"]
  /\ local = [c \in Client |-> NoLocal]
  /\ held = [c \in Client |-> NoLease]
  /\ issued = 0

\* _read_lease: a lease that does not parse is no lease.
ReadLease == IF file \in {Empty, Torn} THEN NoLease ELSE file

IsExpired(l, t) == l.expires > 0 /\ t >= l.expires

\* What blocks a lock request: an unexpired lease at the time the request read the clock.
Blocking(c) == ReadLease # NoLease /\ ~IsExpired(ReadLease, local[c].now)

\* The StateLock the call writes.
New(c) == [id |-> local[c].id, holder |-> c, expires |-> local[c].expires]

Goto(c, from, to) == pc[c] = from /\ pc' = [pc EXCEPT ![c] = to]

\* The call ends.
Return(c, from) == Goto(c, from, "idle") /\ local' = [local EXCEPT ![c] = NoLocal]

\* The call ends from inside the with-block.
Leave(c, from) == Return(c, from) /\ mutex' = NoClient

------------------------------------------------------------------------------
Tick ==
  /\ clock < MaxClock
  /\ clock' = clock + 1
  /\ UNCHANGED <<skew, file, mutex, pc, local, held, issued>>

\* lock_state: the clock is read before the wait for the mutex.
RequestLock(c) ==
  /\ held[c] = NoLease
  /\ Goto(c, "idle", "lockWait")
  /\ LET now == clock + skew[c]
     IN  \E ttl \in Ttl :
           local' = [local EXCEPT ![c].now = now,
                                  ![c].expires = IF ttl > 0 THEN now + ttl ELSE 0]
  /\ UNCHANGED <<clock, skew, file, mutex, held, issued>>

EnterUnguarded(c) ==  \* mutant: the lock file is read and rewritten outside the mutex
  /\ Goto(c, "lockWait", "lockRead") \/ Goto(c, "unlockWait", "unlockRead")
  /\ mutex' = c
  /\ UNCHANGED <<clock, skew, file, local, held, issued>>

EnterMutex(c) ==
  /\ mutex = NoClient
  /\ Goto(c, "lockWait", "lockRead") \/ Goto(c, "unlockWait", "unlockRead")
  /\ mutex' = c
  /\ UNCHANGED <<clock, skew, file, local, held, issued>>

\* FileMutexTimeoutError (or the file cannot be opened).
MutexTimeout(c) ==
  /\ Return(c, "lockWait") \/ Return(c, "unlockWait")
  /\ UNCHANGED <<clock, skew, file, mutex, held, issued>>

\* StateLockConflictError.
LockConflict(c) ==
  /\ Blocking(c)
  /\ Leave(c, "lockRead")
  /\ UNCHANGED <<clock, skew, file, held, issued>>

\* No lease or an expired one: build the StateLock, and truncate the record.
LockTruncate(c) ==
  /\ ~Blocking(c)
  /\ issued < MaxIssued
  /\ Goto(c, "lockRead", "lockWrite")
  /\ issued' = issued + 1
  /\ local' = [local EXCEPT ![c].id = issued + 1]
  /\ file' = Empty
  /\ UNCHANGED <<clock, skew, mutex, held>>

LockWrite(c) ==
  /\ Goto(c, "lockWrite", "lockFsync")
  /\ file' = New(c)
  /\ UNCHANGED <<clock, skew, mutex, local, held, issued>>

\* The lock is returned to the client.
LockReturn(c) ==
  /\ Leave(c, "lockFsync")
  /\ held' = [held EXCEPT ![c] = New(c)]
  /\ UNCHANGED <<clock, skew, file, issued>>

\* A lock_id becomes known when its lock is returned, or quoted by a conflict.
Known(id) == \A c \in Client : pc[c] \in {"lockWrite", "lockFsync"} => local[c].id # id

\* unlock_state for an id: whoever holds that lease gives it up, its holder by asking or,
\* when the lock is broken by hand, on the holder's behalf.
RequestUnlock(c) ==
  \E id \in 1..issued :
    /\ Known(id)
    /\ Goto(c, "idle", "unlockWait")
    /\ local' = [local EXCEPT ![c].id = id]
    /\ held' = [d \in Client |-> IF held[d] # NoLease /\ held[d].id = id
                                 THEN NoLease ELSE held[d]]
    /\ UNCHANGED <<clock, skew, file, mutex, issued>>

Matches(c) == ReadLease # NoLease /\ ReadLease.id = local[c].id

\* Returns False: nothing is locked under this id.
UnlockMiss(c) ==
  /\ ~Matches(c)
  /\ Leave(c, "unlockRead")
  /\ UNCHANGED <<clock, skew, file, held, issued>>

UnlockTruncate(c) ==
  /\ Matches(c)
  /\ Goto(c, "unlockRead", "unlockFsync")
  /\ file' = Empty
  /\ UNCHANGED <<clock, skew, mutex, local, held, issued>>

UnlockReturn(c) ==
  /\ Leave(c, "unlockFsync")
  /\ UNCHANGED <<clock, skew, file, held, issued>>

\* What the lock file may hold if the call of c goes no further: a write cut short leaves
\* none, some or all of the record.
Abandoned(c) == IF pc[c] = "lockWrite" THEN {Empty, Torn, New(c)} ELSE {file}

\* A read, write, truncate or fsync raises; the exception leaves the with-block.
IOError(c) ==
  /\ \E l \in {"lockRead", "lockWrite", "lockFsync", "unlockRead", "unlockFsync"} : Leave(c, l)
  /\ file' \in Abandoned(c)
  /\ UNCHANGED <<clock, skew, held, issued>>

\* The client's process dies: the kernel frees the mutex, the record stays.
Crash(c) ==
  /\ pc' = [pc EXCEPT ![c] = "idle"]
  /\ mutex' = IF mutex = c THEN NoClient ELSE mutex
  /\ file' \in Abandoned(c)
  /\ local' = [local EXCEPT ![c] = NoLocal]
  /\ held' = [held EXCEPT ![c] = NoLease]
  /\ UNCHANGED <<clock, skew, issued>>

Next ==
  \/ Tick
  \/ \E c \in Client :
       \/ RequestLock(c) \/ EnterMutex(c) \/ MutexTimeout(c) \/ LockConflict(c)
       \/ LockTruncate(c) \/ LockWrite(c) \/ LockReturn(c)
       \/ RequestUnlock(c) \/ UnlockMiss(c) \/ UnlockTruncate(c) \/ UnlockReturn(c)
       \/ IOError(c) \/ Crash(c)

Spec == Init /\ [][Next]_vars

------------------------------------------------------------------------------
(***************************************************************************)
(* Properties.                                                             *)
(***************************************************************************)

\* Live on every host's clock.
Live(l) == l # NoLease /\ ~IsExpired(l, clock + MaxSkew)

\* Two clients never both hold a live lease: "check whether it is locked, then claim it" is
\* atomic although the clock is read first, the file is rewritten in place and calls fail.
Exclusive ==
  \A c, d \in Client : Live(held[c]) /\ Live(held[d]) => c = d

\* A live lease that was granted stays on record until its holder gives it up: no crash in
\* the middle of a rewrite, no stale unlock and no reclaim loses it.
HolderOnRecord ==
  \A c \in Client : Live(held[c]) => ReadLease = held[c]

\* The lease of a client, counted from the moment the record is written.
Granted == [c \in Client |-> IF pc[c] = "lockFsync" THEN New(c) ELSE held[c]]

Abstract == INSTANCE LeaseLock WITH lease <- ReadLease, held <- Granted

\* lock_state and unlock_state are atomic: each call takes effect in one step of the abstract
\* lease, or none.
ImplementsLease == Abstract!Spec

==============================================================================
