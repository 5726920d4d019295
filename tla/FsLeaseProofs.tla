--------------------------- MODULE FsLeaseProofs ---------------------------
(***************************************************************************)
(* What holds of FsLease for every set of clients, every skew and every    *)
(* ttl: the lease is exclusive, a granted lease stays on record, and the   *)
(* module implements LeaseLock.                                            *)
(***************************************************************************)
EXTENDS FsLease, TLAPS

USE TtlAssumption, BoundsAssumption, NullAssumption

Locking == {"lockWait", "lockRead", "lockWrite", "lockFsync"}
Unlocking == {"unlockWait", "unlockRead", "unlockFsync"}
Pending == {"lockWrite", "lockFsync"}

\* The with-block is entered by the mutex.
InsideMutex ==
  \A c \in Client :
    pc[c] \in {"lockRead", "lockWrite", "lockFsync", "unlockRead", "unlockFsync"} => mutex = c

\* The clock a request acts on has passed on its own host.
NowHasPassed ==
  \A c \in Client : pc[c] \in {"lockWait", "lockRead"} => local[c].now <= clock + skew[c]

\* The record as the call in the middle of rewriting it sees it.
RecordInProgress ==
  \A c \in Client :
    /\ pc[c] = "lockWrite" => file = Empty
    /\ pc[c] = "lockFsync" => file = New(c)

\* A client has at most one lease and asks for another only without one.
HeldIsOwn ==
  \A c \in Client :
    /\ held[c] # NoLease => held[c].holder = c /\ held[c].id \in 1..issued
    /\ pc[c] \in Locking => held[c] = NoLease

\* Lock ids are never shared.
IdsAreUnique ==
  /\ \A c, d \in Client :
       held[c] # NoLease /\ held[d] # NoLease /\ held[c].id = held[d].id => c = d
  /\ \A c \in Client : pc[c] \in Pending =>
       /\ local[c].id \in 1..issued
       /\ \A d \in Client : held[d] # NoLease => held[d].id # local[c].id

\* Nobody relies on the lease an unlock in progress is for, and nobody is about to.
UnlockedIsGivenUp ==
  \A c \in Client : pc[c] \in Unlocking =>
    /\ local[c].id \in 1..issued
    /\ \A d \in Client :
         /\ held[d] # NoLease => held[d].id # local[c].id
         /\ pc[d] \in Pending => local[d].id # local[c].id

IInv ==
  /\ TypeOK
  /\ InsideMutex
  /\ NowHasPassed
  /\ RecordInProgress
  /\ HeldIsOwn
  /\ IdsAreUnique
  /\ UnlockedIsGivenUp
  /\ HolderOnRecord


LEMMA NoLocalIsTyped == NoLocal \in [now : Nat, expires : Nat, id : 0..MaxIssued]
BY DEF NoLocal

LEMMA NewIsLease ==
  ASSUME TypeOK, NEW c \in Client
  PROVE  New(c) \in Lease /\ New(c).holder = c /\ New(c).id = local[c].id
BY DEF New, Lease, TypeOK

\* Every step keeps the invariant: one step of the proof per action, and in it one per part
\* the action can disturb.
LEMMA Step == IInv /\ Next => IInv'
<1> SUFFICES ASSUME IInv, Next PROVE IInv'
  OBVIOUS
<1> USE DEF IInv
<1>1. CASE Tick
  <2> USE <1>1 DEF Tick
  <2>1. TypeOK'
    BY NoLocalIsTyped DEF TypeOK, Label
  <2>2. InsideMutex' /\ NowHasPassed' /\ RecordInProgress' /\ HeldIsOwn' /\ IdsAreUnique' /\
        UnlockedIsGivenUp' /\ HolderOnRecord'
    BY DEF InsideMutex, TypeOK, NowHasPassed, NoLocal, RecordInProgress, New, HeldIsOwn, Lease,
           Locking, Pending, IdsAreUnique, UnlockedIsGivenUp, Unlocking, HolderOnRecord, Live,
           IsExpired, ReadLease
  <2> QED
    BY <2>1, <2>2
<1>2. ASSUME NEW c \in Client, RequestLock(c) PROVE IInv'
  <2> USE <1>2 DEF RequestLock, Goto
  <2>1. TypeOK'
    <3>1. PICK now \in Nat, expires \in Nat :
            local' = [local EXCEPT ![c].now = now, ![c].expires = expires]
      <4> PICK ttl \in Ttl :
            local' = [local EXCEPT ![c].now = clock + skew[c],
                                   ![c].expires = IF ttl > 0 THEN clock + skew[c] + ttl ELSE 0]
        OBVIOUS
      <4> clock + skew[c] \in Nat /\ clock + skew[c] + ttl \in Nat
        BY DEF TypeOK
      <4> QED
        OBVIOUS
    <3> DEFINE typed == [now : Nat, expires : Nat, id : 0..MaxIssued]
               mid == [local[c] EXCEPT !.now = now]
               new == [mid EXCEPT !.expires = expires]
    <3>2. local' = [local EXCEPT ![c] = new]
      BY <3>1 DEF TypeOK
    <3>3. mid \in typed
      BY DEF TypeOK
    <3>4. new \in typed
      BY <3>3
    <3> HIDE DEF new
    <3>5. local' \in [Client -> typed]
      BY <3>2, <3>4 DEF TypeOK
    <3> QED
      BY <3>5 DEF TypeOK, Label
  <2>2. NowHasPassed'
    BY DEF NowHasPassed, TypeOK, NoLocal
  <2>3. HeldIsOwn'
    BY DEF HeldIsOwn, New, TypeOK, Lease, Locking, Pending, NoLocal
  <2>4. InsideMutex' /\ RecordInProgress' /\ IdsAreUnique' /\ UnlockedIsGivenUp' /\
        HolderOnRecord'
    BY DEF InsideMutex, TypeOK, RecordInProgress, New, NoLocal, IdsAreUnique, HeldIsOwn, Lease,
           Pending, Locking, UnlockedIsGivenUp, Unlocking, HolderOnRecord, NowHasPassed, Live,
           IsExpired, ReadLease
  <2> QED
    BY <2>1, <2>2, <2>3, <2>4
<1>3. ASSUME NEW c \in Client, EnterMutex(c) PROVE IInv'
  <2> USE <1>3 DEF EnterMutex, Goto
  <2>1. TypeOK'
    BY NoLocalIsTyped DEF TypeOK, Label
  <2>2. InsideMutex'
    BY DEF InsideMutex, TypeOK
  <2>3. NowHasPassed'
    BY DEF NowHasPassed, TypeOK, NoLocal
  <2>4. RecordInProgress' /\ HeldIsOwn' /\ IdsAreUnique' /\ UnlockedIsGivenUp' /\
        HolderOnRecord'
    BY DEF RecordInProgress, InsideMutex, New, TypeOK, NoLocal, HeldIsOwn, Lease, Locking,
           Pending, IdsAreUnique, UnlockedIsGivenUp, Unlocking, HolderOnRecord, NowHasPassed,
           Live, IsExpired, ReadLease
  <2> QED
    BY <2>1, <2>2, <2>3, <2>4
<1>4. ASSUME NEW c \in Client, MutexTimeout(c) PROVE IInv'
  <2> pc[c] \in {"lockWait", "unlockWait"}
    BY <1>4 DEF MutexTimeout, Return, Goto
  <2> pc' = [pc EXCEPT ![c] = "idle"] /\ local' = [local EXCEPT ![c] = NoLocal]
    BY <1>4 DEF MutexTimeout, Return, Goto
  <2> UNCHANGED <<clock, skew, file, mutex, held, issued>>
    BY <1>4 DEF MutexTimeout
  <2>1. TypeOK'
    BY NoLocalIsTyped DEF TypeOK, Label
  <2>2. InsideMutex' /\ NowHasPassed' /\ RecordInProgress' /\ HeldIsOwn' /\ IdsAreUnique' /\
        UnlockedIsGivenUp' /\ HolderOnRecord'
    BY DEF InsideMutex, TypeOK, NowHasPassed, NoLocal, RecordInProgress, New, HeldIsOwn, Lease,
           Locking, Pending, IdsAreUnique, UnlockedIsGivenUp, Unlocking, HolderOnRecord, Live,
           IsExpired, ReadLease
  <2> QED
    BY <2>1, <2>2
<1>5. ASSUME NEW c \in Client, LockConflict(c) PROVE IInv'
  <2> USE <1>5 DEF LockConflict, Leave, Return, Goto
  <2>1. TypeOK'
    BY NoLocalIsTyped DEF TypeOK, Label
  <2>2. InsideMutex' /\ NowHasPassed' /\ RecordInProgress' /\ HeldIsOwn' /\ IdsAreUnique' /\
        UnlockedIsGivenUp' /\ HolderOnRecord'
    BY DEF InsideMutex, TypeOK, NowHasPassed, NoLocal, RecordInProgress, New, HeldIsOwn, Lease,
           Locking, Pending, IdsAreUnique, UnlockedIsGivenUp, Unlocking, HolderOnRecord, Live,
           IsExpired, ReadLease
  <2> QED
    BY <2>1, <2>2
<1>6. ASSUME NEW c \in Client, LockTruncate(c) PROVE IInv'
  <2> USE <1>6 DEF LockTruncate, Goto, Blocking
  <2>1. TypeOK'
    BY NoLocalIsTyped DEF TypeOK, Label
  <2>2. RecordInProgress'
    BY DEF RecordInProgress, InsideMutex, New, TypeOK, NoLocal
  <2>3. IdsAreUnique'
    BY DEF IdsAreUnique, HeldIsOwn, InsideMutex, New, TypeOK, Lease, Pending, Locking, NoLocal
  <2>4. UnlockedIsGivenUp'
    BY DEF UnlockedIsGivenUp, IdsAreUnique, HeldIsOwn, InsideMutex, New, TypeOK, Lease, Pending,
           Unlocking, NoLocal
  <2>5. HolderOnRecord'
    BY DEF HolderOnRecord, RecordInProgress, NowHasPassed, UnlockedIsGivenUp, Live, IsExpired,
           ReadLease, New, TypeOK, Lease, Unlocking, Pending
  <2>6. InsideMutex' /\ NowHasPassed' /\ HeldIsOwn'
    BY DEF InsideMutex, TypeOK, NowHasPassed, NoLocal, HeldIsOwn, New, Lease, Locking, Pending
  <2> QED
    BY <2>1, <2>2, <2>3, <2>4, <2>5, <2>6
<1>7. ASSUME NEW c \in Client, LockWrite(c) PROVE IInv'
  <2> USE <1>7 DEF LockWrite, Goto
  <2>1. TypeOK'
    BY NoLocalIsTyped, NewIsLease DEF TypeOK, Label
  <2>2. RecordInProgress'
    BY DEF RecordInProgress, InsideMutex, New, TypeOK, NoLocal
  <2>3. HolderOnRecord'
    BY DEF HolderOnRecord, RecordInProgress, NowHasPassed, UnlockedIsGivenUp, Live, IsExpired,
           ReadLease, New, TypeOK, Lease, Unlocking, Pending
  <2>4. InsideMutex' /\ NowHasPassed' /\ HeldIsOwn' /\ IdsAreUnique' /\ UnlockedIsGivenUp'
    BY DEF InsideMutex, TypeOK, NowHasPassed, NoLocal, HeldIsOwn, New, Lease, Locking, Pending,
           IdsAreUnique, UnlockedIsGivenUp, Unlocking
  <2> QED
    BY <2>1, <2>2, <2>3, <2>4
<1>8. ASSUME NEW c \in Client, LockReturn(c) PROVE IInv'
  <2> USE <1>8 DEF LockReturn, Leave, Return, Goto
  <2>1. TypeOK'
    BY NoLocalIsTyped, NewIsLease DEF TypeOK, Label
  <2>2. InsideMutex'
    BY DEF InsideMutex, TypeOK
  <2>3. RecordInProgress'
    BY DEF RecordInProgress, InsideMutex, New, TypeOK, NoLocal
  <2>4. HeldIsOwn'
    BY NewIsLease DEF HeldIsOwn, IdsAreUnique, TypeOK, Locking, Pending
  <2>5. IdsAreUnique'
    BY DEF IdsAreUnique, HeldIsOwn, InsideMutex, New, TypeOK, Lease, Pending, Locking, NoLocal
  <2>6. UnlockedIsGivenUp'
    BY DEF UnlockedIsGivenUp, IdsAreUnique, HeldIsOwn, InsideMutex, New, TypeOK, Lease, Pending,
           Unlocking, NoLocal
  <2>7. HolderOnRecord'
    BY DEF HolderOnRecord, RecordInProgress, NowHasPassed, UnlockedIsGivenUp, Live, IsExpired,
           ReadLease, New, TypeOK, Lease, Unlocking, Pending
  <2>8. NowHasPassed'
    BY DEF NowHasPassed, TypeOK, NoLocal
  <2> QED
    BY <2>1, <2>2, <2>3, <2>4, <2>5, <2>6, <2>7, <2>8
<1>9. ASSUME NEW c \in Client, RequestUnlock(c) PROVE IInv'
  <2> USE <1>9 DEF RequestUnlock, Goto, Known
  <2>1. TypeOK'
    BY NoLocalIsTyped DEF TypeOK, Label
  <2>2. HeldIsOwn'
    BY DEF HeldIsOwn, New, TypeOK, Lease, Locking, Pending, NoLocal
  <2>3. IdsAreUnique'
    BY DEF IdsAreUnique, HeldIsOwn, InsideMutex, New, TypeOK, Lease, Pending, Locking, NoLocal
  <2>4. UnlockedIsGivenUp'
    BY DEF UnlockedIsGivenUp, IdsAreUnique, HeldIsOwn, InsideMutex, New, TypeOK, Lease, Pending,
           Unlocking, NoLocal
  <2>5. HolderOnRecord'
    BY DEF HolderOnRecord, RecordInProgress, NowHasPassed, UnlockedIsGivenUp, Live, IsExpired,
           ReadLease, New, TypeOK, Lease, Unlocking, Pending
  <2>6. InsideMutex' /\ NowHasPassed' /\ RecordInProgress'
    BY DEF InsideMutex, TypeOK, NowHasPassed, NoLocal, RecordInProgress, New
  <2> QED
    BY <2>1, <2>2, <2>3, <2>4, <2>5, <2>6
<1>10. ASSUME NEW c \in Client, UnlockMiss(c) PROVE IInv'
  <2> USE <1>10 DEF UnlockMiss, Leave, Return, Goto
  <2>1. TypeOK'
    BY NoLocalIsTyped DEF TypeOK, Label
  <2>2. InsideMutex' /\ NowHasPassed' /\ RecordInProgress' /\ HeldIsOwn' /\ IdsAreUnique' /\
        UnlockedIsGivenUp' /\ HolderOnRecord'
    BY DEF InsideMutex, TypeOK, NowHasPassed, NoLocal, RecordInProgress, New, HeldIsOwn, Lease,
           Locking, Pending, IdsAreUnique, UnlockedIsGivenUp, Unlocking, HolderOnRecord, Live,
           IsExpired, ReadLease
  <2> QED
    BY <2>1, <2>2
<1>11. ASSUME NEW c \in Client, UnlockTruncate(c) PROVE IInv'
  <2> USE <1>11 DEF UnlockTruncate, Goto, Matches
  <2>1. TypeOK'
    BY NoLocalIsTyped DEF TypeOK, Label
  <2>2. RecordInProgress'
    BY DEF RecordInProgress, InsideMutex, New, TypeOK, NoLocal
  <2>3. HolderOnRecord'
    BY DEF HolderOnRecord, RecordInProgress, NowHasPassed, UnlockedIsGivenUp, Live, IsExpired,
           ReadLease, New, TypeOK, Lease, Unlocking, Pending
  <2>4. InsideMutex' /\ NowHasPassed' /\ HeldIsOwn' /\ IdsAreUnique' /\ UnlockedIsGivenUp'
    BY DEF InsideMutex, TypeOK, NowHasPassed, NoLocal, HeldIsOwn, New, Lease, Locking, Pending,
           IdsAreUnique, UnlockedIsGivenUp, Unlocking
  <2> QED
    BY <2>1, <2>2, <2>3, <2>4
<1>12. ASSUME NEW c \in Client, UnlockReturn(c) PROVE IInv'
  <2> USE <1>12 DEF UnlockReturn, Leave, Return, Goto
  <2>1. TypeOK'
    BY NoLocalIsTyped DEF TypeOK, Label
  <2>2. InsideMutex' /\ NowHasPassed' /\ RecordInProgress' /\ HeldIsOwn' /\ IdsAreUnique' /\
        UnlockedIsGivenUp' /\ HolderOnRecord'
    BY DEF InsideMutex, TypeOK, NowHasPassed, NoLocal, RecordInProgress, New, HeldIsOwn, Lease,
           Locking, Pending, IdsAreUnique, UnlockedIsGivenUp, Unlocking, HolderOnRecord, Live,
           IsExpired, ReadLease
  <2> QED
    BY <2>1, <2>2
<1>13. ASSUME NEW c \in Client, IOError(c) PROVE IInv'
  <2> USE <1>13 DEF IOError, Abandoned, Leave, Return, Goto
  <2>1. TypeOK'
    BY NoLocalIsTyped, NewIsLease DEF TypeOK, Label
  <2>2. InsideMutex'
    BY DEF InsideMutex, TypeOK
  <2>3. RecordInProgress'
    BY DEF RecordInProgress, InsideMutex, New, TypeOK, NoLocal
  <2>4. HolderOnRecord'
    BY DEF HolderOnRecord, RecordInProgress, NowHasPassed, UnlockedIsGivenUp, Live, IsExpired,
           ReadLease, New, TypeOK, Lease, Unlocking, Pending
  <2>5. NowHasPassed' /\ HeldIsOwn' /\ IdsAreUnique' /\ UnlockedIsGivenUp'
    BY DEF NowHasPassed, TypeOK, NoLocal, HeldIsOwn, New, Lease, Locking, Pending, IdsAreUnique,
           InsideMutex, UnlockedIsGivenUp, Unlocking
  <2> QED
    BY <2>1, <2>2, <2>3, <2>4, <2>5
<1>14. ASSUME NEW c \in Client, Crash(c) PROVE IInv'
  <2> USE <1>14 DEF Crash, Abandoned
  <2>1. TypeOK'
    BY NoLocalIsTyped, NewIsLease DEF TypeOK, Label
  <2>2. InsideMutex'
    BY DEF InsideMutex, TypeOK
  <2>3. RecordInProgress'
    BY DEF RecordInProgress, InsideMutex, New, TypeOK, NoLocal
  <2>4. HolderOnRecord'
    BY DEF HolderOnRecord, RecordInProgress, NowHasPassed, UnlockedIsGivenUp, Live, IsExpired,
           ReadLease, New, TypeOK, Lease, Unlocking, Pending
  <2>5. NowHasPassed' /\ HeldIsOwn' /\ IdsAreUnique' /\ UnlockedIsGivenUp'
    BY DEF NowHasPassed, TypeOK, NoLocal, HeldIsOwn, New, Lease, Locking, Pending, IdsAreUnique,
           InsideMutex, UnlockedIsGivenUp, Unlocking
  <2> QED
    BY <2>1, <2>2, <2>3, <2>4, <2>5
<1> QED
  BY <1>1, <1>2, <1>3, <1>4, <1>5, <1>6, <1>7, <1>8, <1>9, <1>10, <1>11, <1>12, <1>13, <1>14
     DEF Next

LEMMA IInvInit == Init => IInv
  BY NoLocalIsTyped
     DEF Init, IInv, TypeOK, Label, InsideMutex, NowHasPassed, RecordInProgress, HeldIsOwn,
         Locking, Unlocking, Pending, IdsAreUnique, UnlockedIsGivenUp, HolderOnRecord, Live

LEMMA IInvUnchanged == IInv /\ UNCHANGED vars => IInv'
  BY DEF IInv, vars, TypeOK, Label, InsideMutex, NowHasPassed, RecordInProgress, HeldIsOwn,
         Locking, Unlocking, Pending, IdsAreUnique, UnlockedIsGivenUp, HolderOnRecord, Live,
         IsExpired, ReadLease, New

\* Two live leases would both be the one on record, which names a single holder.
LEMMA IInvExcludes == IInv => Exclusive
  BY DEF IInv, Exclusive, HolderOnRecord, HeldIsOwn, Live

\* The inductive invariant holds of every execution.
THEOREM Invariant == Spec => []IInv
<1>1. IInv /\ [Next]_vars => IInv'
  BY Step, IInvUnchanged
<1> QED
  BY <1>1, IInvInit, PTL DEF Spec

\* Every variable keeps its type: ids are issued within their bound, and the lock file holds
\* a lease, nothing, or bytes that are no lease.
THEOREM TypeCorrect == Spec => []TypeOK
<1>1. IInv => TypeOK
  BY DEF IInv
<1> QED
  BY <1>1, Invariant, PTL

\* lock_state excludes: whatever the number of clients, the skew of their clocks and the ttl
\* they ask for, no two of them hold a live lease together.
THEOREM Exclusion == Spec => []Exclusive
  BY IInvExcludes, Invariant, PTL

\* A live lease stays on record until its holder gives it up: reclaiming, unlocking with an
\* old id and dying in the middle of a rewrite never remove it.
THEOREM GrantsAreKept == Spec => []HolderOnRecord
<1>1. IInv => HolderOnRecord
  BY DEF IInv
<1> QED
  BY <1>1, Invariant, PTL

------------------------------------------------------------------------------
(***************************************************************************)
(* The refinement.  A lease takes effect when its record is written, not   *)
(* when lock_state returns; a lapsed one ends when its record is           *)
(* truncated; unlock_state takes effect when it truncates.                 *)
(***************************************************************************)
\* Who holds what after a step that changes the call and the lease of one client only.
LEMMA GrantedAfter ==
  ASSUME IInv, NEW c \in Client, NEW h,
         \A d \in Client \ {c} :
           pc'[d] = pc[d] /\ local'[d] = local[d] /\ held'[d] = held[d],
         Granted'[c] = h
  PROVE  Granted' = [Granted EXCEPT ![c] = h]
  BY DEF Granted, New

\* A step that neither writes a record nor takes a lease from anybody is invisible.
LEMMA SameGranted ==
  ASSUME \A c \in Client :
           /\ pc'[c] = "lockFsync" <=> pc[c] = "lockFsync"
           /\ pc[c] = "lockFsync" => local'[c] = local[c]
           /\ held'[c] = held[c]
  PROVE  Granted' = Granted
  BY DEF Granted, New

LEMMA StepRefines == IInv /\ [Next]_vars => [Abstract!Next]_(Abstract!vars)
<1> SUFFICES ASSUME IInv, [Next]_vars
             PROVE  [Abstract!Next]_(Abstract!vars)
  OBVIOUS
<1> USE DEF Abstract!vars
<1>1. CASE Tick
  <2>1. Granted' = Granted /\ ReadLease' = ReadLease
    BY <1>1, SameGranted DEF Tick, ReadLease
  <2> QED
    BY <1>1, <2>1 DEF Tick, Abstract!Next, Abstract!Tick
<1>2. ASSUME NEW c \in Client, LockTruncate(c) PROVE [Abstract!Next]_(Abstract!vars)
  <2>1. Granted' = Granted /\ clock' = clock /\ ReadLease' = NoLease
    BY <1>2, SameGranted DEF LockTruncate, Goto, ReadLease, IInv, TypeOK
  <2>2. CASE ReadLease = NoLease
    BY <2>1, <2>2
  <2>3. CASE ReadLease # NoLease
    <3>1. IsExpired(ReadLease, local[c].now)
      BY <1>2, <2>3 DEF LockTruncate, Blocking
    <3>2. local[c].now \in Nat /\ local[c].now <= clock + MaxSkew
      BY <1>2 DEF LockTruncate, Goto, IInv, TypeOK, NowHasPassed
    <3>3. ReadLease \in Lease
      BY <2>3 DEF ReadLease, IInv, TypeOK
    <3>4. Abstract!MayHaveLapsed(ReadLease)
      BY <3>1, <3>2, <3>3
         DEF Abstract!MayHaveLapsed, Abstract!IsExpired, IsExpired, IInv, TypeOK, Lease
    <3> QED
      BY <2>1, <2>3, <3>4 DEF Abstract!Next, Abstract!Lapse
  <2> QED
    BY <2>2, <2>3
<1>3. ASSUME NEW c \in Client, pc[c] = "lockWrite", pc'[c] \in {"lockFsync", "idle"},
             file' = New(c), mutex = c
      PROVE  Abstract!Record(c)
  <2>1. ReadLease = NoLease
    BY <1>3 DEF IInv, RecordInProgress, ReadLease
  <2>2. New(c) \in Lease /\ New(c).holder = c /\ New(c).id = local[c].id
    BY NewIsLease DEF IInv
  <2>3. ReadLease' = New(c)
    BY <1>3, <2>2 DEF ReadLease
  <2>4. New(c) \in [id : Nat, holder : {c}, expires : Nat]
    BY <2>2 DEF Lease
  <2>5. \A d \in Client : Granted[d] # NoLease => Granted[d].id # local[c].id
    BY <1>3 DEF Granted, IInv, InsideMutex, IdsAreUnique, Pending
  <2> QED
    BY <2>1, <2>2, <2>3, <2>4, <2>5 DEF Abstract!Record
<1>4. ASSUME NEW c \in Client, LockWrite(c) PROVE Abstract!Grant(c)
  <2>1. Abstract!Record(c)
    BY <1>3, <1>4 DEF LockWrite, Goto, IInv, TypeOK, InsideMutex
  <2>2. ReadLease' = New(c) /\ Granted'[c] = New(c)
    BY <1>4, NewIsLease DEF LockWrite, Goto, ReadLease, Granted, New, IInv, TypeOK
  <2>3. Granted' = [Granted EXCEPT ![c] = ReadLease']
    BY <1>4, <2>2, GrantedAfter DEF LockWrite, Goto, IInv, TypeOK
  <2> QED
    BY <1>4, <2>1, <2>3 DEF LockWrite, Abstract!Grant
<1>5. ASSUME NEW c \in Client, LockReturn(c) PROVE UNCHANGED Abstract!vars
  <2>1. Granted[c] = New(c) /\ Granted'[c] = New(c)
    BY <1>5 DEF LockReturn, Leave, Return, Goto, Granted, IInv, TypeOK
  <2>2. Granted' = [Granted EXCEPT ![c] = New(c)]
    BY <1>5, <2>1, GrantedAfter DEF LockReturn, Leave, Return, Goto, IInv, TypeOK
  <2>3. Granted' = Granted
    BY <2>1, <2>2 DEF Granted
  <2> QED
    BY <1>5, <2>3 DEF LockReturn, ReadLease
<1>6. ASSUME NEW c \in Client, RequestUnlock(c) PROVE [Abstract!Next]_(Abstract!vars)
  <2> PICK id \in 1..issued :
        /\ Known(id) /\ Goto(c, "idle", "unlockWait")
        /\ local' = [local EXCEPT ![c].id = id]
        /\ held' = [d \in Client |-> IF held[d] # NoLease /\ held[d].id = id
                                     THEN NoLease ELSE held[d]]
        /\ UNCHANGED <<clock, skew, file, mutex, issued>>
    BY <1>6 DEF RequestUnlock
  <2>1. ReadLease' = ReadLease
    BY DEF ReadLease
  <2>2. CASE \A d \in Client : held[d] # NoLease => held[d].id # id
    <3>1. \A d \in Client : held'[d] = held[d]
      BY <2>2
    <3>2. Granted' = Granted
      BY <3>1, SameGranted DEF Goto, IInv, TypeOK
    <3> QED
      BY <2>1, <3>2
  <2>3. ASSUME NEW d \in Client, held[d] # NoLease, held[d].id = id
        PROVE  Abstract!GiveUp(d)
    <3>1. \A e \in Client \ {d} : held'[e] = held[e]
      BY <2>3 DEF IInv, IdsAreUnique
    <3>2. pc[d] # "lockFsync" /\ pc'[d] # "lockFsync"
      BY <2>3 DEF IInv, HeldIsOwn, Locking, Goto, TypeOK
    <3>3. Granted' = [Granted EXCEPT ![d] = NoLease]
      BY <2>3, <3>1, <3>2 DEF Granted, New, Goto, IInv, TypeOK
    <3> QED
      BY <2>1, <3>3 DEF Abstract!GiveUp
  <2> QED
    BY <2>2, <2>3 DEF Abstract!Next
<1>7. ASSUME NEW c \in Client, UnlockTruncate(c) PROVE Abstract!Release
  <2>1. Granted' = Granted /\ ReadLease' = NoLease
    BY <1>7, SameGranted DEF UnlockTruncate, Goto, ReadLease, IInv, TypeOK
  <2>2. \A d \in Client : Granted[d] # ReadLease
    BY <1>7, NewIsLease
       DEF UnlockTruncate, Goto, Matches, Granted, IInv, UnlockedIsGivenUp, Unlocking, Pending
  <2> QED
    BY <1>7, <2>1, <2>2 DEF UnlockTruncate, Matches, Abstract!Release
<1>8. ASSUME NEW c \in Client, pc'[c] = "idle", held'[c] = NoLease, pc' = [pc EXCEPT ![c] = "idle"],
             pc[c] = "lockWrite" => mutex = c, file' \in Abandoned(c), clock' = clock,
             \A d \in Client \ {c} : local'[d] = local[d] /\ held'[d] = held[d]
      PROVE  [Abstract!Next]_(Abstract!vars)
  <2>1. Granted' = [Granted EXCEPT ![c] = NoLease]
    BY <1>8, GrantedAfter DEF Granted, IInv, TypeOK
  <2>2. CASE pc[c] = "lockWrite"
    <3>1. Granted[c] = NoLease
      BY <2>2 DEF Granted, IInv, HeldIsOwn, Locking
    <3>2. Granted' = Granted
      BY <2>1, <3>1 DEF Granted
    <3>3. ReadLease = NoLease
      BY <2>2 DEF IInv, RecordInProgress, ReadLease
    <3>4. CASE file' = New(c)
      <4>1. Abstract!Record(c)
        BY <1>3, <1>8, <2>2, <3>4
      <4> QED
        BY <1>8, <3>2, <4>1 DEF Abstract!Next, Abstract!GrantLost
    <3>5. CASE file' \in {Empty, Torn}
      BY <1>8, <3>2, <3>3, <3>5 DEF ReadLease
    <3> QED
      BY <1>8, <2>2, <3>4, <3>5 DEF Abandoned
  <2>3. CASE pc[c] # "lockWrite"
    <3>1. ReadLease' = ReadLease
      BY <1>8, <2>3 DEF Abandoned, ReadLease
    <3> QED
      BY <1>8, <2>1, <3>1 DEF Abstract!Next, Abstract!GiveUp
  <2> QED
    BY <2>2, <2>3
<1>9. ASSUME NEW c \in Client, Crash(c) PROVE [Abstract!Next]_(Abstract!vars)
  BY <1>8, <1>9 DEF Crash, IInv, TypeOK, InsideMutex
<1>10. ASSUME NEW c \in Client, IOError(c) PROVE [Abstract!Next]_(Abstract!vars)
  <2>1. CASE pc[c] \in Pending \cup {"lockRead"}
    <3>1. held[c] = NoLease
      BY <2>1 DEF IInv, HeldIsOwn, Locking, Pending
    <3> QED
      BY <1>8, <1>10, <3>1 DEF IOError, Leave, Return, Goto, IInv, TypeOK, InsideMutex
  <2>2. CASE pc[c] \in {"unlockRead", "unlockFsync"}
    <3>1. Granted' = Granted
      BY <1>10, <2>2, SameGranted DEF IOError, Leave, Return, Goto, IInv, TypeOK
    <3>2. ReadLease' = ReadLease /\ clock' = clock
      BY <1>10, <2>2 DEF IOError, Abandoned, ReadLease
    <3> QED
      BY <3>1, <3>2
  <2> QED
    BY <1>10, <2>1, <2>2 DEF IOError, Leave, Return, Goto, Pending
<1>11. ASSUME NEW c \in Client,
              \/ RequestLock(c) \/ EnterMutex(c) \/ MutexTimeout(c) \/ LockConflict(c)
              \/ UnlockMiss(c) \/ UnlockReturn(c)
       PROVE  UNCHANGED Abstract!vars
  <2>1. Granted' = Granted
    BY <1>11, SameGranted
       DEF RequestLock, EnterMutex, MutexTimeout, LockConflict, UnlockMiss, UnlockReturn, Leave,
           Return, Goto, IInv, TypeOK
  <2>2. clock' = clock /\ ReadLease' = ReadLease
    BY <1>11
       DEF RequestLock, EnterMutex, MutexTimeout, LockConflict, UnlockMiss, UnlockReturn, ReadLease
  <2> QED
    BY <2>1, <2>2
<1>12. CASE UNCHANGED vars
  BY <1>12 DEF vars, ReadLease, Granted, New
<1> QED
  BY <1>1, <1>2, <1>4, <1>5, <1>6, <1>7, <1>9, <1>10, <1>11, <1>12 DEF Next, Abstract!Next

\* lock_state and unlock_state of the filesystem backend are atomic: over a file truncated,
\* written and fsynced in place, each takes effect in one step of the abstract lease, or none.
THEOREM Refinement == Spec => ImplementsLease
<1>1. Init => Abstract!Init
  BY DEF Init, Abstract!Init, ReadLease, Granted
<1> QED
  BY <1>1, StepRefines, Invariant, PTL DEF Spec, ImplementsLease, Abstract!Spec

=============================================================================
