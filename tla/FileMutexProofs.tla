--------------------------- MODULE FileMutexProofs ---------------------------
(***************************************************************************)
(* Proofs about FileMutex for any number of processes and threads: its     *)
(* type invariant, its three safety invariants and that it implements the  *)
(* abstract Mutex.                                                         *)
(*                                                                         *)
(* The inductive invariant adds to the properties the two facts they rest  *)
(* on: between taking and releasing the threading.Lock a thread is the one *)
(* its process's Lock names, and it has the file open exactly between      *)
(* os.open and handle.close.                                               *)
(***************************************************************************)
EXTENDS FileMutex, TLAPS

\* Inside the threading.Lock's scope a thread is the one holding it.
InsideHoldsThreadMutex ==
  \A t \in Thread : pc[t] \in Inside => threadMutex[ProcOf[t]] = t

\* A descriptor is open from os.open to handle.close, so none is leaked.
OpenWhileInUse == open = {t \in Thread : pc[t] \in {"poll", "cs", "close"}}

IInv ==
  /\ TypeOK
  /\ InsideHoldsThreadMutex
  /\ OpenWhileInUse
  /\ HolderOwnsRecord
  /\ NoOrphanRecord

------------------------------------------------------------------------------
\* Mutual exclusion follows from the invariant: two threads in the with-block would both
\* own the record lock, so be of one process, whose threading.Lock names a single thread.
LEMMA IInvExcludes == IInv => MutualExclusion
<1> SUFFICES ASSUME IInv, NEW t \in Thread, NEW u \in Thread, pc[t] = "cs", pc[u] = "cs"
             PROVE  t = u
  BY DEF MutualExclusion
<1>1. ProcOf[t] = ProcOf[u]
  BY DEF IInv, HolderOwnsRecord
<1>2. threadMutex[ProcOf[t]] = t /\ threadMutex[ProcOf[u]] = u
  BY DEF IInv, InsideHoldsThreadMutex, Inside
<1> QED
  BY <1>1, <1>2

LEMMA IInvInit == Init => IInv
  BY ProcOfAssumption
     DEF Init, IInv, TypeOK, InsideHoldsThreadMutex, Inside, OpenWhileInUse,
         HolderOwnsRecord, NoOrphanRecord, Label

LEMMA IInvNext == IInv /\ [Next]_vars => IInv'
<1> SUFFICES ASSUME IInv, [Next]_vars PROVE IInv'
  OBVIOUS
<1> USE ProcOfAssumption, NoThreadAssumption, NoProcessAssumption
<1> USE DEF IInv, TypeOK, InsideHoldsThreadMutex, OpenWhileInUse, HolderOwnsRecord,
            NoOrphanRecord, Inside, Label, Goto
<1>1. ASSUME NEW t \in Thread, Call(t) PROVE IInv'
  BY <1>1 DEF Call
<1>2. ASSUME NEW t \in Thread, TakeThreadMutex(t) PROVE IInv'
  <2>1. TypeOK'
    BY <1>2 DEF TakeThreadMutex
  <2>2. InsideHoldsThreadMutex'
    BY <1>2 DEF TakeThreadMutex
  <2>3. OpenWhileInUse' /\ HolderOwnsRecord' /\ NoOrphanRecord'
    BY <1>2 DEF TakeThreadMutex
  <2> QED
    BY <2>1, <2>2, <2>3
<1>3. ASSUME NEW t \in Thread, ThreadMutexTimeout(t) PROVE IInv'
  BY <1>3 DEF ThreadMutexTimeout
<1>4. ASSUME NEW t \in Thread, OpenHandle(t) PROVE IInv'
  BY <1>4 DEF OpenHandle
<1>5. ASSUME NEW t \in Thread, OpenFails(t) PROVE IInv'
  BY <1>5 DEF OpenFails
<1>6. ASSUME NEW t \in Thread, LockRecord(t) PROVE IInv'
  \* A thread of t's process already in the with-block would be t itself.
  <2>1. TypeOK' /\ InsideHoldsThreadMutex' /\ OpenWhileInUse'
    BY <1>6 DEF LockRecord
  <2>2. HolderOwnsRecord'
    <3> SUFFICES ASSUME NEW u \in Thread, pc'[u] = "cs" PROVE recordLock' = ProcOf[u]
      BY DEF HolderOwnsRecord
    <3>1. CASE u = t
      BY <1>6, <3>1 DEF LockRecord
    <3>2. CASE u # t
      BY <1>6, <3>2 DEF LockRecord
    <3> QED
      BY <3>1, <3>2
  <2>3. NoOrphanRecord'
    BY <1>6 DEF LockRecord
  <2> QED
    BY <2>1, <2>2, <2>3
<1>7. ASSUME NEW t \in Thread, LockRecordFails(t) PROVE IInv'
  BY <1>7 DEF LockRecordFails
<1>8. ASSUME NEW t \in Thread, UnlockRecord(t) PROVE IInv'
  <2>1. TypeOK' /\ InsideHoldsThreadMutex' /\ OpenWhileInUse'
    BY <1>8 DEF UnlockRecord, DropRecordLock
  <2>2. \A u \in Thread : pc'[u] # "cs"
    BY <1>8, IInvExcludes DEF UnlockRecord, MutualExclusion
  <2>3. recordLock' = NoProcess
    BY <1>8 DEF UnlockRecord, DropRecordLock
  <2> QED
    BY <2>1, <2>2, <2>3
<1>9. ASSUME NEW t \in Thread, CloseHandle(t) PROVE IInv'
  \* No peer of t's process is in the with-block, because t still holds the threading.Lock.
  <2>1. TypeOK' /\ InsideHoldsThreadMutex' /\ OpenWhileInUse'
    BY <1>9 DEF CloseHandle, DropRecordLock
  <2>2. \A u \in Thread : pc[u] = "cs" => ProcOf[u] # ProcOf[t]
    BY <1>9 DEF CloseHandle
  <2>3. HolderOwnsRecord' /\ NoOrphanRecord'
    BY <1>9, <2>2 DEF CloseHandle, DropRecordLock
  <2> QED
    BY <2>1, <2>3
<1>10. ASSUME NEW t \in Thread, ReleaseThreadMutex(t) PROVE IInv'
  BY <1>10 DEF ReleaseThreadMutex
<1>11. ASSUME NEW p \in Process, Crash(p) PROVE IInv'
  <2>1. TypeOK' /\ InsideHoldsThreadMutex' /\ OpenWhileInUse'
    BY <1>11 DEF Crash, DropRecordLock
  <2>2. HolderOwnsRecord' /\ NoOrphanRecord'
    BY <1>11 DEF Crash, DropRecordLock
  <2> QED
    BY <2>1, <2>2
<1>12. CASE UNCHANGED vars
  BY <1>12 DEF vars
<1> QED
  BY <1>1, <1>2, <1>3, <1>4, <1>5, <1>6, <1>7, <1>8, <1>9, <1>10, <1>11, <1>12
     DEF Next, Step

\* The inductive invariant holds in every reachable state.
LEMMA IInvAlways == Spec => []IInv
  BY IInvInit, IInvNext, PTL DEF Spec

\* Type correctness of the mutex's state, for any processes and threads.
THEOREM TypeCorrect == Spec => []TypeOK
<1>1. IInv => TypeOK
  BY DEF IInv
<1> QED
  BY <1>1, IInvAlways, PTL

\* exclusive_file_mutex excludes: whatever the number of processes and threads, whatever
\* times out, fails or dies, the with-block has at most one occupant.
THEOREM Exclusion == Spec => []MutualExclusion
  BY IInvExcludes, IInvAlways, PTL

\* The occupant of the with-block never loses the record lock under its feet, and the record
\* lock is never left behind.
THEOREM RecordLockTracksHolder == Spec => [](HolderOwnsRecord /\ NoOrphanRecord)
<1>1. IInv => HolderOwnsRecord /\ NoOrphanRecord
  BY DEF IInv
<1> QED
  BY <1>1, IInvAlways, PTL

------------------------------------------------------------------------------
(***************************************************************************)
(* FileMutex implements Mutex, with the thread in the with-block as holder. *)
(***************************************************************************)

\* The refinement mapping names the one occupant, and nobody when there is none.
HolderIsOccupant ==
  /\ \A t \in Thread : pc[t] = "cs" => Holder = t
  /\ (\A t \in Thread : pc[t] # "cs") => Holder = NoThread

LEMMA HolderMaps == IInv => HolderIsOccupant
<1> SUFFICES ASSUME IInv PROVE HolderIsOccupant
  OBVIOUS
<1>1. ASSUME NEW t \in Thread, pc[t] = "cs" PROVE Holder = t
  <2>1. \A u \in Thread : pc[u] = "cs" => u = t
    BY <1>1, IInvExcludes DEF MutualExclusion
  <2>2. (CHOOSE u \in Thread : pc[u] = "cs") \in {u \in Thread : pc[u] = "cs"}
    BY <1>1
  <2> QED
    BY <1>1, <2>1, <2>2 DEF Holder
<1>2. ASSUME \A t \in Thread : pc[t] # "cs" PROVE Holder = NoThread
  BY <1>2 DEF Holder
<1> QED
  BY <1>1, <1>2 DEF HolderIsOccupant

LEMMA HolderMapsNext == IInv' => HolderIsOccupant'
  BY HolderMaps, PTL

\* A step that lets nobody into or out of the with-block is invisible to the callers.
LEMMA SameOccupant ==
  ASSUME IInv, IInv', \A t \in Thread : pc'[t] = "cs" <=> pc[t] = "cs"
  PROVE  Holder' = Holder
<1>1. CASE \E t \in Thread : pc[t] = "cs"
  <2> PICK t \in Thread : pc[t] = "cs"
    BY <1>1
  <2>1. Holder = t
    BY HolderMaps DEF HolderIsOccupant
  <2>2. Holder' = t
    BY HolderMapsNext DEF HolderIsOccupant
  <2> QED
    BY <2>1, <2>2
<1>2. CASE \A t \in Thread : pc[t] # "cs"
  <2>1. Holder = NoThread
    BY <1>2, HolderMaps DEF HolderIsOccupant
  <2>2. Holder' = NoThread
    BY <1>2, HolderMapsNext DEF HolderIsOccupant
  <2> QED
    BY <2>1, <2>2
<1> QED
  BY <1>1, <1>2

\* Every step of the implementation is a step of the abstract mutex or leaves it unchanged.
LEMMA StepRefines == IInv /\ [Next]_vars => [Abstract!Next]_Holder
<1> SUFFICES ASSUME IInv, [Next]_vars PROVE [Abstract!Next]_Holder
  OBVIOUS
<1>0. IInv'
  BY IInvNext
<1>1. ASSUME NEW t \in Thread, LockRecord(t) PROVE Abstract!Acquire(t)
  <2>1. ASSUME NEW u \in Thread, pc[u] = "cs" PROVE FALSE
    <3>1. ProcOf[u] = ProcOf[t]
      BY <1>1, <2>1, ProcOfAssumption, NoProcessAssumption
         DEF LockRecord, IInv, HolderOwnsRecord
    <3>2. t = u
      BY <1>1, <2>1, <3>1 DEF LockRecord, Goto, IInv, InsideHoldsThreadMutex, Inside
    <3> QED
      BY <1>1, <2>1, <3>2 DEF LockRecord, Goto
  <2>2. Holder = NoThread
    BY <2>1, HolderMaps DEF HolderIsOccupant
  <2>3. pc'[t] = "cs"
    BY <1>1 DEF LockRecord, Goto, IInv, TypeOK
  <2>4. Holder' = t
    BY <1>0, <2>3, HolderMapsNext DEF HolderIsOccupant
  <2> QED
    BY <2>2, <2>4 DEF Abstract!Acquire
<1>2. ASSUME NEW t \in Thread, UnlockRecord(t) PROVE Abstract!Release(t)
  <2>1. Holder = t
    BY <1>2, HolderMaps DEF HolderIsOccupant, UnlockRecord, Goto
  <2>2. \A u \in Thread : pc'[u] # "cs"
    BY <1>2, IInvExcludes DEF UnlockRecord, Goto, MutualExclusion, IInv, TypeOK
  <2>3. Holder' = NoThread
    BY <1>0, <2>2, HolderMapsNext DEF HolderIsOccupant
  <2> QED
    BY <2>1, <2>3 DEF Abstract!Release
<1>3. ASSUME NEW p \in Process, Crash(p) PROVE [Abstract!Next]_Holder
  <2>1. CASE \E t \in Thread : pc[t] = "cs" /\ ProcOf[t] = p
    <3> PICK t \in Thread : pc[t] = "cs" /\ ProcOf[t] = p
      BY <2>1
    <3>1. Holder = t
      BY HolderMaps DEF HolderIsOccupant
    <3>2. \A u \in Thread : pc'[u] # "cs"
      BY <1>3, IInvExcludes DEF Crash, MutualExclusion
    <3>3. Holder' = NoThread
      BY <1>0, <3>2, HolderMapsNext DEF HolderIsOccupant
    <3> QED
      BY <3>1, <3>3 DEF Abstract!Next, Abstract!Release
  <2>2. CASE ~ \E t \in Thread : pc[t] = "cs" /\ ProcOf[t] = p
    <3>1. \A t \in Thread : pc'[t] = "cs" <=> pc[t] = "cs"
      BY <1>3, <2>2 DEF Crash
    <3> QED
      BY <1>0, <3>1, SameOccupant
  <2> QED
    BY <2>1, <2>2
<1>4. ASSUME NEW t \in Thread,
             \/ Call(t) \/ TakeThreadMutex(t) \/ ThreadMutexTimeout(t)
             \/ OpenHandle(t) \/ OpenFails(t) \/ LockRecordFails(t)
             \/ CloseHandle(t) \/ ReleaseThreadMutex(t)
      PROVE  Holder' = Holder
  <2>1. \A u \in Thread : pc'[u] = "cs" <=> pc[u] = "cs"
    BY <1>4 DEF IInv, TypeOK, Goto, Call, TakeThreadMutex, ThreadMutexTimeout, OpenHandle,
                OpenFails, LockRecordFails, CloseHandle, ReleaseThreadMutex
  <2> QED
    BY <1>0, <2>1, SameOccupant
<1>5. CASE UNCHANGED vars
  BY <1>5 DEF vars, Holder
<1> QED
  BY <1>1, <1>2, <1>3, <1>4, <1>5 DEF Next, Step, Abstract!Next

\* exclusive_file_mutex implements the abstract mutex its callers rely on: between any two
\* occupants of the with-block it is empty.
THEOREM Refinement == Spec => ImplementsMutex
<1>1. Init => Abstract!Init
  BY DEF Init, Abstract!Init, Holder
<1> QED
  BY <1>1, StepRefines, IInvAlways, PTL DEF Spec, ImplementsMutex, Abstract!Spec

==============================================================================
