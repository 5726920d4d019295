------------------------------ MODULE FileMutex ------------------------------
(***************************************************************************)
(* exclusive_file_mutex on a POSIX host: one lock path, the threads of     *)
(* several provider processes, the in-process threading.Lock taken first   *)
(* and the fcntl record lock taken second.  The kernel's record lock is    *)
(* owned by a process: lockf never separates two threads of one process,   *)
(* closing ANY descriptor of the file drops the process's lock, and the    *)
(* death of the process drops it too.                                      *)
(***************************************************************************)

CONSTANTS
  Process,   \* provider processes sharing the state directory
  Thread,    \* all their worker threads (asyncio.to_thread)
  ProcOf,    \* the process a thread belongs to
  NoThread,  \* "unlocked", for the threading.Lock
  NoProcess  \* "unlocked", for the record lock

ASSUME ProcOfAssumption == ProcOf \in [Thread -> Process]
ASSUME NoThreadAssumption == NoThread \notin Thread
ASSUME NoProcessAssumption == NoProcess \notin Process

VARIABLES
  pc,           \* where each thread is in exclusive_file_mutex
  threadMutex,  \* _THREAD_MUTEXES[path] of each process: the thread holding it
  recordLock,   \* the process owning the kernel's record lock on the path
  open          \* threads that hold an open descriptor of the path

vars == <<pc, threadMutex, recordLock, open>>

\* "enter"  waiting for the threading.Lock     "cs"       in the with-block
\* "open"   holds it, about to open the file   "close"    about to close the handle
\* "poll"   in _acquire_fcntl's loop           "release"  about to release the Lock
Label == {"idle", "enter", "open", "poll", "cs", "close", "release"}

\* The part of exclusive_file_mutex between taking the threading.Lock and releasing it.
Inside == {"open", "poll", "cs", "close", "release"}

TypeOK ==
  /\ pc \in [Thread -> Label]
  /\ threadMutex \in [Process -> Thread \cup {NoThread}]
  /\ recordLock \in Process \cup {NoProcess}
  /\ open \subseteq Thread

Init ==
  /\ pc = [t \in Thread |-> "idle"]
  /\ threadMutex = [p \in Process |-> NoThread]
  /\ recordLock = NoProcess
  /\ open = {}

Goto(t, from, to) == pc[t] = from /\ pc' = [pc EXCEPT ![t] = to]

\* The record lock once process p has unlocked or closed a descriptor of the file.
DropRecordLock(p) == recordLock' = IF recordLock = p THEN NoProcess ELSE recordLock

------------------------------------------------------------------------------
\* A handler asks for the mutex.
Call(t) ==
  /\ Goto(t, "idle", "enter")
  /\ UNCHANGED <<threadMutex, recordLock, open>>

TakeThreadMutexUnchecked(t) ==  \* mutant: no threading.Lock under the record lock
  /\ Goto(t, "enter", "open")
  /\ threadMutex' = [threadMutex EXCEPT ![ProcOf[t]] = t]
  /\ UNCHANGED <<recordLock, open>>

TakeThreadMutex(t) ==
  /\ threadMutex[ProcOf[t]] = NoThread
  /\ Goto(t, "enter", "open")
  /\ threadMutex' = [threadMutex EXCEPT ![ProcOf[t]] = t]
  /\ UNCHANGED <<recordLock, open>>

ThreadMutexNoTimeout(t) == FALSE  \* mutant: acquire() without its timeout

\* thread_mutex.acquire(timeout=...) gives up: FileMutexTimeoutError.
ThreadMutexTimeout(t) ==
  /\ threadMutex[ProcOf[t]] # NoThread
  /\ Goto(t, "enter", "idle")
  /\ UNCHANGED <<threadMutex, recordLock, open>>

OpenHandle(t) ==
  /\ Goto(t, "open", "poll")
  /\ open' = open \cup {t}
  /\ UNCHANGED <<threadMutex, recordLock>>

\* os.open raises: only the outer finally runs.
OpenFails(t) ==
  /\ Goto(t, "open", "release")
  /\ UNCHANGED <<threadMutex, recordLock, open>>

LockRecordOfPeer(t) ==  \* mutant: the record lock is not exclusive between processes
  /\ Goto(t, "poll", "cs")
  /\ recordLock' = ProcOf[t]
  /\ UNCHANGED <<threadMutex, open>>

\* lockf(LOCK_EX | LOCK_NB) succeeds: nobody has the lock, or this process already does.
LockRecord(t) ==
  /\ recordLock \in {NoProcess, ProcOf[t]}
  /\ Goto(t, "poll", "cs")
  /\ recordLock' = ProcOf[t]
  /\ UNCHANGED <<threadMutex, open>>

\* EACCES/EAGAIN up to the deadline, or another errno: acquired stays False.
LockRecordFails(t) ==
  /\ Goto(t, "poll", "close")
  /\ UNCHANGED <<threadMutex, recordLock, open>>

\* The with-block ends, normally or by an exception: _release.  lockf(LOCK_UN) on the handle's
\* open descriptor is taken not to fail, as it does not on a local file system: were it to, the
\* close would be skipped and only the handle's finalisation would give the lock back.
UnlockRecord(t) ==
  /\ Goto(t, "cs", "close")
  /\ DropRecordLock(ProcOf[t])
  /\ UNCHANGED <<threadMutex, open>>

\* handle.close() in the inner finally.
CloseHandle(t) ==
  /\ Goto(t, "close", "release")
  /\ open' = open \ {t}
  /\ DropRecordLock(ProcOf[t])
  /\ UNCHANGED threadMutex

ReleaseThreadMutex(t) ==
  /\ Goto(t, "release", "idle")
  /\ threadMutex' = [threadMutex EXCEPT ![ProcOf[t]] = NoThread]
  /\ UNCHANGED <<recordLock, open>>

\* The process dies at any point; the kernel closes its descriptors, and a process
\* started in its place begins with fresh threading.Locks.
Crash(p) ==
  /\ pc' = [t \in Thread |-> IF ProcOf[t] = p THEN "idle" ELSE pc[t]]
  /\ threadMutex' = [threadMutex EXCEPT ![p] = NoThread]
  /\ open' = {t \in open : ProcOf[t] # p}
  /\ DropRecordLock(p)

------------------------------------------------------------------------------
Step(t) ==
  \/ TakeThreadMutex(t) \/ ThreadMutexTimeout(t)
  \/ OpenHandle(t) \/ OpenFails(t)
  \/ LockRecord(t) \/ LockRecordFails(t)
  \/ UnlockRecord(t) \/ CloseHandle(t) \/ ReleaseThreadMutex(t)

Next ==
  \/ \E t \in Thread : Call(t) \/ Step(t)
  \/ \E p \in Process : Crash(p)

Spec == Init /\ [][Next]_vars

\* A thread that is running keeps running: both waits are bounded by a deadline and the
\* block is a short read and write.  Nothing obliges a process to call, or to survive.
FairSpec == Spec /\ \A t \in Thread : WF_vars(Step(t))

------------------------------------------------------------------------------
(***************************************************************************)
(* Properties.                                                             *)
(***************************************************************************)

\* Two threads are never in the with-block together, whether of one process (whom only the
\* threading.Lock separates) or of two (whom only the record lock does): the module
\* docstring's "a single atomic step instead of a race between concurrent providers".
MutualExclusion ==
  \A t, u \in Thread : pc[t] = "cs" /\ pc[u] = "cs" => t = u

\* A thread in the with-block is still covered by its process's record lock: no peer thread's
\* release or close of another descriptor has dropped it mid-section.
HolderOwnsRecord ==
  \A t \in Thread : pc[t] = "cs" => recordLock = ProcOf[t]

\* The record lock is held only on behalf of a thread in the with-block: neither an error path
\* nor a death leaves it behind for the others to time out on.
NoOrphanRecord ==
  recordLock # NoProcess => \E t \in Thread : pc[t] = "cs" /\ ProcOf[t] = recordLock

\* Every request for the mutex comes to an end: both waits are bounded, so a thread starved by
\* its peers or blocked by another process gets FileMutexTimeoutError instead of hanging.
EveryCallReturns == \A t \in Thread : pc[t] = "enter" ~> pc[t] = "idle"

\* The thread in the with-block, as the abstract mutex sees it.
Holder ==
  IF \E t \in Thread : pc[t] = "cs" THEN CHOOSE t \in Thread : pc[t] = "cs" ELSE NoThread

Abstract == INSTANCE Mutex WITH holder <- Holder

\* The mutex passes from one thread to another only through "nobody": every step is an
\* acquisition, a release or invisible to the callers.
ImplementsMutex == Abstract!Spec

==============================================================================
