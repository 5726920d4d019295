-------------------------------- MODULE Mutex --------------------------------
(***************************************************************************)
(* What exclusive_file_mutex promises its callers: at any moment at most   *)
(* one thread, of any process, is inside the critical section, and it is   *)
(* entered only when empty.  How that is achieved (a threading.Lock, a     *)
(* kernel record lock, timeouts, process deaths) is FileMutex's business.  *)
(***************************************************************************)

CONSTANTS
  Thread,   \* threads of all the provider processes that use the path
  NoThread  \* "nobody"

VARIABLE holder  \* the thread inside the critical section

TypeOK == holder \in Thread \cup {NoThread}

Init == holder = NoThread

Acquire(t) == holder = NoThread /\ holder' = t

\* By leaving the block, or by the death of the thread's process.
Release(t) == holder = t /\ holder' = NoThread

Next == \E t \in Thread : Acquire(t) \/ Release(t)

Spec == Init /\ [][Next]_holder

==============================================================================
