---------------------------- MODULE SentinelMutex ----------------------------
(***************************************************************************)
(* exclusive_file_mutex on a host without fcntl (Windows): the record lock *)
(* is replaced by a sentinel file created with O_CREAT | O_EXCL, which     *)
(* outlives a process that dies and is then reclaimed by its age.  One     *)
(* process stands for the one thread its threading.Lock lets through.      *)
(*                                                                         *)
(* Age is granted the meaning _sentinel_is_stale's docstring gives it: a   *)
(* sentinel grows old only when its creator is no longer in the block, so  *)
(* no slow but living holder is ever mistaken for a dead one.              *)
(***************************************************************************)
EXTENDS Naturals

CONSTANTS
  Process,
  NoSentinel,  \* the sentinel file does not exist
  MaxCrash     \* bound on the number of process deaths

VARIABLES
  pc,        \* where each process is in _acquire_sentinel
  sentinel,  \* the file: who created it and whether it is past the staleness age
  crashes    \* process deaths so far

vars == <<pc, sentinel, crashes>>

\* "create"   about to open(O_CREAT | O_EXCL)    "cs"       in the with-block
\* "stat"     it exists: about to judge its age   "discard"  judged stale: about to unlink
Label == {"idle", "create", "stat", "discard", "cs"}

TypeOK ==
  /\ pc \in [Process -> Label]
  /\ sentinel \in [by : Process, aged : BOOLEAN] \cup {NoSentinel}
  /\ crashes \in 0..MaxCrash

Init ==
  /\ pc = [p \in Process |-> "idle"]
  /\ sentinel = NoSentinel
  /\ crashes = 0

Goto(p, from, to) == pc[p] = from /\ pc' = [pc EXCEPT ![p] = to]

Call(p) ==
  /\ Goto(p, "idle", "create")
  /\ UNCHANGED <<sentinel, crashes>>

CreateSentinel(p) ==
  /\ sentinel = NoSentinel
  /\ Goto(p, "create", "cs")
  /\ sentinel' = [by |-> p, aged |-> FALSE]
  /\ UNCHANGED crashes

\* FileExistsError, or the PermissionError of a delete-pending file.
FindSentinel(p) ==
  /\ sentinel # NoSentinel
  /\ Goto(p, "create", "stat")
  /\ UNCHANGED <<sentinel, crashes>>

\* _sentinel_is_stale: past its age, so reclaim it; the unlink is a later step.
JudgeStale(p) ==
  /\ sentinel # NoSentinel /\ sentinel.aged
  /\ Goto(p, "stat", "discard")
  /\ UNCHANGED <<sentinel, crashes>>

\* Young, or gone by the time of the stat: try again, or give up at the deadline.
JudgeHeld(p) ==
  /\ sentinel # NoSentinel => ~sentinel.aged
  /\ Goto(p, "stat", "create") \/ Goto(p, "stat", "idle")
  /\ UNCHANGED <<sentinel, crashes>>

\* _discard_sentinel unlinks whatever file now has the sentinel's name.
Discard(p) ==
  /\ Goto(p, "discard", "create")
  /\ sentinel' = NoSentinel
  /\ UNCHANGED crashes

\* Leaving the block goes through _discard_sentinel too.
Release(p) ==
  /\ Goto(p, "cs", "idle")
  /\ sentinel' = NoSentinel
  /\ UNCHANGED crashes

\* The file's age passes max(timeout, 30 s) after its creator left without removing it.
GrowOld ==
  /\ sentinel # NoSentinel
  /\ ~sentinel.aged /\ pc[sentinel.by] # "cs"
  /\ sentinel' = [sentinel EXCEPT !.aged = TRUE]
  /\ UNCHANGED <<pc, crashes>>

\* A process dies and another is started in its place; the file stays.
Crash(p) ==
  /\ crashes < MaxCrash
  /\ crashes' = crashes + 1
  /\ pc' = [pc EXCEPT ![p] = "idle"]
  /\ UNCHANGED sentinel

Next ==
  \/ \E p \in Process :
       \/ Call(p) \/ CreateSentinel(p) \/ FindSentinel(p) \/ JudgeStale(p)
       \/ JudgeHeld(p) \/ Discard(p) \/ Release(p) \/ Crash(p)
  \/ GrowOld

Spec == Init /\ [][Next]_vars

------------------------------------------------------------------------------
\* Two processes are never in the with-block together: what makes "check the lease, then
\* claim it" a single atomic step.  The code breaks it when two waiters judge the same dead
\* process's sentinel stale and the slower one unlinks the faster one's new sentinel.
MutualExclusion ==
  \A p, q \in Process : pc[p] = "cs" /\ pc[q] = "cs" => p = q

==============================================================================
