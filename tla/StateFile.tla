------------------------------ MODULE StateFile ------------------------------
(***************************************************************************)
(* FileSystemStateStore's data plane in one type directory: write_state,   *)
(* delete_state and read_state as the system calls their worker threads    *)
(* make, with errors, process deaths and power losses between any two.     *)
(*                                                                         *)
(* A power loss forgets what was not fsynced: the directory falls back to  *)
(* any version of an entry since the last fsync of the directory, the data *)
(* of a file that was not fsynced may be cut short, and a directory whose  *)
(* own entry in the root was never fsynced may be gone.                    *)
(***************************************************************************)
EXTENDS Naturals, Sequences

CONSTANTS
  Client,    \* worker threads, each of a provider process of its own
  StateId,   \* states of the type
  MaxCalls,  \* bound on the writes and deletes ever started
  MaxFaults  \* bound on the process deaths and power losses

ASSUME BoundsAssumption == MaxCalls \in Nat /\ MaxFaults \in Nat
ASSUME StateIdAssumption == StateId # {}

\* The temporary file of the n-th mutating call is inode n; NoFile is "no entry".
Inode == 1..MaxCalls
NoFile == 0

VARIABLES
  typeDir,  \* the type directory: "missing", "volatile" (in the page cache only), "durable"
  history,  \* what each state's directory entry has been, oldest first
  floor,    \* the oldest version of the entry a power loss may bring back
  acked,    \* the latest version a returned write or delete fsynced the directory for
  temps,    \* temporary files in the directory
  data,     \* how much of its payload each file holds
  synced,   \* files whose data was fsynced
  pc,       \* where each client's call is
  local,    \* the state, the inode and the version a client's call works on
  calls,    \* mutating calls started so far
  faults,   \* process deaths and power losses so far
  dirLost   \* a power loss has taken the type directory

disk == <<typeDir, history, floor, temps, data, synced>>
vars == <<disk, acked, pc, local, calls, faults, dirLost>>

Label == {"idle", "mkdir", "mkstemp", "write", "fsync", "replace", "fsyncDir", "unlink", "read"}

NoLocal == [state |-> CHOOSE s \in StateId : TRUE, inode |-> NoFile, version |-> 1]

Init ==
  /\ typeDir \in {"missing", "durable"}
  /\ history = [s \in StateId |-> <<NoFile>>]
  /\ floor = [s \in StateId |-> 1]
  /\ acked = [s \in StateId |-> 1]
  /\ temps = {}
  /\ data = [i \in Inode |-> "empty"]
  /\ synced = {}
  /\ pc = [c \in Client |-> "idle"]
  /\ local = [c \in Client |-> NoLocal]
  /\ calls = 0
  /\ faults = 0
  /\ dirLost = FALSE

Latest(s) == Len(history[s])
Entry(s) == history[s][Latest(s)]

Goto(c, from, to) == pc[c] = from /\ pc' = [pc EXCEPT ![c] = to]

TypeOK ==
  /\ typeDir \in {"missing", "volatile", "durable"}
  /\ history \in [StateId -> Seq(Inode \cup {NoFile})]
  /\ floor \in [StateId -> Nat] /\ acked \in [StateId -> Nat]
  /\ \A s \in StateId : floor[s] \in 1..Latest(s)
  /\ temps \subseteq Inode /\ synced \subseteq Inode
  /\ data \in [Inode -> {"empty", "part", "whole"}]
  /\ pc \in [Client -> Label]
  /\ local \in [Client -> [state : StateId, inode : 0..MaxCalls, version : Nat]]
  /\ calls \in 0..MaxCalls /\ faults \in 0..MaxFaults /\ dirLost \in BOOLEAN

------------------------------------------------------------------------------
\* write_state and delete_state are called; each such call is the n-th mutating one.
CallMutator(c, s, label) ==
  /\ calls < MaxCalls
  /\ calls' = calls + 1
  /\ Goto(c, "idle", label)
  /\ local' = [local EXCEPT ![c] = [state |-> s, inode |-> calls + 1, version |-> 1]]
  /\ UNCHANGED <<disk, acked, faults, dirLost>>

CallWrite(c, s) == CallMutator(c, s, "mkdir")
CallDelete(c, s) == CallMutator(c, s, "unlink")

\* directory.mkdir(parents=True, exist_ok=True); nothing fsyncs the root it is an entry of.
MakeDirectory(c) ==
  /\ Goto(c, "mkdir", "mkstemp")
  /\ typeDir' = IF typeDir = "missing" THEN "volatile" ELSE typeDir
  /\ UNCHANGED <<history, floor, temps, data, synced, acked, local, calls, faults, dirLost>>

MakeTemp(c) ==
  /\ Goto(c, "mkstemp", "write")
  /\ temps' = temps \cup {local[c].inode}
  /\ UNCHANGED <<typeDir, history, floor, data, synced, acked, local, calls, faults, dirLost>>

WriteTemp(c) ==
  /\ Goto(c, "write", "fsync")
  /\ data' = [data EXCEPT ![local[c].inode] = "whole"]
  /\ UNCHANGED <<typeDir, history, floor, temps, synced, acked, local, calls, faults, dirLost>>

SyncTempSkipped(c) ==  \* mutant: no fsync of the temporary file
  /\ Goto(c, "fsync", "replace")
  /\ UNCHANGED <<disk, acked, local, calls, faults, dirLost>>

SyncTemp(c) ==
  /\ Goto(c, "fsync", "replace")
  /\ synced' = synced \cup {local[c].inode}
  /\ UNCHANGED <<typeDir, history, floor, temps, data, acked, local, calls, faults, dirLost>>

\* The entry of the call's state becomes i; the call is to fsync the directory next.
SetEntry(c, from, i) ==
  /\ Goto(c, from, "fsyncDir")
  /\ LET s == local[c].state
     IN  /\ history' = [history EXCEPT ![s] = IF Entry(s) = i THEN @ ELSE Append(@, i)]
         /\ local' = [local EXCEPT ![c].version = Len(history'[s])]

\* os.replace: the name of the state now is the temporary file's inode.
Replace(c) ==
  /\ SetEntry(c, "replace", local[c].inode)
  /\ temps' = temps \ {local[c].inode}
  /\ UNCHANGED <<typeDir, floor, data, synced, acked, calls, faults, dirLost>>

\* delete_state: unlink(missing_ok=True).
Unlink(c) ==
  /\ SetEntry(c, "unlink", NoFile)
  /\ UNCHANGED <<typeDir, floor, temps, data, synced, acked, calls, faults, dirLost>>

\* The call returns, its version of the entry fsynced.
Acknowledge(c) ==
  /\ Goto(c, "fsyncDir", "idle")
  /\ acked' = [acked EXCEPT ![local[c].state] = IF @ < local[c].version
                                                THEN local[c].version ELSE @]
  /\ local' = [local EXCEPT ![c] = NoLocal]

SyncDirectorySkipped(c) ==  \* mutant: no fsync of the directory after the rename
  /\ Acknowledge(c)
  /\ UNCHANGED <<typeDir, history, floor, temps, data, synced, calls, faults, dirLost>>

\* _fsync_directory, when the directory can be opened and fsynced.
SyncDirectory(c) ==
  /\ Acknowledge(c)
  /\ floor' = [s \in StateId |-> Latest(s)]
  /\ UNCHANGED <<typeDir, history, temps, data, synced, calls, faults, dirLost>>

\* os.open or os.fsync raises OSError: it is swallowed, and the call returns as if nothing
\* were amiss.  Nothing has been fsynced for it.
SyncDirectoryFails(c) ==
  /\ Goto(c, "fsyncDir", "idle")
  /\ local' = [local EXCEPT ![c] = NoLocal]
  /\ UNCHANGED <<disk, acked, calls, faults, dirLost>>

\* read_state opens the file, or finds none: it will return what it opened, or None.
OpenForRead(c, s) ==
  /\ Goto(c, "idle", "read")
  /\ local' = [local EXCEPT ![c] = [state |-> s, inode |-> Entry(s), version |-> Latest(s)]]
  /\ UNCHANGED <<disk, acked, calls, faults, dirLost>>

ReadReturn(c) ==
  /\ Goto(c, "read", "idle")
  /\ local' = [local EXCEPT ![c] = NoLocal]
  /\ UNCHANGED <<disk, acked, calls, faults, dirLost>>

\* Before the temporary file exists, and once the unlink failed: nothing to clean up.
FailEarly(c) ==
  /\ \E l \in {"mkdir", "mkstemp", "unlink"} : Goto(c, l, "idle")
  /\ local' = [local EXCEPT ![c] = NoLocal]
  /\ UNCHANGED <<disk, acked, calls, faults, dirLost>>

FailKeepsTemp(c) ==  \* mutant: StateStoreError without removing the temporary file
  /\ \E l \in {"write", "fsync", "replace"} : Goto(c, l, "idle")
  /\ local' = [local EXCEPT ![c] = NoLocal]
  /\ UNCHANGED <<disk, acked, calls, faults, dirLost>>

\* OSError (a full disk, say) in the write, the fsync, the chmod or the replace.
Fail(c) ==
  /\ \E l \in {"write", "fsync", "replace"} : Goto(c, l, "idle")
  /\ temps' = temps \ {local[c].inode}
  /\ local' = [local EXCEPT ![c] = NoLocal]
  /\ UNCHANGED <<typeDir, history, floor, data, synced, acked, calls, faults, dirLost>>

Fault == faults < MaxFaults /\ faults' = faults + 1

\* The process of a client dies.  Whatever it put on the file system stays.
Crash(c) ==
  /\ Fault
  /\ pc[c] # "idle"
  /\ pc' = [pc EXCEPT ![c] = "idle"]
  /\ local' = [local EXCEPT ![c] = NoLocal]
  /\ UNCHANGED <<disk, acked, calls, dirLost>>

\* The host loses power: every process with it, and what was not fsynced may be lost.
Restart ==
  /\ Fault
  /\ pc' = [c \in Client |-> "idle"]
  /\ local' = [c \in Client |-> NoLocal]
  /\ \E cut \in SUBSET {i \in Inode \ synced : data[i] = "whole"} :
       data' = [i \in Inode |-> IF i \in cut THEN "part" ELSE data[i]]
  /\ UNCHANGED <<acked, synced, calls>>

PowerLoss ==
  /\ Restart
  /\ floor' \in [StateId -> 1..MaxCalls + 1]
  /\ \A s \in StateId : floor'[s] \in floor[s]..Latest(s)
  /\ history' = [s \in StateId |-> SubSeq(history[s], 1, floor'[s])]
  /\ temps' \in SUBSET temps
  /\ typeDir' = IF typeDir = "volatile" THEN "durable" ELSE typeDir
  /\ UNCHANGED dirLost

\* The directory itself is gone, its states with it, returned writes or not.
PowerLossOfDirectory ==
  /\ typeDir = "volatile"
  /\ Restart
  /\ typeDir' = "missing"
  /\ history' = [s \in StateId |-> <<NoFile>>]
  /\ floor' = [s \in StateId |-> 1]
  /\ temps' = {}
  /\ dirLost' = TRUE

Next ==
  \/ \E c \in Client :
       \/ \E s \in StateId : CallWrite(c, s) \/ CallDelete(c, s) \/ OpenForRead(c, s)
       \/ MakeDirectory(c) \/ MakeTemp(c) \/ WriteTemp(c) \/ SyncTemp(c) \/ Replace(c)
       \/ Unlink(c) \/ SyncDirectory(c) \/ SyncDirectoryFails(c)
       \/ ReadReturn(c) \/ FailEarly(c) \/ Fail(c) \/ Crash(c)
  \/ PowerLoss \/ PowerLossOfDirectory

Spec == Init /\ [][Next]_vars

------------------------------------------------------------------------------
(***************************************************************************)
(* Properties.                                                             *)
(***************************************************************************)

Whole(i) == i # NoFile => data[i] = "whole"

\* "A reader observes either the whole previous payload or the whole new one": no state's file
\* is ever cut short, under a reader or after any crash or power loss.
ReaderSeesWhole ==
  /\ \A s \in StateId : Whole(Entry(s))
  /\ \A c \in Client : pc[c] = "read" => Whole(local[c].inode)

\* "Durable", with two exceptions the code makes silently: once write_state or delete_state
\* has returned AND its fsync of the directory went through, no power loss brings back an
\* older version of the state, unless it takes the whole type directory.  A call whose fsync of
\* the directory failed returns all the same, and a power loss may undo what it did
\* (SyncDirectoryFails); and nothing fsyncs the root after a type directory is made.
AckedSurvives == ~dirLost => \A s \in StateId : acked[s] <= floor[s]

\* A write that reports StateStoreError has changed nothing a reader can see, and leaves no
\* temporary file behind.
FailureLeavesNothing ==
  [][\A c \in Client :
       pc[c] \in {"write", "fsync", "replace"} /\ pc'[c] = "idle" /\ faults' = faults
       => /\ local[c].inode \notin temps'
          /\ \A s \in StateId : Entry(s)' # local[c].inode]_vars

==============================================================================
