---------------------------- MODULE StateFileProofs ----------------------------
(***************************************************************************)
(* Proofs about StateFile for any number of clients, states, calls and     *)
(* faults: its type invariant, ReaderSeesWhole, AckedSurvives and          *)
(* FailureLeavesNothing.                                                   *)
(*                                                                         *)
(* The inductive invariant speaks of every version a directory entry has   *)
(* had since its last fsync, not of the newest only, because a power loss  *)
(* may bring back any of them; and it says of a call whose temporary file  *)
(* is not yet renamed that nobody else knows the file.                     *)
(***************************************************************************)
EXTENDS StateFile, SequenceTheorems, TLAPS

\* A write whose temporary file has not been renamed over the target.
BeforeReplace == {"mkdir", "mkstemp", "write", "fsync", "replace"}

\* An entry of the directory names inode i, or may name it again after a power loss.
IsVisible(i) == \E s \in StateId : \E k \in 1..Latest(s) : history[s][k] = i

\* The inode is written whole, and on the disk.
OnDisk(i) == i \in synced /\ data[i] = "whole"

\* The temporary file of a write belongs to that write alone until it is renamed.
OwnTemp ==
  \A c \in Client : pc[c] \in BeforeReplace =>
    /\ local[c].inode \in 1..calls
    /\ ~IsVisible(local[c].inode)
    /\ \A d \in Client : pc[d] \in BeforeReplace /\ local[d].inode = local[c].inode => d = c

\* Write, fsync, rename: in this order.
WrittenInOrder ==
  \A c \in Client :
    /\ pc[c] = "fsync" => data[local[c].inode] = "whole"
    /\ pc[c] = "replace" => OnDisk(local[c].inode)

VisibleIsOnDisk == \A i \in Inode : IsVisible(i) => i <= calls /\ OnDisk(i)

ReadersFileIsOnDisk ==
  \A c \in Client : pc[c] = "read" => local[c].inode = NoFile \/ OnDisk(local[c].inode)

\* A call about to vouch for its version speaks of one the entry really had.
VersionIsSeen ==
  \A c \in Client : pc[c] = "fsyncDir" => local[c].version \in 1..Latest(local[c].state)

IInv ==
  /\ TypeOK
  /\ OwnTemp
  /\ WrittenInOrder
  /\ VisibleIsOnDisk
  /\ ReadersFileIsOnDisk
  /\ VersionIsSeen
  /\ AckedSurvives

------------------------------------------------------------------------------
LEMMA InodeType == Inode \subseteq 0..MaxCalls /\ NoFile \notin Inode
  BY BoundsAssumption DEF Inode, NoFile

\* Lengths and entries of a history have the types one expects.
LEMMA HistoryType ==
  ASSUME TypeOK, NEW s \in StateId
  PROVE  /\ Latest(s) \in Nat \ {0}
         /\ \A k \in 1..Latest(s) : history[s][k] \in Inode \cup {NoFile}
         /\ Entry(s) \in Inode \cup {NoFile}
         /\ IsVisible(Entry(s))
<1>1. history[s] \in Seq(Inode \cup {NoFile})
  BY DEF TypeOK
<1>2. Latest(s) \in Nat \ {0}
  BY <1>1, LenProperties DEF TypeOK, Latest
<1>3. \A k \in 1..Latest(s) : history[s][k] \in Inode \cup {NoFile}
  BY <1>1, ElementOfSeq DEF Latest
<1>4. Latest(s) \in 1..Latest(s)
  BY <1>2
<1> QED
  BY <1>2, <1>3, <1>4 DEF Entry, IsVisible

LEMMA NoLocalType == NoLocal \in [state : StateId, inode : 0..MaxCalls, version : Nat]
  BY StateIdAssumption, BoundsAssumption DEF NoLocal, NoFile

\* A reader sees whole payloads because everything visible is on disk.
LEMMA IInvReaderSeesWhole == IInv => ReaderSeesWhole
<1> SUFFICES ASSUME IInv PROVE ReaderSeesWhole
  OBVIOUS
<1>1. ASSUME NEW s \in StateId PROVE Whole(Entry(s))
  BY HistoryType DEF IInv, VisibleIsOnDisk, OnDisk, Whole
<1>2. ASSUME NEW c \in Client, pc[c] = "read" PROVE Whole(local[c].inode)
  BY <1>2 DEF IInv, ReadersFileIsOnDisk, OnDisk, Whole
<1> QED
  BY <1>1, <1>2 DEF ReaderSeesWhole

LEMMA IInvInit == Init => IInv
<1> SUFFICES ASSUME Init PROVE IInv
  OBVIOUS
<1>1. <<NoFile>> \in Seq(Inode \cup {NoFile}) /\ Len(<<NoFile>>) = 1 /\ <<NoFile>>[1] = NoFile
  OBVIOUS
<1>2. TypeOK
  <2>1. dirLost \in BOOLEAN
    BY Zenon DEF Init
  <2>2. history \in [StateId -> Seq(Inode \cup {NoFile})]
    BY <1>1 DEF Init
  <2>3. \A s \in StateId : floor[s] \in 1..Latest(s)
    BY <1>1 DEF Init, Latest
  <2>4. local \in [Client -> [state : StateId, inode : 0..MaxCalls, version : Nat]]
    BY NoLocalType DEF Init
  <2> QED
    BY <2>1, <2>2, <2>3, <2>4, BoundsAssumption DEF Init, TypeOK, Label
<1>3. \A i \in Inode : ~IsVisible(i)
  BY <1>1, InodeType DEF Init, IsVisible, Latest
<1>4. VisibleIsOnDisk
  BY <1>3 DEF VisibleIsOnDisk
<1>5. OwnTemp /\ WrittenInOrder /\ ReadersFileIsOnDisk /\ VersionIsSeen
  BY DEF Init, OwnTemp, BeforeReplace, WrittenInOrder, ReadersFileIsOnDisk, VersionIsSeen
<1>6. AckedSurvives
  BY DEF Init, AckedSurvives
<1> QED
  BY <1>2, <1>4, <1>5, <1>6 DEF IInv

------------------------------------------------------------------------------
\* The calls that begin: the inode of a new mutating call is the next one.
LEMMA CallMutatorPreserves ==
  ASSUME IInv, NEW c \in Client, NEW s \in StateId, NEW l \in {"mkdir", "unlink"},
         CallMutator(c, s, l)
  PROVE  IInv'
<1> USE DEF IInv, CallMutator, Goto, disk
<1>1. TypeOK'
  <2>1. local' \in [Client -> [state : StateId, inode : 0..MaxCalls, version : Nat]]
    BY BoundsAssumption DEF TypeOK
  <2>2. pc' \in [Client -> Label] /\ calls' \in 0..MaxCalls
    BY BoundsAssumption DEF TypeOK, Label
  <2> QED
    BY <2>1, <2>2 DEF TypeOK, Latest
<1>2. \A i : IsVisible(i)' <=> IsVisible(i)
  BY DEF IsVisible, Latest
<1>3. \A i : OnDisk(i)' <=> OnDisk(i)
  BY DEF OnDisk
<1>4. calls \in 0..MaxCalls /\ calls' = calls + 1 /\ calls' \in Inode
  BY BoundsAssumption DEF TypeOK, Inode
<1>5. ~IsVisible(calls')
  BY <1>4, BoundsAssumption DEF VisibleIsOnDisk
<1>6. \A d \in Client : pc[d] \in BeforeReplace => local[d].inode # calls'
  BY <1>4, BoundsAssumption DEF OwnTemp
<1>7. \A d \in Client : d # c => pc'[d] = pc[d] /\ local'[d] = local[d]
  BY DEF TypeOK
<1>8. pc'[c] = l /\ local'[c].inode = calls'
  BY DEF TypeOK
<1>9. OwnTemp'
  <2> SUFFICES ASSUME NEW d \in Client, pc'[d] \in BeforeReplace
               PROVE  /\ local'[d].inode \in 1..calls'
                      /\ ~(IsVisible(local[d].inode)')
                      /\ \A e \in Client : pc'[e] \in BeforeReplace
                           /\ local'[e].inode = local'[d].inode => e = d
    BY DEF OwnTemp
  <2>1. CASE d = c
    BY <1>2, <1>4, <1>5, <1>6, <1>7, <1>8, <2>1
  <2>2. CASE d # c
    <3>1. local[d].inode \in 1..calls /\ ~IsVisible(local[d].inode)
      BY <1>7, <2>2 DEF OwnTemp
    <3>2. \A e \in Client : pc'[e] \in BeforeReplace /\ local'[e].inode = local'[d].inode
                             => e = d
      BY <1>6, <1>7, <1>8, <2>2 DEF OwnTemp
    <3> QED
      BY <1>2, <1>4, <1>7, <2>2, <3>1, <3>2
  <2> QED
    BY <2>1, <2>2
<1>10. WrittenInOrder' /\ ReadersFileIsOnDisk' /\ VersionIsSeen'
  BY <1>3, <1>7, <1>8 DEF WrittenInOrder, ReadersFileIsOnDisk, VersionIsSeen, Latest
<1>11. VisibleIsOnDisk'
  BY <1>2, <1>3, <1>4 DEF VisibleIsOnDisk, Inode
<1>12. AckedSurvives'
  BY DEF AckedSurvives
<1> QED
  BY <1>1, <1>9, <1>10, <1>11, <1>12

\* The steps up to the rename: the entry and the calls stay, nothing on disk is spoiled.
LEMMA WriteStepPreserves ==
  ASSUME IInv, NEW c \in Client,
         MakeDirectory(c) \/ MakeTemp(c) \/ WriteTemp(c) \/ SyncTemp(c)
  PROVE  IInv'
<1> USE DEF IInv
<1>1. /\ UNCHANGED <<history, floor, acked, local, calls, faults, dirLost>>
      /\ pc[c] \in BeforeReplace
      /\ \A d \in Client : pc'[d] # pc[d] => d = c
      /\ pc' \in [Client -> Label] /\ pc'[c] \in BeforeReplace
  BY DEF MakeDirectory, MakeTemp, WriteTemp, SyncTemp, Goto, TypeOK, Label, BeforeReplace
<1>2. local[c].inode \in Inode
  BY <1>1, BoundsAssumption DEF OwnTemp, TypeOK, Inode
<1>3. /\ typeDir' \in {"missing", "volatile", "durable"}
      /\ temps' \subseteq Inode /\ synced' \subseteq Inode
      /\ data' \in [Inode -> {"empty", "part", "whole"}]
  BY <1>2 DEF MakeDirectory, MakeTemp, WriteTemp, SyncTemp, TypeOK
<1>4. TypeOK'
  BY <1>1, <1>3 DEF TypeOK, Latest
<1>5. \A i \in Inode : data[i] = "whole" => data'[i] = "whole"
  BY <1>2 DEF MakeDirectory, MakeTemp, WriteTemp, SyncTemp, TypeOK
<1>6. synced \subseteq synced'
  BY DEF MakeDirectory, MakeTemp, WriteTemp, SyncTemp
<1>7. \A i \in Inode : OnDisk(i) => OnDisk(i)'
  BY <1>5, <1>6 DEF OnDisk
<1>8. \A i : IsVisible(i)' <=> IsVisible(i)
  BY <1>1 DEF IsVisible, Latest
<1>9. OwnTemp'
  BY <1>1, <1>8 DEF OwnTemp
<1>10. WrittenInOrder'
  <2>1. ASSUME NEW d \in Client, d # c, pc[d] \in {"fsync", "replace"}
        PROVE  local[d].inode \in Inode
    BY <2>1, BoundsAssumption DEF OwnTemp, BeforeReplace, TypeOK, Inode
  <2>2. ASSUME NEW d \in Client, d # c
        PROVE  /\ pc'[d] = "fsync" => data'[local'[d].inode] = "whole"
               /\ pc'[d] = "replace" => OnDisk(local[d].inode)'
    BY <1>1, <1>5, <1>7, <2>1, <2>2 DEF WrittenInOrder
  <2>3. pc'[c] = "fsync" => data'[local'[c].inode] = "whole"
    BY <1>1, <1>2 DEF MakeDirectory, MakeTemp, WriteTemp, SyncTemp, Goto, TypeOK
  <2>4. pc'[c] = "replace" => OnDisk(local[c].inode)'
    BY <1>1 DEF MakeDirectory, MakeTemp, WriteTemp, SyncTemp, Goto, TypeOK, WrittenInOrder,
                OnDisk
  <2> QED
    BY <2>2, <2>3, <2>4 DEF WrittenInOrder
<1>11. VisibleIsOnDisk'
  BY <1>1, <1>7, <1>8 DEF VisibleIsOnDisk
<1>12. ReadersFileIsOnDisk'
  <2> SUFFICES ASSUME NEW d \in Client, pc'[d] = "read"
               PROVE  local[d].inode = NoFile \/ OnDisk(local[d].inode)'
    BY <1>1 DEF ReadersFileIsOnDisk
  <2>1. pc[d] = "read"
    BY <1>1 DEF BeforeReplace
  <2>2. local[d].inode \in Inode \cup {NoFile}
    BY BoundsAssumption DEF TypeOK, Inode, NoFile
  <2> QED
    BY <1>1, <1>7, <2>1, <2>2 DEF ReadersFileIsOnDisk
<1>13. VersionIsSeen' /\ AckedSurvives'
  BY <1>1 DEF VersionIsSeen, AckedSurvives, BeforeReplace, Latest
<1> QED
  BY <1>4, <1>9, <1>10, <1>11, <1>12, <1>13

------------------------------------------------------------------------------
\* A changed entry: the old versions are kept, the new one is i.
LEMMA SetEntryEffect ==
  ASSUME TypeOK, NEW c \in Client, NEW from, NEW i \in Inode \cup {NoFile},
         SetEntry(c, from, i)
  PROVE  /\ history' \in [StateId -> Seq(Inode \cup {NoFile})]
         /\ \A s \in StateId : Latest(s)' \in Nat /\ Latest(s) <= Latest(s)'
         /\ \A j : IsVisible(j)' => IsVisible(j) \/ j = i
         /\ local' = [local EXCEPT ![c].version = Latest(local[c].state)']
<1> DEFINE t == local[c].state
<1>1. t \in StateId
  BY DEF TypeOK
<1>2. history[t] \in Seq(Inode \cup {NoFile})
  BY <1>1 DEF TypeOK
<1>3. history' = [history EXCEPT ![t] = IF Entry(t) = i THEN history[t]
                                        ELSE Append(history[t], i)]
  BY <1>1 DEF SetEntry, TypeOK
<1>4. /\ history'[t] \in Seq(Inode \cup {NoFile})
      /\ Len(history[t]) <= Len(history'[t])
      /\ \A k \in 1..Len(history'[t]) :
           \/ k \in 1..Len(history[t]) /\ history'[t][k] = history[t][k]
           \/ history'[t][k] = i
  <2>1. CASE Entry(t) = i
    BY <1>1, <1>2, <1>3, <2>1, LenProperties DEF TypeOK
  <2>2. CASE Entry(t) # i
    <3>1. history'[t] = Append(history[t], i)
      BY <1>1, <1>3, <2>2 DEF TypeOK
    <3>2. /\ Append(history[t], i) \in Seq(Inode \cup {NoFile})
          /\ Len(Append(history[t], i)) = Len(history[t]) + 1
          /\ \A k \in 1..Len(history[t]) : Append(history[t], i)[k] = history[t][k]
          /\ Append(history[t], i)[Len(history[t]) + 1] = i
      BY <1>2, AppendProperties
    <3>3. Len(history[t]) \in Nat
      BY <1>2, LenProperties
    <3> QED
      BY <3>1, <3>2, <3>3
  <2> QED
    BY <2>1, <2>2
<1>5. \A s \in StateId : s # t => history'[s] = history[s]
  BY <1>3 DEF TypeOK
<1>6. history' \in [StateId -> Seq(Inode \cup {NoFile})]
  BY <1>1, <1>3, <1>4, <1>5 DEF TypeOK
<1>7. \A s \in StateId : Latest(s)' \in Nat /\ Latest(s) <= Latest(s)'
  <2> SUFFICES ASSUME NEW s \in StateId
               PROVE  Len(history'[s]) \in Nat /\ Len(history[s]) <= Len(history'[s])
    BY DEF Latest
  <2>1. history[s] \in Seq(Inode \cup {NoFile}) /\ history'[s] \in Seq(Inode \cup {NoFile})
    BY <1>6 DEF TypeOK
  <2>2. Len(history[s]) \in Nat /\ Len(history'[s]) \in Nat
    BY <2>1, LenProperties
  <2> QED
    BY <1>4, <1>5, <2>2
<1>8. \A j : IsVisible(j)' => IsVisible(j) \/ j = i
  BY <1>4, <1>5 DEF IsVisible, Latest
<1> QED
  BY <1>6, <1>7, <1>8 DEF SetEntry, Latest

\* Renaming or unlinking: what becomes visible is on disk, and nobody's temporary file.
LEMMA SetEntryPreserves ==
  ASSUME IInv, NEW c \in Client, Replace(c) \/ Unlink(c)
  PROVE  IInv'
<1> USE DEF IInv
<1>1. PICK i \in Inode \cup {NoFile} :
        /\ \E from \in {"replace", "unlink"} : SetEntry(c, from, i) /\ Goto(c, from, "fsyncDir")
        /\ i \in Inode => pc[c] = "replace" /\ i = local[c].inode /\ OnDisk(i)
  <2>1. CASE Replace(c)
    <3>1. pc[c] = "replace"
      BY <2>1 DEF Replace, SetEntry, Goto
    <3>2. local[c].inode \in Inode
      BY <3>1, BoundsAssumption DEF OwnTemp, BeforeReplace, TypeOK, Inode
    <3> QED
      BY <2>1, <3>1, <3>2 DEF Replace, SetEntry, WrittenInOrder
  <2>2. CASE Unlink(c)
    BY <2>2, InodeType DEF Unlink, SetEntry
  <2> QED
    BY <2>1, <2>2
<1>2. /\ history' \in [StateId -> Seq(Inode \cup {NoFile})]
      /\ \A s \in StateId : Latest(s)' \in Nat /\ Latest(s) <= Latest(s)'
      /\ \A j : IsVisible(j)' => IsVisible(j) \/ j = i
      /\ local' = [local EXCEPT ![c].version = Latest(local[c].state)']
  BY <1>1, SetEntryEffect
<1>3. /\ pc[c] \in {"replace", "unlink"} /\ pc' = [pc EXCEPT ![c] = "fsyncDir"]
      /\ UNCHANGED <<typeDir, floor, data, synced, acked, calls, faults, dirLost>>
      /\ temps' \subseteq temps
  BY <1>1 DEF Goto, Replace, Unlink
<1>4. /\ \A d \in Client : d # c => local'[d] = local[d] /\ pc'[d] = pc[d]
      /\ local'[c].state = local[c].state /\ local'[c].inode = local[c].inode
      /\ local'[c].version = Latest(local[c].state)'
      /\ pc'[c] = "fsyncDir"
  BY <1>2, <1>3 DEF TypeOK
<1>5. local[c].state \in StateId
  BY DEF TypeOK
<1>6. local' \in [Client -> [state : StateId, inode : 0..MaxCalls, version : Nat]]
  <2>1. local'[c].version \in Nat
    BY <1>2, <1>4, <1>5
  <2> DEFINE v == local'[c].version
  <2>2. local' = [local EXCEPT ![c].version = v]
    BY <1>2, <1>4
  <2>3. v \in Nat
    BY <2>1
  <2>4. local \in [Client -> [state : StateId, inode : 0..MaxCalls, version : Nat]]
    BY DEF TypeOK
  <2> HIDE DEF v
  <2> QED
    BY <2>2, <2>3, <2>4
<1>7. \A s \in StateId : floor'[s] \in 1..Latest(s)'
  <2> SUFFICES ASSUME NEW s \in StateId PROVE floor'[s] \in 1..Latest(s)'
    OBVIOUS
  <2>1. Latest(s) \in Nat
    BY HistoryType
  <2> QED
    BY <1>2, <1>3, <2>1 DEF TypeOK
<1>8. TypeOK'
  BY <1>2, <1>3, <1>6, <1>7 DEF TypeOK, Label
<1>9. OwnTemp'
  <2> SUFFICES ASSUME NEW d \in Client, pc'[d] \in BeforeReplace
               PROVE  /\ local'[d].inode \in 1..calls'
                      /\ ~(IsVisible(local[d].inode)')
                      /\ \A e \in Client : pc'[e] \in BeforeReplace
                           /\ local'[e].inode = local'[d].inode => e = d
    BY DEF OwnTemp
  <2>1. d # c /\ pc[d] \in BeforeReplace /\ local'[d] = local[d]
    BY <1>4 DEF BeforeReplace
  <2>2. local[d].inode # i
    BY <1>1, <1>3, <2>1, InodeType, BoundsAssumption DEF OwnTemp, BeforeReplace, NoFile, TypeOK
  <2>3. \A e \in Client : pc'[e] \in BeforeReplace => e # c /\ pc[e] \in BeforeReplace
    BY <1>4 DEF BeforeReplace
  <2> QED
    BY <1>2, <1>3, <1>4, <2>1, <2>2, <2>3 DEF OwnTemp
<1>10. \A j : OnDisk(j)' <=> OnDisk(j)
  BY <1>3 DEF OnDisk
<1>11. WrittenInOrder'
  BY <1>3, <1>4, <1>10 DEF WrittenInOrder
<1>12. VisibleIsOnDisk'
  <2> SUFFICES ASSUME NEW j \in Inode, IsVisible(j)' PROVE j <= calls' /\ OnDisk(j)'
    BY DEF VisibleIsOnDisk
  <2>1. CASE IsVisible(j)
    BY <1>3, <1>10, <2>1 DEF VisibleIsOnDisk
  <2>2. CASE j = i
    BY <1>1, <1>3, <1>10, <2>2, BoundsAssumption DEF OwnTemp, BeforeReplace, TypeOK, Inode
  <2> QED
    BY <1>2, <2>1, <2>2
<1>13. ReadersFileIsOnDisk'
  BY <1>4, <1>10 DEF ReadersFileIsOnDisk
<1>14. VersionIsSeen'
  <2> SUFFICES ASSUME NEW d \in Client, pc'[d] = "fsyncDir"
               PROVE  local'[d].version \in 1..Latest(local[d].state)'
    BY <1>4 DEF VersionIsSeen
  <2>1. local[d].state \in StateId
    BY DEF TypeOK
  <2>2. Latest(local[d].state) \in Nat \ {0}
    BY <2>1, HistoryType
  <2>3. CASE d = c
    BY <1>2, <1>4, <2>1, <2>2, <2>3
  <2>4. CASE d # c
    <3>1. local[d].version \in 1..Latest(local[d].state)
      BY <1>4, <2>4 DEF VersionIsSeen
    <3> QED
      BY <1>2, <1>4, <2>1, <2>2, <2>4, <3>1
  <2> QED
    BY <2>3, <2>4
<1>15. AckedSurvives'
  BY <1>3 DEF AckedSurvives
<1> QED
  BY <1>8, <1>9, <1>11, <1>12, <1>13, <1>14, <1>15

------------------------------------------------------------------------------
\* A client that goes idle, by returning, failing or dying, owes nothing to the invariant.
LEMMA GoesIdlePreserves ==
  ASSUME IInv, NEW c \in Client,
         pc' = [pc EXCEPT ![c] = "idle"],
         local' = [local EXCEPT ![c] = NoLocal],
         temps' \subseteq temps, faults' \in 0..MaxFaults,
         UNCHANGED <<typeDir, history, data, synced, calls, dirLost>>,
         floor' \in [StateId -> Nat], acked' \in [StateId -> Nat],
         \A s \in StateId : floor'[s] \in 1..Latest(s),
         AckedSurvives'
  PROVE  IInv'
<1> USE DEF IInv
<1>1. \A d \in Client : d # c => pc'[d] = pc[d] /\ local'[d] = local[d]
  BY DEF TypeOK
<1>2. pc'[c] = "idle" /\ pc' \in [Client -> Label]
  BY DEF TypeOK, Label
<1>3. \A i : (IsVisible(i)' <=> IsVisible(i)) /\ (OnDisk(i)' <=> OnDisk(i))
  BY DEF IsVisible, Latest, OnDisk
<1>4. TypeOK'
  BY <1>2, NoLocalType DEF TypeOK, Latest
<1>5. OwnTemp'
  BY <1>1, <1>2, <1>3 DEF OwnTemp, BeforeReplace
<1>6. WrittenInOrder' /\ ReadersFileIsOnDisk'
  BY <1>1, <1>2, <1>3 DEF WrittenInOrder, ReadersFileIsOnDisk
<1>7. VisibleIsOnDisk'
  BY <1>3 DEF VisibleIsOnDisk
<1>8. VersionIsSeen'
  BY <1>1, <1>2 DEF VersionIsSeen, Latest
<1> QED
  BY <1>4, <1>5, <1>6, <1>7, <1>8

LEMMA EndsPreserve ==
  ASSUME IInv, NEW c \in Client,
         SyncDirectoryFails(c) \/ ReadReturn(c) \/ FailEarly(c) \/ Fail(c) \/ Crash(c)
  PROVE  IInv'
<1>1. /\ pc' = [pc EXCEPT ![c] = "idle"]
      /\ local' = [local EXCEPT ![c] = NoLocal]
      /\ temps' \subseteq temps
      /\ UNCHANGED <<typeDir, history, data, synced, calls, dirLost, floor, acked>>
  BY DEF SyncDirectoryFails, ReadReturn, FailEarly, Fail, Crash, Goto, disk
<1>2. faults' \in 0..MaxFaults
  BY BoundsAssumption DEF SyncDirectoryFails, ReadReturn, FailEarly, Fail, Crash, Fault, IInv,
                          TypeOK
<1>3. AckedSurvives'
  BY <1>1 DEF IInv, AckedSurvives
<1> QED
  BY <1>1, <1>2, <1>3, GoesIdlePreserves DEF IInv, TypeOK

\* The fsync of the directory: the version vouched for is no newer than what is now on disk.
LEMMA SyncDirectoryPreserves ==
  ASSUME IInv, NEW c \in Client, SyncDirectory(c)
  PROVE  IInv'
<1> USE DEF IInv
<1> DEFINE t == local[c].state
           v == local[c].version
<1>1. /\ pc' = [pc EXCEPT ![c] = "idle"] /\ pc[c] = "fsyncDir"
      /\ local' = [local EXCEPT ![c] = NoLocal]
      /\ acked' = [acked EXCEPT ![t] = IF acked[t] < v THEN v ELSE acked[t]]
      /\ floor' = [s \in StateId |-> Latest(s)]
      /\ UNCHANGED <<typeDir, history, temps, data, synced, calls, faults, dirLost>>
  BY DEF SyncDirectory, Acknowledge, Goto, TypeOK
<1>2. t \in StateId /\ v \in 1..Latest(t)
  BY <1>1 DEF TypeOK, VersionIsSeen
<1>3. \A s \in StateId : Latest(s) \in Nat \ {0}
  BY HistoryType
<1>4. floor' \in [StateId -> Nat] /\ \A s \in StateId : floor'[s] \in 1..Latest(s)
  BY <1>1, <1>3
<1>5. acked' \in [StateId -> Nat]
  BY <1>1, <1>2, <1>3 DEF TypeOK
<1>6. AckedSurvives'
  <2> SUFFICES ASSUME ~dirLost, NEW s \in StateId PROVE acked'[s] <= floor'[s]
    BY <1>1 DEF AckedSurvives
  <2>1. acked[s] <= floor[s] /\ floor[s] \in 1..Latest(s) /\ acked[s] \in Nat
    BY DEF AckedSurvives, TypeOK
  <2>2. acked'[s] = IF s = t /\ acked[t] < v THEN v ELSE acked[s]
    BY <1>1, <1>2 DEF TypeOK
  <2> QED
    BY <1>1, <1>2, <1>3, <2>1, <2>2
<1>7. temps' \subseteq temps /\ faults' \in 0..MaxFaults
  BY <1>1 DEF TypeOK
<1> QED
  BY <1>1, <1>4, <1>5, <1>6, <1>7, GoesIdlePreserves

\* A reader opens what is visible.
LEMMA OpenForReadPreserves ==
  ASSUME IInv, NEW c \in Client, NEW s \in StateId, OpenForRead(c, s)
  PROVE  IInv'
<1> USE DEF IInv, OpenForRead, Goto, disk
<1>1. Entry(s) \in Inode \cup {NoFile} /\ IsVisible(Entry(s)) /\ Latest(s) \in Nat
  BY HistoryType
<1>2. \A d \in Client : d # c => pc'[d] = pc[d] /\ local'[d] = local[d]
  BY DEF TypeOK
<1>3. pc'[c] = "read" /\ local'[c].inode = Entry(s)
  BY DEF TypeOK
<1>4. \A i : (IsVisible(i)' <=> IsVisible(i)) /\ (OnDisk(i)' <=> OnDisk(i))
  BY DEF IsVisible, Latest, OnDisk
<1>5. TypeOK'
  <2>1. Entry(s) \in 0..MaxCalls
    BY <1>1, BoundsAssumption DEF Inode, NoFile
  <2>2. local' \in [Client -> [state : StateId, inode : 0..MaxCalls, version : Nat]]
    BY <1>1, <2>1 DEF TypeOK
  <2> QED
    BY <2>2 DEF TypeOK, Label, Latest
<1>6. OwnTemp'
  BY <1>2, <1>3, <1>4 DEF OwnTemp, BeforeReplace
<1>7. WrittenInOrder'
  BY <1>2, <1>3, <1>4 DEF WrittenInOrder
<1>8. ReadersFileIsOnDisk'
  BY <1>1, <1>2, <1>3, <1>4 DEF ReadersFileIsOnDisk, VisibleIsOnDisk
<1>9. VisibleIsOnDisk'
  BY <1>4 DEF VisibleIsOnDisk
<1>10. VersionIsSeen' /\ AckedSurvives'
  BY <1>2, <1>3 DEF VersionIsSeen, Latest, AckedSurvives
<1> QED
  BY <1>5, <1>6, <1>7, <1>8, <1>9, <1>10

------------------------------------------------------------------------------
\* A power loss cuts short nothing that is on disk, and stops every call.
LEMMA RestartEffect ==
  ASSUME IInv, Restart
  PROVE  /\ pc' = [c \in Client |-> "idle"] /\ pc' \in [Client -> Label]
         /\ local' \in [Client -> [state : StateId, inode : 0..MaxCalls, version : Nat]]
         /\ data' \in [Inode -> {"empty", "part", "whole"}]
         /\ faults' \in 0..MaxFaults
         /\ \A i \in Inode : OnDisk(i) => OnDisk(i)'
         /\ UNCHANGED <<acked, synced, calls>>
<1>1. PICK cut \in SUBSET {i \in Inode \ synced : data[i] = "whole"} :
        data' = [i \in Inode |-> IF i \in cut THEN "part" ELSE data[i]]
  BY DEF Restart
<1>2. data' \in [Inode -> {"empty", "part", "whole"}]
  BY <1>1 DEF IInv, TypeOK
<1>3. \A i \in Inode : OnDisk(i) => OnDisk(i)'
  BY <1>1 DEF OnDisk, Restart
<1>4. faults' \in 0..MaxFaults
  BY BoundsAssumption DEF Restart, Fault, IInv, TypeOK
<1>5. local' \in [Client -> [state : StateId, inode : 0..MaxCalls, version : Nat]]
  BY NoLocalType DEF Restart
<1> QED
  BY <1>2, <1>3, <1>4, <1>5 DEF Restart, Label

\* With every call stopped, the invariant speaks of the disk only.
LEMMA RestartPreserves ==
  ASSUME IInv, Restart, TypeOK', AckedSurvives',
         \A i \in Inode : IsVisible(i)' => IsVisible(i)
  PROVE  IInv'
<1>1. \A c \in Client : pc'[c] = "idle"
  BY RestartEffect
<1>2. OwnTemp' /\ WrittenInOrder' /\ ReadersFileIsOnDisk' /\ VersionIsSeen'
  BY <1>1 DEF OwnTemp, BeforeReplace, WrittenInOrder, ReadersFileIsOnDisk, VersionIsSeen
<1>3. VisibleIsOnDisk'
  BY RestartEffect DEF IInv, VisibleIsOnDisk
<1> QED
  BY <1>2, <1>3 DEF IInv

\* The entries fall back to some version since the last fsync, never before it.
LEMMA PowerLossPreserves == IInv /\ PowerLoss => IInv'
<1> SUFFICES ASSUME IInv, PowerLoss PROVE IInv'
  OBVIOUS
<1>1. Restart /\ dirLost' = dirLost /\ temps' \subseteq temps
  BY DEF PowerLoss
<1>2. ASSUME NEW s \in StateId
      PROVE  /\ floor'[s] \in 1..Latest(s) /\ floor[s] <= floor'[s]
             /\ history'[s] \in Seq(Inode \cup {NoFile})
             /\ Len(history'[s]) = floor'[s]
             /\ \A k \in 1..floor'[s] : history'[s][k] = history[s][k]
  <2>1. Latest(s) \in Nat \ {0} /\ \A k \in 1..Latest(s) : history[s][k] \in Inode \cup {NoFile}
    BY HistoryType DEF IInv
  <2>2. floor'[s] \in floor[s]..Latest(s) /\ floor[s] \in 1..Latest(s)
    BY DEF PowerLoss, IInv, TypeOK
  <2>3. floor'[s] \in 1..Latest(s) /\ floor[s] <= floor'[s] /\ floor'[s] \in Int
    BY <2>1, <2>2
  <2>4. history'[s] = SubSeq(history[s], 1, floor'[s])
    BY DEF PowerLoss
  <2>5. \A k \in 1..floor'[s] : history[s][k] \in Inode \cup {NoFile}
    BY <2>1, <2>3
  <2>6. /\ SubSeq(history[s], 1, floor'[s]) \in Seq(Inode \cup {NoFile})
        /\ Len(SubSeq(history[s], 1, floor'[s])) = IF 1 <= floor'[s] THEN floor'[s] - 1 + 1 ELSE 0
        /\ \A k \in 1..(floor'[s] - 1 + 1) : SubSeq(history[s], 1, floor'[s])[k] = history[s][1 + k - 1]
    BY <2>3, <2>5, SubSeqProperties
  <2> QED
    BY <2>1, <2>3, <2>4, <2>6
<1>3. history' \in [StateId -> Seq(Inode \cup {NoFile})]
  BY <1>2 DEF PowerLoss
<1>4. floor' \in [StateId -> Nat]
  BY BoundsAssumption DEF PowerLoss
<1>5. \A s \in StateId : floor'[s] \in 1..Latest(s)'
  BY <1>2 DEF Latest
<1>6. typeDir' \in {"missing", "volatile", "durable"}
  BY DEF PowerLoss, IInv, TypeOK
<1>7. TypeOK'
  BY <1>1, <1>3, <1>4, <1>5, <1>6, RestartEffect DEF IInv, TypeOK
<1>8. \A i \in Inode : IsVisible(i)' => IsVisible(i)
  <2> SUFFICES ASSUME NEW i \in Inode, NEW s \in StateId, NEW k \in 1..Latest(s)',
                      history'[s][k] = i
               PROVE  IsVisible(i)
    BY DEF IsVisible
  <2>1. k \in 1..floor'[s]
    BY <1>2 DEF Latest
  <2>2. k \in 1..Latest(s)
    BY <1>2, <2>1, HistoryType DEF IInv
  <2> QED
    BY <1>2, <2>1, <2>2 DEF IsVisible
<1>9. AckedSurvives'
  <2> SUFFICES ASSUME ~dirLost, NEW s \in StateId PROVE acked'[s] <= floor'[s]
    BY <1>1 DEF AckedSurvives
  <2>1. acked[s] <= floor[s] /\ acked[s] \in Nat /\ floor[s] \in Nat
    BY DEF IInv, AckedSurvives, TypeOK
  <2> QED
    BY <1>1, <1>2, <1>4, <2>1, RestartEffect
<1> QED
  BY <1>1, <1>7, <1>8, <1>9, RestartPreserves

LEMMA PowerLossOfDirectoryPreserves == IInv /\ PowerLossOfDirectory => IInv'
<1> SUFFICES ASSUME IInv, PowerLossOfDirectory PROVE IInv'
  OBVIOUS
<1> USE DEF PowerLossOfDirectory
<1>1. <<NoFile>> \in Seq(Inode \cup {NoFile}) /\ Len(<<NoFile>>) = 1 /\ <<NoFile>>[1] = NoFile
  OBVIOUS
<1>2. \A s \in StateId : Latest(s)' = 1 /\ floor'[s] = 1
  BY <1>1 DEF Latest
<1>3. TypeOK'
  <2>1. dirLost' \in BOOLEAN
    BY Zenon
  <2>2. history' \in [StateId -> Seq(Inode \cup {NoFile})] /\ floor' \in [StateId -> Nat]
    BY <1>1
  <2>3. \A s \in StateId : floor'[s] \in 1..Latest(s)'
    BY <1>2
  <2> QED
    BY <2>1, <2>2, <2>3, RestartEffect DEF IInv, TypeOK
<1>4. \A i \in Inode : ~(IsVisible(i)')
  BY <1>1, InodeType DEF IsVisible, Latest
<1>5. AckedSurvives'
  BY DEF AckedSurvives
<1> QED
  BY <1>3, <1>4, <1>5, RestartPreserves

------------------------------------------------------------------------------
LEMMA IInvNext == IInv /\ [Next]_vars => IInv'
<1> SUFFICES ASSUME IInv, [Next]_vars PROVE IInv'
  OBVIOUS
<1>1. ASSUME NEW c \in Client, NEW s \in StateId, CallWrite(c, s) \/ CallDelete(c, s)
      PROVE  IInv'
  BY <1>1, CallMutatorPreserves DEF CallWrite, CallDelete
<1>2. ASSUME NEW c \in Client, NEW s \in StateId, OpenForRead(c, s) PROVE IInv'
  BY <1>2, OpenForReadPreserves
<1>3. ASSUME NEW c \in Client,
             MakeDirectory(c) \/ MakeTemp(c) \/ WriteTemp(c) \/ SyncTemp(c)
      PROVE  IInv'
  BY <1>3, WriteStepPreserves
<1>4. ASSUME NEW c \in Client, Replace(c) \/ Unlink(c) PROVE IInv'
  BY <1>4, SetEntryPreserves
<1>5. ASSUME NEW c \in Client, SyncDirectory(c) PROVE IInv'
  BY <1>5, SyncDirectoryPreserves
<1>6. ASSUME NEW c \in Client,
             SyncDirectoryFails(c) \/ ReadReturn(c) \/ FailEarly(c) \/ Fail(c) \/ Crash(c)
      PROVE  IInv'
  BY <1>6, EndsPreserve
<1>7. CASE PowerLoss \/ PowerLossOfDirectory
  BY <1>7, PowerLossPreserves, PowerLossOfDirectoryPreserves
<1>8. CASE UNCHANGED vars
  <2>1. UNCHANGED <<typeDir, history, floor, temps, data, synced, acked, pc, local, calls,
                    faults, dirLost>>
    BY <1>8 DEF vars, disk
  <2>2. \A i : (IsVisible(i)' <=> IsVisible(i)) /\ (OnDisk(i)' <=> OnDisk(i))
    BY <2>1 DEF IsVisible, Latest, OnDisk
  <2>3. TypeOK' /\ AckedSurvives' /\ VersionIsSeen'
    BY <2>1 DEF IInv, TypeOK, Latest, AckedSurvives, VersionIsSeen
  <2>4. OwnTemp' /\ WrittenInOrder' /\ VisibleIsOnDisk' /\ ReadersFileIsOnDisk'
    BY <2>1, <2>2 DEF IInv, OwnTemp, WrittenInOrder, VisibleIsOnDisk, ReadersFileIsOnDisk
  <2> QED
    BY <2>3, <2>4 DEF IInv
<1> QED
  BY <1>1, <1>2, <1>3, <1>4, <1>5, <1>6, <1>7, <1>8 DEF Next

\* A call that fails while it has a temporary file removes it, and leaves no entry that names
\* it: it was never visible.
LEMMA FailedStepLeavesNothing ==
  ASSUME IInv, [Next]_vars, NEW c \in Client,
         pc[c] \in {"write", "fsync", "replace"}, pc'[c] = "idle", faults' = faults
  PROVE  /\ local[c].inode \notin temps'
         /\ \A s \in StateId : Entry(s)' # local[c].inode
<1>1. Fail(c)
  <2> USE DEF IInv, TypeOK, Goto
  <2>1. ASSUME NEW d \in Client, NEW s \in StateId,
               CallWrite(d, s) \/ CallDelete(d, s) \/ OpenForRead(d, s)
        PROVE  FALSE
    BY <2>1 DEF CallWrite, CallDelete, CallMutator, OpenForRead
  <2>2. ASSUME NEW d \in Client,
               MakeDirectory(d) \/ MakeTemp(d) \/ WriteTemp(d) \/ SyncTemp(d)
        PROVE  FALSE
    BY <2>2 DEF MakeDirectory, MakeTemp, WriteTemp, SyncTemp
  <2>3. ASSUME NEW d \in Client, Replace(d) \/ Unlink(d) PROVE FALSE
    BY <2>3 DEF Replace, Unlink, SetEntry
  <2>4. ASSUME NEW d \in Client, SyncDirectory(d) \/ SyncDirectoryFails(d) \/ ReadReturn(d)
                                \/ FailEarly(d)
        PROVE  FALSE
    BY <2>4 DEF SyncDirectory, SyncDirectoryFails, Acknowledge, ReadReturn, FailEarly
  \* A death or a power loss is counted.
  <2>5. ASSUME NEW d \in Client, Crash(d) \/ PowerLoss \/ PowerLossOfDirectory PROVE FALSE
    BY <2>5, BoundsAssumption DEF Crash, PowerLoss, PowerLossOfDirectory, Restart, Fault
  <2>6. ASSUME NEW d \in Client, Fail(d) PROVE d = c
    BY <2>6 DEF Fail
  <2>7. ~UNCHANGED vars
    BY DEF vars
  <2> QED
    BY <2>1, <2>2, <2>3, <2>4, <2>5, <2>6, <2>7 DEF Next
<1>2. local[c].inode \notin temps' /\ history' = history
  BY <1>1 DEF Fail
<1>3. ASSUME NEW s \in StateId PROVE Entry(s)' # local[c].inode
  <2>1. Entry(s)' = Entry(s)
    BY <1>2 DEF Entry, Latest
  <2>2. IsVisible(Entry(s))
    BY HistoryType DEF IInv
  <2>3. ~IsVisible(local[c].inode)
    BY DEF IInv, OwnTemp, BeforeReplace
  <2> QED
    BY <2>1, <2>2, <2>3
<1> QED
  BY <1>2, <1>3

------------------------------------------------------------------------------
\* The invariant behind the results below.
THEOREM Invariant == Spec => []IInv
  BY IInvInit, IInvNext, PTL DEF Spec

\* The variables keep their types; an entry's last fsynced version is one it has had.
THEOREM TypeCorrect == Spec => []TypeOK
<1>1. IInv => TypeOK
  BY DEF IInv
<1> QED
  BY <1>1, Invariant, PTL

\* Whatever dies and whenever the power fails, a reader of a state gets a whole payload.
THEOREM WholeReads == Spec => []ReaderSeesWhole
  BY IInvReaderSeesWhole, Invariant, PTL

\* What a write_state or delete_state has done whose fsync of the directory went through
\* outlives every power loss that leaves the type directory.
THEOREM Durability == Spec => []AckedSurvives
<1>1. IInv => AckedSurvives
  BY DEF IInv
<1> QED
  BY <1>1, Invariant, PTL

\* A write that reports an error leaves neither its temporary file nor its payload behind.
THEOREM CleanFailure == Spec => FailureLeavesNothing
<1>1. IInv /\ [Next]_vars =>
        [\A c \in Client :
           pc[c] \in {"write", "fsync", "replace"} /\ pc'[c] = "idle" /\ faults' = faults
           => /\ local[c].inode \notin temps'
              /\ \A s \in StateId : Entry(s)' # local[c].inode]_vars
  BY FailedStepLeavesNothing
<1> QED
  BY <1>1, Invariant, PTL DEF Spec, FailureLeavesNothing

==============================================================================
