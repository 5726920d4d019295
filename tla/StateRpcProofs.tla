---------------------------- MODULE StateRpcProofs ----------------------------
(***************************************************************************)
(* Proofs about StateRpc for any number of clients and writes and for any  *)
(* chunk and payload sizes: its type invariant, ReadsAreWhole,             *)
(* NoLostUpdate and StoredAsDeclared.                                      *)
(*                                                                         *)
(* Two facts carry them.  While nothing has overrun its lease, whoever is  *)
(* at work is the holder, so there is one.  And the number of a write that *)
(* is not stored yet is known to its own stream, or to its lingering       *)
(* thread, and to nobody else.                                             *)
(***************************************************************************)
EXTENDS StateRpc, TLAPS

\* Unless a lease or a cancelled write has overrun, a client at work holds the lease.
WorkersHoldLease ==
  ~overrun => \A c \in Client : pc[c] # "idle" => lease.holder = c /\ ~lease.lapsed

\* A cancelled write whose thread runs on is an overrun.
LingeringIsOverrun == overrun \/ lingering = {}

\* What a working client has read, or is about to have read, is what is stored.
BaseIsStored ==
  ~overrun => \A c \in Client :
    /\ pc[c] \in {"loaded", "reading"} => stream[c].write = store.write
    /\ pc[c] \in {"read", "sending", "storing"} => base[c] = store.write

\* A read has not passed the end of its payload, and starts at its beginning.
ReadsInRange ==
  \A c \in Client :
    /\ pc[c] = "loaded" => stream[c].pos = 0
    /\ pc[c] = "reading" => stream[c].pos <= stream[c].total

\* A write that is being sent or stored by its handler.
Pending(c) == pc[c] \in {"sending", "storing"}

\* Write numbers are given out once, from 1 on.
WritesAreNumbered ==
  /\ store.write <= writes
  /\ \A c \in Client : stream[c].write <= writes
  /\ \A c \in Client : Pending(c) => stream[c].write >= 1
  /\ \A w \in lingering : w.write \in 0..writes

\* The write of a stream in progress is known to this stream only.
PendingIsPrivate ==
  \A c \in Client : Pending(c) =>
    /\ store.write # stream[c].write
    /\ \A w \in lingering : w.write # stream[c].write
    /\ \A d \in Client : stream[d].write = stream[c].write => d = c

\* A write left to its thread is not stored yet, is left to one thread only, and has the size
\* its stream declared.  What is left to a thread as write 0 is a delete.
LingeringIsPrivate ==
  \A w \in lingering : w.write # 0 =>
    /\ w.write # store.write
    /\ \A v \in lingering : v.write = w.write => v = w
    /\ \A c \in Client : stream[c].write = w.write => stream[c].total = w.size

\* No state has no bytes.
AbsentIsEmpty ==
  /\ store.write = 0 => store.size = 0
  /\ \A c \in Client : stream[c].write = 0 => stream[c].total = 0
  /\ \A w \in lingering : w.write = 0 => w.size = 0

\* Only streams that brought all they declared are stored.
StoringIsWhole == \A c \in Client : pc[c] = "storing" => stream[c].pos = stream[c].total

LeaseInv == WorkersHoldLease /\ LingeringIsOverrun /\ BaseIsStored
WriteInv ==
  /\ WritesAreNumbered /\ PendingIsPrivate /\ LingeringIsPrivate
  /\ AbsentIsEmpty /\ StoringIsWhole
IInv == TypeOK /\ LeaseInv /\ ReadsInRange /\ ReadsAreWhole /\ WriteInv

------------------------------------------------------------------------------
\* normalize_chunk_size returns a size between one byte and Core's maximum, for every integer.
LEMMA NormalizeBound ==
  ASSUME NEW n \in Int
  PROVE  Normalize(n) \in 1..MaxChunk
  BY ChunkAssumption DEF Normalize

\* The chunk arithmetic: each chunk advances within the payload, and the range of a chunk ends
\* at the last byte exactly when the payload has been sent.
LEMMA ChunkEnd ==
  ASSUME NEW total \in Nat, NEW pos \in 0..total, NEW step \in Nat \ {0}
  PROVE  LET stop == Smaller(pos + step, total)
         IN  /\ stop \in 0..total
             /\ ~(RangeEnd(stop) < total - 1) => stop = total
  BY DEF Smaller, RangeEnd

LEMMA IInvInit == Init => IInv
<1> SUFFICES ASSUME Init PROVE IInv
  OBVIOUS
<1>1. TypeOK
  <2>1. overrun \in BOOLEAN
    BY Zenon DEF Init
  <2>2. lease \in [holder : Client \cup {NoClient}, lapsed : BOOLEAN]
    BY Zenon DEF Init
  <2>3. /\ store \in Payload /\ chunk \in 1..MaxChunk /\ base \in [Client -> 0..MaxWrites]
        /\ writes \in 0..MaxWrites /\ pc \in [Client -> Label]
    BY ChunkAssumption, BoundsAssumption DEF Init, NoState, Payload, Label
  <2>4. stream \in [Client -> [write : 0..MaxWrites, total : 0..MaxSize,
                               pos : 0..MaxSize, step : 1..MaxChunk]]
    BY ChunkAssumption, BoundsAssumption DEF Init, NoStream
  <2> QED
    BY <2>1, <2>2, <2>3, <2>4 DEF Init, TypeOK
<1>2. LeaseInv
  BY DEF Init, NoState, LeaseInv, WorkersHoldLease, LingeringIsOverrun, BaseIsStored
<1>3. ReadsInRange /\ ReadsAreWhole
  BY DEF Init, ReadsInRange, ReadsAreWhole
<1>4. WriteInv
  BY DEF Init, WriteInv, WritesAreNumbered, PendingIsPrivate, LingeringIsPrivate, AbsentIsEmpty,
         StoringIsWhole, Pending, NoState, NoStream
<1> QED
  BY <1>1, <1>2, <1>3, <1>4 DEF IInv

------------------------------------------------------------------------------
\* Types.

StreamType == [write : 0..MaxWrites, total : 0..MaxSize, pos : 0..MaxSize, step : 1..MaxChunk]

LEMMA NoStreamType == NoStream \in StreamType
  BY ChunkAssumption, BoundsAssumption DEF NoStream, StreamType

\* What each kind of step does to the streams.
LEMMA StreamTypeNext ==
  ASSUME TypeOK, Next
  PROVE  stream' \in [Client -> StreamType]
<1>0. stream \in [Client -> StreamType]
  BY DEF TypeOK, StreamType
<1>1. CASE ConfigureStateStore \/ Lapse \/ LateStore
  BY <1>0, <1>1 DEF ConfigureStateStore, Lapse, LateStore
<1>2. ASSUME NEW c \in Client,
             \/ LockState(c) \/ LockLost(c) \/ ReadFails(c) \/ EndStream(c) \/ CancelStream(c)
             \/ StoreState(c) \/ StoreFails(c) \/ CancelStore(c)
             \/ DeleteState(c) \/ DeleteFails(c) \/ CancelDelete(c)
      PROVE  stream' \in [Client -> StreamType]
  BY <1>0, <1>2 DEF LockState, LockLost, ReadFails, EndStream, CancelStream, StoreState,
                    StoreFails, CancelStore, DeleteState, DeleteFails, CancelDelete
<1>3. ASSUME NEW c \in Client, UnlockState(c) \/ Crash(c)
      PROVE  stream' \in [Client -> StreamType]
  BY <1>0, <1>3, NoStreamType DEF UnlockState, Crash
<1>4. ASSUME NEW c \in Client, LoadState(c) PROVE stream' \in [Client -> StreamType]
  <2>1. store.write \in 0..MaxWrites /\ store.size \in 0..MaxSize
    BY DEF TypeOK, Payload
  <2>2. [NoStream EXCEPT !.write = store.write, !.total = store.size] \in StreamType
    BY <2>1, NoStreamType DEF StreamType
  <2> QED
    BY <1>0, <1>4, <2>2 DEF LoadState
<1>5. ASSUME NEW c \in Client, OpenRead(c) PROVE stream' \in [Client -> StreamType]
  BY <1>0, <1>5 DEF OpenRead, TypeOK, StreamType
<1>6. ASSUME NEW c \in Client, ReadChunk(c) PROVE stream' \in [Client -> StreamType]
  <2> DEFINE s == stream[c]
             stop == Smaller(s.pos + s.step, s.total)
  <2>1. stream' = [stream EXCEPT ![c].pos = stop]
    BY <1>6 DEF ReadChunk
  <2>2. s \in StreamType
    BY <1>0
  <2>3. stop \in 0..MaxSize
    BY <2>2, BoundsAssumption, ChunkAssumption DEF StreamType, Smaller
  <2> HIDE DEF stop
  <2> QED
    BY <1>0, <2>1, <2>3 DEF StreamType
<1>7. ASSUME NEW c \in Client, OpenWrite(c) PROVE stream' \in [Client -> StreamType]
  <2>1. PICK n \in 1..MaxSize :
          stream' = [stream EXCEPT ![c] = [NoStream EXCEPT !.write = writes + 1, !.total = n]]
    BY <1>7 DEF OpenWrite
  <2>2. writes + 1 \in 0..MaxWrites /\ n \in 0..MaxSize
    BY <1>7, BoundsAssumption DEF OpenWrite, TypeOK
  <2>3. [NoStream EXCEPT !.write = writes + 1, !.total = n] \in StreamType
    BY <2>2, NoStreamType DEF StreamType
  <2> QED
    BY <1>0, <2>1, <2>3
<1>8. ASSUME NEW c \in Client, SendChunk(c) PROVE stream' \in [Client -> StreamType]
  <2>1. PICK n \in (stream[c].pos + 1)..stream[c].total : stream' = [stream EXCEPT ![c].pos = n]
    BY <1>8 DEF SendChunk
  <2>2. stream[c] \in StreamType
    BY <1>0
  <2>3. n \in 0..MaxSize
    BY <2>2, BoundsAssumption DEF StreamType
  <2> QED
    BY <1>0, <2>1, <2>3 DEF StreamType
<1> QED
  BY <1>1, <1>2, <1>3, <1>4, <1>5, <1>6, <1>7, <1>8 DEF Next

LEMMA LeaseTypeNext ==
  ASSUME TypeOK, Next
  PROVE  lease' \in [holder : Client \cup {NoClient}, lapsed : BOOLEAN] /\ overrun' \in BOOLEAN
<1>0. lease \in [holder : Client \cup {NoClient}, lapsed : BOOLEAN] /\ overrun \in BOOLEAN
  BY DEF TypeOK
<1>1. CASE ConfigureStateStore \/ LateStore
  BY <1>0, <1>1 DEF ConfigureStateStore, LateStore
<1>2. CASE Lapse
  <2>1. lease' = [lease EXCEPT !.lapsed = TRUE]
        /\ overrun' = (overrun \/ pc[lease.holder] # "idle")
    BY <1>2 DEF Lapse
  <2>2. lease' \in [holder : Client \cup {NoClient}, lapsed : BOOLEAN]
    BY <1>0, <2>1
  <2>3. overrun' \in BOOLEAN
    BY <2>1, Zenon
  <2> QED
    BY <2>2, <2>3
<1>3. ASSUME NEW c \in Client, LockState(c) \/ LockLost(c)
      PROVE  lease' \in [holder : Client \cup {NoClient}, lapsed : BOOLEAN]
             /\ overrun' \in BOOLEAN
  <2>1. lease' = [holder |-> c, lapsed |-> FALSE] /\ overrun' = overrun
    BY <1>3 DEF LockState, LockLost
  <2>2. [holder |-> c, lapsed |-> FALSE] \in [holder : Client \cup {NoClient}, lapsed : BOOLEAN]
    BY Zenon
  <2> QED
    BY <1>0, <2>1, <2>2
<1>4. ASSUME NEW c \in Client, UnlockState(c)
      PROVE  lease' \in [holder : Client \cup {NoClient}, lapsed : BOOLEAN]
             /\ overrun' \in BOOLEAN
  <2>1. /\ lease' = lease \/ lease' = [holder |-> NoClient, lapsed |-> FALSE]
        /\ overrun' = overrun
    BY <1>4 DEF UnlockState
  <2>2. [holder |-> NoClient, lapsed |-> FALSE]
          \in [holder : Client \cup {NoClient}, lapsed : BOOLEAN]
    BY Zenon
  <2> QED
    BY <1>0, <2>1, <2>2
<1>5. ASSUME NEW c \in Client,
             \/ LoadState(c) \/ OpenRead(c) \/ ReadChunk(c) \/ ReadFails(c)
             \/ OpenWrite(c) \/ SendChunk(c) \/ EndStream(c) \/ CancelStream(c)
             \/ StoreState(c) \/ StoreFails(c) \/ CancelStore(c)
             \/ DeleteState(c) \/ DeleteFails(c) \/ CancelDelete(c) \/ Crash(c)
      PROVE  lease' \in [holder : Client \cup {NoClient}, lapsed : BOOLEAN]
             /\ overrun' \in BOOLEAN
  <2>1. lease' = lease
    BY <1>5 DEF LoadState, OpenRead, ReadChunk, ReadFails, OpenWrite, SendChunk, EndStream,
                CancelStream, StoreState, StoreFails, CancelStore, DeleteState, DeleteFails,
                CancelDelete, Crash
  <2>2. overrun' = overrun \/ overrun' = TRUE
    BY <1>5 DEF LoadState, OpenRead, ReadChunk, ReadFails, OpenWrite, SendChunk, EndStream,
                CancelStream, StoreState, StoreFails, CancelStore, DeleteState, DeleteFails,
                CancelDelete, Crash
  <2>3. overrun' \in BOOLEAN
    BY <1>0, <2>2, Zenon
  <2> QED
    BY <1>0, <2>1, <2>3
<1> QED
  BY <1>1, <1>2, <1>3, <1>4, <1>5 DEF Next

LEMMA ControlTypeNext ==
  ASSUME TypeOK, Next
  PROVE  /\ pc' \in [Client -> Label] /\ chunk' \in 1..MaxChunk
         /\ base' \in [Client -> 0..MaxWrites] /\ writes' \in 0..MaxWrites
<1> USE DEF TypeOK, Label, Goto
<1>1. CASE ConfigureStateStore
  BY <1>1, NormalizeBound, ChunkAssumption DEF ConfigureStateStore
<1>2. CASE Lapse \/ LateStore
  BY <1>2 DEF Lapse, LateStore
<1>3. ASSUME NEW c \in Client, ReadChunk(c)
      PROVE  pc' \in [Client -> Label] /\ base' \in [Client -> 0..MaxWrites]
             /\ UNCHANGED <<chunk, writes>>
  <2>1. stream[c].write \in 0..MaxWrites
    OBVIOUS
  <2> QED
    BY <1>3, <2>1 DEF ReadChunk
<1>4. ASSUME NEW c \in Client, OpenWrite(c)
      PROVE  pc' \in [Client -> Label] /\ writes' \in 0..MaxWrites /\ UNCHANGED <<chunk, base>>
  BY <1>4, BoundsAssumption DEF OpenWrite
<1>5. ASSUME NEW c \in Client,
             \/ LockState(c) \/ LockLost(c) \/ UnlockState(c)
             \/ LoadState(c) \/ OpenRead(c) \/ ReadFails(c)
             \/ SendChunk(c) \/ EndStream(c) \/ CancelStream(c)
             \/ StoreState(c) \/ StoreFails(c) \/ CancelStore(c)
             \/ DeleteState(c) \/ DeleteFails(c) \/ CancelDelete(c) \/ Crash(c)
      PROVE  pc' \in [Client -> Label] /\ base' \in [Client -> 0..MaxWrites]
             /\ UNCHANGED <<chunk, writes>>
  BY <1>5, BoundsAssumption
     DEF LockState, LockLost, UnlockState, LoadState, OpenRead, ReadFails, SendChunk, EndStream,
         CancelStream, StoreState, StoreFails, CancelStore, DeleteState, DeleteFails,
         CancelDelete, Crash
<1> QED
  BY <1>1, <1>2, <1>3, <1>4, <1>5 DEF Next

LEMMA StoreTypeNext ==
  ASSUME TypeOK, Next
  PROVE  /\ store' \in Payload
         /\ lingering' \subseteq [write : 0..MaxWrites, size : 0..MaxSize, by : Client]
<1>1. CASE ConfigureStateStore \/ Lapse
  BY <1>1 DEF ConfigureStateStore, Lapse, TypeOK
<1>2. CASE LateStore
  BY <1>2 DEF LateStore, TypeOK, Payload
<1>3. ASSUME NEW c \in Client, StoreState(c) \/ CancelStore(c)
      PROVE  /\ store' \in Payload
             /\ lingering' \subseteq [write : 0..MaxWrites, size : 0..MaxSize, by : Client]
  <2>1. stream[c].write \in 0..MaxWrites /\ stream[c].pos \in 0..MaxSize
    BY DEF TypeOK
  <2> QED
    BY <1>3, <2>1 DEF StoreState, CancelStore, TypeOK, Payload
<1>4. ASSUME NEW c \in Client,
             \/ LockState(c) \/ LockLost(c) \/ UnlockState(c)
             \/ LoadState(c) \/ OpenRead(c) \/ ReadChunk(c) \/ ReadFails(c)
             \/ OpenWrite(c) \/ SendChunk(c) \/ EndStream(c) \/ CancelStream(c)
             \/ StoreFails(c) \/ DeleteFails(c) \/ Crash(c)
      PROVE  store' = store /\ lingering' \subseteq lingering
  BY <1>4 DEF LockState, LockLost, UnlockState, LoadState, OpenRead, ReadChunk, ReadFails,
              OpenWrite, SendChunk, EndStream, CancelStream, StoreFails, DeleteFails, Crash
<1>5. ASSUME NEW c \in Client, DeleteState(c) \/ CancelDelete(c)
      PROVE  /\ store' \in Payload
             /\ lingering' \subseteq [write : 0..MaxWrites, size : 0..MaxSize, by : Client]
  BY <1>5, BoundsAssumption DEF DeleteState, CancelDelete, NoState, TypeOK, Payload
<1> QED
  BY <1>1, <1>2, <1>3, <1>4, <1>5 DEF Next, TypeOK

LEMMA TypeNext ==
  ASSUME TypeOK, Next
  PROVE  TypeOK'
  BY StreamTypeNext, LeaseTypeNext, ControlTypeNext, StoreTypeNext DEF TypeOK, StreamType

------------------------------------------------------------------------------
\* The lease: who works holds it, so what the holder read is what is stored.

LEMMA LeaseNext ==
  ASSUME TypeOK, LeaseInv, Next
  PROVE  LeaseInv'
<1> USE DEF LeaseInv, WorkersHoldLease, LingeringIsOverrun, BaseIsStored, Goto
<1>1. CASE ConfigureStateStore
  BY <1>1 DEF ConfigureStateStore
<1>2. CASE Lapse
  BY <1>2 DEF Lapse
<1>3. CASE LateStore
  BY <1>3 DEF LateStore
\* A lease can be had only when nobody is at work.
<1>4. ASSUME NEW c \in Client, LockState(c) \/ LockLost(c) PROVE LeaseInv'
  <2>1. ~overrun => \A d \in Client : pc[d] = "idle"
    BY <1>4, NoClientAssumption DEF LockState, LockLost, Available
  <2> QED
    BY <1>4, <2>1 DEF LockState, LockLost, TypeOK
<1>5. ASSUME NEW c \in Client, UnlockState(c) \/ Crash(c) PROVE LeaseInv'
  <2>1. /\ pc'[c] = "idle"
        /\ \A d \in Client : d # c => pc'[d] = pc[d] /\ stream'[d] = stream[d] /\ base'[d] = base[d]
        /\ UNCHANGED <<store, overrun>> /\ lingering' \subseteq lingering
        /\ lease' = lease \/ (lease.holder = c /\ pc[c] # "idle")
    BY <1>5 DEF UnlockState, Crash, TypeOK
  <2>2. WorkersHoldLease'
    BY <2>1
  <2> QED
    BY <2>1, <2>2
<1>6. ASSUME NEW c \in Client, LoadState(c) PROVE LeaseInv'
  BY <1>6 DEF LoadState, TypeOK
<1>7. ASSUME NEW c \in Client, OpenRead(c) PROVE LeaseInv'
  BY <1>7 DEF OpenRead, TypeOK
<1>8. ASSUME NEW c \in Client, ReadChunk(c) PROVE LeaseInv'
  <2>1. /\ pc[c] = "reading" /\ pc'[c] \in {"reading", "read"}
        /\ stream'[c].write = stream[c].write
        /\ pc'[c] = "read" => base'[c] = stream[c].write
        /\ \A d \in Client : d # c => pc'[d] = pc[d] /\ stream'[d] = stream[d] /\ base'[d] = base[d]
        /\ UNCHANGED <<store, lease, overrun, lingering>>
    BY <1>8 DEF ReadChunk, TypeOK
  <2> QED
    BY <2>1
<1>9. ASSUME NEW c \in Client,
             ReadFails(c) \/ EndStream(c) \/ CancelStream(c) \/ StoreFails(c) \/ DeleteFails(c)
      PROVE  LeaseInv'
  <2>1. /\ pc[c] # "idle" /\ pc'[c] \in {"done", "storing"}
        /\ pc'[c] = "storing" => pc[c] = "sending"
        /\ \A d \in Client : d # c => pc'[d] = pc[d]
        /\ UNCHANGED <<store, lease, overrun, lingering, stream, base>>
    BY <1>9 DEF ReadFails, EndStream, CancelStream, StoreFails, DeleteFails, TypeOK
  <2> QED
    BY <2>1
<1>10. ASSUME NEW c \in Client, OpenWrite(c) \/ SendChunk(c) PROVE LeaseInv'
  <2>1. /\ pc[c] \in {"read", "sending"} /\ pc'[c] = "sending"
        /\ \A d \in Client : d # c => pc'[d] = pc[d] /\ stream'[d] = stream[d]
        /\ UNCHANGED <<store, lease, overrun, lingering, base>>
    BY <1>10 DEF OpenWrite, SendChunk, TypeOK
  <2> QED
    BY <2>1
\* The store changes under nobody but the holder, who is done with it.
<1>11. ASSUME NEW c \in Client, StoreState(c) \/ DeleteState(c) PROVE LeaseInv'
  <2>1. /\ pc[c] \in {"storing", "read"} /\ pc'[c] = "done"
        /\ \A d \in Client : d # c => pc'[d] = pc[d]
        /\ UNCHANGED <<lease, overrun, lingering, stream, base>>
    BY <1>11 DEF StoreState, DeleteState, TypeOK
  <2>2. ~overrun => \A d \in Client : d # c => pc[d] = "idle"
    BY <2>1
  <2> QED
    BY <2>1, <2>2
<1>12. ASSUME NEW c \in Client, CancelStore(c) \/ CancelDelete(c) PROVE LeaseInv'
  BY <1>12 DEF CancelStore, CancelDelete
<1> QED
  BY <1>1, <1>2, <1>3, <1>4, <1>5, <1>6, <1>7, <1>8, <1>9, <1>10, <1>11, <1>12 DEF Next

\* Two clients at work would both hold the lease.
LEMMA LeaseInvNoLostUpdate == LeaseInv => NoLostUpdate
  BY DEF LeaseInv, BaseIsStored, NoLostUpdate

------------------------------------------------------------------------------
\* The reads.

LEMMA ReadsNext ==
  ASSUME TypeOK, ReadsInRange, ReadsAreWhole, Next
  PROVE  ReadsInRange' /\ ReadsAreWhole'
<1> USE DEF ReadsInRange, ReadsAreWhole, Goto
<1>1. CASE ConfigureStateStore \/ Lapse \/ LateStore
  BY <1>1 DEF ConfigureStateStore, Lapse, LateStore
<1>2. ASSUME NEW c \in Client, LoadState(c) PROVE ReadsInRange' /\ ReadsAreWhole'
  BY <1>2 DEF LoadState, NoStream, TypeOK
<1>3. ASSUME NEW c \in Client, OpenRead(c) PROVE ReadsInRange' /\ ReadsAreWhole'
  <2>1. stream[c].total \in 0..MaxSize /\ stream[c].pos = 0
    BY <1>3 DEF OpenRead, TypeOK
  <2>2. stream'[c].total = stream[c].total /\ stream'[c].pos = stream[c].pos
    BY <1>3 DEF OpenRead, TypeOK
  <2>3. pc'[c] = "reading" /\ \A d \in Client : d # c => pc'[d] = pc[d] /\ stream'[d] = stream[d]
    BY <1>3 DEF OpenRead, TypeOK
  <2>4. stream'[c].pos <= stream'[c].total
    BY <2>1, <2>2, BoundsAssumption
  <2> QED
    BY <2>3, <2>4
<1>4. ASSUME NEW c \in Client, ReadChunk(c) PROVE ReadsInRange' /\ ReadsAreWhole'
  <2> DEFINE s == stream[c]
             stop == Smaller(s.pos + s.step, s.total)
  <2>1. pc[c] = "reading"
    BY <1>4 DEF ReadChunk
  <2>2. s.total \in Nat /\ s.pos \in 0..s.total /\ s.step \in Nat \ {0}
    BY <2>1, BoundsAssumption, ChunkAssumption DEF TypeOK
  <2>3. stop \in 0..s.total /\ (~(RangeEnd(stop) < s.total - 1) => stop = s.total)
    BY <2>2, ChunkEnd
  <2>4. /\ stream' = [stream EXCEPT ![c].pos = stop]
        /\ IF RangeEnd(stop) < s.total - 1 THEN pc' = pc ELSE pc' = [pc EXCEPT ![c] = "read"]
    BY <1>4 DEF ReadChunk
  <2> HIDE DEF stop
  <2>5. stream'[c].pos = stop /\ stream'[c].total = s.total
    BY <2>4 DEF TypeOK
  <2>6. \A d \in Client : d # c => pc'[d] = pc[d] /\ stream'[d] = stream[d]
    BY <2>4 DEF TypeOK
  <2>7. pc'[c] = "read" => stop = s.total
    BY <2>1, <2>3, <2>4
  <2>8. pc'[c] # "loaded" /\ stop <= s.total
    BY <2>1, <2>2, <2>3, <2>4 DEF TypeOK
  <2> QED
    BY <2>5, <2>6, <2>7, <2>8
<1>5. ASSUME NEW c \in Client,
             \/ LockState(c) \/ LockLost(c) \/ UnlockState(c) \/ ReadFails(c)
             \/ OpenWrite(c) \/ SendChunk(c) \/ EndStream(c) \/ CancelStream(c)
             \/ StoreState(c) \/ StoreFails(c) \/ CancelStore(c)
             \/ DeleteState(c) \/ DeleteFails(c) \/ CancelDelete(c) \/ Crash(c)
      PROVE  ReadsInRange' /\ ReadsAreWhole'
  <2>1. pc'[c] \notin {"loaded", "reading", "read"}
    BY <1>5 DEF LockState, LockLost, UnlockState, ReadFails, OpenWrite, SendChunk, EndStream,
                CancelStream, StoreState, StoreFails, CancelStore, DeleteState, DeleteFails,
                CancelDelete, Crash, TypeOK
  <2>2. \A d \in Client : d # c => pc'[d] = pc[d] /\ stream'[d] = stream[d]
    BY <1>5 DEF LockState, LockLost, UnlockState, ReadFails, OpenWrite, SendChunk, EndStream,
                CancelStream, StoreState, StoreFails, CancelStore, DeleteState, DeleteFails,
                CancelDelete, Crash, TypeOK
  <2> QED
    BY <2>1, <2>2
<1> QED
  BY <1>1, <1>2, <1>3, <1>4, <1>5 DEF Next

------------------------------------------------------------------------------
\* The writes.

\* Steps that touch no stream's write, no stored and no lingering write, and start no storing.
LEMMA QuietWriteStep ==
  ASSUME TypeOK, WriteInv, UNCHANGED <<store, writes>>, lingering' \subseteq lingering,
         NEW c \in Client,
         \A d \in Client : d # c => pc'[d] = pc[d] /\ stream'[d] = stream[d],
         \/ /\ stream'[c].write = stream[c].write /\ stream'[c].total = stream[c].total
            /\ Pending(c)' => Pending(c)
            /\ pc'[c] = "storing" => stream'[c].pos = stream'[c].total
         \/ stream'[c] = NoStream /\ ~(Pending(c)')
  PROVE  WriteInv'
<1> USE DEF WriteInv
<1>1. \A d \in Client :
        \/ stream'[d].write = stream[d].write /\ stream'[d].total = stream[d].total
        \/ stream'[d].write = 0
  BY DEF NoStream
<1>2. \A d \in Client : Pending(d)' => Pending(d) /\ stream'[d].write = stream[d].write
  BY DEF Pending
<1>3. WritesAreNumbered'
  <2>1. writes \in Nat /\ \A d \in Client : stream[d].write \in Nat
    BY BoundsAssumption DEF TypeOK
  <2> QED
    BY <1>1, <1>2, <2>1 DEF WritesAreNumbered
<1>4. PendingIsPrivate'
  BY <1>1, <1>2 DEF PendingIsPrivate, WritesAreNumbered
<1>5. LingeringIsPrivate'
  BY <1>1 DEF LingeringIsPrivate, WritesAreNumbered
<1>6. StoringIsWhole'
  BY DEF StoringIsWhole, Pending
<1>7. AbsentIsEmpty'
  BY DEF AbsentIsEmpty, NoStream
<1> QED
  BY <1>3, <1>4, <1>5, <1>6, <1>7

LEMMA WriteNext ==
  ASSUME TypeOK, WriteInv, Next
  PROVE  WriteInv'
<1> USE DEF Goto
<1>1. CASE ConfigureStateStore \/ Lapse
  BY <1>1 DEF ConfigureStateStore, Lapse, WriteInv, WritesAreNumbered, PendingIsPrivate,
              LingeringIsPrivate, AbsentIsEmpty, StoringIsWhole, Pending
<1>2. ASSUME NEW c \in Client,
             LockState(c) \/ LockLost(c) \/ OpenRead(c) \/ ReadFails(c) \/ EndStream(c)
               \/ CancelStream(c) \/ StoreFails(c) \/ DeleteFails(c)
      PROVE  WriteInv'
  <2>1. /\ UNCHANGED <<store, writes, lingering>>
        /\ \A d \in Client : d # c => pc'[d] = pc[d] /\ stream'[d] = stream[d]
        /\ stream'[c].write = stream[c].write /\ stream'[c].total = stream[c].total
        /\ Pending(c)' => Pending(c)
        /\ pc'[c] = "storing" => stream'[c].pos = stream'[c].total
    BY <1>2 DEF LockState, LockLost, OpenRead, ReadFails, EndStream, CancelStream, StoreFails,
                DeleteFails, Received, TypeOK, Pending
  <2> QED
    BY <2>1, QuietWriteStep
<1>3. ASSUME NEW c \in Client, UnlockState(c) \/ Crash(c) PROVE WriteInv'
  <2>1. /\ UNCHANGED <<store, writes>> /\ lingering' \subseteq lingering
        /\ \A d \in Client : d # c => pc'[d] = pc[d] /\ stream'[d] = stream[d]
        /\ stream'[c] = NoStream /\ ~(Pending(c)')
    BY <1>3 DEF UnlockState, Crash, TypeOK, Pending
  <2> QED
    BY <2>1, QuietWriteStep
<1>4. ASSUME NEW c \in Client, ReadChunk(c) \/ SendChunk(c) PROVE WriteInv'
  <2>1. /\ UNCHANGED <<store, writes, lingering>>
        /\ \A d \in Client : d # c => pc'[d] = pc[d] /\ stream'[d] = stream[d]
        /\ stream'[c].write = stream[c].write /\ stream'[c].total = stream[c].total
        /\ (Pending(c)' => Pending(c)) /\ pc'[c] # "storing"
    BY <1>4 DEF ReadChunk, SendChunk, TypeOK, Pending
  <2> QED
    BY <2>1, QuietWriteStep
\* A read learns the number of a stored write, which is no pending or lingering one.
<1>5. ASSUME NEW c \in Client, LoadState(c) PROVE WriteInv'
  <2>1. /\ UNCHANGED <<store, writes, lingering>>
        /\ \A d \in Client : d # c => pc'[d] = pc[d] /\ stream'[d] = stream[d]
        /\ stream'[c].write = store.write /\ stream'[c].total = store.size
        /\ pc'[c] = "loaded"
    BY <1>5 DEF LoadState, NoStream, TypeOK
  <2>2. WritesAreNumbered' /\ AbsentIsEmpty' /\ StoringIsWhole'
    BY <2>1 DEF WriteInv, WritesAreNumbered, AbsentIsEmpty, StoringIsWhole, Pending
  <2>3. PendingIsPrivate'
    BY <2>1 DEF WriteInv, PendingIsPrivate, Pending
  <2>4. LingeringIsPrivate'
    BY <2>1 DEF WriteInv, LingeringIsPrivate
  <2> QED
    BY <2>2, <2>3, <2>4 DEF WriteInv
\* A new write has a new number.
<1>6. ASSUME NEW c \in Client, OpenWrite(c) PROVE WriteInv'
  <2>1. /\ UNCHANGED <<store, lingering>> /\ writes' = writes + 1
        /\ \A d \in Client : d # c => pc'[d] = pc[d] /\ stream'[d] = stream[d]
        /\ stream'[c].write = writes + 1 /\ pc'[c] = "sending"
    BY <1>6 DEF OpenWrite, NoStream, TypeOK
  <2>2. /\ writes \in Nat /\ store.write \in Nat /\ store.write <= writes
        /\ \A d \in Client : stream[d].write \in Nat /\ stream[d].write <= writes
        /\ \A w \in lingering : w.write \in 0..writes
    BY BoundsAssumption DEF TypeOK, Payload, WriteInv, WritesAreNumbered
  <2>3. WritesAreNumbered'
    BY <2>1, <2>2 DEF WriteInv, WritesAreNumbered, Pending
  <2>4. PendingIsPrivate'
    BY <2>1, <2>2 DEF WriteInv, PendingIsPrivate, Pending
  <2>5. LingeringIsPrivate' /\ AbsentIsEmpty' /\ StoringIsWhole'
    BY <2>1, <2>2 DEF WriteInv, LingeringIsPrivate, AbsentIsEmpty, StoringIsWhole
  <2> QED
    BY <2>3, <2>4, <2>5 DEF WriteInv
\* What is stored is never write 0, and a delete leaves no bytes.
<1>7. ASSUME NEW c \in Client, StoreState(c) PROVE WriteInv'
  <2>1. /\ UNCHANGED <<stream, lingering, writes>> /\ store'.write = stream[c].write
        /\ pc[c] = "storing" /\ pc'[c] = "done"
        /\ \A d \in Client : d # c => pc'[d] = pc[d]
    BY <1>7 DEF StoreState, TypeOK
  <2>2. WritesAreNumbered' /\ AbsentIsEmpty' /\ StoringIsWhole'
    BY <2>1 DEF WriteInv, WritesAreNumbered, AbsentIsEmpty, StoringIsWhole, Pending
  <2>3. PendingIsPrivate'
    BY <2>1 DEF WriteInv, PendingIsPrivate, Pending
  <2>4. LingeringIsPrivate'
    BY <2>1 DEF WriteInv, LingeringIsPrivate, PendingIsPrivate, Pending
  <2> QED
    BY <2>2, <2>3, <2>4 DEF WriteInv
\* The write passes from its stream to its thread, whole.
<1>8. ASSUME NEW c \in Client, CancelStore(c) PROVE WriteInv'
  <2> DEFINE v == [write |-> stream[c].write, size |-> stream[c].pos, by |-> c]
  <2>1. /\ UNCHANGED <<stream, store, writes>> /\ lingering' = lingering \cup {v}
        /\ pc[c] = "storing" /\ pc'[c] = "done"
        /\ \A d \in Client : d # c => pc'[d] = pc[d]
    BY <1>8 DEF CancelStore, TypeOK
  <2>2. /\ v.write = stream[c].write /\ v.size = stream[c].total
        /\ store.write # v.write
        /\ \A w \in lingering : w.write # v.write
        /\ \A d \in Client : stream[d].write = v.write => d = c
    BY <2>1 DEF WriteInv, PendingIsPrivate, Pending, StoringIsWhole
  <2>3. v.write \in 1..writes
    BY <2>1, BoundsAssumption DEF WriteInv, WritesAreNumbered, Pending, TypeOK
  <2> HIDE DEF v
  <2>4. WritesAreNumbered' /\ AbsentIsEmpty' /\ StoringIsWhole'
    BY <2>1, <2>3 DEF WriteInv, WritesAreNumbered, AbsentIsEmpty, StoringIsWhole, Pending
  <2>5. PendingIsPrivate'
    BY <2>1, <2>2 DEF WriteInv, PendingIsPrivate, Pending
  <2>6. LingeringIsPrivate'
    BY <2>1, <2>2 DEF WriteInv, LingeringIsPrivate
  <2> QED
    BY <2>4, <2>5, <2>6 DEF WriteInv
<1>9. CASE LateStore
  <2>1. PICK w \in lingering :
          /\ store' = [write |-> w.write, size |-> w.size]
          /\ lingering' = lingering \ {w}
          /\ UNCHANGED <<pc, stream, writes>>
    BY <1>9 DEF LateStore
  <2>2. store'.write = w.write /\ store'.size = w.size /\ w.write \in 0..writes
    BY <2>1 DEF WriteInv, WritesAreNumbered
  <2>3. WritesAreNumbered' /\ AbsentIsEmpty' /\ StoringIsWhole'
    BY <2>1, <2>2, BoundsAssumption
       DEF WriteInv, WritesAreNumbered, AbsentIsEmpty, StoringIsWhole, Pending, TypeOK
  <2>4. PendingIsPrivate'
    BY <2>1, <2>2 DEF WriteInv, PendingIsPrivate, Pending
  <2>5. LingeringIsPrivate'
    BY <2>1, <2>2 DEF WriteInv, LingeringIsPrivate
  <2> QED
    BY <2>3, <2>4, <2>5 DEF WriteInv
<1>10. ASSUME NEW c \in Client, DeleteState(c) PROVE WriteInv'
  <2>1. /\ UNCHANGED <<stream, lingering, writes>> /\ store'.write = 0 /\ store'.size = 0
        /\ pc'[c] = "done" /\ \A d \in Client : d # c => pc'[d] = pc[d]
    BY <1>10 DEF DeleteState, NoState, TypeOK
  <2>2. WritesAreNumbered' /\ AbsentIsEmpty' /\ StoringIsWhole'
    BY <2>1, BoundsAssumption
       DEF WriteInv, WritesAreNumbered, AbsentIsEmpty, StoringIsWhole, Pending, TypeOK
  <2>3. PendingIsPrivate'
    BY <2>1 DEF WriteInv, WritesAreNumbered, PendingIsPrivate, Pending
  <2>4. LingeringIsPrivate'
    BY <2>1 DEF WriteInv, LingeringIsPrivate
  <2> QED
    BY <2>2, <2>3, <2>4 DEF WriteInv
<1>11. ASSUME NEW c \in Client, CancelDelete(c) PROVE WriteInv'
  <2> DEFINE v == [write |-> 0, size |-> 0, by |-> c]
  <2>1. /\ UNCHANGED <<stream, store, writes>> /\ lingering' = lingering \cup {v}
        /\ pc'[c] = "done" /\ \A d \in Client : d # c => pc'[d] = pc[d]
    BY <1>11 DEF CancelDelete, TypeOK
  <2>2. v.write = 0 /\ v.size = 0
    OBVIOUS
  <2> HIDE DEF v
  <2>3. WritesAreNumbered' /\ AbsentIsEmpty' /\ StoringIsWhole'
    BY <2>1, <2>2, BoundsAssumption
       DEF WriteInv, WritesAreNumbered, AbsentIsEmpty, StoringIsWhole, Pending, TypeOK
  <2>4. PendingIsPrivate'
    BY <2>1, <2>2 DEF WriteInv, WritesAreNumbered, PendingIsPrivate, Pending
  <2>5. LingeringIsPrivate'
    BY <2>1, <2>2 DEF WriteInv, LingeringIsPrivate
  <2> QED
    BY <2>3, <2>4, <2>5 DEF WriteInv
<1> QED
  BY <1>1, <1>2, <1>3, <1>4, <1>5, <1>6, <1>7, <1>8, <1>9, <1>10, <1>11 DEF Next

LEMMA IInvNext == IInv /\ [Next]_vars => IInv'
<1> SUFFICES ASSUME IInv, [Next]_vars PROVE IInv'
  OBVIOUS
<1>1. CASE Next
  BY <1>1, TypeNext, LeaseNext, ReadsNext, WriteNext DEF IInv
<1>2. CASE UNCHANGED vars
  <2> USE <1>2 DEF vars, IInv
  <2>1. TypeOK' /\ ReadsInRange' /\ ReadsAreWhole'
    BY DEF TypeOK, ReadsInRange, ReadsAreWhole
  <2>2. LeaseInv'
    BY DEF LeaseInv, WorkersHoldLease, LingeringIsOverrun, BaseIsStored
  <2>3. WriteInv'
    BY DEF WriteInv, WritesAreNumbered, PendingIsPrivate, LingeringIsPrivate, AbsentIsEmpty,
           StoringIsWhole, Pending
  <2> QED
    BY <2>1, <2>2, <2>3
<1> QED
  BY <1>1, <1>2

\* A step that stores a write stores all that its stream declared, the stream of a cancelled
\* RPC and the streams that have read the write before included.
LEMMA StoreStepIsWhole ==
  ASSUME TypeOK, WriteInv, [Next]_vars, NEW c \in Client,
         store'.write = stream[c].write, store' # store
  PROVE  store'.size = stream[c].total
<1>1. ASSUME NEW d \in Client, StoreState(d) PROVE store'.size = stream[c].total
  <2>1. pc[d] = "storing" /\ store'.write = stream[d].write /\ store'.size = stream[d].pos
    BY <1>1 DEF StoreState, Goto
  <2>2. c = d
    BY <2>1 DEF WriteInv, PendingIsPrivate, Pending
  <2> QED
    BY <2>1, <2>2 DEF WriteInv, StoringIsWhole
<1>2. CASE LateStore
  <2>1. PICK w \in lingering : store' = [write |-> w.write, size |-> w.size]
    BY <1>2 DEF LateStore
  <2> QED
    BY <2>1 DEF WriteInv, LingeringIsPrivate, AbsentIsEmpty
<1>3. ASSUME NEW d \in Client, DeleteState(d) PROVE store'.size = stream[c].total
  BY <1>3 DEF DeleteState, NoState, WriteInv, AbsentIsEmpty
<1>4. CASE UNCHANGED store
  BY <1>4
<1> QED
  BY <1>1, <1>2, <1>3, <1>4
     DEF Next, vars, ConfigureStateStore, Lapse, LockState, LockLost, UnlockState, LoadState,
         OpenRead, ReadChunk, ReadFails, OpenWrite, SendChunk, EndStream, CancelStream,
         StoreFails, CancelStore, DeleteFails, CancelDelete, Crash

------------------------------------------------------------------------------
\* The invariant behind the results below.
THEOREM Invariant == Spec => []IInv
  BY IInvInit, IInvNext, PTL DEF Spec

\* The variables keep their types; in particular a negotiated chunk size is never zero and
\* never above Core's maximum, whatever integer a client proposes.
THEOREM TypeCorrect == Spec => []TypeOK
<1>1. IInv => TypeOK
  BY DEF IInv
<1> QED
  BY <1>1, Invariant, PTL

\* A client that stops reading at the announced end has read the whole payload, for every
\* payload size and every sequence of chunk sizes.
THEOREM WholeReads == Spec => []ReadsAreWhole
<1>1. IInv => ReadsAreWhole
  BY DEF IInv
<1> QED
  BY <1>1, Invariant, PTL

\* Operations that lock the state do not lose each other's updates, unless one overran.
THEOREM LockedUpdates == Spec => []NoLostUpdate
<1>1. IInv => NoLostUpdate
  BY LeaseInvNoLostUpdate DEF IInv
<1> QED
  BY <1>1, Invariant, PTL

\* No truncated stream ever replaces the stored state.
THEOREM NoTruncatedState == Spec => StoredAsDeclared
<1>1. IInv /\ [Next]_vars =>
        [\A c \in Client : store'.write = stream[c].write /\ store' # store
                           => store'.size = stream[c].total]_vars
  BY StoreStepIsWhole DEF IInv
<1> QED
  BY <1>1, Invariant, PTL DEF Spec, StoredAsDeclared

==============================================================================
