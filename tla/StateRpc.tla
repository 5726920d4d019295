------------------------------- MODULE StateRpc -------------------------------
(***************************************************************************)
(* The state-store RPCs over one state, as Terraform clients use them:     *)
(* LockState, ReadStateBytes, WriteStateBytes, DeleteState, UnlockState,   *)
(* while anyone may send ConfigureStateStore.  Payloads travel in chunks,  *)
(* a write may end early, a lease may lapse, a client may die.  The backend is what    *)
(* FsLease and StateFile show it to be: a lease, and whole payloads that   *)
(* are replaced at once.  Nothing in a write looks at the lease.           *)
(***************************************************************************)
EXTENDS Integers

CONSTANTS
  Client,        \* Terraform operations, each with its own provider process
  NoClient,      \* nobody holds the lease
  Proposal,      \* chunk sizes a client may propose
  DefaultChunk,  \* DEFAULT_STATE_STORE_CHUNK_SIZE
  MaxChunk,      \* MAX_STATE_STORE_CHUNK_SIZE
  MaxSize,       \* bound on the bytes of a payload
  MaxWrites      \* bound on the writes ever started

ASSUME ChunkAssumption ==
  /\ Proposal \subseteq Int
  /\ MaxChunk \in Nat \ {0} /\ DefaultChunk \in 1..MaxChunk
ASSUME BoundsAssumption == MaxSize \in Nat /\ MaxWrites \in Nat
ASSUME NoClientAssumption == NoClient \notin Client

VARIABLES
  store,      \* the stored payload: the write it comes from (0: no state) and its size
  lease,      \* who holds the lease, and whether it has lapsed
  chunk,      \* the chunk size negotiated for the store type
  pc,         \* where each client is in its operation
  stream,     \* the byte stream of its read or write in progress
  base,       \* the write whose payload each client's operation has read
  lingering,  \* writes and deletes (0) whose RPC was cancelled while their thread ran on
  writes,     \* writes started so far
  overrun     \* a lease lapsed under a client at work, or a running thread was left behind

vars == <<store, lease, chunk, pc, stream, base, lingering, writes, overrun>>

Label == {"idle", "locked", "loaded", "reading", "read", "sending", "storing", "done"}

Payload == [write : 0..MaxWrites, size : 0..MaxSize]

NoState == [write |-> 0, size |-> 0]  \* read_state returns None

\* write and total: the payload sent and its length; pos: how much of it has arrived; step:
\* the chunk size of a read.
NoStream == [write |-> 0, total |-> 0, pos |-> 0, step |-> 1]

TypeOK ==
  /\ store \in Payload
  /\ lease \in [holder : Client \cup {NoClient}, lapsed : BOOLEAN]
  /\ chunk \in 1..MaxChunk
  /\ pc \in [Client -> Label]
  /\ stream \in [Client -> [write : 0..MaxWrites, total : 0..MaxSize,
                            pos : 0..MaxSize, step : 1..MaxChunk]]
  /\ base \in [Client -> 0..MaxWrites]
  /\ lingering \subseteq [write : 0..MaxWrites, size : 0..MaxSize, by : Client]
  /\ writes \in 0..MaxWrites
  /\ overrun \in BOOLEAN

Init ==
  /\ store = NoState
  /\ lease = [holder |-> NoClient, lapsed |-> FALSE]
  /\ chunk = DefaultChunk
  /\ pc = [c \in Client |-> "idle"]
  /\ stream = [c \in Client |-> NoStream]
  /\ base = [c \in Client |-> 0]
  /\ lingering = {}
  /\ writes = 0
  /\ overrun = FALSE

Goto(c, from, to) == pc[c] = from /\ pc' = [pc EXCEPT ![c] = to]

------------------------------------------------------------------------------
\* normalize_chunk_size
Normalize(n) ==
  IF n <= 0 THEN DefaultChunk ELSE IF n < MaxChunk THEN n ELSE MaxChunk

\* ConfigureStateStore: the size is recorded even if the backend then refuses its config.
ConfigureStateStore ==
  /\ \E n \in Proposal : chunk' = Normalize(n)
  /\ UNCHANGED <<store, lease, pc, stream, base, lingering, writes, overrun>>

AvailableAlways == TRUE  \* mutant: a live lease is stolen

\* No lease, or one that has expired.
Available == lease.holder = NoClient \/ lease.lapsed

\* LockState; a conflict or another error leaves the client where it was.
LockState(c) ==
  /\ Available
  /\ Goto(c, "idle", "locked")
  /\ lease' = [holder |-> c, lapsed |-> FALSE]
  /\ UNCHANGED <<store, chunk, stream, base, lingering, writes, overrun>>

\* The RPC is cancelled while its worker thread records the lease: nobody knows its id.
LockLost(c) ==
  /\ Available
  /\ pc[c] = "idle"
  /\ lease' = [holder |-> c, lapsed |-> FALSE]
  /\ UNCHANGED <<store, chunk, pc, stream, base, lingering, writes, overrun>>

\* UnlockState, after the work or instead of it; a lease that is no longer c's stays.
UnlockState(c) ==
  /\ \E l \in {"locked", "read", "done"} : Goto(c, l, "idle")
  /\ lease' = IF lease.holder = c THEN [holder |-> NoClient, lapsed |-> FALSE] ELSE lease
  /\ stream' = [stream EXCEPT ![c] = NoStream]
  /\ base' = [base EXCEPT ![c] = 0]
  /\ UNCHANGED <<store, chunk, lingering, writes, overrun>>

\* The lease passes its expiry, whatever its holder is doing: nothing renews it.
Lapse ==
  /\ lease.holder # NoClient /\ ~lease.lapsed
  /\ lease' = [lease EXCEPT !.lapsed = TRUE]
  /\ overrun' = (overrun \/ pc[lease.holder] # "idle")
  /\ UNCHANGED <<store, chunk, pc, stream, base, lingering, writes>>

------------------------------------------------------------------------------
\* ReadStateBytes: the worker thread loads the payload,
LoadState(c) ==
  /\ Goto(c, "locked", "loaded")
  /\ stream' = [stream EXCEPT ![c] = [NoStream EXCEPT !.write = store.write,
                                                      !.total = store.size]]
  /\ UNCHANGED <<store, lease, chunk, base, lingering, writes, overrun>>

\* and the handler reads the chunk size once that await is over.
OpenRead(c) ==
  /\ Goto(c, "loaded", "reading")
  /\ stream' = [stream EXCEPT ![c].step = chunk]
  /\ UNCHANGED <<store, lease, chunk, base, lingering, writes, overrun>>

Smaller(m, n) == IF m < n THEN m ELSE n

\* StateRange.end of a chunk that stops before byte n; an absent state has the range 0..0.
RangeEndExclusive(n) == n  \* mutant: one past the last byte

RangeEnd(n) == IF n = 0 THEN 0 ELSE n - 1

\* One response of the stream.  Terraform reads on while Range.End < TotalLength - 1.
ReadChunk(c) ==
  LET s == stream[c]
      stop == Smaller(s.pos + s.step, s.total)
  IN  /\ stream' = [stream EXCEPT ![c].pos = stop]
      /\ IF RangeEnd(stop) < s.total - 1
           THEN pc[c] = "reading" /\ UNCHANGED <<pc, base>>
           ELSE Goto(c, "reading", "read") /\ base' = [base EXCEPT ![c] = s.write]
      /\ UNCHANGED <<store, lease, chunk, lingering, writes, overrun>>

\* The backend raises: one response with a diagnostic.
ReadFails(c) ==
  /\ Goto(c, "locked", "done")
  /\ UNCHANGED <<store, lease, chunk, stream, base, lingering, writes, overrun>>

------------------------------------------------------------------------------
\* Terraform opens a WriteStateBytes stream with what it made of the state it read.
OpenWrite(c) ==
  /\ writes < MaxWrites
  /\ Goto(c, "read", "sending")
  /\ writes' = writes + 1
  /\ \E n \in 1..MaxSize :
       stream' = [stream EXCEPT ![c] = [NoStream EXCEPT !.write = writes + 1, !.total = n]]
  /\ UNCHANGED <<store, lease, chunk, base, lingering, overrun>>

\* _drain_state_stream receives a chunk.
SendChunk(c) ==
  /\ pc[c] = "sending"
  /\ \E n \in (stream[c].pos + 1)..stream[c].total : stream' = [stream EXCEPT ![c].pos = n]
  /\ UNCHANGED <<store, lease, chunk, pc, base, lingering, writes, overrun>>

\* The stream had metadata, which its first chunk carries, and all the bytes it declared.
ReceivedSome(c) == stream[c].pos > 0  \* mutant: the declared length is not compared

Received(c) == stream[c].pos > 0 /\ stream[c].pos = stream[c].total

\* The stream ends, early or not, and is accepted or refused.
EndStream(c) ==
  /\ Goto(c, "sending", IF Received(c) THEN "storing" ELSE "done")
  /\ UNCHANGED <<store, lease, chunk, stream, base, lingering, writes, overrun>>

\* The RPC is cancelled while it drains the stream.
CancelStream(c) ==
  /\ Goto(c, "sending", "done")
  /\ UNCHANGED <<store, lease, chunk, stream, base, lingering, writes, overrun>>

\* The worker thread replaces the stored payload.
StoreState(c) ==
  /\ Goto(c, "storing", "done")
  /\ store' = [write |-> stream[c].write, size |-> stream[c].pos]
  /\ UNCHANGED <<lease, chunk, stream, base, lingering, writes, overrun>>

StoreFails(c) ==
  /\ Goto(c, "storing", "done")
  /\ UNCHANGED <<store, lease, chunk, stream, base, lingering, writes, overrun>>

\* The RPC is cancelled; asyncio.to_thread cannot stop the thread that is writing.
CancelStore(c) ==
  /\ Goto(c, "storing", "done")
  /\ lingering' = lingering \cup
                    {[write |-> stream[c].write, size |-> stream[c].pos, by |-> c]}
  /\ overrun' = TRUE
  /\ UNCHANGED <<store, lease, chunk, stream, base, writes>>

------------------------------------------------------------------------------
\* DeleteState, of a state that Terraform has locked and looked at.  Nor does a delete look
\* at the lease.
DeleteState(c) ==
  /\ Goto(c, "read", "done")
  /\ store' = NoState
  /\ UNCHANGED <<lease, chunk, stream, base, lingering, writes, overrun>>

DeleteFails(c) ==
  /\ Goto(c, "read", "done")
  /\ UNCHANGED <<store, lease, chunk, stream, base, lingering, writes, overrun>>

\* The RPC is cancelled while its thread deletes.
CancelDelete(c) ==
  /\ Goto(c, "read", "done")
  /\ lingering' = lingering \cup {[write |-> 0, size |-> 0, by |-> c]}
  /\ overrun' = TRUE
  /\ UNCHANGED <<store, lease, chunk, stream, base, writes>>

------------------------------------------------------------------------------
\* A thread that nobody waits for ends its write or its delete.
LateStore ==
  \E w \in lingering :
    /\ store' = [write |-> w.write, size |-> w.size]
    /\ lingering' = lingering \ {w}
    /\ UNCHANGED <<lease, chunk, pc, stream, base, writes, overrun>>

\* Terraform and its provider process die; the lease stays until it lapses.
Crash(c) ==
  /\ pc' = [pc EXCEPT ![c] = "idle"]
  /\ stream' = [stream EXCEPT ![c] = NoStream]
  /\ base' = [base EXCEPT ![c] = 0]
  /\ lingering' = {w \in lingering : w.by # c}
  /\ UNCHANGED <<store, lease, chunk, writes, overrun>>

Next ==
  \/ ConfigureStateStore \/ Lapse \/ LateStore
  \/ \E c \in Client :
       \/ LockState(c) \/ LockLost(c) \/ UnlockState(c)
       \/ LoadState(c) \/ OpenRead(c) \/ ReadChunk(c) \/ ReadFails(c)
       \/ OpenWrite(c) \/ SendChunk(c) \/ EndStream(c) \/ CancelStream(c)
       \/ StoreState(c) \/ StoreFails(c) \/ CancelStore(c)
       \/ DeleteState(c) \/ DeleteFails(c) \/ CancelDelete(c)
       \/ Crash(c)

Spec == Init /\ [][Next]_vars

------------------------------------------------------------------------------
(***************************************************************************)
(* Properties.                                                             *)
(***************************************************************************)

\* Whatever chunk size is negotiated, and renegotiated while a read is under way, Terraform
\* stops reading at the last byte of the payload and not before.
ReadsAreWhole ==
  \A c \in Client : pc[c] = "read" => stream[c].pos = stream[c].total

\* "Storing a partial state would destroy the state already stored": what is stored is never
\* shorter than what its stream declared.
StoredAsDeclared ==
  [][\A c \in Client : store'.write = stream[c].write /\ store' # store
                       => store'.size = stream[c].total]_vars

\* Operations that lock the state work one after the other: from its read to its write or
\* delete, no other comes between, unless a lease lapsed under a working client or a cancelled
\* call was still running.  (Both are possible: a write does not check the lease.)
NoLostUpdate ==
  \A c \in Client : pc[c] \in {"read", "sending", "storing"} /\ ~overrun
                    => base[c] = store.write

==============================================================================
