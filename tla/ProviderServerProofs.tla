------------------------- MODULE ProviderServerProofs -------------------------
(***************************************************************************)
(* Proofs about ProviderServer for any number of RPCs and of schema        *)
(* computations: its type invariant and the five safety invariants.        *)
(*                                                                         *)
(* The three properties of the schema cache follow from one stronger fact, *)
(* CacheNamesItsAttempt, which is inductive where they are not: the cached *)
(* future is the one and only computation that is running or succeeded.    *)
(***************************************************************************)
EXTENDS ProviderServer, TLAPS

\* The future in the cache is exactly the computation that runs or has a good schema.
CacheNamesItsAttempt ==
  \A n \in Attempt : attempt[n] \in {"running", "ok"} <=> future = n

\* The handler remembers a provider only once there is one, which then stays registered.
ResolvedIsRegistered == resolved => init = "registered"

IInv ==
  /\ TypeOK
  /\ CacheNamesItsAttempt
  /\ ResolvedIsRegistered
  /\ HandlersSeeProvider
  /\ StopIsAnswered

------------------------------------------------------------------------------
\* Zero is "no future", never a computation.
LEMMA AttemptsAreNumbered == Attempt \subseteq 0..MaxAttempts /\ 0 \notin Attempt
  BY AttemptsAssumption DEF Attempt

\* What the cache promises its callers follows from the one fact about it.
LEMMA CacheIsSound ==
  ASSUME TypeOK, CacheNamesItsAttempt
  PROVE  OneComputation /\ CacheIsUsable /\ GoodSchemaStays
<1>1. OneComputation
  BY DEF OneComputation, CacheNamesItsAttempt
<1>2. CacheIsUsable
  <2> SUFFICES ASSUME future # 0 PROVE attempt[future] \in {"running", "ok"}
    BY DEF CacheIsUsable
  <2>1. future \in Attempt
    BY AttemptsAssumption DEF TypeOK, Attempt
  <2> QED
    BY <2>1 DEF CacheNamesItsAttempt
<1>3. GoodSchemaStays
  BY DEF GoodSchemaStays, CacheNamesItsAttempt
<1> QED
  BY <1>1, <1>2, <1>3

\* A step that leaves the cache alone preserves the fact about it.
LEMMA CacheUnchanged ==
  ASSUME CacheNamesItsAttempt, UNCHANGED <<future, attempt>>
  PROVE  CacheNamesItsAttempt'
  BY DEF CacheNamesItsAttempt

LEMMA IInvInit == Init => IInv
<1> SUFFICES ASSUME Init PROVE IInv
  OBVIOUS
<1>1. TypeOK
  <2>1. ready \in BOOLEAN /\ resolved \in BOOLEAN
    BY Zenon DEF Init
  <2>2. future \in 0..MaxAttempts /\ joined \in [Call -> 0..MaxAttempts]
    BY AttemptsAssumption DEF Init
  <2>3. call \in [Call -> InFlight \cup Answered \cup {"idle"}]
    BY DEF Init
  <2>4. attempt \in [Attempt -> {"unused", "running", "ok", "failed"}]
    BY DEF Init
  <2> QED
    BY <2>1, <2>2, <2>3, <2>4 DEF Init, TypeOK
<1>2. CacheNamesItsAttempt
  <2> SUFFICES ASSUME NEW n \in Attempt
               PROVE  attempt[n] \in {"running", "ok"} <=> future = n
    BY DEF CacheNamesItsAttempt
  <2>1. attempt[n] = "unused"
    BY DEF Init
  <2>2. future # n
    BY AttemptsAreNumbered DEF Init
  <2> QED
    BY <2>1, <2>2
<1>3. ResolvedIsRegistered /\ HandlersSeeProvider /\ StopIsAnswered
  BY DEF Init, ResolvedIsRegistered, HandlersSeeProvider, StopIsAnswered
<1> QED
  BY <1>1, <1>2, <1>3 DEF IInv

------------------------------------------------------------------------------
\* Joining the cache: a call finds a computation or starts the one that will be cached.
LEMMA JoinPreserves ==
  ASSUME TypeOK, CacheNamesItsAttempt, NEW c \in Call, Join(c)
  PROVE  /\ CacheNamesItsAttempt'
         /\ future' \in 0..MaxAttempts
         /\ attempt' \in [Attempt -> {"unused", "running", "ok", "failed"}]
         /\ joined' \in [Call -> 0..MaxAttempts]
<1>1. CASE future # 0 /\ joined' = [joined EXCEPT ![c] = future] /\ UNCHANGED <<future, attempt>>
  BY <1>1, CacheUnchanged DEF TypeOK
<1>2. CASE future = 0 /\ StartCompute(c)
  <2>1. PICK n \in Attempt : /\ Fresh(n)
                             /\ future' = n
                             /\ attempt' = [attempt EXCEPT ![n] = "running"]
                             /\ joined' = [joined EXCEPT ![c] = n]
    BY <1>2 DEF StartCompute
  <2>2. CacheNamesItsAttempt'
    \* With nothing cached, no other computation runs or has succeeded.
    <3> SUFFICES ASSUME NEW m \in Attempt
                 PROVE  attempt'[m] \in {"running", "ok"} <=> future' = m
      BY DEF CacheNamesItsAttempt
    <3>1. CASE m = n
      BY <2>1, <3>1 DEF TypeOK
    <3>2. CASE m # n
      <4>1. attempt[m] \notin {"running", "ok"}
        BY <1>2, AttemptsAreNumbered DEF CacheNamesItsAttempt
      <4> QED
        BY <2>1, <3>2, <4>1 DEF TypeOK
    <3> QED
      BY <3>1, <3>2
  <2> QED
    BY <2>1, <2>2, AttemptsAreNumbered DEF TypeOK
<1> QED
  BY <1>1, <1>2 DEF Join

\* The end of a computation: a good schema stays cached, a failure is forgotten.
LEMMA ComputeEndsPreserves ==
  ASSUME TypeOK, CacheNamesItsAttempt, NEW n \in Attempt, ComputeEnds(n)
  PROVE  /\ CacheNamesItsAttempt'
         /\ future' \in 0..MaxAttempts
         /\ attempt' \in [Attempt -> {"unused", "running", "ok", "failed"}]
<1>1. future = n
  BY DEF ComputeEnds, CacheNamesItsAttempt
<1>2. PICK outcome \in {"ok", "failed"} :
        /\ attempt' = [attempt EXCEPT ![n] = outcome]
        /\ future' = IF outcome = "failed" THEN 0 ELSE future
  BY DEF ComputeEnds
<1>3. CacheNamesItsAttempt'
  <2> SUFFICES ASSUME NEW m \in Attempt
               PROVE  attempt'[m] \in {"running", "ok"} <=> future' = m
    BY DEF CacheNamesItsAttempt
  <2>1. CASE m = n
    BY <1>1, <1>2, <2>1, AttemptsAreNumbered DEF TypeOK
  <2>2. CASE m # n
    <3>1. attempt[m] \notin {"running", "ok"}
      BY <1>1, <2>2 DEF CacheNamesItsAttempt
    <3> QED
      BY <1>1, <1>2, <2>2, <3>1, AttemptsAreNumbered DEF TypeOK
  <2> QED
    BY <2>1, <2>2
<1> QED
  BY <1>2, <1>3, AttemptsAssumption DEF TypeOK

\* A call on its way changes no answered call.
LEMMA StopStaysAnswered ==
  ASSUME TypeOK, StopIsAnswered, UNCHANGED server,
         \A c \in Call : call[c] = "ok" => call'[c] = "ok"
  PROVE  StopIsAnswered'
  BY DEF StopIsAnswered

LEMMA IInvNext == IInv /\ [Next]_vars => IInv'
<1> SUFFICES ASSUME IInv, [Next]_vars PROVE IInv'
  OBVIOUS
<1> USE DEF IInv
<1>1. CASE DiscoveryEnds \/ SetupStarts \/ SetupEnds
  <2> USE <1>1 DEF DiscoveryEnds, SetupStarts, SetupEnds, cache
  <2>1. TypeOK'
    BY DEF TypeOK
  <2>2. CacheNamesItsAttempt'
    BY CacheUnchanged
  <2>3. ResolvedIsRegistered' /\ HandlersSeeProvider'
    BY DEF ResolvedIsRegistered, HandlersSeeProvider
  <2>4. StopIsAnswered'
    BY DEF StopIsAnswered
  <2> QED
    BY <2>1, <2>2, <2>3, <2>4
<1>2. CASE ServerStops
  <2> USE <1>2 DEF ServerStops, cache
  <2>1. TypeOK'
    BY DEF TypeOK, Answered
  <2>2. CacheNamesItsAttempt'
    BY CacheUnchanged
  <2>3. ResolvedIsRegistered' /\ HandlersSeeProvider'
    BY DEF ResolvedIsRegistered, HandlersSeeProvider, InFlight
  <2>4. StopIsAnswered'
    BY DEF StopIsAnswered, InFlight
  <2> QED
    BY <2>1, <2>2, <2>3, <2>4
<1>3. ASSUME NEW n \in Attempt, ComputeEnds(n) PROVE IInv'
  <2> USE <1>3 DEF background
  <2>1. CacheNamesItsAttempt' /\ TypeOK'
    BY ComputeEndsPreserves DEF ComputeEnds, TypeOK
  <2>2. ResolvedIsRegistered' /\ HandlersSeeProvider' /\ StopIsAnswered'
    BY DEF ComputeEnds, ResolvedIsRegistered, HandlersSeeProvider, StopIsAnswered
  <2> QED
    BY <2>1, <2>2
<1>4. ASSUME NEW c \in Call,
             Arrive(c) \/ Unavailable(c) \/ WaitTimesOut(c) \/ SchemaReturns(c)
               \/ HandlerReturns(c) \/ StopFindsNoServer(c) \/ Cancel(c)
      PROVE  IInv'
  \* The calls that end or begin: nobody enters a handler.
  <2> USE <1>4 DEF Arrive, Unavailable, WaitTimesOut, SchemaReturns, HandlerReturns,
                   StopFindsNoServer, Cancel, Goto, background, cache
  <2>1. TypeOK'
    BY DEF TypeOK, InFlight, Answered
  <2>2. CacheNamesItsAttempt'
    BY CacheUnchanged
  <2>3. ResolvedIsRegistered' /\ HandlersSeeProvider'
    BY DEF TypeOK, ResolvedIsRegistered, HandlersSeeProvider
  <2>4. StopIsAnswered'
    BY StopStaysAnswered DEF TypeOK, InFlight
  <2> QED
    BY <2>1, <2>2, <2>3, <2>4
<1>5. ASSUME NEW c \in Call, EnsureReady(c) PROVE IInv'
  <2> USE <1>5 DEF EnsureReady, Goto, background, cache
  <2>1. TypeOK'
    BY DEF TypeOK, InFlight
  <2>2. CacheNamesItsAttempt'
    BY CacheUnchanged
  <2>3. ResolvedIsRegistered' /\ HandlersSeeProvider'
    BY DEF Resolved, TypeOK, ResolvedIsRegistered, HandlersSeeProvider
  <2>4. StopIsAnswered'
    BY StopStaysAnswered DEF TypeOK
  <2> QED
    BY <2>1, <2>2, <2>3, <2>4
<1>6. ASSUME NEW c \in Call, GetSchema(c) PROVE IInv'
  <2> USE <1>6 DEF GetSchema, Goto, background
  <2>1. TypeOK' /\ CacheNamesItsAttempt'
    BY JoinPreserves DEF TypeOK, InFlight
  <2>2. ResolvedIsRegistered' /\ HandlersSeeProvider'
    BY DEF Resolved, TypeOK, ResolvedIsRegistered, HandlersSeeProvider
  <2>3. StopIsAnswered'
    BY StopStaysAnswered DEF TypeOK
  <2> QED
    BY <2>1, <2>2, <2>3
<1>7. ASSUME NEW c \in Call, StopProvider(c) PROVE IInv'
  <2> USE <1>7 DEF StopProvider, Goto, cache
  <2>1. TypeOK'
    BY DEF TypeOK, Answered
  <2>2. CacheNamesItsAttempt'
    BY CacheUnchanged
  <2>3. ResolvedIsRegistered' /\ HandlersSeeProvider'
    BY DEF TypeOK, ResolvedIsRegistered, HandlersSeeProvider
  <2>4. StopIsAnswered'
    BY DEF StopIsAnswered, TypeOK
  <2> QED
    BY <2>1, <2>2, <2>3, <2>4
<1>8. CASE UNCHANGED vars
  <2> USE <1>8 DEF vars, background, cache
  <2>1. TypeOK' /\ CacheNamesItsAttempt'
    BY CacheUnchanged DEF TypeOK
  <2>2. ResolvedIsRegistered' /\ HandlersSeeProvider' /\ StopIsAnswered'
    BY DEF ResolvedIsRegistered, HandlersSeeProvider, StopIsAnswered
  <2> QED
    BY <2>1, <2>2
<1> QED
  BY <1>1, <1>2, <1>3, <1>4, <1>5, <1>6, <1>7, <1>8 DEF Next, Progress

------------------------------------------------------------------------------
\* The invariant behind the results below holds in every state of the server.
THEOREM Invariant == Spec => []IInv
  BY IInvInit, IInvNext, PTL DEF Spec

\* The variables keep their types: no call, attempt or future leaves its range.
THEOREM TypeCorrect == Spec => []TypeOK
<1>1. IInv => TypeOK
  BY DEF IInv
<1> QED
  BY <1>1, Invariant, PTL

\* However many RPCs arrive while discovery and setup() run in the background, none of them
\* reaches its handler before the provider is registered.
THEOREM Readiness == Spec => []HandlersSeeProvider
<1>1. IInv => HandlersSeeProvider
  BY DEF IInv
<1> QED
  BY <1>1, Invariant, PTL

\* GetProviderSchema computes once at a time for all its callers, whoever is cancelled.
THEOREM SingleFlight == Spec => []OneComputation
<1>1. IInv => OneComputation
  BY CacheIsSound DEF IInv
<1> QED
  BY <1>1, Invariant, PTL

\* The cached future is never a failed one.
THEOREM NoFailureIsKept == Spec => []CacheIsUsable
<1>1. IInv => CacheIsUsable
  BY CacheIsSound DEF IInv
<1> QED
  BY <1>1, Invariant, PTL

\* Once computed, the schema of the process never changes.
THEOREM SchemaIsStable == Spec => []GoodSchemaStays
<1>1. IInv => GoodSchemaStays
  BY CacheIsSound DEF IInv
<1> QED
  BY <1>1, Invariant, PTL

\* The server goes down only after a StopProvider call has had its answer.
THEOREM OrderlyStop == Spec => []StopIsAnswered
<1>1. IInv => StopIsAnswered
  BY DEF IInv
<1> QED
  BY <1>1, Invariant, PTL

==============================================================================
