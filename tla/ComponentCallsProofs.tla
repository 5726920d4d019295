------------------------- MODULE ComponentCallsProofs -------------------------
(***************************************************************************)
(* Proofs about the component protocols that MCComponentCalls checks one   *)
(* at a time: ephemeral resources, event streams, upgrades and moves, data *)
(* sources, the keys of private state, the catalogue, the installation,    *)
(* the walk that takes the marks off a value, the binding of a function's  *)
(* arguments, the declaration of schemas, the check of what apply          *)
(* returned, the conversion of values, and defaults in nested blocks.      *)
(* Each section has the inductive invariant of one of them, a lemma for    *)
(* its steps, and its theorems.                                            *)
(*                                                                         *)
(* Induction is on sets of numbers: InductionOnNumbers has no operator     *)
(* parameter, so that a step may cite it of the set of the n with P(n).    *)
(***************************************************************************)
EXTENDS Ephemeral, EventStreams, ResourceMigration, DataSources, PrivateStateKeys,
        ComponentCatalog, Installation, UnmarkWalk, FunctionCall, SchemaDeclaration,
        ValueRefinement, StateConversion, NestedDefaults,
        SequenceTheorems, FiniteSetTheorems, WellFoundedInduction, TLAPS

-----------------------------------------------------------------------------
(* Induction.                                                              *)

\* There is a least one in every set of numbers: the intervals up to them are
\* finite sets, and strict inclusion among finite sets is well-founded.
LEMMA LeastNumber ==
  ASSUME NEW S \in SUBSET Nat, S # {}
  PROVE  \E n \in S : \A m \in S : n <= m
<1> DEFINE T == {0..n : n \in S}
           R == StrictSubsetOrdering(Nat)
<1>1. \A n \in S : 0..n \in FiniteSubsetsOf(Nat)
  <2> TAKE n \in S
  <2>1. IsFiniteSet(0..n)
    BY FS_Interval
  <2>2. 0..n \in SUBSET Nat
    OBVIOUS
  <2> QED
    BY <2>1, <2>2, Zenon DEF FiniteSubsetsOf
<1>2. T \subseteq FiniteSubsetsOf(Nat) /\ T # {}
  BY <1>1
<1>3. PICK t \in T : \A u \in T : ~(<<u, t>> \in R)
  <2>1. IsWellFoundedOn(R, FiniteSubsetsOf(Nat))
    BY FS_StrictSubsetOrderingWellFounded
  <2> HIDE DEF T, R
  <2> QED
    BY <1>2, <2>1, WFMin
<1>4. PICK n \in S : t = 0..n
  OBVIOUS
<1>5. ASSUME NEW m \in S, m < n PROVE FALSE
  <2>1. 0..m \in SUBSET Nat /\ 0..n \in SUBSET Nat /\ 0..m \in T
    OBVIOUS
  <2>2. 0..m \subseteq 0..n /\ 0..m # 0..n
    <3>1. n \in 0..n /\ n \notin 0..m
      BY <1>5
    <3> QED
      BY <1>5, <3>1
  <2>3. <<0..m, 0..n>> \in R
    BY <2>1, <2>2, Zenon DEF StrictSubsetOrdering
  <2> QED
    BY <1>3, <1>4, <2>1, <2>3, Zenon
<1> QED
  BY <1>5

\* A set with zero and the successor of each of its members is all of Nat.
LEMMA InductionOnNumbers ==
  ASSUME NEW P \in SUBSET Nat, 0 \in P, \A n \in P : n + 1 \in P
  PROVE  P = Nat
<1> SUFFICES ASSUME Nat \ P # {} PROVE FALSE
  OBVIOUS
<1>1. PICK n \in Nat \ P : \A m \in Nat \ P : n <= m
  <2>1. Nat \ P \in SUBSET Nat
    OBVIOUS
  <2> QED
    BY <2>1, LeastNumber
<1>2. n - 1 \in Nat /\ n - 1 \in P
  BY <1>1
<1> QED
  BY <1>1, <1>2

\* A function on Nat may be defined by its value at zero and from each value to
\* the next: any two of its finite beginnings agree.
LEMMA IterationExists ==
  ASSUME NEW S, NEW base \in S, NEW step \in [S -> S]
  PROVE  \E g \in [Nat -> S] : g[0] = base /\ \A n \in Nat : g[n + 1] = step[g[n]]
<1> DEFINE Approx(n) == {h \in [0..n -> S] : h[0] = base /\ \A k \in 1..n : h[k] = step[h[k - 1]]}
<1>1. \A n \in Nat : Approx(n) # {}
  <2> DEFINE P == {n \in Nat : Approx(n) # {}}
  <2>1. 0 \in P
    <3>1. [k \in 0..0 |-> base] \in Approx(0)
      OBVIOUS
    <3> QED
      BY <3>1
  <2>2. ASSUME NEW n \in P PROVE n + 1 \in P
    <3>1. PICK h \in Approx(n) : TRUE
      OBVIOUS
    <3> DEFINE g == [k \in 0..(n + 1) |-> IF k <= n THEN h[k] ELSE step[h[n]]]
    <3>2. g \in [0..(n + 1) -> S] /\ g[0] = base
      BY <3>1
    <3>3. ASSUME NEW k \in 1..(n + 1) PROVE g[k] = step[g[k - 1]]
      BY <3>1
    <3>4. g \in Approx(n + 1)
      BY <3>2, <3>3
    <3> QED
      BY <3>4
  <2>3. P = Nat
    <3> HIDE DEF P
    <3>1. P \in SUBSET Nat
      BY DEF P
    <3> QED
      BY <2>1, <2>2, <3>1, InductionOnNumbers
  <2> QED
    BY <2>3
<1>2. ASSUME NEW n \in Nat, NEW m \in Nat, NEW h \in Approx(n), NEW g \in Approx(m)
      PROVE  \A k \in Nat : k <= n /\ k <= m => h[k] = g[k]
  <2> DEFINE P == {k \in Nat : k <= n /\ k <= m => h[k] = g[k]}
  <2>1. 0 \in P
    OBVIOUS
  <2>2. ASSUME NEW k \in P PROVE k + 1 \in P
    <3> SUFFICES ASSUME k + 1 <= n, k + 1 <= m PROVE h[k + 1] = g[k + 1]
      OBVIOUS
    <3>1. h[k] = g[k] /\ k + 1 \in 1..n /\ k + 1 \in 1..m /\ (k + 1) - 1 = k
      OBVIOUS
    <3> QED
      BY <3>1
  <2>3. P = Nat
    <3> HIDE DEF P
    <3>1. P \in SUBSET Nat
      BY DEF P
    <3> QED
      BY <2>1, <2>2, <3>1, InductionOnNumbers
  <2> QED
    BY <2>3
<1> DEFINE h(n) == CHOOSE a \in Approx(n) : TRUE
           g == [n \in Nat |-> h(n)[n]]
<1>3. \A n \in Nat : h(n) \in Approx(n)
  <2> HIDE DEF Approx
  <2> QED
    BY <1>1
<1>4. g \in [Nat -> S] /\ g[0] = base
  <2>1. ASSUME NEW n \in Nat PROVE h(n)[n] \in S
    <3>1. h(n) \in Approx(n)
      BY <1>3
    <3> HIDE DEF h
    <3> QED
      BY <3>1
  <2>2. h(0)[0] = base
    BY <1>3
  <2> HIDE DEF h
  <2> QED
    BY <2>1, <2>2
<1>5. ASSUME NEW n \in Nat PROVE g[n + 1] = step[g[n]]
  <2>1. h(n + 1)[n + 1] = step[h(n + 1)[n]]
    <3>1. h(n + 1) \in Approx(n + 1)
      <4> HIDE DEF h, Approx
      <4> QED
        BY <1>3
    <3>2. n + 1 \in 1..(n + 1) /\ (n + 1) - 1 = n
      OBVIOUS
    <3> HIDE DEF h
    <3> QED
      BY <3>1, <3>2
  <2>2. h(n + 1)[n] = h(n)[n]
    <3> HIDE DEF h, Approx
    <3>1. h(n + 1) \in Approx(n + 1) /\ h(n) \in Approx(n)
      BY <1>3
    <3> QED
      BY <1>2, <3>1
  <2> HIDE DEF h
  <2> QED
    BY <2>1, <2>2
<1> HIDE DEF g
<1> QED
  BY <1>4, <1>5

-----------------------------------------------------------------------------
(* Ephemeral resources.                                                    *)

\* Before the open hook has returned there is nothing to renew or to close.
NothingBeforeOpen ==
  ephPhase \in {"new", "validated"} =>
    ephSession = "none" /\ ephNewest = NoPrivate /\ ephGiven.given = ephGiven.newest

\* An instance that Terraform holds is open, and what Terraform hands back is
\* the newest private state, or nothing at all, or an error has told it why.
HeldIsNewest ==
  ephPhase = "open" =>
    ephSession = "open" /\ (ephPrivate \in {NoPrivate, ephNewest} \/ ephErrors)

EphInv ==
  /\ EphTypeOK
  /\ NothingBeforeOpen
  /\ HeldIsNewest
  /\ NewestReachesHook
  /\ NothingLeaksSilently

LEMMA EphInvInit == EphInit => EphInv
<1> SUFFICES ASSUME EphInit PROVE EphInv
  OBVIOUS
<1>1. ephRenewAt \in BOOLEAN /\ ephErrors \in BOOLEAN /\ ephAdded \in BOOLEAN
  BY Zenon DEF EphInit
<1>2. EphTypeOK
  BY <1>1 DEF EphInit, EphTypeOK, Privates, NoPrivate
<1> QED
  BY <1>2 DEF EphInit, EphInv, NothingBeforeOpen, HeldIsNewest, NewestReachesHook, NothingLeaksSilently

\* What is set of a response: no private state without one from the hook, and
\* an error unless what the hook returned was good.
LEMMA PopulatedFields ==
  ASSUME NEW back, NEW generation
  PROVE  /\ PopulateResponse(back, generation).private \in {NoPrivate, generation}
         /\ PopulateResponse(back, generation).private # NoPrivate => back.private = "good"
         /\ PopulateResponse(back, generation).error \/ back.private # "good"
              \/ PopulateResponse(back, generation).private = generation
  BY DEF PopulateResponse

LEMMA PopulatedFlags ==
  ASSUME NEW back, NEW generation
  PROVE  /\ PopulateResponse(back, generation).renewAt \in BOOLEAN
         /\ PopulateResponse(back, generation).error \in BOOLEAN
  BY Zenon DEF PopulateResponse

LEMMA EphStep == EphInv /\ [EphNext]_ephVars => EphInv'
<1> SUFFICES ASSUME EphInv, [EphNext]_ephVars PROVE EphInv'
  OBVIOUS
<1> USE DEF EphInv
<1> DEFINE Kept == NothingBeforeOpen' /\ HeldIsNewest' /\ NewestReachesHook' /\ NothingLeaksSilently'
<1>1. ASSUME NEW valid \in BOOLEAN, NEW content \in BOOLEAN, Validate(valid, content)
      PROVE  EphInv'
  <2>1. ephErrors' \in BOOLEAN
    BY <1>1, Zenon DEF Validate
  <2>2. UNCHANGED <<ephClass, ephPrivate, ephRenewAt, ephAdded, ephSession, ephNewest, ephGiven>>
        /\ ephPhase = "new" /\ ephPhase' \in {"validated", "done"}
    BY <1>1 DEF Validate
  <2>3. EphTypeOK'
    BY <2>1, <2>2 DEF EphTypeOK
  <2>4. Kept
    BY <2>2 DEF NothingBeforeOpen, HeldIsNewest, NewestReachesHook, NothingLeaksSilently
  <2> QED
    BY <2>3, <2>4
<1>2. CASE Drop
  <2>1. EphTypeOK'
    BY <1>2 DEF Drop, EphTypeOK
  <2>2. Kept
    BY <1>2 DEF Drop, NothingBeforeOpen, HeldIsNewest, NewestReachesHook, NothingLeaksSilently
  <2> QED
    BY <2>1, <2>2
<1>3. ASSUME NEW decodes \in BOOLEAN, NEW allowed \in BOOLEAN, NEW back \in OpenOutcomes,
             OpenRefused(decodes, back, allowed)
      PROVE  EphInv'
  <2>1. ephErrors' \in BOOLEAN
    BY <1>3, Zenon DEF OpenRefused
  <2>2. UNCHANGED <<ephClass, ephPrivate, ephRenewAt, ephAdded, ephSession, ephNewest, ephGiven>>
        /\ ephPhase = "validated" /\ ephPhase' = "done"
    BY <1>3 DEF OpenRefused
  <2>3. EphTypeOK'
    BY <2>1, <2>2 DEF EphTypeOK
  <2>4. Kept
    BY <2>2 DEF NothingBeforeOpen, HeldIsNewest, NewestReachesHook, NothingLeaksSilently
  <2> QED
    BY <2>3, <2>4
<1>4. ASSUME NEW back \in OpenOutcomes, NEW adds \in BOOLEAN, OpenDone(back, adds)
      PROVE  EphInv'
  <2> DEFINE response == PopulateResponse(back, NextGeneration)
  <2>1. /\ ephPhase = "validated" /\ ephSession' = "open"
        /\ ephNewest' = IF MakesPrivate(back) THEN NextGeneration ELSE ephNewest
        /\ ephPrivate' = response.private
        /\ ephAdded' = adds
        /\ UNCHANGED <<ephClass, ephGiven>>
    BY <1>4 DEF OpenDone
  <2>2. ephErrors' = response.error /\ ephRenewAt' = response.renewAt
        /\ ephPhase' = IF response.error THEN "done" ELSE "open"
    BY <1>4 DEF OpenDone
  <2>3. ephErrors' \in BOOLEAN /\ ephRenewAt' \in BOOLEAN
    BY <2>2, PopulatedFlags, Zenon
  <2>4. (ephPhase' = "open" /\ ephErrors' = FALSE) \/ (ephPhase' = "done" /\ ephErrors' = TRUE)
    BY <2>2, <2>3, Zenon
  <2>5. ephNewest = NoPrivate /\ NextGeneration = 1 /\ 1 \in Generations
    BY <2>1, MaxGenerationAssumption
    DEF NothingBeforeOpen, NextGeneration, NoPrivate, Generations
  <2>6. ephPrivate' \in {NoPrivate, ephNewest'}
    <3>1. response.private \in {NoPrivate, NextGeneration}
          /\ (response.private # NoPrivate => back.private = "good")
      BY PopulatedFields
    <3> HIDE DEF response
    <3> QED
      BY <3>1, <2>1 DEF MakesPrivate
  <2> HIDE DEF response
  <2>7. EphTypeOK'
    BY <2>1, <2>3, <2>4, <2>5, <2>6 DEF EphTypeOK, Privates, NoPrivate
  <2>8. Kept
    BY <2>1, <2>4, <2>6
    DEF NothingBeforeOpen, HeldIsNewest, NewestReachesHook, NothingLeaksSilently
  <2> QED
    BY <2>7, <2>8
<1>5. ASSUME NEW back \in RenewOutcomes, NEW adds \in BOOLEAN, Renew(back, adds)
      PROVE  EphInv'
  <2> DEFINE response == RenewResponse(back)
  <2>1. /\ ephPhase = "open"
        /\ UNCHANGED <<ephClass, ephPhase, ephSession>>
        /\ ephGiven' = IF HookIsReached THEN [given |-> PrivateState, newest |-> ephNewest]
                       ELSE ephGiven
        /\ ephNewest' = IF HookIsReached /\ MakesPrivate(back) THEN NextGeneration ELSE ephNewest
        /\ HookIsReached /\ MakesPrivate(back) => NextGeneration \in Generations
    BY <1>5 DEF Renew
  <2>2. /\ ephErrors' = (ephErrors \/ response.error)
        /\ ephAdded' = (ephAdded \/ (HookIsReached /\ adds))
        /\ ephRenewAt' = response.renewAt
        /\ ephPrivate' = IF response.error THEN ephPrivate ELSE response.private
    BY <1>5 DEF Renew
  <2>3. response.renewAt \in BOOLEAN /\ response.error \in BOOLEAN
    BY PopulatedFlags, Zenon DEF RenewResponse, ErrorResponse
  <2>4. ephErrors' \in BOOLEAN /\ ephAdded' \in BOOLEAN /\ ephRenewAt' \in BOOLEAN
    BY <2>2, <2>3, Zenon
  <2>5. ephErrors => ephErrors'
    BY <2>2, Zenon
  <2>6. ephErrors' \/ ephPrivate' \in {NoPrivate, ephNewest'}
    <3>1. CASE response.error
      BY <3>1, <2>2, Zenon
    <3>2. CASE ~response.error
      <4>1. ephPrivate' = response.private
        BY <3>2, <2>2, Zenon
      <4>2. HookIsReached /\ response = PopulateResponse(back, NextGeneration)
        <5>1. ErrorResponse.error
          BY DEF ErrorResponse
        <5> QED
          BY <5>1, <3>2, Zenon DEF RenewResponse
      <4>3. response.private \in {NoPrivate, NextGeneration}
            /\ (response.private # NoPrivate => back.private = "good")
        BY <4>2, PopulatedFields
      <4> HIDE DEF response
      <4> QED
        BY <4>1, <4>2, <4>3, <2>1 DEF MakesPrivate
    <3> QED
      BY <3>1, <3>2
  <2>7. ephPrivate' \in Privates
    <3>1. response.private \in {NoPrivate, NextGeneration}
          /\ (response.private # NoPrivate => back.private = "good" /\ HookIsReached)
      BY PopulatedFields DEF RenewResponse, ErrorResponse
    <3>2. ephPrivate' \in {ephPrivate, response.private}
      BY <2>2, Zenon
    <3> HIDE DEF response
    <3> QED
      BY <3>1, <3>2, <2>1 DEF EphTypeOK, Privates, MakesPrivate
  <2> HIDE DEF response
  <2>8. EphTypeOK'
    BY <2>1, <2>4, <2>7 DEF EphTypeOK, Privates, PrivateState
  <2>9. Kept
    <3>1. NothingBeforeOpen' /\ HeldIsNewest' /\ NothingLeaksSilently'
      BY <2>1, <2>6 DEF NothingBeforeOpen, HeldIsNewest, NothingLeaksSilently
    <3>2. NewestReachesHook'
      BY <2>1, <2>5 DEF HeldIsNewest, NewestReachesHook, PrivateState, HookIsReached
    <3> QED
      BY <3>1, <3>2
  <2> QED
    BY <2>8, <2>9
<1>6. ASSUME NEW hook \in CloseHooks, Close(hook)
      PROVE  EphInv'
  <2>1. /\ ephPhase = "open" /\ ephPhase' = "done"
        /\ UNCHANGED <<ephClass, ephPrivate, ephRenewAt, ephNewest>>
        /\ ephGiven' = IF HookIsReached THEN [given |-> PrivateState, newest |-> ephNewest]
                       ELSE ephGiven
        /\ ephSession' = IF HookIsReached /\ hook = "closes" THEN "closed" ELSE ephSession
    BY <1>6 DEF Close
  <2>2. /\ ephErrors' = (ephErrors \/ ~HookIsReached \/ hook = "raises")
        /\ ephAdded' = (ephAdded \/ (HookIsReached /\ hook = "adds an error"))
    BY <1>6 DEF Close
  <2>3. ephErrors' \in BOOLEAN /\ ephAdded' \in BOOLEAN
    BY <2>2, Zenon
  <2>4. ephErrors => ephErrors'
    BY <2>2, Zenon
  <2>5. ephErrors' \/ ephAdded' \/ (HookIsReached /\ hook = "closes")
    BY <2>2, Zenon DEF CloseHooks
  <2>6. EphTypeOK'
    BY <2>1, <2>3 DEF EphTypeOK, PrivateState
  <2>7. NothingBeforeOpen' /\ HeldIsNewest' /\ NothingLeaksSilently'
    BY <2>1, <2>5 DEF NothingBeforeOpen, HeldIsNewest, NothingLeaksSilently
  <2>8. NewestReachesHook'
    BY <2>1, <2>4 DEF HeldIsNewest, NewestReachesHook, PrivateState, HookIsReached
  <2> QED
    BY <2>6, <2>7, <2>8
<1>7. CASE UNCHANGED ephVars
  BY <1>7 DEF ephVars, EphTypeOK, NothingBeforeOpen, HeldIsNewest, NewestReachesHook,
              NothingLeaksSilently
<1> QED
  BY <1>1, <1>2, <1>3, <1>4, <1>5, <1>6, <1>7 DEF EphNext

\* The variables of the ephemeral handlers keep their types.
THEOREM EphTypeCorrect == EphSpec => []EphTypeOK
<1>1. EphInv => EphTypeOK
  BY DEF EphInv
<1> QED
  BY EphInvInit, EphStep, <1>1, PTL DEF EphSpec

\* A hook gets the newest private state, or an error has said why not, for any
\* number of renewals with any outcome (renew_ and close_ephemeral_resource).
THEOREM NewestIsGiven == EphSpec => []NewestReachesHook
<1>1. EphInv => NewestReachesHook
  BY DEF EphInv
<1> QED
  BY EphInvInit, EphStep, <1>1, PTL DEF EphSpec

\* What was opened is closed or reported (open_ and close_ephemeral_resource).
THEOREM NoSilentLeak == EphSpec => []NothingLeaksSilently
<1>1. EphInv => NothingLeaksSilently
  BY DEF EphInv
<1> QED
  BY EphInvInit, EphStep, <1>1, PTL DEF EphSpec

-----------------------------------------------------------------------------
(* Event streams.                                                          *)

\* Between two calls nothing is left of the last one.
IdleIsClean == evPhase = "idle" => evCall = NoCall
FreshStream == evPhase \in {"idle", "starting"} => evEvents = <<>> /\ evItems = 0

\* While an action runs its stream has progress only; a listing that goes on
\* has sent one result for each item, and is below its limit.
ProgressOnly ==
  evCall.kind = "action" /\ evPhase # "ended" =>
    \A i \in 1..Len(evEvents) : evEvents[i] = Progress
ResultsOnly ==
  evCall.kind = "list" /\ evPhase \in {"starting", "iterating"} =>
    /\ Len(evEvents) = evItems
    /\ \A i \in 1..Len(evEvents) : evEvents[i] = Result
    /\ evCall.limit > 0 => evItems < evCall.limit

EvInv ==
  /\ EvTypeOK
  /\ IdleIsClean
  /\ FreshStream
  /\ ProgressOnly
  /\ ResultsOnly
  /\ CompletesOnce
  /\ LimitIsKept

LEMMA EventKinds ==
  /\ Events = {"progress", "result", "completed", "completed with error", "error"}
  /\ Progress = "progress" /\ Result = "result" /\ Completed = "completed"
  /\ Failed = "completed with error" /\ ErrorOnly = "error"
  BY DEF Events, Progress, Result, Completed, Failed, ErrorOnly

LEMMA CallFacts ==
  ASSUME NEW call \in Calls
  PROVE  /\ call.kind \in {"none", "action", "list"}
         /\ call.limit \in Nat
         /\ call.kind # "list" => call.limit = 0
<1>1. CASE call = NoCall
  BY <1>1 DEF NoCall
<1>2. CASE call \in [kind : {"action"}, limit : {0}]
  BY <1>2
<1>3. CASE call \in [kind : {"list"}, limit : Limits]
  BY <1>3, LimitsAssumption
<1> QED
  BY <1>1, <1>2, <1>3 DEF Calls

LEMMA EvInvInit == EvInit => EvInv
<1> SUFFICES ASSUME EvInit PROVE EvInv
  OBVIOUS
<1>1. evPlan \in PlanAnswers
  <2>1. evPlan = [error |-> FALSE, deferred |-> FALSE]
    BY DEF EvInit, NoAnswer
  <2> QED
    BY <2>1, Zenon DEF PlanAnswers
<1>2. EvTypeOK
  BY <1>1 DEF EvInit, EvTypeOK, Calls, Phases
<1>3. IdleIsClean /\ FreshStream /\ ProgressOnly /\ ResultsOnly
  BY DEF EvInit, IdleIsClean, FreshStream, ProgressOnly, ResultsOnly, NoCall
<1>4. CompletesOnce /\ LimitIsKept
  BY DEF EvInit, CompletesOnce, LimitIsKept, NoCall
<1> QED
  BY <1>2, <1>3, <1>4 DEF EvInv

\* The unary calls answer without touching a stream.
LEMMA UnaryStep ==
  ASSUME EvInv, Unary
  PROVE  EvInv'
<1>1. UNCHANGED Streams
  BY DEF Unary, ValidateActionConfig, ValidateListResourceConfig, PlanAction
<1>2. evPlan' \in PlanAnswers
  <2>1. \E e \in BOOLEAN, d \in BOOLEAN : evPlan' = [error |-> e, deferred |-> d]
    <3>1. ASSUME NEW found, NEW decodes, NEW hook, ValidateActionConfig(found, decodes, hook)
          PROVE  \E e \in BOOLEAN, d \in BOOLEAN : evPlan' = [error |-> e, deferred |-> d]
      BY <3>1, Zenon DEF ValidateActionConfig
    <3>2. ASSUME NEW any, NEW found, NEW decodes, NEW hook,
                 ValidateListResourceConfig(any, found, decodes, hook)
          PROVE  \E e \in BOOLEAN, d \in BOOLEAN : evPlan' = [error |-> e, deferred |-> d]
      BY <3>2, Zenon DEF ValidateListResourceConfig
    <3>3. ASSUME NEW found, NEW decodes, NEW hook, NEW allowed,
                 PlanAction(found, decodes, hook, allowed)
          PROVE  \E e \in BOOLEAN, d \in BOOLEAN : evPlan' = [error |-> e, deferred |-> d]
      BY <3>3, Zenon DEF PlanAction
    <3> QED
      BY <3>1, <3>2, <3>3, Zenon DEF Unary
  <2>2. PICK e \in BOOLEAN, d \in BOOLEAN : evPlan' = [error |-> e, deferred |-> d]
    BY <2>1, Zenon
  <2>3. [error |-> e, deferred |-> d] \in [error : BOOLEAN, deferred : BOOLEAN]
    BY Zenon
  <2> QED
    BY <2>2, <2>3, Zenon DEF PlanAnswers
<1>3. EvTypeOK'
  BY <1>1, <1>2 DEF EvInv, EvTypeOK, Streams
<1>4. (IdleIsClean /\ FreshStream /\ ProgressOnly /\ ResultsOnly)'
  BY <1>1 DEF EvInv, Streams, IdleIsClean, FreshStream, ProgressOnly, ResultsOnly
<1>5. (CompletesOnce /\ LimitIsKept)'
  BY <1>1 DEF EvInv, Streams, CompletesOnce, Completions, LimitIsKept
<1> QED
  BY <1>3, <1>4, <1>5 DEF EvInv

LEMMA RequestStep ==
  ASSUME EvInv, NEW call \in Calls, Request(call)
  PROVE  EvInv'
<1>1. /\ evPhase = "idle" /\ evPhase' = "starting"
      /\ evCall' = call /\ UNCHANGED <<evEvents, evItems, evPlan>>
  BY DEF Request
<1>2. evEvents = <<>> /\ evItems = 0
  BY <1>1 DEF EvInv, FreshStream
<1>3. EvTypeOK'
  BY <1>1 DEF EvInv, EvTypeOK, Phases
<1>4. (IdleIsClean /\ FreshStream /\ ProgressOnly)'
  BY <1>1, <1>2 DEF IdleIsClean, FreshStream, ProgressOnly
<1>5. ResultsOnly'
  BY <1>1, <1>2, CallFacts DEF ResultsOnly
<1>6. (CompletesOnce /\ LimitIsKept)'
  BY <1>1, <1>2 DEF CompletesOnce, Completions, LimitIsKept
<1> QED
  BY <1>3, <1>4, <1>5, <1>6 DEF EvInv

\* A stream of an action that ends by sending one completed event.
LEMMA ActionEnds ==
  ASSUME EvInv, NEW event \in {Completed, Failed},
         evCall.kind = "action", evPhase \in {"starting", "iterating"},
         Send(event), evPhase' = "ended", UNCHANGED <<evCall, evItems, evPlan>>
  PROVE  EvInv'
<1> DEFINE n == Len(evEvents)
<1>1. /\ evEvents' = Append(evEvents, event) /\ evEvents \in Seq(Events) /\ event \in Events
      /\ n \in Nat /\ Len(evEvents') = n + 1 /\ evEvents'[n + 1] = event
      /\ \A i \in 1..n : evEvents'[i] = evEvents[i]
  BY DEF Send, EvInv, EvTypeOK, Events
<1>2. \A i \in 1..n : evEvents[i] = Progress
  BY DEF EvInv, ProgressOnly
<1>3. EvTypeOK'
  BY <1>1 DEF EvInv, EvTypeOK, Phases
<1>4. (IdleIsClean /\ FreshStream /\ ProgressOnly /\ ResultsOnly)'
  BY DEF IdleIsClean, FreshStream, ProgressOnly, ResultsOnly
<1>5. CompletesOnce'
  <2> HIDE DEF n
  <2>1. \A i \in 1..n : evEvents'[i] \notin {Completed, Failed}
    BY <1>1, <1>2, EventKinds
  <2>2. Completions' = {n + 1}
    BY <1>1, <2>1 DEF Completions
  <2> QED
    BY <2>2, <1>1 DEF CompletesOnce
<1>6. LimitIsKept'
  BY DEF LimitIsKept
<1> QED
  BY <1>3, <1>4, <1>5, <1>6 DEF EvInv

\* A stream that stops without sending anything more: cancelled, broken, or a
\* listing's end.
LEMMA StreamStops ==
  ASSUME EvInv, evPhase \in {"starting", "iterating"}, UNCHANGED <<evCall, evEvents, evItems, evPlan>>,
         evPhase' \in {"broken", "cancelled"} \/ (evPhase' = "ended" /\ evCall.kind = "list")
  PROVE  EvInv'
<1>1. EvTypeOK'
  BY DEF EvInv, EvTypeOK, Phases
<1>2. (IdleIsClean /\ FreshStream /\ ProgressOnly /\ ResultsOnly)'
  BY DEF EvInv, IdleIsClean, FreshStream, ProgressOnly, ResultsOnly
<1>3. (CompletesOnce /\ LimitIsKept)'
  BY DEF EvInv, CompletesOnce, Completions, LimitIsKept
<1> QED
  BY <1>1, <1>2, <1>3 DEF EvInv

\* A stream that is ready for its loop.
LEMMA LoopStarts ==
  ASSUME EvInv, evPhase = "starting", evPhase' = "iterating",
         UNCHANGED <<evCall, evEvents, evItems, evPlan>>
  PROVE  EvInv'
<1>1. EvTypeOK'
  BY DEF EvInv, EvTypeOK, Phases
<1>2. (IdleIsClean /\ FreshStream /\ ProgressOnly /\ ResultsOnly)'
  BY DEF EvInv, IdleIsClean, FreshStream, ProgressOnly, ResultsOnly
<1>3. (CompletesOnce /\ LimitIsKept)'
  BY DEF EvInv, CompletesOnce, Completions, LimitIsKept
<1> QED
  BY <1>1, <1>2, <1>3 DEF EvInv

LEMMA StartActionStep ==
  ASSUME EvInv, NEW found, NEW prepared, StartAction(found, prepared)
  PROVE  EvInv'
<1>1. CASE found /\ prepared
  <2>1. /\ evPhase = "starting" /\ evPhase' = "iterating"
        /\ UNCHANGED <<evCall, evEvents, evItems, evPlan>>
    BY <1>1 DEF StartAction
  <2> QED
    BY <2>1, LoopStarts
<1>2. CASE ~(found /\ prepared)
  <2>1. /\ evCall.kind = "action" /\ evPhase = "starting" /\ evPhase' = "ended"
        /\ Send(Failed) /\ UNCHANGED <<evCall, evItems, evPlan>>
    BY <1>2 DEF StartAction
  <2> QED
    BY <2>1, ActionEnds
<1> QED
  BY <1>1, <1>2

LEMMA IterateActionStep ==
  ASSUME EvInv, NEW step \in Steps, IterateAction(step)
  PROVE  EvInv'
<1>1. evCall.kind = "action" /\ evPhase = "iterating" /\ UNCHANGED <<evCall, evPlan>>
  BY DEF IterateAction
<1>2. CASE step = "yields"
  <2>1. Send(Progress) /\ evItems' = evItems + 1 /\ UNCHANGED evPhase
    BY <1>2 DEF IterateAction
  <2> DEFINE n == Len(evEvents)
  <2>2. /\ evEvents' = Append(evEvents, Progress) /\ evEvents \in Seq(Events)
        /\ Progress \in Events
        /\ n \in Nat /\ Len(evEvents') = n + 1 /\ evEvents'[n + 1] = Progress
        /\ \A i \in 1..n : evEvents'[i] = evEvents[i]
    BY <2>1 DEF Send, EvInv, EvTypeOK, Events
  <2>3. EvTypeOK'
    BY <1>1, <2>1, <2>2 DEF EvInv, EvTypeOK
  <2>4. \A i \in 1..Len(evEvents') : evEvents'[i] = Progress
    BY <1>1, <2>2 DEF EvInv, ProgressOnly
  <2>5. (IdleIsClean /\ FreshStream /\ ProgressOnly /\ ResultsOnly)'
    BY <1>1, <2>1, <2>4 DEF IdleIsClean, FreshStream, ProgressOnly, ResultsOnly
  <2>6. CompletesOnce'
    BY <1>1, <2>1, <2>4, EventKinds DEF CompletesOnce, Completions
  <2>7. LimitIsKept'
    BY <1>1 DEF LimitIsKept
  <2> QED
    BY <2>3, <2>5, <2>6, <2>7 DEF EvInv
<1>3. CASE step = "raises" \/ step = "finishes"
  <2>1. evPhase' = "ended" /\ UNCHANGED evItems /\ \E event \in {Completed, Failed} : Send(event)
    BY <1>3 DEF IterateAction
  <2> QED
    BY <1>1, <2>1, ActionEnds
<1>4. CASE step = "cancelled"
  <2>1. evPhase' = "broken" /\ UNCHANGED <<evEvents, evItems>>
    BY <1>4 DEF IterateAction
  <2> QED
    BY <1>1, <2>1, StreamStops
<1> QED
  BY <1>2, <1>3, <1>4 DEF Steps

\* A listing that fails before or in its loop, with one error event at its end.
LEMMA ListFails ==
  ASSUME EvInv, evCall.kind = "list", evPhase \in {"starting", "iterating"},
         Send(ErrorOnly), evPhase' = "ended", UNCHANGED <<evCall, evItems, evPlan>>
  PROVE  EvInv'
<1> DEFINE n == Len(evEvents)
<1>1. /\ evEvents' = Append(evEvents, ErrorOnly) /\ evEvents \in Seq(Events) /\ ErrorOnly \in Events
      /\ n \in Nat /\ Len(evEvents') = n + 1 /\ evEvents'[n + 1] = ErrorOnly
      /\ \A i \in 1..n : evEvents'[i] = evEvents[i]
  BY DEF Send, EvInv, EvTypeOK, Events
<1>2. \A i \in 1..n : evEvents[i] = Result
  BY DEF EvInv, ResultsOnly
<1>3. evCall.limit > 0 => n < evCall.limit
  BY DEF EvInv, ResultsOnly
<1>4. EvTypeOK'
  BY <1>1 DEF EvInv, EvTypeOK, Phases
<1>5. (IdleIsClean /\ FreshStream /\ ProgressOnly /\ ResultsOnly /\ CompletesOnce)'
  BY DEF IdleIsClean, FreshStream, ProgressOnly, ResultsOnly, CompletesOnce
<1>6. LimitIsKept'
  <2> HIDE DEF n
  <2>1. evCall.limit \in Nat
    BY CallFacts DEF EvInv, EvTypeOK
  <2>2. Result # ErrorOnly
    BY EventKinds
  <2>3. \A i \in 1..n : evEvents'[i] = Result
    BY <1>1, <1>2
  <2>4. \A i \in 1..(n + 1) : i \in 1..n \/ i = n + 1
    BY <1>1
  <2>5. \A i \in 1..(n + 1) : evEvents'[i] = Result => i \in 1..n
    BY <1>1, <2>2, <2>4
  <2>6. \A i \in 1..(n + 1) : evEvents'[i] = ErrorOnly => i = n + 1
    BY <2>2, <2>3, <2>4
  <2>7. \A i, j \in 1..(n + 1) : i < j /\ evEvents'[i] = ErrorOnly => evEvents'[j] # Result
    BY <1>1, <2>2, <2>6
  <2> QED
    BY <1>1, <1>3, <2>1, <2>5, <2>7 DEF LimitIsKept
<1> QED
  BY <1>4, <1>5, <1>6 DEF EvInv

LEMMA StartListStep ==
  ASSUME EvInv, NEW anyRegistered, NEW found, NEW identity, NEW complaints \in 0..2,
         NEW objectsHaveSchema,
         StartList(anyRegistered, found, identity, complaints, objectsHaveSchema)
  PROVE  EvInv'
<1>1. evCall.kind = "list" /\ evPhase = "starting" /\ UNCHANGED <<evCall, evItems, evPlan>>
  BY DEF StartList
<1>2. CASE UNCHANGED evEvents
  <2>1. evPhase' \in {"ended", "broken", "iterating"}
    BY <1>2, EventKinds DEF StartList
  <2> QED
    BY <1>1, <1>2, <2>1, StreamStops, LoopStarts
<1>3. CASE evPhase' = "ended" /\ Send(ErrorOnly)
  BY <1>1, <1>3, ListFails
<1>4. CASE evPhase' = "ended" /\ evEvents' = evEvents \o [i \in 1..complaints |-> ErrorOnly]
  <2>1. evEvents = <<>>
    BY <1>1 DEF EvInv, FreshStream
  <2>2. evEvents' = <<>> \o [i \in 1..complaints |-> ErrorOnly]
    BY <1>4, <2>1
  <2>3. /\ evEvents' \in Seq(Events)
        /\ \A i \in 1..Len(evEvents') : evEvents'[i] = ErrorOnly
    BY <2>2 DEF Events
  <2>4. EvTypeOK'
    BY <1>1, <1>4, <2>3 DEF EvInv, EvTypeOK, Phases
  <2>5. (IdleIsClean /\ FreshStream /\ ProgressOnly /\ ResultsOnly /\ CompletesOnce)'
    BY <1>1, <1>4 DEF IdleIsClean, FreshStream, ProgressOnly, ResultsOnly, CompletesOnce
  <2>6. LimitIsKept'
    BY <2>3, EventKinds DEF LimitIsKept
  <2> QED
    BY <2>4, <2>5, <2>6 DEF EvInv
<1> QED
  BY <1>2, <1>3, <1>4 DEF StartList

LEMMA IterateListStep ==
  ASSUME EvInv, NEW step \in Steps, IterateList(step)
  PROVE  EvInv'
<1>1. evCall.kind = "list" /\ evPhase = "iterating" /\ UNCHANGED <<evCall, evPlan>>
  BY DEF IterateList
<1>2. CASE step = "yields"
  <2> DEFINE n == Len(evEvents)
  <2>1. /\ Send(Result) /\ evItems' = evItems + 1
        /\ evPhase' = IF ReachedLimit(evCall.limit, evItems + 1) THEN "ended" ELSE "iterating"
    BY <1>2 DEF IterateList
  <2>2. /\ evEvents' = Append(evEvents, Result) /\ evEvents \in Seq(Events) /\ Result \in Events
        /\ n \in Nat /\ Len(evEvents') = n + 1 /\ evEvents'[n + 1] = Result
        /\ \A i \in 1..n : evEvents'[i] = evEvents[i]
    BY <2>1 DEF Send, EvInv, EvTypeOK, Events
  <2>3. n = evItems /\ (\A i \in 1..n : evEvents[i] = Result)
        /\ (evCall.limit > 0 => n < evCall.limit)
    BY <1>1 DEF EvInv, ResultsOnly
  <2>4. evCall.limit \in Nat
    BY CallFacts DEF EvInv, EvTypeOK
  <2> HIDE DEF n
  <2>5. \A i \in 1..(n + 1) : evEvents'[i] = Result
    BY <2>2, <2>3
  <2>6. EvTypeOK'
    BY <1>1, <2>1, <2>2 DEF EvInv, EvTypeOK, Phases
  <2>7. (IdleIsClean /\ FreshStream /\ ProgressOnly /\ CompletesOnce)'
    BY <1>1, <2>1 DEF IdleIsClean, FreshStream, ProgressOnly, CompletesOnce
  <2>8. ResultsOnly'
    BY <1>1, <2>1, <2>2, <2>3, <2>4, <2>5 DEF ResultsOnly, ReachedLimit
  <2>9. LimitIsKept'
    <3>1. \A i \in 1..(n + 1) : evEvents'[i] # ErrorOnly
      BY <2>5, EventKinds
    <3> QED
      BY <1>1, <2>2, <2>3, <2>4, <3>1 DEF LimitIsKept
  <2> QED
    BY <2>6, <2>7, <2>8, <2>9 DEF EvInv
<1>3. CASE step = "raises"
  <2>1. Send(ErrorOnly) /\ evPhase' = "ended" /\ UNCHANGED evItems
    BY <1>3 DEF IterateList
  <2> QED
    BY <1>1, <2>1, ListFails
<1>4. CASE step \in {"finishes", "cancelled"}
  <2>1. evPhase' \in {"ended", "broken"} /\ UNCHANGED <<evEvents, evItems>>
    BY <1>4 DEF IterateList
  <2> QED
    BY <1>1, <2>1, StreamStops
<1> QED
  BY <1>2, <1>3, <1>4 DEF Steps

LEMMA NextRequestStep ==
  ASSUME EvInv, NextRequest
  PROVE  EvInv'
<1>1. evPhase' = "idle" /\ evCall' = NoCall /\ evEvents' = <<>> /\ evItems' = 0 /\ UNCHANGED evPlan
  BY DEF NextRequest
<1>2. EvTypeOK'
  BY <1>1 DEF EvInv, EvTypeOK, Calls, Phases
<1>3. (IdleIsClean /\ FreshStream /\ ProgressOnly /\ ResultsOnly)'
  BY <1>1 DEF IdleIsClean, FreshStream, ProgressOnly, ResultsOnly
<1>4. (CompletesOnce /\ LimitIsKept)'
  BY <1>1 DEF CompletesOnce, LimitIsKept, NoCall
<1> QED
  BY <1>2, <1>3, <1>4 DEF EvInv

LEMMA EvStep == EvInv /\ [EvNext]_evVars => EvInv'
<1> SUFFICES ASSUME EvInv, [EvNext]_evVars PROVE EvInv'
  OBVIOUS
<1>1. CASE Unary
  BY <1>1, UnaryStep
<1>2. CASE \E call \in Calls : Request(call)
  BY <1>2, RequestStep
<1>3. CASE StreamStep
  BY <1>3, StartActionStep, StartListStep, IterateActionStep, IterateListStep DEF StreamStep
<1>4. CASE CancelStream
  <2>1. evPhase \in {"starting", "iterating"} /\ evPhase' = "cancelled"
        /\ UNCHANGED <<evCall, evEvents, evItems, evPlan>>
    BY <1>4 DEF CancelStream
  <2> QED
    BY <2>1, StreamStops
<1>5. CASE NextRequest
  BY <1>5, NextRequestStep
<1>6. CASE UNCHANGED evVars
  <2>1. (EvTypeOK /\ IdleIsClean /\ FreshStream /\ ProgressOnly /\ ResultsOnly)'
    BY <1>6 DEF evVars, EvInv, EvTypeOK, IdleIsClean, FreshStream, ProgressOnly, ResultsOnly
  <2>2. (CompletesOnce /\ LimitIsKept)'
    BY <1>6 DEF evVars, EvInv, CompletesOnce, Completions, LimitIsKept
  <2> QED
    BY <2>1, <2>2 DEF EvInv
<1> QED
  BY <1>1, <1>2, <1>3, <1>4, <1>5, <1>6 DEF EvNext

\* The variables of the streams keep their types.
THEOREM EvTypeCorrect == EvSpec => []EvTypeOK
<1>1. EvInv => EvTypeOK
  BY DEF EvInv
<1> QED
  BY EvInvInit, EvStep, <1>1, PTL DEF EvSpec

\* A stream of InvokeAction that ends has exactly one completed event, its
\* last, after any number of progress events (stream_invoke_action).
THEOREM OneCompletion == EvSpec => []CompletesOnce
<1>1. EvInv => CompletesOnce
  BY DEF EvInv
<1> QED
  BY EvInvInit, EvStep, <1>1, PTL DEF EvSpec

\* A listing keeps to any limit, whatever the list resource yields
\* (_stream_results).
THEOREM LimitsHold == EvSpec => []LimitIsKept
<1>1. EvInv => LimitIsKept
  BY DEF EvInv
<1> QED
  BY EvInvInit, EvStep, <1>1, PTL DEF EvSpec

-----------------------------------------------------------------------------
(* Upgrades and moves.                                                     *)

MigInv == MigTypeOK /\ RecordReadsBack

LEMMA MarkersAreNoPayloads ==
  /\ Unset \notin Payloads /\ NoIdentity \notin Payloads /\ NotAPayload \notin Payloads
  /\ Unset # NoIdentity /\ Unset # NotAPayload /\ NoIdentity # NotAPayload
  /\ Unset \notin Values
  BY NoneAssumption DEF Unset, NoIdentity, NotAPayload, NullObject, Payloads, Values

\* What the installed release declares is a payload.
LEMMA CurrentIsPayload ==
  ASSUME MigTypeOK, NEW type \in Types
  PROVE  /\ migProvider.schema[type] \in Versions
         /\ Current(type) \in Payloads /\ Accepted(type) \subseteq Values
         /\ RecordedVersion(migProvider.identity[type]) \in Versions
         /\ migProvider.identity[type] # None =>
              /\ migProvider.identity[type] \in Versions
              /\ CurrentIdentity(type) \in Payloads
<1>1. 0 \in Versions
  BY MaxVersionAssumption DEF Versions
<1> QED
  BY <1>1 DEF MigTypeOK, Releases, Payloads, Values, Current, CurrentIdentity, Accepted,
     RecordedVersion

\* What a handler answers.
Responses ==
  [error : BOOLEAN, state : Values \cup {Unset}, private : Types \cup {None},
   identity : Payloads \cup {NoIdentity, NotAPayload, Unset}]

LEMMA ResponseType ==
  ASSUME NEW error \in BOOLEAN, NEW state \in Values \cup {Unset}, NEW private \in Types \cup {None},
         NEW identity \in Payloads \cup {NoIdentity, NotAPayload, Unset}
  PROVE  /\ Response(error, state, private, identity) \in Responses
         /\ Response(error, state, private, identity).error = error
         /\ Response(error, state, private, identity).state = state
         /\ Response(error, state, private, identity).private = private
         /\ Response(error, state, private, identity).identity = identity
<1>1. Response(error, state, private, identity) \in Responses
  BY Zenon DEF Response, Responses
<1>2. Response(error, state, private, identity).error = error
  BY Zenon DEF Response
<1> QED
  BY <1>1, <1>2 DEF Response

LEMMA ErrorIsResponse == ErrorResponseOnly \in Responses
<1>1. TRUE \in BOOLEAN /\ Unset \in Values \cup {Unset} /\ None \in Types \cup {None}
      /\ Unset \in Payloads \cup {NoIdentity, NotAPayload, Unset}
  OBVIOUS
<1> QED
  BY <1>1, ResponseType DEF ErrorResponseOnly

LEMMA MigInvInit == MigInit => MigInv
<1> SUFFICES ASSUME MigInit PROVE MigInv
  OBVIOUS
<1>1. migProvider \in Releases
  BY DEF MigInit
<1>2. PICK type \in Types, identified \in BOOLEAN, hasPrivate \in BOOLEAN :
        migRecord = Fresh(type, migProvider, IF hasPrivate THEN type ELSE None, identified)
  BY DEF MigInit
<1>3. /\ migProvider.schema[type] \in Versions
      /\ RecordedVersion(migProvider.identity[type]) \in Versions
      /\ migProvider.identity[type] # None =>
           /\ migProvider.identity[type] \in Versions
           /\ RecordedVersion(migProvider.identity[type]) = migProvider.identity[type]
  BY <1>1, MaxVersionAssumption DEF Releases, Versions, RecordedVersion
<1>4. migRecord \in Records
  BY <1>2, <1>3 DEF Fresh, Records, Payloads, Values
<1>5. RecordReadsBack
  BY <1>2, <1>3 DEF Fresh, RecordReadsBack
<1>6. migFailed \in BOOLEAN
  BY Zenon DEF MigInit
<1>7. migForeign \in BOOLEAN
  BY Zenon DEF MigInit
<1> QED
  BY <1>1, <1>4, <1>5, <1>6, <1>7 DEF MigInv, MigTypeOK

\* A response to an upgrade either holds nothing, and an error, or what is on
\* record, when the versions are the same, or what the current schema accepts.
LEMMA UpgradedStateIsCurrent ==
  ASSUME MigInv, NEW hook \in UpgradeHooks
  PROVE  LET response == UpgradeStateResponse(hook)
         IN /\ response \in Responses
            /\ \/ response = ErrorResponseOnly
               \/ /\ response = Response(FALSE, migRecord.state, None, Unset)
                  /\ migRecord.version = migProvider.schema[migRecord.type]
               \/ /\ \E state \in Accepted(migRecord.type) : response = Response(FALSE, state, None, Unset)
                  /\ migRecord.version # migProvider.schema[migRecord.type]
<1>1. migRecord.type \in Types /\ Accepted(migRecord.type) \subseteq Values /\ migRecord.state \in Values
  BY CurrentIsPayload DEF MigInv, MigTypeOK, Records
<1>2. ErrorResponseOnly \in Responses
  BY ErrorIsResponse
<1>3. \A state \in Accepted(migRecord.type) \cup {migRecord.state} :
        Response(FALSE, state, None, Unset) \in Responses
  BY <1>1, ResponseType
<1> QED
  BY <1>2, <1>3 DEF UpgradeStateResponse, UpgradedStateValue

LEMMA UpgradeStateStep ==
  ASSUME MigInv, NEW hook \in UpgradeHooks, UpgradeState(hook)
  PROVE  MigInv' /\ (migFailed' => UNCHANGED migRecord)
<1> DEFINE response == UpgradeStateResponse(hook)
           version == migProvider.schema[migRecord.type]
<1>1. /\ migFailed' = response.error /\ UNCHANGED migProvider
      /\ migRecord' = IF response.state = Unset THEN migRecord
                      ELSE [migRecord EXCEPT !.state = response.state, !.version = version]
      /\ migForeign' = /\ migForeign
                       /\ response.state = Unset \/ migRecord.version = version
  BY DEF UpgradeState
<1>2. response \in Responses
      /\ (\/ response = ErrorResponseOnly
          \/ /\ response = Response(FALSE, migRecord.state, None, Unset)
             /\ migRecord.version = version
          \/ /\ \E state \in Accepted(migRecord.type) : response = Response(FALSE, state, None, Unset)
             /\ migRecord.version # version)
  BY UpgradedStateIsCurrent
<1>3. migRecord \in Records /\ version \in Versions /\ Accepted(migRecord.type) \subseteq Values
      /\ Accepted(migRecord.type) = {[type |-> migRecord.type, version |-> version], NullObject}
  BY CurrentIsPayload DEF MigInv, MigTypeOK, Records, Current, Accepted
<1> HIDE DEF response, version
<1>f. migFailed' \in BOOLEAN
  <2>1. response.error \in BOOLEAN
    BY <1>2 DEF Responses
  <2> QED
    BY <1>1, <2>1
<1>4. migForeign' \in BOOLEAN
  BY <1>1, Zenon DEF MigInv, MigTypeOK
<1>5. CASE response = ErrorResponseOnly
  <2>1. response.state = Unset
    BY <1>5 DEF ErrorResponseOnly, Response
  <2>2. UNCHANGED migRecord
    BY <1>1, <2>1
  <2>3. migForeign => migForeign'
    BY <1>1, <2>1
  <2> QED
    BY <1>1, <1>f, <1>4, <2>2, <2>3 DEF MigInv, MigTypeOK, RecordReadsBack
<1>6. CASE /\ response = Response(FALSE, migRecord.state, None, Unset)
           /\ migRecord.version = version
  <2>1. response.state = migRecord.state /\ ~response.error
    BY <1>6 DEF Response
  <2>2. UNCHANGED migRecord
    BY <1>1, <1>3, <1>6, <2>1 DEF Records
  <2>3. migForeign => migForeign'
    BY <1>1, <1>6
  <2> QED
    BY <1>1, <1>f, <1>4, <2>2, <2>3 DEF MigInv, MigTypeOK, RecordReadsBack
<1>7. ASSUME NEW state \in Accepted(migRecord.type),
             response = Response(FALSE, state, None, Unset)
      PROVE  MigInv' /\ (migFailed' => UNCHANGED migRecord)
  <2>1. response.state = state /\ ~response.error
    BY <1>7 DEF Response
  <2>2. migRecord' = [type |-> migRecord.type, version |-> version,
                      state |-> state, private |-> migRecord.private,
                      identityVersion |-> migRecord.identityVersion,
                      identity |-> migRecord.identity]
    BY <1>1, <1>3, <2>1, MarkersAreNoPayloads DEF Records
  <2>3. migRecord' \in Records /\ RecordReadsBack'
    BY <1>3, <2>2 DEF Records, MigInv, RecordReadsBack
  <2>4. ~migFailed'
    BY <1>1, <2>1
  <2> QED
    BY <1>1, <1>f, <1>4, <2>3, <2>4 DEF MigInv, MigTypeOK
<1> QED
  BY <1>2, <1>5, <1>6, <1>7

LEMMA UpgradedIdentityIsCurrent ==
  ASSUME MigInv, NEW hook \in UpgradeHooks
  PROVE  LET response == UpgradeIdentityResponse(hook)
         IN /\ response \in Responses
            /\ \/ response = ErrorResponseOnly
               \/ response = Response(FALSE, Unset, None, NoIdentity)
               \/ response = Response(FALSE, Unset, None, CurrentIdentity(migRecord.type))
            /\ response # ErrorResponseOnly => migProvider.identity[migRecord.type] # None
<1>1. /\ migRecord.type \in Types
      /\ migProvider.identity[migRecord.type] # None => CurrentIdentity(migRecord.type) \in Payloads
  BY CurrentIsPayload DEF MigInv, MigTypeOK, Records
<1>2. ErrorResponseOnly \in Responses
  BY ErrorIsResponse
<1>3. /\ Response(FALSE, Unset, None, NoIdentity) \in Responses
      /\ migProvider.identity[migRecord.type] # None =>
           Response(FALSE, Unset, None, CurrentIdentity(migRecord.type)) \in Responses
  BY <1>1, ResponseType
<1> QED
  BY <1>2, <1>3 DEF UpgradeIdentityResponse, MarshalIdentity

LEMMA UpgradeIdentityStep ==
  ASSUME MigInv, NEW hook \in UpgradeHooks, UpgradeIdentity(hook)
  PROVE  MigInv' /\ (migFailed' => UNCHANGED migRecord)
<1> DEFINE response == UpgradeIdentityResponse(hook)
           version == migProvider.identity[migRecord.type]
<1>1. /\ migFailed' = response.error /\ UNCHANGED migProvider
      /\ migRecord' = IF response.identity = Unset THEN migRecord
                      ELSE [migRecord EXCEPT !.identity = response.identity,
                                             !.identityVersion = version]
      /\ UNCHANGED migForeign
  BY DEF UpgradeIdentity
<1>2. /\ response \in Responses
      /\ \/ response = ErrorResponseOnly
         \/ \E identity \in {NoIdentity, CurrentIdentity(migRecord.type)} :
               response = Response(FALSE, Unset, None, identity)
      /\ response # ErrorResponseOnly => version # None
  BY UpgradedIdentityIsCurrent
<1>3. /\ migRecord \in Records
      /\ version # None => version \in Versions /\ CurrentIdentity(migRecord.type) \in Payloads
      /\ CurrentIdentity(migRecord.type) = [type |-> migRecord.type, version |-> version]
  BY CurrentIsPayload DEF MigInv, MigTypeOK, Records, CurrentIdentity
<1> HIDE DEF response, version
<1>f. migFailed' \in BOOLEAN
  <2>1. response.error \in BOOLEAN
    BY <1>2 DEF Responses
  <2> QED
    BY <1>1, <2>1
<1>4. CASE response = ErrorResponseOnly
  <2>1. response.identity = Unset
    BY <1>4 DEF ErrorResponseOnly, Response
  <2>2. UNCHANGED migRecord
    BY <1>1, <2>1
  <2> QED
    BY <1>1, <1>f, <2>2 DEF MigInv, MigTypeOK, RecordReadsBack
<1>5. ASSUME NEW identity \in {NoIdentity, CurrentIdentity(migRecord.type)},
             response = Response(FALSE, Unset, None, identity)
      PROVE  MigInv' /\ (migFailed' => UNCHANGED migRecord)
  <2>1. response.identity = identity /\ ~response.error
    BY <1>5 DEF Response
  <2>2. version # None
    <3>1. response # ErrorResponseOnly
      <4>1. ErrorResponseOnly.error
        BY DEF ErrorResponseOnly, Response
      <4> QED
        BY <2>1, <4>1
    <3> QED
      BY <1>2, <3>1
  <2>3. migRecord' = [type |-> migRecord.type, version |-> migRecord.version,
                      state |-> migRecord.state, private |-> migRecord.private,
                      identityVersion |-> version, identity |-> identity]
    BY <1>1, <1>3, <1>5, <2>1, <2>2, MarkersAreNoPayloads DEF Records
  <2>4. identity \in Payloads \cup {NoIdentity} /\ version \in Versions
    BY <1>3, <2>2
  <2>5. migRecord' \in Records
    BY <1>3, <2>3, <2>4 DEF Records
  <2>6. identity = NoIdentity \/ identity = [type |-> migRecord.type, version |-> version]
    BY <1>3
  <2>7. RecordReadsBack'
    <3>1. \/ migForeign'
          \/ migRecord.state \in {[type |-> migRecord.type, version |-> migRecord.version], NullObject}
      BY <1>1, Zenon DEF MigInv, RecordReadsBack
    <3> QED
      BY <2>3, <2>6, <3>1 DEF MigInv, RecordReadsBack
  <2>8. ~migFailed'
    BY <1>1, <2>1
  <2> QED
    BY <1>1, <1>f, <2>5, <2>7, <2>8 DEF MigInv, MigTypeOK
<1> QED
  BY <1>2, <1>4, <1>5

\* Across types a response holds nothing, and an error, or the whole record of
\* the target: what the hook returned for its state, known for foreign if the
\* target's schema does not accept it, and private data of its author or none.
LEMMA MoveStep ==
  ASSUME MigInv, NEW target \in Types, NEW hook \in MoveHooks, Move(target, hook)
  PROVE  MigInv' /\ (migFailed' => UNCHANGED migRecord)
<1> DEFINE response == MoveResponse(target, hook)
<1>1. /\ target # migRecord.type /\ migFailed' = response.error /\ UNCHANGED migProvider
      /\ migRecord' = IF response.state = Unset THEN migRecord
                      ELSE [type |-> target, version |-> migProvider.schema[target],
                            state |-> response.state, private |-> response.private,
                            identityVersion |-> RecordedVersion(migProvider.identity[target]),
                            identity |-> NoIdentity]
      /\ migForeign' = IF response.state = Unset THEN migForeign
                       ELSE response.state \notin Accepted(target)
  BY DEF Move
<1>2. /\ migProvider.schema[target] \in Versions
      /\ RecordedVersion(migProvider.identity[target]) \in Versions
      /\ Accepted(target) = {[type |-> target, version |-> migProvider.schema[target]], NullObject}
  BY CurrentIsPayload DEF MigInv, Current, Accepted
<1>3. hook.state \in Values
  BY DEF MoveHooks, Values
<1>4. \/ response = ErrorResponseOnly
      \/ \E private \in {None, target} : response = Response(FALSE, hook.state, private, Unset)
  BY <1>1 DEF MoveResponse
<1> HIDE DEF response
<1>5. migForeign' \in BOOLEAN
  BY <1>1, Zenon DEF MigInv, MigTypeOK
<1>6. CASE response = ErrorResponseOnly
  <2>1. response.state = Unset
    BY <1>6 DEF ErrorResponseOnly, Response
  <2>2. UNCHANGED <<migRecord, migForeign>>
    BY <1>1, <2>1
  <2>3. migFailed' \in BOOLEAN
    <3>1. response.error \in BOOLEAN
      BY <1>6, ErrorIsResponse DEF Responses
    <3> QED
      BY <1>1, <3>1
  <2> QED
    BY <1>1, <1>5, <2>2, <2>3 DEF MigInv, MigTypeOK, RecordReadsBack
<1>7. ASSUME NEW private \in {None, target},
             response = Response(FALSE, hook.state, private, Unset)
      PROVE  MigInv' /\ (migFailed' => UNCHANGED migRecord)
  <2>1. response.state = hook.state /\ response.private = private /\ ~response.error
    BY <1>7 DEF Response
  <2>2. migFailed' \in BOOLEAN /\ ~migFailed'
    <3>1. response.error = FALSE
      BY <1>7, Zenon DEF Response
    <3> QED
      BY <1>1, <3>1
  <2>3. migRecord' = [type |-> target, version |-> migProvider.schema[target],
                      state |-> hook.state, private |-> private,
                      identityVersion |-> RecordedVersion(migProvider.identity[target]),
                      identity |-> NoIdentity]
        /\ migForeign' = (hook.state \notin Accepted(target))
    BY <1>1, <1>3, <2>1, MarkersAreNoPayloads
  <2>4. migRecord' \in Records
    BY <1>2, <1>3, <2>3 DEF Records
  <2>5. RecordReadsBack'
    BY <1>2, <2>3 DEF RecordReadsBack
  <2> QED
    BY <1>1, <1>5, <2>1, <2>2, <2>4, <2>5 DEF MigInv, MigTypeOK
<1> QED
  BY <1>4, <1>6, <1>7

LEMMA MoveAddressStep ==
  ASSUME MigInv, MoveAddress
  PROVE  MigInv' /\ UNCHANGED migRecord
<1> DEFINE response == Response(FALSE, migRecord.state, migRecord.private, migRecord.identity)
<1>1. migRecord.identity # NoIdentity /\ MoveResponse(migRecord.type, NoHook) = response
  BY DEF MoveAddress, MoveResponse, PassThrough
<1>2. /\ response.state = migRecord.state /\ response.private = migRecord.private
      /\ response.identity = migRecord.identity
  BY DEF Response
<1> HIDE DEF response
<1>3. /\ migFailed' = response.error /\ UNCHANGED <<migProvider, migForeign>>
      /\ migRecord' = [migRecord EXCEPT !.state = response.state, !.private = response.private,
                                        !.identity = response.identity]
  BY <1>1 DEF MoveAddress
<1>4. UNCHANGED migRecord
  BY <1>2, <1>3 DEF MigInv, MigTypeOK, Records
<1>5. migFailed' = FALSE
  BY <1>3 DEF response, Response
<1> QED
  BY <1>3, <1>4, <1>5 DEF MigInv, MigTypeOK, RecordReadsBack

LEMMA MigStep ==
  ASSUME MigInv, [MigNext]_migVars
  PROVE  MigInv' /\ [migFailed' => UNCHANGED migRecord]_migVars
<1>1. ASSUME NEW type \in Types, NEW isRegistered \in BOOLEAN, NEW version \in Versions,
             NEW identity \in Versions \cup {None}, Release(type, isRegistered, version, identity)
      PROVE  MigInv' /\ UNCHANGED migRecord
  <2>1. migProvider' \in Releases
    BY <1>1 DEF Release, MigInv, MigTypeOK, Releases
  <2> QED
    BY <1>1, <2>1 DEF Release, MigInv, MigTypeOK, RecordReadsBack
<1>2. CASE UNCHANGED migVars
  BY <1>2 DEF migVars, MigInv, MigTypeOK, RecordReadsBack
<1> QED
  BY <1>1, <1>2, UpgradeStateStep, UpgradeIdentityStep, MoveStep, MoveAddressStep DEF MigNext

\* The record of a resource keeps its type.
THEOREM MigTypeCorrect == MigSpec => []MigTypeOK
<1>1. MigInv => MigTypeOK
  BY DEF MigInv
<1>2. MigInv /\ [MigNext]_migVars => MigInv'
  BY MigStep
<1> QED
  BY MigInvInit, <1>1, <1>2, PTL DEF MigSpec

\* The record satisfies the schema recorded beside it, for any releases and any
\* upgrade hooks, until a move hook returns a state that the target's schema does
\* not accept, and again once an upgrade has validated that one.
THEOREM RecordsReadBack == MigSpec => []RecordReadsBack
<1>1. MigInv => RecordReadsBack
  BY DEF MigInv
<1>2. MigInv /\ [MigNext]_migVars => MigInv'
  BY MigStep
<1> QED
  BY MigInvInit, <1>1, <1>2, PTL DEF MigSpec

\* An upgrade or a move that fails has not changed the record.
THEOREM FailuresLeaveRecord == MigSpec => FailureLeavesRecord
<1>1. MigInv /\ [MigNext]_migVars => MigInv' /\ [migFailed' => UNCHANGED migRecord]_migVars
  BY MigStep
<1> QED
  BY MigInvInit, <1>1, PTL DEF MigSpec, FailureLeavesRecord

-----------------------------------------------------------------------------
(* Data sources.                                                           *)

\* Before the first read no hook has run.
NoHookYet == dsPhase = "new" => dsHook = NotReached

DsInv == DsTypeOK /\ NoHookYet /\ AnswerTellsAll

LEMMA DeferralIsKnown ==
  ASSUME NEW errors, NEW state,
         \/ dsAnswer' = Answer(errors, state, FALSE)
         \/ dsAnswer' = Answer(errors, state, TRUE)
  PROVE  dsAnswer'.deferred \in BOOLEAN
<1>1. CASE dsAnswer' = Answer(errors, state, FALSE)
  BY <1>1, Zenon DEF Answer
<1>2. CASE dsAnswer' = Answer(errors, state, TRUE)
  BY <1>2, Zenon DEF Answer
<1> QED
  BY <1>1, <1>2

\* An answer given without a hook is an error, or a validation's.
LEMMA NoHookAnswer ==
  ASSUME NEW errors, dsHook' = NotReached, dsAnswer' = Answer(errors, NoState, FALSE),
         dsPhase' # "read"
  PROVE  /\ dsAnswer'.deferred \in BOOLEAN /\ dsAnswer'.state = NoState
         /\ AnswerTellsAll'
<1>1. dsAnswer'.deferred \in BOOLEAN
  BY Zenon DEF Answer
<1>2. dsAnswer'.state = NoState /\ ~dsAnswer'.deferred
  BY DEF Answer
<1>3. AnswerTellsAll'
  BY <1>2 DEF AnswerTellsAll, NotReached
<1> QED
  BY <1>1, <1>2, <1>3

LEMMA DsInvInit == DsInit => DsInv
<1> SUFFICES ASSUME DsInit PROVE DsInv
  OBVIOUS
<1>1. dsAnswer.deferred \in BOOLEAN
  BY Zenon DEF DsInit, Answer
<1>2. dsAnswer.state = NoState /\ ~dsAnswer.deferred
  BY DEF DsInit, Answer
<1>3. DsTypeOK
  BY <1>1, <1>2 DEF DsInit, DsTypeOK
<1>4. NoHookYet /\ AnswerTellsAll
  BY <1>2 DEF DsInit, NoHookYet, AnswerTellsAll, NotReached
<1> QED
  BY <1>3, <1>4 DEF DsInv

\* What a hook is turned into, with the errors it added.
LEMMA HookAnswers ==
  ASSUME NEW hook \in ReadHooks, dsAllowed \in BOOLEAN
  PROVE  /\ hook.how \in {"returned", "raised", "deferred"}
         /\ \/ /\ hook.how = "returned"
               /\ HookAnswer(hook) = Answer({}, hook.state, FALSE)
            \/ \E error \in {"encoding", "hook", "deferral"} :
                 HookAnswer(hook) = Answer({error}, NoState, FALSE)
            \/ /\ hook.how = "deferred" /\ dsAllowed
               /\ HookAnswer(hook) = Answer({}, NoState, TRUE)
<1>1. hook.how \in {"returned", "raised", "deferred"} /\ hook.encodes \in BOOLEAN
  BY DEF ReadHooks
<1>2. CASE hook.how = "returned" /\ hook.encodes
  BY <1>2 DEF HookAnswer
<1>3. CASE hook.how = "returned" /\ ~hook.encodes
  BY <1>3 DEF HookAnswer
<1>4. CASE hook.how = "raised"
  BY <1>4 DEF HookAnswer
<1>5. CASE hook.how = "deferred"
  BY <1>5 DEF HookAnswer
<1> QED
  BY <1>1, <1>2, <1>3, <1>4, <1>5

\* The answer to a read is as good as its hook, whichever way the hook ended.
LEMMA ReadTellsAll ==
  ASSUME DsTypeOK, NEW hook \in ReadHooks, dsAllowed' = dsAllowed, dsHook' = hook,
         dsAnswer' = ReadAnswer(hook),
         dsPhase' = IF ReadAnswer(hook).errors = {} THEN "read" ELSE "refused"
  PROVE  /\ dsAnswer'.deferred \in BOOLEAN
         /\ dsAnswer'.state \in SourceStates \cup {NoState}
         /\ dsPhase' \in {"read", "refused"}
         /\ AnswerTellsAll'
<1> DEFINE added == IF hook.adds THEN {"added"} ELSE {}
<1>1. dsAllowed \in BOOLEAN
  BY DEF DsTypeOK
<1>2. hook.state \in SourceStates
  BY DEF ReadHooks
<1>3. /\ hook.how \in {"returned", "raised", "deferred"}
      /\ hook.adds => "added" \in added
  BY HookAnswers, <1>1
<1>4. CASE hook.how = "returned" /\ HookAnswer(hook) = Answer({}, hook.state, FALSE)
  <2>1. dsAnswer' = Answer({} \cup added, hook.state, FALSE)
    BY <1>4 DEF ReadAnswer, Answer
  <2>2. /\ dsAnswer'.errors = {} \cup added /\ dsAnswer'.state = hook.state
        /\ ~dsAnswer'.deferred
    BY <2>1 DEF Answer
  <2>3. dsAnswer'.deferred \in BOOLEAN
    BY <2>1, DeferralIsKnown
  <2>4. AnswerTellsAll'
    BY <1>3, <1>4, <2>2 DEF AnswerTellsAll
  <2> QED
    BY <1>2, <2>2, <2>3, <2>4
<1>5. ASSUME NEW error, HookAnswer(hook) = Answer({error}, NoState, FALSE)
      PROVE  /\ dsAnswer'.deferred \in BOOLEAN
             /\ dsAnswer'.state \in SourceStates \cup {NoState}
             /\ dsPhase' \in {"read", "refused"}
             /\ AnswerTellsAll'
  <2>1. dsAnswer' = Answer({error} \cup added, NoState, FALSE)
    BY <1>5 DEF ReadAnswer, Answer
  <2>2. /\ dsAnswer'.errors = {error} \cup added /\ dsAnswer'.state = NoState
        /\ ~dsAnswer'.deferred
    BY <2>1 DEF Answer
  <2>3. dsAnswer'.deferred \in BOOLEAN
    BY <2>1, DeferralIsKnown
  <2>4. dsPhase' = "refused" /\ dsAnswer'.errors # {}
    BY <2>2
  <2>5. AnswerTellsAll'
    BY <1>3, <2>2, <2>4 DEF AnswerTellsAll
  <2> QED
    BY <2>2, <2>3, <2>4, <2>5
<1>6. CASE hook.how = "deferred" /\ dsAllowed /\ HookAnswer(hook) = Answer({}, NoState, TRUE)
  <2>1. dsAnswer' = Answer({} \cup added, NoState, TRUE)
    BY <1>6 DEF ReadAnswer, Answer
  <2>2. /\ dsAnswer'.errors = {} \cup added /\ dsAnswer'.state = NoState
        /\ dsAnswer'.deferred
    BY <2>1 DEF Answer
  <2>3. dsAnswer'.deferred \in BOOLEAN
    BY <2>1, DeferralIsKnown
  <2>4. AnswerTellsAll'
    BY <1>3, <1>6, <2>2 DEF AnswerTellsAll
  <2> QED
    BY <2>2, <2>3, <2>4
<1> QED
  BY HookAnswers, <1>1, <1>4, <1>5, <1>6

LEMMA DsStep == DsInv /\ [DsNext]_dsVars => DsInv'
<1> SUFFICES ASSUME DsInv, [DsNext]_dsVars PROVE DsInv'
  OBVIOUS
<1> USE DEF DsInv
<1>1. ASSUME NEW hookIsContent \in BOOLEAN, ValidateSource(hookIsContent) PROVE DsInv'
  <2>1. dsHook' = NotReached /\ dsPhase' \in {"validated", "refused"}
    BY <1>1 DEF ValidateSource, NoHookYet
  <2>2. PICK errors : dsAnswer' = Answer(errors, NoState, FALSE)
    BY <1>1 DEF ValidateSource
  <2>3. dsAnswer'.deferred \in BOOLEAN /\ dsAnswer'.state = NoState /\ AnswerTellsAll'
    BY <2>1, <2>2, NoHookAnswer
  <2> QED
    BY <1>1, <2>1, <2>3 DEF ValidateSource, DsTypeOK, NoHookYet
<1>2. ASSUME NEW testMode \in BOOLEAN, ReadRefused(testMode) PROVE DsInv'
  <2>1. dsHook' = NotReached /\ dsPhase' = "refused"
    BY <1>2 DEF ReadRefused
  <2>2. PICK errors : dsAnswer' = Answer(errors, NoState, FALSE)
    BY <1>2 DEF ReadRefused
  <2>3. dsAnswer'.deferred \in BOOLEAN /\ dsAnswer'.state = NoState /\ AnswerTellsAll'
    BY <2>1, <2>2, NoHookAnswer
  <2> QED
    BY <1>2, <2>1, <2>3 DEF ReadRefused, DsTypeOK, NoHookYet
<1>3. ASSUME NEW hook \in ReadHooks, NEW testMode \in BOOLEAN, Read(hook, testMode)
      PROVE  DsInv'
  <2>1. /\ dsAnswer'.deferred \in BOOLEAN
        /\ dsAnswer'.state \in SourceStates \cup {NoState}
        /\ dsPhase' \in {"read", "refused"}
        /\ AnswerTellsAll'
    BY <1>3, ReadTellsAll DEF Read
  <2> QED
    BY <1>3, <2>1 DEF Read, DsTypeOK, NoHookYet
<1>4. CASE UNCHANGED dsVars
  BY <1>4 DEF dsVars, DsTypeOK, NoHookYet, AnswerTellsAll
<1> QED
  BY <1>1, <1>2, <1>3, <1>4 DEF DsNext

\* A data source's calls and answers keep their types.
THEOREM DsTypeCorrect == DsSpec => []DsTypeOK
<1>1. DsInv => DsTypeOK
  BY DEF DsInv
<1> QED
  BY DsInvInit, DsStep, <1>1, PTL DEF DsSpec

\* Whatever a read hook returned, raised, deferred or added to the diagnostics
\* is in the answer that _read_data_source_impl makes of it.
THEOREM AnswersTellAll == DsSpec => []AnswerTellsAll
<1>1. DsInv => AnswerTellsAll
  BY DEF DsInv
<1> QED
  BY DsInvInit, DsStep, <1>1, PTL DEF DsSpec

-----------------------------------------------------------------------------
(* The keys of private state.                                              *)

Working == {"lookup", "derive", "store", "crypt"}

\* A thread at work has a salt: one with a sealed text when it opens, and when
\* it seals one that is still free and that no other thread has.  The key it
\* has got is of a secret that was in force in this process.
TaskOK(t) ==
  /\ keyTask[t].at = "idle" => keyTask[t].op = "none"
  /\ keyTask[t].op # "none" => keyTask[t].salt \in Salt
  /\ keyTask[t].at \in Working => keyTask[t].op \in {"seal", "open"}
  /\ keyTask[t].op = "open" => keySealed[keyTask[t].salt] # NoSecret
  /\ keyTask[t].op = "seal" /\ keyTask[t].at \in Working =>
       keySealed[keyTask[t].salt] = NoSecret
  /\ keyTask[t].at \in {"store", "crypt"} => keyTask[t].key \in keySeen \ {NoSecret}

\* A salt is sealed under once.
SaltsApart ==
  \A t, u \in Thread :
    /\ t # u
    /\ keyTask[t].op = "seal" /\ keyTask[t].at \in Working
    => keyTask[u].salt # keyTask[t].salt

\* What OpensUnderItsSecret says of one thread.
SecretOK(t) ==
  LET task == keyTask[t]
      under == keySealed[task.salt]
  IN /\ task.op = "open" /\ task.at = "done" => under \in keySeen
     /\ task.op = "open" /\ task.at = "refused" => keySeen # {under}
     /\ task.op = "seal" /\ task.at = "done" => under \in keySeen \ {NoSecret}

KeyInv ==
  /\ KeyTypeOK
  /\ InForce \in keySeen
  /\ \A s \in Salt : keyCache[s] # NoSecret => keyCache[s] \in keySeen
  /\ \A t \in Thread : TaskOK(t) /\ SecretOK(t)
  /\ SaltsApart

LEMMA KeyInvInit == KeyInit => KeyInv
<1> SUFFICES ASSUME KeyInit PROVE KeyInv
  OBVIOUS
<1>1. Idle \in Tasks
  BY KeyBoundsAssumption DEF Idle, Tasks, Value
<1>2. KeyTypeOK
  BY <1>1, KeyBoundsAssumption DEF KeyInit, KeyTypeOK, SecretOf, Value
<1>3. \A t \in Thread : keyTask[t].at = "idle" /\ keyTask[t].op = "none"
  BY DEF KeyInit, Idle
<1>4. \A t \in Thread : TaskOK(t) /\ SecretOK(t)
  BY <1>3 DEF TaskOK, SecretOK, Working
<1>5. SaltsApart
  BY <1>3 DEF SaltsApart
<1>6. InForce \in keySeen /\ \A s \in Salt : keyCache[s] = NoSecret
  BY DEF KeyInit, InForce
<1> QED
  BY <1>2, <1>4, <1>5, <1>6 DEF KeyInv

\* A step of one thread that seals nothing leaves the invariant of the others,
\* and is right when it leaves that thread's own.
LEMMA ThreadMoves ==
  ASSUME KeyInv, NEW t \in Thread, NEW task \in Tasks, Goes(t, task),
         UNCHANGED <<keyEnv, keyFile, keySeen, keySealed, keyRuns>>,
         keyCache' \in [Salt -> Value],
         \A s \in Salt : keyCache'[s] # NoSecret => keyCache'[s] \in keySeen,
         TaskOK(t)', SecretOK(t)',
         \/ task.salt = keyTask[t].salt /\ task.op = keyTask[t].op /\ keyTask[t].at \in Working
         \/ task.op = "none" /\ task.salt = 0
         \/ task.op = "open" /\ keySealed[task.salt] # NoSecret
         \/ \A u \in Thread : keyTask[u].salt # task.salt
  PROVE  KeyInv'
<1>1. /\ keyTask' = [keyTask EXCEPT ![t] = task] /\ keyTask \in [Thread -> Tasks]
      /\ keyTask' \in [Thread -> Tasks]
  BY DEF KeyInv, KeyTypeOK, Goes
<1>2. keyTask'[t] = task /\ \A u \in Thread \ {t} : keyTask'[u] = keyTask[u]
  BY <1>1
<1>3. KeyTypeOK'
  BY <1>1 DEF KeyInv, KeyTypeOK
<1>4. ASSUME NEW u \in Thread \ {t} PROVE (TaskOK(u) /\ SecretOK(u))'
  BY <1>2 DEF KeyInv, TaskOK, SecretOK, Salt
<1>5. SaltsApart'
  <2> SUFFICES ASSUME NEW a \in Thread, NEW b \in Thread, a # b,
                      keyTask'[a].op = "seal", keyTask'[a].at \in Working
               PROVE  keyTask'[b].salt # keyTask'[a].salt
    BY DEF SaltsApart
  <2>1. CASE a # t /\ b # t
    BY <1>2, <2>1 DEF KeyInv, SaltsApart
  <2>2. CASE a = t
    BY <1>2, <2>2 DEF KeyInv, SaltsApart
  <2>3. CASE b = t
    <3>1. /\ keyTask[a].op = "seal" /\ keyTask[a].at \in Working
          /\ keyTask[a].salt # keyTask[t].salt /\ keyTask[a].salt \in 1..MaxSealed
          /\ keySealed[keyTask[a].salt] = NoSecret
      BY <1>2, <2>3 DEF KeyInv, SaltsApart, TaskOK, Salt
    <3> QED
      BY <1>2, <2>3, <3>1, KeyBoundsAssumption
  <2> QED
    BY <2>1, <2>2, <2>3
<1> QED
  BY <1>3, <1>4, <1>5 DEF KeyInv, InForce, Salt

LEMMA BeginSealStep == ASSUME KeyInv, NEW t \in Thread, BeginSeal(t) PROVE KeyInv'
<1>1. PICK s \in Salt :
        /\ keySealed[s] = NoSecret
        /\ \A u \in Thread : keyTask[u].salt # s
        /\ Goes(t, [at |-> "lookup", op |-> "seal", salt |-> s, key |-> NoSecret])
  BY DEF BeginSeal
<1> DEFINE task == [at |-> "lookup", op |-> "seal", salt |-> s, key |-> NoSecret]
<1>2. task \in Tasks
  BY KeyBoundsAssumption DEF Tasks, Value, Salt
<1>3. keyTask'[t] = task
  BY <1>1 DEF Goes, KeyInv, KeyTypeOK
<1>4. TaskOK(t)' /\ SecretOK(t)'
  BY <1>1, <1>3 DEF BeginSeal, TaskOK, SecretOK, Working, Salt
<1> QED
  BY <1>1, <1>2, <1>4, ThreadMoves DEF BeginSeal, KeyInv, KeyTypeOK

LEMMA BeginOpenStep ==
  ASSUME KeyInv, NEW t \in Thread, NEW s \in Salt, BeginOpen(t, s) PROVE KeyInv'
<1> DEFINE task == [at |-> "lookup", op |-> "open", salt |-> s, key |-> NoSecret]
<1>1. task \in Tasks
  BY KeyBoundsAssumption DEF Tasks, Value, Salt
<1>2. keyTask'[t] = task
  BY DEF BeginOpen, Goes, KeyInv, KeyTypeOK
<1>3. TaskOK(t)' /\ SecretOK(t)'
  BY <1>2 DEF BeginOpen, TaskOK, SecretOK, Working, Salt
<1> QED
  BY <1>1, <1>3, ThreadMoves DEF BeginOpen, KeyInv, KeyTypeOK

LEMMA TaskFields ==
  ASSUME NEW task \in Tasks
  PROVE  /\ task.at \in {"idle", "lookup", "derive", "store", "crypt", "done", "refused"}
         /\ task.op \in {"none", "seal", "open"}
         /\ task.salt \in 0..MaxSealed /\ task.key \in Value
  BY DEF Tasks

LEMMA LookUpStep == ASSUME KeyInv, NEW t \in Thread, LookUp(t) PROVE KeyInv'
<1>1. keyTask[t] \in Tasks /\ keyTask[t].at = "lookup" /\ keyTask[t].salt \in Salt
  BY DEF LookUp, At, KeyInv, KeyTypeOK, TaskOK, Working
<1> DEFINE cached == keyCache[keyTask[t].salt]
           at == IF cached = NoSecret THEN "derive" ELSE "crypt"
           task == [keyTask[t] EXCEPT !.at = at, !.key = cached]
<1>2. /\ cached \in Value /\ (at = "crypt" => cached \in keySeen \ {NoSecret})
      /\ at \in {"derive", "crypt"}
  BY <1>1 DEF KeyInv, KeyTypeOK
<1>3. Goes(t, task)
  BY DEF LookUp
<1> HIDE DEF cached, at
<1>4. /\ task \in Tasks /\ task.at = at /\ task.key = cached
      /\ task.op = keyTask[t].op /\ task.salt = keyTask[t].salt
  BY <1>1, <1>2 DEF Tasks
<1>5. keyTask'[t] = task
  BY <1>3 DEF Goes, KeyInv, KeyTypeOK
<1> HIDE DEF task
<1>6. TaskOK(t)' /\ SecretOK(t)'
  BY <1>1, <1>2, <1>4, <1>5 DEF LookUp, KeyInv, TaskOK, SecretOK, Working, Salt
<1>7. /\ UNCHANGED <<keyEnv, keyFile, keySeen, keySealed, keyRuns>>
      /\ keyCache' = keyCache /\ keyCache \in [Salt -> Value]
      /\ \A s \in Salt : keyCache[s] # NoSecret => keyCache[s] \in keySeen
      /\ keyTask[t].at \in Working
  BY <1>1 DEF LookUp, KeyInv, KeyTypeOK, Working
<1> QED
  BY <1>3, <1>4, <1>6, <1>7, ThreadMoves

LEMMA DeriveStep == ASSUME KeyInv, NEW t \in Thread, Derive(t) PROVE KeyInv'
<1>1. keyTask[t] \in Tasks /\ keyTask[t].at = "derive" /\ keyTask[t].salt \in Salt
  BY DEF Derive, At, KeyInv, KeyTypeOK, TaskOK, Working
<1> DEFINE at == IF InForce = NoSecret THEN "refused" ELSE "store"
           task == [keyTask[t] EXCEPT !.at = at, !.key = InForce]
<1>2. /\ InForce \in Value /\ InForce \in keySeen /\ at \in {"store", "refused"}
      /\ (at = "store" => InForce # NoSecret) /\ (at = "refused" => InForce = NoSecret)
  BY DEF KeyInv, KeyTypeOK
<1>3. Goes(t, task)
  BY DEF Derive
<1> HIDE DEF at
<1>4. /\ task \in Tasks /\ task.at = at /\ task.key = InForce
      /\ task.op = keyTask[t].op /\ task.salt = keyTask[t].salt
  BY <1>1, <1>2 DEF Tasks
<1>5. keyTask'[t] = task
  BY <1>3 DEF Goes, KeyInv, KeyTypeOK
<1> HIDE DEF task
<1>6. TaskOK(t)' /\ SecretOK(t)'
  BY <1>1, <1>2, <1>4, <1>5 DEF Derive, KeyInv, TaskOK, SecretOK, Working, Salt
<1>7. /\ UNCHANGED <<keyEnv, keyFile, keySeen, keySealed, keyRuns>>
      /\ keyCache' = keyCache /\ keyCache \in [Salt -> Value]
      /\ \A s \in Salt : keyCache[s] # NoSecret => keyCache[s] \in keySeen
      /\ keyTask[t].at \in Working
  BY <1>1 DEF Derive, KeyInv, KeyTypeOK, Working
<1> QED
  BY <1>3, <1>4, <1>6, <1>7, ThreadMoves

LEMMA StoreStep == ASSUME KeyInv, NEW t \in Thread, Store(t) PROVE KeyInv'
<1>1. /\ keyTask[t] \in Tasks /\ keyTask[t].at = "store" /\ keyTask[t].salt \in Salt
      /\ keyTask[t].key \in keySeen \ {NoSecret} /\ keyTask[t].key \in Value
  <2>1. keyTask[t] \in Tasks /\ keyTask[t].at = "store" /\ TaskOK(t)
    BY DEF Store, At, KeyInv, KeyTypeOK
  <2> QED
    BY <2>1, TaskFields DEF TaskOK, Working
<1> DEFINE task == [keyTask[t] EXCEPT !.at = "crypt"]
<1>2. Goes(t, task)
  BY DEF Store
<1>3. /\ task \in Tasks /\ task.at = "crypt" /\ task.key = keyTask[t].key
      /\ task.op = keyTask[t].op /\ task.salt = keyTask[t].salt
  BY <1>1 DEF Tasks
<1>4. keyTask'[t] = task
  BY <1>2 DEF Goes, KeyInv, KeyTypeOK
<1> HIDE DEF task
<1>5. TaskOK(t)' /\ SecretOK(t)'
  BY <1>1, <1>3, <1>4 DEF Store, KeyInv, TaskOK, SecretOK, Working, Salt
<1>6. /\ keyCache' \in [Salt -> Value]
      /\ \A s \in Salt : keyCache'[s] # NoSecret => keyCache'[s] \in keySeen
  BY <1>1 DEF Store, KeyInv, KeyTypeOK
<1>7. UNCHANGED <<keyEnv, keyFile, keySeen, keySealed, keyRuns>> /\ keyTask[t].at \in Working
  BY <1>1 DEF Store, Working
<1> QED
  BY <1>2, <1>3, <1>5, <1>6, <1>7, ThreadMoves

\* The one step that seals: the salt was free, and no other thread has it.
LEMMA SealStep ==
  ASSUME KeyInv, NEW t \in Thread, At(t, "crypt"), keyTask[t].op = "seal",
         keySealed' = [keySealed EXCEPT ![keyTask[t].salt] = keyTask[t].key],
         Goes(t, [keyTask[t] EXCEPT !.at = "done"]),
         UNCHANGED <<keyEnv, keyFile, keySeen, keyCache, keyRuns>>
  PROVE  KeyInv'
<1> DEFINE task == [keyTask[t] EXCEPT !.at = "done"]
<1>1. /\ keyTask[t] \in Tasks /\ keyTask[t].at = "crypt" /\ TaskOK(t)
      /\ keyTask \in [Thread -> Tasks] /\ keySealed \in [Salt -> Value]
  BY DEF At, KeyInv, KeyTypeOK
<1>2. /\ keyTask[t].salt \in Salt /\ keyTask[t].key \in keySeen \ {NoSecret}
      /\ keyTask[t].key \in Value /\ keySealed[keyTask[t].salt] = NoSecret
  BY <1>1, TaskFields DEF TaskOK, Working
<1>3. /\ task \in Tasks /\ task.at = "done" /\ task.op = "seal"
      /\ task.salt = keyTask[t].salt
  BY <1>1 DEF Tasks
<1>4. keyTask' = [keyTask EXCEPT ![t] = task]
  BY DEF Goes
<1> HIDE DEF task
<1>5. keyTask'[t] = task /\ \A u \in Thread \ {t} : keyTask'[u] = keyTask[u]
  BY <1>1, <1>4
<1>6. /\ keySealed'[keyTask[t].salt] = keyTask[t].key
      /\ \A s \in Salt : s # keyTask[t].salt => keySealed'[s] = keySealed[s]
  BY <1>1, <1>2
<1>7. KeyTypeOK'
  BY <1>1, <1>2, <1>3, <1>4 DEF KeyInv, KeyTypeOK
<1>8. (TaskOK(t) /\ SecretOK(t))'
  BY <1>2, <1>3, <1>5, <1>6 DEF TaskOK, SecretOK, Working, Salt
<1>9. ASSUME NEW u \in Thread \ {t} PROVE (TaskOK(u) /\ SecretOK(u))'
  <2>1. /\ TaskOK(u) /\ SecretOK(u) /\ keyTask[u].salt # keyTask[t].salt
        /\ keyTask'[u] = keyTask[u]
    BY <1>1, <1>5 DEF KeyInv, SaltsApart, Working
  <2>2. keyTask[u].op # "none" => keySealed'[keyTask[u].salt] = keySealed[keyTask[u].salt]
    BY <1>6, <2>1 DEF TaskOK
  <2>3. TaskOK(u)'
    BY <2>1, <2>2 DEF TaskOK, Salt
  <2>4. SecretOK(u)'
    BY <2>1, <2>2 DEF SecretOK
  <2> QED
    BY <2>3, <2>4
<1>10. SaltsApart'
  <2> SUFFICES ASSUME NEW a \in Thread, NEW b \in Thread, a # b,
                      keyTask'[a].op = "seal", keyTask'[a].at \in Working
               PROVE  keyTask'[b].salt # keyTask'[a].salt
    BY DEF SaltsApart
  <2>1. a # t
    BY <1>3, <1>5 DEF Working
  <2> QED
    BY <1>3, <1>5, <2>1 DEF KeyInv, SaltsApart
<1> QED
  BY <1>7, <1>8, <1>9, <1>10 DEF KeyInv, InForce, Salt

\* The other end of Crypt: what opened was sealed under a secret of this
\* process, and what did not was sealed under another than the one looked up.
LEMMA OpenStep ==
  ASSUME KeyInv, NEW t \in Thread, At(t, "crypt"), keyTask[t].op = "open",
         NEW at, at = IF keySealed[keyTask[t].salt] = keyTask[t].key THEN "done" ELSE "refused",
         Goes(t, [keyTask[t] EXCEPT !.at = at]),
         UNCHANGED <<keyEnv, keyFile, keySeen, keyCache, keySealed, keyRuns>>
  PROVE  KeyInv'
<1> DEFINE task == [keyTask[t] EXCEPT !.at = at]
<1>1. /\ keyTask[t] \in Tasks /\ keyTask[t].at = "crypt" /\ TaskOK(t)
      /\ keyTask \in [Thread -> Tasks]
  BY DEF At, KeyInv, KeyTypeOK
<1>2. /\ keyTask[t].salt \in Salt /\ keyTask[t].key \in keySeen \ {NoSecret}
      /\ keySealed[keyTask[t].salt] # NoSecret
  BY <1>1 DEF TaskOK, Working
<1>3. at \in {"done", "refused"}
  OBVIOUS
<1>4. /\ task \in Tasks /\ task.at = at /\ task.op = "open" /\ task.key = keyTask[t].key
      /\ task.salt = keyTask[t].salt
  BY <1>1, <1>3 DEF Tasks
<1>5. Goes(t, task)
  OBVIOUS
<1> HIDE DEF task
<1>6. keyTask'[t] = task
  BY <1>1, <1>5 DEF Goes
<1>7. TaskOK(t)'
  BY <1>2, <1>3, <1>4, <1>6 DEF TaskOK, Working, Salt
<1>8. SecretOK(t)'
  BY <1>2, <1>3, <1>4, <1>6 DEF SecretOK
<1>9. /\ keyCache' \in [Salt -> Value]
      /\ \A s \in Salt : keyCache'[s] # NoSecret => keyCache'[s] \in keySeen
  BY DEF KeyInv, KeyTypeOK
<1> QED
  BY <1>2, <1>4, <1>5, <1>7, <1>8, <1>9, ThreadMoves

LEMMA ReturnStep == ASSUME KeyInv, NEW t \in Thread, Return(t) PROVE KeyInv'
<1>1. Idle \in Tasks /\ Idle.op = "none" /\ Idle.salt = 0 /\ Idle.at = "idle"
  BY KeyBoundsAssumption DEF Idle, Tasks, Value
<1>2. keyTask'[t] = Idle
  BY DEF Return, Goes, KeyInv, KeyTypeOK
<1>3. TaskOK(t)' /\ SecretOK(t)'
  BY <1>1, <1>2 DEF TaskOK, SecretOK, Working
<1>4. /\ keyCache' \in [Salt -> Value]
      /\ \A s \in Salt : keyCache'[s] # NoSecret => keyCache'[s] \in keySeen
  BY DEF Return, KeyInv, KeyTypeOK
<1> QED
  BY <1>1, <1>3, <1>4, ThreadMoves DEF Return

\* A new secret in force joins those of the process; what was ever opened,
\* refused or sealed in it stays right.
LEMMA EditFileStep == ASSUME KeyInv, NEW secret \in Value, EditFile(secret) PROVE KeyInv'
<1>1. /\ keyTask' = keyTask /\ keySealed' = keySealed /\ keySeen \subseteq keySeen'
      /\ InForce' \in keySeen' /\ InForce \in keySeen
  BY DEF EditFile, KeyInv, InForce
<1>2. KeyTypeOK'
  BY DEF EditFile, KeyInv, KeyTypeOK, SecretOf
<1>3. ASSUME NEW t \in Thread PROVE (TaskOK(t) /\ SecretOK(t))'
  <2>1. TaskOK(t) /\ SecretOK(t)
    BY DEF KeyInv
  <2>2. TaskOK(t)'
    BY <1>1, <2>1 DEF TaskOK, Salt
  <2>3. SecretOK(t)'
    BY <1>1, <2>1 DEF SecretOK
  <2> QED
    BY <2>2, <2>3
<1>4. SaltsApart'
  BY <1>1 DEF KeyInv, SaltsApart
<1> QED
  BY <1>1, <1>2, <1>3, <1>4 DEF EditFile, KeyInv, Salt

\* A new process has no cache and no thread at work.
LEMMA RestartStep == ASSUME KeyInv, NEW env \in Value, Restart(env) PROVE KeyInv'
<1>1. Idle \in Tasks /\ Idle.op = "none" /\ Idle.at = "idle"
  BY KeyBoundsAssumption DEF Idle, Tasks, Value
<1>2. KeyTypeOK'
  BY <1>1, KeyBoundsAssumption DEF Restart, KeyInv, KeyTypeOK, SecretOf, Value
<1>3. \A t \in Thread : keyTask'[t] = Idle
  BY DEF Restart
<1>4. \A t \in Thread : (TaskOK(t) /\ SecretOK(t))'
  BY <1>1, <1>3 DEF TaskOK, SecretOK, Working
<1>5. SaltsApart'
  BY <1>1, <1>3 DEF SaltsApart
<1>6. InForce' \in keySeen' /\ \A s \in Salt : keyCache'[s] = NoSecret
  BY DEF Restart, InForce
<1> QED
  BY <1>2, <1>4, <1>5, <1>6 DEF KeyInv, Salt

LEMMA KeyStep == KeyInv /\ [KeyNext]_keyVars => KeyInv'
<1> SUFFICES ASSUME KeyInv, [KeyNext]_keyVars PROVE KeyInv'
  OBVIOUS
<1>1. ASSUME NEW t \in Thread, Crypt(t) PROVE KeyInv'
  BY <1>1, SealStep, OpenStep DEF Crypt
<1>2. CASE ClearCache
  BY <1>2 DEF ClearCache, KeyInv, KeyTypeOK, InForce, TaskOK, SecretOK, SaltsApart, Value, Salt
<1>3. CASE UNCHANGED keyVars
  BY <1>3 DEF keyVars, KeyInv, KeyTypeOK, InForce, TaskOK, SecretOK, SaltsApart, Salt
<1> QED
  BY <1>1, <1>2, <1>3, BeginSealStep, BeginOpenStep, LookUpStep, DeriveStep, StoreStep,
     ReturnStep, EditFileStep, RestartStep DEF KeyNext

\* The caches and tasks of the key manager keep their types.
THEOREM KeyTypeCorrect == KeySpec => []KeyTypeOK
<1>1. KeyInv => KeyTypeOK
  BY DEF KeyInv
<1> QED
  BY KeyInvInit, KeyStep, <1>1, PTL DEF KeySpec

\* Private state opens exactly by the secret that encrypt() sealed it under,
\* for any number of threads, sealings, secrets and restarts.
THEOREM SealsOpen == KeySpec => []OpensUnderItsSecret
<1>1. KeyInv => OpensUnderItsSecret
  BY DEF KeyInv, OpensUnderItsSecret, SecretOK
<1> QED
  BY KeyInvInit, KeyStep, <1>1, PTL DEF KeySpec

-----------------------------------------------------------------------------
(* The catalogue.                                                          *)

\* Discovery is over before there is a provider, and does not start again.
HubIsFinal == catProvider # "none" => catPhase \in {"ended", "raised"}

\* What the answers are cached from is there, and so are the capabilities.
HubIsServed ==
  /\ catProvider = "ready" =>
       \A c \in catHub : c.kind \in CheckedKinds => c.parent \in Capabilities
  /\ catProvider # "ready" => catAdvertised = {}
  /\ catAdvertised \subseteq catHub

\* What was published outside of the test mode is for everyone, the functions
\* of GetFunctions aside; and a cached answer was published when it was made.
PublishedIsOpen ==
  /\ \A c \in catAdvertised : TestMode \/ ~c.testOnly \/ c.kind = "function"
  /\ catSchema.answered => catSchema.classes \subseteq catAdvertised
  /\ catFunctions.answered => catFunctions.classes \subseteq catAdvertised

CatInv == HubIsFinal /\ HubIsServed /\ PublishedIsOpen

LEMMA CatInvInit == CatInit => CatInv
<1> SUFFICES ASSUME CatInit PROVE CatInv
  OBVIOUS
<1>1. HubIsFinal /\ HubIsServed
  BY DEF CatInit, HubIsFinal, HubIsServed
<1>2. PublishedIsOpen
  BY DEF CatInit, PublishedIsOpen, NotYet
<1> QED
  BY <1>1, <1>2 DEF CatInv

\* A step of the discovery comes before there is a provider, and so before
\* anything is published.
LEMMA WalkStep ==
  ASSUME CatInv, catProvider = "none", UNCHANGED <<catWorld, catProvider, catRpc>>
  PROVE  CatInv'
<1>1. HubIsFinal' /\ HubIsServed'
  BY DEF CatInv, HubIsFinal, HubIsServed, catRpc
<1>2. PublishedIsOpen'
  BY DEF CatInv, PublishedIsOpen, TestMode, catRpc, catWorld
<1> QED
  BY <1>1, <1>2 DEF CatInv

\* A catalogue that adds what the hub has, and is open, to what was published.
LEMMA PublishStep ==
  ASSUME CatInv, catProvider = "ready", UNCHANGED <<catWorld, catWalk, catProvider, catContext>>,
         NEW answer, answer \subseteq catHub, catAdvertised' = catAdvertised \cup answer,
         \A c \in answer : TestMode \/ ~c.testOnly \/ c.kind = "function",
         catSchema' \in {catSchema, Answered(answer)},
         catFunctions' \in {catFunctions, Answered(answer)}
  PROVE  CatInv'
<1>1. UNCHANGED <<catPhase, catHub, catEnv>>
  BY DEF catWalk, catWorld
<1>2. HubIsFinal' /\ HubIsServed'
  BY <1>1 DEF CatInv, HubIsFinal, HubIsServed, Capabilities, OfKind
<1>3. /\ Answered(answer).classes = answer
  BY DEF Answered
<1>4. PublishedIsOpen'
  BY <1>1, <1>3 DEF CatInv, PublishedIsOpen, TestMode
<1> QED
  BY <1>2, <1>4 DEF CatInv

\* What a filtered kind holds is in the hub, and open.
LEMMA FilteredIsOpen ==
  ASSUME NEW kind, NEW c \in Filtered(kind)
  PROVE  c \in catHub /\ (TestMode \/ ~c.testOnly)
  BY DEF Filtered, OfKind

LEMMA CatStep == CatInv /\ [CatNext]_catVars => CatInv'
<1> SUFFICES ASSUME CatInv, [CatNext]_catVars PROVE CatInv'
  OBVIOUS
<1>1. catPhase \notin {"ended", "raised"} => catProvider = "none"
  BY DEF CatInv, HubIsFinal
<1>2. CASE StartDiscovery \/ QueryFails \/ EndDiscovery
  BY <1>1, <1>2, WalkStep DEF StartDiscovery, QueryFails, EndDiscovery
<1>3. ASSUME NEW m \in Module, SkipModule(m) \/ DiscoverModule(m) \/ BreakModule(m)
      PROVE  CatInv'
  BY <1>1, <1>3, WalkStep DEF SkipModule, DiscoverModule, BreakModule
<1>4. CASE Setup
  <2>1. /\ catPhase \in {"ended", "raised"} /\ catProvider = "none"
        /\ UNCHANGED <<catWorld, catWalk, catRpc>> /\ UNCHANGED <<catPhase, catHub>>
    BY <1>4 DEF Setup, catWalk
  <2>2. /\ HubIsFinal' /\ catAdvertised' = {}
    BY <2>1 DEF CatInv, HubIsFinal, HubIsServed, catRpc
  <2>3. ASSUME catProvider' = "ready", NEW c \in catHub, c.kind \in CheckedKinds
        PROVE  c.parent \in Capabilities
    <3>1. \A kind \in CheckedKinds : \A d \in OfKind(kind) : d.parent \in Capabilities
      BY <1>4, <2>3 DEF Setup
    <3>2. c \in OfKind(c.kind)
      BY DEF OfKind
    <3> QED
      BY <2>3, <3>1, <3>2
  <2>4. HubIsServed'
    BY <2>1, <2>2, <2>3 DEF HubIsServed, Capabilities, OfKind
  <2>5. PublishedIsOpen'
    BY <2>1 DEF CatInv, PublishedIsOpen, TestMode, catRpc, catWorld
  <2> QED
    BY <2>2, <2>4, <2>5 DEF CatInv
<1>5. CASE GetMetadata
  <2> DEFINE answer == UNION {Filtered(kind) : kind \in ServedKinds}
  <2>1. answer \subseteq catHub /\ \A c \in answer : TestMode \/ ~c.testOnly
    BY FilteredIsOpen
  <2> QED
    BY <1>5, <2>1, PublishStep DEF GetMetadata
<1>6. CASE ComputeSchema
  <2> DEFINE computed == {c \in UNION {Filtered(kind) : kind \in ServedKinds} : HasProto(c)}
             answer == IF catSchema.answered THEN catSchema.classes ELSE computed
  <2>1. computed \subseteq catHub /\ \A c \in computed : TestMode \/ ~c.testOnly
    BY FilteredIsOpen
  <2>2. /\ answer \subseteq catHub
        /\ \A c \in answer : TestMode \/ ~c.testOnly \/ c.kind = "function"
    BY <2>1 DEF CatInv, HubIsServed, PublishedIsOpen
  <2>3. /\ catProvider = "ready" /\ catSchema' = Answered(answer) /\ catFunctions' = catFunctions
        /\ catAdvertised' = catAdvertised \cup answer
        /\ UNCHANGED <<catWorld, catWalk, catProvider, catContext>>
    BY <1>6 DEF ComputeSchema
  <2> HIDE DEF answer
  <2> QED
    BY <2>2, <2>3, PublishStep
<1>7. CASE GetFunctions
  <2> DEFINE answer == IF catFunctions.answered THEN catFunctions.classes
                       ELSE {c \in OfKind("function") : HasProto(c)}
  <2>1. /\ answer \subseteq catHub
        /\ \A c \in answer : TestMode \/ ~c.testOnly \/ c.kind = "function"
    BY DEF CatInv, HubIsServed, PublishedIsOpen, OfKind
  <2>2. /\ catProvider = "ready" /\ catFunctions' = Answered(answer) /\ catSchema' = catSchema
        /\ catAdvertised' = catAdvertised \cup answer
        /\ UNCHANGED <<catWorld, catWalk, catProvider, catContext>>
    BY <1>7 DEF GetFunctions
  <2> HIDE DEF answer
  <2> QED
    BY <2>1, <2>2, PublishStep
<1>8. CASE GetIdentitySchemas
  <2> DEFINE answer ==
        {c \in Filtered("resource") \cup Filtered("list_resource") : HasIdentityProto(c)}
  <2>1. answer \subseteq catHub /\ \A c \in answer : TestMode \/ ~c.testOnly
    BY FilteredIsOpen
  <2> QED
    BY <1>8, <2>1, PublishStep DEF GetIdentitySchemas
\* The test mode is never turned off.
<1>9. ASSUME NEW configured \in {"on", "off"}, ConfigureTestMode(configured) PROVE CatInv'
  <2>1. /\ UNCHANGED <<catPhase, catHub, catEnv, catProvider, catSchema, catFunctions, catAdvertised>>
        /\ catContext = "none"
    BY <1>9 DEF ConfigureTestMode, catWalk, catWorld
  <2>2. HubIsFinal' /\ HubIsServed'
    BY <2>1 DEF CatInv, HubIsFinal, HubIsServed, Capabilities, OfKind
  <2>3. PublishedIsOpen'
    BY <2>1 DEF CatInv, PublishedIsOpen, TestMode
  <2> QED
    BY <2>2, <2>3 DEF CatInv
<1>10. CASE UNCHANGED catVars
  BY <1>10 DEF catVars, catWorld, catWalk, catRpc, CatInv, HubIsFinal, HubIsServed,
     PublishedIsOpen, TestMode, Capabilities, OfKind
<1> QED
  BY <1>2, <1>3, <1>4, <1>5, <1>6, <1>7, <1>8, <1>9, <1>10 DEF CatNext

\* What Terraform was told of, a later call reaches, for every set of packages,
\* modules and classes, whatever fails in their discovery.
THEOREM PublishedIsServed == CatSpec => []AdvertisedIsServed
<1>1. CatInv => AdvertisedIsServed
  BY DEF CatInv, HubIsServed, PublishedIsOpen, AdvertisedIsServed, IsServed
<1> QED
  BY CatInvInit, CatStep, <1>1, PTL DEF CatSpec

\* A module that has been discovered has handed on its submodules, unless it
\* registers its components itself, and has its classes in the hub.
IsRegistered(m) ==
  /\ m \notin Explicit => Submodules[m] \subseteq catTodo \cup catDone
  /\ \A c \in Concrete(m) : \E d \in catHub : Key(d) = Key(c)

\* A discovery that has met no error has lost nothing: every package is to come or
\* done, and what is done is registered.
WalkMissesNothing ==
  ~catStrict /\ catErrors = {} /\ ~catUnlisted =>
    /\ catPhase \in {"walking", "ended"} => Package \subseteq catTodo \cup catDone
    /\ \A m \in catDone : IsRegistered(m)
    /\ catPhase = "ended" => catTodo = {}

\* A discovery that could not list the entry points is over, and found nothing.
UnlistedFindsNothing ==
  catUnlisted => catPhase = "ended" /\ (catStrict \/ catHub = {})

\* A strict discovery raises, and may be retried from the middle.
FoundInv ==
  /\ catDone \subseteq Module
  /\ catPhase \in {"idle", "retrying"} => catStrict \/ (catDone = {} /\ catHub = {})
  /\ WalkMissesNothing
  /\ UnlistedFindsNothing

\* The hub keeps every name it has and takes every name it is given.
LEMMA RegisteredKeepsKeys ==
  ASSUME NEW hub, NEW classes, NEW next \in Registered(hub, classes)
  PROVE  /\ \A c \in hub : \E d \in next : Key(d) = Key(c)
         /\ \A c \in classes : \E d \in next : Key(d) = Key(c)
<1>1. PICK last \in SUBSET classes :
        /\ \A c \in classes : \E d \in last : Key(c) = Key(d)
        /\ next = {d \in hub : \A c \in classes : Key(c) # Key(d)} \cup last
  BY DEF Registered
<1>2. \A c \in classes : \E d \in next : Key(d) = Key(c)
  BY <1>1
<1>3. ASSUME NEW c \in hub PROVE \E d \in next : Key(d) = Key(c)
  <2>1. CASE \A e \in classes : Key(e) # Key(c)
    BY <1>1, <2>1
  <2>2. CASE \E e \in classes : Key(e) = Key(c)
    BY <1>2, <2>2
  <2> QED
    BY <2>1, <2>2
<1> QED
  BY <1>2, <1>3

LEMMA FoundInvInit == CatInit => FoundInv
  BY DEF CatInit, FoundInv, WalkMissesNothing, UnlistedFindsNothing

LEMMA FoundStep == FoundInv /\ [CatNext]_catVars => FoundInv'
<1> SUFFICES ASSUME FoundInv, [CatNext]_catVars PROVE FoundInv'
  OBVIOUS
<1> USE DEF FoundInv, UnlistedFindsNothing
<1>1. CASE StartDiscovery
  BY <1>1 DEF StartDiscovery, WalkMissesNothing, IsRegistered
<1>2. CASE QueryFails
  BY <1>2 DEF QueryFails, WalkMissesNothing, IsRegistered
<1>3. CASE EndDiscovery
  BY <1>3 DEF EndDiscovery, WalkMissesNothing, IsRegistered
<1>4. ASSUME NEW m \in Module, SkipModule(m) PROVE FoundInv'
  BY <1>4 DEF SkipModule, WalkMissesNothing, IsRegistered
<1>5. ASSUME NEW m \in Module, DiscoverModule(m) PROVE FoundInv'
  <2>1. /\ catPhase = "walking" /\ m \in catTodo \ catDone
        /\ catDone' = catDone \cup {m}
        /\ catHub' \in Registered(catHub, Concrete(m))
        /\ catTodo' = (catTodo \ {m}) \cup (IF m \in Explicit THEN {} ELSE Submodules[m])
        /\ UNCHANGED <<catStrict, catPhase, catUnlisted, catErrors>>
    BY <1>5 DEF DiscoverModule
  <2>2. catTodo \cup catDone \subseteq catTodo' \cup catDone'
    BY <2>1
  <2>3. /\ \A c \in catHub : \E d \in catHub' : Key(d) = Key(c)
        /\ \A c \in Concrete(m) : \E d \in catHub' : Key(d) = Key(c)
    BY <2>1, RegisteredKeepsKeys
  <2>4. IsRegistered(m)'
    BY <2>1, <2>3 DEF IsRegistered, Concrete, Key
  <2>5. ASSUME NEW n \in catDone, IsRegistered(n) PROVE IsRegistered(n)'
    <3>1. ASSUME NEW c \in Concrete(n) PROVE \E d \in catHub' : Key(d) = Key(c)
      <4>1. PICK e \in catHub : Key(e) = Key(c)
        BY <2>5 DEF IsRegistered
      <4>2. PICK d \in catHub' : Key(d) = Key(e)
        BY <2>3
      <4> QED
        BY <4>1, <4>2
    <3> QED
      BY <2>2, <2>5, <3>1 DEF IsRegistered, Concrete, Key
  <2>6. WalkMissesNothing'
    BY <2>1, <2>2, <2>4, <2>5 DEF WalkMissesNothing
  <2> QED
    BY <2>1, <2>6
\* What fails is on record, unless the discovery is strict.
<1>6. ASSUME NEW m \in Module, BreakModule(m) PROVE FoundInv'
  <2>1. /\ catDone' \in {catDone, catDone \cup {m}} /\ catPhase = "walking"
        /\ UNCHANGED <<catStrict, catUnlisted>> /\ Fail(m)
    BY <1>6 DEF BreakModule
  <2>2. CASE catStrict
    BY <2>1, <2>2 DEF WalkMissesNothing
  <2>3. CASE ~catStrict
    <3>1. catErrors' # {} /\ catPhase' = "walking"
      BY <2>1, <2>3 DEF Fail
    <3> QED
      BY <2>1, <2>3, <3>1 DEF WalkMissesNothing
  <2> QED
    BY <2>2, <2>3
<1>7. CASE \/ Setup \/ GetMetadata \/ ComputeSchema \/ GetFunctions \/ GetIdentitySchemas
           \/ (\E configured \in {"on", "off"} : ConfigureTestMode(configured))
           \/ UNCHANGED catVars
  <2>1. UNCHANGED catWalk
    BY <1>7 DEF Setup, GetMetadata, ComputeSchema, GetFunctions, GetIdentitySchemas,
       ConfigureTestMode, catVars
  <2> QED
    BY <2>1 DEF catWalk, WalkMissesNothing, IsRegistered, Concrete, Key
<1> QED
  BY <1>1, <1>2, <1>3, <1>4, <1>5, <1>6, <1>7 DEF CatNext

\* The recursive function Reach satisfies its equation, which needs a function
\* that does (IterationExists), and stays within the modules.
LEMMA ReachUnfolds ==
  /\ Reach \in [Nat -> SUBSET Module]
  /\ Reach[0] = Package
  /\ \A n \in Nat : Reach[n + 1] = Reach[n] \cup UNION {Submodules[m] : m \in Reach[n] \ Explicit}
<1> DEFINE next(S) == S \cup UNION {Submodules[m] : m \in S \ Explicit}
           step == [S \in SUBSET Module |-> next(S)]
           Equation(f) == f = [n \in Nat |-> IF n = 0 THEN Package
                                ELSE f[n - 1] \cup UNION {Submodules[m] : m \in f[n - 1] \ Explicit}]
<1>1. step \in [SUBSET Module -> SUBSET Module] /\ Package \in SUBSET Module
  BY ModuleAssumption
<1>2. PICK g \in [Nat -> SUBSET Module] :
        g[0] = Package /\ \A n \in Nat : g[n + 1] = step[g[n]]
  <2> DEFINE S == SUBSET Module
  <2>1. step \in [S -> S] /\ Package \in S
    BY <1>1
  <2> HIDE DEF step, S
  <2>2. \E g \in [Nat -> S] : g[0] = Package /\ \A n \in Nat : g[n + 1] = step[g[n]]
    BY <2>1, IterationExists
  <2> QED
    BY <2>2 DEF S
<1>3. ASSUME NEW n \in Nat, n # 0 PROVE g[n] = next(g[n - 1])
  <2>1. n - 1 \in Nat /\ g[n] = step[g[n - 1]]
    <3>1. n - 1 \in Nat /\ (n - 1) + 1 = n
      BY <1>3
    <3> HIDE DEF step
    <3> QED
      BY <1>2, <3>1
  <2>2. g[n - 1] \in SUBSET Module
    BY <1>2, <2>1
  <2> QED
    BY <2>1, <2>2
<1>4. Equation(g)
  BY <1>2, <1>3
<1>5. Equation(Reach)
  BY <1>4, Zenon DEF Reach
<1>6. ASSUME NEW n \in Nat PROVE Reach[n] \in SUBSET Module
  <2> DEFINE P == {k \in Nat : Reach[k] \in SUBSET Module}
  <2>1. 0 \in P
    BY <1>5, ModuleAssumption
  <2>2. ASSUME NEW k \in P PROVE k + 1 \in P
    <3>1. Reach[k + 1] = Reach[k] \cup UNION {Submodules[m] : m \in Reach[k] \ Explicit}
      BY <1>5
    <3> QED
      BY <3>1, ModuleAssumption
  <2>3. P \in SUBSET Nat
    OBVIOUS
  <2> HIDE DEF P
  <2>4. P = Nat
    BY <2>1, <2>2, <2>3, InductionOnNumbers
  <2> QED
    BY <2>4 DEF P
<1>7. Reach \in [Nat -> SUBSET Module] /\ Reach[0] = Package
  BY <1>5, <1>6
<1>8. ASSUME NEW n \in Nat
      PROVE  Reach[n + 1] = Reach[n] \cup UNION {Submodules[m] : m \in Reach[n] \ Explicit}
  <2>1. n + 1 \in Nat /\ n + 1 # 0 /\ (n + 1) - 1 = n
    OBVIOUS
  <2> QED
    BY <1>5, <2>1
<1> QED
  BY <1>7, <1>8

\* Contains the packages, and the submodules of what it contains, those of the
\* modules that register their own aside.
IsClosed(S) == Package \subseteq S /\ \A m \in S \ Explicit : Submodules[m] \subseteq S

\* Nothing is reachable but through a package and its submodules: every closed set
\* contains what is.
THEOREM ReachableIsLeast ==
  ASSUME NEW S, IsClosed(S)
  PROVE  Reachable \subseteq S
<1> DEFINE P == {n \in Nat : Reach[n] \subseteq S}
<1>1. 0 \in P
  BY ReachUnfolds DEF IsClosed
<1>2. ASSUME NEW n \in P PROVE n + 1 \in P
  BY ReachUnfolds DEF IsClosed
<1>3. P \in SUBSET Nat
  OBVIOUS
<1>4. P = Nat
  <2> HIDE DEF P
  <2> QED
    BY <1>1, <1>2, <1>3, InductionOnNumbers
<1>5. Cardinality(Module) \in Nat
  BY ModuleAssumption, FS_CardinalityType
<1> QED
  BY <1>4, <1>5 DEF Reachable

\* As many steps as there are modules reach everything: the reachable modules are
\* closed, as a step that adds nothing comes before the modules run out.
THEOREM ReachableIsClosed == IsClosed(Reachable)
<1> DEFINE N == Cardinality(Module)
<1>1. N \in Nat /\ \A n \in Nat : IsFiniteSet(Reach[n]) /\ Cardinality(Reach[n]) \in 0..N
  <2>1. N \in Nat
    BY ModuleAssumption, FS_CardinalityType
  <2>2. ASSUME NEW n \in Nat PROVE IsFiniteSet(Reach[n]) /\ Cardinality(Reach[n]) \in 0..N
    <3>1. Reach[n] \in SUBSET Module
      BY ReachUnfolds
    <3>2. IsFiniteSet(Reach[n]) /\ Cardinality(Reach[n]) <= N
      BY <3>1, ModuleAssumption, FS_Subset
    <3> QED
      BY <2>1, <3>2, FS_CardinalityType
  <2> QED
    BY <2>1, <2>2
\* A step that adds nothing is the last one that could.
<1>2. ASSUME NEW k \in Nat, Reach[k + 1] = Reach[k]
      PROVE  \A n \in Nat : n >= k => Reach[n] = Reach[k]
  <2> DEFINE P == {n \in Nat : n >= k => Reach[n] = Reach[k]}
  <2>1. 0 \in P
    OBVIOUS
  <2>2. ASSUME NEW n \in P PROVE n + 1 \in P
    <3>1. CASE n >= k
      <4>1. Reach[n + 1] = Reach[k + 1]
        <5> DEFINE next(S) == S \cup UNION {Submodules[m] : m \in S \ Explicit}
        <5>1. Reach[n + 1] = next(Reach[n]) /\ Reach[k + 1] = next(Reach[k])
          BY ReachUnfolds
        <5>2. Reach[n] = Reach[k]
          BY <3>1
        <5> HIDE DEF next
        <5> QED
          BY <5>1, <5>2
      <4> QED
        BY <1>2, <4>1
    <3>2. CASE n < k
      <4>1. n + 1 \in Nat /\ (n + 1 >= k => n + 1 = k)
        BY <3>2
      <4> QED
        BY <4>1, Zenon
    <3> QED
      BY <3>1, <3>2
  <2>3. P \in SUBSET Nat
    OBVIOUS
  <2> HIDE DEF P
  <2>4. P = Nat
    BY <2>1, <2>2, <2>3, InductionOnNumbers
  <2> QED
    BY <2>4 DEF P
<1>3. PICK k \in 0..N : Reach[k + 1] = Reach[k]
  <2> SUFFICES ASSUME \A k \in 0..N : Reach[k + 1] # Reach[k] PROVE FALSE
    OBVIOUS
  <2> DEFINE P == {n \in Nat : n <= N + 1 => Cardinality(Reach[n]) >= n}
  <2>1. 0 \in P
    BY <1>1
  <2>2. ASSUME NEW n \in P PROVE n + 1 \in P
    <3> SUFFICES ASSUME n <= N PROVE Cardinality(Reach[n + 1]) >= n + 1
      BY <1>1
    <3>1. Reach[n] \in SUBSET Reach[n + 1] /\ Reach[n + 1] # Reach[n]
      BY <1>1, ReachUnfolds
    <3>2. Cardinality(Reach[n]) <= Cardinality(Reach[n + 1])
          /\ Cardinality(Reach[n]) # Cardinality(Reach[n + 1])
      BY <1>1, <3>1, FS_Subset
    <3>3. Cardinality(Reach[n]) >= n
      <4>1. n <= N + 1
        BY <1>1
      <4> QED
        BY <4>1
    <3>4. Cardinality(Reach[n]) \in Nat /\ Cardinality(Reach[n + 1]) \in Nat /\ n \in Nat
      BY <1>1
    <3> HIDE DEF P
    <3> QED
      BY <3>2, <3>3, <3>4
  <2>3. P \in SUBSET Nat
    OBVIOUS
  <2>4. P = Nat
    <3> HIDE DEF P
    <3> QED
      BY <2>1, <2>2, <2>3, InductionOnNumbers
  <2>5. N + 1 \in P
    BY <1>1, <2>4
  <2> QED
    BY <1>1, <2>5
<1>4. Reachable = Reach[k] /\ Reach[k + 1] = Reach[k]
  BY <1>1, <1>2, <1>3 DEF Reachable
<1>5. Package \subseteq Reachable
  <2> DEFINE P == {n \in Nat : Package \subseteq Reach[n]}
  <2>1. 0 \in P
    BY ReachUnfolds
  <2>2. ASSUME NEW n \in P PROVE n + 1 \in P
    <3>1. n \in Nat /\ Package \subseteq Reach[n]
      OBVIOUS
    <3>2. Reach[n] \subseteq Reach[n + 1]
      BY <3>1, ReachUnfolds
    <3> QED
      BY <3>1, <3>2
  <2>3. P \in SUBSET Nat
    OBVIOUS
  <2>4. P = Nat
    <3> HIDE DEF P
    <3> QED
      BY <2>1, <2>2, <2>3, InductionOnNumbers
  <2> QED
    BY <1>1, <2>4 DEF Reachable
<1> QED
  BY <1>3, <1>4, <1>5, ReachUnfolds DEF IsClosed

\* A lenient discovery that reports no error has registered every component of
\* every module that can be reached, for every graph of modules, cycles included
\* (discover_all, _discover_package), or none at all, when it could not list
\* the entry points.
THEOREM ErrorFreeDiscoveryIsComplete == CatSpec => []NoErrorMeansAllOrNone
<1>1. FoundInv => NoErrorMeansAllOrNone
  <2> SUFFICES ASSUME FoundInv, catPhase = "ended", ~catStrict, catErrors = {}, ~catUnlisted
               PROVE  \A m \in Reachable : \A c \in Concrete(m) : \E d \in catHub : Key(d) = Key(c)
    BY DEF NoErrorMeansAllOrNone, FoundInv, UnlistedFindsNothing
  <2>1. IsClosed(catDone) /\ \A m \in catDone : IsRegistered(m)
    BY DEF FoundInv, WalkMissesNothing, IsRegistered, IsClosed
  <2>2. Reachable \subseteq catDone
    BY <2>1, ReachableIsLeast
  <2> QED
    BY <2>1, <2>2 DEF IsRegistered
<1> QED
  BY FoundInvInit, FoundStep, <1>1, PTL DEF CatSpec

-----------------------------------------------------------------------------
(* The installation.                                                       *)

\* The file in the plugin directory of the version that was installed last is
\* the one that this installation has put there.
PlacedAsReported ==
  instResult.command \in {"install", "reinstall"} /\ instResult.ok =>
    IF instFrozen THEN instPlugins[instResult.version] = "binary"
    ELSE \/ instResult.venv = "full" /\ instPlugins[instResult.version] = "wrapper:command"
         \/ instResult.venv = "module" /\ instPlugins[instResult.version] = "wrapper:module"

LaunchIsRight ==
  /\ instLaunch.by = "terraform" => instLaunch.mode # "interactive"
  /\ instLaunch.by = "person" => instLaunch.mode # "serve"

InstInv ==
  /\ instVersion \in ProjectVersions /\ DOMAIN instPlugins = ProjectVersions
  /\ instVenv \in Venvs
  /\ PlacedAsReported /\ LaunchIsRight

LEMMA InstInvInit == InstInit => InstInv
<1> SUFFICES ASSUME InstInit PROVE InstInv
  OBVIOUS
<1>1. NoResult.command = "none" /\ NoLaunch.by = "nobody"
  BY DEF NoResult, NoLaunch
<1>2. PlacedAsReported /\ LaunchIsRight
  BY <1>1 DEF InstInit, PlacedAsReported, LaunchIsRight
<1> QED
  BY <1>2 DEF InstInit, InstInv

\* With the cookie a plugin never shows the help, without it it never serves.
LEMMA PluginModes ==
  ASSUME NEW plugin
  PROVE  /\ PluginMode(plugin, TRUE) # "interactive"
         /\ PluginMode(plugin, FALSE) # "serve"
         /\ ProvideMode(FALSE, FALSE, FALSE, FALSE) # "serve"
  BY DEF PluginMode, ProvideMode

LEMMA InstStep == InstInv /\ [InstNext]_instVars => InstInv'
<1> SUFFICES ASSUME InstInv, [InstNext]_instVars PROVE InstInv'
  OBVIOUS
<1> USE DEF InstInv
<1>1. ASSUME NEW command \in {"install", "uninstall", "reinstall"}, InstallCommand(command)
      PROVE  InstInv'
  <2> DEFINE outcomes == IF command = "uninstall" THEN {[plugin |-> "none", ok |-> TRUE]}
                         ELSE Place(Cleared(command, instPlugins[instVersion]))
  <2>1. PICK outcome \in outcomes :
          /\ instPlugins' = [instPlugins EXCEPT ![instVersion] = outcome.plugin]
          /\ instResult' = [command |-> command, ok |-> outcome.ok, venv |-> instVenv,
                            version |-> instVersion]
    BY <1>1 DEF InstallCommand
  <2>2. command # "uninstall" /\ outcome.ok =>
          IF instFrozen THEN outcome.plugin = "binary"
          ELSE \/ instVenv = "full" /\ outcome.plugin = "wrapper:command"
               \/ instVenv = "module" /\ outcome.plugin = "wrapper:module"
    BY <2>1 DEF Place, PlaceBinary, PlaceWrapper, Venvs
  <2>3. UNCHANGED <<instFrozen, instVenv, instVersion, instLaunch>>
    BY <1>1 DEF InstallCommand
  <2>4. instPlugins'[instVersion] = outcome.plugin
    BY <2>1
  <2>5. PlacedAsReported'
    BY <2>1, <2>2, <2>3, <2>4 DEF PlacedAsReported
  <2> QED
    BY <2>1, <2>3, <2>5 DEF LaunchIsRight
<1>2. CASE RefuseInstall
  BY <1>2 DEF RefuseInstall, PlacedAsReported, LaunchIsRight, NoResult
<1>3. ASSUME NEW venv \in Venvs, NEW version \in ProjectVersions, ChangeProject(venv, version)
      PROVE  InstInv'
  BY <1>3 DEF ChangeProject, PlacedAsReported, LaunchIsRight
<1>4. CASE TerraformStarts
  BY <1>4, PluginModes DEF TerraformStarts, PlacedAsReported, LaunchIsRight
<1>5. ASSUME NEW force \in BOOLEAN, PersonStarts(force) PROVE InstInv'
  BY <1>5, PluginModes DEF PersonStarts, PlacedAsReported, LaunchIsRight
<1>6. CASE UNCHANGED instVars
  BY <1>6 DEF instVars, PlacedAsReported, LaunchIsRight
<1> QED
  BY <1>1, <1>2, <1>3, <1>4, <1>5, <1>6 DEF InstNext

\* What was installed starts when Terraform starts it, for every number of
\* versions, whatever happened to the other ones.
THEOREM InstalledStarts == InstSpec => []InstalledServes
<1>1. InstInv => InstalledServes
  BY DEF InstInv, PlacedAsReported, LaunchIsRight, InstalledServes, PluginMode, ProvideMode,
     WrapperRuns
<1> QED
  BY InstInvInit, InstStep, <1>1, PTL DEF InstSpec

-----------------------------------------------------------------------------
(* The walk of unmark_iteratively over a value that may share its parts.   *)

\* What is on the stack, and what is above one entry of it.
StackEntry == Node \cup {PostProcess}
Above(i) == (i + 1)..Len(walkStack)

\* A copy, where there is one, has no mark: the walk rebuilds what it copies.
WalkTypeOK ==
  /\ walkChildren \in Graphs
  /\ walkStack \in Seq(StackEntry)
  /\ walkProcessing \subseteq Node
  /\ walkDone \in [Node -> {NoCopy, {}}]

Markers == {i \in DOMAIN walkStack : walkStack[i] = PostProcess}
Children(n) == {walkChildren[n][at] : at \in DOMAIN walkChildren[n]}

\* A marker stands on its node; what the node holds is copied or will come up
\* before it; and only descendants, which have higher numbers, are above it.
MarkerStands(i) ==
  /\ i > 1 /\ walkStack[i - 1] \in Node
  /\ \A c \in Children(walkStack[i - 1]) :
       walkDone[c] # NoCopy \/ \E j \in Above(i) : walkStack[j] = c
  /\ \A j \in Above(i) : walkStack[j] # PostProcess => walkStack[j] > walkStack[i - 1]

MarkersStand == \A i \in Markers : MarkerStands(i)

\* A node is being processed as long as its marker is on the stack.
ProcessingHasMarker ==
  \A n \in walkProcessing : \E i \in Markers : i > 1 /\ walkStack[i - 1] = n

\* The value itself is copied or will come up.
RootIsToCome ==
  walkDone[Root] # NoCopy \/ \E j \in DOMAIN walkStack : walkStack[j] = Root

WalkInv ==
  /\ WalkTypeOK
  /\ MarkersStand
  /\ ProcessingHasMarker
  /\ RootIsToCome

\* What a node holds has higher numbers than it.
LEMMA GraphFacts ==
  ASSUME NEW g \in Graphs, NEW n \in Node
  PROVE  /\ g[n] \in Seq(Node)
         /\ Len(g[n]) \in Nat /\ DOMAIN g[n] = 1..Len(g[n])
         /\ \A at \in DOMAIN g[n] : g[n][at] \in Node /\ g[n][at] > n
<1>1. PICK k \in 0..Width : g[n] \in [1..k -> Node]
  BY DEF Graphs
<1>2. k \in Nat
  BY <1>1, SizeAssumption
<1>3. g[n] \in Seq(Node)
  BY <1>1, <1>2, SeqDef
<1>4. \A at \in DOMAIN g[n] : g[n][at] > n
  BY DEF Graphs
<1> QED
  BY <1>1, <1>3, <1>4, LenProperties

LEMMA WalkInvInit == WalkInit => WalkInv
<1> SUFFICES ASSUME WalkInit PROVE WalkInv
  OBVIOUS
<1>1. Root \in Node
  BY SizeAssumption DEF Root, Node
<1>2. walkStack = <<Root>> /\ Len(walkStack) = 1 /\ DOMAIN walkStack = {1} /\ walkStack[1] = Root
  BY DEF WalkInit
<1>3. WalkTypeOK
  BY <1>1 DEF WalkInit, WalkTypeOK, StackEntry
<1>4. Markers = {}
  BY <1>2 DEF Markers, Root, PostProcess
<1> QED
  BY <1>2, <1>3, <1>4 DEF WalkInv, MarkersStand, ProcessingHasMarker, RootIsToCome, WalkInit

\* What is left when the top entries are popped.
LEMMA Popped ==
  ASSUME WalkTypeOK, NEW k \in 1..2, k <= Len(walkStack)
  PROVE  /\ Len(walkStack) \in Nat /\ DOMAIN walkStack = 1..Len(walkStack)
         /\ \A i \in DOMAIN walkStack : walkStack[i] \in StackEntry
         /\ Below(k) \in Seq(StackEntry)
         /\ Len(Below(k)) = Len(walkStack) - k
         /\ DOMAIN Below(k) = 1..(Len(walkStack) - k)
         /\ \A i \in 1..(Len(walkStack) - k) : Below(k)[i] = walkStack[i]
<1>1. /\ Len(walkStack) \in Nat /\ DOMAIN walkStack = 1..Len(walkStack)
      /\ \A i \in DOMAIN walkStack : walkStack[i] \in StackEntry
  BY LenProperties, ElementOfSeq DEF WalkTypeOK
<1> DEFINE n == Len(walkStack) - k
<1>2. n \in Nat
  BY <1>1
<1>3. /\ SubSeq(walkStack, 1, n) \in Seq(StackEntry)
      /\ Len(SubSeq(walkStack, 1, n)) = IF 1 <= n THEN n - 1 + 1 ELSE 0
      /\ \A i \in 1..(n - 1 + 1) : SubSeq(walkStack, 1, n)[i] = walkStack[1 + i - 1]
  <2>1. \A i \in 1..n : walkStack[i] \in StackEntry
    BY <1>1
  <2> HIDE DEF n
  <2> QED
    BY <1>2, <2>1, SubSeqProperties
<1>4. Len(Below(k)) = n /\ Below(k) \in Seq(StackEntry)
  BY <1>2, <1>3 DEF Below
<1>5. DOMAIN Below(k) = 1..n
  BY <1>4, LenProperties
<1>6. ASSUME NEW i \in 1..n PROVE Below(k)[i] = walkStack[i]
  BY <1>2, <1>3 DEF Below
<1> QED
  BY <1>1, <1>4, <1>5, <1>6

\* A node comes off the stack when there is a copy of it.
LEMMA PopStep ==
  ASSUME WalkInv, walkStack # <<>>, Top # PostProcess, walkStack' = Below(1),
         UNCHANGED <<walkChildren, walkProcessing>>,
         walkDone' \in [Node -> {NoCopy, {}}], walkDone'[Top] # NoCopy,
         \A n \in Node : walkDone[n] # NoCopy => walkDone'[n] # NoCopy
  PROVE  WalkInv'
<1> DEFINE len == Len(walkStack)
<1>1. len >= 1 /\ len \in Nat
  BY LenProperties, EmptySeq DEF WalkInv, WalkTypeOK
<1>2. /\ DOMAIN walkStack = 1..len /\ \A i \in DOMAIN walkStack : walkStack[i] \in StackEntry
      /\ Below(1) \in Seq(StackEntry) /\ Len(Below(1)) = len - 1
      /\ DOMAIN Below(1) = 1..(len - 1)
      /\ \A i \in 1..(len - 1) : Below(1)[i] = walkStack[i]
  <2>1. WalkTypeOK /\ 1 \in 1..2 /\ 1 <= Len(walkStack)
    BY <1>1 DEF WalkInv
  <2> QED
    BY <2>1, Popped
<1>3. WalkTypeOK'
  BY <1>2 DEF WalkInv, WalkTypeOK, StackEntry, Node, Graphs
<1>4. Markers' \subseteq Markers /\ \A i \in Markers : i < len
  BY <1>1, <1>2 DEF Markers, Top
<1>5. ASSUME NEW i \in Markers', MarkerStands(i) PROVE MarkerStands(i)'
  <2>1. i \in 1..(len - 1) /\ i > 1 /\ walkStack'[i - 1] = walkStack[i - 1]
    BY <1>1, <1>2, <1>5 DEF Markers, MarkerStands
  <2>2. Children(walkStack[i - 1])' = Children(walkStack[i - 1])
    BY <2>1 DEF Children
  <2>3. Children(walkStack[i - 1]) \subseteq Node
    BY <1>5, GraphFacts DEF MarkerStands, Children, WalkInv, WalkTypeOK
  <2>4. Above(i)' = (i + 1)..(len - 1) /\ Above(i) = (i + 1)..len
    BY <1>2 DEF Above
  <2>5. ASSUME NEW c \in Children(walkStack[i - 1])
        PROVE  walkDone'[c] # NoCopy \/ \E j \in Above(i)' : walkStack'[j] = c
    <3>1. CASE walkDone[c] # NoCopy
      BY <2>3, <3>1
    <3>2. ASSUME NEW j \in Above(i), walkStack[j] = c
          PROVE  walkDone'[c] # NoCopy \/ \E k \in Above(i)' : walkStack'[k] = c
      <4>1. CASE j = len
        BY <3>2, <4>1 DEF Top
      <4>2. CASE j # len
        <5>1. j \in Above(i)' /\ j \in 1..(len - 1)
          BY <1>1, <2>1, <2>4, <3>2, <4>2
        <5>2. walkStack'[j] = c
          BY <1>2, <3>2, <5>1
        <5> QED
          BY <5>1, <5>2
      <4> QED
        BY <4>1, <4>2
    <3> QED
      BY <1>5, <3>1, <3>2 DEF MarkerStands
  <2>6. ASSUME NEW j \in Above(i)', walkStack'[j] # PostProcess PROVE walkStack'[j] > walkStack[i - 1]
    <3>1. j \in Above(i) /\ walkStack'[j] = walkStack[j]
      BY <1>1, <1>2, <2>1, <2>4, <2>6
    <3> QED
      BY <1>5, <2>6, <3>1 DEF MarkerStands
  <2> QED
    BY <1>5, <2>1, <2>2, <2>5, <2>6 DEF MarkerStands
<1>6. MarkersStand'
  BY <1>4, <1>5 DEF WalkInv, MarkersStand
<1>7. ProcessingHasMarker'
  <2> SUFFICES ASSUME NEW n \in walkProcessing
               PROVE  \E i \in Markers' : i > 1 /\ walkStack'[i - 1] = n
    BY DEF ProcessingHasMarker
  <2>1. PICK i \in Markers : i > 1 /\ walkStack[i - 1] = n
    BY DEF WalkInv, ProcessingHasMarker
  <2>2. i \in 1..(len - 1) /\ i - 1 \in 1..(len - 1)
    BY <1>1, <1>2, <1>4, <2>1 DEF Markers
  <2> QED
    BY <1>2, <2>1, <2>2 DEF Markers
<1>8. RootIsToCome'
  <2>1. Root \in Node
    BY SizeAssumption DEF Root, Node
  <2>2. CASE walkDone[Root] # NoCopy
    BY <2>1, <2>2 DEF RootIsToCome
  <2>3. ASSUME NEW j \in DOMAIN walkStack, walkStack[j] = Root PROVE RootIsToCome'
    <3>1. CASE j = len
      BY <2>3, <3>1 DEF RootIsToCome, Top
    <3>2. CASE j # len
      BY <1>1, <1>2, <2>3, <3>2 DEF RootIsToCome
    <3> QED
      BY <3>1, <3>2
  <2> QED
    BY <2>2, <2>3 DEF WalkInv, RootIsToCome
<1> QED
  BY <1>3, <1>6, <1>7, <1>8 DEF WalkInv

\* What a sequence holds that has two entries put between its two parts.
LEMMA PairBetween ==
  ASSUME NEW S, NEW s \in Seq(S), NEW x \in S, NEW y \in S, NEW t \in Seq(S),
         NEW w, w = s \o <<x, y>> \o t
  PROVE  /\ w \in Seq(S)
         /\ Len(w) = Len(s) + 2 + Len(t)
         /\ \A i \in 1..Len(s) : w[i] = s[i]
         /\ w[Len(s) + 1] = x
         /\ w[Len(s) + 2] = y
         /\ \A i \in 1..Len(t) : w[Len(s) + 2 + i] = t[i]
<1> DEFINE pair == <<x, y>>
           front == s \o pair
<1>0. Len(s) \in Nat /\ Len(t) \in Nat
  BY LenProperties
<1>1. pair \in Seq(S) /\ Len(pair) = 2 /\ pair[1] = x /\ pair[2] = y
  OBVIOUS
<1>2. w = front \o t
  OBVIOUS
<1> HIDE DEF pair
<1>3. /\ front \in Seq(S)
      /\ Len(front) = Len(s) + Len(pair)
      /\ \A i \in 1 .. Len(s) + Len(pair) :
           front[i] = IF i <= Len(s) THEN s[i] ELSE pair[i - Len(s)]
  BY <1>1, ConcatProperties, Zenon
<1> HIDE DEF front
<1>4. /\ w \in Seq(S)
      /\ Len(w) = Len(front) + Len(t)
      /\ \A i \in 1 .. Len(front) + Len(t) :
           w[i] = IF i <= Len(front) THEN front[i] ELSE t[i - Len(front)]
  <2>0. front \in Seq(S)
    BY <1>3
  <2>1. /\ front \o t \in Seq(S)
        /\ Len(front \o t) = Len(front) + Len(t)
        /\ \A i \in 1 .. Len(front) + Len(t) :
             (front \o t)[i] = IF i <= Len(front) THEN front[i] ELSE t[i - Len(front)]
    BY <2>0, ConcatProperties, Zenon
  <2> QED
    BY <1>2, <2>1
<1>5. Len(front) = Len(s) + 2
  BY <1>1, <1>3
<1>6. \A i \in 1..Len(s) : w[i] = s[i]
  <2> TAKE i \in 1..Len(s)
  <2>1. front[i] = s[i]
    BY <1>0, <1>1, <1>3
  <2> QED
    BY <1>0, <1>4, <1>5, <2>1
<1>7. w[Len(s) + 1] = x /\ w[Len(s) + 2] = y
  <2>1. front[Len(s) + 1] = pair[1] /\ front[Len(s) + 2] = pair[2]
    <3>1. /\ Len(s) + 1 \in 1 .. Len(s) + Len(pair) /\ Len(s) + 2 \in 1 .. Len(s) + Len(pair)
          /\ ~(Len(s) + 1 <= Len(s)) /\ ~(Len(s) + 2 <= Len(s))
          /\ Len(s) + 1 - Len(s) = 1 /\ Len(s) + 2 - Len(s) = 2
      BY <1>0, <1>1
    <3> QED
      BY <1>3, <3>1
  <2>2. w[Len(s) + 1] = front[Len(s) + 1] /\ w[Len(s) + 2] = front[Len(s) + 2]
    BY <1>0, <1>4, <1>5
  <2> QED
    BY <1>1, <2>1, <2>2
<1>8. \A i \in 1..Len(t) : w[Len(s) + 2 + i] = t[i]
  <2> TAKE i \in 1..Len(t)
  <2>1. /\ Len(s) + 2 + i \in 1 .. Len(front) + Len(t)
        /\ ~(Len(s) + 2 + i <= Len(front))
        /\ Len(s) + 2 + i - Len(front) = i
    BY <1>0, <1>5
  <2> QED
    BY <1>4, <2>1
<1> QED
  BY <1>4, <1>5, <1>6, <1>7, <1>8

\* A container is processed: it stays on the stack, its marker and what it holds
\* come above it.
LEMMA PushStep == ASSUME WalkInv, PushChildren PROVE WalkInv'
<1>0. Len(walkStack) >= 1 /\ Len(walkStack) \in Nat
  BY LenProperties, EmptySeq DEF WalkInv, WalkTypeOK, PushChildren, IsNew
<1> PICK len \in Nat : len = Len(walkStack)
  BY <1>0
<1> DEFINE kids == walkChildren[Top]
           n == Len(kids)
<1>1. len >= 1 /\ len \in Nat
  BY <1>0
<1>2. /\ DOMAIN walkStack = 1..len /\ \A i \in DOMAIN walkStack : walkStack[i] \in StackEntry
      /\ Below(1) \in Seq(StackEntry) /\ Len(Below(1)) = len - 1
      /\ \A i \in 1..(len - 1) : Below(1)[i] = walkStack[i]
  <2>1. WalkTypeOK /\ 1 \in 1..2 /\ 1 <= Len(walkStack)
    BY <1>0 DEF WalkInv
  <2> QED
    BY <2>1, Popped
<1>3. Top \in Node /\ Top = walkStack[len] /\ walkDone[Top] = NoCopy
  BY <1>1, <1>2 DEF Top, StackEntry, PushChildren, IsNew
<1>4. /\ kids \in Seq(Node) /\ n \in Nat /\ DOMAIN kids = 1..n
      /\ \A at \in DOMAIN kids : kids[at] \in Node /\ kids[at] > Top
  BY <1>3, GraphFacts DEF WalkInv, WalkTypeOK
<1>5. walkStack' = Below(1) \o <<Top, PostProcess>> \o kids /\ kids \in Seq(StackEntry)
  BY <1>4, SeqMonotonic DEF PushChildren, StackEntry
<1> HIDE DEF kids, n
<1>6. Top \in StackEntry /\ PostProcess \in StackEntry
  BY <1>3 DEF StackEntry
<1>7. /\ walkStack' \in Seq(StackEntry) /\ DOMAIN walkStack' = 1..(len + n + 1)
      /\ Len(walkStack') = len + n + 1
  <2>1. len - 1 + 2 + n = len + n + 1
    BY <1>1, <1>4
  <2>2. Below(1) \in Seq(StackEntry) /\ kids \in Seq(StackEntry) /\ Len(Below(1)) = len - 1
    BY <1>2, <1>5
  <2>3. walkStack' \in Seq(StackEntry) /\ Len(walkStack') = Len(Below(1)) + 2 + Len(kids)
    BY <1>5, <1>6, <2>2, PairBetween
  <2>4. DOMAIN walkStack' = 1..Len(walkStack')
    BY <2>3, LenProperties
  <2> QED
    BY <2>1, <2>2, <2>3, <2>4 DEF n
<1>8. /\ \A i \in 1..len : walkStack'[i] = walkStack[i]
      /\ walkStack'[len + 1] = PostProcess
      /\ \A at \in 1..n : walkStack'[len + 1 + at] = kids[at]
  <2>1. /\ \A i \in 1..(len - 1) : walkStack'[i] = Below(1)[i]
        /\ walkStack'[(len - 1) + 1] = Top /\ walkStack'[(len - 1) + 2] = PostProcess
        /\ \A at \in 1..n : walkStack'[(len - 1) + 2 + at] = kids[at]
    <3>1. Below(1) \in Seq(StackEntry) /\ kids \in Seq(StackEntry) /\ Len(Below(1)) = len - 1
      BY <1>2, <1>5
    <3>2. /\ \A i \in 1..Len(Below(1)) : walkStack'[i] = Below(1)[i]
          /\ walkStack'[Len(Below(1)) + 1] = Top /\ walkStack'[Len(Below(1)) + 2] = PostProcess
          /\ \A at \in 1..Len(kids) : walkStack'[Len(Below(1)) + 2 + at] = kids[at]
      BY <1>5, <1>6, <3>1, PairBetween
    <3> QED
      BY <3>1, <3>2 DEF n
  <2>2. /\ (len - 1) + 1 = len /\ (len - 1) + 2 = len + 1
        /\ \A i \in 1..len : i \in 1..(len - 1) \/ i = len
    BY <1>1
  <2> QED
    BY <1>2, <1>3, <2>1, <2>2
<1>9. UNCHANGED <<walkChildren, walkDone>> /\ walkProcessing' = walkProcessing \cup {Top}
  BY DEF PushChildren
<1>10. WalkTypeOK'
  BY <1>3, <1>7, <1>9 DEF WalkInv, WalkTypeOK, StackEntry, Node, Graphs
\* Everything on the stack now was there before, or is the new marker, or is a
\* node that the processed one holds.
<1>11. ASSUME NEW j \in DOMAIN walkStack', j \notin 1..len, j # len + 1
       PROVE  \E at \in 1..n : j = len + 1 + at
  <2>1. n \in Nat /\ len \in Nat /\ j \in 1..(len + n + 1)
    BY <1>1, <1>4, <1>7
  <2>2. j - (len + 1) \in 1..n /\ j = len + 1 + (j - (len + 1))
    BY <1>11, <2>1
  <2> QED
    BY <2>2
<1>12. ASSUME NEW i \in Markers, MarkerStands(i) PROVE MarkerStands(i)'
  <2>1. i \in 1..len /\ i # len /\ i > 1 /\ walkStack'[i - 1] = walkStack[i - 1]
        /\ walkStack[i - 1] \in Node
    <3>1. i \in 1..len /\ walkStack[i] = PostProcess /\ Top # PostProcess
      BY <1>2 DEF Markers, PushChildren, IsNew
    <3>2. i > 1 /\ walkStack[i - 1] \in Node
      BY <1>12 DEF MarkerStands
    <3>3. i # len
      BY <1>3, <3>1
    <3>4. i - 1 \in 1..len
      BY <1>1, <3>1, <3>2
    <3> QED
      BY <1>8, <3>1, <3>2, <3>3, <3>4
  <2>2. Above(i) \subseteq Above(i)' /\ \A j \in Above(i) : walkStack'[j] = walkStack[j]
    BY <1>1, <1>4, <1>7, <1>8, <2>1 DEF Above
  <2>3. len \in Above(i) /\ Top > walkStack[i - 1]
    BY <1>1, <1>3, <1>12, <2>1 DEF Above, MarkerStands, PushChildren, IsNew
  <2>4. ASSUME NEW j \in Above(i)', walkStack'[j] # PostProcess PROVE walkStack'[j] > walkStack[i - 1]
    <3>1. j \in DOMAIN walkStack' /\ j > i
      BY <1>1, <1>7, <2>1 DEF Above
    <3>2. CASE j \in 1..len
      <4>1. j \in Above(i) /\ walkStack'[j] = walkStack[j]
        BY <1>1, <1>8, <2>1, <3>1, <3>2 DEF Above
      <4> QED
        BY <1>12, <2>4, <4>1 DEF MarkerStands
    <3>3. ASSUME NEW at \in 1..n, j = len + 1 + at PROVE walkStack'[j] > walkStack[i - 1]
      <4>1. walkStack'[j] = kids[at] /\ kids[at] > Top /\ kids[at] \in Node
        BY <1>4, <1>8, <3>3
      <4> QED
        BY <1>3, <2>1, <2>3, <4>1 DEF Node
    <3> QED
      BY <1>8, <1>11, <2>4, <3>1, <3>2, <3>3
  <2>5. ASSUME NEW c \in Children(walkStack[i - 1])
        PROVE  walkDone'[c] # NoCopy \/ \E j \in Above(i)' : walkStack'[j] = c
    BY <1>9, <1>12, <2>2 DEF MarkerStands
  <2> QED
    BY <1>9, <1>12, <2>1, <2>4, <2>5 DEF MarkerStands, Children
<1>13. MarkerStands(len + 1)'
  <2>1. len + 1 > 1 /\ walkStack'[(len + 1) - 1] = Top
    BY <1>1, <1>3, <1>8
  <2>2. ASSUME NEW at \in 1..n
        PROVE  len + 1 + at \in Above(len + 1)' /\ walkStack'[len + 1 + at] = kids[at]
    BY <1>1, <1>4, <1>7, <1>8 DEF Above
  <2>3. ASSUME NEW c \in Children(Top) PROVE \E j \in Above(len + 1)' : walkStack'[j] = c
    <3>1. PICK at \in 1..n : c = kids[at]
      BY <1>4 DEF Children, kids
    <3> QED
      BY <2>2, <3>1
  <2>4. ASSUME NEW j \in Above(len + 1)' PROVE walkStack'[j] > Top
    <3>1. PICK at \in 1..n : j = len + 1 + at
      <4>1. j \in (len + 1 + 1)..(len + n + 1)
        BY <1>7 DEF Above
      <4>2. j \in DOMAIN walkStack' /\ j \notin 1..len /\ j # len + 1
        BY <1>1, <1>4, <1>7, <4>1
      <4> QED
        BY <1>11, <4>2
    <3> QED
      BY <1>4, <2>2, <3>1
  <2> PICK top \in Node : top = Top
    BY <1>3
  <2>5. Children(top)' = Children(top) /\ walkStack'[(len + 1) - 1] = top
    BY <1>9, <2>1 DEF Children
  <2> QED
    BY <2>1, <2>3, <2>4, <2>5 DEF MarkerStands
<1>14. \A i \in Markers' : i \in Markers \/ i = len + 1
  <2> SUFFICES ASSUME NEW i \in Markers', i # len + 1 PROVE i \in Markers
    OBVIOUS
  <2>1. CASE i \in 1..len
    BY <1>2, <1>8, <2>1 DEF Markers
  <2>2. ASSUME NEW at \in 1..n, i = len + 1 + at PROVE FALSE
    <3>1. walkStack'[i] = PostProcess /\ walkStack'[i] = kids[at]
      BY <1>8, <2>2 DEF Markers
    <3>2. kids[at] \in Node
      BY <1>4
    <3> QED
      BY <3>1, <3>2, SizeAssumption DEF Node, PostProcess
  <2> QED
    BY <1>11, <2>1, <2>2 DEF Markers
<1>15. MarkersStand'
  BY <1>12, <1>13, <1>14 DEF WalkInv, MarkersStand
<1>16. ProcessingHasMarker'
  <2>1. len + 1 \in Markers' /\ len + 1 > 1 /\ walkStack'[(len + 1) - 1] = Top
    BY <1>1, <1>3, <1>4, <1>7, <1>8 DEF Markers
  <2>2. ASSUME NEW m \in walkProcessing PROVE \E i \in Markers' : i > 1 /\ walkStack'[i - 1] = m
    <3>1. PICK i \in Markers : i > 1 /\ walkStack[i - 1] = m
      BY DEF WalkInv, ProcessingHasMarker
    <3>2. i \in Markers' /\ walkStack'[i - 1] = walkStack[i - 1]
      BY <1>1, <1>2, <1>4, <1>7, <1>8, <3>1 DEF Markers
    <3> QED
      BY <3>1, <3>2
  <2> QED
    BY <1>9, <2>1, <2>2 DEF ProcessingHasMarker
<1>17. RootIsToCome'
  BY <1>1, <1>2, <1>4, <1>7, <1>8, <1>9 DEF WalkInv, RootIsToCome
<1> QED
  BY <1>10, <1>15, <1>16, <1>17 DEF WalkInv

\* A marker comes up: everything its node holds has been copied, without a mark.
LEMMA CopyStep == ASSUME WalkInv, CopyContainer PROVE WalkInv'
<1> PICK len \in Nat : len = Len(walkStack)
  BY LenProperties DEF WalkInv, WalkTypeOK
<1>1. len >= 1 /\ DOMAIN walkStack = 1..len /\ walkStack[len] = PostProcess
  BY LenProperties, EmptySeq DEF WalkInv, WalkTypeOK, CopyContainer, Top
<1>2. len \in Markers /\ MarkerStands(len)
  BY <1>1 DEF Markers, WalkInv, MarkersStand
<1> PICK node \in Node : node = walkStack[len - 1]
  BY <1>2 DEF MarkerStands
<1>3. len >= 2 /\ Above(len) = {}
  BY <1>2 DEF MarkerStands, Above
<1>4. /\ \A i \in DOMAIN walkStack : walkStack[i] \in StackEntry
      /\ Below(2) \in Seq(StackEntry) /\ Len(Below(2)) = len - 2
      /\ DOMAIN Below(2) = 1..(len - 2)
      /\ \A i \in 1..(len - 2) : Below(2)[i] = walkStack[i]
  <2>1. WalkTypeOK /\ 2 \in 1..2 /\ 2 <= Len(walkStack)
    BY <1>3 DEF WalkInv
  <2> QED
    BY <2>1, Popped
<1>5. /\ walkDone' = [walkDone EXCEPT ![node] = RebuildUnmarked(node)]
      /\ walkProcessing' = walkProcessing \ {node} /\ walkStack' = Below(2)
      /\ UNCHANGED <<walkChildren, walkMarked>>
  BY DEF CopyContainer
<1>6. RebuildUnmarked(node) = {}
  <2>1. Children(node) \subseteq Node
    BY GraphFacts DEF Children, WalkInv, WalkTypeOK
  <2>2. \A c \in Children(node) : walkDone[c] = {} /\ walkDone[c] # NoCopy
    BY <1>2, <1>3, <2>1 DEF MarkerStands, WalkInv, WalkTypeOK
  <2> QED
    BY <2>2 DEF RebuildUnmarked, Children
<1>7. walkDone' \in [Node -> {NoCopy, {}}] /\ walkDone'[node] # NoCopy
      /\ \A n \in Node : walkDone[n] # NoCopy => walkDone'[n] # NoCopy
  BY <1>5, <1>6 DEF WalkInv, WalkTypeOK, NoCopy
<1>8. WalkTypeOK'
  BY <1>4, <1>5, <1>7 DEF WalkInv, WalkTypeOK, StackEntry, Node, Graphs
<1>9. ASSUME NEW i \in Markers' PROVE i \in Markers /\ i \in 1..(len - 2)
  BY <1>3, <1>4, <1>5, <1>1 DEF Markers
<1>10. ASSUME NEW i \in Markers', MarkerStands(i) PROVE MarkerStands(i)'
  <2> PICK n \in Node : n = walkStack[i - 1]
    BY <1>10 DEF MarkerStands
  <2>1. i \in 1..(len - 2) /\ i > 1 /\ walkStack'[i - 1] = n
    <3>1. i \in 1..(len - 2) /\ i > 1
      BY <1>9, <1>10 DEF MarkerStands
    <3>2. i - 1 \in 1..(len - 2)
      BY <1>3, <3>1
    <3> QED
      BY <1>4, <1>5, <3>1, <3>2
  <2>2. Children(n)' = Children(n) /\ Children(n) \subseteq Node
    BY <1>5, GraphFacts DEF Children, WalkInv, WalkTypeOK
  <2>3. Above(i)' = (i + 1)..(len - 2) /\ Above(i) = (i + 1)..len
    BY <1>4, <1>5 DEF Above
  <2>4. ASSUME NEW c \in Children(n)
        PROVE  walkDone'[c] # NoCopy \/ \E j \in Above(i)' : walkStack'[j] = c
    <3>1. CASE walkDone[c] # NoCopy
      BY <1>7, <2>2, <3>1
    <3>2. ASSUME NEW j \in Above(i), walkStack[j] = c
          PROVE  walkDone'[c] # NoCopy \/ \E k \in Above(i)' : walkStack'[k] = c
      <4>1. CASE j = len
        <5>1. c \in Node /\ c = 0
          BY <1>1, <2>2, <3>2, <4>1 DEF PostProcess
        <5> QED
          BY <5>1, SizeAssumption DEF Node
      <4>2. CASE j = len - 1
        BY <1>7, <3>2, <4>2
      <4>3. CASE j # len /\ j # len - 1
        <5>1. j \in Above(i)' /\ j \in 1..(len - 2)
          BY <2>1, <2>3, <3>2, <4>3
        <5> QED
          BY <1>4, <1>5, <3>2, <5>1
      <4> QED
        BY <4>1, <4>2, <4>3
    <3> QED
      BY <1>10, <3>1, <3>2 DEF MarkerStands
  <2>5. ASSUME NEW j \in Above(i)', walkStack'[j] # PostProcess PROVE walkStack'[j] > n
    <3>1. j \in Above(i) /\ j \in 1..(len - 2)
      BY <2>1, <2>3, <2>5
    <3>2. walkStack'[j] = walkStack[j]
      BY <1>4, <1>5, <3>1
    <3> QED
      BY <1>10, <2>5, <3>1, <3>2 DEF MarkerStands
  <2> QED
    BY <2>1, <2>2, <2>4, <2>5 DEF MarkerStands
<1>11. MarkersStand'
  BY <1>9, <1>10 DEF WalkInv, MarkersStand
<1>12. ProcessingHasMarker'
  <2> SUFFICES ASSUME NEW n \in walkProcessing, n # node
               PROVE  \E i \in Markers' : i > 1 /\ walkStack'[i - 1] = n
    BY <1>5 DEF ProcessingHasMarker
  <2>1. PICK i \in Markers : i > 1 /\ walkStack[i - 1] = n
    BY DEF WalkInv, ProcessingHasMarker
  <2>2. i # len /\ i # len - 1
    BY <1>1, <2>1, SizeAssumption DEF Markers, PostProcess, Node
  <2>3. i \in 1..(len - 2) /\ i - 1 \in 1..(len - 2)
    BY <1>1, <1>3, <2>1, <2>2 DEF Markers
  <2>4. i \in Markers' /\ walkStack'[i - 1] = n
    BY <1>4, <1>5, <2>1, <2>3 DEF Markers
  <2> QED
    BY <2>1, <2>4
<1>13. RootIsToCome'
  <2>1. Root \in Node /\ Root # PostProcess
    BY SizeAssumption DEF Root, Node, PostProcess
  <2>2. CASE walkDone[Root] # NoCopy
    BY <1>7, <2>1, <2>2 DEF RootIsToCome
  <2>3. ASSUME NEW j \in DOMAIN walkStack, walkStack[j] = Root PROVE RootIsToCome'
    <3>1. j # len
      BY <1>1, <2>1, <2>3
    <3>2. CASE j = len - 1
      BY <1>7, <2>3, <3>2 DEF RootIsToCome
    <3>3. CASE j # len - 1
      <4>1. j \in 1..(len - 2)
        BY <1>1, <3>1, <3>3
      <4> QED
        BY <1>4, <1>5, <2>3, <4>1 DEF RootIsToCome
    <3> QED
      BY <3>2, <3>3
  <2> QED
    BY <2>2, <2>3 DEF WalkInv, RootIsToCome
<1> QED
  BY <1>8, <1>11, <1>12, <1>13 DEF WalkInv

LEMMA UnmarkStep == WalkInv /\ [WalkNext]_walkVars => WalkInv'
<1> SUFFICES ASSUME WalkInv, [WalkNext]_walkVars PROVE WalkInv'
  OBVIOUS
<1>1. ASSUME walkStack # <<>>, Top # PostProcess PROVE Top \in Node
  <2>1. Len(walkStack) \in DOMAIN walkStack
    BY <1>1, LenProperties, EmptySeq DEF WalkInv, WalkTypeOK
  <2> QED
    BY <1>1, <2>1, ElementOfSeq, LenProperties DEF WalkInv, WalkTypeOK, StackEntry, Top
\* What is below its marker cannot come up once more above it: a value has no
\* cycle.
<1>2. ASSUME walkStack # <<>>, Top # PostProcess PROVE Top \notin walkProcessing
  <2> SUFFICES ASSUME Top \in walkProcessing PROVE FALSE
    OBVIOUS
  <2> PICK len \in Nat : len = Len(walkStack)
    BY LenProperties DEF WalkInv, WalkTypeOK
  <2>1. PICK i \in Markers : i > 1 /\ walkStack[i - 1] = Top
    BY DEF WalkInv, ProcessingHasMarker
  <2>2. i \in 1..len /\ Top = walkStack[len] /\ i # len
    BY <1>2, <2>1, LenProperties DEF Markers, WalkInv, WalkTypeOK, Top
  <2>3. len \in Above(i)
    BY <2>2 DEF Above
  <2>4. Top > Top
    BY <1>2, <2>1, <2>2, <2>3 DEF WalkInv, MarkersStand, MarkerStands
  <2> QED
    BY <1>1, <1>2, <2>4 DEF Node
<1>3. CASE SkipNode
  BY <1>2, <1>3, PopStep DEF SkipNode, WalkInv, WalkTypeOK
<1>4. CASE CopyLeaf
  <2>1. Top \in Node
    BY <1>1, <1>4 DEF CopyLeaf, IsNew
  <2>2. RebuildUnmarked(Top) = {}
    BY <1>4 DEF CopyLeaf, RebuildUnmarked
  <2>3. /\ walkDone' \in [Node -> {NoCopy, {}}] /\ walkDone'[Top] # NoCopy
        /\ \A n \in Node : walkDone[n] # NoCopy => walkDone'[n] # NoCopy
    BY <1>4, <2>1, <2>2 DEF CopyLeaf, WalkInv, WalkTypeOK, NoCopy
  <2> QED
    BY <1>4, <2>3, PopStep DEF CopyLeaf, IsNew
<1>5. CASE PushChildren
  BY <1>5, PushStep
<1>6. CASE CopyContainer
  BY <1>6, CopyStep
<1>7. CASE UNCHANGED walkVars
  BY <1>7 DEF walkVars, WalkInv, WalkTypeOK, MarkersStand, MarkerStands, Markers,
     ProcessingHasMarker, RootIsToCome, Above, Children, StackEntry, Graphs, Node
<1> QED
  BY <1>3, <1>4, <1>5, <1>6, <1>7 DEF WalkNext

\* Every copy that the walk makes is free of marks, at any depth and sharing of
\* the value, and the stack holds nodes and markers only.
THEOREM WalkTypeCorrect == WalkSpec => []WalkTypeOK
<1>1. WalkInv => WalkTypeOK
  BY DEF WalkInv
<1> QED
  BY WalkInvInit, UnmarkStep, <1>1, PTL DEF WalkSpec

\* When the walk ends there is a copy of the whole value, and no mark is in it:
\* whatever the value, of any size and with any sharing (unmark_iteratively).
THEOREM NoMarkOnTheWire == WalkSpec => []WireIsUnmarked
<1>1. WalkInv => WireIsUnmarked
  <2> SUFFICES ASSUME WalkInv, walkStack = <<>> PROVE walkDone[Root] = {}
    BY DEF WireIsUnmarked
  <2>1. Root \in Node
    BY SizeAssumption DEF Root, Node
  <2>2. walkDone[Root] # NoCopy
    BY DEF WalkInv, RootIsToCome
  <2> QED
    BY <2>1, <2>2 DEF WalkInv, WalkTypeOK
<1> QED
  BY WalkInvInit, UnmarkStep, <1>1, PTL DEF WalkSpec

-----------------------------------------------------------------------------
(* The binding of a function call's arguments.                              *)

\* A set of numbers from 1 on without a gap.
LEMMA NoGaps ==
  ASSUME NEW N \in Nat, NEW S \in SUBSET (1..N), \A j \in S : \A i \in 1..j : i \in S
  PROVE  \E m \in 0..N : S = 1..m
<1> DEFINE Out == {i \in Nat : i > 0 /\ i \notin S}
<1>1. Out \in SUBSET Nat /\ N + 1 \in Out
  OBVIOUS
<1>2. PICK k \in Out : \A i \in Out : k <= i
  <2> HIDE DEF Out
  <2> QED
    BY <1>1, LeastNumber
<1>3. k - 1 \in 0..N
  BY <1>1, <1>2
<1>4. S = 1..(k - 1)
  <2>1. ASSUME NEW i \in S PROVE i \in 1..(k - 1)
    <3>1. ~(k <= i)
      BY <1>2
    <3> QED
      BY <3>1
  <2>2. ASSUME NEW i \in 1..(k - 1) PROVE i \in S
    BY <1>2
  <2> QED
    BY <2>1, <2>2
<1> QED
  BY <1>3, <1>4

\* The numbers after one up to another, in ascending order.
LEMMA AscendingInterval ==
  ASSUME NEW a \in Nat, NEW b \in Nat, a <= b
  PROVE  /\ Ascending((a + 1)..b) = [k \in 1..(b - a) |-> a + k]
         /\ Cardinality((a + 1)..b) = b - a
<1> DEFINE S == (a + 1)..b
           smaller(i) == {j \in S : j <= i}
           nth(k) == CHOOSE i \in S : Cardinality(smaller(i)) = k
<1>1. Cardinality(S) = b - a
  <2>1. Cardinality(S) = IF a + 1 > b THEN 0 ELSE b - (a + 1) + 1
    BY FS_Interval
  <2> QED
    BY <2>1
<1>2. ASSUME NEW i \in S PROVE Cardinality(smaller(i)) = i - a
  <2>1. smaller(i) = (a + 1)..i
    OBVIOUS
  <2>2. Cardinality((a + 1)..i) = i - a
    <3>1. Cardinality((a + 1)..i) = IF a + 1 > i THEN 0 ELSE i - (a + 1) + 1
      BY FS_Interval
    <3> QED
      BY <3>1
  <2> HIDE DEF smaller
  <2> QED
    BY <2>1, <2>2
<1>3. ASSUME NEW k \in 1..(b - a) PROVE nth(k) = a + k
  <2>1. a + k \in S /\ Cardinality(smaller(a + k)) = k
    BY <1>2
  <2>2. \A i \in S : Cardinality(smaller(i)) = k => i = a + k
    BY <1>2
  <2> HIDE DEF S, smaller
  <2> QED
    BY <2>1, <2>2
<1>4. Ascending(S) = [k \in 1..(b - a) |-> nth(k)]
  BY <1>1 DEF Ascending
<1> HIDE DEF nth
<1> QED
  BY <1>1, <1>3, <1>4

\* Positional parameters come first, *args right after them.
LEMMA SignatureOrder ==
  ASSUME NEW sig \in Seq(Parameters), IsSignature(sig)
  PROVE  \E n \in Nat :
           /\ Places(sig, "positional") = 1..n /\ n <= Len(sig)
           /\ Cardinality(Places(sig, "positional")) = n
           /\ Places(sig, "rest") \in {{}, {n + 1}}
<1>1. Len(sig) \in Nat /\ DOMAIN sig = 1..Len(sig) /\ \A i \in DOMAIN sig : sig[i] \in Parameters
  BY LenProperties, ElementOfSeq
<1>2. \A i \in DOMAIN sig : sig[i].kind \in {"positional", "rest", "keyword"}
  BY <1>1 DEF Parameters
<1>3. /\ Position("positional") = 1 /\ Position("rest") = 2 /\ Position("keyword") = 3
  BY DEF Position
<1>4. ASSUME NEW j \in Places(sig, "positional"), NEW i \in 1..j PROVE i \in Places(sig, "positional")
  <2>1. i \in DOMAIN sig /\ j \in DOMAIN sig /\ sig[j].kind = "positional"
    BY <1>1 DEF Places
  <2>2. i < j => Position(sig[i].kind) <= 1
    BY <1>3, <2>1 DEF IsSignature
  <2> QED
    BY <1>2, <1>3, <2>1, <2>2 DEF Places
<1>5. PICK n \in 0..Len(sig) : Places(sig, "positional") = 1..n
  <2>1. Places(sig, "positional") \in SUBSET (1..Len(sig))
    BY <1>1 DEF Places
  <2> QED
    BY <1>1, <1>4, <2>1, NoGaps
<1>6. Cardinality(1..n) = n
  BY <1>5, FS_Interval
<1>7. ASSUME NEW i \in Places(sig, "rest") PROVE i = n + 1
  <2>1. i \in DOMAIN sig /\ sig[i].kind = "rest"
    BY DEF Places
  <2>2. i \notin 1..n
    BY <1>5, <2>1 DEF Places
  <2>3. ASSUME n + 1 < i PROVE FALSE
    <3>1. n + 1 \in DOMAIN sig /\ n + 1 \notin Places(sig, "positional")
      BY <1>1, <1>5, <2>1, <2>3
    <3>2. Position(sig[n + 1].kind) <= 2 /\ sig[n + 1].kind # "rest"
      BY <1>3, <2>1, <2>3, <3>1 DEF IsSignature
    <3> QED
      BY <1>2, <1>3, <3>1, <3>2 DEF Places
  <2> QED
    BY <1>1, <1>5, <2>1, <2>2, <2>3
<1> QED
  BY <1>5, <1>6, <1>7

\* From one on, each is at its own place.
LEMMA AscendingFromOne ==
  ASSUME NEW b \in Nat
  PROVE  Ascending(1..b) = [k \in 1..b |-> k]
<1>1. Ascending((0 + 1)..b) = [k \in 1..(b - 0) |-> 0 + k]
  BY AscendingInterval
<1>2. (0 + 1)..b = 1..b /\ 1..(b - 0) = 1..b
  OBVIOUS
<1>3. Ascending(1..b) = [k \in 1..b |-> 0 + k]
  BY <1>1, <1>2
<1> QED
  BY <1>3

\* The required slots are the positional parameters from the left, all but the
\* one a variadic default takes, which is the last.
LEMMA DeclaredSlots ==
  ASSUME NEW sig \in Seq(Parameters), IsSignature(sig), NEW n \in Nat, n <= Len(sig),
         Places(sig, "positional") = 1..n, Places(sig, "rest") \in {{}, {n + 1}}
  PROVE  \E r \in Nat :
           /\ RequiredSlots(sig) = [k \in 1..r |-> k]
           /\ \/ VariadicSlot(sig) = n + 1 /\ r = n /\ Places(sig, "rest") = {n + 1}
              \/ /\ VariadicSlot(sig) = n /\ n = r + 1
                 /\ Places(sig, "rest") = {} /\ sig[n].default
              \/ VariadicSlot(sig) = 0 /\ r = n /\ Places(sig, "rest") = {}
<1> DEFINE defaulted == {i \in Places(sig, "positional") : sig[i].default}
<1>1. CASE Places(sig, "rest") = {n + 1}
  <2>1. VariadicSlot(sig) = n + 1
    BY <1>1 DEF VariadicSlot
  <2>2. Places(sig, "positional") \ {n + 1} = 1..n
    OBVIOUS
  <2> QED
    BY <1>1, <2>1, <2>2, AscendingFromOne DEF RequiredSlots
<1>2. CASE Places(sig, "rest") = {} /\ DefaultFillsVariadicSlot(sig) /\ defaulted # {}
  <2>1. PICK i \in defaulted : TRUE
    BY <1>2
  <2>2. i \in 1..n /\ n \in 1..n
    BY <2>1
  <2>3. sig[n].default
    <3>1. 1..n \subseteq DOMAIN sig /\ \A j \in 1..n : sig[j].kind = "positional"
      BY DEF Places
    <3> QED
      BY <2>1, <2>2, <3>1 DEF IsSignature
  <2>4. \A j \in defaulted : j = n
    BY <1>2, <2>2, <2>3 DEF DefaultFillsVariadicSlot
  <2>5. VariadicSlot(sig) = n
    <3>1. defaulted = {n}
      BY <2>2, <2>3, <2>4
    <3>2. VariadicSlot(sig) = CHOOSE k \in defaulted : \A j \in defaulted : k <= j
      BY <1>2 DEF VariadicSlot
    <3> HIDE DEF defaulted
    <3> QED
      BY <2>2, <3>1, <3>2
  <2>6. Places(sig, "positional") \ {n} = 1..(n - 1) /\ n - 1 \in Nat
    BY <2>2
  <2>7. RequiredSlots(sig) = [k \in 1..(n - 1) |-> k]
    BY <2>5, <2>6, AscendingFromOne DEF RequiredSlots
  <2>8. n = (n - 1) + 1
    OBVIOUS
  <2> HIDE DEF defaulted
  <2> QED
    BY <1>2, <2>3, <2>5, <2>6, <2>7, <2>8
<1>3. CASE Places(sig, "rest") = {} /\ ~(DefaultFillsVariadicSlot(sig) /\ defaulted # {})
  <2>1. VariadicSlot(sig) = 0
    BY <1>3 DEF VariadicSlot
  <2>2. Places(sig, "positional") \ {0} = 1..n
    OBVIOUS
  <2> QED
    BY <1>3, <2>1, <2>2, AscendingFromOne DEF RequiredSlots
<1> QED
  BY <1>1, <1>2, <1>3

\* An admitted call that is bound: its arguments for positional parameters are
\* in their parameters' places, and the others are for *args.
LEMMA SlotsOfCall ==
  ASSUME NEW sig \in Seq(Parameters), IsSignature(sig), NEW n \in Nat, n <= Len(sig),
         Places(sig, "positional") = 1..n, Places(sig, "rest") \in {{}, {n + 1}},
         NEW args \in Seq(Arguments), CountIsRight(sig, args), ~TooManyTrailing(sig, args)
  PROVE  /\ \A i \in 1..Len(args) : i <= n => SlotOf(sig, i) = i
         /\ \A i \in 1..Len(args) : i > n => SlotOf(sig, i) = n + 1
         /\ Places(sig, "rest") = {} => Len(args) <= n
         /\ Places(sig, "rest") # {} => n <= Len(args) /\ Trailing(sig, args) = (n + 1)..Len(args)
         /\ Len(args) < n => sig[n].default /\ n = Len(args) + 1
<1> DEFINE L == Len(args)
<1>1. L \in Nat /\ DOMAIN args = 1..L
  BY LenProperties
<1>2. PICK r \in Nat :
        /\ RequiredSlots(sig) = [k \in 1..r |-> k]
        /\ \/ VariadicSlot(sig) = n + 1 /\ r = n /\ Places(sig, "rest") = {n + 1}
           \/ VariadicSlot(sig) = n /\ n = r + 1 /\ Places(sig, "rest") = {} /\ sig[n].default
           \/ VariadicSlot(sig) = 0 /\ r = n /\ Places(sig, "rest") = {}
  BY DeclaredSlots
<1>3. Len(RequiredSlots(sig)) = r
  BY <1>2
<1>4. \A i \in 1..L : SlotOf(sig, i) = IF i <= r THEN i ELSE VariadicSlot(sig)
  <2> TAKE i \in 1..L
  <2>1. i <= r => RequiredSlots(sig)[i] = i
    BY <1>1, <1>2
  <2> QED
    BY <1>3, <2>1 DEF SlotOf
<1>5. IF VariadicSlot(sig) # 0 THEN L >= r ELSE L = r
  BY <1>3 DEF CountIsRight
<1>6. Trailing(sig, args) = (r + 1)..L
  BY <1>1, <1>3 DEF Trailing
<1>7. CASE VariadicSlot(sig) = n + 1 /\ r = n /\ Places(sig, "rest") = {n + 1}
  <2>1. \A i \in 1..L : SlotOf(sig, i) = IF i <= n THEN i ELSE n + 1
    BY <1>4, <1>7
  <2>2. n <= L
    <3>1. n + 1 # 0
      OBVIOUS
    <3> QED
      BY <1>5, <1>7, <3>1
  <2>3. Trailing(sig, args) = (n + 1)..L
    BY <1>6, <1>7
  <2>4. Places(sig, "rest") # {}
    BY <1>7
  <2> QED
    BY <1>1, <2>1, <2>2, <2>3, <2>4
<1>8. CASE VariadicSlot(sig) = n /\ n = r + 1 /\ Places(sig, "rest") = {} /\ sig[n].default
  <2>1. L <= n
    <3>1. sig[n].kind # "rest"
      <4>1. n \in DOMAIN sig /\ n \notin Places(sig, "rest")
        BY <1>8, LenProperties
      <4> QED
        BY <4>1 DEF Places
    <3>2. ~(Cardinality((r + 1)..L) > 1)
      BY <1>6, <1>8, <3>1 DEF TooManyTrailing
    <3>3. L > r => Cardinality((r + 1)..L) = L - r
      <4>1. Cardinality((r + 1)..L) = IF r + 1 > L THEN 0 ELSE L - (r + 1) + 1
        <5>1. r + 1 \in Int /\ L \in Int
          BY <1>1
        <5> HIDE DEF L
        <5> QED
          BY <5>1, FS_Interval
      <4> QED
        BY <1>1, <4>1
    <3> QED
      BY <1>1, <1>8, <3>2, <3>3
  <2>2. L >= r
    BY <1>5, <1>8
  <2>3. \A i \in 1..L : i <= n => SlotOf(sig, i) = i
    <3> TAKE i \in 1..L
    <3>1. SlotOf(sig, i) = IF i <= r THEN i ELSE n
      BY <1>4, <1>8
    <3> QED
      BY <1>8, <3>1
  <2>4. Places(sig, "rest") = {}
    BY <1>8
  <2> QED
    BY <1>1, <1>8, <2>1, <2>2, <2>3, <2>4
<1>9. CASE VariadicSlot(sig) = 0 /\ r = n /\ Places(sig, "rest") = {}
  BY <1>1, <1>4, <1>5, <1>9
<1> QED
  BY <1>2, <1>7, <1>8, <1>9

\* The arguments that positional parameters get are the first few, in order.
LEMMA GivenArguments ==
  ASSUME NEW sig \in Seq(Parameters), IsSignature(sig), NEW n \in Nat, n <= Len(sig),
         Places(sig, "positional") = 1..n, Places(sig, "rest") \in {{}, {n + 1}},
         NEW args \in Seq(Arguments), CountIsRight(sig, args), ~TooManyTrailing(sig, args),
         ~NullBeforeArgument(sig, args)
  PROVE  \E m \in 0..n :
           /\ NativeKwargs(sig, args) = [k \in 1..m |-> k]
           /\ \A k \in 1..n : k <= m <=> k <= Len(args) /\ ~(args[k] = "null" /\ sig[k].default)
           /\ Len(args) > n => m = n
<1> DEFINE L == Len(args)
           given == {i \in DOMAIN args :
                       sig[SlotOf(sig, i)].kind = "positional" /\ ~IsOmitted(sig, args, i)}
<1>1. L \in Nat /\ DOMAIN args = 1..L
  BY LenProperties
<1>2. /\ \A i \in 1..L : i <= n => SlotOf(sig, i) = i
      /\ \A i \in 1..L : i > n => SlotOf(sig, i) = n + 1 /\ Places(sig, "rest") = {n + 1}
  BY <1>1, SlotsOfCall
<1>3. /\ \A k \in 1..n : sig[k].kind = "positional"
      /\ Places(sig, "rest") = {n + 1} => sig[n + 1].kind = "rest" /\ ~sig[n + 1].default
  <2>1. Places(sig, "rest") = {n + 1} => sig[n + 1].kind = "rest" /\ sig[n + 1] \in Parameters
    BY LenProperties, ElementOfSeq DEF Places
  <2> QED
    BY <2>1 DEF Places, Parameters
<1>4. \A i \in given : i <= n /\ SlotOf(sig, i) = i
  BY <1>1, <1>2, <1>3
<1>5. \A i \in 1..L : i <= n /\ ~IsOmitted(sig, args, i) => i \in given
  BY <1>1, <1>2, <1>3
<1>6. PICK m \in 0..n : given = 1..m
  <2>1. given \in SUBSET (1..n)
    BY <1>1, <1>4
  <2>2. ASSUME NEW j \in given, NEW i \in 1..j PROVE i \in given
    <3>1. i \in 1..L /\ i <= n /\ j \in 1..L /\ ~IsOmitted(sig, args, j)
      BY <1>1, <1>4
    <3>2. ~IsOmitted(sig, args, i)
      BY <1>1, <3>1 DEF NullBeforeArgument
    <3> QED
      BY <1>5, <3>1, <3>2
  <2> HIDE DEF given
  <2> QED
    BY <2>1, <2>2, NoGaps
<1>7. NativeKwargs(sig, args) = [k \in 1..m |-> k]
  <2>1. NativeKwargs(sig, args) = [slot \in {SlotOf(sig, i) : i \in given} |->
                                     CHOOSE i \in given : SlotOf(sig, i) = slot]
    BY DEF NativeKwargs
  <2> HIDE DEF given
  <2>2. {SlotOf(sig, i) : i \in given} = 1..m
    BY <1>4, <1>6
  <2>3. \A slot \in 1..m : (CHOOSE i \in given : SlotOf(sig, i) = slot) = slot
    BY <1>4, <1>6
  <2> QED
    BY <2>1, <2>2, <2>3
<1>8. \A k \in 1..n : k <= m <=> k <= L /\ ~(args[k] = "null" /\ sig[k].default)
  <2> TAKE k \in 1..n
  <2>1. k <= m <=> k \in given
    BY <1>6
  <2>2. k \in 1..L => (IsOmitted(sig, args, k) <=> args[k] = "null" /\ sig[k].default)
    BY <1>2 DEF IsOmitted
  <2> QED
    BY <1>1, <1>5, <2>1, <2>2
<1>9. ASSUME L > n PROVE m = n
  <2>1. n + 1 \in 1..L /\ SlotOf(sig, n + 1) = n + 1 /\ ~sig[n + 1].default
    BY <1>1, <1>2, <1>3, <1>9
  <2>2. ~IsOmitted(sig, args, n + 1)
    BY <2>1 DEF IsOmitted
  <2>3. \A i \in 1..n : ~IsOmitted(sig, args, i)
    BY <1>1, <1>9, <2>1, <2>2 DEF NullBeforeArgument
  <2>4. 1..n \subseteq given
    BY <1>1, <1>5, <1>9, <2>3
  <2> HIDE DEF given
  <2> QED
    BY <1>6, <2>4
<1> QED
  BY <1>7, <1>8, <1>9

\* For every signature that Python accepts and every call that Terraform admits,
\* of any length and without a null before an argument: each argument reaches the
\* parameter it was written for, and the call is refused only for a keyword
\* parameter that nothing binds or more arguments than there are parameters
\* (_bind_variadic_arguments, _build_function_arguments).
THEOREM CallBinding ==
  ASSUME NEW sig \in Seq(Parameters), IsSignature(sig),
         NEW args \in Seq(Arguments), IsWireCall(sig, args), ~NullBeforeArgument(sig, args),
         NEW injected
  PROVE  LET answer == CallFunction(sig, args, injected)
         IN BoundAsMeant(sig, args, answer) /\ NotRefused(sig, args, injected, answer)
<1> DEFINE answer == CallFunction(sig, args, injected)
           L == Len(args)
           rest == Places(sig, "rest")
           positional == PositionalArguments(sig, args)
           binding == PythonBinding(sig, positional)
           meant == Meant(sig, args)
<1>1. L \in Nat /\ CountIsRight(sig, args)
  BY LenProperties DEF IsWireCall
<1>2. PICK n \in Nat :
        /\ Places(sig, "positional") = 1..n /\ n <= Len(sig)
        /\ Cardinality(Places(sig, "positional")) = n
        /\ rest \in {{}, {n + 1}}
  BY SignatureOrder
<1>3. ASSUME ~TooManyTrailing(sig, args)
      PROVE  /\ binding = meant
             /\ \A k \in 1..n : binding.bound[k] # Missing
             /\ rest = {} => L <= n /\ binding.rest = <<>>
  <2>1. PICK m \in 0..n :
          /\ NativeKwargs(sig, args) = [k \in 1..m |-> k]
          /\ \A k \in 1..n : k <= m <=> k <= L /\ ~(args[k] = "null" /\ sig[k].default)
          /\ L > n => m = n
    BY <1>1, <1>2, <1>3, GivenArguments
  <2>2. /\ rest = {} => L <= n
        /\ rest # {} => n <= L /\ Trailing(sig, args) = (n + 1)..L
        /\ L < n => sig[n].default /\ n = L + 1
    BY <1>1, <1>2, <1>3, SlotsOfCall
  <2>3. RestArguments(sig, args) = [k \in 1..(L - n) |-> n + k]
    <3>1. CASE rest = {}
      BY <1>1, <2>2, <3>1 DEF RestArguments
    <3>2. CASE rest # {}
      BY <1>1, <2>2, <3>2, AscendingInterval DEF RestArguments
    <3> QED
      BY <3>1, <3>2
  <2> DEFINE q == IF L > n THEN L ELSE m
  <2>4. q \in Nat /\ \A k \in 1..n : k <= q <=> k <= m
    BY <1>1, <2>1
  <2>5. positional = [k \in 1..q |-> k]
    <3>1. Ascending(DOMAIN NativeKwargs(sig, args)) = [k \in 1..m |-> k]
      BY <2>1, AscendingFromOne
    <3>2. positional = [k \in 1..m |-> k] \o [k \in 1..(L - n) |-> n + k]
      BY <2>1, <2>3, <3>1 DEF PositionalArguments
    <3> HIDE DEF L, positional
    <3>3. CASE L > n
      BY <1>1, <2>1, <3>2, <3>3
    <3>4. CASE ~(L > n)
      <4>1. [k \in 1..(L - n) |-> n + k] = <<>>
        BY <1>1, <3>4
      <4>2. [k \in 1..m |-> k] \in Seq(Nat)
        BY <2>1
      <4>3. positional = [k \in 1..m |-> k]
        BY <3>2, <4>1, <4>2, ConcatEmptySeq
      <4> QED
        BY <3>4, <4>3
    <3> QED
      BY <3>3, <3>4
  <2> HIDE DEF positional, rest
  <2>6. Len(positional) = q
    BY <2>4, <2>5
  <2>7. SubSeq(positional, n + 1, Len(positional)) = [k \in 1..(L - n) |-> n + k]
    BY <1>1, <2>1, <2>4, <2>5, <2>6
  <2>8. binding.rest = meant.rest
    BY <1>2, <2>7 DEF PythonBinding, Meant
  <2>9. \A k \in 1..n :
          /\ binding.bound[k] = IF k <= m THEN k ELSE DefaultValue
          /\ meant.bound[k] = IF k <= m THEN k ELSE DefaultValue
    <3> TAKE k \in 1..n
    <3>1. k > m => sig[k].default
      BY <1>1, <2>1, <2>2
    <3>2. k <= q => positional[k] = k
      BY <2>4, <2>5
    <3>3. binding.bound[k] = IF k <= Len(positional) THEN positional[k]
                             ELSE IF sig[k].default THEN DefaultValue ELSE Missing
      BY <1>2 DEF PythonBinding
    <3>4. meant.bound[k] = IF k <= L /\ ~(args[k] = "null" /\ sig[k].default) THEN k
                           ELSE DefaultValue
      BY <1>2 DEF Meant
    <3>5. binding.bound[k] = IF k <= m THEN k ELSE DefaultValue
      BY <2>1, <2>4, <2>6, <3>1, <3>2, <3>3
    <3>6. meant.bound[k] = IF k <= m THEN k ELSE DefaultValue
      BY <2>1, <3>4
    <3> QED
      BY <3>5, <3>6
  <2>10. binding.bound = meant.bound
    <3>1. /\ binding.bound = [k \in 1..n |-> binding.bound[k]]
          /\ meant.bound = [k \in 1..n |-> meant.bound[k]]
      BY <1>2 DEF PythonBinding, Meant
    <3> HIDE DEF binding, meant
    <3> QED
      BY <2>9, <3>1
  <2>11. binding = meant
    <3>1. /\ binding = [bound |-> binding.bound, rest |-> binding.rest]
          /\ meant = [bound |-> meant.bound, rest |-> meant.rest]
      BY DEF PythonBinding, Meant
    <3> HIDE DEF binding, meant
    <3> QED
      BY <2>8, <2>10, <3>1
  <2>12. \A k \in 1..n : binding.bound[k] # Missing
    <3> HIDE DEF binding, meant
    <3> QED
      BY <2>9 DEF DefaultValue, Missing
  <2>13. rest = {} => L <= n /\ binding.rest = <<>>
    BY <1>1, <1>2, <2>2, <2>7 DEF PythonBinding
  <2> QED
    BY <2>11, <2>12, <2>13
<1>4. DOMAIN binding.bound = 1..n
  BY <1>2 DEF PythonBinding
<1>5. ~TooManyTrailing(sig, args) \/ (rest = {} /\ L > n)
  <2>1. PICK r \in Nat :
          /\ RequiredSlots(sig) = [k \in 1..r |-> k]
          /\ \/ VariadicSlot(sig) = n + 1 /\ r = n /\ Places(sig, "rest") = {n + 1}
             \/ VariadicSlot(sig) = n /\ n = r + 1 /\ Places(sig, "rest") = {} /\ sig[n].default
             \/ VariadicSlot(sig) = 0 /\ r = n /\ Places(sig, "rest") = {}
    BY <1>2, DeclaredSlots
  <2>2. CASE rest = {n + 1}
    <3>1. VariadicSlot(sig) = n + 1
      BY <2>1, <2>2
    <3>2. sig[n + 1].kind = "rest"
      BY <2>2 DEF Places
    <3> QED
      BY <3>1, <3>2 DEF TooManyTrailing
  <2>3. CASE rest = {} /\ L <= n
    <3> SUFFICES ASSUME VariadicSlot(sig) = n, n = r + 1, TooManyTrailing(sig, args) PROVE FALSE
      BY <2>1, <2>3 DEF TooManyTrailing
    <3>1. Trailing(sig, args) \subseteq {n}
      BY <1>1, <2>1, <2>3, LenProperties DEF Trailing
    <3>2. Trailing(sig, args) = {} \/ Trailing(sig, args) = {n}
      BY <3>1
    <3>3. Cardinality(Trailing(sig, args)) \in {0, 1}
      <4>1. Cardinality({}) = 0 /\ Cardinality({n}) = 1
        BY FS_EmptySet, FS_Singleton
      <4> QED
        BY <3>2, <4>1
    <3> QED
      BY <3>3 DEF TooManyTrailing
  <2> QED
    BY <1>1, <1>2, <2>2, <2>3
<1> HIDE DEF binding, meant, rest, positional
<1>6. BoundAsMeant(sig, args, answer)
  BY <1>3 DEF BoundAsMeant, CallFunction, Error, UnknownResult, binding, meant, positional
<1>7. NotRefused(sig, args, injected, answer)
  BY <1>1, <1>2, <1>3, <1>4, <1>5
     DEF NotRefused, CallFunction, Error, UnknownResult, binding, positional, rest
<1> QED
  BY <1>6, <1>7

\* What a call is, of which function, and what was made of it.
FnInv ==
  /\ fnSignature \in Seq(Parameters) /\ IsSignature(fnSignature)
  /\ fnCall # NotCalled =>
       /\ fnCall.args \in Seq(Arguments) /\ IsWireCall(fnSignature, fnCall.args)
       /\ fnAnswer = CallFunction(fnSignature, fnCall.args, fnCall.injected)

\* Every call of every registered function binds as its author meant, whatever
\* the bounds on signatures and calls.
THEOREM EveryCallBinds == FnSpec => []CallsBindAsMeant
<1>1. \A n \in 0..MaxParameters : [1..n -> Parameters] \subseteq Seq(Parameters)
  BY CallBoundsAssumption, SeqDef
<1>2. \A n \in 0..MaxArguments : [1..n -> Arguments] \subseteq Seq(Arguments)
  BY CallBoundsAssumption, SeqDef
<1>3. FnInit => FnInv
  BY <1>1 DEF FnInit, FnInv
<1>4. FnInv /\ [FnNext]_fnVars => FnInv'
  <2> SUFFICES ASSUME FnInv, [FnNext]_fnVars PROVE FnInv'
    OBVIOUS
  <2>1. CASE FnNext
    <3>1. /\ fnCall' \in AdmittedCalls(fnSignature) /\ fnSignature' = fnSignature
          /\ fnAnswer' = CallFunction(fnSignature, fnCall'.args, fnCall'.injected)
      BY <2>1 DEF FnNext
    <3>2. fnCall'.args \in Seq(Arguments) /\ IsWireCall(fnSignature, fnCall'.args)
      BY <1>2, <3>1 DEF AdmittedCalls
    <3> QED
      BY <3>1, <3>2 DEF FnInv
  <2>2. CASE UNCHANGED fnVars
    BY <2>2 DEF fnVars, FnInv
  <2> QED
    BY <2>1, <2>2
<1>5. FnInv => CallsBindAsMeant
  BY CallBinding DEF FnInv, CallsBindAsMeant
<1> QED
  BY <1>3, <1>4, <1>5, PTL DEF FnSpec

-----------------------------------------------------------------------------
(* The declaration of schemas.                                             *)

\* Everything that has been built is of its type, of things built before.
SdTypeOK ==
  /\ sdAttributes \subseteq Flags(sdAttributes)
  /\ sdBlocks \subseteq BlockType(sdAttributes, sdBlocks)
  /\ sdSchemas \subseteq BlockType(sdAttributes, sdBlocks)

\* What holds of attributes and blocks; of schemas, the types say enough.
SdInv ==
  /\ SdTypeOK
  /\ \A attribute \in sdAttributes : AttributeWorks(attribute)
  /\ \A block \in sdBlocks : BlockWorks(block)

\* What it means to be a dict of things.
LEMMA NamedThingsFacts ==
  ASSUME NEW S
  PROVE  /\ \A f \in NamedThings(S) :
              /\ DOMAIN f \subseteq Name
              /\ f \in [DOMAIN f -> S]
              /\ \A n \in DOMAIN f : f[n] \in S
         /\ \A names \in SUBSET Name : [names -> S] \subseteq NamedThings(S)
BY DEF NamedThings

\* The more there is, the more can be declared.
LEMMA MoreThings ==
  ASSUME NEW S, NEW T, S \subseteq T
  PROVE  NamedThings(S) \subseteq NamedThings(T)
<1>1. SUFFICES ASSUME NEW f \in NamedThings(S) PROVE f \in NamedThings(T)
  OBVIOUS
<1>2. f \in [DOMAIN f -> T]
  <2>1. f \in [DOMAIN f -> S] BY NamedThingsFacts
  <2>2. QED BY <2>1
<1>3. QED BY <1>2, NamedThingsFacts

LEMMA MoreAttributes ==
  ASSUME NEW S, NEW T, S \subseteq T
  PROVE  Flags(S) \subseteq Flags(T)
<1>1. NamedThings(S) \subseteq NamedThings(T) BY MoreThings
<1>2. QED BY <1>1 DEF Flags

LEMMA MoreBlocks ==
  ASSUME NEW S, NEW T, S \subseteq T, NEW B, NEW C, B \subseteq C
  PROVE  BlockType(S, B) \subseteq BlockType(T, C)
<1>1. NamedThings(S) \subseteq NamedThings(T) /\ NamedThings(B) \subseteq NamedThings(C)
  BY MoreThings
<1>2. QED BY <1>1 DEF BlockType

LEMMA JoinedThings ==
  ASSUME NEW S, NEW f \in NamedThings(S), NEW g \in NamedThings(S)
  PROVE  /\ Joined(f, g) \in NamedThings(S)
         /\ DOMAIN Joined(f, g) = DOMAIN f \cup DOMAIN g
         /\ \A n \in DOMAIN f : Joined(f, g)[n] = f[n]
         /\ \A n \in DOMAIN g \ DOMAIN f : Joined(f, g)[n] = g[n]
<1> DEFINE names == DOMAIN f \cup DOMAIN g
<1>1. names \in SUBSET Name /\ \A n \in names : (IF n \in DOMAIN f THEN f[n] ELSE g[n]) \in S
  BY NamedThingsFacts
<1>2. Joined(f, g) \in [names -> S] BY <1>1 DEF Joined
<1>3. QED BY <1>1, <1>2, NamedThingsFacts DEF Joined

-----------------------------------------------------------------------------
\* What an attribute that is not refused becomes: still of its type, with its
\* flags consistent, and a fixed point of the normalisation.
LEMMA AttributeFlags ==
  ASSUME NEW S, NEW d \in Flags(S)
  PROVE  /\ Attribute(d) \in Flags(S)
         /\ Attribute(d).required = d.required
         /\ Attribute(d).optional = (~d.required /\ (d.optional \/ ~d.computed))
         /\ Attribute(d).computed = (d.computed \/ d.default # "none")
         /\ Attribute(d).writeOnly = d.writeOnly
         /\ Attribute(d).requiresReplace = d.requiresReplace
         /\ Attribute(d).default = d.default
         /\ Attribute(d).members = d.members
BY DEF Attribute, Flags

LEMMA AttributeIsSound ==
  ASSUME NEW S, NEW d \in Flags(S), ~IsRefused(d)
  PROVE  /\ CoreAccepts(Attribute(d))
         /\ DefaultWorks(Attribute(d))
         /\ ReplaceWorks(Attribute(d))
         /\ ~IsRefused(Attribute(d))
<1> DEFINE e == Attribute(d)
<1>1. /\ d.required \in BOOLEAN /\ d.optional \in BOOLEAN /\ d.computed \in BOOLEAN
      /\ d.writeOnly \in BOOLEAN /\ d.requiresReplace \in BOOLEAN /\ d.default \in Defaults
  BY DEF Flags
<1>2. /\ e.required = d.required
      /\ e.optional = (~d.required /\ (d.optional \/ ~d.computed))
      /\ e.computed = (d.computed \/ d.default # "none")
      /\ e.writeOnly = d.writeOnly
      /\ e.requiresReplace = d.requiresReplace
      /\ e.default = d.default
      /\ e.members = d.members
  BY AttributeFlags
<1> HIDE DEF e
<1>3. CoreAccepts(e)
  BY <1>1, <1>2 DEF CoreAccepts, IsRefused, DefaultIsRefused
<1>4. DefaultWorks(e)
  BY <1>1, <1>2 DEF DefaultWorks, IsRefused, DefaultIsRefused, ComputedOnly, Defaults
<1>5. ReplaceWorks(e)
  BY <1>1, <1>2 DEF ReplaceWorks, IsRefused, ReplaceIsRefused, ComputedOnly
<1>6. ~IsRefused(e)
  BY <1>1, <1>2 DEF IsRefused, ReplaceIsRefused, DefaultIsRefused, ComputedOnly
<1>7. QED BY <1>3, <1>4, <1>5, <1>6 DEF e

\* A second normalisation finds nothing to do.
LEMMA NamingIsIdempotent ==
  ASSUME NEW S, NEW d \in Flags(S), ~IsRefused(d)
  PROVE  Attribute(Attribute(d)) = Attribute(d)
<1> DEFINE e == Attribute(d)
<1>1. e \in Flags(S) /\ Attribute(e) \in Flags(S) BY AttributeFlags
<1>2. /\ d.required \in BOOLEAN /\ d.optional \in BOOLEAN /\ d.computed \in BOOLEAN
  BY DEF Flags
<1>3. /\ e.required = d.required
      /\ e.optional = (~d.required /\ (d.optional \/ ~d.computed))
      /\ e.computed = (d.computed \/ d.default # "none")
      /\ e.default = d.default
  BY AttributeFlags
<1>4. /\ Attribute(e).required = e.required
      /\ Attribute(e).optional = (~e.required /\ (e.optional \/ ~e.computed))
      /\ Attribute(e).computed = (e.computed \/ e.default # "none")
      /\ Attribute(e).writeOnly = e.writeOnly
      /\ Attribute(e).requiresReplace = e.requiresReplace
      /\ Attribute(e).default = e.default
      /\ Attribute(e).members = e.members
  BY <1>1, AttributeFlags
<1> HIDE DEF e
<1>5. (~e.required /\ (e.optional \/ ~e.computed)) = e.optional
  BY <1>2, <1>3
<1>6. (e.computed \/ e.default # "none") = e.computed
  BY <1>2, <1>3
<1>7. Attribute(e) = e
  BY <1>1, <1>4, <1>5, <1>6 DEF Flags
<1>8. QED BY <1>7 DEF e

\* So the attributes of a block are the ones that were built.
LEMMA NamedIsSame ==
  ASSUME SdInv, NEW attributes \in NamedThings(sdAttributes)
  PROVE  Named(attributes) = attributes
<1>1. \A name \in DOMAIN attributes : Attribute(attributes[name]) = attributes[name]
  BY NamedThingsFacts DEF SdInv, AttributeWorks, NamingIsHarmless
<1>2. attributes = [name \in DOMAIN attributes |-> attributes[name]] BY NamedThingsFacts
<1>3. QED BY <1>1, <1>2 DEF Named

LEMMA MainBlockIsTyped ==
  ASSUME SdInv, NEW d \in BlockType(sdAttributes, sdBlocks)
  PROVE  /\ MainBlock(d) = d
         /\ MainBlock(d) \in BlockType(sdAttributes, sdBlocks)
<1>1. d.attributes \in NamedThings(sdAttributes) BY DEF BlockType
<1>2. Named(d.attributes) = d.attributes BY <1>1, NamedIsSame
<1>3. MainBlock(d) = d BY <1>2 DEF MainBlock, BlockType
<1>4. QED BY <1>3

-----------------------------------------------------------------------------
\* What there is stays: a step only adds.
LEMMA SdStepAdds ==
  ASSUME [SdNext]_sdVars
  PROVE  /\ sdAttributes \subseteq sdAttributes'
         /\ sdBlocks \subseteq sdBlocks'
         /\ sdSchemas \subseteq sdSchemas'
BY DEF SdNext, BuildAttribute, NestBlock, CreateSchema, Extend, Cut, Merge, AddSchema, sdVars

LEMMA SdAttributeStep ==
  ASSUME SdInv, BuildAttribute
  PROVE  SdInv'
<1>1. PICK d \in Flags(sdAttributes) :
        ~IsRefused(d) /\ sdAttributes' = sdAttributes \cup {Attribute(d)}
  BY DEF BuildAttribute
<1>2. UNCHANGED <<sdBlocks, sdSchemas>> BY DEF BuildAttribute
<1> DEFINE e == Attribute(d)
<1>3. sdAttributes \subseteq sdAttributes' BY <1>1
<1>4. SdTypeOK'
  <2>1. Flags(sdAttributes) \subseteq Flags(sdAttributes') BY <1>3, MoreAttributes
  <2>2. BlockType(sdAttributes, sdBlocks) \subseteq BlockType(sdAttributes', sdBlocks)
    BY <1>3, MoreBlocks
  <2>3. e \in Flags(sdAttributes) BY AttributeFlags
  <2>4. sdAttributes' \subseteq Flags(sdAttributes') BY <1>1, <2>1, <2>3 DEF SdInv, SdTypeOK
  <2>5. QED BY <1>2, <2>2, <2>4 DEF SdInv, SdTypeOK
<1>5. AttributeWorks(e)'
  <2>1. CoreAccepts(e) /\ DefaultWorks(e) /\ ReplaceWorks(e) /\ ~IsRefused(e)
    BY <1>1, AttributeIsSound
  <2>2. Attribute(e) = e BY <1>1, NamingIsIdempotent
  <2>3. e.members = d.members BY AttributeFlags
  <2>4. d.members \in NamedThings(sdAttributes) BY DEF Flags
  <2>5. \A name \in DOMAIN d.members :
          d.members[name] \in sdAttributes' /\ ~d.members[name].requiresReplace
    BY <1>1, <1>3, <2>4, NamedThingsFacts DEF IsRefused, ReplaceIsRefused
  <2>6. QED BY <2>1, <2>2, <2>3, <2>5 DEF AttributeWorks, NamingIsHarmless, NoReplaceWithin
<1>6. \A attribute \in sdAttributes : AttributeWorks(attribute)'
  BY <1>3 DEF SdInv, AttributeWorks, NoReplaceWithin
<1>7. \A block \in sdBlocks : BlockWorks(block)'
  BY <1>2, <1>3 DEF SdInv, BlockWorks, NoReplaceWithin, BlocksAreNested
<1>8. QED BY <1>1, <1>2, <1>4, <1>5, <1>6, <1>7 DEF SdInv

LEMMA SdBlockStep ==
  ASSUME SdInv, NestBlock
  PROVE  SdInv'
<1>1. PICK d \in BlockType(sdAttributes, sdBlocks) :
        /\ \A name \in DOMAIN MainBlock(d).attributes :
             ~MainBlock(d).attributes[name].requiresReplace
        /\ sdBlocks' = sdBlocks \cup {MainBlock(d)}
  BY DEF NestBlock
<1>2. UNCHANGED <<sdAttributes, sdSchemas>> BY DEF NestBlock
<1>3. sdBlocks \subseteq sdBlocks' BY <1>1
<1>4. MainBlock(d) = d BY MainBlockIsTyped
<1>5. BlockType(sdAttributes, sdBlocks) \subseteq BlockType(sdAttributes, sdBlocks')
  BY <1>3, MoreBlocks
<1>6. SdTypeOK' BY <1>1, <1>2, <1>4, <1>5 DEF SdInv, SdTypeOK
<1>7. BlockWorks(d)'
  <2>1. d.attributes \in NamedThings(sdAttributes) /\ d.blocks \in NamedThings(sdBlocks)
    BY DEF BlockType
  <2>2. \A name \in DOMAIN d.attributes : d.attributes[name] \in sdAttributes
    BY <2>1, NamedThingsFacts
  <2>3. \A name \in DOMAIN d.blocks : d.blocks[name] \in sdBlocks'
    BY <1>3, <2>1, NamedThingsFacts
  <2>4. QED BY <1>1, <1>2, <1>4, <2>2, <2>3 DEF BlockWorks, NoReplaceWithin, BlocksAreNested
<1>8. \A block \in sdBlocks : BlockWorks(block)'
  BY <1>2, <1>3 DEF SdInv, BlockWorks, NoReplaceWithin, BlocksAreNested
<1>9. \A attribute \in sdAttributes' : AttributeWorks(attribute)'
  BY <1>2 DEF SdInv, AttributeWorks, NoReplaceWithin
<1>10. QED BY <1>1, <1>4, <1>6, <1>7, <1>8, <1>9 DEF SdInv

\* A schema of the right type may be added.
LEMMA SdSchemaAdded ==
  ASSUME SdInv, NEW schema \in BlockType(sdAttributes, sdBlocks), AddSchema(schema)
  PROVE  SdInv'
BY DEF SdInv, SdTypeOK, AddSchema, AttributeWorks, NoReplaceWithin, BlockWorks, BlocksAreNested

LEMMA WithAttributeIsTyped ==
  ASSUME NEW S, NEW B, NEW schema \in BlockType(S, B), NEW attribute \in S, NEW name \in Name
  PROVE  WithAttribute(schema, name, attribute) \in BlockType(S, B)
<1> DEFINE one == [n \in {name} |-> attribute]
<1>1. one \in NamedThings(S)
  <2>1. one \in [{name} -> S] /\ {name} \in SUBSET Name OBVIOUS
  <2>2. QED BY <2>1, NamedThingsFacts
<1>2. schema.attributes \in NamedThings(S) BY DEF BlockType
<1>3. Joined(schema.attributes, one) \in NamedThings(S) BY <1>1, <1>2, JoinedThings
<1>4. QED BY <1>3 DEF WithAttribute, BlockType

LEMMA WithoutAttributeIsTyped ==
  ASSUME NEW S, NEW B, NEW schema \in BlockType(S, B), NEW name
  PROVE  WithoutAttribute(schema, name) \in BlockType(S, B)
<1> DEFINE names == DOMAIN schema.attributes \ {name}
           rest == [n \in names |-> schema.attributes[n]]
<1>1. schema.attributes \in NamedThings(S) BY DEF BlockType
<1>2. rest \in [names -> S] /\ names \in SUBSET Name BY <1>1, NamedThingsFacts
<1>3. rest \in NamedThings(S) BY <1>2, NamedThingsFacts
<1>4. WithoutAttribute(schema, name) = [schema EXCEPT !.attributes = rest]
  BY DEF WithoutAttribute, BlockType
<1> HIDE DEF rest
<1>5. QED BY <1>3, <1>4 DEF BlockType

LEMMA MergedIsTyped ==
  ASSUME NEW S, NEW B, NEW first \in BlockType(S, B), NEW second \in BlockType(S, B)
  PROVE  MergeSchemas(first, second) \in BlockType(S, B)
<1>1. /\ first.attributes \in NamedThings(S) /\ second.attributes \in NamedThings(S)
      /\ first.blocks \in NamedThings(B) /\ second.blocks \in NamedThings(B)
  BY DEF BlockType
<1>2. /\ Joined(first.attributes, second.attributes) \in NamedThings(S)
      /\ Joined(first.blocks, second.blocks) \in NamedThings(B)
  BY <1>1, JoinedThings
<1>3. QED BY <1>2 DEF MergeSchemas, BlockType

LEMMA SdStep == SdInv /\ [SdNext]_sdVars => SdInv'
<1> SUFFICES ASSUME SdInv, [SdNext]_sdVars PROVE SdInv'
  OBVIOUS
<1>0. sdSchemas \subseteq BlockType(sdAttributes, sdBlocks) BY DEF SdInv, SdTypeOK
<1>1. CASE BuildAttribute BY <1>1, SdAttributeStep
<1>2. CASE NestBlock BY <1>2, SdBlockStep
<1>3. CASE CreateSchema
  <2>1. PICK d \in BlockType(sdAttributes, sdBlocks) : AddSchema(MainBlock(d))
    BY <1>3 DEF CreateSchema
  <2>2. QED BY <2>1, MainBlockIsTyped, SdSchemaAdded
<1>4. CASE Extend
  <2>1. PICK schema \in sdSchemas, attribute \in sdAttributes, name \in Name :
          AddSchema(WithAttribute(schema, name, attribute))
    BY <1>4 DEF Extend
  <2>2. QED BY <1>0, <2>1, WithAttributeIsTyped, SdSchemaAdded
<1>5. CASE Cut
  <2>1. PICK schema \in sdSchemas :
          \E name \in DOMAIN schema.attributes : AddSchema(WithoutAttribute(schema, name))
    BY <1>5 DEF Cut
  <2>2. PICK name \in DOMAIN schema.attributes : AddSchema(WithoutAttribute(schema, name))
    BY <2>1
  <2>3. QED BY <1>0, <2>2, WithoutAttributeIsTyped, SdSchemaAdded
<1>6. CASE Merge
  <2>1. PICK first \in sdSchemas, second \in sdSchemas : AddSchema(MergeSchemas(first, second))
    BY <1>6 DEF Merge
  <2>2. QED BY <1>0, <2>1, MergedIsTyped, SdSchemaAdded
<1>7. CASE UNCHANGED sdVars
  BY <1>7 DEF SdInv, SdTypeOK, AttributeWorks, NoReplaceWithin, BlockWorks, BlocksAreNested, sdVars
<1>8. QED BY <1>1, <1>2, <1>3, <1>4, <1>5, <1>6, <1>7 DEF SdNext

LEMMA SdInitially == SdInit => SdInv
BY DEF SdInit, SdInv, SdTypeOK

-----------------------------------------------------------------------------
\* An attribute that is cut and added again is where it was, in any schema.
LEMMA CutAndAdd ==
  ASSUME NEW S, NEW B, NEW schema \in BlockType(S, B)
  PROVE  CutAndAddAgree(schema)
<1> SUFFICES ASSUME NEW name \in DOMAIN schema.attributes
             PROVE  WithAttribute(WithoutAttribute(schema, name), name, schema.attributes[name]) = schema
  BY DEF CutAndAddAgree
<1> DEFINE f == schema.attributes
           rest == [n \in DOMAIN f \ {name} |-> f[n]]
           one == [n \in {name} |-> f[name]]
<1>1. f \in NamedThings(S) /\ f = [n \in DOMAIN f |-> f[n]]
  <2>1. f \in NamedThings(S) BY DEF BlockType
  <2>2. QED BY <2>1, NamedThingsFacts
<1>2. Joined(rest, one) = f
  <2>1. DOMAIN Joined(rest, one) = DOMAIN f BY DEF Joined
  <2>2. \A n \in DOMAIN f : Joined(rest, one)[n] = f[n] BY DEF Joined
  <2>3. Joined(rest, one) = [n \in DOMAIN f |-> Joined(rest, one)[n]] BY <2>1 DEF Joined
  <2>4. QED BY <1>1, <2>2, <2>3
<1>3. WithoutAttribute(schema, name) = [schema EXCEPT !.attributes = rest]
  BY DEF WithoutAttribute, BlockType
<1>4. WithAttribute(WithoutAttribute(schema, name), name, f[name])
        = [schema EXCEPT !.attributes = Joined(rest, one)]
  <2> HIDE DEF rest, one
  <2>1. [schema EXCEPT !.attributes = rest].attributes = rest BY DEF BlockType
  <2>2. WithAttribute([schema EXCEPT !.attributes = rest], name, f[name])
          = [[schema EXCEPT !.attributes = rest] EXCEPT !.attributes = Joined(rest, one)]
    BY <2>1 DEF WithAttribute, one, BlockType
  <2>3. QED BY <1>3, <2>2 DEF BlockType
<1>5. [schema EXCEPT !.attributes = f] = schema BY DEF BlockType
<1>6. QED BY <1>2, <1>4, <1>5

\* A merge that is not refused keeps what both declare, where no name is both.
LEMMA MergeIsWhole ==
  ASSUME NEW S, NEW B, NEW first \in BlockType(S, B), NEW second \in BlockType(S, B),
         ~NameIsBoth(first, second)
  PROVE  MergeKeepsAll(first, second)
<1> DEFINE merged == MergeSchemas(first, second)
           type == CtyType(merged)
<1> SUFFICES ASSUME ~MergeIsRefused(first, second), NEW schema \in {first, second}
             PROVE  /\ \A name \in DOMAIN schema.attributes :
                         type[name] = [kind |-> "attribute", of |-> schema.attributes[name]]
                    /\ \A name \in DOMAIN schema.blocks :
                         type[name] = [kind |-> "block", of |-> schema.blocks[name]]
  BY DEF MergeKeepsAll
<1>1. /\ first.attributes \in NamedThings(S) /\ second.attributes \in NamedThings(S)
      /\ first.blocks \in NamedThings(B) /\ second.blocks \in NamedThings(B)
  BY DEF BlockType
<1>2. /\ merged.attributes = Joined(first.attributes, second.attributes)
      /\ merged.blocks = Joined(first.blocks, second.blocks)
  BY DEF MergeSchemas
<1> HIDE DEF merged
<1>9. /\ DOMAIN merged.attributes = DOMAIN first.attributes \cup DOMAIN second.attributes
      /\ \A n \in DOMAIN first.attributes : merged.attributes[n] = first.attributes[n]
      /\ \A n \in DOMAIN second.attributes \ DOMAIN first.attributes :
           merged.attributes[n] = second.attributes[n]
  BY <1>2 DEF Joined
<1>10. /\ DOMAIN merged.blocks = DOMAIN first.blocks \cup DOMAIN second.blocks
       /\ \A n \in DOMAIN first.blocks : merged.blocks[n] = first.blocks[n]
       /\ \A n \in DOMAIN second.blocks \ DOMAIN first.blocks : merged.blocks[n] = second.blocks[n]
  BY <1>2 DEF Joined
<1>3. \A name \in DOMAIN schema.attributes :
        name \in DOMAIN merged.attributes /\ merged.attributes[name] = schema.attributes[name]
  BY <1>9 DEF MergeIsRefused
<1>4. \A name \in DOMAIN schema.blocks :
        name \in DOMAIN merged.blocks /\ merged.blocks[name] = schema.blocks[name]
  BY <1>10 DEF MergeIsRefused
<1>5. DOMAIN merged.attributes \cap DOMAIN merged.blocks = {}
  BY <1>9, <1>10 DEF NameIsBoth
<1>6. \A name \in DOMAIN merged.blocks :
        type[name] = [kind |-> "block", of |-> merged.blocks[name]]
  BY DEF CtyType, Joined
<1>7. \A name \in DOMAIN merged.attributes :
        type[name] = [kind |-> "attribute", of |-> merged.attributes[name]]
  BY <1>5 DEF CtyType, Joined
<1>8. QED BY <1>3, <1>4, <1>6, <1>7

\* The invariant says what the property does.
LEMMA SdImplies == SdInv => DeclaredFlagsWork
<1> SUFFICES ASSUME SdInv PROVE DeclaredFlagsWork
  OBVIOUS
<1>0. sdSchemas \subseteq BlockType(sdAttributes, sdBlocks) BY DEF SdInv, SdTypeOK
<1>1. ASSUME NEW schema \in sdSchemas PROVE SchemaWorks(schema)
  <2>1. schema \in BlockType(sdAttributes, sdBlocks) BY <1>0
  <2>2. /\ schema.attributes \in NamedThings(sdAttributes)
        /\ schema.blocks \in NamedThings(sdBlocks)
    BY <2>1 DEF BlockType
  <2>3. \A name \in DOMAIN schema.attributes : schema.attributes[name] \in sdAttributes
    BY <2>2, NamedThingsFacts
  <2>4. BlocksAreNested(schema) BY <2>2, NamedThingsFacts DEF BlocksAreNested
  <2>5. CutAndAddAgree(schema) BY <2>1, CutAndAdd
  <2>6. QED BY <2>3, <2>4, <2>5 DEF SchemaWorks
<1>2. ASSUME NEW first \in sdSchemas, NEW second \in sdSchemas, ~NameIsBoth(first, second)
      PROVE  MergeKeepsAll(first, second)
  BY <1>0, <1>2, MergeIsWhole
<1>3. QED BY <1>1, <1>2 DEF SdInv, DeclaredFlagsWork

\* What an author builds keeps its types: an attribute's members, a block's
\* attributes and blocks, and a schema's have all been built before it, and
\* naming them has changed none.
THEOREM SdTypeCorrect == SdSpec => []SdTypeOK
<1>1. SdInv => SdTypeOK BY DEF SdInv
<1>2. QED BY <1>1, SdInitially, SdStep, PTL DEF SdSpec

\* However deep an author nests objects and blocks, and however schemas are
\* extended, cut and merged: what could be declared does what its flags say.
THEOREM FlagsWork == SdSpec => []DeclaredFlagsWork
<1>1. QED BY SdInitially, SdStep, SdImplies, PTL DEF SdSpec

-----------------------------------------------------------------------------
(* The values of the types that are declared from the inside out.          *)

KnownOf == [t \in DOMAIN ctyTypes |-> ctyTypes[t].known]
PlannedOf == [t \in DOMAIN ctyTypes |-> ctyTypes[t].planned]

\* A value of the type whose parts are among values.
Fits(value, type, values) ==
  CASE type.kind = "primitive" -> \E scalar \in Scalar : value = Known(scalar)
    [] type.kind = "set" -> /\ value = KnownSet(value.elements)
                            /\ type.element \in DOMAIN values
                            /\ value.elements \subseteq values[type.element]
    [] OTHER -> /\ value = Known(value.of)
                /\ value.of = [at \in DOMAIN value.of |-> value.of[at]]
                /\ DOMAIN value.of \in PlacesOf(type)
                /\ \A at \in DOMAIN value.of :
                     /\ PartType(type, at) \in DOMAIN values
                     /\ value.of[at] \in values[PartType(type, at)]

ValuesFit(type) ==
  /\ ctyTypes[type].known \subseteq ctyTypes[type].planned
  /\ NullValue \in ctyTypes[type].known
  /\ UnknownValue \in ctyTypes[type].planned \ ctyTypes[type].known
  /\ type.kind = "primitive" => {Known(scalar) : scalar \in Scalar} \subseteq ctyTypes[type].known
  /\ \A value \in ctyTypes[type].known \ {NullValue} : Fits(value, type, KnownOf)
  /\ \A value \in ctyTypes[type].planned \ {NullValue, UnknownValue} : Fits(value, type, PlannedOf)

CtyInv ==
  /\ DOMAIN ctyTypes \subseteq NewTypes
  /\ \A type \in DOMAIN ctyTypes : ValuesFit(type)

LEMMA KindsOfValues ==
  /\ NullValue # UnknownValue
  /\ \A content : Known(content) \notin {NullValue, UnknownValue} /\ Known(content).of = content
  /\ \A elements : /\ KnownSet(elements) \notin {NullValue, UnknownValue}
                   /\ KnownSet(elements).elements = elements
BY DEF NullValue, UnknownValue, Known, KnownSet

LEMMA NewTypeKinds ==
  ASSUME NEW type \in NewTypes
  PROVE  \/ type = Primitive
         \/ \E names \in SUBSET Label : \E attributes \in [names -> DOMAIN ctyTypes] : type = ObjectOf(attributes)
         \/ \E kind \in {"list", "map", "set"}, element \in DOMAIN ctyTypes : type = CollectionOf(kind, element)
BY DEF NewTypes

LEMMA PartTypes ==
  ASSUME NEW type \in NewTypes, type.kind # "primitive"
  PROVE  /\ \A places \in PlacesOf(type) : \A at \in places : PartType(type, at) \in DOMAIN ctyTypes
         /\ type.kind = "set" => type.element \in DOMAIN ctyTypes /\ \A at : PartType(type, at) = type.element
<1>1. CASE \E names \in SUBSET Label : \E attributes \in [names -> DOMAIN ctyTypes] : type = ObjectOf(attributes)
  <2>0. PICK names \in SUBSET Label :
          \E attributes \in [names -> DOMAIN ctyTypes] : type = ObjectOf(attributes)
    BY <1>1
  <2>1. PICK attributes \in [names -> DOMAIN ctyTypes] : type = ObjectOf(attributes)
    BY <2>0
  <2>2. type.kind = "object" /\ type.attributes = attributes
    BY <2>1 DEF ObjectOf
  <2>3. PlacesOf(type) = {DOMAIN attributes}
    BY <2>2 DEF PlacesOf
  <2> QED
    BY <2>2, <2>3 DEF PartType
<1>2. CASE \E kind \in {"list", "map", "set"}, element \in DOMAIN ctyTypes : type = CollectionOf(kind, element)
  <2>1. PICK kind \in {"list", "map", "set"}, element \in DOMAIN ctyTypes : type = CollectionOf(kind, element)
    BY <1>2
  <2>2. type.kind \in {"list", "map", "set"} /\ type.element = element
    BY <2>1 DEF CollectionOf
  <2> QED
    BY <2>2 DEF PartType
<1> QED
  BY <1>1, <1>2, NewTypeKinds DEF Primitive

LEMMA StructureFits ==
  ASSUME NEW type \in NewTypes, type.kind # "primitive",
         NEW values, DOMAIN values = DOMAIN ctyTypes,
         NEW parts \in Structures(type, values)
  PROVE  /\ parts = [at \in DOMAIN parts |-> parts[at]]
         /\ DOMAIN parts \in PlacesOf(type)
         /\ \A at \in DOMAIN parts : /\ PartType(type, at) \in DOMAIN values
                                     /\ parts[at] \in values[PartType(type, at)]
<1>1. PICK places \in PlacesOf(type) :
        /\ parts \in [places -> UNION {values[PartType(type, at)] : at \in places}]
        /\ \A at \in places : parts[at] \in values[PartType(type, at)]
  BY DEF Structures
<1>2. DOMAIN parts = places
  BY <1>1
<1> QED
  BY <1>1, <1>2, PartTypes

LEMMA GivenFits ==
  ASSUME NEW type \in NewTypes, NEW values, DOMAIN values = DOMAIN ctyTypes,
         NEW value \in Given(type, values)
  PROVE  Fits(value, type, values) /\ value \notin {NullValue, UnknownValue}
<1>1. CASE type.kind = "primitive"
  BY <1>1, KindsOfValues DEF Given, Fits
<1>2. CASE type.kind = "set"
  <2>1. PICK parts \in Structures(type, values) : value = KnownSet(Elements(parts))
    BY <1>2 DEF Given
  <2>2. value.elements = Elements(parts) /\ value \notin {NullValue, UnknownValue}
    BY <2>1, KindsOfValues
  <2>3. type.element \in DOMAIN values /\ \A at : PartType(type, at) = type.element
    BY <1>2, PartTypes
  <2>4. Elements(parts) \subseteq values[type.element]
    BY <1>2, <2>3, StructureFits DEF Elements
  <2> QED
    BY <1>2, <2>1, <2>2, <2>3, <2>4 DEF Fits
<1>3. CASE type.kind \notin {"primitive", "set"}
  <2>1. PICK parts \in Structures(type, values) : value = Known(parts)
    BY <1>3 DEF Given
  <2>2. value.of = parts /\ value \notin {NullValue, UnknownValue}
    BY <2>1, KindsOfValues
  <2> QED
    BY <1>3, <2>1, <2>2, StructureFits DEF Fits
<1> QED
  BY <1>1, <1>2, <1>3

LEMMA GivenGrows ==
  ASSUME NEW type \in NewTypes, NEW S, NEW T, DOMAIN S = DOMAIN ctyTypes,
         \A t \in DOMAIN ctyTypes : S[t] \subseteq T[t]
  PROVE  Given(type, S) \subseteq Given(type, T)
<1>1. ASSUME type.kind # "primitive" PROVE Structures(type, S) \subseteq Structures(type, T)
  <2> SUFFICES ASSUME NEW parts \in Structures(type, S) PROVE parts \in Structures(type, T)
    OBVIOUS
  <2>1. /\ parts = [at \in DOMAIN parts |-> parts[at]]
        /\ DOMAIN parts \in PlacesOf(type)
        /\ \A at \in DOMAIN parts : parts[at] \in T[PartType(type, at)]
    BY <1>1, StructureFits
  <2>2. parts \in [DOMAIN parts -> UNION {T[PartType(type, at)] : at \in DOMAIN parts}]
    BY <2>1
  <2> QED
    BY <2>1, <2>2 DEF Structures
<1> QED
  BY <1>1 DEF Given

LEMMA CtyInvInit == CtyInit => CtyInv
BY DEF CtyInit, CtyInv

LEMMA FitsLonger ==
  ASSUME NEW value, NEW type, NEW S, NEW T, DOMAIN S \subseteq DOMAIN T,
         \A t \in DOMAIN S : T[t] = S[t], Fits(value, type, S)
  PROVE  Fits(value, type, T)
<1>1. CASE type.kind = "primitive"
  BY <1>1 DEF Fits
<1>2. CASE type.kind = "set"
  BY <1>2 DEF Fits
<1>3. CASE type.kind \notin {"primitive", "set"}
  BY <1>3 DEF Fits
<1> QED
  BY <1>1, <1>2, <1>3

LEMMA NewValuesFit ==
  ASSUME CtyInv, NEW type \in NewTypes
  PROVE  /\ KnownValues(type) \subseteq PlannedValues(type)
         /\ NullValue \in KnownValues(type)
         /\ UnknownValue \in PlannedValues(type) \ KnownValues(type)
         /\ type.kind = "primitive" => {Known(scalar) : scalar \in Scalar} \subseteq KnownValues(type)
         /\ \A value \in KnownValues(type) \ {NullValue} : Fits(value, type, KnownOf)
         /\ \A value \in PlannedValues(type) \ {NullValue, UnknownValue} : Fits(value, type, PlannedOf)
<1>1. KnownValues(type) = {NullValue} \cup Given(type, KnownOf)
  BY DEF KnownValues, KnownOf
<1>2. PlannedValues(type) = {NullValue, UnknownValue} \cup Given(type, PlannedOf)
  BY DEF PlannedValues, PlannedOf
<1>3. DOMAIN KnownOf = DOMAIN ctyTypes /\ DOMAIN PlannedOf = DOMAIN ctyTypes
  BY DEF KnownOf, PlannedOf
<1>4. \A value \in Given(type, KnownOf) : /\ Fits(value, type, KnownOf)
                                          /\ value \notin {NullValue, UnknownValue}
  BY <1>3, GivenFits
<1>5. \A value \in Given(type, PlannedOf) : /\ Fits(value, type, PlannedOf)
                                            /\ value \notin {NullValue, UnknownValue}
  BY <1>3, GivenFits
<1>6. \A t \in DOMAIN ctyTypes : KnownOf[t] \subseteq PlannedOf[t]
  BY DEF CtyInv, ValuesFit, KnownOf, PlannedOf
<1>7. Given(type, KnownOf) \subseteq Given(type, PlannedOf)
  BY <1>3, <1>6, GivenGrows
<1>8. type.kind = "primitive" => {Known(scalar) : scalar \in Scalar} \subseteq KnownValues(type)
  BY DEF KnownValues, Given
<1> QED
  BY <1>1, <1>2, <1>4, <1>5, <1>7, <1>8, KindsOfValues

LEMMA CtyUnchanged == CtyInv /\ UNCHANGED ctyTypes => CtyInv'
<1> SUFFICES ASSUME CtyInv, UNCHANGED ctyTypes PROVE CtyInv'
  OBVIOUS
<1>1. NewTypes' = NewTypes
  BY DEF NewTypes
<1>2. KnownOf' = KnownOf /\ PlannedOf' = PlannedOf
  BY DEF KnownOf, PlannedOf
<1>3. \A type \in DOMAIN ctyTypes : ValuesFit(type)'
  BY <1>2 DEF CtyInv, ValuesFit
<1> QED
  BY <1>1, <1>3 DEF CtyInv

LEMMA DeclareStep ==
  ASSUME CtyInv, NEW type \in NewTypes, DeclareType(type)
  PROVE  /\ CtyInv'
         /\ DOMAIN ctyTypes' = DOMAIN ctyTypes \cup {type}
         /\ type \notin DOMAIN ctyTypes
         /\ ctyTypes'[type] = [known |-> KnownValues(type), planned |-> PlannedValues(type)]
         /\ \A t \in DOMAIN ctyTypes : ctyTypes'[t] = ctyTypes[t]
<1> DEFINE entry == [known |-> KnownValues(type), planned |-> PlannedValues(type)]
<1>1. type \notin DOMAIN ctyTypes /\ ctyTypes' = WithEntry(ctyTypes, type, entry)
  BY DEF DeclareType
<1>2. /\ DOMAIN ctyTypes' = DOMAIN ctyTypes \cup {type}
      /\ ctyTypes'[type] = entry
      /\ \A t \in DOMAIN ctyTypes : ctyTypes'[t] = ctyTypes[t]
  <2> HIDE DEF entry
  <2>1. /\ DOMAIN WithEntry(ctyTypes, type, entry) = DOMAIN ctyTypes \cup {type}
        /\ WithEntry(ctyTypes, type, entry)[type] = entry
        /\ \A k \in DOMAIN ctyTypes \ {type} : WithEntry(ctyTypes, type, entry)[k] = ctyTypes[k]
    BY DEF WithEntry
  <2> QED
    BY <1>1, <2>1
<1>3. NewTypes \subseteq NewTypes'
  BY <1>2 DEF NewTypes
<1>4. /\ DOMAIN KnownOf \subseteq DOMAIN KnownOf' /\ \A t \in DOMAIN KnownOf : KnownOf'[t] = KnownOf[t]
      /\ DOMAIN PlannedOf \subseteq DOMAIN PlannedOf' /\ \A t \in DOMAIN PlannedOf : PlannedOf'[t] = PlannedOf[t]
  BY <1>2 DEF KnownOf, PlannedOf
<1>5. ASSUME NEW t \in DOMAIN ctyTypes PROVE ValuesFit(t)'
  BY <1>2, <1>4, <1>5, FitsLonger DEF CtyInv, ValuesFit
<1>6. ValuesFit(type)'
  <2>1. ctyTypes'[type].known = KnownValues(type) /\ ctyTypes'[type].planned = PlannedValues(type)
    BY <1>2
  <2>2. \A value \in KnownValues(type) \ {NullValue} : Fits(value, type, KnownOf')
    BY <1>4, NewValuesFit, FitsLonger
  <2>3. \A value \in PlannedValues(type) \ {NullValue, UnknownValue} : Fits(value, type, PlannedOf')
    BY <1>4, NewValuesFit, FitsLonger
  <2> QED
    BY <2>1, <2>2, <2>3, NewValuesFit DEF ValuesFit
<1>7. CtyInv'
  BY <1>2, <1>3, <1>5, <1>6 DEF CtyInv
<1> QED
  BY <1>1, <1>2, <1>7

-----------------------------------------------------------------------------
(* The check of what apply returned.                                       *)

\* The known parts of a plan resolve to nothing but themselves; which is why
\* the code may compare a set whose elements are all known.
CheckIsExact(type) ==
  LET check == rfTypes[type]
  IN /\ check.resolved \subseteq ctyTypes[type].planned \X ctyTypes[type].known
     /\ \A plan, result \in ctyTypes[type].known :
          <<plan, result>> \in check.resolved => plan = result
     /\ \A plan \in ctyTypes[type].planned \ check.setPartlyUnknown,
           result \in ctyTypes[type].planned :
          /\ <<plan, result>> \in check.resolved => <<plan, result>> \in check.accepted
          /\ plan \notin check.setUnknown /\ <<plan, result>> \in check.accepted =>
               <<plan, result>> \in check.outcomes

RfInv ==
  /\ CtyInv
  /\ DOMAIN rfTypes = DOMAIN ctyTypes
  /\ \A type \in DOMAIN rfTypes : CheckIsExact(type)

LEMMA RfInvInit == RfInit => RfInv
BY CtyInvInit DEF RfInit, CtyInit, RfInv

\* What the lemmas below say of a type and its values of their parts.
Judged(type, values) ==
  /\ type \in NewTypes
  /\ UnknownValue \notin values.known /\ values.known \subseteq values.planned
  /\ \A value \in values.known \ {NullValue} : Fits(value, type, KnownOf)
  /\ \A value \in values.planned \ {NullValue, UnknownValue} : Fits(value, type, PlannedOf)

LEMMA KnownResolvesToItself ==
  ASSUME RfInv, NEW type, NEW values, Judged(type, values),
         NEW plan \in values.known, NEW result \in values.known, Resolves(plan, result, type)
  PROVE  plan = result
<1>1. plan # UnknownValue /\ result # UnknownValue
  BY DEF Judged
<1>2. CASE plan = NullValue \/ result = NullValue \/ type.kind = "primitive"
  BY <1>1, <1>2 DEF Resolves
<1>3. CASE plan # NullValue /\ result # NullValue /\ type.kind = "set"
  <2>1. /\ Fits(plan, type, KnownOf) /\ Fits(result, type, KnownOf)
    BY <1>3 DEF Judged
  <2>2. /\ plan = KnownSet(plan.elements) /\ result = KnownSet(result.elements)
        /\ type.element \in DOMAIN rfTypes
        /\ plan.elements \subseteq ctyTypes[type.element].known
        /\ result.elements \subseteq ctyTypes[type.element].known
    BY <1>3, <2>1 DEF Fits, KnownOf, RfInv
  <2>3. PICK f \in [plan.elements -> result.elements] :
          /\ result.elements = {f[e] : e \in plan.elements}
          /\ \A e \in plan.elements : <<e, f[e]>> \in rfTypes[type.element].resolved
    BY <1>1, <1>3 DEF Resolves
  <2>4. \A e \in plan.elements : f[e] = e
    BY <2>2, <2>3 DEF RfInv, CheckIsExact
  <2>5. plan.elements = result.elements
    BY <2>3, <2>4
  <2> QED
    BY <2>2, <2>5
<1>4. CASE plan # NullValue /\ result # NullValue /\ type.kind \notin {"primitive", "set"}
  <2>1. Fits(plan, type, KnownOf) /\ Fits(result, type, KnownOf)
    BY <1>4 DEF Judged
  <2>2. /\ plan = Known(plan.of) /\ plan.of = [at \in DOMAIN plan.of |-> plan.of[at]]
        /\ result = Known(result.of) /\ result.of = [at \in DOMAIN result.of |-> result.of[at]]
        /\ \A at \in DOMAIN plan.of : /\ PartType(type, at) \in DOMAIN rfTypes
                                      /\ plan.of[at] \in ctyTypes[PartType(type, at)].known
        /\ \A at \in DOMAIN result.of : result.of[at] \in ctyTypes[PartType(type, at)].known
    BY <1>4, <2>1 DEF Fits, KnownOf, RfInv
  <2>3. /\ DOMAIN plan.of = DOMAIN result.of
        /\ \A at \in DOMAIN plan.of :
             <<plan.of[at], result.of[at]>> \in rfTypes[PartType(type, at)].resolved
    BY <1>1, <1>4 DEF Resolves
  <2>4. \A at \in DOMAIN plan.of : plan.of[at] = result.of[at]
    BY <2>2, <2>3 DEF RfInv, CheckIsExact
  <2>5. plan.of = result.of
    BY <2>2, <2>3, <2>4
  <2> QED
    BY <2>2, <2>5
<1> QED
  BY <1>2, <1>3, <1>4

LEMMA ResolvedIsAccepted ==
  ASSUME RfInv, NEW type, NEW values, Judged(type, values),
         NEW plan \in values.planned, NEW result \in values.known, Resolves(plan, result, type),
         ~HasSet(plan, type, HoldsPartlyUnknown, [t \in DOMAIN rfTypes |-> rfTypes[t].setPartlyUnknown])
  PROVE  IsValidRefinement(plan, result, type)
<1> DEFINE within == [t \in DOMAIN rfTypes |-> rfTypes[t].setPartlyUnknown]
<1>1. result # UnknownValue
  BY DEF Judged
<1>2. CASE plan \in {UnknownValue, NullValue} \/ result = NullValue \/ type.kind = "primitive"
  BY <1>1, <1>2 DEF Resolves, IsValidRefinement
<1>3. CASE plan \notin {UnknownValue, NullValue} /\ result # NullValue /\ type.kind = "set"
  <2>1. Fits(plan, type, PlannedOf)
    BY <1>3 DEF Judged
  <2>2. /\ type.element \in DOMAIN rfTypes
        /\ plan.elements \subseteq ctyTypes[type.element].planned
    BY <1>3, <2>1 DEF Fits, PlannedOf, RfInv
  <2>3. PICK f \in [plan.elements -> result.elements] :
          /\ result.elements = {f[e] : e \in plan.elements}
          /\ \A e \in plan.elements : <<e, f[e]>> \in rfTypes[type.element].resolved
    BY <1>3 DEF Resolves
  <2>4. \A e \in plan.elements : e # UnknownValue => e \in ctyTypes[type.element].known
    BY <1>3 DEF HasSet, HoldsPartlyUnknown
  <2>5. CASE UnknownValue \notin plan.elements
    <3>1. ASSUME NEW e \in plan.elements PROVE f[e] = e
      <4>1. CheckIsExact(type.element)
        BY <2>2 DEF RfInv
      <4>2. e \in ctyTypes[type.element].known /\ <<e, f[e]>> \in rfTypes[type.element].resolved
        BY <2>3, <2>4, <2>5
      <4>3. f[e] \in ctyTypes[type.element].known
        BY <4>1, <4>2 DEF CheckIsExact
      <4> QED
        BY <4>1, <4>2, <4>3 DEF CheckIsExact
    <3>2. plan.elements = result.elements
      BY <2>3, <3>1
    <3> QED
      BY <1>1, <1>3, <3>2 DEF IsValidRefinement, SetRefines
  <2> QED
    BY <1>1, <1>3, <2>5 DEF IsValidRefinement, SetRefines
<1>4. CASE /\ plan \notin {UnknownValue, NullValue} /\ result # NullValue
           /\ type.kind \notin {"primitive", "set"}
  <2>1. Fits(plan, type, PlannedOf) /\ Fits(result, type, KnownOf)
    BY <1>1, <1>4 DEF Judged
  <2>2. /\ \A at \in DOMAIN plan.of : /\ PartType(type, at) \in DOMAIN rfTypes
                                      /\ plan.of[at] \in ctyTypes[PartType(type, at)].planned
        /\ \A at \in DOMAIN result.of : result.of[at] \in ctyTypes[PartType(type, at)].known
    BY <1>4, <2>1 DEF Fits, PlannedOf, KnownOf, RfInv
  <2>3. /\ DOMAIN plan.of = DOMAIN result.of
        /\ \A at \in DOMAIN plan.of :
             <<plan.of[at], result.of[at]>> \in rfTypes[PartType(type, at)].resolved
    BY <1>4 DEF Resolves
  <2>4. \A at \in DOMAIN plan.of : plan.of[at] \notin rfTypes[PartType(type, at)].setPartlyUnknown
    <3>1. \A at \in DOMAIN plan.of : plan.of[at] \notin within[PartType(type, at)]
      BY <1>4 DEF HasSet
    <3> QED
      BY <2>2, <3>1
  <2>5. \A t \in DOMAIN rfTypes : ctyTypes[t].known \subseteq ctyTypes[t].planned
    BY DEF RfInv, CtyInv, ValuesFit
  <2>6. ASSUME NEW at \in DOMAIN plan.of
        PROVE  <<plan.of[at], result.of[at]>> \in rfTypes[PartType(type, at)].accepted
    <3>1. CheckIsExact(PartType(type, at))
      BY <2>2 DEF RfInv
    <3> QED
      BY <2>2, <2>3, <2>4, <2>5, <3>1 DEF CheckIsExact
  <2> QED
    BY <1>1, <1>4, <2>3, <2>6 DEF IsValidRefinement, PlacesRefine
<1> QED
  BY <1>2, <1>3, <1>4

LEMMA AcceptedIsOutcome ==
  ASSUME RfInv, NEW type, NEW values, Judged(type, values),
         NEW plan \in values.planned, NEW result \in values.planned, IsValidRefinement(plan, result, type),
         ~HasSet(plan, type, HoldsPartlyUnknown, [t \in DOMAIN rfTypes |-> rfTypes[t].setPartlyUnknown]),
         ~HasSet(plan, type, HoldsUnknown, [t \in DOMAIN rfTypes |-> rfTypes[t].setUnknown])
  PROVE  IsOutcome(plan, result, type)
<1> DEFINE partly == [t \in DOMAIN rfTypes |-> rfTypes[t].setPartlyUnknown]
           unknown == [t \in DOMAIN rfTypes |-> rfTypes[t].setUnknown]
<1>1. CASE plan \in {UnknownValue, NullValue}
  BY <1>1 DEF IsValidRefinement, IsOutcome
<1>2. ASSUME plan \notin {UnknownValue, NullValue}
      PROVE  /\ result \notin {UnknownValue, NullValue}
             /\ Fits(plan, type, PlannedOf) /\ Fits(result, type, PlannedOf)
  BY <1>2 DEF IsValidRefinement, Judged
<1>3. CASE plan \notin {UnknownValue, NullValue} /\ type.kind = "primitive"
  BY <1>2, <1>3, KindsOfValues DEF IsValidRefinement, IsOutcome, Fits
<1>4. CASE plan \notin {UnknownValue, NullValue} /\ type.kind = "set"
  <2>1. plan = KnownSet(plan.elements) /\ result = KnownSet(result.elements)
    BY <1>2, <1>4 DEF Fits
  <2>2. UnknownValue \notin plan.elements
    BY <1>4 DEF HasSet, HoldsUnknown
  <2>3. plan.elements = result.elements
    BY <1>2, <1>4, <2>2 DEF IsValidRefinement, SetRefines
  <2> QED
    BY <1>4, <2>1, <2>3 DEF IsOutcome
<1>5. CASE plan \notin {UnknownValue, NullValue} /\ type.kind \notin {"primitive", "set"}
  <2>1. /\ \A at \in DOMAIN plan.of : /\ PartType(type, at) \in DOMAIN rfTypes
                                      /\ plan.of[at] \in ctyTypes[PartType(type, at)].planned
        /\ \A at \in DOMAIN result.of : result.of[at] \in ctyTypes[PartType(type, at)].planned
    BY <1>2, <1>5 DEF Fits, PlannedOf, RfInv
  <2>2. /\ DOMAIN plan.of = DOMAIN result.of
        /\ \A at \in DOMAIN plan.of :
             <<plan.of[at], result.of[at]>> \in rfTypes[PartType(type, at)].accepted
    BY <1>2, <1>5 DEF IsValidRefinement, PlacesRefine
  <2>3. ASSUME NEW at \in DOMAIN plan.of
        PROVE  /\ plan.of[at] \notin rfTypes[PartType(type, at)].setPartlyUnknown
               /\ plan.of[at] \notin rfTypes[PartType(type, at)].setUnknown
    <3>1. plan.of[at] \notin partly[PartType(type, at)] /\ plan.of[at] \notin unknown[PartType(type, at)]
      BY <1>5 DEF HasSet
    <3> QED
      BY <2>1, <3>1
  <2>4. ASSUME NEW at \in DOMAIN plan.of
        PROVE  <<plan.of[at], result.of[at]>> \in rfTypes[PartType(type, at)].outcomes
    <3>1. CheckIsExact(PartType(type, at))
      BY <2>1 DEF RfInv
    <3> QED
      BY <2>1, <2>2, <2>3, <3>1 DEF CheckIsExact
  <2> QED
    BY <1>2, <1>5, <2>2, <2>4 DEF IsOutcome
<1> QED
  BY <1>1, <1>3, <1>4, <1>5

LEMMA JudgementIsExact ==
  ASSUME RfInv, NEW type, NEW values, Judged(type, values), NEW check, check = Judgement(type, values)
  PROVE  /\ check.resolved \subseteq values.planned \X values.known
         /\ \A plan, result \in values.known : <<plan, result>> \in check.resolved => plan = result
         /\ \A plan \in values.planned \ check.setPartlyUnknown, result \in values.planned :
              /\ <<plan, result>> \in check.resolved => <<plan, result>> \in check.accepted
              /\ plan \notin check.setUnknown /\ <<plan, result>> \in check.accepted =>
                   <<plan, result>> \in check.outcomes
<1> DEFINE partly == [t \in DOMAIN rfTypes |-> rfTypes[t].setPartlyUnknown]
           unknown == [t \in DOMAIN rfTypes |-> rfTypes[t].setUnknown]
<1>1. /\ check.accepted = {p \in values.planned \X values.planned : IsValidRefinement(p[1], p[2], type)}
      /\ check.resolved = {p \in values.planned \X values.known : Resolves(p[1], p[2], type)}
      /\ check.outcomes = {p \in values.planned \X values.planned : IsOutcome(p[1], p[2], type)}
      /\ check.setUnknown = {v \in values.planned : HasSet(v, type, HoldsUnknown, unknown)}
      /\ check.setPartlyUnknown = {v \in values.planned : HasSet(v, type, HoldsPartlyUnknown, partly)}
  BY DEF Judgement
<1>2. /\ \A plan, result \in values.planned :
           <<plan, result>> \in check.accepted <=> IsValidRefinement(plan, result, type)
      /\ \A plan \in values.planned, result \in values.known :
           <<plan, result>> \in check.resolved <=> Resolves(plan, result, type)
      /\ \A plan, result \in values.planned :
           <<plan, result>> \in check.outcomes <=> IsOutcome(plan, result, type)
      /\ check.resolved \subseteq values.planned \X values.known
  BY <1>1
<1>3. /\ \A v \in values.planned \ check.setUnknown : ~HasSet(v, type, HoldsUnknown, unknown)
      /\ \A v \in values.planned \ check.setPartlyUnknown : ~HasSet(v, type, HoldsPartlyUnknown, partly)
  BY <1>1
<1>4. values.known \subseteq values.planned
  BY DEF Judged
<1> HIDE DEF partly, unknown
<1>5. \A plan, result \in values.known : <<plan, result>> \in check.resolved => plan = result
  BY <1>2, <1>4, KnownResolvesToItself
<1>6. ASSUME NEW plan \in values.planned \ check.setPartlyUnknown, NEW result \in values.planned,
             <<plan, result>> \in check.resolved
      PROVE  <<plan, result>> \in check.accepted
  <2>1. result \in values.known
    BY <1>2, <1>6
  <2> QED
    BY <1>2, <1>3, <1>6, <2>1, ResolvedIsAccepted DEF partly
<1>7. ASSUME NEW plan \in values.planned \ check.setPartlyUnknown, NEW result \in values.planned,
             plan \notin check.setUnknown, <<plan, result>> \in check.accepted
      PROVE  <<plan, result>> \in check.outcomes
  BY <1>2, <1>3, <1>7, AcceptedIsOutcome DEF partly, unknown
<1> QED
  BY <1>2, <1>5, <1>6, <1>7

LEMMA RfStep == RfInv /\ [RfNext]_rfVars => RfInv'
<1> SUFFICES ASSUME RfInv, [RfNext]_rfVars PROVE RfInv'
  OBVIOUS
<1>1. ASSUME NEW type \in NewTypes, JudgeType(type) PROVE RfInv'
  <2>1. /\ CtyInv'
        /\ DOMAIN ctyTypes' = DOMAIN ctyTypes \cup {type}
        /\ type \notin DOMAIN ctyTypes
        /\ ctyTypes'[type] = [known |-> KnownValues(type), planned |-> PlannedValues(type)]
        /\ \A t \in DOMAIN ctyTypes : ctyTypes'[t] = ctyTypes[t]
    BY <1>1, DeclareStep DEF JudgeType, RfInv
  <2> DEFINE values == ctyTypes'[type]
             check == Judgement(type, values)
  <2>2. /\ DOMAIN rfTypes' = DOMAIN rfTypes \cup {type}
        /\ rfTypes'[type] = check
        /\ \A t \in DOMAIN rfTypes : rfTypes'[t] = rfTypes[t]
    <3>1. rfTypes' = WithEntry(rfTypes, type, check) /\ type \notin DOMAIN rfTypes
      BY <1>1, <2>1 DEF JudgeType, RfInv
    <3> HIDE DEF check
    <3>2. /\ DOMAIN WithEntry(rfTypes, type, check) = DOMAIN rfTypes \cup {type}
          /\ WithEntry(rfTypes, type, check)[type] = check
          /\ \A t \in DOMAIN rfTypes \ {type} : WithEntry(rfTypes, type, check)[t] = rfTypes[t]
      BY DEF WithEntry
    <3> QED
      BY <3>1, <3>2
  <2>3. Judged(type, values)
    <3>1. values = [known |-> KnownValues(type), planned |-> PlannedValues(type)]
      BY <2>1
    <3> QED
      BY <3>1, NewValuesFit DEF Judged, RfInv
  <2>4. ASSUME NEW t \in DOMAIN rfTypes PROVE CheckIsExact(t)'
    BY <2>1, <2>2, <2>4 DEF RfInv, CheckIsExact
  <2>5. CheckIsExact(type)'
    BY <2>2, <2>3, JudgementIsExact DEF CheckIsExact
  <2> QED
    BY <2>1, <2>2, <2>4, <2>5 DEF RfInv
<1>2. CASE UNCHANGED rfVars
  BY <1>2, CtyUnchanged DEF rfVars, RfInv, CheckIsExact
<1> QED
  BY <1>1, <1>2 DEF RfNext

\* A result that resolves the plan passes the check, and one that passes it is
\* an outcome of the plan, for values of every type, however deep
\* (is_valid_refinement).
THEOREM RefinementCheck == RfSpec => []RefinementIsExact
<1>1. RfInv => RefinementIsExact
  BY DEF RfInv, CheckIsExact, RefinementIsExact
<1> QED
  BY <1>1, RfInvInit, RfStep, PTL DEF RfSpec

-----------------------------------------------------------------------------
(* Decoding and encoding.                                                  *)

\* Both directions of the values of a type under one hint.
BothWays(type, both) ==
  /\ \A value \in ctyTypes[type].planned :
       /\ Raw(value) \in DOMAIN both.encoded /\ both.encoded[Raw(value)] = value
       /\ \A applyDefaults \in BOOLEAN : both.native[applyDefaults][value] \in DOMAIN both.encoded
  /\ \A value \in ctyTypes[type].known : both.encoded[both.native[FALSE][value]] = value
  /\ \A value \in both.converted : both.encoded[both.native[TRUE][value]] = both.meant[value]
  /\ both.converted \subseteq ctyTypes[type].planned
  /\ ctyTypes[type].known \subseteq both.converted

\* A plan keeps its values.
KeptInPlan(type, both) ==
  \A value \in ctyTypes[type].planned :
    both.meant[value] = value /\ both.native[TRUE][value] = both.native[FALSE][value]

CvInv ==
  /\ CtyInv
  /\ \A key \in DOMAIN cvHints :
       /\ key = <<key[1], key[2]>> /\ key[1] \in DOMAIN ctyTypes
       /\ BothWays(key[1], cvHints[key])
       /\ key[2] = PreservingHint => KeptInPlan(key[1], cvHints[key])

LEMMA CvInvInit == CvInit => CvInv
BY CtyInvInit DEF CvInit, CvInv

\* The hints that suit a type.
HintSuits(type, hint) ==
  \/ hint = RawHint \/ hint = PreservingHint
  \/ hint.kind = "list" /\ type.kind \in {"list", "set"}
  \/ hint.kind = "dict" /\ type.kind \in {"map", "object"}
  \/ /\ hint.kind = "class" /\ type.kind = "object"
     /\ \A name \in DOMAIN type.attributes :
          hint.fields[name].default # NoDefault =>
            hint.fields[name].default \in ctyTypes[type.attributes[name]].known

LEMMA ClassFields ==
  ASSUME NEW attributes, NEW hint \in ClassHints(attributes)
  PROVE  /\ hint.kind = "class"
         /\ \A name \in DOMAIN attributes :
              hint.fields[name].default # NoDefault =>
                hint.fields[name].default \in ctyTypes[attributes[name]].known
<1> DEFINE fields == [name \in DOMAIN attributes |-> FieldsOf(attributes[name])]
<1>1. PICK f \in [DOMAIN attributes -> UNION {fields[name] : name \in DOMAIN fields}] :
        hint = ClassHint(f) /\ \A name \in DOMAIN fields : f[name] \in fields[name]
  BY DEF ClassHints
<1>2. hint.kind = "class" /\ hint.fields = f
  BY <1>1 DEF ClassHint
<1>3. \A name \in DOMAIN attributes : f[name] \in FieldsOf(attributes[name])
  BY <1>1
<1> QED
  BY <1>2, <1>3 DEF FieldsOf

LEMMA NewHintSuits ==
  ASSUME CtyInv, NEW type \in DOMAIN ctyTypes, NEW hint \in NewHints(type)
  PROVE  HintSuits(type, hint)
<1>1. type.kind \in {"primitive", "object", "list", "map", "set"}
  BY NewTypeKinds DEF CtyInv, Primitive, ObjectOf, CollectionOf
<1>2. CASE type.kind = "object"
  BY <1>2, ClassFields DEF NewHints, HintSuits, ItemsHint
<1>3. CASE type.kind # "object"
  BY <1>1, <1>3 DEF NewHints, HintSuits, ItemsHint
<1> QED
  BY <1>2, <1>3

LEMMA HintKinds ==
  /\ RawHint.kind = "raw" /\ PreservingHint.kind = "preserving" /\ RawHint # PreservingHint
BY DEF RawHint, PreservingHint

LEMMA NativeKinds ==
  /\ NoneValue.is = "None"
  /\ \A value : Raw(value).is = "raw" /\ Raw(value).value = value
  /\ \A items : /\ Listed(items).is = "list" /\ Listed(items).items = items
                /\ Dict(items).is = "dict" /\ Dict(items).items = items
                /\ Instance(items).is = "instance" /\ Instance(items).items = items
BY DEF NoneValue, Raw, Listed, Dict, Instance

\* The parts of a value are hinted, and convert both ways.
LEMMA PartsConvert ==
  ASSUME CvInv, NEW type \in DOMAIN ctyTypes, NEW hint, HintSuits(type, hint),
         PartsAreHinted(type, hint), type.kind # "primitive", hint # RawHint,
         NEW value \in ctyTypes[type].planned \ {NullValue, UnknownValue}
  PROVE  /\ type.kind = "set" =>
              /\ value = KnownSet(value.elements)
              /\ value.elements \subseteq ctyTypes[type.element].planned
              /\ value \in ctyTypes[type].known => value.elements \subseteq ctyTypes[type.element].known
              /\ PartOf(type, hint, 1) \in DOMAIN cvHints
              /\ BothWays(type.element, cvHints[PartOf(type, hint, 1)])
         /\ type.kind # "set" =>
              /\ value = Known(value.of) /\ value.of = [at \in DOMAIN value.of |-> value.of[at]]
              /\ type.kind = "object" => DOMAIN value.of = DOMAIN type.attributes
              /\ \A at \in DOMAIN value.of :
                   /\ value.of[at] \in ctyTypes[PartType(type, at)].planned
                   /\ value \in ctyTypes[type].known => value.of[at] \in ctyTypes[PartType(type, at)].known
                   /\ PartOf(type, hint, at) \in DOMAIN cvHints
                   /\ BothWays(PartType(type, at), cvHints[PartOf(type, hint, at)])
                   /\ hint = PreservingHint =>
                        KeptInPlan(PartType(type, at), cvHints[PartOf(type, hint, at)])
<1>1. /\ Fits(value, type, PlannedOf)
      /\ value \in ctyTypes[type].known => Fits(value, type, KnownOf)
  BY DEF CvInv, CtyInv, ValuesFit
<1>2. \A at : PartOf(type, hint, at) \in DOMAIN cvHints =>
        /\ BothWays(PartType(type, at), cvHints[PartOf(type, hint, at)])
        /\ hint = PreservingHint => KeptInPlan(PartType(type, at), cvHints[PartOf(type, hint, at)])
  <2> SUFFICES ASSUME NEW at, PartOf(type, hint, at) \in DOMAIN cvHints
               PROVE  /\ BothWays(PartType(type, at), cvHints[PartOf(type, hint, at)])
                      /\ hint = PreservingHint =>
                           KeptInPlan(PartType(type, at), cvHints[PartOf(type, hint, at)])
    OBVIOUS
  <2>1. PartOf(type, hint, at)[1] = PartType(type, at) /\ PartOf(type, hint, at)[2] = PartHint(hint, at)
    BY DEF PartOf
  <2>2. hint = PreservingHint => PartHint(hint, at) = PreservingHint
    BY HintKinds DEF PartHint
  <2> QED
    BY <2>1, <2>2 DEF CvInv
<1>3. CASE type.kind = "set"
  <2>1. /\ value = KnownSet(value.elements)
        /\ value.elements \subseteq ctyTypes[type.element].planned
        /\ value \in ctyTypes[type].known => value.elements \subseteq ctyTypes[type.element].known
    BY <1>1, <1>3 DEF Fits, PlannedOf, KnownOf
  <2>2. PartOf(type, hint, 1) \in DOMAIN cvHints /\ PartType(type, 1) = type.element
    BY <1>3 DEF PartsAreHinted, PartType
  <2> QED
    BY <1>2, <1>3, <2>1, <2>2
<1>4. CASE type.kind # "set"
  <2>1. /\ value = Known(value.of) /\ value.of = [at \in DOMAIN value.of |-> value.of[at]]
        /\ DOMAIN value.of \in PlacesOf(type)
        /\ \A at \in DOMAIN value.of :
             /\ value.of[at] \in ctyTypes[PartType(type, at)].planned
             /\ value \in ctyTypes[type].known => value.of[at] \in ctyTypes[PartType(type, at)].known
    BY <1>1, <1>4 DEF Fits, PlannedOf, KnownOf
  <2>2. type.kind = "object" => DOMAIN value.of = DOMAIN type.attributes
    BY <2>1 DEF PlacesOf
  <2>3. ASSUME NEW at \in DOMAIN value.of PROVE PartOf(type, hint, at) \in DOMAIN cvHints
    <3>1. CASE type.kind = "object"
      BY <2>2, <2>3, <3>1 DEF PartsAreHinted
    <3>2. CASE type.kind # "object"
      <4>1. hint.kind # "class"
        BY <3>2, HintKinds DEF HintSuits
      <4>2. PartOf(type, hint, at) = PartOf(type, hint, 1)
        BY <3>2, <4>1 DEF PartOf, PartType, PartHint
      <4> QED
        BY <3>2, <4>2 DEF PartsAreHinted
    <3> QED
      BY <3>1, <3>2
  <2> QED
    BY <1>2, <1>4, <2>1, <2>2, <2>3
<1> QED
  BY <1>3, <1>4

\* What an entry has to fit for the lemmas below.
Hinted(type, hint) ==
  /\ type \in DOMAIN ctyTypes /\ HintSuits(type, hint) /\ PartsAreHinted(type, hint)
  /\ type.kind = "primitive" => hint \in {RawHint, PreservingHint}

LEMMA TypeValues ==
  ASSUME CtyInv, NEW type \in DOMAIN ctyTypes
  PROVE  /\ ctyTypes[type].known \subseteq ctyTypes[type].planned
         /\ NullValue \in ctyTypes[type].known
         /\ UnknownValue \in ctyTypes[type].planned \ ctyTypes[type].known
         /\ type.kind \in {"primitive", "object", "list", "map", "set"}
         /\ type.kind = "primitive" =>
              ctyTypes[type].planned \ {UnknownValue} \subseteq ctyTypes[type].known
<1>1. ValuesFit(type) /\ type \in NewTypes
  BY DEF CtyInv
<1>2. type.kind \in {"primitive", "object", "list", "map", "set"}
  BY <1>1, NewTypeKinds DEF Primitive, ObjectOf, CollectionOf
<1>3. ASSUME type.kind = "primitive", NEW value \in ctyTypes[type].planned \ {UnknownValue}
      PROVE  value \in ctyTypes[type].known
  <2>1. CASE value = NullValue
    BY <1>1, <2>1 DEF ValuesFit
  <2>2. CASE value # NullValue
    <3>1. Fits(value, type, PlannedOf)
      BY <1>1, <1>3, <2>2 DEF ValuesFit
    <3> QED
      BY <1>1, <1>3, <3>1 DEF ValuesFit, Fits
  <2> QED
    BY <2>1, <2>2
<1> QED
  BY <1>1, <1>2, <1>3 DEF ValuesFit

\* A state comes back from its class as it was.
LEMMA StateComesBack ==
  ASSUME CvInv, NEW type, NEW hint, Hinted(type, hint), NEW value \in ctyTypes[type].known
  PROVE  Encode(ToNative(value, type, hint, FALSE), type, hint) = value
<1>1. value # UnknownValue /\ value \in ctyTypes[type].planned
  BY TypeValues DEF CvInv, Hinted
<1>2. CASE value = NullValue
  BY <1>1, <1>2, NativeKinds DEF ToNative, PreservingUnknown, Decode, Encode
<1>3. CASE value # NullValue /\ hint \in {RawHint, PreservingHint}
  BY <1>1, <1>3, NativeKinds, HintKinds DEF ToNative, PreservingUnknown, Decode, Encode
<1>4. CASE value # NullValue /\ hint \notin {RawHint, PreservingHint} /\ type.kind = "set"
  <2> DEFINE part == cvHints[PartOf(type, hint, 1)]
  <2>1. /\ value = KnownSet(value.elements)
        /\ value.elements \subseteq ctyTypes[type.element].known
        /\ BothWays(type.element, part)
    BY <1>1, <1>4, PartsConvert DEF Hinted
  <2>2. hint.kind = "list"
    BY <1>4 DEF Hinted, HintSuits
  <2>3. ToNative(value, type, hint, FALSE) = Listed({part.native[FALSE][item] : item \in value.elements})
    BY <1>1, <1>4, <2>2 DEF ToNative, Decode, DecodeItems, DecodePart
  <2>4. Encode(Listed({part.native[FALSE][item] : item \in value.elements}), type, hint)
          = KnownSet({part.encoded[n] : n \in {part.native[FALSE][item] : item \in value.elements}})
    BY <1>4, NativeKinds DEF Encode
  <2>5. \A item \in value.elements : part.encoded[part.native[FALSE][item]] = item
    BY <2>1 DEF BothWays
  <2>6. {part.encoded[n] : n \in {part.native[FALSE][item] : item \in value.elements}} = value.elements
    BY <2>5
  <2> QED
    BY <2>1, <2>3, <2>4, <2>6
<1>5. CASE value # NullValue /\ hint \notin {RawHint, PreservingHint} /\ type.kind # "set"
  <2> DEFINE items == DecodeParts(value.of, type, hint, FALSE)
  <2>1. /\ value = Known(value.of) /\ value.of = [at \in DOMAIN value.of |-> value.of[at]]
        /\ type.kind = "object" => DOMAIN value.of = DOMAIN type.attributes
        /\ \A at \in DOMAIN value.of :
             /\ value.of[at] \in ctyTypes[PartType(type, at)].known
             /\ BothWays(PartType(type, at), cvHints[PartOf(type, hint, at)])
    BY <1>1, <1>5, PartsConvert DEF Hinted
  <2>2. /\ DOMAIN items = DOMAIN value.of
        /\ \A at \in DOMAIN value.of :
             items[at] = cvHints[PartOf(type, hint, at)].native[FALSE][value.of[at]]
    BY DEF DecodeParts, DecodePart
  <2>3. ASSUME NEW at \in DOMAIN value.of
        PROVE  cvHints[PartOf(type, hint, at)].encoded[items[at]] = value.of[at]
    <3> DEFINE part == cvHints[PartOf(type, hint, at)]
    <3>1. /\ BothWays(PartType(type, at), part)
          /\ value.of[at] \in ctyTypes[PartType(type, at)].known
          /\ items[at] = part.native[FALSE][value.of[at]]
      BY <2>1, <2>2
    <3> HIDE DEF part, items
    <3>2. part.encoded[items[at]] = value.of[at]
      BY <3>1 DEF BothWays
    <3> QED
      BY <3>2 DEF part
  <2>4. ToNative(value, type, hint, FALSE) \in {Listed(items), Dict(items), Instance(items)}
    <3>1. CASE hint.kind = "class"
      BY <1>1, <1>5, <3>1 DEF ToNative, Decode, DecodeField, DecodeParts
    <3>2. CASE hint.kind # "class"
      BY <1>1, <1>5, <3>2 DEF ToNative, Decode, DecodeItems, Hinted, HintSuits
    <3> QED
      BY <3>1, <3>2
  <2>5. ASSUME NEW native \in {Listed(items), Dict(items), Instance(items)}
        PROVE  Encode(native, type, hint)
                 = Known([at \in DOMAIN items |-> cvHints[PartOf(type, hint, at)].encoded[items[at]]])
    <3>1. native.is \notin {"None", "raw"} /\ native.items = items
      BY <2>5, NativeKinds
    <3> QED
      BY <1>5, <3>1 DEF Encode
  <2>6. [at \in DOMAIN items |-> cvHints[PartOf(type, hint, at)].encoded[items[at]]] = value.of
    BY <2>1, <2>2, <2>3
  <2> QED
    BY <2>1, <2>4, <2>5, <2>6
<1> QED
  BY <1>2, <1>3, <1>4, <1>5

\* A configuration, and a plan, are encoded to what they mean.
LEMMA MeaningIsKept ==
  ASSUME CvInv, NEW type, NEW hint, Hinted(type, hint), NEW value \in ctyTypes[type].planned,
         IsConverted(value, type, hint)
  PROVE  Encode(ToNative(value, type, hint, TRUE), type, hint) = MeantValue(value, type, hint)
<1>1. CASE value = NullValue
  BY <1>1, NativeKinds, KindsOfValues, HintKinds DEF ToNative, PreservingUnknown, Decode, Encode, MeantValue
<1>2. CASE value = UnknownValue
  BY <1>2, NativeKinds, KindsOfValues, HintKinds
  DEF ToNative, PreservingUnknown, Decode, Encode, MeantValue, Hinted, HintSuits
<1>3. CASE value \notin {NullValue, UnknownValue} /\ hint = RawHint
  BY <1>3, NativeKinds, HintKinds DEF ToNative, Decode, Encode, MeantValue
<1>4. CASE /\ value \notin {NullValue, UnknownValue} /\ hint = PreservingHint
           /\ value \in ctyTypes[type].known \/ type.kind = "set"
  BY <1>4, NativeKinds, HintKinds DEF ToNative, PreservingUnknown, Encode, MeantValue
<1>5. CASE /\ value \notin {NullValue, UnknownValue} /\ hint = PreservingHint
           /\ value \notin ctyTypes[type].known /\ type.kind # "set"
  <2> DEFINE items == DecodeParts(value.of, type, hint, FALSE)
  <2>1. type.kind # "primitive"
    BY <1>5, TypeValues DEF CvInv, Hinted
  <2>2. /\ value = Known(value.of) /\ value.of = [at \in DOMAIN value.of |-> value.of[at]]
        /\ \A at \in DOMAIN value.of :
             /\ value.of[at] \in ctyTypes[PartType(type, at)].planned
             /\ BothWays(PartType(type, at), cvHints[PartOf(type, hint, at)])
             /\ KeptInPlan(PartType(type, at), cvHints[PartOf(type, hint, at)])
    BY <1>5, <2>1, PartsConvert, HintKinds DEF Hinted
  <2>3. \A at \in DOMAIN value.of : value.of[at] \in cvHints[PartOf(type, hint, at)].converted
    BY <1>5, HintKinds DEF IsConverted
  <2>4. \A at \in DOMAIN value.of :
          items[at] = cvHints[PartOf(type, hint, at)].native[FALSE][value.of[at]]
    BY DEF DecodeParts, DecodePart
  <2>5. ASSUME NEW at \in DOMAIN value.of
        PROVE  cvHints[PartOf(type, hint, at)].encoded[items[at]] = value.of[at]
    <3> DEFINE part == cvHints[PartOf(type, hint, at)]
    <3>1. BothWays(PartType(type, at), part) /\ KeptInPlan(PartType(type, at), part)
      BY <2>2
    <3>2. value.of[at] \in ctyTypes[PartType(type, at)].planned /\ value.of[at] \in part.converted
      BY <2>2, <2>3
    <3>3. items[at] = part.native[FALSE][value.of[at]]
      BY <2>4
    <3> HIDE DEF part, items
    <3>4. items[at] = part.native[TRUE][value.of[at]] /\ part.meant[value.of[at]] = value.of[at]
      BY <3>1, <3>2, <3>3 DEF KeptInPlan
    <3>5. part.encoded[items[at]] = value.of[at]
      BY <3>1, <3>2, <3>4 DEF BothWays
    <3> QED
      BY <3>5 DEF part
  <2>6. ToNative(value, type, hint, TRUE) \in {Listed(items), Dict(items)}
    BY <1>5, <2>1, TypeValues DEF ToNative, PreservingUnknown
  <2>7. ASSUME NEW native \in {Listed(items), Dict(items)}
        PROVE  Encode(native, type, hint)
                 = Known([at \in DOMAIN items |-> cvHints[PartOf(type, hint, at)].encoded[items[at]]])
    <3>1. native.is \notin {"None", "raw"} /\ native.items = items
      BY <2>7, NativeKinds
    <3> QED
      BY <1>5, <3>1 DEF Encode
  <2>8. [at \in DOMAIN items |-> cvHints[PartOf(type, hint, at)].encoded[items[at]]] = value.of
    BY <2>2, <2>5 DEF DecodeParts
  <2>9. MeantValue(value, type, hint) = value
    BY <1>5, HintKinds DEF MeantValue
  <2> QED
    BY <2>2, <2>6, <2>7, <2>8, <2>9
<1> DEFINE Further == value \notin {NullValue, UnknownValue} /\ hint \notin {RawHint, PreservingHint}
<1>6. CASE Further /\ type.kind = "set"
  <2> DEFINE part == cvHints[PartOf(type, hint, 1)]
  <2>1. /\ value = KnownSet(value.elements)
        /\ value.elements \subseteq ctyTypes[type.element].planned
        /\ value \in ctyTypes[type].known => value.elements \subseteq ctyTypes[type.element].known
        /\ BothWays(type.element, part)
    BY <1>6, PartsConvert DEF Hinted
  <2>2. hint.kind = "list"
    BY <1>6 DEF Hinted, HintSuits
  <2>3. value.elements \subseteq part.converted
    <3>1. CASE value \in ctyTypes[type].known
      BY <2>1, <3>1 DEF BothWays
    <3>2. CASE value \notin ctyTypes[type].known
      BY <1>6, <3>2 DEF IsConverted
    <3> QED
      BY <3>1, <3>2
  <2>4. ToNative(value, type, hint, TRUE) = Listed({part.native[TRUE][item] : item \in value.elements})
    BY <1>6, <2>2 DEF ToNative, Decode, DecodeItems, DecodePart
  <2>5. Encode(Listed({part.native[TRUE][item] : item \in value.elements}), type, hint)
          = KnownSet({part.encoded[n] : n \in {part.native[TRUE][item] : item \in value.elements}})
    BY <1>6, NativeKinds DEF Encode
  <2>6. \A item \in value.elements : part.encoded[part.native[TRUE][item]] = part.meant[item]
    BY <2>1, <2>3 DEF BothWays
  <2> HIDE DEF part
  <2>7. {part.encoded[n] : n \in {part.native[TRUE][item] : item \in value.elements}}
          = {part.meant[item] : item \in value.elements}
    <3>1. ASSUME NEW item \in value.elements
          PROVE  part.meant[item] \in {part.encoded[n] : n \in {part.native[TRUE][i] : i \in value.elements}}
      BY <2>6
    <3>2. ASSUME NEW n \in {part.native[TRUE][item] : item \in value.elements}
          PROVE  part.encoded[n] \in {part.meant[item] : item \in value.elements}
      BY <2>6
    <3> QED
      BY <3>1, <3>2
  <2>8. MeantValue(value, type, hint) = KnownSet({part.meant[item] : item \in value.elements})
    BY <1>6, <2>2 DEF MeantValue, part
  <2> QED
    BY <2>4, <2>5, <2>7, <2>8
<1>7. CASE Further /\ type.kind # "set"
  <2> DEFINE omitted(at) == hint.kind = "class" /\ LeavesDefault(value.of[at], hint.fields[at])
             item(at) == IF omitted(at) THEN Raw(hint.fields[at].default)
                         ELSE cvHints[PartOf(type, hint, at)].native[TRUE][value.of[at]]
             items == [at \in DOMAIN value.of |-> item(at)]
             meant(at) == IF omitted(at) THEN hint.fields[at].default
                          ELSE cvHints[PartOf(type, hint, at)].meant[value.of[at]]
  <2>1. type.kind # "primitive"
    BY <1>7 DEF Hinted
  <2>2. /\ value = Known(value.of) /\ value.of = [at \in DOMAIN value.of |-> value.of[at]]
        /\ type.kind = "object" => DOMAIN value.of = DOMAIN type.attributes
        /\ \A at \in DOMAIN value.of :
             /\ value.of[at] \in ctyTypes[PartType(type, at)].planned
             /\ value \in ctyTypes[type].known => value.of[at] \in ctyTypes[PartType(type, at)].known
             /\ BothWays(PartType(type, at), cvHints[PartOf(type, hint, at)])
    BY <1>7, <2>1, PartsConvert DEF Hinted
  <2>3. ASSUME NEW at \in DOMAIN value.of
        PROVE  value.of[at] \in cvHints[PartOf(type, hint, at)].converted
    <3>1. CASE value \in ctyTypes[type].known
      <4>1. BothWays(PartType(type, at), cvHints[PartOf(type, hint, at)])
        BY <2>2
      <4> QED
        BY <2>2, <3>1, <4>1 DEF BothWays
    <3>2. CASE value \notin ctyTypes[type].known
      BY <1>7, <3>2 DEF IsConverted
    <3> QED
      BY <3>1, <3>2
  <2>4. ASSUME NEW at \in DOMAIN value.of
        PROVE  cvHints[PartOf(type, hint, at)].encoded[items[at]] = meant(at)
    <3> DEFINE part == cvHints[PartOf(type, hint, at)]
    <3>1. BothWays(PartType(type, at), part)
      BY <2>2
    <3>2. CASE omitted(at)
      <4>1. items[at] = Raw(hint.fields[at].default) /\ meant(at) = hint.fields[at].default
        BY <3>2
      <4>2. type.kind = "object" /\ at \in DOMAIN type.attributes /\ PartType(type, at) = type.attributes[at]
        BY <1>7, <2>2, <3>2, HintKinds DEF Hinted, HintSuits, PartType
      <4>3. hint.fields[at].default \in ctyTypes[PartType(type, at)].known
        BY <1>7, <3>2, <4>2, HintKinds DEF Hinted, HintSuits, LeavesDefault
      <4>4. hint.fields[at].default \in ctyTypes[PartType(type, at)].planned
        BY <3>1, <4>3 DEF BothWays
      <4> QED
        BY <3>1, <4>1, <4>4 DEF BothWays
    <3>3. CASE ~omitted(at)
      <4>1. items[at] = part.native[TRUE][value.of[at]] /\ meant(at) = part.meant[value.of[at]]
        BY <3>3
      <4>2. value.of[at] \in part.converted
        BY <2>3
      <4> HIDE DEF part, items, meant
      <4>3. part.encoded[items[at]] = meant(at)
        BY <3>1, <4>1, <4>2 DEF BothWays
      <4> QED
        BY <4>3 DEF part
    <3> QED
      BY <3>2, <3>3
  <2>5. ToNative(value, type, hint, TRUE) \in {Listed(items), Dict(items), Instance(items)}
    <3>1. CASE hint.kind = "class"
      BY <1>7, <3>1 DEF ToNative, Decode, DecodeField, DecodePart
    <3>2. CASE hint.kind # "class"
      BY <1>7, <3>2 DEF ToNative, Decode, DecodeItems, DecodeParts, DecodePart, Hinted, HintSuits
    <3> QED
      BY <3>1, <3>2
  <2>6. MeantValue(value, type, hint) = Known([at \in DOMAIN value.of |-> meant(at)])
    <3>1. hint.kind \notin {"raw", "preserving"}
      BY <1>7, HintKinds DEF Hinted, HintSuits
    <3> QED
      BY <1>7, <3>1 DEF MeantValue
  <2>7. DOMAIN items = DOMAIN value.of
    OBVIOUS
  <2> HIDE DEF items, meant
  <2>8. ASSUME NEW native \in {Listed(items), Dict(items), Instance(items)}
        PROVE  Encode(native, type, hint)
                 = Known([at \in DOMAIN items |-> cvHints[PartOf(type, hint, at)].encoded[items[at]]])
    <3>1. native.is \notin {"None", "raw"} /\ native.items = items
      BY <2>8, NativeKinds
    <3> QED
      BY <1>7, <3>1 DEF Encode
  <2>9. [at \in DOMAIN items |-> cvHints[PartOf(type, hint, at)].encoded[items[at]]]
          = [at \in DOMAIN value.of |-> meant(at)]
    BY <2>4, <2>7
  <2> QED
    BY <2>5, <2>6, <2>8, <2>9
<1> QED
  BY <1>1, <1>2, <1>3, <1>4, <1>5, <1>6, <1>7

LEMMA EntryConverts ==
  ASSUME CvInv, NEW type, NEW hint, Hinted(type, hint), NEW both, both = Conversion(type, hint)
  PROVE  BothWays(type, both) /\ (hint = PreservingHint => KeptInPlan(type, both))
<1> DEFINE values == ctyTypes[type].planned
           native == [applyDefaults \in BOOLEAN |->
                        [value \in values |-> ToNative(value, type, hint, applyDefaults)]]
           natives == {Raw(value) : value \in values}
                        \cup {native[applyDefaults][value] : applyDefaults \in BOOLEAN, value \in values}
<1>1. /\ both.native = native
      /\ both.encoded = [n \in natives |-> Encode(n, type, hint)]
      /\ both.meant = [value \in values |-> MeantValue(value, type, hint)]
      /\ both.converted = {value \in values : IsConverted(value, type, hint)}
  BY DEF Conversion
<1>2. \A applyDefaults \in BOOLEAN, value \in values :
        /\ native[applyDefaults][value] = ToNative(value, type, hint, applyDefaults)
        /\ native[applyDefaults][value] \in natives
  OBVIOUS
<1>3. \A value \in values : Raw(value) \in natives /\ Encode(Raw(value), type, hint) = value
  BY NativeKinds DEF Encode
<1>4. ctyTypes[type].known \subseteq values
  BY TypeValues DEF CvInv, Hinted
<1> HIDE DEF native, natives
<1>5. \A n \in natives : both.encoded[n] = Encode(n, type, hint)
  BY <1>1
<1>6. \A value \in ctyTypes[type].known : both.encoded[both.native[FALSE][value]] = value
  <2> SUFFICES ASSUME NEW value \in ctyTypes[type].known
               PROVE  both.encoded[native[FALSE][value]] = value
    BY <1>1
  <2>1. native[FALSE][value] = ToNative(value, type, hint, FALSE) /\ native[FALSE][value] \in natives
    BY <1>2, <1>4
  <2> QED
    BY <1>5, <2>1, StateComesBack
<1>7. \A value \in both.converted : both.encoded[both.native[TRUE][value]] = both.meant[value]
  <2> SUFFICES ASSUME NEW value \in values, IsConverted(value, type, hint)
               PROVE  both.encoded[native[TRUE][value]] = both.meant[value]
    BY <1>1
  <2>1. native[TRUE][value] = ToNative(value, type, hint, TRUE) /\ native[TRUE][value] \in natives
    BY <1>2
  <2>2. both.meant[value] = MeantValue(value, type, hint)
    BY <1>1
  <2> QED
    BY <1>5, <2>1, <2>2, MeaningIsKept
<1>8. both.converted \subseteq values /\ ctyTypes[type].known \subseteq both.converted
  BY <1>1, <1>4 DEF IsConverted
<1>9. \A value \in values :
        /\ Raw(value) \in DOMAIN both.encoded /\ both.encoded[Raw(value)] = value
        /\ \A applyDefaults \in BOOLEAN : both.native[applyDefaults][value] \in DOMAIN both.encoded
  BY <1>1, <1>2, <1>3, <1>5
<1>10. ASSUME hint = PreservingHint PROVE KeptInPlan(type, both)
  <2>1. \A value \in values : ToNative(value, type, hint, TRUE) = ToNative(value, type, hint, FALSE)
    BY <1>10 DEF ToNative
  <2>2. \A value \in values : MeantValue(value, type, hint) = value
    BY <1>10, HintKinds DEF MeantValue
  <2>3. ASSUME NEW value \in values
        PROVE  both.native[TRUE][value] = both.native[FALSE][value] /\ both.meant[value] = value
    <3>1. native[TRUE][value] = native[FALSE][value]
      BY <1>2, <2>1
    <3>2. both.meant[value] = MeantValue(value, type, hint)
      BY <1>1
    <3> QED
      BY <1>1, <2>2, <3>1, <3>2
  <2> QED
    BY <2>3 DEF KeptInPlan
<1> QED
  BY <1>6, <1>7, <1>8, <1>9, <1>10 DEF BothWays

LEMMA CvStep == CvInv /\ [CvNext]_cvVars => CvInv'
<1> SUFFICES ASSUME CvInv, [CvNext]_cvVars PROVE CvInv'
  OBVIOUS
<1>1. ASSUME NEW type \in NewTypes, DeclareType(type), UNCHANGED cvHints PROVE CvInv'
  <2>1. /\ CtyInv'
        /\ DOMAIN ctyTypes \subseteq DOMAIN ctyTypes'
        /\ \A t \in DOMAIN ctyTypes : ctyTypes'[t] = ctyTypes[t]
    BY <1>1, DeclareStep DEF CvInv
  <2>2. ASSUME NEW key \in DOMAIN cvHints
        PROVE  /\ key[1] \in DOMAIN ctyTypes
               /\ BothWays(key[1], cvHints[key])'
               /\ key[2] = PreservingHint => KeptInPlan(key[1], cvHints[key])'
    <3>1. /\ key[1] \in DOMAIN ctyTypes /\ BothWays(key[1], cvHints[key])
          /\ key[2] = PreservingHint => KeptInPlan(key[1], cvHints[key])
      BY DEF CvInv
    <3>2. ctyTypes'[key[1]] = ctyTypes[key[1]] /\ cvHints'[key] = cvHints[key]
      BY <1>1, <2>1, <3>1
    <3> QED
      BY <3>1, <3>2 DEF BothWays, KeptInPlan
  <2> QED
    BY <1>1, <2>1, <2>2 DEF CvInv
<1>2. ASSUME Annotate PROVE CvInv'
  <2>1. PICK type \in DOMAIN ctyTypes :
          \E hint \in NewHints(type) :
            /\ <<type, hint>> \notin DOMAIN cvHints
            /\ PartsAreHinted(type, hint)
            /\ cvHints' = WithEntry(cvHints, <<type, hint>>, Conversion(type, hint))
    BY <1>2 DEF Annotate
  <2>2. PICK hint \in NewHints(type) :
          /\ <<type, hint>> \notin DOMAIN cvHints
          /\ PartsAreHinted(type, hint)
          /\ cvHints' = WithEntry(cvHints, <<type, hint>>, Conversion(type, hint))
    BY <2>1
  <2> DEFINE key == <<type, hint>>
             both == Conversion(type, hint)
  <2>3. Hinted(type, hint)
    BY <2>2, NewHintSuits DEF CvInv, Hinted, NewHints
  <2>4. BothWays(type, both) /\ (hint = PreservingHint => KeptInPlan(type, both))
    BY <2>3, EntryConverts
  <2>5. ctyTypes' = ctyTypes /\ CtyInv'
    BY <1>2, CtyUnchanged DEF Annotate, CvInv
  <2> HIDE DEF both
  <2>6. /\ DOMAIN cvHints' = DOMAIN cvHints \cup {key}
        /\ cvHints'[key] = both
        /\ \A k \in DOMAIN cvHints : cvHints'[k] = cvHints[k]
    BY <2>2 DEF WithEntry, both
  <2>7. ASSUME NEW k \in DOMAIN cvHints'
        PROVE  /\ k = <<k[1], k[2]>> /\ k[1] \in DOMAIN ctyTypes
               /\ BothWays(k[1], cvHints[k])'
               /\ k[2] = PreservingHint => KeptInPlan(k[1], cvHints[k])'
    <3>1. CASE k = key
      BY <2>4, <2>5, <2>6, <3>1 DEF BothWays, KeptInPlan
    <3>2. CASE k # key
      <4>1. k \in DOMAIN cvHints
        BY <2>6, <3>2
      <4>2. /\ k = <<k[1], k[2]>> /\ k[1] \in DOMAIN ctyTypes /\ BothWays(k[1], cvHints[k])
            /\ k[2] = PreservingHint => KeptInPlan(k[1], cvHints[k])
        BY <4>1 DEF CvInv
      <4>3. ctyTypes'[k[1]] = ctyTypes[k[1]] /\ cvHints'[k] = cvHints[k]
        BY <2>5, <2>6, <4>1
      <4> QED
        BY <4>2, <4>3 DEF BothWays, KeptInPlan
    <3> QED
      BY <3>1, <3>2
  <2> QED
    BY <2>5, <2>7 DEF CvInv
<1>3. ASSUME UNCHANGED cvVars PROVE CvInv'
  <2>1. CtyInv' /\ ctyTypes' = ctyTypes /\ cvHints' = cvHints
    BY <1>3, CtyUnchanged DEF cvVars, CvInv
  <2>2. ASSUME NEW k \in DOMAIN cvHints
        PROVE  /\ BothWays(k[1], cvHints[k])'
               /\ k[2] = PreservingHint => KeptInPlan(k[1], cvHints[k])'
    <3>1. /\ BothWays(k[1], cvHints[k])
          /\ k[2] = PreservingHint => KeptInPlan(k[1], cvHints[k])
      BY DEF CvInv
    <3> QED
      BY <2>1, <3>1 DEF BothWays, KeptInPlan
  <2> QED
    BY <2>1, <2>2 DEF CvInv
<1> QED
  BY <1>1, <1>2, <1>3 DEF CvNext, DeclareOnly

\* A state that is decoded into the author's classes and encoded again, and a
\* configuration that is, are what they were, with the defaults of the classes
\* for what a configuration leaves out; and so is a plan, with its unknowns:
\* for every type and every annotation of it (from_cty, attrs_to_dict_for_cty).
THEOREM ConversionsAreFaithful == CvSpec => []ConversionsKeepValues
<1>1. CvInv => ConversionsKeepValues
  <2> SUFFICES ASSUME CvInv, NEW key \in DOMAIN cvHints
               PROVE  /\ \A state \in ctyTypes[key[1]].known :
                           /\ StateRoundTrips(state, key[1], key[2])
                           /\ GeneratedIsState(state, key[1], key[2])
                      /\ \A value \in ctyTypes[key[1]].planned : ConfigKeepsMeaning(value, key[1], key[2])
    BY DEF ConversionsKeepValues
  <2>1. /\ key = <<key[1], key[2]>> /\ BothWays(key[1], cvHints[key])
        /\ ctyTypes[key[1]].known \subseteq ctyTypes[key[1]].planned
    BY TypeValues DEF CvInv
  <2> DEFINE type == key[1]
             hint == key[2]
             both == cvHints[key]
  <2>2. ASSUME NEW state \in ctyTypes[type].known
        PROVE  StateRoundTrips(state, type, hint) /\ GeneratedIsState(state, type, hint)
    <3>1. /\ both.encoded[both.native[FALSE][state]] = state
          /\ both.encoded[Raw(state)] = state
      BY <2>1 DEF BothWays
    <3>2. CtyToAttrsInstance(state, type, hint, FALSE, FALSE) = both.native[FALSE][state]
      BY <2>1 DEF CtyToAttrsInstance
    <3> QED
      BY <2>1, <3>1, <3>2 DEF StateRoundTrips, GeneratedIsState, GenerateResourceConfig
  <2>3. ASSUME NEW value \in ctyTypes[type].planned PROVE ConfigKeepsMeaning(value, type, hint)
    <3>1. CtyToAttrsInstance(value, type, hint, TRUE, TRUE) = both.native[TRUE][value]
      BY <2>1 DEF CtyToAttrsInstance
    <3> QED
      BY <2>1, <3>1 DEF ConfigKeepsMeaning, BothWays
  <2> QED
    BY <2>2, <2>3
<1> QED
  BY <1>1, CvInvInit, CvStep, PTL DEF CvSpec

-----------------------------------------------------------------------------
(* Defaults below the top level.                                           *)

\* What a schema's tables hold, whatever the schema: a proposal that can be paired,
\* once merged, agrees with the effective configuration, and in a set a fresh element
\* matches its own configuration and none that it can be told apart from.
Resolution(table) ==
  /\ NullValue \in table.values /\ UnknownValue \in table.values
  /\ table.known \subseteq table.values \ {UnknownValue}
  /\ \A v \in table.values :
       /\ table.resolved[v] \in table.values
       /\ IF IsResolvable(v) THEN IsResolvable(table.resolved[v]) ELSE table.resolved[v] = v
       /\ v \in table.known => table.resolved[v] \in table.known

Merging(table) ==
  /\ \A p, c \in table.values :
       /\ table.merged[<<p, c>>] \in table.values
       /\ IsResolvable(p) => IsResolvable(table.merged[<<p, c>>])
  /\ \A v \in table.values : <<v, v>> \in table.agreeing

Proposing(table) ==
  \A c \in table.values :
    /\ table.proposals[c] \subseteq table.values
    /\ \A p \in table.proposals[c] :
         /\ IF IsResolvable(c) THEN IsResolvable(p) ELSE p = c
         /\ <<p, c>> \in table.pairable =>
              <<table.merged[<<p, table.resolved[c]>>], table.resolved[c]>> \in table.agreeing
    /\ \A p : <<p, c>> \in table.pairable => p \in table.proposals[c]

Pairing(table) ==
  \A c \in table.values : \A p \in table.proposals[c] :
    IsResolvable(c) /\ <<p, c>> \in table.fresh =>
      /\ <<p, table.resolved[c]>> \in table.matches
      /\ \A d \in table.values :
           <<table.resolved[c], table.resolved[d]>> \in table.apart => <<p, table.resolved[d]>> \notin table.matches

TableIsSound(table) == Resolution(table) /\ Merging(table) /\ Proposing(table) /\ Pairing(table)

CaseIsSound ==
  \/ dfCase = NoCase
  \/ /\ dfCase.planned
     /\ \A answer \in dfCase.answers :
          answer.paired => AgreesNested(answer.plan, dfCase.effective, dfCase.nested)

DfInv ==
  /\ \A schema \in DOMAIN dfSchemas : TableIsSound(dfSchemas[schema])
  /\ CaseIsSound

TablesSound == \A schema \in DOMAIN dfSchemas : TableIsSound(dfSchemas[schema])

LEMMA KindsOfContents ==
  /\ NullValue # UnknownValue
  /\ \A content : IsResolvable(Known(content)) /\ Known(content).of = content
BY DEF NullValue, UnknownValue, Known, IsResolvable

\* The parts of a new schema have been declared.
IsBlock(member) ==
  /\ member.kind = "block" /\ member.nesting \in Nestings
  /\ member.schema \in DOMAIN dfSchemas
IsScalarAttribute(member) ==
  /\ member.kind = "scalar"
  /\ member.writeOnly \in BOOLEAN /\ (member.writeOnly => member.default = NullValue)
  /\ member.default \in {NullValue} \cup {Known(s) : s \in Scalar}
IsObjectAttribute(member) ==
  /\ member.kind = "object" /\ member.object \in DOMAIN dfSchemas
  /\ member.writeOnly \in BOOLEAN /\ (member.writeOnly => member.default = NullValue)
  /\ member.default \in {NullValue} \cup dfSchemas[member.object].known
IsMember(member) == IsBlock(member) \/ IsScalarAttribute(member) \/ IsObjectAttribute(member)

LEMMA NewMembersAreMembers ==
  ASSUME NEW member \in NewMembers PROVE IsMember(member)
<1>1. CASE member \in ScalarAttributes
  <2> SUFFICES ASSUME NEW default \in {NullValue} \cup {Known(s) : s \in Scalar}, NEW writeOnly \in BOOLEAN,
                      writeOnly => default = NullValue, member = ScalarAttribute(default, writeOnly)
               PROVE  IsMember(member)
    BY <1>1, DefaultsAssumption DEF ScalarAttributes
  <2>1. member.kind = "scalar" /\ member.default = default /\ member.writeOnly = writeOnly
    BY DEF ScalarAttribute
  <2> QED
    BY <2>1 DEF IsMember, IsScalarAttribute
<1>2. ASSUME NEW object \in DOMAIN dfSchemas, member \in ObjectAttributes(object) PROVE IsMember(member)
  <2> SUFFICES ASSUME NEW default \in {NullValue} \cup dfSchemas[object].known, NEW writeOnly \in BOOLEAN,
                      writeOnly => default = NullValue, member = ObjectAttribute(object, default, writeOnly)
               PROVE  IsMember(member)
    BY <1>2 DEF ObjectAttributes
  <2>1. /\ member.kind = "object" /\ member.object = object /\ member.default = default
        /\ member.writeOnly = writeOnly
    BY DEF ObjectAttribute
  <2> QED
    BY <2>1 DEF IsMember, IsObjectAttribute
<1>3. ASSUME NEW nesting \in Nestings, NEW schema \in DOMAIN dfSchemas, member = BlockOf(nesting, schema)
      PROVE  IsMember(member)
  <2>1. member.kind = "block" /\ member.nesting = nesting /\ member.schema = schema
    BY <1>3 DEF BlockOf
  <2> QED
    BY <2>1 DEF IsMember, IsBlock
<1>4. CASE member \in UNION {ObjectAttributes(object) : object \in {schema \in DOMAIN dfSchemas : IsObject(schema)}}
  <2>1. PICK object \in DOMAIN dfSchemas : member \in ObjectAttributes(object)
    BY <1>4
  <2> QED
    BY <1>2, <2>1
<1>5. CASE member \in {BlockOf(nesting, schema) : nesting \in Nestings, schema \in DOMAIN dfSchemas}
  <2>1. PICK nesting \in Nestings, schema \in DOMAIN dfSchemas : member = BlockOf(nesting, schema)
    BY <1>5
  <2> QED
    BY <1>3, <2>1
<1> QED
  BY <1>1, <1>4, <1>5 DEF NewMembers

-----------------------------------------------------------------------------
(* Nested blocks.                                                          *)

\* What several blocks are, as a value.
LEMMA NestedValues ==
  ASSUME NEW nested, IsBlock(nested), ~IsSingle(nested), NEW value
  PROVE  value \in MemberValues(nested) <=>
           \/ value = UnknownValue
           \/ /\ value = Known(value.of)
              /\ DOMAIN value.of \in PlacesIn(nested)
              /\ value.of \in [DOMAIN value.of ->
                                 dfSchemas[nested.schema].values \ {NullValue, UnknownValue}]
<1> DEFINE values == dfSchemas[nested.schema].values \ {NullValue, UnknownValue}
           parts == UNION {[places -> values] : places \in PlacesIn(nested)}
<1>1. MemberValues(nested) = {UnknownValue} \cup {Known(p) : p \in parts}
  BY DEF MemberValues, IsBlock
<1>2. ASSUME NEW p \in parts, value = Known(p)
      PROVE  value = Known(value.of) /\ DOMAIN value.of \in PlacesIn(nested) /\ value.of \in [DOMAIN value.of -> values]
  BY <1>2, KindsOfContents
<1>3. ASSUME value = Known(value.of), DOMAIN value.of \in PlacesIn(nested), value.of \in [DOMAIN value.of -> values]
      PROVE  \E p \in parts : value = Known(p)
  BY <1>3
<1> QED
  BY <1>1, <1>2, <1>3

LEMMA ResolveNestedType ==
  ASSUME TablesSound, NEW nested, IsBlock(nested), NEW value \in MemberValues(nested)
  PROVE  /\ ResolveNested(value, nested) \in MemberValues(nested)
         /\ IF IsResolvable(value) THEN IsResolvable(ResolveNested(value, nested))
            ELSE ResolveNested(value, nested) = value
<1> DEFINE table == dfSchemas[nested.schema]
<1>1. TableIsSound(table)
  BY DEF TablesSound, IsBlock
<1>2. CASE IsSingle(nested)
  <2>1. MemberValues(nested) = table.values
    BY <1>2 DEF MemberValues, IsBlock
  <2> QED
    BY <1>1, <1>2, <2>1 DEF TableIsSound, Resolution, ResolveNested
<1>3. CASE ~IsSingle(nested) /\ ~IsResolvable(value)
  BY <1>3 DEF ResolveNested
<1>4. CASE ~IsSingle(nested) /\ IsResolvable(value)
  <2> DEFINE parts == [at \in DOMAIN value.of |-> table.resolved[value.of[at]]]
  <2>1. DOMAIN value.of \in PlacesIn(nested)
        /\ \A at \in DOMAIN value.of : value.of[at] \in table.values \ {NullValue, UnknownValue}
    BY <1>4, NestedValues DEF IsResolvable
  <2>2. \A at \in DOMAIN value.of : table.resolved[value.of[at]] \in table.values \ {NullValue, UnknownValue}
    BY <1>1, <2>1 DEF TableIsSound, Resolution, IsResolvable
  <2>3. ResolveNested(value, nested) = Known(parts)
    BY <1>4 DEF ResolveNested
  <2>4. DOMAIN parts = DOMAIN value.of /\ parts \in [DOMAIN parts -> table.values \ {NullValue, UnknownValue}]
    BY <2>2
  <2> HIDE DEF parts
  <2> QED
    BY <1>4, <2>1, <2>3, <2>4, NestedValues, KindsOfContents
<1> QED
  BY <1>2, <1>3, <1>4

\* Pairs are found when every plan element matches exactly one of the
\* configuration, and no two of them the same.
MatchesOneToOne(plan, config, schema, n, order) ==
  /\ n \in Nat /\ n > 0
  /\ DOMAIN plan = 1..n /\ DOMAIN config = 1..n /\ Len(plan) = n
  /\ order \in [1..n -> 1..n] /\ \A i, j \in 1..n : order[i] = order[j] => i = j
  /\ \A i, j \in 1..n : <<plan[i], config[j]>> \in dfSchemas[schema].matches <=> j = order[i]

LEMMA NumberAfter == \A k \in Nat : k + 1 \in Nat /\ k + 1 # 0 /\ (k + 1) - 1 = k
OBVIOUS

LEMMA AllPairsFound ==
  ASSUME NEW plan, NEW config, NEW schema, NEW n, NEW order, MatchesOneToOne(plan, config, schema, n, order)
  PROVE  PairsFound(plan, config, schema) = {<<i, order[i]>> : i \in 1..n}
<1> USE DEF MatchesOneToOne
<1> DEFINE own == {<<i, order[i]>> : i \in 1..n}
           matching == {pair \in (DOMAIN plan) \X (DOMAIN config) :
                          <<plan[pair[1]], config[pair[2]]>> \in dfSchemas[schema].matches}
           next(found) == found \cup
             UniquePairs(DOMAIN plan \ {pair[1] : pair \in found}, DOMAIN config \ {pair[2] : pair \in found}, matching)
           Equation(f) == f = [k \in Nat |-> IF k = 0 THEN {} ELSE next(f[k - 1])]
<1>1. matching = own
  <2>1. ASSUME NEW pair \in matching PROVE pair \in own
    <3>1. pair \in (1..n) \X (1..n) /\ <<plan[pair[1]], config[pair[2]]>> \in dfSchemas[schema].matches
      BY <2>1
    <3>2. pair[1] \in 1..n /\ pair[2] \in 1..n /\ pair = <<pair[1], pair[2]>>
      BY <3>1
    <3>3. pair[2] = order[pair[1]]
      <4>1. \A i, j \in 1..n : <<plan[i], config[j]>> \in dfSchemas[schema].matches => j = order[i]
        OBVIOUS
      <4> HIDE DEF MatchesOneToOne, own, matching
      <4> QED
        BY <3>1, <3>2, <4>1
    <3>4. pair = <<pair[1], order[pair[1]]>>
      BY <3>2, <3>3
    <3> QED
      BY <3>2, <3>4
  <2>2. ASSUME NEW pair \in own PROVE pair \in matching
    <3>1. PICK i \in 1..n : pair = <<i, order[i]>>
      BY <2>2
    <3>2. order[i] \in 1..n /\ <<plan[i], config[order[i]]>> \in dfSchemas[schema].matches
      OBVIOUS
    <3>3. pair[1] = i /\ pair[2] = order[i] /\ pair \in (DOMAIN plan) \X (DOMAIN config)
      BY <3>1, <3>2
    <3> QED
      BY <3>2, <3>3
  <2> HIDE DEF own, matching
  <2> QED
    BY <2>1, <2>2
<1>2. next({}) = own
  <2>1. DOMAIN plan \ {pair[1] : pair \in {}} = 1..n /\ DOMAIN config \ {pair[2] : pair \in {}} = 1..n
    OBVIOUS
  <2>2. ASSUME NEW pair \in own, NEW other \in own PROVE other[1] = pair[1] <=> other[2] = pair[2]
    <3>1. PICK i \in 1..n : pair = <<i, order[i]>>
      OBVIOUS
    <3>2. PICK j \in 1..n : other = <<j, order[j]>>
      OBVIOUS
    <3> QED
      BY <3>1, <3>2
  <2>3. own \subseteq (1..n) \X (1..n)
    OBVIOUS
  <2> HIDE DEF own, matching
  <2> QED
    BY <1>1, <2>1, <2>2, <2>3 DEF UniquePairs
<1>3. next(own) = own
  <2> HIDE DEF own
  <2> QED
    BY <1>1 DEF UniquePairs
<1>4. \E f : Equation(f)
  <2> DEFINE g == [k \in Nat |-> IF k = 0 THEN {} ELSE own]
  <2> HIDE DEF next, own
  <2>1. ASSUME NEW k \in Nat PROVE g[k] = IF k = 0 THEN {} ELSE next(g[k - 1])
    <3>1. CASE k = 0
      BY <3>1
    <3>2. CASE k = 1
      BY <1>2, <3>2
    <3>3. CASE k > 1
      <4>1. k - 1 \in Nat /\ k - 1 # 0 /\ g[k - 1] = own
        BY <3>3
      <4> QED
        BY <1>3, <3>3, <4>1
    <3> QED
      BY <3>1, <3>2, <3>3
  <2>2. Equation(g)
    BY <2>1
  <2> QED
    BY <2>2
<1> DEFINE rounds == CHOOSE f : Equation(f)
<1>5. Equation(rounds)
  <2> HIDE DEF Equation
  <2> QED
    BY <1>4
<1>6. PairsFound(plan, config, schema) = rounds[n]
  BY Zenon DEF PairsFound
<1> HIDE DEF rounds, next, own, matching
<1>7. \A k \in Nat : rounds[k] = IF k = 0 THEN {} ELSE next(rounds[k - 1])
  BY <1>5
<1> DEFINE P == {k \in Nat : k = 0 \/ rounds[k] = own}
<1>8. P = Nat
  <2>1. 0 \in P
    OBVIOUS
  <2>2. ASSUME NEW k \in P PROVE k + 1 \in P
    <3>1. k + 1 \in Nat /\ k + 1 # 0 /\ (k + 1) - 1 = k
      <4>1. k \in Nat
        BY Zenon
      <4> QED
        BY <4>1, NumberAfter
    <3>2. rounds[k + 1] = next(rounds[k])
      BY <1>7, <3>1
    <3>3. rounds[k] = {} \/ rounds[k] = own
      <4>1. CASE k = 0
        BY <1>7, <4>1
      <4>2. CASE k # 0
        BY <4>2
      <4> QED
        BY <4>1, <4>2
    <3> QED
      BY <1>2, <1>3, <3>1, <3>2, <3>3
  <2> HIDE DEF P
  <2> QED
    BY <2>1, <2>2, InductionOnNumbers DEF P
<1>9. rounds[n] = own
  BY <1>8
<1> QED
  BY <1>6, <1>9 DEF own

LEMMA LengthOfPlaces ==
  ASSUME NEW n \in Nat, NEW S, NEW s \in [1..n -> S]
  PROVE  Len(s) = n /\ DOMAIN s = 1..n
<1>1. s \in Seq(S)
  BY SeqDef
<1> QED
  BY <1>1, LenProperties

LEMMA MergeNestedType ==
  ASSUME TablesSound, NEW nested, IsBlock(nested),
         NEW plan \in MemberValues(nested), NEW config \in MemberValues(nested)
  PROVE  /\ MergeNested(plan, config, nested) \in MemberValues(nested)
         /\ IsResolvable(plan) => IsResolvable(MergeNested(plan, config, nested))
<1> DEFINE table == dfSchemas[nested.schema]
           values == table.values \ {NullValue, UnknownValue}
<1>1. TableIsSound(table)
  BY DEF TablesSound, IsBlock
<1>2. CASE ~IsResolvable(config) \/ ~IsResolvable(plan)
  BY <1>2 DEF MergeNested
<1>3. CASE IsResolvable(config) /\ IsResolvable(plan) /\ IsSingle(nested)
  <2>1. MemberValues(nested) = table.values
    BY <1>3 DEF MemberValues, IsBlock
  <2> QED
    BY <1>1, <1>3, <2>1 DEF TableIsSound, Merging, MergeNested
<1> DEFINE Several == IsResolvable(config) /\ IsResolvable(plan) /\ ~IsSingle(nested)
<1>4. ASSUME Several
      PROVE  /\ DOMAIN plan.of \in PlacesIn(nested)
             /\ \A at \in DOMAIN plan.of : plan.of[at] \in values
             /\ \A at \in DOMAIN config.of : config.of[at] \in values
             /\ \A at \in DOMAIN plan.of, c \in DOMAIN config.of :
                  table.merged[<<plan.of[at], config.of[c]>>] \in values
  <2>1. /\ DOMAIN plan.of \in PlacesIn(nested)
        /\ \A at \in DOMAIN plan.of : plan.of[at] \in values
        /\ \A at \in DOMAIN config.of : config.of[at] \in values
    BY <1>4, NestedValues DEF IsResolvable
  <2> QED
    BY <1>1, <2>1 DEF TableIsSound, Merging, IsResolvable
<1>5. ASSUME NEW parts, DOMAIN parts = DOMAIN plan.of, parts = [at \in DOMAIN parts |-> parts[at]],
             \A at \in DOMAIN parts : parts[at] \in values, Several
      PROVE  Known(parts) \in MemberValues(nested) /\ IsResolvable(Known(parts))
  BY <1>4, <1>5, NestedValues, KindsOfContents
<1>6. CASE Several /\ nested.nesting = "set" /\ Len(plan.of) > 1
  <2> DEFINE parts == MergeSet(plan.of, config.of, nested.schema)
             pairs == PairsFound(plan.of, config.of, nested.schema)
             found(p) == {c \in DOMAIN config.of : <<p, c>> \in pairs}
  <2>1. parts = [p \in DOMAIN plan.of |->
                   IF found(p) = {} THEN plan.of[p]
                   ELSE table.merged[<<plan.of[p], config.of[CHOOSE c \in found(p) : TRUE]>>]]
    BY DEF MergeSet
  <2> HIDE DEF pairs, parts
  <2>2. ASSUME NEW p \in DOMAIN plan.of PROVE parts[p] \in values
    <3>1. CASE found(p) = {}
      BY <1>4, <1>6, <2>1, <3>1
    <3>2. CASE found(p) # {}
      <4> DEFINE c == CHOOSE c \in found(p) : TRUE
      <4>1. c \in found(p)
        BY <3>2
      <4>2. parts[p] = table.merged[<<plan.of[p], config.of[c]>>]
        BY <2>1, <3>2
      <4> QED
        BY <1>4, <1>6, <4>1, <4>2
    <3> QED
      BY <3>1, <3>2
  <2>3. MergeNested(plan, config, nested) = Known(parts)
    BY <1>6 DEF MergeNested, parts
  <2>4. DOMAIN parts = DOMAIN plan.of /\ parts = [at \in DOMAIN parts |-> parts[at]]
    BY <2>1
  <2> QED
    BY <1>5, <1>6, <2>2, <2>3, <2>4
<1>7. CASE Several /\ ~(nested.nesting = "set" /\ Len(plan.of) > 1)
  <2> DEFINE parts == MergeByPlace(plan.of, config.of, nested.schema)
  <2>1. /\ DOMAIN parts = DOMAIN plan.of /\ parts = [at \in DOMAIN parts |-> parts[at]]
        /\ \A at \in DOMAIN parts : parts[at] \in values
    BY <1>4, <1>7 DEF MergeByPlace
  <2>2. MergeNested(plan, config, nested) = Known(parts)
    BY <1>7 DEF MergeNested
  <2> QED
    BY <1>5, <1>7, <2>1, <2>2
<1> QED
  BY <1>2, <1>3, <1>6, <1>7

LEMMA NestedAgreesWithItself ==
  ASSUME TablesSound, NEW nested, IsBlock(nested), NEW value \in MemberValues(nested)
  PROVE  AgreesNested(value, value, nested)
<1> DEFINE table == dfSchemas[nested.schema]
<1>1. TableIsSound(table)
  BY DEF TablesSound, IsBlock
<1>2. CASE ~IsResolvable(value)
  BY <1>2 DEF AgreesNested
<1>3. CASE IsResolvable(value) /\ IsSingle(nested)
  <2>1. value \in table.values
    BY <1>3 DEF MemberValues, IsBlock
  <2> QED
    BY <1>1, <1>3, <2>1 DEF TableIsSound, Merging, AgreesNested
<1>4. CASE IsResolvable(value) /\ ~IsSingle(nested)
  <2>1. \A at \in DOMAIN value.of : value.of[at] \in table.values
    BY <1>4, NestedValues DEF IsResolvable
  <2>2. \A at \in DOMAIN value.of : <<value.of[at], value.of[at]>> \in table.agreeing
    BY <1>1, <2>1 DEF TableIsSound, Merging
  <2> DEFINE same == [at \in DOMAIN value.of |-> at]
  <2>3. /\ same \in [DOMAIN value.of -> DOMAIN value.of]
        /\ \A at \in DOMAIN value.of : same[at] = at
    OBVIOUS
  <2> HIDE DEF same
  <2> QED
    BY <1>4, <2>2, <2>3 DEF AgreesNested
<1> QED
  BY <1>2, <1>3, <1>4

LEMMA ChoicesOf ==
  ASSUME NEW each, NEW f \in Choices(each)
  PROVE  /\ f = [at \in DOMAIN each |-> f[at]] /\ DOMAIN f = DOMAIN each
         /\ \A at \in DOMAIN each : f[at] \in each[at]
BY DEF Choices

LEMMA ChoicesAre ==
  ASSUME NEW each, NEW f, f = [at \in DOMAIN each |-> f[at]], \A at \in DOMAIN each : f[at] \in each[at]
  PROVE  f \in Choices(each)
<1>1. \A at \in DOMAIN each : f[at] \in UNION {each[a] : a \in DOMAIN each}
  OBVIOUS
<1> QED
  BY <1>1 DEF Choices

\* The proposals for the elements of a set, which come in some order.
LEMMA SetOrder ==
  ASSUME NEW config, NEW schema, NEW plan \in SetProposals(config, schema)
  PROVE  /\ DOMAIN plan = DOMAIN config /\ plan = [at \in DOMAIN config |-> plan[at]]
         /\ \A at \in DOMAIN config : \E own \in DOMAIN config :
              plan[at] \in dfSchemas[schema].proposals[config[own]]
<1> DEFINE each == [at \in DOMAIN config |-> dfSchemas[schema].proposals[config[at]]]
           ordered == {[at \in DOMAIN config |-> parts[order[at]]] :
                         order \in Orders(DOMAIN config), parts \in Choices(each)}
<1>1. SetProposals(config, schema) =
        {proposal \in ordered : \A i, j \in DOMAIN proposal : proposal[i] = proposal[j] => i = j}
  BY DEF SetProposals
<1> HIDE DEF each
<1>o. plan \in ordered
  <2> HIDE DEF ordered
  <2> QED
    BY <1>1
<1>2. PICK order \in Orders(DOMAIN config), parts \in Choices(each) :
        plan = [at \in DOMAIN config |-> parts[order[at]]]
  BY <1>o
<1>3. \A at \in DOMAIN config :
        order[at] \in DOMAIN config /\ each[order[at]] = dfSchemas[schema].proposals[config[order[at]]]
  BY DEF Orders, each
<1>4. \A at \in DOMAIN config : parts[order[at]] \in each[order[at]]
  BY <1>3, ChoicesOf DEF each
<1> QED
  BY <1>2, <1>3, <1>4

LEMMA SetProposalsAreValues ==
  ASSUME TablesSound, NEW nested, IsBlock(nested), nested.nesting = "set",
         NEW config \in MemberValues(nested), IsResolvable(config),
         NEW parts \in SetProposals(config.of, nested.schema)
  PROVE  Known(parts) \in MemberValues(nested)
<1> DEFINE table == dfSchemas[nested.schema]
           values == table.values \ {NullValue, UnknownValue}
           places == DOMAIN config.of
<1>1. TableIsSound(table)
  BY DEF TablesSound, IsBlock
<1>2. ~IsSingle(nested)
  BY DEF IsSingle
<1>3. places \in PlacesIn(nested) /\ \A at \in places : config.of[at] \in values
  BY <1>2, NestedValues DEF IsResolvable
<1>4. DOMAIN parts = places /\ parts = [at \in places |-> parts[at]]
  BY SetOrder
<1>5. \A at \in places : \E own \in places : parts[at] \in table.proposals[config.of[own]]
  BY SetOrder
<1>6. \A at \in places : parts[at] \in values
  BY <1>1, <1>3, <1>5 DEF TableIsSound, Proposing, IsResolvable
<1>7. parts \in [DOMAIN parts -> values] /\ DOMAIN parts \in PlacesIn(nested)
  BY <1>3, <1>4, <1>6
<1> HIDE DEF values
<1> QED
  BY <1>2, <1>7, NestedValues, KindsOfContents DEF values

LEMMA SetAgrees ==
  ASSUME TablesSound, NEW nested, IsBlock(nested), nested.nesting = "set",
         NEW config \in MemberValues(nested), IsResolvable(config),
         NEW parts \in SetProposals(config.of, nested.schema),
         PairableNested(Known(parts), config, nested)
  PROVE  AgreesNested(MergeNested(Known(parts), ResolveNested(config, nested), nested),
                      ResolveNested(config, nested), nested)
<1> DEFINE table == dfSchemas[nested.schema]
           values == table.values \ {NullValue, UnknownValue}
           places == DOMAIN config.of
           effective == [at \in places |-> table.resolved[config.of[at]]]
<1>1. TableIsSound(table)
  BY DEF TablesSound, IsBlock
<1>2. ~IsSingle(nested)
  BY DEF IsSingle
<1>3. PICK n \in 0..MaxLength : places = 1..n /\ config.of \in [1..n -> values]
  <2>1. places \in PlacesIn(nested) /\ config.of \in [places -> values]
    BY <1>2, NestedValues DEF IsResolvable
  <2>2. PICK n \in 0..MaxLength : places = 1..n
    BY <2>1 DEF PlacesIn
  <2> QED
    BY <2>1, <2>2
<1>4. n \in Nat /\ Len(config.of) = n
  BY <1>3, LengthOfPlaces, CtyAssumption
<1>5. DOMAIN parts = 1..n /\ parts = [at \in 1..n |-> parts[at]]
  <2>1. DOMAIN config.of = 1..n
    BY <1>3
  <2> HIDE DEF places
  <2> QED
    BY <2>1, SetOrder
<1>p. PICK order \in Orders(1..n) :
        /\ \A at \in 1..n : <<parts[at], config.of[order[at]]>> \in table.pairable
        /\ n > 1 => \A at \in 1..n : <<parts[at], config.of[order[at]]>> \in table.fresh
        /\ n > 1 => CanBePaired(config.of, nested.schema)
  <2>1. Known(parts).of = parts
    BY KindsOfContents
  <2>2. CASE n > 1
    <3>1. PairableSet(parts, config.of, nested.schema)
      BY <1>2, <1>4, <2>1, <2>2 DEF PairableNested
    <3> QED
      BY <1>3, <2>2, <3>1 DEF PairableSet
  <2>3. CASE ~(n > 1)
    <3> DEFINE same == [at \in 1..n |-> at]
    <3>1. \A at \in 1..n : <<parts[at], config.of[at]>> \in table.pairable
      BY <1>2, <1>3, <1>4, <2>1, <2>3 DEF PairableNested
    <3>2. same \in Orders(1..n) /\ \A at \in 1..n : same[at] = at
      BY DEF Orders
    <3> HIDE DEF same
    <3> QED
      BY <2>3, <3>1, <3>2
  <2> QED
    BY <2>2, <2>3
<1>o. /\ order \in [1..n -> 1..n] /\ \A i, j \in 1..n : order[i] = order[j] => i = j
      /\ \A at \in 1..n : parts[at] \in table.proposals[config.of[order[at]]]
      /\ n > 1 => \A at \in 1..n : <<parts[at], config.of[order[at]]>> \in table.fresh
      /\ n > 1 => \A i, j \in 1..n :
           i # j => <<table.resolved[config.of[i]], table.resolved[config.of[j]]>> \in table.apart
  <2>1. order \in [1..n -> 1..n] /\ \A i, j \in 1..n : order[i] = order[j] => i = j
    BY DEF Orders
  <2>2. \A at \in 1..n : parts[at] \in table.proposals[config.of[order[at]]]
    <3> TAKE at \in 1..n
    <3>1. config.of[order[at]] \in table.values
      BY <1>3, <2>1
    <3> QED
      BY <1>1, <1>p, <3>1 DEF TableIsSound, Proposing
  <2>3. n > 1 => \A i, j \in 1..n :
           i # j => <<table.resolved[config.of[i]], table.resolved[config.of[j]]>> \in table.apart
    BY <1>3, <1>p DEF CanBePaired
  <2> QED
    BY <1>p, <2>1, <2>2, <2>3
<1>6. \A at \in 1..n : /\ parts[at] \in values
                       /\ <<table.merged[<<parts[at], table.resolved[config.of[order[at]]]>>],
                            table.resolved[config.of[order[at]]]>> \in table.agreeing
  <2> TAKE at \in 1..n
  <2>1. order[at] \in 1..n /\ config.of[order[at]] \in values
    BY <1>3, <1>o
  <2> QED
    BY <1>1, <1>o, <1>p, <2>1 DEF TableIsSound, Proposing, IsResolvable
<1>7. parts \in [1..n -> values] /\ Len(parts) = n /\ DOMAIN parts = 1..n
  <2>1. parts \in [1..n -> values]
    BY <1>5, <1>6
  <2> QED
    BY <1>4, <2>1, LengthOfPlaces
<1>9. ResolveNested(config, nested) = Known(effective)
  BY <1>2 DEF ResolveNested
<1>10. /\ DOMAIN effective = 1..n /\ Len(effective) = n
       /\ \A at \in 1..n : effective[at] = table.resolved[config.of[at]]
  <2>1. effective \in [1..n -> {table.resolved[config.of[at]] : at \in 1..n}]
    BY <1>3
  <2>2. Len(effective) = n
    BY <1>4, <2>1, LengthOfPlaces
  <2> QED
    BY <1>3, <2>2
<1> HIDE DEF effective, places
<1> DEFINE merged == [at \in 1..n |-> table.merged[<<parts[at], effective[order[at]]>>]]
<1>11. MergeNested(Known(parts), Known(effective), nested) = Known(merged)
  <2>1. CASE n > 1
    <3>1. \A i, j \in 1..n : <<parts[i], effective[j]>> \in table.matches <=> j = order[i]
      <4> TAKE i, j \in 1..n
      <4>1. /\ order[i] \in 1..n
            /\ config.of[order[i]] \in values /\ config.of[j] \in values
            /\ parts[i] \in table.proposals[config.of[order[i]]]
            /\ <<parts[i], config.of[order[i]]>> \in table.fresh
        BY <1>3, <1>o, <2>1
      <4>2. /\ <<parts[i], table.resolved[config.of[order[i]]]>> \in table.matches
            /\ \A d \in table.values :
                 <<table.resolved[config.of[order[i]]], table.resolved[d]>> \in table.apart =>
                   <<parts[i], table.resolved[d]>> \notin table.matches
        BY <1>1, <4>1 DEF TableIsSound, Pairing, IsResolvable
      <4>3. j # order[i] =>
              <<table.resolved[config.of[order[i]]], table.resolved[config.of[j]]>> \in table.apart
        BY <1>o, <2>1, <4>1
      <4> QED
        BY <1>10, <4>1, <4>2, <4>3
    <3>2. PairsFound(parts, effective, nested.schema) = {<<i, order[i]>> : i \in 1..n}
      <4>1. n > 0 /\ DOMAIN parts = 1..n /\ DOMAIN effective = 1..n /\ Len(parts) = n
        BY <1>7, <1>10, <2>1
      <4>2. order \in [1..n -> 1..n] /\ \A i, j \in 1..n : order[i] = order[j] => i = j
        BY <1>o
      <4>3. \A i, j \in 1..n : <<parts[i], effective[j]>> \in dfSchemas[nested.schema].matches <=> j = order[i]
        BY <3>1
      <4>4. MatchesOneToOne(parts, effective, nested.schema, n, order)
        BY <1>4, <4>1, <4>2, <4>3 DEF MatchesOneToOne
      <4> HIDE DEF table
      <4> QED
        BY <4>4, AllPairsFound
    <3> DEFINE found(p) == {c \in DOMAIN effective : <<p, c>> \in PairsFound(parts, effective, nested.schema)}
    <3>3. \A p \in 1..n : found(p) = {order[p]}
      BY <1>o, <1>10, <3>2
    <3>4. MergeSet(parts, effective, nested.schema)
            = [p \in DOMAIN parts |->
                 IF found(p) = {} THEN parts[p]
                 ELSE table.merged[<<parts[p], effective[CHOOSE c \in found(p) : TRUE]>>]]
      BY DEF MergeSet
    <3> HIDE DEF found
    <3>5. \A p \in 1..n : found(p) # {} /\ (CHOOSE c \in found(p) : TRUE) = order[p]
      BY <3>3
    <3>6. MergeSet(parts, effective, nested.schema) = merged
      BY <1>7, <3>4, <3>5
    <3>7. Len(parts) > 1
      BY <1>7, <2>1
    <3> QED
      BY <1>2, <3>6, <3>7, KindsOfContents DEF MergeNested
  <2>2. CASE ~(n > 1)
    <3>1. \A at \in 1..n : at = 1 /\ order[at] = at
      BY <1>4, <1>o, <2>2
    <3>2. MergeByPlace(parts, effective, nested.schema) = merged
      BY <1>7, <1>10, <3>1 DEF MergeByPlace
    <3>3. ~(Len(parts) > 1)
      BY <1>7, <2>2
    <3> QED
      BY <1>2, <3>2, <3>3, KindsOfContents DEF MergeNested
  <2> QED
    BY <2>1, <2>2
<1>12. /\ DOMAIN merged = 1..n /\ Len(merged) = n
       /\ \A at \in 1..n : <<merged[at], effective[order[at]]>> \in table.agreeing
  <2>1. merged \in [1..n -> {merged[at] : at \in 1..n}]
    OBVIOUS
  <2>2. Len(merged) = n
    <3> HIDE DEF merged
    <3> QED
      BY <1>4, <2>1, LengthOfPlaces
  <2>3. \A at \in 1..n : order[at] \in 1..n /\ effective[order[at]] = table.resolved[config.of[order[at]]]
    BY <1>o, <1>10
  <2> QED
    BY <1>6, <2>2, <2>3
<1> HIDE DEF merged
<1>13. AgreesNested(Known(merged), Known(effective), nested)
  <2>1. /\ IsResolvable(Known(merged)) /\ Known(merged).of = merged
        /\ IsResolvable(Known(effective)) /\ Known(effective).of = effective
    BY KindsOfContents
  <2>2. Len(merged) = Len(effective)
    BY <1>10, <1>12
  <2>3. order \in [DOMAIN merged -> DOMAIN effective]
    BY <1>o, <1>10, <1>12
  <2>4. \A p, q \in DOMAIN merged : order[p] = order[q] => p = q
    BY <1>o, <1>12
  <2>5. \A p \in DOMAIN merged : <<merged[p], effective[order[p]]>> \in dfSchemas[nested.schema].agreeing
    BY <1>12
  <2> QED
    BY <1>2, <2>1, <2>2, <2>3, <2>4, <2>5 DEF AgreesNested
<1> QED
  BY <1>9, <1>11, <1>13

LEMMA NestedProposalsAgree ==
  ASSUME TablesSound, NEW nested, IsBlock(nested), NEW config \in MemberValues(nested),
         NEW plan \in NestedProposals(config, nested)
  PROVE  /\ plan \in MemberValues(nested)
         /\ PairableNested(plan, config, nested) =>
              AgreesNested(MergeNested(plan, ResolveNested(config, nested), nested),
                           ResolveNested(config, nested), nested)
<1> DEFINE table == dfSchemas[nested.schema]
           values == table.values \ {NullValue, UnknownValue}
<1>1. TableIsSound(table)
  BY DEF TablesSound, IsBlock
<1>2. CASE ~IsResolvable(config)
  <2>1. plan = config /\ ResolveNested(config, nested) = config
    BY <1>2 DEF NestedProposals, ResolveNested
  <2> QED
    BY <1>2, <2>1 DEF MergeNested, AgreesNested
<1>3. CASE IsResolvable(config) /\ IsSingle(nested)
  <2>1. MemberValues(nested) = table.values
    BY <1>3 DEF MemberValues, IsBlock
  <2>2. plan \in table.proposals[config] /\ ResolveNested(config, nested) = table.resolved[config]
    BY <1>3 DEF NestedProposals, ResolveNested
  <2>3. plan \in table.values /\ IsResolvable(plan) /\ IsResolvable(table.resolved[config])
    BY <1>1, <1>3, <2>1, <2>2 DEF TableIsSound, Proposing, Resolution
  <2>q. PairableNested(plan, config, nested) => <<plan, config>> \in table.pairable
    BY <1>3 DEF PairableNested, IsResolvable, IsSingle
  <2>4. PairableNested(plan, config, nested) =>
          <<table.merged[<<plan, table.resolved[config]>>], table.resolved[config]>> \in table.agreeing
    BY <1>1, <1>3, <2>1, <2>2, <2>q DEF TableIsSound, Proposing
  <2>5. IsResolvable(table.merged[<<plan, table.resolved[config]>>])
    BY <1>1, <2>1, <2>3 DEF TableIsSound, Resolution, Merging
  <2> QED
    BY <1>3, <2>1, <2>2, <2>3, <2>4, <2>5 DEF MergeNested, AgreesNested
<1>4. CASE IsResolvable(config) /\ nested.nesting = "set"
  <2>1. PICK parts \in SetProposals(config.of, nested.schema) : plan = Known(parts)
    BY <1>4 DEF NestedProposals, IsSingle
  <2> QED
    BY <1>4, <2>1, SetProposalsAreValues, SetAgrees
<1>5. CASE IsResolvable(config) /\ ~IsSingle(nested) /\ nested.nesting # "set"
  <2> DEFINE each == [at \in DOMAIN config.of |-> table.proposals[config.of[at]]]
             effective == [at \in DOMAIN config.of |-> table.resolved[config.of[at]]]
  <2>1. PICK parts \in Choices(each) : plan = Known(parts)
    BY <1>5 DEF NestedProposals
  <2>2. /\ parts = [at \in DOMAIN config.of |-> parts[at]] /\ DOMAIN parts = DOMAIN config.of
        /\ \A at \in DOMAIN config.of : parts[at] \in table.proposals[config.of[at]]
    BY ChoicesOf
  <2>3. /\ DOMAIN config.of \in PlacesIn(nested)
        /\ \A at \in DOMAIN config.of : config.of[at] \in values
    BY <1>5, NestedValues DEF IsResolvable
  <2>4. ASSUME NEW at \in DOMAIN config.of
        PROVE  /\ parts[at] \in values
               /\ <<parts[at], config.of[at]>> \in table.pairable =>
                    <<table.merged[<<parts[at], effective[at]>>], effective[at]>> \in table.agreeing
    <3>1. config.of[at] \in values /\ parts[at] \in table.proposals[config.of[at]]
      BY <2>2, <2>3
    <3> QED
      BY <1>1, <3>1 DEF TableIsSound, Proposing, IsResolvable
  <2>5. plan \in MemberValues(nested)
    <3>1. parts \in [DOMAIN parts -> values]
      BY <2>2, <2>4
    <3> HIDE DEF table
    <3> QED
      BY <1>5, <2>1, <2>2, <2>3, <3>1, NestedValues, KindsOfContents DEF table
  <2>6. ResolveNested(config, nested) = Known(effective)
    BY <1>5 DEF ResolveNested
  <2>7. MergeByPlace(parts, effective, nested.schema)
          = [at \in DOMAIN config.of |-> table.merged[<<parts[at], effective[at]>>]]
    BY <2>2 DEF MergeByPlace
  <2> DEFINE merged == MergeByPlace(parts, effective, nested.schema)
  <2>p. PairableNested(plan, config, nested) =>
          \A at \in DOMAIN config.of : <<parts[at], config.of[at]>> \in table.pairable
    BY <1>5, <2>1, KindsOfContents DEF PairableNested
  <2>8. /\ DOMAIN merged = DOMAIN config.of
        /\ PairableNested(plan, config, nested) =>
             \A at \in DOMAIN config.of : <<merged[at], effective[at]>> \in table.agreeing
    BY <2>4, <2>7, <2>p
  <2>9. DOMAIN effective = DOMAIN config.of
    OBVIOUS
  <2> HIDE DEF merged, effective
  <2>10. MergeNested(Known(parts), Known(effective), nested) = Known(merged)
    BY <1>5, KindsOfContents DEF MergeNested, merged
  <2>11. PairableNested(plan, config, nested) => AgreesNested(Known(merged), Known(effective), nested)
    BY <1>5, <2>8, <2>9, KindsOfContents DEF AgreesNested
  <2> QED
    BY <2>1, <2>5, <2>6, <2>10, <2>11
<1> QED
  BY <1>2, <1>3, <1>4, <1>5

-----------------------------------------------------------------------------
(* Attributes.                                                             *)

IsAttribute(member) == IsScalarAttribute(member) \/ IsObjectAttribute(member)

LEMMA ScalarValues ==
  ASSUME NEW attribute, IsScalarAttribute(attribute)
  PROVE  /\ MemberValues(attribute) = {NullValue, UnknownValue} \cup {Known(scalar) : scalar \in Scalar}
         /\ attribute.default \in MemberValues(attribute) \ {UnknownValue}
<1>1. MemberValues(attribute) = {NullValue, UnknownValue} \cup {Known(scalar) : scalar \in Scalar}
  BY DEF MemberValues, IsScalarAttribute
<1>2. \A scalar \in Scalar : Known(scalar) # UnknownValue
  BY KindsOfContents DEF IsResolvable
<1> QED
  BY <1>1, <1>2, KindsOfContents DEF IsScalarAttribute

LEMMA ObjectAttributeFacts ==
  ASSUME TablesSound, NEW attribute, IsObjectAttribute(attribute)
  PROVE  /\ TableIsSound(dfSchemas[attribute.object])
         /\ MemberValues(attribute) = dfSchemas[attribute.object].values
         /\ attribute.default \in dfSchemas[attribute.object].values
         /\ attribute.default # NullValue => /\ attribute.default \in dfSchemas[attribute.object].known
                                             /\ IsResolvable(attribute.default)
BY DEF TablesSound, IsObjectAttribute, MemberValues, TableIsSound, Resolution, IsResolvable

LEMMA AttributeTypes ==
  ASSUME TablesSound, NEW attribute, IsAttribute(attribute)
  PROVE  /\ \A v \in MemberValues(attribute) : ResolveAttribute(v, attribute) \in MemberValues(attribute)
         /\ \A p, c \in MemberValues(attribute) : MergeAttribute(p, c, attribute) \in MemberValues(attribute)
         /\ \A v \in MemberValues(attribute) : AgreesMember(v, v, attribute)
<1>1. CASE IsScalarAttribute(attribute)
  BY <1>1, ScalarValues DEF IsScalarAttribute, ResolveAttribute, MergeAttribute, AgreesMember, IsResolvable
<1>2. CASE IsObjectAttribute(attribute)
  <2> DEFINE table == dfSchemas[attribute.object]
  <2>1. /\ TableIsSound(table) /\ MemberValues(attribute) = table.values /\ attribute.default \in table.values
        /\ attribute.kind = "object" /\ attribute.writeOnly \in BOOLEAN
    BY <1>2, ObjectAttributeFacts DEF IsObjectAttribute
  <2>2. ASSUME NEW v \in table.values PROVE ResolveAttribute(v, attribute) \in table.values
    BY <2>1 DEF TableIsSound, Resolution, ResolveAttribute
  <2>3. ASSUME NEW p \in table.values, NEW c \in table.values PROVE MergeAttribute(p, c, attribute) \in table.values
    BY <2>1 DEF TableIsSound, Merging, MergeAttribute, IsResolvable
  <2>4. ASSUME NEW v \in table.values PROVE AgreesMember(v, v, attribute)
    BY <2>1 DEF TableIsSound, Merging, AgreesMember
  <2> QED
    BY <2>1, <2>2, <2>3, <2>4
<1> QED
  BY <1>1, <1>2 DEF IsAttribute

\* An attribute's plan, once merged, has what the configuration or else the
\* default gives it.
LEMMA AttributeProposalsAgree ==
  ASSUME TablesSound, NEW attribute, IsAttribute(attribute), NEW config \in MemberValues(attribute),
         NEW plan \in MemberProposals(config, attribute)
  PROVE  /\ plan \in MemberValues(attribute)
         /\ PairableMember(plan, config, attribute) =>
              AgreesMember(MergeAttribute(plan, ResolveAttribute(config, attribute), attribute),
                           ResolveAttribute(config, attribute), attribute)
<1> DEFINE effective == ResolveAttribute(config, attribute)
<1>1. CASE IsScalarAttribute(attribute)
  <2>1. /\ plan \in MemberValues(attribute)
        /\ config # NullValue => plan = config
        /\ attribute.default # UnknownValue
        /\ attribute.kind = "scalar"
    BY <1>1, ScalarValues DEF MemberProposals, IsScalarAttribute
  <2>2. attribute.writeOnly \in BOOLEAN
    BY <1>1 DEF IsScalarAttribute
  <2> QED
    BY <2>1, <2>2 DEF ResolveAttribute, MergeAttribute, AgreesMember, IsResolvable
<1>2. CASE IsObjectAttribute(attribute)
  <2> DEFINE table == dfSchemas[attribute.object]
  <2>1. /\ TableIsSound(table) /\ MemberValues(attribute) = table.values /\ attribute.default \in table.values
        /\ attribute.default # NullValue => attribute.default \in table.known /\ IsResolvable(attribute.default)
        /\ attribute.kind = "object" /\ attribute.writeOnly \in BOOLEAN
    BY <1>2, ObjectAttributeFacts DEF IsObjectAttribute
  <2> HIDE DEF table
  <2>2. CASE attribute.writeOnly
    <3>1. plan \in MemberValues(attribute)
      BY <2>1 DEF MemberProposals, TableIsSound, Proposing, Resolution, table
    <3> QED
      BY <2>1, <2>2, <3>1 DEF AgreesMember
  <2>3. CASE ~attribute.writeOnly /\ config # NullValue
    <3>1. plan \in table.proposals[config] /\ effective = table.resolved[config]
      BY <2>1, <2>3 DEF MemberProposals, ResolveAttribute, table
    <3>p. PairableMember(plan, config, attribute) => <<plan, config>> \in table.pairable
      BY <2>1, <2>3 DEF PairableMember, table
    <3>2. /\ plan \in table.values /\ effective \in table.values
          /\ PairableMember(plan, config, attribute) =>
               <<table.merged[<<plan, effective>>], effective>> \in table.agreeing
          /\ <<effective, effective>> \in table.agreeing
          /\ ~IsResolvable(effective) => plan = effective
      BY <2>1, <3>1, <3>p DEF TableIsSound, Proposing, Resolution, Merging
    <3> HIDE DEF effective
    <3>3. MergeAttribute(plan, effective, attribute) \in {effective, table.merged[<<plan, effective>>]}
      BY <2>1, <2>3, <3>2 DEF MergeAttribute, IsResolvable, table
    <3>4. PairableMember(plan, config, attribute) =>
            <<MergeAttribute(plan, effective, attribute), effective>> \in table.agreeing
      BY <3>2, <3>3
    <3>5. PairableMember(plan, config, attribute) =>
            AgreesMember(MergeAttribute(plan, effective, attribute), effective, attribute)
      BY <2>1, <3>4 DEF AgreesMember, table
    <3> QED
      BY <2>1, <3>2, <3>5 DEF effective
  <2>4. CASE ~attribute.writeOnly /\ config = NullValue /\ attribute.default = NullValue
    <3>1. plan \in MemberValues(attribute) /\ effective = NullValue
      BY <2>1, <2>4 DEF MemberProposals, ResolveAttribute, TableIsSound, Resolution, IsResolvable, table
    <3> QED
      BY <2>1, <3>1 DEF AgreesMember
  <2>5. CASE ~attribute.writeOnly /\ config = NullValue /\ attribute.default # NullValue
    <3>1. plan \in MemberValues(attribute) /\ effective = table.resolved[attribute.default]
      BY <2>1, <2>5 DEF MemberProposals, ResolveAttribute, TableIsSound, Resolution, table
    <3>2. effective \in table.known /\ IsResolvable(effective) /\ <<effective, effective>> \in table.agreeing
      BY <2>1, <2>5, <3>1 DEF TableIsSound, Resolution, Merging
    <3> HIDE DEF effective
    <3>3. MergeAttribute(plan, effective, attribute) = effective
      BY <2>1, <2>5, <3>2 DEF MergeAttribute, IsResolvable, table
    <3>4. AgreesMember(effective, effective, attribute)
      BY <2>1, <3>2 DEF AgreesMember, table
    <3> QED
      BY <3>1, <3>3, <3>4 DEF effective
  <2> QED
    BY <2>1, <2>2, <2>3, <2>4, <2>5
<1> QED
  BY <1>1, <1>2 DEF IsAttribute

\* An attribute of a fresh element matches its own configuration, and none
\* that it can be told apart from.
LEMMA AttributePairs ==
  ASSUME TablesSound, NEW attribute, IsAttribute(attribute), ~attribute.writeOnly,
         NEW config \in MemberValues(attribute), NEW plan \in MemberProposals(config, attribute),
         MemberFresh(plan, config, attribute), IsResolvable(ResolveAttribute(config, attribute))
  PROVE  /\ AttributeMatches(plan, ResolveAttribute(config, attribute), attribute)
         /\ \A other \in MemberValues(attribute) :
              AttributeApart(ResolveAttribute(config, attribute), ResolveAttribute(other, attribute), attribute) =>
                ~AttributeMatches(plan, ResolveAttribute(other, attribute), attribute)
<1> DEFINE effective == ResolveAttribute(config, attribute)
<1>1. CASE IsScalarAttribute(attribute)
  <2>1. config # NullValue => plan = config
    BY <1>1 DEF MemberProposals, IsScalarAttribute
  <2>2. attribute.kind = "scalar" /\ effective = IF config = NullValue THEN attribute.default ELSE config
    BY <1>1 DEF IsScalarAttribute, ResolveAttribute
  <2>3. effective # NullValue
    BY DEF IsResolvable
  <2>4. attribute.default # NullValue /\ config = NullValue => plan \in {NullValue, attribute.default}
    BY <2>2 DEF MemberFresh
  <2> HIDE DEF effective
  <2>5. \A value : AttributeMatches(plan, value, attribute) => value = effective
    BY <2>1, <2>2, <2>3, <2>4 DEF AttributeMatches, DefaultedMatches
  <2>6. AttributeMatches(plan, effective, attribute)
    BY <2>1, <2>2, <2>3, <2>4 DEF AttributeMatches, DefaultedMatches
  <2>7. ASSUME NEW value, AttributeApart(effective, value, attribute) PROVE effective # value
    BY <2>2, <2>7 DEF AttributeApart
  <2> QED
    BY <2>5, <2>6, <2>7 DEF effective
<1>2. CASE IsObjectAttribute(attribute)
  <2> DEFINE table == dfSchemas[attribute.object]
  <2>1. /\ TableIsSound(table) /\ MemberValues(attribute) = table.values /\ attribute.kind = "object"
    BY <1>2, ObjectAttributeFacts DEF IsObjectAttribute
  <2> HIDE DEF table
  <2>2. CASE attribute.default # NullValue
    BY <2>1, <2>2 DEF AttributeMatches, DefaultedMatches, AttributeApart
  <2>3. CASE attribute.default = NullValue
    <3>1. \A v \in table.values : ResolveAttribute(v, attribute) = table.resolved[v]
      BY <2>1, <2>3 DEF ResolveAttribute, table
    <3>2. config # NullValue /\ IsResolvable(config)
      BY <2>1, <3>1 DEF TableIsSound, Resolution, IsResolvable
    <3>3. plan \in table.proposals[config] /\ <<plan, config>> \in table.fresh
      BY <2>1, <2>3, <3>2 DEF MemberProposals, MemberFresh, table
    <3>4. /\ <<plan, table.resolved[config]>> \in table.matches
          /\ \A d \in table.values :
               <<table.resolved[config], table.resolved[d]>> \in table.apart =>
                 <<plan, table.resolved[d]>> \notin table.matches
      BY <2>1, <3>2, <3>3 DEF TableIsSound, Pairing
    <3>5. \A p, v : /\ AttributeMatches(p, v, attribute) <=> <<p, v>> \in table.matches
                    /\ AttributeApart(p, v, attribute) => <<p, v>> \in table.apart
      BY <2>1, <2>3 DEF AttributeMatches, AttributeApart, table
    <3> QED
      BY <2>1, <3>1, <3>4, <3>5
  <2> QED
    BY <2>2, <2>3
<1> QED
  BY <1>1, <1>2 DEF IsAttribute

-----------------------------------------------------------------------------
(* Members.                                                                *)

LEMMA MemberFacts ==
  ASSUME TablesSound, NEW member, IsMember(member)
  PROVE  /\ \A v \in MemberValues(member) : ResolveMember(v, member) \in MemberValues(member)
         /\ \A p, c \in MemberValues(member) : MergeMember(p, c, member) \in MemberValues(member)
         /\ \A v \in MemberValues(member) : AgreesMember(v, v, member)
         /\ \A c \in MemberValues(member) : \A p \in MemberProposals(c, member) :
              /\ p \in MemberValues(member)
              /\ PairableMember(p, c, member) =>
                   AgreesMember(MergeMember(p, ResolveMember(c, member), member), ResolveMember(c, member), member)
<1>1. CASE IsBlock(member)
  <2>1. member.kind = "block"
    BY <1>1 DEF IsBlock
  <2>2. /\ \A v : ResolveMember(v, member) = ResolveNested(v, member)
        /\ \A p, c : MergeMember(p, c, member) = MergeNested(p, c, member)
        /\ \A p, c : AgreesMember(p, c, member) <=> AgreesNested(p, c, member)
        /\ \A c : MemberProposals(c, member) = NestedProposals(c, member)
        /\ \A p, c : PairableMember(p, c, member) <=> PairableNested(p, c, member)
    BY <2>1 DEF ResolveMember, MergeMember, AgreesMember, MemberProposals, PairableMember
  <2> QED
    BY <1>1, <2>2, ResolveNestedType, MergeNestedType, NestedAgreesWithItself, NestedProposalsAgree
<1>2. CASE IsAttribute(member)
  <2>1. member.kind # "block"
    BY <1>2 DEF IsAttribute, IsScalarAttribute, IsObjectAttribute
  <2>2. /\ \A v : ResolveMember(v, member) = ResolveAttribute(v, member)
        /\ \A p, c : MergeMember(p, c, member) = MergeAttribute(p, c, member)
    BY <2>1 DEF ResolveMember, MergeMember
  <2> QED
    BY <1>2, <2>2, AttributeTypes, AttributeProposalsAgree
<1> QED
  BY <1>1, <1>2 DEF IsMember, IsAttribute

-----------------------------------------------------------------------------
(* Whole objects.                                                          *)

MembersDeclared(schema) == \A name \in DOMAIN schema : IsMember(schema[name])

LEMMA ObjectValuesAre ==
  ASSUME NEW schema, NEW value
  PROVE  value \in ObjectValues(schema) <=>
           \/ value \in {NullValue, UnknownValue}
           \/ /\ value = Known(value.of)
              /\ DOMAIN value.of = DOMAIN schema
              /\ value.of = [name \in DOMAIN schema |-> value.of[name]]
              /\ \A name \in DOMAIN schema : value.of[name] \in MemberValues(schema[name])
<1> DEFINE each == [name \in DOMAIN schema |-> MemberValues(schema[name])]
           IsWhole(parts) ==
             /\ DOMAIN parts = DOMAIN schema
             /\ parts = [name \in DOMAIN schema |-> parts[name]]
             /\ \A name \in DOMAIN schema : parts[name] \in MemberValues(schema[name])
<1>1. \A parts \in Choices(each) : IsWhole(parts)
  BY ChoicesOf
<1>2. \A parts : IsWhole(parts) => parts \in Choices(each)
  BY ChoicesAre
<1>3. ObjectValues(schema) = {NullValue, UnknownValue} \cup {Known(parts) : parts \in Choices(each)}
  BY DEF ObjectValues
<1> HIDE DEF each, IsWhole
<1>4. value \in {Known(parts) : parts \in Choices(each)} <=> value = Known(value.of) /\ IsWhole(value.of)
  BY <1>1, <1>2, KindsOfContents
<1> QED
  BY <1>3, <1>4 DEF IsWhole

LEMMA TablesHold ==
  ASSUME NEW schema
  PROVE  /\ Tables(schema).values = ObjectValues(schema)
         /\ Tables(schema).known \subseteq ObjectValues(schema)
         /\ \A v \in ObjectValues(schema) :
              /\ v \in Tables(schema).known <=> IsWhollyKnown(v, schema)
              /\ Tables(schema).resolved[v] = ResolveDefaults(v, schema)
              /\ Tables(schema).proposals[v] = ObjectProposals(v, schema)
         /\ \A p, c \in ObjectValues(schema) :
              /\ Tables(schema).merged[<<p, c>>] = MergeBlock(p, c, schema)
              /\ <<p, c>> \in Tables(schema).matches <=> ElementsMatch(p, c, schema)
              /\ <<p, c>> \in Tables(schema).agreeing <=> Agrees(p, c, schema)
              /\ <<p, c>> \in Tables(schema).apart <=> AreApart(p, c, schema)
              /\ <<p, c>> \in Tables(schema).fresh <=> IsFresh(p, c, schema)
              /\ <<p, c>> \in Tables(schema).pairable <=> p \in ObjectProposals(c, schema) /\ IsPairable(p, c, schema)
         /\ \A p, c : <<p, c>> \in Tables(schema).pairable => p \in ObjectValues(schema)
<1> DEFINE values == ObjectValues(schema)
           pairs == values \X values
           proposals == [v \in values |-> ObjectProposals(v, schema)]
<1>1. /\ Tables(schema).values = values
      /\ Tables(schema).known = {v \in values : IsWhollyKnown(v, schema)}
      /\ Tables(schema).resolved = [v \in values |-> ResolveDefaults(v, schema)]
      /\ Tables(schema).merged = [pair \in pairs |-> MergeBlock(pair[1], pair[2], schema)]
      /\ Tables(schema).matches = {pair \in pairs : ElementsMatch(pair[1], pair[2], schema)}
      /\ Tables(schema).agreeing = {pair \in pairs : Agrees(pair[1], pair[2], schema)}
      /\ Tables(schema).apart = {pair \in pairs : AreApart(pair[1], pair[2], schema)}
      /\ Tables(schema).fresh = {pair \in pairs : IsFresh(pair[1], pair[2], schema)}
      /\ Tables(schema).proposals = proposals
      /\ Tables(schema).pairable = {pair \in pairs : /\ pair[1] \in proposals[pair[2]]
                                                     /\ IsPairable(pair[1], pair[2], schema)}
  BY DEF Tables
<1> HIDE DEF values
<1>2. \A p, c \in values : <<p, c>> \in pairs /\ <<p, c>>[1] = p /\ <<p, c>>[2] = c
  OBVIOUS
<1> QED
  BY <1>1, <1>2 DEF values

\* Whatever is not null, and made of known attributes, stays so with its defaults.
LEMMA KnownWithDefaults ==
  ASSUME TablesSound, NEW schema, MembersDeclared(schema), NEW value \in ObjectValues(schema),
         IsWhollyKnown(value, schema)
  PROVE  IsWhollyKnown(ResolveDefaults(value, schema), schema)
<1>1. CASE ~IsResolvable(value)
  BY <1>1 DEF ResolveDefaults
<1>2. CASE IsResolvable(value)
  <2> DEFINE resolved == [name \in DOMAIN schema |-> ResolveMember(value.of[name], schema[name])]
             IsKnownPart(part, member) ==
               \/ part = NullValue
               \/ member.kind = "scalar" /\ part # UnknownValue
               \/ member.kind = "object" /\ part \in dfSchemas[member.object].known
  <2>1. ResolveDefaults(value, schema) = Known(resolved) /\ DOMAIN value.of = DOMAIN schema
    BY <1>2, ObjectValuesAre DEF ResolveDefaults, IsResolvable
  <2>2. \A name \in DOMAIN schema : IsKnownPart(value.of[name], schema[name])
    BY <1>2 DEF IsWhollyKnown
  <2>3. ASSUME NEW part, NEW member, IsMember(member), IsKnownPart(part, member)
        PROVE  IsKnownPart(ResolveMember(part, member), member)
    <3>1. CASE IsBlock(member)
      BY <2>3, <3>1 DEF IsBlock, ResolveMember, ResolveNested, IsResolvable
    <3>2. CASE IsScalarAttribute(member)
      <4>1. member.default # UnknownValue /\ member.kind = "scalar"
        BY <3>2, ScalarValues DEF IsScalarAttribute
      <4> QED
        BY <2>3, <3>2, <4>1, KindsOfContents DEF IsScalarAttribute, ResolveMember, ResolveAttribute
    <3>3. CASE IsObjectAttribute(member)
      <4> DEFINE table == dfSchemas[member.object]
      <4>1. /\ TableIsSound(table) /\ member.kind = "object" /\ member.writeOnly \in BOOLEAN
            /\ member.default \in {NullValue} \cup table.known
        BY <3>3, ObjectAttributeFacts DEF IsObjectAttribute
      <4> HIDE DEF table
      <4>2. \A v \in {NullValue} \cup table.known :
              table.resolved[v] \in {NullValue} \cup table.known
        BY <4>1 DEF TableIsSound, Resolution, IsResolvable
      <4>3. part \in {NullValue} \cup table.known
        BY <2>3, <4>1 DEF table
      <4> QED
        BY <4>1, <4>2, <4>3 DEF ResolveMember, ResolveAttribute, table
    <3> QED
      BY <2>3, <3>1, <3>2, <3>3 DEF IsMember
  <2>4. \A name \in DOMAIN schema : IsKnownPart(resolved[name], schema[name])
    BY <2>2, <2>3 DEF MembersDeclared
  <2> HIDE DEF resolved
  <2> QED
    BY <2>1, <2>4, KindsOfContents DEF IsWhollyKnown, IsResolvable
<1> QED
  BY <1>1, <1>2

LEMMA ObjectResolution ==
  ASSUME TablesSound, NEW schema, MembersDeclared(schema)
  PROVE  Resolution(Tables(schema))
<1>1. NullValue \in ObjectValues(schema) /\ UnknownValue \in ObjectValues(schema)
  BY ObjectValuesAre
<1>2. ~IsWhollyKnown(UnknownValue, schema)
  BY DEF IsWhollyKnown
<1>3. ASSUME NEW v \in ObjectValues(schema)
      PROVE  /\ ResolveDefaults(v, schema) \in ObjectValues(schema)
             /\ IF IsResolvable(v) THEN IsResolvable(ResolveDefaults(v, schema)) ELSE ResolveDefaults(v, schema) = v
  <2>1. CASE ~IsResolvable(v)
    BY <2>1 DEF ResolveDefaults
  <2>2. CASE IsResolvable(v)
    <3> DEFINE resolved == [name \in DOMAIN schema |-> ResolveMember(v.of[name], schema[name])]
    <3>1. ResolveDefaults(v, schema) = Known(resolved)
      BY <2>2 DEF ResolveDefaults
    <3>2. \A name \in DOMAIN schema : v.of[name] \in MemberValues(schema[name])
      BY <2>2, ObjectValuesAre DEF IsResolvable
    <3>3. \A name \in DOMAIN schema : resolved[name] \in MemberValues(schema[name])
      BY <3>2, MemberFacts DEF MembersDeclared
    <3>4. DOMAIN resolved = DOMAIN schema /\ resolved = [name \in DOMAIN schema |-> resolved[name]]
      OBVIOUS
    <3> HIDE DEF resolved
    <3> QED
      BY <2>2, <3>1, <3>3, <3>4, ObjectValuesAre, KindsOfContents
  <2> QED
    BY <2>1, <2>2
<1> QED
  BY <1>1, <1>2, <1>3, TablesHold, KnownWithDefaults DEF Resolution

LEMMA MergedObjects ==
  ASSUME TablesSound, NEW schema, MembersDeclared(schema),
         NEW p \in ObjectValues(schema), NEW c \in ObjectValues(schema)
  PROVE  /\ MergeBlock(p, c, schema) \in ObjectValues(schema)
         /\ IsResolvable(p) => IsResolvable(MergeBlock(p, c, schema))
<1>1. CASE ~IsResolvable(p) \/ ~IsResolvable(c)
  BY <1>1 DEF MergeBlock
<1>2. CASE IsResolvable(p) /\ IsResolvable(c)
  <2> DEFINE merged == [name \in DOMAIN schema |-> MergeMember(p.of[name], c.of[name], schema[name])]
  <2>1. MergeBlock(p, c, schema) = Known(merged)
    BY <1>2 DEF MergeBlock
  <2>2. \A name \in DOMAIN schema : p.of[name] \in MemberValues(schema[name]) /\ c.of[name] \in MemberValues(schema[name])
    BY <1>2, ObjectValuesAre DEF IsResolvable
  <2>3. \A name \in DOMAIN schema : merged[name] \in MemberValues(schema[name])
    BY <2>2, MemberFacts DEF MembersDeclared
  <2>4. DOMAIN merged = DOMAIN schema /\ merged = [name \in DOMAIN schema |-> merged[name]]
    OBVIOUS
  <2> HIDE DEF merged
  <2> QED
    BY <2>1, <2>3, <2>4, ObjectValuesAre, KindsOfContents
<1> QED
  BY <1>1, <1>2

LEMMA ObjectMerging ==
  ASSUME TablesSound, NEW schema, MembersDeclared(schema)
  PROVE  Merging(Tables(schema))
<1>1. ASSUME NEW p \in ObjectValues(schema), NEW c \in ObjectValues(schema)
      PROVE  /\ MergeBlock(p, c, schema) \in ObjectValues(schema)
             /\ IsResolvable(p) => IsResolvable(MergeBlock(p, c, schema))
  BY MergedObjects
<1>2. ASSUME NEW v \in ObjectValues(schema) PROVE Agrees(v, v, schema)
  <2>1. CASE ~IsResolvable(v)
    BY <2>1 DEF Agrees
  <2>2. CASE IsResolvable(v)
    <3>1. \A name \in DOMAIN schema : v.of[name] \in MemberValues(schema[name])
      BY <2>2, ObjectValuesAre DEF IsResolvable
    <3>2. \A name \in DOMAIN schema : AgreesMember(v.of[name], v.of[name], schema[name])
      BY <3>1, MemberFacts DEF MembersDeclared
    <3> QED
      BY <2>2, <3>2 DEF Agrees
  <2> QED
    BY <2>1, <2>2
<1> QED
  BY <1>1, <1>2, TablesHold DEF Merging

\* What is proposed for an object is made of what is proposed for its members.
LEMMA ObjectProposalsAre ==
  ASSUME TablesSound, NEW schema, MembersDeclared(schema), NEW config \in ObjectValues(schema),
         NEW plan \in ObjectProposals(config, schema)
  PROVE  /\ plan \in ObjectValues(schema)
         /\ IF IsResolvable(config) THEN IsResolvable(plan) ELSE plan = config
         /\ IsResolvable(config) => \A name \in DOMAIN schema :
              /\ config.of[name] \in MemberValues(schema[name])
              /\ plan.of[name] \in MemberProposals(config.of[name], schema[name])
<1>1. CASE ~IsResolvable(config)
  BY <1>1 DEF ObjectProposals
<1>2. CASE IsResolvable(config)
  <2> DEFINE each == [name \in DOMAIN schema |-> MemberProposals(config.of[name], schema[name])]
  <2>1. PICK parts \in Choices(each) : plan = Known(parts)
    BY <1>2 DEF ObjectProposals
  <2>2. /\ DOMAIN parts = DOMAIN schema /\ parts = [name \in DOMAIN schema |-> parts[name]]
        /\ \A name \in DOMAIN schema : parts[name] \in MemberProposals(config.of[name], schema[name])
    BY ChoicesOf
  <2>3. \A name \in DOMAIN schema : config.of[name] \in MemberValues(schema[name])
    BY <1>2, ObjectValuesAre DEF IsResolvable
  <2>4. \A name \in DOMAIN schema : parts[name] \in MemberValues(schema[name])
    BY <2>2, <2>3, MemberFacts DEF MembersDeclared
  <2> HIDE DEF each
  <2> QED
    BY <1>2, <2>1, <2>2, <2>3, <2>4, ObjectValuesAre, KindsOfContents
<1> QED
  BY <1>1, <1>2

LEMMA ObjectProposing ==
  ASSUME TablesSound, NEW schema, MembersDeclared(schema)
  PROVE  Proposing(Tables(schema))
<1> DEFINE table == Tables(schema)
<1>1. ASSUME NEW c \in ObjectValues(schema), NEW p \in ObjectProposals(c, schema), IsPairable(p, c, schema)
      PROVE  Agrees(MergeBlock(p, ResolveDefaults(c, schema), schema), ResolveDefaults(c, schema), schema)
  <2>1. CASE ~IsResolvable(c)
    BY <1>1, <2>1, ObjectProposalsAre DEF ResolveDefaults, MergeBlock, Agrees
  <2>2. CASE IsResolvable(c)
    <3> DEFINE effective == [name \in DOMAIN schema |-> ResolveMember(c.of[name], schema[name])]
               merged == [name \in DOMAIN schema |-> MergeMember(p.of[name], effective[name], schema[name])]
    <3>1. ResolveDefaults(c, schema) = Known(effective)
      BY <2>2 DEF ResolveDefaults
    <3>2. MergeBlock(p, Known(effective), schema) = Known(merged)
      <4>1. IsResolvable(p)
        BY <1>1, <2>2, ObjectProposalsAre
      <4> HIDE DEF effective
      <4> QED
        BY <4>1, KindsOfContents DEF MergeBlock
    <3>3. \A name \in DOMAIN schema :
            /\ c.of[name] \in MemberValues(schema[name])
            /\ p.of[name] \in MemberProposals(c.of[name], schema[name])
            /\ PairableMember(p.of[name], c.of[name], schema[name])
      BY <1>1, <2>2, ObjectProposalsAre DEF IsPairable
    <3>4. \A name \in DOMAIN schema : AgreesMember(merged[name], effective[name], schema[name])
      BY <3>3, MemberFacts DEF MembersDeclared
    <3> HIDE DEF effective, merged
    <3> QED
      BY <3>1, <3>2, <3>4, KindsOfContents DEF Agrees
  <2> QED
    BY <2>1, <2>2
<1>2. ASSUME NEW c \in ObjectValues(schema), NEW p \in ObjectProposals(c, schema)
      PROVE  /\ p \in ObjectValues(schema)
             /\ IF IsResolvable(c) THEN IsResolvable(p) ELSE p = c
             /\ <<p, c>> \in table.pairable =>
                  <<table.merged[<<p, table.resolved[c]>>], table.resolved[c]>> \in table.agreeing
  <2>1. /\ p \in ObjectValues(schema)
        /\ IF IsResolvable(c) THEN IsResolvable(p) ELSE p = c
    BY <1>2, ObjectProposalsAre
  <2>2. ResolveDefaults(c, schema) \in ObjectValues(schema)
    BY ObjectResolution, TablesHold DEF Resolution
  <2>3. MergeBlock(p, ResolveDefaults(c, schema), schema) \in ObjectValues(schema)
    BY <2>1, <2>2, MergedObjects
  <2> QED
    BY <1>1, <1>2, <2>1, <2>2, <2>3, TablesHold
<1>3. \A c \in ObjectValues(schema) : table.proposals[c] = ObjectProposals(c, schema)
  BY TablesHold
<1>4. table.values = ObjectValues(schema)
  BY TablesHold
<1>p. \A c \in ObjectValues(schema) : \A p : <<p, c>> \in table.pairable => p \in ObjectProposals(c, schema)
  BY TablesHold
<1> HIDE DEF table
<1>5. ASSUME NEW c \in table.values
      PROVE  /\ table.proposals[c] \subseteq table.values
             /\ \A p \in table.proposals[c] :
                  /\ IF IsResolvable(c) THEN IsResolvable(p) ELSE p = c
                  /\ <<p, c>> \in table.pairable =>
                       <<table.merged[<<p, table.resolved[c]>>], table.resolved[c]>> \in table.agreeing
             /\ \A p : <<p, c>> \in table.pairable => p \in table.proposals[c]
  <2>1. c \in ObjectValues(schema) /\ table.proposals[c] = ObjectProposals(c, schema)
    BY <1>3, <1>4, <1>5
  <2>2. ASSUME NEW p \in ObjectProposals(c, schema)
        PROVE  /\ p \in table.values
               /\ IF IsResolvable(c) THEN IsResolvable(p) ELSE p = c
               /\ <<p, c>> \in table.pairable =>
                    <<table.merged[<<p, table.resolved[c]>>], table.resolved[c]>> \in table.agreeing
    BY <1>2, <1>4, <2>1, <2>2
  <2>3. \A p : <<p, c>> \in table.pairable => p \in table.proposals[c]
    BY <1>p, <2>1
  <2> QED
    BY <2>1, <2>2, <2>3
<1>6. Proposing(table)
  BY <1>5 DEF Proposing
<1> QED
  BY <1>6 DEF table

LEMMA ObjectPairing ==
  ASSUME TablesSound, NEW schema, MembersDeclared(schema)
  PROVE  Pairing(Tables(schema))
<1>1. ASSUME NEW c \in ObjectValues(schema), NEW p \in ObjectProposals(c, schema),
             IsResolvable(c), IsFresh(p, c, schema), NEW name \in DOMAIN schema,
             schema[name].kind # "block", ~schema[name].writeOnly,
             IsResolvable(ResolveDefaults(c, schema).of[name])
      PROVE  /\ AttributeMatches(p.of[name], ResolveDefaults(c, schema).of[name], schema[name])
             /\ \A d \in ObjectValues(schema) :
                  IsResolvable(d)
                  /\ AttributeApart(ResolveDefaults(c, schema).of[name], ResolveDefaults(d, schema).of[name], schema[name]) =>
                    ~AttributeMatches(p.of[name], ResolveDefaults(d, schema).of[name], schema[name])
  <2> DEFINE attribute == schema[name]
  <2>1. IsAttribute(attribute)
    BY <1>1 DEF MembersDeclared, IsMember, IsBlock, IsAttribute
  <2>2. ASSUME NEW v \in ObjectValues(schema), IsResolvable(v)
        PROVE  /\ v.of[name] \in MemberValues(attribute)
               /\ ResolveDefaults(v, schema).of[name] = ResolveAttribute(v.of[name], attribute)
    <3>1. v.of[name] \in MemberValues(attribute)
      BY <1>1, <2>2, ObjectValuesAre DEF IsResolvable
    <3>2. ResolveDefaults(v, schema).of = [n \in DOMAIN schema |-> ResolveMember(v.of[n], schema[n])]
      BY <2>2, KindsOfContents DEF ResolveDefaults
    <3>3. ResolveMember(v.of[name], attribute) = ResolveAttribute(v.of[name], attribute)
      BY <1>1 DEF ResolveMember
    <3> QED
      BY <1>1, <3>1, <3>2, <3>3
  <2>3. p.of[name] \in MemberProposals(c.of[name], attribute) /\ MemberFresh(p.of[name], c.of[name], attribute)
    BY <1>1, ObjectProposalsAre DEF IsFresh
  <2> HIDE DEF attribute
  <2>4. ~attribute.writeOnly
    BY <1>1 DEF attribute
  <2>5. /\ AttributeMatches(p.of[name], ResolveAttribute(c.of[name], attribute), attribute)
        /\ \A other \in MemberValues(attribute) :
             AttributeApart(ResolveAttribute(c.of[name], attribute), ResolveAttribute(other, attribute), attribute) =>
               ~AttributeMatches(p.of[name], ResolveAttribute(other, attribute), attribute)
    BY <1>1, <2>1, <2>2, <2>3, <2>4, AttributePairs
  <2> QED
    BY <1>1, <2>2, <2>5 DEF attribute
<1>2. ASSUME NEW c \in ObjectValues(schema), NEW p \in ObjectProposals(c, schema),
             IsResolvable(c), IsFresh(p, c, schema)
      PROVE  /\ ElementsMatch(p, ResolveDefaults(c, schema), schema)
             /\ \A d \in ObjectValues(schema) :
                  AreApart(ResolveDefaults(c, schema), ResolveDefaults(d, schema), schema) =>
                    ~ElementsMatch(p, ResolveDefaults(d, schema), schema)
  <2>1. IsResolvable(p) /\ IsResolvable(ResolveDefaults(c, schema))
    BY <1>2, ObjectProposalsAre, KindsOfContents DEF ResolveDefaults
  <2>2. ElementsMatch(p, ResolveDefaults(c, schema), schema)
    BY <1>1, <1>2, <2>1 DEF ElementsMatch
  <2>3. ASSUME NEW d \in ObjectValues(schema),
               AreApart(ResolveDefaults(c, schema), ResolveDefaults(d, schema), schema)
        PROVE  ~ElementsMatch(p, ResolveDefaults(d, schema), schema)
    <3>1. IsResolvable(d)
      BY <2>3 DEF AreApart, ResolveDefaults
    <3>2. PICK name \in DOMAIN schema :
            AttributeApart(ResolveDefaults(c, schema).of[name], ResolveDefaults(d, schema).of[name], schema[name])
      BY <2>3 DEF AreApart
    <3>3. /\ schema[name].kind # "block" /\ ~schema[name].writeOnly
          /\ IsResolvable(ResolveDefaults(c, schema).of[name]) /\ IsResolvable(ResolveDefaults(d, schema).of[name])
      BY <3>2 DEF AttributeApart
    <3>4. ~AttributeMatches(p.of[name], ResolveDefaults(d, schema).of[name], schema[name])
      BY <1>1, <1>2, <2>3, <3>1, <3>2, <3>3
    <3> QED
      BY <3>3, <3>4 DEF ElementsMatch
  <2> QED
    BY <2>2, <2>3
<1>3. ASSUME NEW c \in ObjectValues(schema), NEW p \in ObjectProposals(c, schema), IsResolvable(c),
             <<p, c>> \in Tables(schema).fresh
      PROVE  /\ <<p, Tables(schema).resolved[c]>> \in Tables(schema).matches
             /\ \A d \in ObjectValues(schema) :
                  <<Tables(schema).resolved[c], Tables(schema).resolved[d]>> \in Tables(schema).apart =>
                    <<p, Tables(schema).resolved[d]>> \notin Tables(schema).matches
  <2>1. p \in ObjectValues(schema)
    BY <1>3, ObjectProposalsAre
  <2>2. \A v \in ObjectValues(schema) :
          Tables(schema).resolved[v] = ResolveDefaults(v, schema) /\ ResolveDefaults(v, schema) \in ObjectValues(schema)
    BY ObjectResolution, TablesHold DEF Resolution
  <2>3. IsFresh(p, c, schema)
    BY <1>3, <2>1, TablesHold
  <2> QED
    BY <1>2, <1>3, <2>1, <2>2, <2>3, TablesHold
<1> QED
  BY <1>3, TablesHold DEF Pairing

-----------------------------------------------------------------------------
(* The machine.                                                            *)

LEMMA TablesAreSound ==
  ASSUME TablesSound, NEW schema \in NewSchemas
  PROVE  TableIsSound(Tables(schema))
<1>1. MembersDeclared(schema)
  BY NewMembersAreMembers DEF NewSchemas, MembersDeclared
<1> QED
  BY <1>1, ObjectResolution, ObjectMerging, ObjectProposing, ObjectPairing DEF TableIsSound

\* In a plan, at every depth, an attribute the configuration omits has its default
\* and every other one what is configured, for every schema: whatever Terraform
\* proposed, and in a set of several elements where the configuration tells them
\* apart and nothing but null or the default was proposed where one is due.
THEOREM DefaultsArrive == DfSpec => []DefaultsReachPlan
<1> USE DEF DfInv
<1>1. DfInit => DfInv
  BY DEF DfInit, CaseIsSound
<1>2. DfInv /\ [DfNext]_dfVars => DfInv'
  <2> SUFFICES ASSUME DfInv, [DfNext]_dfVars PROVE DfInv'
    OBVIOUS
  <2>1. TablesSound
    BY DEF TablesSound
  <2>2. CASE DeclareSchema
    <3>1. PICK schema \in NewSchemas : dfSchemas' = WithEntry(dfSchemas, schema, Tables(schema))
      BY <2>2 DEF DeclareSchema
    <3>2. TableIsSound(Tables(schema))
      BY <2>1, TablesAreSound
    <3> DEFINE table == Tables(schema)
    <3> HIDE DEF table
    <3>3. dfSchemas' = [k \in DOMAIN dfSchemas \cup {schema} |-> IF k = schema THEN table ELSE dfSchemas[k]]
      BY <3>1 DEF WithEntry, table
    <3>4. \A k \in DOMAIN dfSchemas' : TableIsSound(dfSchemas'[k])
      <4>1. TableIsSound(table)
        BY <3>2 DEF table
      <4> QED
        BY <3>3, <4>1
    <3>5. (\A k \in DOMAIN dfSchemas : TableIsSound(dfSchemas[k]))'
      BY <3>4 DEF TableIsSound, Resolution, Merging, Proposing, Pairing, IsResolvable
    <3>6. dfCase = NoCase /\ dfCase' = NoCase
      BY <2>2 DEF DeclareSchema, NoCase
    <3> QED
      BY <3>5, <3>6 DEF CaseIsSound, NoCase
  <2>3. CASE PlanNested
    <3>1. dfNewest \in DOMAIN dfSchemas /\ dfSchemas' = dfSchemas
      BY <2>3 DEF PlanNested
    <3>2. PICK nesting \in Nestings :
            \E config \in MemberValues(BlockOf(nesting, dfNewest)) :
              dfCase' = [planned |-> TRUE, nested |-> BlockOf(nesting, dfNewest), config |-> config,
                         effective |-> ResolveNested(config, BlockOf(nesting, dfNewest)),
                         answers |->
                           {[plan |-> MergeNested(proposal, ResolveNested(config, BlockOf(nesting, dfNewest)),
                                                  BlockOf(nesting, dfNewest)),
                             paired |-> PairableNested(proposal, config, BlockOf(nesting, dfNewest))] :
                              proposal \in NestedProposals(config, BlockOf(nesting, dfNewest))}]
      BY <2>3, Zenon DEF PlanNested
    <3> DEFINE nested == BlockOf(nesting, dfNewest)
    <3>3. PICK config \in MemberValues(nested) :
            dfCase' = [planned |-> TRUE, nested |-> nested, config |-> config,
                       effective |-> ResolveNested(config, nested),
                       answers |-> {[plan |-> MergeNested(proposal, ResolveNested(config, nested), nested),
                                     paired |-> PairableNested(proposal, config, nested)] :
                                      proposal \in NestedProposals(config, nested)}]
      BY <3>2
    <3>4. IsBlock(nested)
      BY <3>1 DEF IsBlock, BlockOf
    <3> HIDE DEF nested
    <3>5. \A proposal \in NestedProposals(config, nested) :
            PairableNested(proposal, config, nested) =>
              AgreesNested(MergeNested(proposal, ResolveNested(config, nested), nested),
                           ResolveNested(config, nested), nested)
      BY <2>1, <3>4, NestedProposalsAgree
    <3>6. /\ dfCase'.planned
          /\ \A answer \in dfCase'.answers :
               answer.paired => AgreesNested(answer.plan, dfCase'.effective, dfCase'.nested)
      BY <3>3, <3>5
    <3>7. CaseIsSound'
      BY <3>1, <3>6 DEF CaseIsSound, AgreesNested
    <3> QED
      BY <3>1, <3>7 DEF TableIsSound, Resolution, Merging, Proposing, Pairing
  <2>4. CASE UNCHANGED dfVars
    <3>1. dfSchemas' = dfSchemas /\ dfCase' = dfCase
      BY <2>4 DEF dfVars
    <3>2. CaseIsSound'
      BY <3>1 DEF CaseIsSound, AgreesNested, NoCase
    <3> QED
      BY <3>1, <3>2 DEF TableIsSound, Resolution, Merging, Proposing, Pairing
  <2> QED
    BY <2>2, <2>3, <2>4 DEF DfNext
<1>3. DfInv => DefaultsReachPlan
  BY DEF CaseIsSound, NoCase, DefaultsReachPlan
<1> QED
  BY <1>1, <1>2, <1>3, PTL DEF DfSpec
=============================================================================
