--------------------------- MODULE ResourceRpcProofs ---------------------------
(***************************************************************************)
(* Proofs about ResourceRpc for any schema, configurations, private states *)
(* and plan hooks: its type invariant and its properties.                  *)
(*                                                                         *)
(* A handler keeps nothing, so what there is to know between two steps is  *)
(* what a pending answer says about the world and the record (IInv), and   *)
(* how plan, configuration and record are related (FInv).                  *)
(***************************************************************************)
EXTENDS ResourceRpc, TLAPS

Planning == {"plan", "replan", "finalplan"}

\* Private state belongs to an object on record, and an import starts without one.
PrivateHasObject ==
  /\ state = Absent => private = NoPrivate
  /\ at = "import" => state = Absent

\* If the plan hook hands the private state on, the plan to be applied carries it.
PlanCarriesPrivate ==
  author.keeps /\ private # NoPrivate /\ at = "apply" /\ plan # Absent => planned # NoPrivate

\* An object Terraform has no record of was reported, or is about to be with an answer to apply.
Tracked ==
  world # Absent /\ state = Absent => told \/ (at = "apply" /\ reply # NoReply)

\* What an answer r may say to the call under way when the world is w: it is known unless it is
\* a plan, says of an object that it is gone only when it is, carries the private state, is
\* accepted as a plan, and keeps the plan as an apply result.
Truthful(r, w) ==
  /\ at \in Calls /\ r.status # "none"
  /\ at \notin Planning => r.state \in Object \cup {Absent}
  /\ at = "apply" => r.status # "deferred"
  /\ r.status = "ok" =>
       /\ at = "import" => r.state # Absent
       /\ at = "read" => (r.state = Absent => w = Absent) /\ r.private = private
       /\ at = "destroy" => w = Absent
       /\ at = "apply" /\ plan = Absent => w = Absent /\ r.private = NoPrivate
       /\ at \in {"finalplan", "apply"} /\ r.state # Absent /\ author.keeps /\ private # NoPrivate =>
            r.private # NoPrivate
       /\ at \in Planning => ValidPlan(r.state)
       /\ r.state # Absent =>
            /\ at = "apply" => \A a \in Attr : plan[a] \in Value => r.state[a] = plan[a]
            /\ at \in Planning \cup {"read", "apply"} => NullWriteOnly(r.state) = r.state

AnswersAreTruthful == reply # NoReply => Truthful(reply, world)

IInv == TypeOK /\ PrivateHasObject /\ PlanCarriesPrivate /\ Tracked /\ AnswersAreTruthful

-----------------------------------------------------------------------------
\* What objects are made of.
LEMMA ObjectFacts ==
  /\ Object \subseteq PartialObject
  /\ Absent \notin Object /\ Absent \notin PartialObject /\ Absent \notin Config
  /\ \A o \in Object : NullWriteOnly(o) \in Object
  /\ \A o \in PartialObject : NullWriteOnly(NullWriteOnly(o)) = NullWriteOnly(o)
  /\ \A o \in PartialObject : DecodeAllowingUnknown(o) # Absent
<1>1. Object \subseteq PartialObject
  BY DEF Object, PartialObject, Partial
<1>2. Absent \notin PartialObject /\ Absent \notin Config
  BY AbsentAssumption, ConfigAssumption
<1>3. \A o \in Object : NullWriteOnly(o) \in Object
  BY DEF Object, NullWriteOnly, Known
<1>4. \A o \in PartialObject : NullWriteOnly(NullWriteOnly(o)) = NullWriteOnly(o)
  BY DEF PartialObject, NullWriteOnly
<1>5. ASSUME NEW o \in PartialObject PROVE DecodeAllowingUnknown(o) # Absent
  <2>1. o # Absent
    BY <1>2
  <2>2. [a \in Attr |-> IF o[a] = Unknown THEN Null ELSE o[a]] \in PartialObject
    BY DEF PartialObject, Partial, Known
  <2>. QED  BY <1>2, <2>1, <2>2 DEF DecodeAllowingUnknown
<1>. QED  BY <1>1, <1>2, <1>3, <1>4, <1>5

\* The default of an omitted attribute is a value of its own.
LEMMA EffectiveConfigFacts ==
  ASSUME NEW cfg \in PartialObject
  PROVE  /\ EffectiveConfig(cfg) \in PartialObject
         /\ ~HasUnknown(cfg) => EffectiveConfig(cfg) \in Object
         /\ \A a \in Attr : IF cfg[a] = Null /\ a \in DOMAIN Default
                              THEN EffectiveConfig(cfg)[a] = Default[a] /\ a \in Computed
                              ELSE EffectiveConfig(cfg)[a] = cfg[a]
<1>1. \A a \in DOMAIN Default : Default[a] \in Value /\ a \in Computed
  BY SchemaAssumption
<1>2. \A a \in Attr : cfg[a] \in Partial
  BY DEF PartialObject
<1>3. EffectiveConfig(cfg) \in PartialObject
  BY <1>1, <1>2 DEF EffectiveConfig, PartialObject, Partial, Known
<1>4. ~HasUnknown(cfg) => EffectiveConfig(cfg) \in Object
  BY <1>1, <1>2 DEF EffectiveConfig, HasUnknown, Object, Partial, Known
<1>5. \A a \in Attr : IF cfg[a] = Null /\ a \in DOMAIN Default
                       THEN EffectiveConfig(cfg)[a] = Default[a] /\ a \in Computed
                       ELSE EffectiveConfig(cfg)[a] = cfg[a]
  BY <1>1 DEF EffectiveConfig
<1>. QED  BY <1>3, <1>4, <1>5

-----------------------------------------------------------------------------
\* The object that PlanOf has checked and sent, for a configuration and a prior state.
Planned(prior) ==
  LET effective == EffectiveConfig(config)
  IN MarkUnknown(MergeDefaults(Filled(BasePlan(Proposed(prior), effective)), effective))

\* It follows the configuration wherever that says something, leaves an attribute that is not
\* computed as it is, and holds no write-only value.
LEMMA PlannedFacts ==
  ASSUME author \in Author, config \in Config, NEW prior \in Object \cup {Absent}
  PROVE  /\ Planned(prior) \in PartialObject
         /\ \A a \in WriteOnly : Planned(prior)[a] = Null
         /\ \A a \in Attr \ WriteOnly :
              Planned(prior)[a] = config[a] \/ (config[a] = Null /\ a \in Computed)
<1>. DEFINE E == EffectiveConfig(config)
            P == Proposed(prior)
            B == BasePlan(P, E)
            H == Filled(B)
            M == MergeDefaults(H, E)
            F == MarkUnknown(M)
<1>1. /\ config \in PartialObject /\ config # Absent
      /\ \A a \in Attr : config[a] \in Partial
  BY ConfigAssumption, ObjectFacts DEF PartialObject
<1>2. /\ \A a \in Attr : E[a] \in Partial
      /\ \A a \in Attr : IF config[a] = Null /\ a \in DOMAIN Default
                           THEN E[a] = Default[a] /\ a \in Computed ELSE E[a] = config[a]
  BY <1>1, EffectiveConfigFacts DEF PartialObject
<1>3. \A a \in Attr : author.fill[a] \in Known
  BY AuthorAssumption DEF Object
<1>4. prior # Absent => \A a \in Attr : prior[a] \in Known
  BY DEF Object
<1>5. \A a \in Attr : P[a] = IF a \in WriteOnly THEN Null
                              ELSE IF config[a] = Null /\ a \in Computed /\ prior # Absent
                                   THEN prior[a] ELSE config[a]
  BY <1>1 DEF Proposed
<1>6. \A a \in Attr : B[a] = IF a \in WriteOnly THEN Null
                              ELSE IF P[a] # Null THEN P[a] ELSE E[a]
  BY DEF BasePlan
<1>7. \A a \in Attr : H[a] = IF B[a] = Null /\ a \in Computed \ DOMAIN Default
                              THEN author.fill[a] ELSE B[a]
  BY DEF Filled
<1>8. \A a \in Attr : M[a] = IF a \in DOMAIN Default /\ E[a] \in Value THEN E[a] ELSE H[a]
  BY DEF MergeDefaults
<1>9. \A a \in Attr : F[a] = IF a \in Computed /\ M[a] = Null THEN Unknown ELSE M[a]
  BY DEF MarkUnknown
<1>. HIDE DEF E, P, B, H, M, F
<1>10. ASSUME NEW a \in Attr
       PROVE  /\ F[a] \in Partial
              /\ a \in WriteOnly => F[a] = Null
              /\ a \notin WriteOnly => F[a] = config[a] \/ (config[a] = Null /\ a \in Computed)
  <2>1. a \in WriteOnly => a \notin Computed /\ a \notin DOMAIN Default
    BY SchemaAssumption
  <2>2. a \in DOMAIN Default => a \in Computed
    BY SchemaAssumption
  <2>3. Null \in Known /\ Known \subseteq Partial /\ Unknown \in Partial
    BY DEF Known, Partial
  <2>4. P[a] \in Partial /\ B[a] \in Partial
    BY <1>1, <1>2, <1>4, <1>5, <1>6, <2>3
  <2>5. H[a] \in Partial /\ M[a] \in Partial
    BY <1>2, <1>3, <1>7, <1>8, <2>3, <2>4
  <2>6. F[a] \in Partial
    BY <1>9, <2>3, <2>5
  <2>7. CASE a \in WriteOnly
    BY <1>6, <1>7, <1>8, <1>9, <2>1, <2>6, <2>7
  <2>8. CASE a \notin WriteOnly /\ config[a] = Null
    <3>1. CASE a \in Computed
      BY <2>6, <2>8, <3>1
    <3>2. CASE a \notin Computed
      <4>1. E[a] = Null /\ P[a] = Null
        BY <1>2, <1>5, <2>2, <2>8, <3>2
      <4>2. B[a] = Null /\ H[a] = Null /\ M[a] = Null /\ F[a] = Null
        BY <1>6, <1>7, <1>8, <1>9, <2>2, <2>8, <3>2, <4>1
      <4>. QED  BY <2>6, <2>8, <4>2
    <3>. QED  BY <3>1, <3>2
  <2>9. CASE a \notin WriteOnly /\ config[a] # Null
    <3>1. E[a] = config[a] /\ P[a] = config[a]
      BY <1>2, <1>5, <2>9
    <3>2. B[a] = config[a] /\ H[a] = config[a] /\ M[a] = config[a] /\ F[a] = config[a]
      BY <1>6, <1>7, <1>8, <1>9, <2>9, <3>1
    <3>. QED  BY <2>6, <2>9, <3>2
  <2>. QED  BY <2>7, <2>8, <2>9
<1>11. F \in [Attr -> Partial]
  <2>1. F = [a \in Attr |-> F[a]]
    BY DEF F, MarkUnknown
  <2>. QED  BY <1>10, <2>1
<1>12. WriteOnly \subseteq Attr
  BY SchemaAssumption
<1>13. Planned(prior) = F
  BY DEF Planned, E, P, B, H, M, F
<1>. QED  BY <1>10, <1>11, <1>12, <1>13 DEF PartialObject

-----------------------------------------------------------------------------
\* The answers of the handlers, field by field.
LEMMA ResultFacts ==
  ASSUME NEW t \in {"none", "ok", "error", "deferred"},
         NEW o \in PartialObject \cup {Absent}, NEW s \in Private \cup {NoPrivate}
  PROVE  /\ Result(t, o, s) \in Reply
         /\ Result(t, o, s).status = t /\ Result(t, o, s).state = o
         /\ Result(t, o, s).private = s
<1>1. FALSE \in BOOLEAN /\ {} \in SUBSET Attr
  OBVIOUS
<1>. QED  BY <1>1 DEF Reply, Result

LEMMA ReplyFacts ==
  /\ NoReply \in Reply /\ Failure \in Reply /\ Deferral \in Reply
  /\ NoReply.status = "none" /\ NoReply.state = Absent
  /\ Failure.status = "error" /\ Failure.state = Absent
  /\ Deferral.status = "deferred" /\ Deferral.state = Absent
BY ResultFacts DEF NoReply, Failure, Deferral

LEMMA AnswerFacts ==
  ASSUME NEW o \in PartialObject \cup {Absent}, NEW s \in Private \cup {NoPrivate}
  PROVE  /\ Answer(o, s) \in Reply
         /\ Answer(o, s).status = "ok" /\ Answer(o, s).state = o /\ Answer(o, s).private = s
BY ResultFacts DEF Answer

LEMMA VariantFacts ==
  ASSUME NEW r \in Reply
  PROVE  /\ ByHonest(r) \in Reply /\ WithError(r) \in Reply
         /\ ByHonest(r).status = r.status /\ ByHonest(r).state = r.state
         /\ ByHonest(r).private = r.private
         /\ WithError(r).status = "error" /\ WithError(r).state = r.state
<1>1. TRUE \in BOOLEAN
  OBVIOUS
<1>. QED  BY <1>1 DEF Reply, ByHonest, WithError

\* A failure is truthful whatever has happened, and so is a deferral where there are any.
LEMMA FailureIsTruthful ==
  ASSUME at \in Calls, NEW w
  PROVE  Truthful(Failure, w) /\ (at # "apply" => Truthful(Deferral, w))
BY ReplyFacts DEF Truthful

\* A plan that is answered is one Terraform accepts, and hands the private state on if the
\* author's hook does.
LEMMA PlanOfFacts ==
  ASSUME author \in Author, config \in Config \cup {Absent},
         NEW prior \in Object \cup {Absent}, NEW secret \in Private \cup {NoPrivate}
  PROVE  LET r == PlanOf(prior, secret)
         IN /\ r \in Reply /\ r.status \in {"ok", "error"}
            /\ r.status = "ok" => ValidPlan(r.state)
            /\ r.status = "ok" /\ r.state # Absent =>
                 /\ author.keeps => r.private = secret
                 /\ NullWriteOnly(r.state) = r.state
<1>1. CASE config = Absent
  <2>1. Proposed(prior) = Absent /\ DecodeAllowingUnknown(Absent) = Absent
    BY <1>1 DEF Proposed, DecodeAllowingUnknown
  <2>2. PlanOf(prior, secret) = Answer(Absent, NoPrivate)
    BY <1>1, <2>1 DEF PlanOf
  <2>3. ValidPlan(Absent)
    BY <1>1 DEF ValidPlan
  <2>. QED  BY <2>2, <2>3, AnswerFacts
<1>2. CASE config # Absent
  <2>. DEFINE final == Planned(prior)
              base == BasePlan(Proposed(prior), EffectiveConfig(config))
              kept == IF author.keeps THEN secret ELSE NoPrivate
              asked == RequiresReplace(prior, final, Asked(prior, base))
  <2>1. config \in Config /\ config \in PartialObject
    BY <1>2, ConfigAssumption
  <2>2. /\ final \in PartialObject
        /\ \A a \in WriteOnly : final[a] = Null
        /\ \A a \in Attr \ WriteOnly : final[a] = config[a] \/ (config[a] = Null /\ a \in Computed)
    BY <2>1, PlannedFacts
  <2>3. DecodeAllowingUnknown(Proposed(prior)) # Absent
    <3>1. Proposed(prior) = [a \in Attr |-> IF a \in WriteOnly THEN Null
                              ELSE IF config[a] = Null /\ a \in Computed /\ prior # Absent
                                   THEN prior[a] ELSE config[a]]
      BY <1>2 DEF Proposed
    <3>2. ASSUME NEW a \in Attr
          PROVE  /\ Null \in Partial /\ config[a] \in Partial
                 /\ prior # Absent => prior[a] \in Partial
      BY <2>1 DEF PartialObject, Object, Partial, Known
    <3>3. Proposed(prior) \in PartialObject
      BY <3>1, <3>2 DEF PartialObject
    <3>. QED  BY <3>3, ObjectFacts
  <2>4. PlanOf(prior, secret) =
          IF MissingInState(final) THEN Failure
          ELSE [status |-> "ok", state |-> final, private |-> kept, replace |-> asked, honest |-> FALSE]
    BY <1>2, <2>3 DEF PlanOf, Finalize, Planned
  <2>5. asked \in SUBSET Attr
    <3>1. author.asks \in SUBSET Attr
      BY AuthorAssumption
    <3>. QED  BY <3>1, SchemaAssumption DEF RequiresReplace, Asked
  <2>6. ValidPlan(final) /\ final # Absent
    BY <1>2, <2>2, ObjectFacts DEF ValidPlan
  <2>7. NullWriteOnly(final) = final
    <3>1. final = [a \in Attr |-> final[a]]
      BY <2>2 DEF PartialObject
    <3>. HIDE DEF final
    <3>. QED  BY <2>2, <3>1 DEF NullWriteOnly
  <2>. HIDE DEF final, asked
  <2>8. kept \in Private \cup {NoPrivate}
    OBVIOUS
  <2>. HIDE DEF kept
  <2>9. [status |-> "ok", state |-> final, private |-> kept, replace |-> asked, honest |-> FALSE] \in Reply
    <3>1. FALSE \in BOOLEAN
      OBVIOUS
    <3>. QED  BY <2>2, <2>5, <2>8, <3>1 DEF Reply
  <2>10. author.keeps => kept = secret
    BY DEF kept
  <2>. QED  BY <2>4, <2>6, <2>7, <2>9, <2>10, ReplyFacts
<1>. QED  BY <1>1, <1>2

\* An apply result that is answered keeps what was planned and holds no write-only value.
LEMMA ApplyResultFacts ==
  ASSUME NEW target \in PartialObject, NEW result \in Object \cup {Absent},
         NEW secret \in Private \cup {NoPrivate}
  PROVE  LET r == ApplyResult(target, result, secret)
         IN /\ r \in Reply /\ r.status \in {"ok", "error"}
            /\ r.state \in Object \cup {Absent}
            /\ r.state # Absent =>
                 /\ r.private = secret
                 /\ \A a \in Attr : target[a] \in Value => r.state[a] = target[a]
                 /\ NullWriteOnly(r.state) = r.state
<1>1. CASE result = Absent
  BY <1>1, AnswerFacts DEF ApplyResult
<1>2. CASE result # Absent /\ Refines(target, NullWriteOnly(result))
  <2>. DEFINE o == NullWriteOnly(result)
  <2>1. o \in Object /\ o \in PartialObject /\ NullWriteOnly(o) = o
    BY <1>2, ObjectFacts
  <2>2. ApplyResult(target, result, secret) = Answer(o, secret)
    BY <1>2 DEF ApplyResult
  <2>3. \A a \in Attr : target[a] \in Value => o[a] = target[a]
    <3>1. target # Absent
      BY ObjectFacts
    <3>. QED  BY <1>2, <3>1, ValueAssumption DEF Refines
  <2>. QED  BY <2>1, <2>2, <2>3, AnswerFacts
<1>3. CASE result # Absent /\ ~Refines(target, NullWriteOnly(result))
  BY <1>3, ReplyFacts DEF ApplyResult
<1>. QED  BY <1>1, <1>2, <1>3

-----------------------------------------------------------------------------
\* A step of a handler: its answer is truthful, and only apply makes an object.
LEMMA RespondKeeps ==
  ASSUME IInv, NEW r \in Reply, Respond(r), Truthful(r, world'),
         world' \in Object \cup {Absent}, UNCHANGED settled,
         world = Absent /\ world' # Absent => at = "apply"
  PROVE  IInv'
<1>1. /\ reply' = r
      /\ UNCHANGED <<author, state, private, config, plan, planned, replace, at, told, settled>>
  BY DEF Respond, terraform, operation
<1>2. TypeOK'
  BY <1>1 DEF IInv, TypeOK
<1>3. PrivateHasObject' /\ PlanCarriesPrivate'
  BY <1>1 DEF IInv, PrivateHasObject, PlanCarriesPrivate
<1>4. r # NoReply
  BY ReplyFacts DEF Truthful
<1>5. Tracked'
  BY <1>1, <1>4 DEF IInv, Tracked
<1>6. AnswersAreTruthful'
  BY <1>1 DEF AnswersAreTruthful, Truthful, ValidPlan
<1>. QED  BY <1>2, <1>3, <1>5, <1>6 DEF IInv

\* An answer without an object, and the failure of a call, keep the invariant.
LEMMA FailureKeeps ==
  ASSUME IInv, Respond(Failure), at \in Calls, world' \in Object \cup {Absent}, UNCHANGED settled,
         world = Absent /\ world' # Absent => at = "apply"
  PROVE  IInv'
BY RespondKeeps, ReplyFacts, FailureIsTruthful

LEMMA DeferralKeeps ==
  ASSUME IInv, Respond(Deferral), at \in Calls \ {"apply"}, UNCHANGED <<world, settled>>
  PROVE  IInv'
<1>1. world' \in Object \cup {Absent}
  BY DEF IInv, TypeOK
<1>. QED  BY <1>1, RespondKeeps, ReplyFacts, FailureIsTruthful

LEMMA ValidateKeeps == IInv /\ ValidateResourceConfig => IInv'
<1>. SUFFICES ASSUME IInv, ValidateResourceConfig PROVE IInv'
  OBVIOUS
<1>1. /\ at = "validate" /\ at \in Calls /\ at \notin Planning
      /\ UNCHANGED settled /\ world' = world /\ world \in Object \cup {Absent}
  BY DEF ValidateResourceConfig, Pending, Calls, Planning, IInv, TypeOK
<1>2. CASE Respond(Failure)
  BY <1>1, <1>2, FailureKeeps
<1>3. CASE Respond(Answer(Absent, NoPrivate))
  <2>1. Truthful(Answer(Absent, NoPrivate), world') /\ Answer(Absent, NoPrivate) \in Reply
    BY <1>1, AnswerFacts DEF Truthful
  <2>. QED  BY <1>1, <1>3, <2>1, RespondKeeps
<1>. QED  BY <1>2, <1>3 DEF ValidateResourceConfig

LEMMA ImportKeeps == IInv /\ ImportResourceState => IInv'
<1>. SUFFICES ASSUME IInv, ImportResourceState PROVE IInv'
  OBVIOUS
<1>1. /\ at = "import" /\ at \in Calls /\ at \notin Planning
      /\ UNCHANGED <<world, settled>> /\ world' = world /\ world \in Object \cup {Absent}
  BY DEF ImportResourceState, Pending, Calls, Planning, IInv, TypeOK
<1>2. CASE Respond(Failure)
  BY <1>1, <1>2, FailureKeeps
<1>3. CASE Respond(Deferral)
  BY <1>1, <1>3, DeferralKeeps
<1>4. ASSUME NEW secret \in Private \cup {NoPrivate}, world # Absent, Respond(Answer(world, secret))
      PROVE  IInv'
  <2>1. world \in PartialObject
    BY <1>1, <1>4, ObjectFacts
  <2>2. Truthful(Answer(world, secret), world') /\ Answer(world, secret) \in Reply
    BY <1>1, <1>4, <2>1, AnswerFacts DEF Truthful
  <2>. QED  BY <1>1, <1>4, <2>2, RespondKeeps
<1>. QED  BY <1>2, <1>3, <1>4 DEF ImportResourceState

LEMMA ReadKeeps == IInv /\ ReadResource => IInv'
<1>. SUFFICES ASSUME IInv, ReadResource PROVE IInv'
  OBVIOUS
<1>1. /\ at = "read" /\ at \in Calls /\ at \notin Planning /\ private \in Private \cup {NoPrivate}
      /\ UNCHANGED <<world, settled>> /\ world' = world /\ world \in Object \cup {Absent}
  BY DEF ReadResource, Pending, Calls, Planning, IInv, TypeOK
<1>2. CASE Respond(Failure)
  BY <1>1, <1>2, FailureKeeps
<1>3. CASE Respond(Deferral)
  BY <1>1, <1>3, DeferralKeeps
<1>4. CASE Respond(Answer(IF world = Absent THEN Absent ELSE NullWriteOnly(world), private))
  <2>. DEFINE found == IF world = Absent THEN Absent ELSE NullWriteOnly(world)
  <2>1. /\ found \in Object \cup {Absent} /\ found \in PartialObject \cup {Absent}
        /\ found = Absent => world = Absent
        /\ found # Absent => NullWriteOnly(found) = found
    BY <1>1, ObjectFacts
  <2>. HIDE DEF found
  <2>2. Truthful(Answer(found, private), world') /\ Answer(found, private) \in Reply
    BY <1>1, <2>1, AnswerFacts DEF Truthful
  <2>3. Respond(Answer(found, private))
    BY <1>4 DEF found
  <2>. QED  BY <1>1, <2>2, <2>3, RespondKeeps
<1>. QED  BY <1>2, <1>3, <1>4 DEF ReadResource

LEMMA PlanKeeps == IInv /\ PlanResourceChange => IInv'
<1>. SUFFICES ASSUME IInv, PlanResourceChange PROVE IInv'
  OBVIOUS
<1>. DEFINE prior == IF at = "replan" THEN Absent ELSE state
            secret == IF at = "replan" THEN planned ELSE private
<1>1. /\ at \in Planning /\ at \in Calls \ {"apply"} /\ UNCHANGED <<world, settled>> /\ world' = world
      /\ world \in Object \cup {Absent}
      /\ author \in Author /\ config \in Config \cup {Absent}
      /\ prior \in Object \cup {Absent} /\ secret \in Private \cup {NoPrivate}
      /\ at = "finalplan" => secret = private
  BY DEF PlanResourceChange, Pending, Calls, Planning, IInv, TypeOK
<1>2. \/ Respond(PlanOf(prior, secret)) \/ Respond(Failure) \/ Respond(Deferral)
  BY DEF PlanResourceChange
<1>. HIDE DEF prior, secret
<1>3. CASE Respond(Failure)
  BY <1>1, <1>3, FailureKeeps
<1>4. CASE Respond(Deferral)
  BY <1>1, <1>4, DeferralKeeps
<1>5. CASE Respond(PlanOf(prior, secret))
  <2>. DEFINE r == PlanOf(prior, secret)
  <2>1. /\ r \in Reply /\ r.status \in {"ok", "error"}
        /\ r.status = "ok" => ValidPlan(r.state)
        /\ r.status = "ok" /\ r.state # Absent =>
             /\ author.keeps => r.private = secret
             /\ NullWriteOnly(r.state) = r.state
    BY <1>1, PlanOfFacts
  <2>. HIDE DEF r
  <2>2. Truthful(r, world')
    BY <1>1, <2>1 DEF Truthful, Planning
  <2>3. Respond(r)
    BY <1>5 DEF r
  <2>. QED  BY <1>1, <2>1, <2>2, <2>3, RespondKeeps
<1>. QED  BY <1>2, <1>3, <1>4, <1>5

\* What decodes to a delete is the null object.
LEMMA DeletesAreNull ==
  ASSUME NEW target \in PartialObject \cup {Absent}
  PROVE  IsDelete(target) <=> target = Absent
BY ObjectFacts DEF IsDelete, DecodeAllowingUnknown

LEMMA FailsKeeps == IInv /\ (ApplyFails \/ ProviderDies) => IInv'
<1>. SUFFICES ASSUME IInv, ApplyFails \/ ProviderDies PROVE IInv'
  OBVIOUS
<1>1. /\ at \in Calls /\ Respond(Failure) /\ UNCHANGED settled
      /\ world' = world /\ world \in Object \cup {Absent}
  BY DEF ApplyFails, ProviderDies, Pending, Calls, IInv, TypeOK
<1>. QED  BY <1>1, FailureKeeps

LEMMA DeleteKeeps == IInv /\ ApplyDelete => IInv'
<1>. SUFFICES ASSUME IInv, ApplyDelete PROVE IInv'
  OBVIOUS
<1>1. /\ at \in {"apply", "destroy"} /\ at \in Calls /\ at \notin Planning
      /\ UNCHANGED settled /\ world' = Absent
  BY DEF ApplyDelete, Pending, Calls, Planning
<1>2. at = "apply" => plan = Absent
  BY <1>1, DeletesAreNull DEF ApplyDelete, IInv, TypeOK
<1>3. CASE Respond(Failure)
  BY <1>1, <1>3, FailureKeeps
<1>4. CASE Respond(ByHonest(ApplyResult(Absent, Absent, NoPrivate)))
  <2>. DEFINE r == ByHonest(Answer(Absent, NoPrivate))
  <2>1. r \in Reply /\ r.status = "ok" /\ r.state = Absent /\ r.private = NoPrivate
    BY AnswerFacts, VariantFacts
  <2>2. Respond(r)
    BY <1>4 DEF ApplyResult
  <2>. HIDE DEF r
  <2>3. Truthful(r, world')
    BY <1>1, <1>2, <2>1 DEF Truthful
  <2>. QED  BY <1>1, <2>1, <2>2, <2>3, RespondKeeps
<1>. QED  BY <1>3, <1>4 DEF ApplyDelete

LEMMA ChangeKeeps == IInv /\ ApplyChange => IInv'
<1>. SUFFICES ASSUME IInv, ApplyChange PROVE IInv'
  OBVIOUS
<1>1. /\ at = "apply" /\ at \in Calls /\ at \notin Planning /\ UNCHANGED settled
      /\ planned \in Private \cup {NoPrivate}
      /\ plan \in PartialObject /\ plan # Absent
  BY DeletesAreNull, ObjectFacts DEF ApplyChange, Pending, Calls, Planning, IInv, TypeOK
<1>2. PICK obj \in Honest, secret \in {planned} \cup (IF state = Absent THEN Private ELSE {}) :
        /\ world' = obj
        /\ \/ Respond(ByHonest(ApplyResult(plan, obj, secret)))
           \/ Respond(Failure)
           \/ \E s \in {secret, NoPrivate} : Respond(WithError(ApplyResult(plan, obj, s)))
           \/ \E other \in {Absent} \cup {[obj EXCEPT ![a] = v] : a \in Attr, v \in Known} :
                Respond(ApplyResult(plan, other, secret))
  BY DEF ApplyChange
<1>3. /\ obj \in Object /\ world' \in Object \cup {Absent} /\ secret \in Private \cup {NoPrivate}
      /\ author.keeps /\ private # NoPrivate => secret # NoPrivate
  <2>1. obj \in Object
    BY DEF Honest
  <2>2. author.keeps /\ private # NoPrivate => planned # NoPrivate /\ state # Absent
    BY <1>1 DEF IInv, PlanCarriesPrivate, PrivateHasObject
  <2>. QED  BY <1>1, <1>2, <2>1, <2>2
<1>4. ASSUME NEW r \in Reply, Respond(r), r.status \in {"ok", "error"},
             r.state \in Object \cup {Absent},
             r.status = "ok" /\ r.state # Absent =>
               /\ r.private = secret
               /\ \A a \in Attr : plan[a] \in Value => r.state[a] = plan[a]
               /\ NullWriteOnly(r.state) = r.state
      PROVE  IInv'
  <2>1. Truthful(r, world')
    BY <1>1, <1>3, <1>4 DEF Truthful
  <2>. QED  BY <1>1, <1>3, <1>4, <2>1, RespondKeeps
<1>5. CASE Respond(Failure)
  BY <1>1, <1>3, <1>5, FailureKeeps
<1>6. CASE Respond(ByHonest(ApplyResult(plan, obj, secret)))
  <2>. DEFINE r == ApplyResult(plan, obj, secret)
  <2>1. /\ r \in Reply /\ r.status \in {"ok", "error"} /\ r.state \in Object \cup {Absent}
        /\ r.state # Absent =>
             /\ r.private = secret
             /\ \A a \in Attr : plan[a] \in Value => r.state[a] = plan[a]
             /\ NullWriteOnly(r.state) = r.state
    BY <1>1, <1>3, ApplyResultFacts
  <2>2. Respond(ByHonest(r))
    BY <1>6
  <2>. HIDE DEF r
  <2>. QED  BY <1>4, <2>1, <2>2, VariantFacts
<1>7. ASSUME NEW s \in {secret, NoPrivate}, Respond(WithError(ApplyResult(plan, obj, s)))
      PROVE  IInv'
  <2>. DEFINE r == ApplyResult(plan, obj, s)
  <2>1. r \in Reply /\ r.state \in Object \cup {Absent}
    BY <1>1, <1>3, ApplyResultFacts
  <2>2. Respond(WithError(r))
    BY <1>7
  <2>. HIDE DEF r
  <2>. QED  BY <1>4, <2>1, <2>2, VariantFacts
<1>8. ASSUME NEW other \in {Absent} \cup {[obj EXCEPT ![a] = v] : a \in Attr, v \in Known},
             Respond(ApplyResult(plan, other, secret))
      PROVE  IInv'
  <2>1. other \in Object \cup {Absent}
    BY <1>3 DEF Object
  <2>. QED  BY <1>1, <1>3, <1>4, <1>8, <2>1, ApplyResultFacts
<1>. QED  BY <1>2, <1>5, <1>6, <1>7, <1>8

LEMMA DriftKeeps == IInv /\ Drift => IInv'
<1>. SUFFICES ASSUME IInv, Drift PROVE IInv'
  OBVIOUS
<1>1. /\ at \in {"idle", "approve"} /\ at \notin Calls /\ world # Absent /\ world \in Object
      /\ world' \in {Absent} \cup {[world EXCEPT ![a] = v] : a \in Computed, v \in Value}
      /\ UNCHANGED <<author, state, private, config, plan, planned, replace, at, reply, told, settled>>
  BY DEF Drift, Calls, terraform, operation, IInv, TypeOK
<1>2. world' \in Object \cup {Absent}
  <2>1. Computed \subseteq Attr /\ Value \subseteq Known
    BY SchemaAssumption DEF Known
  <2>. QED  BY <1>1, <2>1 DEF Object
<1>3. reply = NoReply
  BY <1>1 DEF IInv, AnswersAreTruthful, Truthful
<1>4. TypeOK'
  BY <1>1, <1>2 DEF IInv, TypeOK
<1>5. PrivateHasObject' /\ PlanCarriesPrivate' /\ AnswersAreTruthful'
  BY <1>1, <1>3 DEF IInv, PrivateHasObject, PlanCarriesPrivate, AnswersAreTruthful
<1>6. Tracked'
  BY <1>1 DEF IInv, Tracked
<1>. QED  BY <1>4, <1>5, <1>6 DEF IInv

\* What Terraform does between two calls, as long as its record of the object stands.
LEMMA MoveKeeps ==
  ASSUME IInv, NEW call \in Calls \cup {"idle", "approve"}, Goto(call), at # "apply",
         UNCHANGED <<author, world, state, private, settled>>,
         told' \in BOOLEAN, told => told',
         config' \in Config \cup {Absent}, plan' \in PartialObject \cup {Absent},
         planned' \in Private \cup {NoPrivate}, replace' \in BOOLEAN,
         call = "import" => state = Absent,
         call = "apply" /\ author.keeps /\ private # NoPrivate /\ plan' # Absent => planned' # NoPrivate
  PROVE  IInv'
<1>1. at' = call /\ reply' = NoReply /\ reply' \in Reply
  BY ReplyFacts DEF Goto
<1>2. TypeOK'
  BY <1>1 DEF IInv, TypeOK
<1>3. PrivateHasObject' /\ PlanCarriesPrivate'
  BY <1>1 DEF IInv, PrivateHasObject, PlanCarriesPrivate
<1>4. Tracked'
  BY <1>1 DEF IInv, Tracked
<1>5. AnswersAreTruthful'
  BY <1>1 DEF AnswersAreTruthful
<1>. QED  BY <1>2, <1>3, <1>4, <1>5 DEF IInv

\* The end of an operation leaves a typed record.
LEMMA FinishFacts ==
  ASSUME Finish
  PROVE  /\ Goto("idle") /\ config' \in Config \cup {Absent} /\ plan' \in PartialObject \cup {Absent}
         /\ planned' \in Private \cup {NoPrivate} /\ replace' \in BOOLEAN
BY DEF Finish

\* A plan that Terraform accepts comes from an answer.
LEMMA AcceptFacts ==
  ASSUME IInv, NEW call, Accept(call)
  PROVE  /\ Goto(call) /\ config' \in Config \cup {Absent} /\ plan' \in PartialObject \cup {Absent}
         /\ planned' \in Private \cup {NoPrivate} /\ replace' \in BOOLEAN
         /\ plan' = reply.state /\ planned' = reply.private
<1>1. reply.state \in PartialObject \cup {Absent} /\ reply.private \in Private \cup {NoPrivate}
  BY DEF IInv, TypeOK, Reply
<1>2. replace' \in BOOLEAN
  BY Zenon DEF Accept
<1>. QED  BY <1>1, <1>2 DEF Accept, IInv, TypeOK

LEMMA MovesKeep ==
  IInv /\ (Begin \/ AfterValidate \/ AfterPlan \/ AfterReplan \/ Approve \/ Decline \/ AfterFinalPlan
           \/ Stop) => IInv'
<1>. SUFFICES ASSUME IInv PROVE (Begin \/ AfterValidate \/ AfterPlan \/ AfterReplan \/ Approve
                                 \/ Decline \/ AfterFinalPlan \/ Stop) => IInv'
  OBVIOUS
<1>1. /\ config \in Config \cup {Absent} /\ plan \in PartialObject \cup {Absent}
      /\ planned \in Private \cup {NoPrivate} /\ replace \in BOOLEAN /\ told \in BOOLEAN
  BY DEF IInv, TypeOK
<1>2. ASSUME Begin PROVE IInv'
  <2>1. PICK c \in Config \cup {Absent} :
          /\ config' = c
          /\ IF c = Absent THEN state # Absent /\ (Goto("read") \/ Goto("plan")) ELSE Goto("validate")
    BY <1>2 DEF Begin
  <2>2. Goto("read") \/ Goto("plan") \/ Goto("validate")
    BY <2>1
  <2>. QED  BY <1>1, <1>2, <2>1, <2>2, MoveKeeps DEF Begin, Calls
<1>3. ASSUME AfterValidate PROVE IInv'
  <2>1. /\ UNCHANGED <<config, plan, planned, replace>>
        /\ Goto("plan") \/ Goto("read") \/ (Goto("import") /\ state = Absent)
    BY <1>3 DEF AfterValidate, Continue, operation
  <2>. QED  BY <1>1, <1>3, <2>1, MoveKeeps DEF AfterValidate, Answered, Calls
<1>4. ASSUME AfterPlan PROVE IInv'
  <2>1. Finish \/ Accept("replan") \/ Accept("approve")
    BY <1>4 DEF AfterPlan
  <2>. QED  BY <1>1, <1>4, <2>1, FinishFacts, AcceptFacts, MoveKeeps DEF AfterPlan, Answered, Calls
<1>5. ASSUME AfterReplan PROVE IInv'
  BY <1>1, <1>5, AcceptFacts, MoveKeeps DEF AfterReplan, Answered, Calls
<1>6. ASSUME Approve PROVE IInv'
  <2>1. config' \in Config \cup {Absent}
    BY <1>6 DEF Approve, Resolutions
  <2>2. Goto("destroy") \/ Goto("finalplan")
    BY <1>6 DEF Approve
  <2>. QED  BY <1>1, <1>6, <2>1, <2>2, MoveKeeps DEF Approve, Calls
<1>7. ASSUME Decline PROVE IInv'
  BY <1>1, <1>7, FinishFacts, MoveKeeps DEF Decline
<1>8. ASSUME AfterFinalPlan PROVE IInv'
  <2>1. Finish \/ Accept("apply")
    BY <1>8 DEF AfterFinalPlan
  <2>2. at = "finalplan" /\ reply.status = "ok" /\ reply # NoReply
    BY <1>8, ReplyFacts DEF AfterFinalPlan, Answered
  <2>3. reply.state # Absent /\ author.keeps /\ private # NoPrivate => reply.private # NoPrivate
    BY <2>2 DEF IInv, AnswersAreTruthful, Truthful
  <2>. QED  BY <1>1, <1>8, <2>1, <2>2, <2>3, FinishFacts, AcceptFacts, MoveKeeps DEF AfterFinalPlan, Calls
<1>9. ASSUME Stop PROVE IInv'
  <2>1. told' \in BOOLEAN
    BY <1>9, Zenon DEF Stop
  <2>. QED  BY <1>1, <1>9, <2>1, FinishFacts, MoveKeeps DEF Stop
<1>. QED  BY <1>2, <1>3, <1>4, <1>5, <1>6, <1>7, <1>8, <1>9

\* What an answer changes in the record: the object and its private state go together, and an
\* object that is there leaves the record only when the practitioner is told.
LEMMA RecordKeeps ==
  ASSUME IInv, NEW call \in {"idle", "read", "plan", "finalplan"}, Goto(call),
         UNCHANGED <<author, world>>,
         state' \in Object \cup {Absent}, private' \in Private \cup {NoPrivate},
         state' = Absent => private' = NoPrivate,
         told' \in BOOLEAN, settled' \in Config \cup {Absent},
         world # Absent /\ state' = Absent => told',
         config' \in Config \cup {Absent}, plan' \in PartialObject \cup {Absent},
         planned' \in Private \cup {NoPrivate}, replace' \in BOOLEAN
  PROVE  IInv'
<1>1. at' = call /\ reply' = NoReply /\ reply' \in Reply
  BY ReplyFacts DEF Goto
<1>2. TypeOK'
  BY <1>1 DEF IInv, TypeOK, Calls
<1>3. PrivateHasObject' /\ PlanCarriesPrivate' /\ Tracked' /\ AnswersAreTruthful'
  BY <1>1 DEF PrivateHasObject, PlanCarriesPrivate, Tracked, AnswersAreTruthful
<1>. QED  BY <1>2, <1>3 DEF IInv

\* An answer that has come is truthful.
LEMMA AnsweredFacts ==
  ASSUME IInv, reply.status # "none" PROVE Truthful(reply, world)
BY ReplyFacts DEF IInv, AnswersAreTruthful

LEMMA RecordsKeep == IInv /\ (AfterImport \/ AfterRead \/ AfterDestroy \/ AfterApply) => IInv'
<1>. SUFFICES ASSUME IInv
              PROVE  (AfterImport \/ AfterRead \/ AfterDestroy \/ AfterApply) => IInv'
  OBVIOUS
<1>1. /\ config \in Config \cup {Absent} /\ plan \in PartialObject \cup {Absent}
      /\ planned \in Private \cup {NoPrivate} /\ replace \in BOOLEAN /\ told \in BOOLEAN
      /\ state \in Object \cup {Absent} /\ private \in Private \cup {NoPrivate}
      /\ settled \in Config \cup {Absent} /\ reply.private \in Private \cup {NoPrivate}
      /\ state = Absent => private = NoPrivate
  BY DEF IInv, TypeOK, PrivateHasObject, Reply
<1>2. \A call : Continue(call) => Goto(call) /\ UNCHANGED <<config, plan, planned, replace>>
  BY DEF Continue, operation
<1>3. ASSUME AfterImport PROVE IInv'
  <2>1. at = "import" /\ reply.status = "ok" /\ UNCHANGED <<author, world>> /\ settled' = Absent
    BY <1>3 DEF AfterImport, Answered
  <2>2. reply.state \in Object /\ reply.state # Absent
    BY <2>1, AnsweredFacts, ObjectFacts DEF Truthful, Planning
  <2>3. CASE NullWriteOnly(reply.state) = reply.state
    <3>1. /\ state' = reply.state /\ private' = reply.private /\ told' = FALSE /\ Continue("read")
      BY <1>3, <2>3 DEF AfterImport
    <3>. QED  BY <1>1, <1>2, <2>1, <2>2, <3>1, RecordKeeps
  <2>4. CASE NullWriteOnly(reply.state) # reply.state
    <3>1. /\ told' = TRUE /\ Finish /\ UNCHANGED <<state, private>>
      BY <1>3, <2>4 DEF AfterImport
    <3>. QED  BY <1>1, <2>1, <3>1, FinishFacts, RecordKeeps
  <2>. QED  BY <2>3, <2>4
<1>4. ASSUME AfterRead PROVE IInv'
  <2>1. /\ at = "read" /\ reply.status = "ok" /\ UNCHANGED <<author, world, told>>
        /\ state' = reply.state
        /\ private' = IF reply.state = Absent THEN NoPrivate ELSE reply.private
        /\ settled' \in Config \cup {Absent}
        /\ Finish \/ Continue("plan")
    BY <1>1, <1>4 DEF AfterRead, Answered
  <2>2. reply.state \in Object \cup {Absent} /\ (reply.state = Absent => world = Absent)
    BY <2>1, AnsweredFacts DEF Truthful, Planning
  <2>3. private' \in Private \cup {NoPrivate} /\ told' \in BOOLEAN
    BY <1>1, <2>1
  <2>. QED  BY <1>1, <1>2, <2>1, <2>2, <2>3, FinishFacts, RecordKeeps
<1>5. ASSUME AfterDestroy PROVE IInv'
  <2>1. /\ at = "destroy" /\ reply.status = "ok" /\ UNCHANGED <<author, world>>
        /\ state' = Absent /\ private' = NoPrivate /\ told' = FALSE /\ settled' = Absent
        /\ Finish \/ Continue("finalplan")
    BY <1>5 DEF AfterDestroy, Answered
  <2>2. world = Absent
    BY <2>1, AnsweredFacts DEF Truthful
  <2>. QED  BY <1>1, <1>2, <2>1, <2>2, FinishFacts, RecordKeeps
<1>6. ASSUME AfterApply PROVE IInv'
  <2>. DEFINE fine == reply.status = "ok" /\ Consistent(plan, reply.state)
  <2>1. /\ at = "apply" /\ reply.status \in {"ok", "error"} /\ UNCHANGED <<author, world>> /\ Finish
        /\ IF fine \/ reply.state # Absent
           THEN state' = reply.state /\ private' = reply.private ELSE UNCHANGED <<state, private>>
        /\ told' = ~fine
        /\ settled' \in Config \cup {Absent}
    BY <1>1, <1>6 DEF AfterApply
  <2>2. /\ reply.state \in Object \cup {Absent}
        /\ reply.status = "ok" /\ plan = Absent => world = Absent /\ reply.private = NoPrivate
    BY <2>1, AnsweredFacts DEF Truthful, Planning
  <2>3. fine /\ reply.state = Absent => world = Absent /\ reply.private = NoPrivate
    BY <2>2 DEF Consistent
  <2>4. told' \in BOOLEAN
    BY <2>1, Zenon
  <2>. HIDE DEF fine
  <2>5. /\ state' \in Object \cup {Absent} /\ private' \in Private \cup {NoPrivate}
        /\ state' = Absent => private' = NoPrivate
        /\ world # Absent /\ state' = Absent => told'
    BY <1>1, <2>1, <2>2, <2>3
  <2>. QED  BY <1>1, <2>1, <2>4, <2>5, FinishFacts, RecordKeeps
<1>. QED  BY <1>3, <1>4, <1>5, <1>6

-----------------------------------------------------------------------------
LEMMA IInvInit == Init => IInv
<1>. SUFFICES ASSUME Init PROVE IInv
  OBVIOUS
<1>1. world \in Object \cup {Absent}
  <2>1. \A c \in Config : ~HasUnknown(c) => NullWriteOnly(EffectiveConfig(c)) \in Object
    BY ConfigAssumption, EffectiveConfigFacts, ObjectFacts
  <2>. QED  BY <2>1 DEF Init
<1>2. told \in BOOLEAN
  BY Zenon DEF Init
<1>3. TypeOK
  BY <1>1, <1>2, ReplyFacts DEF Init, TypeOK
<1>4. PrivateHasObject /\ PlanCarriesPrivate /\ Tracked /\ AnswersAreTruthful
  BY DEF Init, PrivateHasObject, PlanCarriesPrivate, Tracked, AnswersAreTruthful
<1>. QED  BY <1>3, <1>4 DEF IInv

LEMMA IInvNext == IInv /\ [Next]_vars => IInv'
<1>1. IInv /\ UNCHANGED vars => IInv'
  BY DEF vars, terraform, operation, IInv, TypeOK, PrivateHasObject, PlanCarriesPrivate, Tracked,
         AnswersAreTruthful, Truthful, ValidPlan
<1>2. IInv /\ Handlers => IInv'
  BY ValidateKeeps, ImportKeeps, ReadKeeps, PlanKeeps, FailsKeeps, DeleteKeeps, ChangeKeeps DEF Handlers
<1>3. IInv /\ Core => IInv'
  BY MovesKeep, RecordsKeep DEF Core
<1>. QED  BY <1>1, <1>2, <1>3, FailsKeeps, DriftKeeps DEF Next

\* IInv holds in every reachable state.
THEOREM Invariance == Spec => []IInv
BY IInvInit, IInvNext, PTL DEF Spec

\* The variables keep their types, for every schema, configuration and plan hook.
THEOREM TypeCorrect == Spec => []TypeOK
<1>1. IInv => TypeOK
  BY DEF IInv
<1>. QED  BY <1>1, Invariance, PTL

\* Whatever an apply hook returns, a success keeps the planned values, and plans, reads and
\* apply results hold no write-only value.
THEOREM PlansAreKept == Spec => []SuccessKeepsPlan
<1>1. IInv => SuccessKeepsPlan
  BY ReplyFacts DEF IInv, AnswersAreTruthful, Truthful, Planning, SuccessKeepsPlan
<1>. QED  BY <1>1, Invariance, PTL

\* An object that exists is on record, or the practitioner was told of an error.
THEOREM NoSilentOrphan == Spec => []OrphansAreReported
<1>1. IInv => OrphansAreReported
  BY DEF IInv, Tracked, OrphansAreReported
<1>. QED  BY <1>1, Invariance, PTL

\* The provider deletes an object only when a delete was planned.
THEOREM PlannedDeletes == Spec => DeletesArePlanned
<1>1. ASSUME IInv, [Next]_vars, reply' # reply, world # Absent, world' = Absent
      PROVE  at = "destroy" \/ plan = Absent
  <2>1. CASE ApplyDelete
    <3>1. at \in {"apply", "destroy"} /\ (at # "destroy" => IsDelete(plan))
      BY <2>1 DEF ApplyDelete, Pending
    <3>2. plan \in PartialObject \cup {Absent}
      BY <1>1 DEF IInv, TypeOK
    <3>. QED  BY <3>1, <3>2, DeletesAreNull
  <2>2. CASE ApplyChange
    <3>1. world' \in Object
      BY <2>2 DEF ApplyChange, Honest
    <3>. QED  BY <1>1, <3>1, ObjectFacts
  <2>3. CASE Drift
    BY <1>1, <2>3 DEF Drift
  <2>4. CASE UNCHANGED world
    BY <1>1, <2>4
  <2>. QED  BY <1>1, <2>1, <2>2, <2>3, <2>4
            DEF Next, Handlers, Core, ValidateResourceConfig, ImportResourceState, ReadResource,
                PlanResourceChange, ApplyFails, ProviderDies, Begin, AfterValidate, AfterImport,
                AfterRead, AfterPlan, AfterReplan, Approve, Decline, AfterDestroy, AfterFinalPlan,
                AfterApply, Stop, vars
<1>2. IInv /\ [Next]_vars
      => [reply' # reply /\ world # Absent /\ world' = Absent => at = "destroy" \/ plan = Absent]_vars
  BY <1>1
<1>. QED  BY <1>2, Invariance, PTL DEF Spec, DeletesArePlanned

\* With a plan hook that hands it on, the private state lives as long as the object does, unless
\* an error says so.
THEOREM PrivateIsKept == Spec => PrivateSurvives
<1>1. ASSUME IInv, [Next]_vars, author.keeps, private # NoPrivate, state' # Absent
      PROVE  private' # NoPrivate \/ told'
  <2>1. CASE AfterImport
    BY <1>1, <2>1 DEF AfterImport, Answered, IInv, PrivateHasObject
  <2>2. CASE AfterRead
    BY <1>1, <2>2, AnsweredFacts DEF AfterRead, Answered, Truthful
  <2>3. CASE AfterDestroy
    BY <1>1, <2>3 DEF AfterDestroy
  <2>4. CASE AfterApply
    BY <1>1, <2>4, AnsweredFacts DEF AfterApply, Truthful
  <2>5. CASE UNCHANGED private
    BY <1>1, <2>5
  <2>. QED  BY <1>1, <2>1, <2>2, <2>3, <2>4, <2>5
            DEF Next, Handlers, Core, ValidateResourceConfig, ImportResourceState, ReadResource,
                PlanResourceChange, ApplyFails, ApplyDelete, ApplyChange, ProviderDies, Drift, Respond,
                Begin, AfterValidate, AfterPlan, AfterReplan, Approve, Decline, AfterFinalPlan, Stop,
                terraform, vars
<1>2. IInv /\ [Next]_vars
      => [author.keeps /\ private # NoPrivate /\ state' # Absent => private' # NoPrivate \/ told']_vars
  BY <1>1
<1>. QED  BY <1>2, Invariance, PTL DEF Spec, PrivateSurvives

-----------------------------------------------------------------------------
(* What an approved plan is worth at apply, and a faithful apply at the next *)
(* plan: PlansAreAccepted, HonestApplyIsAccepted and PlanConverges.  A plan  *)
(* is made attribute by attribute (PlanAt), so the invariant compares plans, *)
(* results and records attribute by attribute.                               *)

\* The object a plan starts from: none, once the old one is to be replaced.
Prior == IF replace THEN Absent ELSE state

\* What a plan has in an attribute, and what it has there before the hook: the configuration;
\* where that says nothing, the default, or the prior value, or what the hook fills in.
PlanAt(prior, a) ==
  IF a \in WriteOnly THEN Null
  ELSE IF config[a] # Null THEN config[a]
  ELSE IF a \in DOMAIN Default THEN Default[a]
  ELSE IF a \notin Computed THEN Null
  ELSE IF prior # Absent /\ prior[a] # Null THEN prior[a]
  ELSE IF author.fill[a] # Null THEN author.fill[a] ELSE Unknown

BaseAt(prior, a) ==
  IF a \in WriteOnly THEN Null
  ELSE IF config[a] # Null THEN config[a]
  ELSE IF a \in Computed /\ prior # Absent /\ prior[a] # Null THEN prior[a]
  ELSE IF a \in DOMAIN Default THEN Default[a] ELSE Null

Replacing(prior) ==
  IF prior = Absent THEN {}
  ELSE {a \in ReplaceOn : PlanAt(prior, a) # prior[a]}
         \cup {a \in author.asks : BaseAt(prior, a) # prior[a]}

\* A replacement is asked for by the plan, and made from no prior state.
ReplacesInOrder ==
  /\ at \in {"idle", "validate", "import", "read", "plan"} => ~replace
  /\ at = "replan" => replace
  /\ at = "destroy" /\ plan # Absent => replace
  /\ at \in {"finalplan", "apply"} => (replace => state = Absent)

\* An answered plan is made attribute by attribute.
AnswersAsPlanned ==
  at \in Planning /\ reply.status = "ok" =>
    IF config = Absent THEN reply.state = Absent /\ reply.replace = {}
    ELSE /\ reply.state # Absent
         /\ \A a \in Attr : reply.state[a] = PlanAt(Prior, a)
         /\ reply.replace = Replacing(Prior)

\* A plan that waits for its apply would be made again, but for its unknowns; the one that is
\* applied is made from what the configuration has become.
ApprovedPlanStands ==
  /\ at \in {"finalplan", "apply"} => config # Absent
  /\ at \in {"approve", "destroy", "finalplan", "apply"} => (plan = Absent <=> config = Absent)
  /\ at \in {"approve", "destroy", "finalplan"} /\ config # Absent =>
       /\ \A a \in Attr : plan[a] \in {Unknown, PlanAt(Prior, a)}
       /\ Replacing(Prior) = {}
  /\ at = "apply" => \A a \in Attr : plan[a] = PlanAt(Prior, a)

\* What an honest hook makes of a configuration.
Follows(obj, cfg) ==
  /\ obj # Absent
  /\ \A a \in Attr : IF a \in WriteOnly THEN obj[a] = Null
                     ELSE IF EffectiveConfig(cfg)[a] # Null THEN obj[a] = EffectiveConfig(cfg)[a]
                     ELSE a \notin Computed => obj[a] = Null

HonestAnswersFollow ==
  at = "apply" /\ reply.honest =>
    reply.status = "ok" /\ Consistent(plan, reply.state) /\ Follows(reply.state, config)

SettledIsFaithful == settled # Absent => Follows(state, settled)

FInv == ReplacesInOrder /\ AnswersAsPlanned /\ ApprovedPlanStands /\ HonestAnswersFollow
        /\ SettledIsFaithful

-----------------------------------------------------------------------------
\* A plan and its base, attribute by attribute.
LEMMA PlannedAt ==
  ASSUME author \in Author, config \in Config, NEW prior \in Object \cup {Absent}
  PROVE  \A a \in Attr : /\ Planned(prior)[a] = PlanAt(prior, a)
                         /\ BasePlan(Proposed(prior), EffectiveConfig(config))[a] = BaseAt(prior, a)
<1>. DEFINE E == EffectiveConfig(config)
            P == Proposed(prior)
            B == BasePlan(P, E)
            H == Filled(B)
            M == MergeDefaults(H, E)
            F == MarkUnknown(M)
<1>1. config \in PartialObject /\ config # Absent
  BY ConfigAssumption, ObjectFacts
<1>2. \A a \in Attr : IF config[a] = Null /\ a \in DOMAIN Default
                        THEN E[a] = Default[a] /\ a \in Computed ELSE E[a] = config[a]
  BY <1>1, EffectiveConfigFacts
<1>3. \A a \in Attr : P[a] = IF a \in WriteOnly THEN Null
                              ELSE IF config[a] = Null /\ a \in Computed /\ prior # Absent
                                   THEN prior[a] ELSE config[a]
  BY <1>1 DEF Proposed
<1>4. \A a \in Attr : B[a] = IF a \in WriteOnly THEN Null
                              ELSE IF P[a] # Null THEN P[a] ELSE E[a]
  BY DEF BasePlan
<1>5. \A a \in Attr : H[a] = IF B[a] = Null /\ a \in Computed \ DOMAIN Default
                              THEN author.fill[a] ELSE B[a]
  BY DEF Filled
<1>6. \A a \in Attr : M[a] = IF a \in DOMAIN Default /\ E[a] \in Value THEN E[a] ELSE H[a]
  BY DEF MergeDefaults
<1>7. \A a \in Attr : F[a] = IF a \in Computed /\ M[a] = Null THEN Unknown ELSE M[a]
  BY DEF MarkUnknown
<1>8. Planned(prior) = F
  BY DEF Planned, E, P, B, H, M, F
<1>. HIDE DEF E, P, B, H, M, F
<1>9. ASSUME NEW a \in Attr PROVE F[a] = PlanAt(prior, a) /\ B[a] = BaseAt(prior, a)
  <2>1. /\ a \in WriteOnly => a \notin Computed /\ a \notin DOMAIN Default
        /\ a \in DOMAIN Default => a \in Computed /\ Default[a] \in Value
        /\ Null \notin Value
    BY SchemaAssumption, ValueAssumption
  <2>2. B[a] = BaseAt(prior, a)
    BY <1>2, <1>3, <1>4, <2>1 DEF BaseAt
  <2>3. CASE a \in WriteOnly
    BY <1>4, <1>5, <1>6, <1>7, <2>1, <2>2, <2>3 DEF PlanAt
  <2>4. CASE a \notin WriteOnly /\ config[a] # Null
    BY <1>2, <1>5, <1>6, <1>7, <2>2, <2>4 DEF PlanAt, BaseAt
  <2>5. CASE a \notin WriteOnly /\ config[a] = Null /\ a \in DOMAIN Default
    BY <1>2, <1>6, <1>7, <2>1, <2>2, <2>5 DEF PlanAt
  <2>6. CASE a \notin WriteOnly /\ config[a] = Null /\ a \notin DOMAIN Default
    BY <1>2, <1>5, <1>6, <1>7, <2>2, <2>6 DEF PlanAt, BaseAt
  <2>. QED  BY <2>2, <2>3, <2>4, <2>5, <2>6
<1>. QED  BY <1>8, <1>9 DEF E, P, B

\* An answered plan, attribute by attribute.
LEMMA PlanOfAt ==
  ASSUME author \in Author, config \in Config \cup {Absent},
         NEW prior \in Object \cup {Absent}, NEW secret \in Private \cup {NoPrivate},
         PlanOf(prior, secret).status = "ok"
  PROVE  LET r == PlanOf(prior, secret)
         IN IF config = Absent THEN r.state = Absent /\ r.replace = {}
            ELSE /\ r.state # Absent
                 /\ \A a \in Attr : r.state[a] = PlanAt(prior, a)
                 /\ r.replace = Replacing(prior)
<1>. DEFINE r == PlanOf(prior, secret)
<1>1. CASE config = Absent
  <2>1. PlanOf(prior, secret) = Answer(Absent, NoPrivate)
    BY <1>1 DEF PlanOf, Proposed, DecodeAllowingUnknown
  <2>. QED  BY <1>1, <2>1 DEF Answer, Result
<1>2. CASE config # Absent
  <2>. DEFINE base == BasePlan(Proposed(prior), EffectiveConfig(config))
              asked == RequiresReplace(prior, Planned(prior), Asked(prior, base))
  <2>1. r.state # Absent
    BY <1>2, PlanOfFacts DEF ValidPlan
  <2>2. r # Failure /\ r # Answer(Absent, NoPrivate)
    BY <2>1, ReplyFacts DEF Answer, Result
  <2>3. r = [status |-> "ok", state |-> Planned(prior),
             private |-> IF author.keeps THEN secret ELSE NoPrivate,
             replace |-> asked, honest |-> FALSE]
    BY <1>2, <2>2 DEF PlanOf, Finalize, Planned
  <2>4. \A a \in Attr : Planned(prior)[a] = PlanAt(prior, a) /\ base[a] = BaseAt(prior, a)
    BY <1>2, PlannedAt
  <2>5. author.asks \subseteq Attr /\ ReplaceOn \subseteq Attr
    BY AuthorAssumption, SchemaAssumption
  <2>. HIDE DEF base
  <2>6. asked = Replacing(prior)
    BY <2>4, <2>5 DEF RequiresReplace, Asked, Replacing
  <2>. HIDE DEF asked
  <2>. QED  BY <1>2, <2>1, <2>3, <2>4, <2>6
<1>. QED  BY <1>1, <1>2

\* A plan made again, from a configuration that has become known, resolves unknowns only.
LEMMA ResolvedPlan ==
  ASSUME author \in Author, config \in Config, config' \in Resolutions(config), UNCHANGED author,
         NEW prior \in Object \cup {Absent}
  PROVE  /\ \A a \in Attr : PlanAt(prior, a) \in {Unknown, PlanAt(prior, a)'}
         /\ Replacing(prior) = {} => Replacing(prior)' = {}
<1>1. \A a \in Attr : config[a] \in {Unknown, config'[a]}
  BY DEF Resolutions
<1>2. Unknown # Null
  BY ValueAssumption
<1>3. \A a \in Attr : PlanAt(prior, a) \in {Unknown, PlanAt(prior, a)'}
  BY <1>1, <1>2 DEF PlanAt
<1>4. \A a \in Attr : BaseAt(prior, a) \in {Unknown, BaseAt(prior, a)'}
  BY <1>1, <1>2 DEF BaseAt
<1>5. ASSUME Replacing(prior) = {} PROVE Replacing(prior)' = {}
  <2>1. CASE prior = Absent
    BY <2>1 DEF Replacing
  <2>2. CASE prior # Absent
    <3>1. \A a \in Attr : prior[a] # Unknown
      BY <2>2, ValueAssumption DEF Object, Known
    <3>2. author.asks \subseteq Attr /\ ReplaceOn \subseteq Attr
      BY AuthorAssumption, SchemaAssumption
    <3>3. \A a \in ReplaceOn : PlanAt(prior, a) = prior[a]
      BY <1>5, <2>2 DEF Replacing
    <3>4. \A a \in author.asks : BaseAt(prior, a) = prior[a]
      BY <1>5, <2>2 DEF Replacing
    <3>. QED
      BY <1>3, <1>4, <2>2, <3>1, <3>2, <3>3, <3>4 DEF Replacing
  <2>. QED  BY <2>1, <2>2
<1>. QED  BY <1>3, <1>5

\* A plan of the same configuration, from the same object, is the same.
LEMMA SamePlan ==
  ASSUME UNCHANGED <<author, config>>, NEW prior
  PROVE  /\ \A a \in Attr : PlanAt(prior, a)' = PlanAt(prior, a)
         /\ Replacing(prior)' = Replacing(prior)
<1>1. \A a : PlanAt(prior, a)' = PlanAt(prior, a) /\ BaseAt(prior, a)' = BaseAt(prior, a)
  BY DEF PlanAt, BaseAt
<1>. QED  BY <1>1 DEF Replacing

\* Planning what an honest hook has made of the configuration proposes what is there.
LEMMA PlanOfFollowed ==
  ASSUME author \in Author, config \in Config, NEW prior \in Object, Follows(prior, config)
  PROVE  LET open == {a \in Computed : prior[a] = Null}
         IN /\ Replacing(prior) \subseteq open
            /\ \A a \in Attr \ open : PlanAt(prior, a) = prior[a]
<1>. DEFINE open == {a \in Computed : prior[a] = Null}
<1>1. config \in PartialObject /\ prior # Absent
  BY ConfigAssumption, ObjectFacts
<1>2. ASSUME NEW a \in Attr, a \notin open
      PROVE  PlanAt(prior, a) = prior[a] /\ BaseAt(prior, a) = prior[a]
  <2>1. /\ a \in WriteOnly => a \notin Computed /\ a \notin DOMAIN Default
        /\ a \in DOMAIN Default => a \in Computed /\ Default[a] \in Value
        /\ Null \notin Value
    BY SchemaAssumption, ValueAssumption
  <2>2. IF config[a] = Null /\ a \in DOMAIN Default
        THEN EffectiveConfig(config)[a] = Default[a] ELSE EffectiveConfig(config)[a] = config[a]
    BY <1>1, EffectiveConfigFacts
  <2>3. IF a \in WriteOnly THEN prior[a] = Null
        ELSE IF EffectiveConfig(config)[a] # Null THEN prior[a] = EffectiveConfig(config)[a]
        ELSE a \notin Computed => prior[a] = Null
    BY DEF Follows
  <2>4. a \in Computed => prior[a] # Null
    BY <1>2
  <2>. QED  BY <1>1, <2>1, <2>2, <2>3, <2>4 DEF PlanAt, BaseAt
<1>3. author.asks \subseteq Attr /\ ReplaceOn \subseteq Attr
  BY AuthorAssumption, SchemaAssumption
<1>4. Replacing(prior) \subseteq open
  BY <1>1, <1>2, <1>3 DEF Replacing
<1>. QED  BY <1>2, <1>4

\* What an honest hook makes of the plan that was made of the same configuration is accepted.
LEMMA HonestResult ==
  ASSUME author \in Author, config \in Config, plan \in PartialObject,
         \A a \in Attr : plan[a] = PlanAt(Prior, a), NEW obj \in Honest,
         NEW secret \in Private \cup {NoPrivate}
  PROVE  LET r == ApplyResult(plan, obj, secret)
         IN r.status = "ok" /\ Consistent(plan, r.state) /\ Follows(r.state, config)
<1>. DEFINE o == NullWriteOnly(obj)
<1>1. /\ config \in PartialObject /\ plan # Absent
      /\ obj \in Object /\ obj # Absent /\ o \in Object /\ o # Absent /\ o \in PartialObject
  BY ConfigAssumption, ObjectFacts DEF Honest
<1>2. \A a \in Attr : o[a] = IF a \in WriteOnly THEN Null ELSE obj[a]
  BY DEF NullWriteOnly
<1>. HIDE DEF o
<1>3. ASSUME NEW a \in Attr
      PROVE  /\ plan[a] \in {Unknown, o[a]}
             /\ IF a \in WriteOnly THEN o[a] = Null
                ELSE IF EffectiveConfig(config)[a] # Null THEN o[a] = EffectiveConfig(config)[a]
                ELSE a \notin Computed => o[a] = Null
  <2>1. /\ a \in DOMAIN Default => a \in Computed /\ Default[a] \in Value
        /\ Null \notin Value /\ Null # Unknown
    BY SchemaAssumption, ValueAssumption
  <2>2. IF config[a] = Null /\ a \in DOMAIN Default
        THEN EffectiveConfig(config)[a] = Default[a] ELSE EffectiveConfig(config)[a] = config[a]
    BY <1>1, EffectiveConfigFacts
  <2>3. IF EffectiveConfig(config)[a] # Null
        THEN obj[a] = EffectiveConfig(config)[a] \/ (a \in WriteOnly /\ obj[a] = Null)
        ELSE plan[a] = Unknown \/ obj[a] = plan[a]
    BY DEF Honest
  <2>4. plan[a] = PlanAt(Prior, a)
    OBVIOUS
  <2>. QED  BY <1>2, <2>1, <2>2, <2>3, <2>4 DEF PlanAt
<1>4. Refines(plan, o) /\ Consistent(plan, o) /\ Follows(o, config)
  BY <1>1, <1>3 DEF Refines, Consistent, Follows
<1>5. ApplyResult(plan, obj, secret) = Answer(o, secret)
  BY <1>1, <1>4 DEF ApplyResult, o
<1>. QED  BY <1>1, <1>4, <1>5, AnswerFacts

-----------------------------------------------------------------------------
\* An answer to a call: the record stands, and so does what follows from it alone.
LEMMA RespondFollows ==
  ASSUME FInv, NEW r, Respond(r), UNCHANGED settled,
         at \in Planning /\ r.status = "ok" =>
           IF config = Absent THEN r.state = Absent /\ r.replace = {}
           ELSE /\ r.state # Absent
                /\ \A a \in Attr : r.state[a] = PlanAt(Prior, a)
                /\ r.replace = Replacing(Prior),
         at = "apply" /\ r.honest =>
           r.status = "ok" /\ Consistent(plan, r.state) /\ Follows(r.state, config)
  PROVE  FInv'
<1>1. /\ reply' = r
      /\ UNCHANGED <<author, state, private, config, plan, planned, replace, at, told, settled>>
  BY DEF Respond, terraform, operation
<1>2. Prior' = Prior
  BY <1>1 DEF Prior
<1>3. \A a \in Attr : PlanAt(Prior, a)' = PlanAt(Prior, a)
  BY <1>1, <1>2 DEF PlanAt
<1>4. Replacing(Prior)' = Replacing(Prior)
  <2>1. \A a : PlanAt(Prior, a)' = PlanAt(Prior, a) /\ BaseAt(Prior, a)' = BaseAt(Prior, a)
    BY <1>1, <1>2 DEF PlanAt, BaseAt
  <2>. QED  BY <1>1, <1>2, <2>1 DEF Replacing
<1>5. ReplacesInOrder'
  BY <1>1 DEF FInv, ReplacesInOrder
<1>6. AnswersAsPlanned'
  BY <1>1, <1>3, <1>4 DEF AnswersAsPlanned
<1>7. ApprovedPlanStands'
  BY <1>1, <1>3, <1>4 DEF FInv, ApprovedPlanStands
<1>8. HonestAnswersFollow'
  BY <1>1 DEF HonestAnswersFollow, Consistent, Follows
<1>9. SettledIsFaithful'
  BY <1>1 DEF FInv, SettledIsFaithful, Follows
<1>. QED  BY <1>5, <1>6, <1>7, <1>8, <1>9 DEF FInv

LEMMA HandlersFollow == IInv /\ FInv /\ (Handlers \/ ProviderDies) => FInv'
<1>. SUFFICES ASSUME IInv, FInv PROVE (Handlers \/ ProviderDies) => FInv'
  OBVIOUS
<1>1. /\ author \in Author /\ config \in Config \cup {Absent} /\ plan \in PartialObject \cup {Absent}
      /\ state \in Object \cup {Absent} /\ private \in Private \cup {NoPrivate}
      /\ planned \in Private \cup {NoPrivate}
  BY DEF IInv, TypeOK
<1>2. /\ Failure.status = "error" /\ Failure.honest = FALSE
      /\ Deferral.status = "deferred" /\ Deferral.honest = FALSE
  BY DEF Failure, Deferral, Result
<1>3. ASSUME Respond(Failure) \/ Respond(Deferral), UNCHANGED settled PROVE FInv'
  BY <1>2, <1>3, RespondFollows
<1>4. ASSUME ValidateResourceConfig \/ ImportResourceState \/ ReadResource PROVE FInv'
  <2>1. /\ at \notin Planning \cup {"apply"} /\ UNCHANGED settled
        /\ \E r : Respond(r)
    BY <1>4 DEF ValidateResourceConfig, ImportResourceState, ReadResource, Pending, Planning
  <2>. QED  BY <2>1, RespondFollows
<1>5. ASSUME PlanResourceChange PROVE FInv'
  <2>. DEFINE secret == IF at = "replan" THEN planned ELSE private
              r == PlanOf(Prior, secret)
  <2>1. at \in Planning /\ at # "apply" /\ UNCHANGED settled
    BY <1>5 DEF PlanResourceChange, Pending, Planning
  <2>2. Prior = IF at = "replan" THEN Absent ELSE state
    BY <2>1 DEF Prior, FInv, ReplacesInOrder, Planning
  <2>3. Prior \in Object \cup {Absent} /\ secret \in Private \cup {NoPrivate}
    BY <1>1 DEF Prior
  <2>4. Respond(r) \/ Respond(Failure) \/ Respond(Deferral)
    BY <1>5, <2>2 DEF PlanResourceChange
  <2>. HIDE DEF secret
  <2>5. r.status = "ok" =>
          IF config = Absent THEN r.state = Absent /\ r.replace = {}
          ELSE /\ r.state # Absent
               /\ \A a \in Attr : r.state[a] = PlanAt(Prior, a)
               /\ r.replace = Replacing(Prior)
    BY <1>1, <2>3, PlanOfAt
  <2>. HIDE DEF r
  <2>. QED  BY <1>3, <2>1, <2>4, <2>5, RespondFollows
<1>6. ASSUME ApplyFails \/ ProviderDies PROVE FInv'
  BY <1>3, <1>6 DEF ApplyFails, ProviderDies
<1>7. ASSUME ApplyDelete PROVE FInv'
  <2>1. UNCHANGED settled /\ (\E r : Respond(r)) /\ at \in {"apply", "destroy"} /\ at \notin Planning
    BY <1>7 DEF ApplyDelete, Pending, Planning
  <2>2. at # "apply"
    BY <1>1, <1>7, DeletesAreNull DEF ApplyDelete, FInv, ApprovedPlanStands
  <2>. QED  BY <2>1, <2>2, RespondFollows
<1>8. ASSUME ApplyChange PROVE FInv'
  <2>1. /\ at = "apply" /\ at \notin Planning /\ UNCHANGED settled
        /\ config \in Config /\ plan \in PartialObject
        /\ \A a \in Attr : plan[a] = PlanAt(Prior, a)
    BY <1>1, <1>8 DEF ApplyChange, Pending, Planning, FInv, ApprovedPlanStands
  <2>2. PICK obj \in Honest, secret \in {planned} \cup (IF state = Absent THEN Private ELSE {}) :
          \/ Respond(ByHonest(ApplyResult(plan, obj, secret)))
          \/ Respond(Failure)
          \/ \E s \in {secret, NoPrivate} : Respond(WithError(ApplyResult(plan, obj, s)))
          \/ \E other \in {Absent} \cup {[obj EXCEPT ![a] = v] : a \in Attr, v \in Known} :
               Respond(ApplyResult(plan, other, secret))
    BY <1>8 DEF ApplyChange
  <2>3. \A o, s : ApplyResult(plan, o, s).honest = FALSE
    BY DEF ApplyResult, Answer, Failure, Result
  <2>4. \A o, s : WithError(ApplyResult(plan, o, s)).honest = FALSE
    BY DEF ApplyResult, Answer, Failure, Result, WithError
  <2>5. CASE Respond(ByHonest(ApplyResult(plan, obj, secret)))
    <3>. DEFINE r == ApplyResult(plan, obj, secret)
    <3>1. r.status = "ok" /\ Consistent(plan, r.state) /\ Follows(r.state, config)
      BY <1>1, <2>1, HonestResult
    <3>2. ByHonest(r).status = r.status /\ ByHonest(r).state = r.state
      BY DEF ByHonest, ApplyResult, Answer, Failure, Result
    <3>. HIDE DEF r
    <3>3. Respond(ByHonest(r))
      BY <2>5 DEF r
    <3>. QED  BY <2>1, <3>1, <3>2, <3>3, RespondFollows
  <2>. QED  BY <1>3, <2>1, <2>2, <2>3, <2>4, <2>5, RespondFollows
<1>. QED  BY <1>4, <1>5, <1>6, <1>7, <1>8 DEF Handlers

-----------------------------------------------------------------------------
\* A call that has not been answered says nothing.
LEMMA GotoFollows ==
  ASSUME NEW call, Goto(call), ReplacesInOrder', ApprovedPlanStands', SettledIsFaithful'
  PROVE  FInv'
<1>1. reply'.status = "none" /\ reply'.honest = FALSE
  BY DEF Goto, NoReply, Result
<1>. QED  BY <1>1 DEF FInv, AnswersAsPlanned, HonestAnswersFollow

\* The end of an operation keeps what is known of the record.
LEMMA FinishFollows ==
  ASSUME Finish, SettledIsFaithful' PROVE FInv'
<1>1. Goto("idle") /\ at' = "idle" /\ ~replace'
  BY DEF Finish, Goto
<1>2. ReplacesInOrder' /\ ApprovedPlanStands'
  BY <1>1 DEF ReplacesInOrder, ApprovedPlanStands
<1>. QED  BY <1>1, <1>2, GotoFollows

\* Calls that come before there is a plan.
LEMMA EarlyFollows ==
  ASSUME NEW call \in {"validate", "import", "read", "plan"}, Goto(call), ~replace', SettledIsFaithful'
  PROVE  FInv'
<1>1. at' = call
  BY DEF Goto
<1>2. ReplacesInOrder' /\ ApprovedPlanStands'
  BY <1>1 DEF ReplacesInOrder, ApprovedPlanStands
<1>. QED  BY <1>2, GotoFollows

LEMMA CoreFollows == IInv /\ FInv /\ Core => FInv'
<1>. SUFFICES ASSUME IInv, FInv PROVE Core => FInv'
  OBVIOUS
<1>1. /\ author \in Author /\ config \in Config \cup {Absent} /\ plan \in PartialObject \cup {Absent}
      /\ state \in Object \cup {Absent} /\ Absent \notin Config
  BY ObjectFacts DEF IInv, TypeOK
<1>2. UNCHANGED <<state, settled>> => SettledIsFaithful'
  BY DEF FInv, SettledIsFaithful, Follows
<1>3. ASSUME Begin PROVE FInv'
  <2>1. at = "idle" /\ UNCHANGED <<state, settled, replace>>
    BY <1>3 DEF Begin
  <2>2. \E call \in {"read", "plan", "validate"} : Goto(call)
    BY <1>3 DEF Begin
  <2>. QED  BY <1>2, <2>1, <2>2, EarlyFollows DEF FInv, ReplacesInOrder
<1>4. ASSUME AfterValidate PROVE FInv'
  <2>1. at = "validate" /\ UNCHANGED <<state, settled, replace>>
    BY <1>4 DEF AfterValidate, Answered, Continue, operation
  <2>2. \E call \in {"plan", "import", "read"} : Goto(call)
    BY <1>4 DEF AfterValidate, Continue
  <2>. QED  BY <1>2, <2>1, <2>2, EarlyFollows DEF FInv, ReplacesInOrder
<1>5. ASSUME AfterImport PROVE FInv'
  <2>1. at = "import" /\ settled' = Absent
    BY <1>5 DEF AfterImport, Answered
  <2>2. Finish \/ (Goto("read") /\ UNCHANGED replace)
    BY <1>5 DEF AfterImport, Continue, operation
  <2>3. SettledIsFaithful'
    BY <2>1 DEF SettledIsFaithful
  <2>. QED  BY <2>1, <2>2, <2>3, EarlyFollows, FinishFollows DEF FInv, ReplacesInOrder
<1>6. ASSUME AfterRead PROVE FInv'
  <2>1. /\ at = "read" /\ state' = reply.state
        /\ settled' = IF reply.state = state THEN settled ELSE Absent
    BY <1>6 DEF AfterRead, Answered
  <2>2. Finish \/ (Goto("plan") /\ UNCHANGED replace)
    BY <1>6 DEF AfterRead, Continue, operation
  <2>3. SettledIsFaithful'
    BY <1>2, <2>1 DEF SettledIsFaithful
  <2>. QED  BY <2>1, <2>2, <2>3, EarlyFollows, FinishFollows DEF FInv, ReplacesInOrder
<1>7. ASSUME AfterDestroy PROVE FInv'
  <2>1. /\ at = "destroy" /\ state' = Absent /\ settled' = Absent /\ UNCHANGED author
        /\ IF config = Absent THEN Finish ELSE Goto("finalplan") /\ UNCHANGED <<config, plan, replace>>
    BY <1>7 DEF AfterDestroy, Answered, Continue, operation
  <2>2. SettledIsFaithful'
    BY <2>1 DEF SettledIsFaithful
  <2>3. CASE config # Absent
    <3>1. plan # Absent /\ replace
      BY <2>1, <2>3 DEF FInv, ApprovedPlanStands, ReplacesInOrder
    <3>2. at' = "finalplan" /\ Goto("finalplan") /\ UNCHANGED <<config, plan, replace>>
      BY <2>1, <2>3 DEF Goto
    <3>3. Prior = Absent /\ Prior' = Absent
      BY <3>1, <3>2 DEF Prior
    <3>4. /\ \A a \in Attr : PlanAt(Absent, a)' = PlanAt(Absent, a)
          /\ Replacing(Absent)' = Replacing(Absent)
      BY <2>1, <3>2, SamePlan
    <3>5. /\ \A a \in Attr : PlanAt(Prior, a)' = PlanAt(Prior, a)
          /\ Replacing(Prior)' = Replacing(Prior)
      BY <3>3, <3>4 DEF PlanAt, Replacing
    <3>6. ReplacesInOrder'
      BY <2>1, <3>2 DEF ReplacesInOrder
    <3>7. ApprovedPlanStands'
      BY <2>1, <2>3, <3>2, <3>5 DEF FInv, ApprovedPlanStands
    <3>. QED  BY <2>2, <3>2, <3>6, <3>7, GotoFollows
  <2>. QED  BY <2>1, <2>2, <2>3, FinishFollows
<1>8. ASSUME AfterApply PROVE FInv'
  <2>1. /\ at = "apply" /\ Finish
        /\ LET fine == reply.status = "ok" /\ Consistent(plan, reply.state)
           IN /\ IF fine \/ reply.state # Absent THEN state' = reply.state ELSE state' = state
              /\ settled' = IF fine /\ reply.honest THEN config
                            ELSE IF state' = state THEN settled ELSE Absent
    BY <1>8 DEF AfterApply
  <2>2. reply.honest => Follows(reply.state, config)
    BY <2>1 DEF FInv, HonestAnswersFollow
  <2>3. SettledIsFaithful'
    BY <1>2, <2>1, <2>2 DEF FInv, SettledIsFaithful, Follows
  <2>. QED  BY <2>1, <2>3, FinishFollows
<1>9. ASSUME Decline \/ Stop PROVE FInv'
  BY <1>2, <1>9, FinishFollows DEF Decline, Stop
<1>10. ASSUME Approve PROVE FInv'
  <2>1. /\ at = "approve" /\ UNCHANGED <<author, state, plan, replace, settled>>
        /\ config' \in IF config = Absent THEN {Absent} ELSE Resolutions(config)
        /\ Goto(IF plan = Absent \/ replace THEN "destroy" ELSE "finalplan")
    BY <1>10 DEF Approve
  <2>2. at' = IF plan = Absent \/ replace THEN "destroy" ELSE "finalplan"
    BY <2>1 DEF Goto
  <2>3. (plan = Absent <=> config = Absent) /\ (config' = Absent <=> config = Absent)
    BY <1>1, <2>1 DEF FInv, ApprovedPlanStands, Resolutions
  <2>4. Prior' = Prior /\ Prior \in Object \cup {Absent}
    BY <1>1, <2>1 DEF Prior
  <2>5. ReplacesInOrder'
    BY <2>1, <2>2 DEF ReplacesInOrder
  <2>6. CASE config = Absent
    BY <2>2, <2>3, <2>6, <2>1, <1>2, <2>5, GotoFollows DEF ApprovedPlanStands
  <2>7. CASE config # Absent
    <3>1. \A prior \in Object \cup {Absent} :
            /\ \A a \in Attr : PlanAt(prior, a) \in {Unknown, PlanAt(prior, a)'}
            /\ Replacing(prior) = {} => Replacing(prior)' = {}
      BY <1>1, <2>1, <2>7, ResolvedPlan
    <3>2. \A a \in Attr : PlanAt(Prior, a) \in {Unknown, PlanAt(Prior, a)'}
      BY <2>4, <3>1 DEF PlanAt
    <3>3. Replacing(Prior) = {} => Replacing(Prior)' = {}
      BY <2>4, <3>1 DEF Replacing, PlanAt, BaseAt
    <3>4. /\ \A a \in Attr : plan[a] \in {Unknown, PlanAt(Prior, a)}
          /\ Replacing(Prior) = {}
      BY <2>1, <2>7 DEF FInv, ApprovedPlanStands
    <3>5. ApprovedPlanStands'
      BY <2>1, <2>2, <2>3, <2>7, <3>2, <3>3, <3>4 DEF ApprovedPlanStands
    <3>. QED  BY <1>2, <2>1, <2>5, <3>5, GotoFollows
  <2>. QED  BY <2>6, <2>7
<1>11. ASSUME NEW call \in {"replan", "approve", "apply"}, Accept(call), reply.status = "ok",
              at \in Planning, UNCHANGED <<author, state, settled>>,
              call = "replan" => at = "plan" /\ reply.replace # {},
              call = "approve" => at = "replan" \/ (at = "plan" /\ reply.replace = {}),
              call = "apply" => at = "finalplan"
       PROVE  FInv'
  <2>1. /\ Goto(call) /\ at' = call /\ UNCHANGED config
        /\ plan' = reply.state /\ replace' = (replace \/ reply.replace # {})
    BY <1>11 DEF Accept, Goto
  <2>2. IF config = Absent THEN reply.state = Absent /\ reply.replace = {}
        ELSE /\ reply.state # Absent
             /\ \A a \in Attr : reply.state[a] = PlanAt(Prior, a)
             /\ reply.replace = Replacing(Prior)
    BY <1>11 DEF FInv, AnswersAsPlanned
  <2>3. CASE call = "replan"
    BY <1>2, <1>11, <2>1, <2>3, GotoFollows DEF ReplacesInOrder, ApprovedPlanStands
  <2>4. CASE call # "replan"
    <3>1. replace \in BOOLEAN /\ replace' = replace
      <4>1. replace \in BOOLEAN
        BY DEF IInv, TypeOK
      <4>2. CASE at = "replan"
        BY <2>1, <4>1, <4>2 DEF FInv, ReplacesInOrder
      <4>3. CASE at = "plan"
        BY <1>11, <2>1, <2>4, <4>1, <4>3
      <4>4. CASE at = "finalplan"
        <5>1. reply.replace = {}
          BY <2>2, <4>4 DEF FInv, ApprovedPlanStands
        <5>. QED  BY <2>1, <4>1, <5>1
      <4>. QED  BY <1>11, <4>1, <4>2, <4>3, <4>4
    <3>2. Prior' = Prior
      BY <1>11, <3>1 DEF Prior
    <3>3. \A a \in Attr : PlanAt(Prior, a)' = PlanAt(Prior, a)
      BY <1>11, <2>1, <3>2 DEF PlanAt
    <3>4. Replacing(Prior)' = Replacing(Prior)
      <4>1. \A a : PlanAt(Prior, a)' = PlanAt(Prior, a) /\ BaseAt(Prior, a)' = BaseAt(Prior, a)
        BY <1>11, <2>1, <3>2 DEF PlanAt, BaseAt
      <4>. QED  BY <1>11, <3>2, <4>1 DEF Replacing
    <3>5. call = "approve" /\ config # Absent => Replacing(Prior) = {}
      BY <1>11, <2>2 DEF FInv, ReplacesInOrder, Replacing, Prior
    <3>6. call = "apply" => config # Absent
      BY <1>11 DEF FInv, ApprovedPlanStands
    <3>7. ApprovedPlanStands'
      BY <1>11, <2>1, <2>2, <2>4, <3>3, <3>4, <3>5, <3>6 DEF ApprovedPlanStands
    <3>8. ReplacesInOrder'
      BY <1>11, <2>1, <2>4, <3>1 DEF FInv, ReplacesInOrder
    <3>. QED  BY <1>2, <1>11, <2>1, <3>7, <3>8, GotoFollows
  <2>. QED  BY <2>3, <2>4
<1>12. ASSUME AfterPlan PROVE FInv'
  <2>1. /\ at = "plan" /\ at \in Planning /\ reply.status = "ok" /\ UNCHANGED <<author, state, settled>>
        /\ \/ Finish
           \/ Accept("replan") /\ reply.replace # {}
           \/ Accept("approve") /\ reply.replace = {}
    BY <1>12 DEF AfterPlan, Answered, Planning
  <2>. QED  BY <1>2, <1>11, <2>1, FinishFollows
<1>13. ASSUME AfterReplan PROVE FInv'
  BY <1>11, <1>13 DEF AfterReplan, Answered, Planning
<1>14. ASSUME AfterFinalPlan PROVE FInv'
  <2>1. /\ at = "finalplan" /\ at \in Planning /\ reply.status = "ok"
        /\ UNCHANGED <<author, state, settled>> /\ (Finish \/ Accept("apply"))
    BY <1>14 DEF AfterFinalPlan, Answered, Planning
  <2>. QED  BY <1>2, <1>11, <2>1, FinishFollows
<1>. QED  BY <1>3, <1>4, <1>5, <1>6, <1>7, <1>8, <1>9, <1>10, <1>12, <1>13, <1>14 DEF Core

LEMMA FInvInit == Init => FInv
BY ReplyFacts DEF Init, NoReply, Result, FInv, ReplacesInOrder, AnswersAsPlanned, ApprovedPlanStands,
   HonestAnswersFollow, SettledIsFaithful

LEMMA FInvNext == IInv /\ FInv /\ [Next]_vars => FInv'
<1>. SUFFICES ASSUME IInv, FInv PROVE [Next]_vars => FInv'
  OBVIOUS
<1>1. ASSUME UNCHANGED <<author, config, state, replace, plan, at, reply, settled>> PROVE FInv'
  <2>1. Prior' = Prior
    BY <1>1 DEF Prior
  <2>2. \A a : PlanAt(Prior, a)' = PlanAt(Prior, a) /\ BaseAt(Prior, a)' = BaseAt(Prior, a)
    BY <1>1, <2>1 DEF PlanAt, BaseAt
  <2>3. Replacing(Prior)' = Replacing(Prior)
    BY <1>1, <2>1, <2>2 DEF Replacing
  <2>4. ReplacesInOrder' /\ SettledIsFaithful'
    BY <1>1 DEF FInv, ReplacesInOrder, SettledIsFaithful, Follows
  <2>5. AnswersAsPlanned' /\ ApprovedPlanStands'
    BY <1>1, <2>2, <2>3 DEF FInv, AnswersAsPlanned, ApprovedPlanStands
  <2>6. HonestAnswersFollow'
    BY <1>1 DEF FInv, HonestAnswersFollow, Consistent, Follows
  <2>. QED  BY <2>4, <2>5, <2>6 DEF FInv
<1>2. Drift \/ UNCHANGED vars
        => UNCHANGED <<author, config, state, replace, plan, at, reply, settled>>
  BY DEF Drift, vars, terraform, operation
<1>. QED  BY <1>1, <1>2, HandlersFollow, CoreFollows DEF Next

THEOREM Faithfulness == Spec => []FInv
BY Invariance, FInvInit, FInvNext, PTL DEF Spec

\* Whatever the author's hook fills in and asks for, Terraform accepts every plan, and the one
\* made again at apply only resolves unknowns and asks for no new replacement.
THEOREM PlansAccepted == Spec => []PlansAreAccepted
<1>1. ASSUME IInv, FInv PROVE PlansAreAccepted
  <2>1. ASSUME reply.status = "ok", at \in Planning PROVE ValidPlan(reply.state)
    BY <1>1, <2>1, AnsweredFacts DEF Truthful
  <2>2. ASSUME reply.status = "ok", at = "finalplan"
        PROVE  Consistent(plan, reply.state) /\ reply.replace = {}
    BY <1>1, <2>2 DEF FInv, AnswersAsPlanned, ApprovedPlanStands, Consistent, Planning
  <2>. QED  BY <2>1, <2>2 DEF PlansAreAccepted, Planning
<1>. QED  BY <1>1, Invariance, Faithfulness, PTL

\* A hook that makes what the configuration and the plan say is never refused.
THEOREM HonestHooksAccepted == Spec => []HonestApplyIsAccepted
<1>1. FInv => HonestApplyIsAccepted
  BY DEF FInv, HonestAnswersFollow, HonestApplyIsAccepted
<1>. QED  BY <1>1, Faithfulness, PTL

\* After a faithful apply the same configuration plans nothing, except for computed attributes
\* that were applied as null.
THEOREM PlansConverge == Spec => []PlanConverges
<1>1. ASSUME IInv, FInv PROVE PlanConverges
  <2>. SUFFICES ASSUME at = "plan", reply.status = "ok", settled # Absent, config = settled
                PROVE  LET open == {a \in Computed : state[a] = Null}
                       IN /\ reply.replace \subseteq open
                          /\ \A a \in Attr \ open : reply.state[a] = state[a]
    BY DEF PlanConverges
  <2>1. /\ author \in Author /\ config \in Config /\ state \in Object \cup {Absent}
        /\ Follows(state, config)
    BY <1>1 DEF IInv, TypeOK, FInv, SettledIsFaithful
  <2>2. state \in Object /\ Prior = state
    BY <1>1, <2>1 DEF Follows, FInv, ReplacesInOrder, Prior
  <2>3. /\ \A a \in Attr : reply.state[a] = PlanAt(state, a)
        /\ reply.replace = Replacing(state)
    BY <1>1, <2>1, <2>2, ObjectFacts DEF FInv, AnswersAsPlanned, Planning
  <2>. QED  BY <2>1, <2>2, <2>3, PlanOfFollowed
<1>. QED  BY <1>1, Invariance, Faithfulness, PTL

=============================================================================
