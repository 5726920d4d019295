------------------------------ MODULE ResourceRpc ------------------------------
(***************************************************************************)
(* One managed resource through its RPCs: ValidateResourceConfig,          *)
(* ImportResourceState, ReadResource, PlanResourceChange and               *)
(* ApplyResourceChange.  Terraform makes one call at a time, from what it  *)
(* has on record; the handlers run the hooks of the resource's author      *)
(* against the real object; a call may be answered, fail before or after   *)
(* its hook has changed the world, or die with the provider.  The secret   *)
(* that encrypts private states stays the same.                            *)
(***************************************************************************)
EXTENDS PlanLogic

CONSTANTS
  Config,    \* the configurations a practitioner writes
  Private,   \* private states
  NoPrivate, \* no private state
  Author     \* what the resource's author may have written

ASSUME ConfigAssumption == Config \subseteq PartialObject
ASSUME PrivateAssumption == NoPrivate \notin Private

\* fill: what the author's plan hook puts into computed attributes that are still null; asks:
\* the attributes whose change makes it call ctx.require_replace(); keeps: whether it hands
\* ctx.private_state on, as BaseResource's own hook does not.
ASSUME AuthorAssumption == Author \subseteq [fill : Object, asks : SUBSET Attr, keeps : BOOLEAN]

VARIABLES
  author,   \* the author's plan hook
  world,    \* the real object, or Absent
  state,    \* the object Terraform has on record
  private,  \* the private state on record with it
  config,   \* the configuration of the operation, or Absent
  plan,     \* the planned state Terraform has accepted
  planned,  \* the private state of that plan
  replace,  \* the plan is to destroy the object and create another
  at,       \* the call Terraform has made, or "idle", or "approve" between plan and apply
  reply,    \* its answer, if it has come
  told,     \* Terraform has been told of an error since it last knew the object
  settled   \* the configuration that the state on record is the faithful result of

operation == <<config, plan, planned, replace>>
terraform == <<state, private, operation, at, told>>
vars == <<author, world, terraform, reply, settled>>

Calls == {"validate", "import", "read", "plan", "replan", "destroy", "finalplan", "apply"}

\* honest: the hook did what the framework asks of it.
Reply == [status : {"none", "ok", "error", "deferred"}, state : PartialObject \cup {Absent},
          private : Private \cup {NoPrivate}, replace : SUBSET Attr, honest : BOOLEAN]

Result(status, obj, secret) ==
  [status |-> status, state |-> obj, private |-> secret, replace |-> {}, honest |-> FALSE]

NoReply == Result("none", Absent, NoPrivate)
Failure == Result("error", Absent, NoPrivate)
Deferral == Result("deferred", Absent, NoPrivate)
Answer(obj, secret) == Result("ok", obj, secret)

\* An answer by a hook that did as it should, and one with an error beside the object.
ByHonest(r) == [r EXCEPT !.honest = TRUE]
WithError(r) == [r EXCEPT !.status = "error"]

TypeOK ==
  /\ author \in Author
  /\ world \in Object \cup {Absent} /\ state \in Object \cup {Absent}
  /\ private \in Private \cup {NoPrivate} /\ planned \in Private \cup {NoPrivate}
  /\ config \in Config \cup {Absent}
  /\ plan \in PartialObject \cup {Absent}
  /\ replace \in BOOLEAN /\ told \in BOOLEAN
  /\ at \in Calls \cup {"idle", "approve"}
  /\ reply \in Reply
  /\ settled \in Config \cup {Absent}

\* Nothing is on record; an object may exist that Terraform has not made.
Init ==
  /\ author \in Author
  /\ world \in {Absent} \cup {NullWriteOnly(EffectiveConfig(c)) : c \in {d \in Config : ~HasUnknown(d)}}
  /\ state = Absent /\ private = NoPrivate
  /\ config = Absent /\ plan = Absent /\ planned = NoPrivate /\ replace = FALSE
  /\ at = "idle" /\ reply = NoReply
  /\ told = (world # Absent)
  /\ settled = Absent

Pending(call) == at = call /\ reply = NoReply
Respond(r) == reply' = r /\ UNCHANGED <<author, terraform>>

-----------------------------------------------------------------------------
\* ValidateResourceConfig: a missing required value is refused; the author's own rules see
\* only a configuration that is wholly known.
ValidateResourceConfig ==
  /\ Pending("validate")
  /\ \/ Respond(IF MissingInConfig(EffectiveConfig(config)) THEN Failure
                                                            ELSE Answer(Absent, NoPrivate))
     \/ Decode(EffectiveConfig(config)) # Absent /\ Respond(Failure)
  /\ UNCHANGED <<world, settled>>

\* ImportResourceState: what import_state() finds, as it is, with private state if it gives any.
\* The hook may also fail, or defer.
ImportResourceState ==
  /\ Pending("import")
  /\ \/ \E secret \in Private \cup {NoPrivate} :
          Respond(IF world = Absent THEN Failure ELSE Answer(world, secret))
     \/ Respond(Failure)
     \/ Respond(Deferral)
  /\ UNCHANGED <<world, settled>>

\* Mutant: the private state is not sent back.
ReadResourceWithoutPrivate ==
  /\ Pending("read")
  /\ Respond(Answer(IF world = Absent THEN Absent ELSE NullWriteOnly(world), NoPrivate))
  /\ UNCHANGED <<world, settled>>

\* ReadResource: what read() finds, without write-only values; the private state goes back as
\* it came.  The hook may also fail, or defer.
ReadResource ==
  /\ Pending("read")
  /\ \/ Respond(Answer(IF world = Absent THEN Absent ELSE NullWriteOnly(world), private))
     \/ Respond(Failure)
     \/ Respond(Deferral)
  /\ UNCHANGED <<world, settled>>

-----------------------------------------------------------------------------
\* What Terraform Core asks to be planned: the configuration, and where it leaves a computed
\* attribute out, the prior value.
Proposed(prior) ==
  IF config = Absent THEN Absent
  ELSE [a \in Attr |-> IF a \in WriteOnly THEN Null
                       ELSE IF config[a] = Null /\ a \in Computed /\ prior # Absent
                            THEN prior[a] ELSE config[a]]

\* The author's _create or _update hook of a plan.
Filled(base) == [a \in Attr |-> IF base[a] = Null /\ a \in Computed \ DOMAIN Default
                                THEN author.fill[a] ELSE base[a]]
Asked(prior, base) == {a \in author.asks : prior # Absent /\ base[a] # prior[a]}

\* _finalize_planned_state: the plan a hook returned, brought into line with the effective
\* configuration, completed with unknowns and checked.
Finalize(prior, hooked, effective, asked, secret) ==
  LET final == MarkUnknown(MergeDefaults(hooked, effective))
  IN IF MissingInState(final) THEN Failure
     ELSE [status |-> "ok", state |-> final, private |-> secret,
           replace |-> RequiresReplace(prior, final, asked), honest |-> FALSE]

\* BaseResource.plan and what the handler makes of its result: a plan to delete when neither
\* the decoded configuration nor the decoded proposal is there.
PlanOf(prior, secret) ==
  LET proposed == Proposed(prior)
      effective == IF config = Absent THEN Absent ELSE EffectiveConfig(config)
  IN IF (effective = Absent \/ Decode(effective) = Absent) /\ DecodeAllowingUnknown(proposed) = Absent
     THEN Answer(Absent, NoPrivate)
     ELSE LET base == BasePlan(proposed, effective)
          IN Finalize(prior, Filled(base), effective, Asked(prior, base),
                      IF author.keeps THEN secret ELSE NoPrivate)

\* PlanResourceChange, for the first plan, the second one of a replacement, from no prior
\* state, and the one Terraform asks for again when it applies.  The hook may reject the
\* configuration, fail, or defer.
PlanResourceChange ==
  /\ Pending("plan") \/ Pending("replan") \/ Pending("finalplan")
  /\ LET prior == IF at = "replan" THEN Absent ELSE state
         secret == IF at = "replan" THEN planned ELSE private
     IN \/ Respond(PlanOf(prior, secret))
        \/ Respond(Failure)
        \/ Respond(Deferral)
  /\ UNCHANGED <<world, settled>>

-----------------------------------------------------------------------------
\* What an honest create or update hook makes: what ctx.config says, the plan where that says
\* nothing, and anything where the plan left it open.
Honest ==
  LET effective == EffectiveConfig(config)
  IN {obj \in Object : \A a \in Attr :
        IF effective[a] # Null THEN obj[a] = effective[a] \/ (a \in WriteOnly /\ obj[a] = Null)
        ELSE plan[a] = Unknown \/ obj[a] = plan[a]}

\* _handle_apply_result: the hook's object, without write-only values, if it refines the plan.
ApplyResult(target, result, secret) ==
  IF result = Absent THEN Answer(Absent, secret)
  ELSE IF Refines(target, NullWriteOnly(result)) THEN Answer(NullWriteOnly(result), secret)
  ELSE Failure

\* BaseResource.apply decides by the decoded planned state whether to delete.
IsDelete(target) == DecodeAllowingUnknown(target) = Absent

\* Mutant: a failed delete is answered with the null state and no diagnostic.
ApplyFailsSilently ==
  /\ Pending("apply") \/ Pending("destroy")
  /\ Respond(Answer(Absent, NoPrivate))
  /\ UNCHANGED <<world, settled>>

\* A hook fails before it has changed anything.
ApplyFails ==
  /\ Pending("apply") \/ Pending("destroy")
  /\ Respond(Failure)
  /\ UNCHANGED <<world, settled>>

\* ApplyResourceChange of a delete: the object goes, and the hook may fail all the same.
ApplyDelete ==
  /\ Pending("apply") \/ Pending("destroy")
  /\ IsDelete(IF at = "destroy" THEN Absent ELSE plan)
  /\ world' = Absent
  /\ \/ Respond(ByHonest(ApplyResult(Absent, Absent, NoPrivate)))
     \/ Respond(Failure)
  /\ UNCHANGED settled

\* ApplyResourceChange of a create or an update: the hook changes the object and returns it,
\* or fails afterwards, or reports an error next to the object, or returns something else, or
\* a private state that cannot be stored.  A create finds no object in its place, an update the
\* one it is to change.
ApplyChange ==
  /\ Pending("apply") /\ ~IsDelete(plan)
  /\ (state = Absent) = (world = Absent)
  /\ \E obj \in Honest, secret \in {planned} \cup (IF state = Absent THEN Private ELSE {}) :
       /\ world' = obj
       /\ \/ Respond(ByHonest(ApplyResult(plan, obj, secret)))
          \/ Respond(Failure)
          \/ \E s \in {secret, NoPrivate} : Respond(WithError(ApplyResult(plan, obj, s)))
          \/ \E other \in {Absent} \cup {[obj EXCEPT ![a] = v] : a \in Attr, v \in Known} :
               Respond(ApplyResult(plan, other, secret))
  /\ UNCHANGED settled

\* The provider dies: Terraform sees the call fail, whatever it has done.
ProviderDies ==
  /\ at \in Calls /\ reply # Failure
  /\ Respond(Failure) /\ UNCHANGED <<world, settled>>

\* The object changes, or goes, behind Terraform's back: between operations, and while a plan
\* waits for approval.
Drift ==
  /\ at \in {"idle", "approve"} /\ world # Absent
  /\ world' \in {Absent} \cup {[world EXCEPT ![a] = v] : a \in Computed, v \in Value}
  /\ UNCHANGED <<author, terraform, reply, settled>>

-----------------------------------------------------------------------------
\* Terraform Core's side.  It takes an answer, moves on to the next call, or stops.
Answered(call) == at = call /\ reply.status = "ok"
Goto(call) == at' = call /\ reply' = NoReply
Continue(call) == Goto(call) /\ UNCHANGED operation
Finish ==
  /\ Goto("idle")
  /\ config' = Absent /\ plan' = Absent /\ planned' = NoPrivate /\ replace' = FALSE

Begin ==
  /\ at = "idle"
  /\ \E c \in Config \cup {Absent} :
       /\ config' = c
       /\ IF c = Absent THEN state # Absent /\ (Goto("read") \/ Goto("plan")) ELSE Goto("validate")
  /\ UNCHANGED <<author, world, state, private, plan, planned, replace, told, settled>>

\* A refresh may be switched off; an import needs a free place on record.
AfterValidate ==
  /\ Answered("validate")
  /\ Continue("plan") \/ Continue(IF state = Absent THEN "import" ELSE "read")
  /\ UNCHANGED <<author, world, state, private, told, settled>>

\* An imported object with a write-only value is not accepted.
AfterImport ==
  /\ Answered("import")
  /\ IF NullWriteOnly(reply.state) = reply.state
     THEN state' = reply.state /\ private' = reply.private /\ told' = FALSE /\ Continue("read")
     ELSE told' = TRUE /\ Finish /\ UNCHANGED <<state, private>>
  /\ settled' = Absent
  /\ UNCHANGED <<author, world>>

AfterRead ==
  /\ Answered("read")
  /\ state' = reply.state
  /\ private' = IF reply.state = Absent THEN NoPrivate ELSE reply.private
  /\ settled' = IF reply.state = state THEN settled ELSE Absent
  /\ IF reply.state = Absent /\ config = Absent THEN Finish ELSE Continue("plan")
  /\ UNCHANGED <<author, world, told>>

\* Core's test of a plan: absent exactly when the configuration is, as configured, and
\* otherwise null unless the attribute is computed.
ValidPlan(obj) ==
  IF config = Absent THEN obj = Absent
  ELSE /\ obj # Absent
       /\ \A a \in Attr : IF a \in WriteOnly THEN obj[a] = Null
                          ELSE obj[a] = config[a] \/ (config[a] = Null /\ a \in Computed)

\* Core's test of a final plan and of an apply result: only unknowns may have changed.
Consistent(before, after) ==
  /\ (before = Absent) = (after = Absent)
  /\ before # Absent => \A a \in Attr : before[a] \in {Unknown, after[a]}

Accept(call) ==
  /\ Goto(call)
  /\ plan' = reply.state /\ planned' = reply.private /\ replace' = (replace \/ reply.replace # {})
  /\ UNCHANGED config

AfterPlan ==
  /\ Answered("plan") /\ ValidPlan(reply.state)
  /\ IF reply.state = state THEN Finish
     ELSE Accept(IF reply.replace # {} THEN "replan" ELSE "approve")
  /\ UNCHANGED <<author, world, state, private, told, settled>>

AfterReplan ==
  /\ Answered("replan") /\ ValidPlan(reply.state)
  /\ Accept("approve")
  /\ UNCHANGED <<author, world, state, private, told, settled>>

\* The practitioner approves, and by the time the resource's turn comes its configuration is
\* known; or the plan is dropped.
Resolutions(cfg) ==
  {c \in Config : ~HasUnknown(c) /\ \A a \in Attr : cfg[a] \in {Unknown, c[a]}}

Approve ==
  /\ at = "approve"
  /\ \E c \in IF config = Absent THEN {Absent} ELSE Resolutions(config) : config' = c
  /\ Goto(IF plan = Absent \/ replace THEN "destroy" ELSE "finalplan")
  /\ UNCHANGED <<author, world, state, private, plan, planned, replace, told, settled>>

Decline ==
  /\ at = "approve" /\ Finish
  /\ UNCHANGED <<author, world, state, private, told, settled>>

AfterDestroy ==
  /\ Answered("destroy")
  /\ state' = Absent /\ private' = NoPrivate /\ told' = FALSE /\ settled' = Absent
  /\ IF config = Absent THEN Finish ELSE Continue("finalplan")
  /\ UNCHANGED <<author, world>>

AfterFinalPlan ==
  /\ Answered("finalplan")
  /\ ValidPlan(reply.state) /\ Consistent(plan, reply.state) /\ reply.replace = {}
  /\ IF reply.state = state THEN Finish ELSE Accept("apply")
  /\ UNCHANGED <<author, world, state, private, told, settled>>

\* Core records the object an answer carries, also next to an error or when it finds the
\* result inconsistent; an answer without one leaves the record alone then.
AfterApply ==
  /\ at = "apply" /\ reply.status \in {"ok", "error"}
  /\ LET fine == reply.status = "ok" /\ Consistent(plan, reply.state)
     IN /\ IF fine \/ reply.state # Absent
           THEN state' = reply.state /\ private' = reply.private
           ELSE UNCHANGED <<state, private>>
        /\ told' = ~fine
        /\ settled' = IF fine /\ reply.honest THEN config
                      ELSE IF state' = state THEN settled ELSE Absent
  /\ Finish
  /\ UNCHANGED <<author, world>>

\* An error, a deferral, or a plan that Core finds invalid ends the operation.
Stop ==
  /\ at \in Calls \ {"apply"} /\ reply.status # "none"
  /\ \/ reply.status \in {"error", "deferred"}
     \/ at \in {"plan", "replan", "finalplan"} /\ ~ValidPlan(reply.state)
     \/ at = "finalplan" /\ (~Consistent(plan, reply.state) \/ reply.replace # {})
  /\ told' = (told \/ reply.status # "deferred")
  /\ Finish
  /\ UNCHANGED <<author, world, state, private, settled>>

-----------------------------------------------------------------------------
Handlers == ValidateResourceConfig \/ ImportResourceState \/ ReadResource \/ PlanResourceChange
            \/ ApplyFails \/ ApplyDelete \/ ApplyChange
Core == Begin \/ AfterValidate \/ AfterImport \/ AfterRead \/ AfterPlan \/ AfterReplan \/ Approve
        \/ Decline \/ AfterDestroy \/ AfterFinalPlan \/ AfterApply \/ Stop

Next == Handlers \/ Core \/ ProviderDies \/ Drift

Spec == Init /\ [][Next]_vars

-----------------------------------------------------------------------------
\* With hooks that only fill in what is computed, Terraform accepts every plan: it agrees with
\* the configuration, unknowns and omitted attributes included, and the plan made again at
\* apply only resolves unknowns and asks for no new replacement (plan_resource_change.py).
PlansAreAccepted ==
  reply.status = "ok" =>
    /\ at \in {"plan", "replan", "finalplan"} => ValidPlan(reply.state)
    /\ at = "finalplan" => Consistent(plan, reply.state) /\ reply.replace = {}

\* A hook that makes what ctx.config and the plan say is never refused, neither by the
\* provider's own test of the result nor by Terraform: the plan carries the defaults that
\* ctx.config reports (merge_schema_defaults_into_plan, _handle_apply_result).
HonestApplyIsAccepted ==
  at = "apply" /\ reply.honest => reply.status = "ok" /\ Consistent(plan, reply.state)

\* Whatever a hook returns, an apply or a plan reported as a success keeps every known,
\* non-null value that was planned, and no write-only value (_handle_apply_result).
SuccessKeepsPlan ==
  reply.status = "ok" /\ reply.state # Absent =>
    /\ at = "apply" => \A a \in Attr : plan[a] \in Value => reply.state[a] = plan[a]
    /\ at \in {"plan", "replan", "finalplan", "read", "apply"} =>
         NullWriteOnly(reply.state) = reply.state

\* After a faithful apply, planning the same configuration again proposes nothing, except that
\* a computed attribute applied as null is unknown again (base.py, defaults.py,
\* _handle_planned_state_dict, _collect_requires_replace_paths).
PlanConverges ==
  at = "plan" /\ reply.status = "ok" /\ settled # Absent /\ config = settled =>
    LET open == {a \in Computed : state[a] = Null}
    IN reply.replace \subseteq open /\ \A a \in Attr \ open : reply.state[a] = state[a]

\* Terraform is never left without an object that exists and without an error that says so: an
\* object made, found or kept by a call that failed half-way is on record or was reported
\* (apply_resource_change.py).
OrphansAreReported == at = "idle" /\ world # Absent /\ state = Absent => told

\* The provider deletes an object only when a delete was planned; unknowns in a plan do not
\* read as absence (_create_resource_context, BaseResource.apply).
DeletesArePlanned ==
  [][reply' # reply /\ world # Absent /\ world' = Absent => at = "destroy" \/ plan = Absent]_vars

\* If the plan hook hands the private state on, no plan, apply, read or failure loses it while
\* the object lives, unless an error says so (read_resource.py, plan_resource_change.py,
\* apply_resource_change.py).
PrivateSurvives ==
  [][author.keeps /\ private # NoPrivate /\ state' # Absent => private' # NoPrivate \/ told']_vars

=============================================================================
