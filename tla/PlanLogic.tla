------------------------------ MODULE PlanLogic ------------------------------
(***************************************************************************)
(* How the provider turns a configuration, a prior state and Terraform's   *)
(* proposal into a plan, and judges what apply returns.  An object is a    *)
(* function from the attributes of a resource to values; Null and Unknown  *)
(* are values of their own, and Absent is the null object.  The attributes *)
(* of nested blocks and object types follow the same rules member by       *)
(* member in the code, and are left out.                                   *)
(***************************************************************************)
EXTENDS FiniteSets

CONSTANTS
  Attr,       \* the attributes of the resource's schema
  Value,      \* what a known, non-null attribute can hold
  Null,       \* the null of any type
  Unknown,    \* a value Terraform will only know later
  Absent,     \* no object
  Required,   \* attributes with required=True
  Computed,   \* attributes with computed=True
  WriteOnly,  \* attributes with write_only=True
  ReplaceOn,  \* attributes with requires_replace=True
  Default     \* the declared defaults: a function on the attributes that have one

ASSUME ValueAssumption ==
  /\ Null \notin Value /\ Unknown \notin Value /\ Null # Unknown

Known == Value \cup {Null}
Partial == Known \cup {Unknown}

\* What states, and what configurations and plans, are made of.
Object == [Attr -> Known]
PartialObject == [Attr -> Partial]

ASSUME AbsentAssumption == Absent \notin PartialObject

\* The combinations of flags that PvsAttribute accepts: rule 3 (required and computed exclude
\* each other), 6 (no requires_replace on a write-only attribute), 9 and 10 (no default on a
\* required or a write-only one) and 11 (a default makes an attribute computed).  Terraform
\* itself refuses a write-only attribute that is computed.
ASSUME SchemaAssumption ==
  /\ Required \subseteq Attr /\ Computed \subseteq Attr \ Required
  /\ WriteOnly \subseteq Attr \ Computed /\ ReplaceOn \subseteq Attr \ WriteOnly
  /\ DOMAIN Default \subseteq Computed
  /\ \A a \in DOMAIN Default : Default[a] \in Value

HasUnknown(obj) == \E a \in Attr : obj[a] = Unknown

-----------------------------------------------------------------------------
\* resolve_schema_defaults: the effective configuration, in which an omitted attribute has
\* its default.  An unknown one is not omitted.
EffectiveConfig(cfg) ==
  [a \in Attr |-> IF cfg[a] = Null /\ a \in DOMAIN Default THEN Default[a] ELSE cfg[a]]

\* Mutant: write-only values reach the plan.
BasePlanKeepsWriteOnly(proposed, cfg) ==
  [a \in Attr |-> IF proposed[a] # Null THEN proposed[a] ELSE cfg[a]]

\* BaseResource.plan: the proposal, without write-only values, its gaps filled from the
\* effective configuration.
BasePlan(proposed, cfg) ==
  [a \in Attr |-> IF a \in WriteOnly THEN Null
                  ELSE IF proposed[a] # Null THEN proposed[a] ELSE cfg[a]]

\* Mutant: a default only fills a gap, and the prior state stands.
MergeDefaultsIntoGaps(planned, cfg) ==
  [a \in Attr |-> IF planned[a] = Null THEN cfg[a] ELSE planned[a]]

\* merge_schema_defaults_into_plan: where a default is declared, a known effective
\* configuration wins over the prior state that Terraform carries forward.
MergeDefaults(planned, cfg) ==
  [a \in Attr |-> IF a \in DOMAIN Default /\ cfg[a] \in Value THEN cfg[a] ELSE planned[a]]

\* Mutant: what the plan carries over from the prior state is unknown as well.
MarkUnknownAlways(planned) ==
  [a \in Attr |-> IF a \in Computed \ DOMAIN Default THEN Unknown ELSE planned[a]]

\* _handle_planned_state_dict: a computed attribute nobody has set is known after apply.
MarkUnknown(planned) ==
  [a \in Attr |-> IF a \in Computed /\ planned[a] = Null THEN Unknown ELSE planned[a]]

\* check_required_attributes, of a configuration and, where write-only values are null, of a
\* planned state.
MissingInConfig(cfg) == \E a \in Required : cfg[a] = Null
MissingInState(obj) == \E a \in Required \ WriteOnly : obj[a] = Null

\* _collect_requires_replace_paths: the declared attributes that change, an unknown counting
\* as a change, and those the plan hook asked for.
RequiresReplace(prior, planned, asked) ==
  IF prior = Absent THEN {} ELSE {a \in ReplaceOn : planned[a] # prior[a]} \cup asked

\* The write-only values that apply and read take out of what a hook returns.
NullWriteOnly(obj) == [a \in Attr |-> IF a \in WriteOnly THEN Null ELSE obj[a]]

\* Mutant: only presence is compared.
RefinesByPresence(planned, result) ==
  planned = Absent \/ \A a \in Attr : planned[a] \in {Unknown, Null} \/ result[a] # Null

\* is_valid_refinement of a planned object, the null one included, by an apply result.
Refines(planned, result) ==
  planned = Absent \/ \A a \in Attr : planned[a] \in {Unknown, Null, result[a]}

\* cty_to_attrs_instance: an object with an unknown decodes to None, unless the caller allows
\* unknowns; then they become None one by one.
Decode(obj) == IF obj # Absent /\ HasUnknown(obj) THEN Absent ELSE obj
DecodeAllowingUnknown(obj) ==
  IF obj = Absent THEN Absent
  ELSE [a \in Attr |-> IF obj[a] = Unknown THEN Null ELSE obj[a]]

=============================================================================
