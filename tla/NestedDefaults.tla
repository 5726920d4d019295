--------------------------- MODULE NestedDefaults ---------------------------
(***************************************************************************)
(* Defaults below the top level: inside object-typed attributes and inside *)
(* nested blocks of every nesting mode.  The effective configuration has   *)
(* them resolved, and the plan has to be given the same, element by        *)
(* element, although Terraform proposes the prior value or none for an     *)
(* attribute that was left out.                                            *)
(*                                                                         *)
(* Source: schema/defaults.py.  The top level of it, over a flat object,   *)
(* is PlanLogic's EffectiveConfig and MergeDefaults.                       *)
(*                                                                         *)
(* A schema is a function from names to its attributes and nested blocks.  *)
(* Its values are functions from the same names; a list or set of blocks   *)
(* is a sequence, as in the code, where a set's order means nothing, and a *)
(* map of them a function from keys.                                       *)
(***************************************************************************)
EXTENDS CtyValues

CONSTANTS
  DefaultScalar,   \* what a default can be
  MaxSchemas,      \* bound on the schemas of a behaviour,
  MaxObjects,      \* on the values of each,
  MaxNested        \* and, for every schema it is made of, on those of a nested block

ASSUME DefaultsAssumption ==
  DefaultScalar \subseteq Scalar /\ MaxSchemas \in Nat /\ MaxObjects \in Nat /\ MaxNested \in Nat

VARIABLES
  dfSchemas,   \* for every schema declared so far, what the code makes of its values
  dfNewest,    \* the one declared last,
  dfCase       \* and a nested block of it that is planned: every plan there can be

dfVars == <<dfSchemas, dfNewest, dfCase>>

ScalarAttribute(default, writeOnly) == [kind |-> "scalar", default |-> default, writeOnly |-> writeOnly]
ObjectAttribute(object, default, writeOnly) ==
  [kind |-> "object", object |-> object, default |-> default, writeOnly |-> writeOnly]
BlockOf(nesting, schema) == [kind |-> "block", nesting |-> nesting, schema |-> schema]

IsSingle(nested) == nested.nesting \in {"single", "group"}

\* _is_resolvable.
IsResolvable(value) == value \notin {NullValue, UnknownValue}

-----------------------------------------------------------------------------
(* The effective configuration.                                            *)

\* _resolve_attribute: a write-only value is left alone; a default may itself
\* be an object with members to fill in.
ResolveAttribute(value, attribute) ==
  LET given == IF value = NullValue THEN attribute.default ELSE value
  IN CASE attribute.writeOnly -> value
       [] ~attribute.writeOnly /\ attribute.kind = "object" -> dfSchemas[attribute.object].resolved[given]
       [] OTHER -> given

\* _resolve_nested.
ResolveNested(value, nested) ==
  LET resolved == dfSchemas[nested.schema].resolved
  IN CASE ~IsResolvable(value) -> value
       [] IsResolvable(value) /\ IsSingle(nested) -> resolved[value]
       [] OTHER -> Known([at \in DOMAIN value.of |-> resolved[value.of[at]]])

ResolveMember(value, member) ==
  IF member.kind = "block" THEN ResolveNested(value, member) ELSE ResolveAttribute(value, member)

\* resolve_schema_defaults: an unknown is not an omission.
ResolveDefaults(value, schema) ==
  IF ~IsResolvable(value) THEN value
  ELSE Known([name \in DOMAIN schema |-> ResolveMember(value.of[name], schema[name])])

\* CtyValue.is_wholly_known, which is only asked of an object's value.
IsWhollyKnown(value, schema) ==
  /\ value # UnknownValue
  /\ IsResolvable(value) =>
       \A name \in DOMAIN schema :
         \/ value.of[name] = NullValue
         \/ schema[name].kind = "scalar" /\ value.of[name] # UnknownValue
         \/ schema[name].kind = "object" /\ value.of[name] \in dfSchemas[schema[name].object].known

-----------------------------------------------------------------------------
(* Pairing the elements of a set.                                          *)

\* Mutant: the null that stands for the default is taken for any value.
NullMatchesAnything(planned, configured, attribute) ==
  attribute.kind = "object" \/ planned = NullValue \/ planned = configured

\* _defaulted_attribute_matches: an omitted attribute has no value in the plan yet.
DefaultedMatches(planned, configured, attribute) ==
  \/ attribute.kind = "object"
  \/ IF planned = NullValue THEN configured = attribute.default ELSE planned = configured

\* _attribute_matches.
AttributeMatches(planned, configured, attribute) ==
  IF attribute.default # NullValue THEN DefaultedMatches(planned, configured, attribute)
  ELSE IF attribute.kind = "object" THEN <<planned, configured>> \in dfSchemas[attribute.object].matches
  ELSE planned = configured

\* _set_elements_match: what the configuration says of an attribute, it says of
\* the planned element too.
ElementsMatch(plan, config, schema) ==
  /\ IsResolvable(plan) /\ IsResolvable(config)
  /\ \A name \in DOMAIN schema :
       \/ schema[name].kind = "block"
       \/ schema[name].writeOnly
       \/ ~IsResolvable(config.of[name])
       \/ AttributeMatches(plan.of[name], config.of[name], schema[name])

\* A plan element and a configuration element that match each other and, of
\* those that are left, nothing else.
UniquePairs(plans, configs, matching) ==
  {pair \in matching : \A other \in matching :
     other[1] \in plans /\ other[2] \in configs => (other[1] = pair[1] <=> other[2] = pair[2])}
    \cap (plans \X configs)

\* The loop of _merge_set_into_plan: one round for every plan element is enough.
PairsFound(plan, config, schema) ==
  LET matching == {pair \in (DOMAIN plan) \X (DOMAIN config) :
                     <<plan[pair[1]], config[pair[2]]>> \in dfSchemas[schema].matches}
      rounds[n \in Nat] ==
        IF n = 0 THEN {}
        ELSE rounds[n - 1] \cup
               UniquePairs(DOMAIN plan \ {pair[1] : pair \in rounds[n - 1]},
                           DOMAIN config \ {pair[2] : pair \in rounds[n - 1]}, matching)
  IN rounds[Len(plan)]

-----------------------------------------------------------------------------
(* The plan.                                                               *)

\* _merge_attribute_default.
MergeAttribute(plan, config, attribute) ==
  CASE attribute.writeOnly \/ config \in {NullValue, UnknownValue} -> plan
    [] ~attribute.writeOnly /\ IsResolvable(config) /\ attribute.kind = "object" ->
         IF attribute.default # NullValue /\ config \in dfSchemas[attribute.object].known
         THEN config ELSE dfSchemas[attribute.object].merged[<<plan, config>>]
    [] OTHER -> IF attribute.default = NullValue THEN plan ELSE config

\* _merge_set_into_plan.
MergeSet(plan, config, schema) ==
  LET pairs == PairsFound(plan, config, schema)
      found(p) == {c \in DOMAIN config : <<p, c>> \in pairs}
  IN [p \in DOMAIN plan |->
        IF found(p) = {} THEN plan[p]
        ELSE dfSchemas[schema].merged[<<plan[p], config[CHOOSE c \in found(p) : TRUE]>>]]

\* A list, and a set with no more than one element, is paired by position, a
\* map by key.
MergeByPlace(plan, config, schema) ==
  [at \in DOMAIN plan |-> IF at \in DOMAIN config THEN dfSchemas[schema].merged[<<plan[at], config[at]>>]
                          ELSE plan[at]]

\* _merge_nested_into_plan.
MergeNested(plan, config, nested) ==
  IF ~IsResolvable(config) \/ ~IsResolvable(plan) THEN plan
  ELSE IF IsSingle(nested) THEN dfSchemas[nested.schema].merged[<<plan, config>>]
  ELSE IF nested.nesting = "set" /\ Len(plan.of) > 1 THEN Known(MergeSet(plan.of, config.of, nested.schema))
  ELSE Known(MergeByPlace(plan.of, config.of, nested.schema))

MergeMember(plan, config, member) ==
  IF member.kind = "block" THEN MergeNested(plan, config, member) ELSE MergeAttribute(plan, config, member)

\* _merge_block_into_plan.
MergeBlock(plan, config, schema) ==
  IF ~IsResolvable(plan) \/ ~IsResolvable(config) THEN plan
  ELSE Known([name \in DOMAIN schema |-> MergeMember(plan.of[name], config.of[name], schema[name])])

-----------------------------------------------------------------------------
(* What a plan ought to say: of everything that the effective              *)
(* configuration gives a value, that value.                                *)

AgreesNested(plan, config, nested) ==
  LET agreeing == dfSchemas[nested.schema].agreeing
  IN IF ~IsResolvable(config) THEN plan = config
     ELSE /\ IsResolvable(plan)
          /\ IF IsSingle(nested) THEN <<plan, config>> \in agreeing
             ELSE IF nested.nesting = "set"
             THEN /\ Len(plan.of) = Len(config.of)
                  /\ \E pairing \in [DOMAIN plan.of -> DOMAIN config.of] :
                       /\ \A p, q \in DOMAIN plan.of : pairing[p] = pairing[q] => p = q
                       /\ \A p \in DOMAIN plan.of : <<plan.of[p], config.of[pairing[p]]>> \in agreeing
             ELSE /\ DOMAIN plan.of = DOMAIN config.of
                  /\ \A at \in DOMAIN plan.of : <<plan.of[at], config.of[at]>> \in agreeing

AgreesMember(plan, config, member) ==
  IF member.kind = "block" THEN AgreesNested(plan, config, member)
  ELSE \/ member.writeOnly
       \/ config = NullValue
       \/ IF member.kind = "object" THEN <<plan, config>> \in dfSchemas[member.object].agreeing
          ELSE plan = config

Agrees(plan, config, schema) ==
  \/ ~IsResolvable(config) /\ plan = config
  \/ /\ IsResolvable(plan) /\ IsResolvable(config)
     /\ \A name \in DOMAIN schema : AgreesMember(plan.of[name], config.of[name], schema[name])

-----------------------------------------------------------------------------
(* What Terraform proposes for a configuration.                            *)

\* Two elements that the merge can tell apart: by an attribute that both of
\* them give a known value, one that is no object with a default of its own.
AttributeApart(one, other, attribute) ==
  /\ attribute.kind # "block" /\ ~attribute.writeOnly
  /\ IsResolvable(one) /\ IsResolvable(other)
  /\ IF attribute.kind = "object"
     THEN attribute.default = NullValue /\ <<one, other>> \in dfSchemas[attribute.object].apart
     ELSE one # other

AreApart(one, other, schema) ==
  /\ IsResolvable(one) /\ IsResolvable(other)
  /\ \E name \in DOMAIN schema : AttributeApart(one.of[name], other.of[name], schema[name])

\* A proposal with null, or with the default itself, where a default is due.
MemberFresh(plan, config, member) ==
  CASE member.kind = "block" -> TRUE
    [] member.kind = "scalar" ->
         member.default # NullValue /\ config = NullValue => plan \in {NullValue, member.default}
    [] member.kind = "object" ->
         member.default = NullValue /\ config # NullValue => <<plan, config>> \in dfSchemas[member.object].fresh

IsFresh(plan, config, schema) ==
  IsResolvable(plan) /\ IsResolvable(config) =>
    \A name \in DOMAIN schema : MemberFresh(plan.of[name], config.of[name], schema[name])

\* The values of an attribute or nested block.
Nestings == {"single", "group", "list", "set", "map"}
PlacesIn(nested) == IF nested.nesting = "map" THEN SUBSET Label ELSE {1..length : length \in 0..MaxLength}

MemberValues(member) ==
  CASE member.kind = "scalar" -> {NullValue, UnknownValue} \cup {Known(scalar) : scalar \in Scalar}
    [] member.kind = "object" -> dfSchemas[member.object].values
    [] OTHER ->
         LET values == dfSchemas[member.schema].values
         IN IF IsSingle(member) THEN values
            ELSE {UnknownValue} \cup {Known(parts) :
                   parts \in UNION {[places -> values \ {NullValue, UnknownValue}] : places \in PlacesIn(member)}}

\* One of the values of each.
Choices(each) ==
  {f \in [DOMAIN each -> UNION {each[at] : at \in DOMAIN each}] : \A at \in DOMAIN each : f[at] \in each[at]}

Orders(places) ==
  {order \in [places -> places] : \A i, j \in places : order[i] = order[j] => i = j}

\* The elements of a set come in any order; of two that are equal it would have one.
SetProposals(config, schema) ==
  LET each == [at \in DOMAIN config |-> dfSchemas[schema].proposals[config[at]]]
      ordered == {[at \in DOMAIN config |-> parts[order[at]]] :
                    order \in Orders(DOMAIN config), parts \in Choices(each)}
  IN {plan \in ordered : \A i, j \in DOMAIN plan : plan[i] = plan[j] => i = j}

NestedProposals(config, nested) ==
  LET proposals == dfSchemas[nested.schema].proposals
      each == [at \in DOMAIN config.of |-> proposals[config.of[at]]]
  IN IF ~IsResolvable(config) THEN {config}
     ELSE IF IsSingle(nested) THEN proposals[config]
     ELSE IF nested.nesting = "set" THEN {Known(parts) : parts \in SetProposals(config.of, nested.schema)}
     ELSE {Known(parts) : parts \in Choices(each)}

\* What is configured stays; an omitted attribute is null or has its prior value, in which
\* nothing is unknown.
MemberProposals(config, member) ==
  CASE member.kind = "block" -> NestedProposals(config, member)
    [] member.kind = "scalar" -> IF config = NullValue THEN MemberValues(member) \ {UnknownValue}
                                 ELSE {config}
    [] member.kind = "object" -> IF config = NullValue THEN dfSchemas[member.object].known
                                 ELSE dfSchemas[member.object].proposals[config]

ObjectProposals(config, schema) ==
  LET each == [name \in DOMAIN schema |-> MemberProposals(config.of[name], schema[name])]
  IN IF ~IsResolvable(config) THEN {config}
     ELSE {Known(parts) : parts \in Choices(each)}

\* The proposals whose sets the merge can pair with the configuration: several elements
\* have to be told apart, and be fresh.
CanBePaired(config, schema) ==
  LET table == dfSchemas[schema]
  IN \A i, j \in DOMAIN config :
       i # j => <<table.resolved[config[i]], table.resolved[config[j]]>> \in table.apart

PairableSet(plan, config, schema) ==
  /\ CanBePaired(config, schema)
  /\ \E order \in Orders(DOMAIN config) : \A at \in DOMAIN config :
       <<plan[at], config[order[at]]>> \in dfSchemas[schema].pairable \cap dfSchemas[schema].fresh

PairableNested(plan, config, nested) ==
  LET pairable == dfSchemas[nested.schema].pairable
  IN CASE ~IsResolvable(config) -> TRUE
       [] IsResolvable(config) /\ IsSingle(nested) -> <<plan, config>> \in pairable
       [] IsResolvable(config) /\ nested.nesting = "set" /\ Len(config.of) > 1 ->
            PairableSet(plan.of, config.of, nested.schema)
       [] OTHER -> \A at \in DOMAIN config.of : <<plan.of[at], config.of[at]>> \in pairable

PairableMember(plan, config, member) ==
  CASE member.kind = "block" -> PairableNested(plan, config, member)
    [] member.kind = "scalar" -> TRUE
    [] member.kind = "object" -> config # NullValue => <<plan, config>> \in dfSchemas[member.object].pairable

IsPairable(plan, config, schema) ==
  IsResolvable(config) =>
    \A name \in DOMAIN schema : PairableMember(plan.of[name], config.of[name], schema[name])

ObjectValues(schema) ==
  LET each == [name \in DOMAIN schema |-> MemberValues(schema[name])]
  IN {NullValue, UnknownValue} \cup {Known(parts) : parts \in Choices(each)}

-----------------------------------------------------------------------------
(* An author declares the parts of a schema before the whole.              *)

IsObject(schema) == \A name \in DOMAIN schema : schema[name].kind # "block"

\* A write-only attribute has no default, and no default is unknown.
ScalarAttributes ==
  {ScalarAttribute(NullValue, TRUE), ScalarAttribute(NullValue, FALSE)}
    \cup {ScalarAttribute(Known(scalar), FALSE) : scalar \in DefaultScalar}
ObjectAttributes(object) ==
  {ObjectAttribute(object, NullValue, TRUE)}
    \cup {ObjectAttribute(object, default, FALSE) : default \in dfSchemas[object].known}

NewMembers ==
  ScalarAttributes
    \cup (UNION {ObjectAttributes(object) : object \in {schema \in DOMAIN dfSchemas : IsObject(schema)}})
    \cup {BlockOf(nesting, schema) : nesting \in Nestings, schema \in DOMAIN dfSchemas}

NewSchemas == UNION {[names -> NewMembers] : names \in SUBSET Label}

Tables(schema) ==
  LET values == ObjectValues(schema)
      pairs == values \X values
      proposals == [v \in values |-> ObjectProposals(v, schema)]
  IN [values |-> values,
      known |-> {v \in values : IsWhollyKnown(v, schema)},
      resolved |-> [v \in values |-> ResolveDefaults(v, schema)],
      merged |-> [pair \in pairs |-> MergeBlock(pair[1], pair[2], schema)],
      matches |-> {pair \in pairs : ElementsMatch(pair[1], pair[2], schema)},
      agreeing |-> {pair \in pairs : Agrees(pair[1], pair[2], schema)},
      apart |-> {pair \in pairs : AreApart(pair[1], pair[2], schema)},
      fresh |-> {pair \in pairs : IsFresh(pair[1], pair[2], schema)},
      proposals |-> proposals,
      pairable |-> {pair \in pairs : /\ pair[1] \in proposals[pair[2]]
                                     /\ IsPairable(pair[1], pair[2], schema)}]

\* The schemas that a schema is made of.
PartsOf(schema) ==
  {schema[name].object : name \in {n \in DOMAIN schema : schema[n].kind = "object"}}
    \cup {schema[name].schema : name \in {n \in DOMAIN schema : schema[n].kind = "block"}}

NoCase == [planned |-> FALSE]

DfInit ==
  /\ dfSchemas = [schema \in {} |-> {}]
  /\ dfNewest = <<>>
  /\ dfCase = NoCase

DeclareSchema ==
  /\ dfCase = NoCase
  /\ Cardinality(DOMAIN dfSchemas) < MaxSchemas
  /\ \E schema \in NewSchemas \ DOMAIN dfSchemas :
       /\ \A name \in DOMAIN schema : Cardinality(MemberValues(schema[name])) <= MaxObjects
       /\ Cardinality(ObjectValues(schema)) <= MaxObjects
       /\ dfSchemas' = WithEntry(dfSchemas, schema, Tables(schema))
       /\ dfNewest' = schema
  /\ UNCHANGED dfCase

\* PlanResourceChange, for a block nested in the resource's schema.  (Where a
\* schema was declared in vain, another behaviour has the same case.)
PlanNested ==
  /\ dfCase = NoCase /\ dfNewest \in DOMAIN dfSchemas
  /\ DOMAIN dfSchemas = {dfNewest} \cup UNION {PartsOf(schema) : schema \in DOMAIN dfSchemas}
  /\ \E nesting \in Nestings :
       LET nested == BlockOf(nesting, dfNewest)
       IN /\ Cardinality(MemberValues(nested)) * Cardinality(DOMAIN dfSchemas) <= MaxNested
          /\ \E config \in MemberValues(nested) :
               LET effective == ResolveNested(config, nested)
               IN dfCase' = [planned |-> TRUE, nested |-> nested, config |-> config, effective |-> effective,
                             answers |-> {[plan |-> MergeNested(proposal, effective, nested),
                                           paired |-> PairableNested(proposal, config, nested)] :
                                            proposal \in NestedProposals(config, nested)}]
  /\ UNCHANGED <<dfSchemas, dfNewest>>

DfNext == DeclareSchema \/ PlanNested

DfSpec == DfInit /\ [][DfNext]_dfVars

-----------------------------------------------------------------------------
\* In a plan, at every depth, an attribute the configuration omits has its
\* default and every other one what is configured, whatever Terraform proposed
\* for it and in whatever order (merge_schema_defaults_into_plan).  In a set of
\* several elements that takes two things: the configuration tells them apart,
\* and where a default is due Terraform proposed null or the default itself.
DefaultsReachPlan ==
  \A answer \in IF dfCase.planned THEN dfCase.answers ELSE {} :
    answer.paired => AgreesNested(answer.plan, dfCase.effective, dfCase.nested)

\* "For an attribute that declares a default the effective configuration
\* therefore wins outright, prior state included": also in a set whose elements
\* the configuration tells apart.  The code breaks it: _defaulted_attribute_matches
\* takes a prior value for another element's, pairs nothing, and it stays.
DefaultsWinOutright ==
  dfCase.planned =>
    LET config == dfCase.config
        nested == dfCase.nested
    IN nested.nesting = "set" /\ IsResolvable(config) /\ CanBePaired(config.of, nested.schema) =>
         \A answer \in dfCase.answers : AgreesNested(answer.plan, dfCase.effective, nested)
=============================================================================
