------------------------------- MODULE CtyTypes -------------------------------
(***************************************************************************)
(* The types of those values: a primitive, an object with a type for every *)
(* attribute, or a list, map or set of one type; and the values of each.   *)
(***************************************************************************)
EXTENDS CtyValues

CONSTANTS
  MaxTypes,    \* bound on the types of a behaviour,
  MaxValues    \* and on the values of each

ASSUME TypesAssumption == MaxTypes \in Nat /\ MaxValues \in Nat

VARIABLE ctyTypes   \* for every type declared so far, its values

-----------------------------------------------------------------------------
Primitive == [kind |-> "primitive"]
ObjectOf(attributes) == [kind |-> "object", attributes |-> attributes]
CollectionOf(kind, element) == [kind |-> kind, element |-> element]

PartType(type, at) == IF type.kind = "object" THEN type.attributes[at] ELSE type.element

\* The types of declared types.
NewTypes ==
  {Primitive}
    \cup {ObjectOf(attributes) : attributes \in UNION {[names -> DOMAIN ctyTypes] : names \in SUBSET Label}}
    \cup {CollectionOf(kind, element) : kind \in {"list", "map", "set"}, element \in DOMAIN ctyTypes}

-----------------------------------------------------------------------------
\* The places that the parts of one value have; those of a set are forgotten.
PlacesOf(type) ==
  CASE type.kind = "object" -> {DOMAIN type.attributes}
    [] type.kind = "map" -> SUBSET Label
    [] OTHER -> {1..length : length \in 0..MaxLength}

\* What can be at the places, when a part of a type is one of values[type].
Structures(type, values) ==
  UNION {{parts \in [places -> UNION {values[PartType(type, at)] : at \in places}] :
            \A at \in places : parts[at] \in values[PartType(type, at)]} :
         places \in PlacesOf(type)}

Elements(parts) == {parts[at] : at \in DOMAIN parts}

\* The values of the type that are neither null nor unknown.
Given(type, values) ==
  CASE type.kind = "primitive" -> {Known(scalar) : scalar \in Scalar}
    [] type.kind = "set" -> {KnownSet(Elements(parts)) : parts \in Structures(type, values)}
    [] OTHER -> {Known(parts) : parts \in Structures(type, values)}

\* Wholly known values, which a state may hold, and those of a plan.
KnownValues(type) ==
  {NullValue} \cup Given(type, [t \in DOMAIN ctyTypes |-> ctyTypes[t].known])
PlannedValues(type) ==
  {NullValue, UnknownValue} \cup Given(type, [t \in DOMAIN ctyTypes |-> ctyTypes[t].planned])

CtyInit == ctyTypes = [type \in {} |-> {}]

DeclareType(type) ==
  /\ Cardinality(DOMAIN ctyTypes) < MaxTypes
  /\ type \notin DOMAIN ctyTypes
  /\ LET planned == PlannedValues(type)
     IN /\ Cardinality(planned) <= MaxValues
        /\ ctyTypes' = WithEntry(ctyTypes, type, [known |-> KnownValues(type), planned |-> planned])
=============================================================================
