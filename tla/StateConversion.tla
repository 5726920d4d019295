--------------------------- MODULE StateConversion ---------------------------
(***************************************************************************)
(* A value on its way through the provider: decoded from the wire into the *)
(* attrs classes of the author, or into plain containers that keep their   *)
(* unknowns for a plan, and encoded again.  Terraform takes any difference *)
(* for a change of the resource.                                           *)
(*                                                                         *)
(* Source: resources/base.py (from_cty and the conversions below it),      *)
(* handlers/utils.py (cty_to_attrs_instance, attrs_to_dict_for_cty),       *)
(* handlers/config_handlers.py and conversion/marshaler.py.  cty's         *)
(* validation and msgpack are external.                                    *)
(*                                                                         *)
(* A hint is what the author annotated a field with: anything that is not  *)
(* converted further ("raw"), a list or a dict of something, or an attrs   *)
(* class whose fields have hints and perhaps defaults.  "preserving" is no *)
(* annotation: it stands for the conversion that a plan starts with.       *)
(*                                                                         *)
(* A class has a field for every attribute of its object, and an object a  *)
(* value for every field: the constructor is never without an argument, so *)
(* the TypeError that from_cty turns into None does not come up.  Unknowns *)
(* are unrefined; what a refined one holds is no sentinel, and another     *)
(* conversion would take it for a value.                                   *)
(***************************************************************************)
EXTENDS CtyTypes

CONSTANT MaxHints   \* bound on the annotations of a behaviour

ASSUME HintAssumption == MaxHints \in Nat

VARIABLE cvHints   \* for a type and a hint, both directions of every value

cvVars == <<ctyTypes, cvHints>>

RawHint == [kind |-> "raw"]
PreservingHint == [kind |-> "preserving"]
ItemsHint(kind, element) == [kind |-> kind, element |-> element]
ClassHint(fields) == [kind |-> "class", fields |-> fields]
NoDefault == [is |-> "NOTHING"]   \* attrs.NOTHING

PartHint(hint, at) ==
  CASE hint.kind = "class" -> hint.fields[at].hint
    [] hint.kind \in {"list", "dict"} -> hint.element
    [] OTHER -> hint

PartOf(type, hint, at) == <<PartType(type, at), PartHint(hint, at)>>

\* What Python holds: None, something left as it came, a list, a dict, or an
\* instance of a class.
NoneValue == [is |-> "None"]
Raw(value) == [is |-> "raw", value |-> value]
Listed(items) == [is |-> "list", items |-> items]
Dict(items) == [is |-> "dict", items |-> items]
Instance(items) == [is |-> "instance", items |-> items]

-----------------------------------------------------------------------------
(* Decoding.                                                               *)

DecodePart(item, type, hint, at, applyDefaults) ==
  cvHints[PartOf(type, hint, at)].native[applyDefaults][item]

DecodeParts(parts, type, hint, applyDefaults) ==
  [at \in DOMAIN parts |-> DecodePart(parts[at], type, hint, at, applyDefaults)]

\* _handle_list_conversion: a set comes out as a list in some order, which its
\* encoding forgets again.
DecodeItems(value, type, hint, applyDefaults) ==
  IF type.kind = "set" THEN {DecodePart(item, type, hint, 1, applyDefaults) : item \in value.elements}
  ELSE DecodeParts(value.of, type, hint, applyDefaults)

LeavesDefault(item, field) == item = NullValue /\ field.default # NoDefault

\* Mutant: a null is an omission wherever it is read.
DecodeFieldAlways(item, type, hint, name, applyDefaults) ==
  IF LeavesDefault(item, hint.fields[name]) THEN Raw(hint.fields[name].default)
  ELSE DecodePart(item, type, hint, name, applyDefaults)

\* _handle_attrs_conversion, one keyword: an omission leaves the default of the
\* class in place, but only in a configuration.
DecodeField(item, type, hint, name, applyDefaults) ==
  IF applyDefaults /\ LeavesDefault(item, hint.fields[name]) THEN Raw(hint.fields[name].default)
  ELSE DecodePart(item, type, hint, name, applyDefaults)

\* _cty_to_attrs_recursive and _handle_cty_value: an unknown is a None, too.
Decode(value, type, hint, applyDefaults) ==
  IF value \in {NullValue, UnknownValue} THEN NoneValue
  ELSE CASE hint.kind = "raw" -> Raw(value)
         [] hint.kind = "list" -> Listed(DecodeItems(value, type, hint, applyDefaults))
         [] hint.kind = "dict" -> Dict(DecodeParts(value.of, type, hint, applyDefaults))
         [] hint.kind = "class" ->
              Instance([name \in DOMAIN value.of |->
                          DecodeField(value.of[name], type, hint, name, applyDefaults)])

\* _cty_to_native_preserving_unknown: what is wholly known becomes native at
\* once; otherwise an unknown stays the value it is, inside a container too.
\* (A set with an unknown is left to cty_to_native, which is external.)
PreservingUnknown(value, type) ==
  IF value = NullValue THEN NoneValue
  ELSE IF value = UnknownValue \/ value \in ctyTypes[type].known \/ type.kind = "set" THEN Raw(value)
  ELSE IF type.kind = "list" THEN Listed(DecodeParts(value.of, type, PreservingHint, FALSE))
  ELSE Dict(DecodeParts(value.of, type, PreservingHint, FALSE))

ToNative(value, type, hint, applyDefaults) ==
  IF hint = PreservingHint THEN PreservingUnknown(value, type)
  ELSE Decode(value, type, hint, applyDefaults)

-----------------------------------------------------------------------------
\* attrs_to_dict_for_cty, and the validation of what it made against the type:
\* the hint only says where the parts are looked up.
Encode(native, type, hint) ==
  LET part(item, at) == cvHints[PartOf(type, hint, at)].encoded[item]
  IN CASE native.is = "None" -> NullValue
       [] native.is = "raw" -> native.value
       [] OTHER ->
            IF type.kind = "set" THEN KnownSet({part(item, 1) : item \in native.items})
            ELSE Known([at \in DOMAIN native.items |-> part(native.items[at], at)])

-----------------------------------------------------------------------------
(* The same without any Python: what an encoded value ought to be.         *)

\* The defaults of the classes in place of nulls, and null for an unknown.
MeantValue(value, type, hint) ==
  LET part(item, at) == cvHints[PartOf(type, hint, at)].meant[item]
  IN IF hint.kind \in {"raw", "preserving"} \/ value = NullValue
     THEN IF hint.kind = "raw" /\ value = UnknownValue THEN NullValue ELSE value
     ELSE IF value = UnknownValue THEN NullValue
     ELSE IF type.kind = "set" THEN KnownSet({part(item, 1) : item \in value.elements})
     ELSE Known([at \in DOMAIN value.of |->
                   IF hint.kind = "class" /\ LeavesDefault(value.of[at], hint.fields[at])
                   THEN hint.fields[at].default ELSE part(value.of[at], at)])

\* No unknown sits below a hint that converts nothing, where it would stay,
\* nor in a set that a plan is to keep.
IsConverted(value, type, hint) ==
  \/ value \in ctyTypes[type].known \cup {UnknownValue}
  \/ /\ hint.kind # "raw" /\ type.kind # "set"
     /\ \A at \in DOMAIN value.of : value.of[at] \in cvHints[PartOf(type, hint, at)].converted
  \/ /\ hint.kind \notin {"raw", "preserving"} /\ type.kind = "set"
     /\ value.elements \subseteq cvHints[PartOf(type, hint, 1)].converted

-----------------------------------------------------------------------------
(* An author annotates the parts of a type before the whole.               *)

HintsFor(type) == {key[2] : key \in {k \in DOMAIN cvHints : k[1] = type}} \ {PreservingHint}

FieldsOf(type) ==
  [hint : HintsFor(type), default : {NoDefault} \cup (ctyTypes[type].known \ {NullValue})]

ClassHints(attributes) ==
  LET fields == [name \in DOMAIN attributes |-> FieldsOf(attributes[name])]
  IN {ClassHint(f) : f \in {g \in [DOMAIN attributes -> UNION {fields[name] : name \in DOMAIN fields}] :
                              \A name \in DOMAIN fields : g[name] \in fields[name]}}

NewHints(type) ==
  {RawHint, PreservingHint}
    \cup CASE type.kind = "primitive" -> {}
           [] type.kind = "object" -> ClassHints(type.attributes) \cup {ItemsHint("dict", RawHint)}
           [] type.kind = "map" -> {ItemsHint("dict", hint) : hint \in HintsFor(type.element)}
           [] OTHER -> {ItemsHint("list", hint) : hint \in HintsFor(type.element)}

\* In a collection every place has the same type and hint.
PartsAreHinted(type, hint) ==
  type.kind # "primitive" /\ hint # RawHint =>
    \A at \in IF type.kind = "object" THEN DOMAIN type.attributes ELSE {1} :
      PartOf(type, hint, at) \in DOMAIN cvHints

\* Both directions of every value of a type under a hint.
Conversion(type, hint) ==
  LET values == ctyTypes[type].planned
      native == [applyDefaults \in BOOLEAN |->
                   [value \in values |-> ToNative(value, type, hint, applyDefaults)]]
      natives == {Raw(value) : value \in values}
                   \cup {native[applyDefaults][value] : applyDefaults \in BOOLEAN, value \in values}
  IN [native |-> native,
      encoded |-> [n \in natives |-> Encode(n, type, hint)],
      meant |-> [value \in values |-> MeantValue(value, type, hint)],
      converted |-> {value \in values : IsConverted(value, type, hint)}]

CvInit == CtyInit /\ cvHints = [key \in {} |-> {}]

DeclareOnly == \E type \in NewTypes : DeclareType(type) /\ UNCHANGED cvHints

Annotate ==
  /\ Cardinality(DOMAIN cvHints) < MaxHints
  /\ \E type \in DOMAIN ctyTypes : \E hint \in NewHints(type) :
       /\ <<type, hint>> \notin DOMAIN cvHints
       /\ PartsAreHinted(type, hint)
       /\ cvHints' = WithEntry(cvHints, <<type, hint>>, Conversion(type, hint))
  /\ UNCHANGED ctyTypes

CvNext == DeclareOnly \/ Annotate

CvSpec == CvInit /\ [][CvNext]_cvVars

-----------------------------------------------------------------------------
\* cty_to_attrs_instance: for a validator, a half-known object is none.
CtyToAttrsInstance(value, type, hint, allowUnknown, applyDefaults) ==
  IF ~allowUnknown /\ value \notin ctyTypes[type].known THEN NoneValue
  ELSE cvHints[<<type, hint>>].native[applyDefaults][value]

\* GenerateResourceConfig: the hook gets the state decoded, or as it came when
\* the class declares no state_class, and hands back what it got, or None for
\* the bytes of the request.
GenerateResourceConfig(state, type, hint, hook) ==
  LET given == IF hint.kind = "class" THEN CtyToAttrsInstance(state, type, hint, FALSE, FALSE)
               ELSE Raw(state)
  IN IF hook = "declines" \/ given = NoneValue THEN state
     ELSE cvHints[<<type, hint>>].encoded[given]

\* A read() that returns the state it was given changes nothing.
StateRoundTrips(state, type, hint) ==
  cvHints[<<type, hint>>].encoded[CtyToAttrsInstance(state, type, hint, FALSE, FALSE)] = state

\* A configuration generated from a state as it stands is that state.
GeneratedIsState(state, type, hint) ==
  \A hook \in {"declines", "returns the state"} :
    GenerateResourceConfig(state, type, hint, hook) = state

\* A configuration reaches a hook as it was written, with the class's defaults
\* for what was left out.  So does a proposed plan, with all of its unknowns.
ConfigKeepsMeaning(value, type, hint) ==
  LET both == cvHints[<<type, hint>>]
  IN value \in both.converted =>
       both.encoded[CtyToAttrsInstance(value, type, hint, TRUE, TRUE)] = both.meant[value]

\* Decoding and encoding, in the ways the handlers combine them, adds
\* nothing to a value and takes nothing from it.
ConversionsKeepValues ==
  \A key \in DOMAIN cvHints :
    LET type == key[1]  hint == key[2]
    IN /\ \A state \in ctyTypes[type].known :
            /\ StateRoundTrips(state, type, hint)
            /\ GeneratedIsState(state, type, hint)
       /\ \A value \in ctyTypes[type].planned : ConfigKeepsMeaning(value, type, hint)
=============================================================================
