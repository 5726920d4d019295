--------------------------- MODULE ValueRefinement ---------------------------
(***************************************************************************)
(* Whether what apply returned is what was planned: a known part of a plan *)
(* stays, an unknown part may become anything, and a null may be filled    *)
(* in.  PlanLogic's Refines is the same question of one flat object.       *)
(*                                                                         *)
(* Source: handlers/utils.py, is_valid_refinement and its helpers.  Both   *)
(* values have the type the schema declares; marks are metadata and the    *)
(* code strips them before it compares.                                    *)
(***************************************************************************)
EXTENDS CtyTypes

VARIABLE rfTypes   \* for every type, what the check says of its values, and what it ought to say

rfVars == <<ctyTypes, rfTypes>>

\* _check_object_refinement, _check_collection_refinement and
\* _check_map_refinement: the same places, each refined on its own.
PlacesRefine(plan, result, type) ==
  /\ DOMAIN plan = DOMAIN result
  /\ \A at \in DOMAIN plan : <<plan[at], result[at]>> \in rfTypes[PartType(type, at)].accepted

\* Mutant: a set with an unknown element is compared whole like any other.
SetComparesWhole(plan, result) == plan = result

\* _check_set_refinement: an unknown element names no element of the result.
SetRefines(plan, result) == UnknownValue \in plan \/ plan = result

IsValidRefinement(plan, result, type) ==
  \/ plan = UnknownValue
  \/ /\ result # UnknownValue
     /\ \/ plan = NullValue
        \/ /\ result # NullValue
           /\ CASE type.kind = "primitive" -> plan.of = result.of
                [] type.kind = "set" -> SetRefines(plan.elements, result.elements)
                [] OTHER -> PlacesRefine(plan.of, result.of, type)

-----------------------------------------------------------------------------
(* What the check ought to say.                                            *)

\* A wholly known result in which every unknown of the plan turned into
\* something, and everything known, nulls too, stayed what it is.
Resolves(plan, result, type) ==
  \/ plan = UnknownValue
  \/ (plan = NullValue \/ type.kind = "primitive") /\ plan = result
  \/ /\ NullValue \notin {plan, result}
     /\ CASE type.kind = "primitive" -> FALSE
          [] type.kind = "set" ->
               \E f \in [plan.elements -> result.elements] :
                 /\ result.elements = {f[e] : e \in plan.elements}
                 /\ \A e \in plan.elements : <<e, f[e]>> \in rfTypes[type.element].resolved
          [] OTHER ->
               /\ DOMAIN plan.of = DOMAIN result.of
               /\ \A at \in DOMAIN plan.of :
                    <<plan.of[at], result.of[at]>> \in rfTypes[PartType(type, at)].resolved

\* What the check is to let through: a null may be filled in, which in a set
\* no null may, and what was unknown may still be, for Terraform refuses a
\* state that is not wholly known itself.
IsOutcome(plan, result, type) ==
  \/ plan = UnknownValue
  \/ plan = NullValue /\ result # UnknownValue
  \/ type.kind \in {"primitive", "set"} /\ plan = result
  \/ /\ type.kind \notin {"primitive", "set"}
     /\ {plan, result} \cap {NullValue, UnknownValue} = {}
     /\ DOMAIN plan.of = DOMAIN result.of
     /\ \A at \in DOMAIN plan.of :
          <<plan.of[at], result.of[at]>> \in rfTypes[PartType(type, at)].outcomes

\* A value with such a set in it, where Loose says it of the elements.
HasSet(value, type, Loose(_, _), within) ==
  /\ value \notin {NullValue, UnknownValue}
  /\ CASE type.kind = "primitive" -> FALSE
       [] type.kind = "set" ->
            Loose(value.elements, type.element) \/ value.elements \cap within[type.element] # {}
       [] OTHER -> \E at \in DOMAIN value.of : value.of[at] \in within[PartType(type, at)]

\* A set with an unknown element, where the code accepts any result, and one
\* with an unknown inside of an element, which the code compares whole.
HoldsUnknown(elements, element) == UnknownValue \in elements
HoldsPartlyUnknown(elements, element) ==
  \E e \in elements : e # UnknownValue /\ e \notin ctyTypes[element].known

Judgement(type, values) ==
  LET pairs == values.planned \X values.planned
      within(kind) == [t \in DOMAIN rfTypes |-> rfTypes[t][kind]]
  IN [accepted |-> {p \in pairs : IsValidRefinement(p[1], p[2], type)},
      resolved |-> {p \in values.planned \X values.known : Resolves(p[1], p[2], type)},
      outcomes |-> {p \in pairs : IsOutcome(p[1], p[2], type)},
      setUnknown |-> {v \in values.planned : HasSet(v, type, HoldsUnknown, within("setUnknown"))},
      setPartlyUnknown |->
        {v \in values.planned : HasSet(v, type, HoldsPartlyUnknown, within("setPartlyUnknown"))}]

-----------------------------------------------------------------------------
RfInit == CtyInit /\ rfTypes = [type \in {} |-> {}]

JudgeType(type) ==
  /\ DeclareType(type)
  /\ rfTypes' = WithEntry(rfTypes, type, Judgement(type, ctyTypes'[type]))

RfNext == \E type \in NewTypes : JudgeType(type)

RfSpec == RfInit /\ [][RfNext]_rfVars

\* What resolves the plan passes the check, unless a set of the plan has a partly
\* unknown element, which the code compares whole; and what passes is an outcome
\* of the plan, unless a set of it has an unknown element, where anything passes.
RefinementIsExact ==
  \A type \in DOMAIN rfTypes :
    LET check == rfTypes[type]
    IN \A plan \in ctyTypes[type].planned \ check.setPartlyUnknown,
          result \in ctyTypes[type].planned :
         /\ <<plan, result>> \in check.resolved => <<plan, result>> \in check.accepted
         /\ plan \notin check.setUnknown /\ <<plan, result>> \in check.accepted =>
              <<plan, result>> \in check.outcomes
=============================================================================
