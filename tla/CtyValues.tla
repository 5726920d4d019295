------------------------------ MODULE CtyValues ------------------------------
(***************************************************************************)
(* The values that Terraform and the provider exchange: any of them may be *)
(* null, or unknown as long as it is only planned.                         *)
(*                                                                         *)
(* The library of these values, pyvider-cty, is external.  What the code   *)
(* computes of a value by recursion, it computes of the parts first: so    *)
(* the modules on values declare types or schemas from the inside out, and *)
(* compute, for every value of a new one, from the tables they have filled *)
(* for the parts.                                                          *)
(***************************************************************************)
EXTENDS Naturals, Sequences, FiniteSets

CONSTANTS
  Scalar,      \* what a known primitive can be
  Label,       \* names of attributes, keys of maps
  MaxLength    \* bound on the length of a list and the size of a set

ASSUME CtyAssumption == MaxLength \in Nat

NullValue == [is |-> "null"]
UnknownValue == [is |-> "unknown"]
Known(content) == [is |-> "known", of |-> content]
KnownSet(elements) == [is |-> "known", elements |-> elements]

\* A table with one more entry.
WithEntry(table, key, entry) ==
  [k \in DOMAIN table \cup {key} |-> IF k = key THEN entry ELSE table[k]]
=============================================================================
