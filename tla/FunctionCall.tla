---------------------------- MODULE FunctionCall ----------------------------
(***************************************************************************)
(* What happens between a Python function's signature and a call of it     *)
(* from a Terraform configuration: the parameters the provider declares on *)
(* the wire, the arguments Terraform may send for them, how CallFunction   *)
(* turns them into positional and keyword arguments, and what Python makes *)
(* of those.                                                               *)
(*                                                                         *)
(* Source: functions/adapters.py, tfprotov6/adapters/function_adapter.py,  *)
(* handlers/call_function.py.  Python's own binding is external.           *)
(*                                                                         *)
(* Parameters are named by their place in the signature, and an argument   *)
(* by its place in the call; an argument is a value, a null, or not wholly *)
(* known.                                                                  *)
(***************************************************************************)
EXTENDS Integers, Sequences, FiniteSets

CONSTANTS MaxParameters, MaxArguments   \* bounds on a signature and on a call

ASSUME CallBoundsAssumption == MaxParameters \in Nat /\ MaxArguments \in Nat

VARIABLES
  fnSignature,   \* the signature of the registered function
  fnCall,        \* the call of it that Terraform makes
  fnAnswer       \* what CallFunction made of it

fnVars == <<fnSignature, fnCall, fnAnswer>>

\* A parameter: a positional one, *args ("rest") or a keyword-only one; with
\* a default or without; nullable, when its type hint allows None.
Parameters ==
  [kind : {"positional", "keyword"}, default : BOOLEAN, nullable : BOOLEAN]
    \cup [kind : {"rest"}, default : {FALSE}, nullable : BOOLEAN]

Position(kind) == CASE kind = "positional" -> 1 [] kind = "rest" -> 2 [] kind = "keyword" -> 3

\* What Python accepts: positional, then *args once, then keyword-only
\* parameters; no parameter without a default after one with a default.
IsSignature(sig) ==
  \A i, j \in DOMAIN sig : i < j =>
    /\ Position(sig[i].kind) <= Position(sig[j].kind)
    /\ sig[i].kind = "rest" => sig[j].kind # "rest"
    /\ sig[i].kind = "positional" /\ sig[j].kind = "positional" /\ sig[i].default
         => sig[j].default

\* Places in signature order.
Ascending(S) == [k \in 1..Cardinality(S) |->
                   CHOOSE i \in S : Cardinality({j \in S : j <= i}) = k]

Places(sig, kind) == {i \in DOMAIN sig : sig[i].kind = kind}

-----------------------------------------------------------------------------
(* The declaration: functions/adapters.py.                                 *)

\* Mutant: the first of several defaults takes the slot, whatever follows.
FirstDefaultFillsVariadicSlot(sig) == Places(sig, "rest") = {}

\* _defaults_fill_the_variadic_slot: one default, and no *args.
DefaultFillsVariadicSlot(sig) ==
  /\ Places(sig, "rest") = {}
  /\ \A i, j \in Places(sig, "positional") : sig[i].default /\ sig[j].default => i = j

\* _extract_parameters_meta: the variadic parameter, 0 if there is none, and
\* the required ones in signature order.
VariadicSlot(sig) ==
  LET defaulted == {i \in Places(sig, "positional") : sig[i].default}
  IN IF Places(sig, "rest") # {} THEN CHOOSE i \in Places(sig, "rest") : TRUE
     ELSE IF DefaultFillsVariadicSlot(sig) /\ defaulted # {}
          THEN CHOOSE i \in defaulted : \A j \in defaulted : i <= j
     ELSE 0

RequiredSlots(sig) == Ascending(Places(sig, "positional") \ {VariadicSlot(sig)})

\* Whether Terraform may send a null there; a variadic one always takes it.
AllowsNull(sig, slot) == sig[slot].nullable \/ slot = VariadicSlot(sig)

\* The parameter an argument of the call is for, 0 if there is none.
SlotOf(sig, i) ==
  IF i <= Len(RequiredSlots(sig)) THEN RequiredSlots(sig)[i] ELSE VariadicSlot(sig)

-----------------------------------------------------------------------------
(* The call: handlers/call_function.py.                                    *)

Arguments == {"value", "null", "unknown"}
Error == [outcome |-> "error"]
UnknownResult == [outcome |-> "unknown"]

\* What a parameter is bound to when no argument is: its default, or nothing.
DefaultValue == 0
Missing == -1

\* _check_argument_count.
CountIsRight(sig, args) ==
  LET required == Len(RequiredSlots(sig))
  IN IF VariadicSlot(sig) # 0 THEN Len(args) >= required ELSE Len(args) = required

\* The arguments beyond the required ones.
Trailing(sig, args) == {i \in DOMAIN args : i > Len(RequiredSlots(sig))}

\* _process_function_arguments: anything not wholly known makes the result
\* unknown without a call.
HasUnknown(args) == \E i \in DOMAIN args : args[i] = "unknown"

\* _bind_variadic_arguments refuses several arguments for one defaulted
\* parameter, which the declaration could not help advertising as variadic.
TooManyTrailing(sig, args) ==
  /\ VariadicSlot(sig) # 0
  /\ sig[VariadicSlot(sig)].kind # "rest"
  /\ Cardinality(Trailing(sig, args)) > 1

\* A null for a parameter with a default leaves the default in place.
IsOmitted(sig, args, i) == args[i] = "null" /\ sig[SlotOf(sig, i)].default

\* native_kwargs: the parameters that got an argument, each with its own.
NativeKwargs(sig, args) ==
  LET given == {i \in DOMAIN args :
                  sig[SlotOf(sig, i)].kind = "positional" /\ ~IsOmitted(sig, args, i)}
  IN [slot \in {SlotOf(sig, i) : i \in given} |->
        CHOOSE i \in given : SlotOf(sig, i) = slot]

\* The arguments that a genuine *args takes, nulls included.
RestArguments(sig, args) ==
  IF Places(sig, "rest") = {} THEN <<>>
  ELSE Ascending(Trailing(sig, args))

\* _build_function_arguments: what is there of the positional parameters, in
\* signature order, and the *args after them.
PositionalArguments(sig, args) ==
  LET kwargs == NativeKwargs(sig, args)
      slots  == Ascending(DOMAIN kwargs)
  IN [k \in DOMAIN slots |-> kwargs[slots[k]]] \o RestArguments(sig, args)

\* _inject_capabilities binds the parent capability to the keyword-only
\* parameter of its name, if it is registered; no other gets an argument.
KeywordsAreBound(sig, injected) ==
  \A i \in Places(sig, "keyword") : sig[i].default \/ i \in injected

\* Python binds a list of positional arguments from the left: the k-th to the
\* k-th positional parameter, the rest to *args.
PythonBinding(sig, positional) ==
  LET n == Cardinality(Places(sig, "positional"))
  IN [bound |-> [k \in 1..n |-> IF k <= Len(positional) THEN positional[k]
                                ELSE IF sig[k].default THEN DefaultValue ELSE Missing],
      rest  |-> SubSeq(positional, n + 1, Len(positional))]

\* _call_function_impl.
CallFunction(sig, args, injected) ==
  IF ~CountIsRight(sig, args) THEN Error
  ELSE IF HasUnknown(args) THEN UnknownResult
  ELSE IF TooManyTrailing(sig, args) THEN Error
  ELSE LET binding == PythonBinding(sig, PositionalArguments(sig, args))
       IN IF \/ \E k \in DOMAIN binding.bound : binding.bound[k] = Missing
             \/ binding.rest # <<>> /\ Places(sig, "rest") = {}
             \/ ~KeywordsAreBound(sig, injected)
          THEN Error
          ELSE [outcome |-> "called", bound |-> binding.bound, rest |-> binding.rest]

-----------------------------------------------------------------------------
(* What the caller meant, said without the wire: the arguments are for the *)
(* positional parameters from the left, and the ones after those for       *)
(* *args; a null for a parameter with a default stands for the default.    *)

Meant(sig, args) ==
  LET n == Cardinality(Places(sig, "positional"))
  IN [bound |-> [k \in 1..n |->
                   IF k <= Len(args) /\ ~(args[k] = "null" /\ sig[k].default) THEN k ELSE DefaultValue],
      rest  |-> [k \in 1..(Len(args) - n) |-> n + k]]

\* The calls that Terraform lets through: enough arguments for the declared
\* parameters, no more than there are unless the last is variadic, and a null
\* only where it is allowed.
IsWireCall(sig, args) ==
  /\ CountIsRight(sig, args)
  /\ \A i \in DOMAIN args : args[i] = "null" => AllowsNull(sig, SlotOf(sig, i))

\* A null for a default with another argument to the right of it.
NullBeforeArgument(sig, args) ==
  \E i, j \in DOMAIN args : i < j /\ IsOmitted(sig, args, i)
                                 /\ ~IsOmitted(sig, args, j)

\* Every argument of a call reaches the parameter it was written for.
BoundAsMeant(sig, args, answer) ==
  answer.outcome = "called" =>
    /\ answer.bound = Meant(sig, args).bound
    /\ answer.rest = Meant(sig, args).rest

\* A call with a binding is not refused.
NotRefused(sig, args, injected, answer) ==
  LET surplus == Places(sig, "rest") = {} /\ Len(args) > Cardinality(Places(sig, "positional"))
  IN answer.outcome = "error" => surplus \/ ~KeywordsAreBound(sig, injected)

-----------------------------------------------------------------------------
(* A function that Python and its declaration accept, and a call of it that *)
(* Terraform lets through, with any of its keyword parameters injected.     *)

NotCalled == [args |-> <<>>]
NotAnswered == [outcome |-> "none"]

AdmittedCalls(sig) ==
  [args : {s \in UNION {[1..n -> Arguments] : n \in 0..MaxArguments} : IsWireCall(sig, s)},
   injected : SUBSET Places(sig, "keyword")]

FnInit ==
  /\ fnSignature \in {s \in UNION {[1..n -> Parameters] : n \in 0..MaxParameters} : IsSignature(s)}
  /\ fnCall = NotCalled
  /\ fnAnswer = NotAnswered

FnNext ==
  /\ fnCall = NotCalled
  /\ \E call \in AdmittedCalls(fnSignature) :
       /\ fnCall' = call
       /\ fnAnswer' = CallFunction(fnSignature, call.args, call.injected)
  /\ UNCHANGED fnSignature

FnSpec == FnInit /\ [][FnNext]_fnVars

\* A Python function gets, in each of its parameters, the argument the caller
\* wrote there, the default where it wrote none, and every trailing argument in
\* the variadic parameter; a call that Terraform's type check admits is refused
\* only for arguments beyond the last parameter, or for a keyword parameter that
\* nothing is injected into (_process_function_arguments, _bind_variadic_arguments).
\* A null before an argument, which moves the arguments after it, is excluded.
CallsBindAsMeant ==
  fnCall # NotCalled /\ ~NullBeforeArgument(fnSignature, fnCall.args) =>
    /\ BoundAsMeant(fnSignature, fnCall.args, fnAnswer)
    /\ NotRefused(fnSignature, fnCall.args, fnCall.injected, fnAnswer)
=============================================================================
