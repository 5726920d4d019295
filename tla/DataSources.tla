---------------------------- MODULE DataSources ----------------------------
(***************************************************************************)
(* A data source from its validation to the reads of a plan and of the     *)
(* apply that follows, each answered from what its hook returns, raises,   *)
(* defers, or adds to the diagnostics of the context it is given.          *)
(*                                                                         *)
(* Source: handlers/validate_data_resource_config.py, read_data_source.py  *)
(* and _component_config.py.  Terraform, which reads nothing that has not  *)
(* passed validation, is external.  A state is None, or a model value.     *)
(***************************************************************************)
EXTENDS Naturals, FiniteSets

CONSTANTS
  SourceStates,   \* what a read hook may return
  NullState       \* None, and the null it is on the wire

ASSUME NullStateAssumption == NullState \in SourceStates

VARIABLES
  dsClass,     \* the type as the provider registered it
  dsConfig,    \* the configuration
  dsAllowed,   \* the client's deferral_allowed
  dsPhase,     \* how far Terraform is
  dsHook,      \* what the read hook of the last call did
  dsAnswer     \* the last answer

dsVars == <<dsClass, dsConfig, dsAllowed, dsPhase, dsHook, dsAnswer>>

\* What it is registered under, and whether its read() may be called without the capability.
DataClasses ==
  [registered : BOOLEAN, testOnly : BOOLEAN, parent : {"provider", "registered", "missing"},
   optional : BOOLEAN]
DataConfigs == {"sound", "invalid", "undecodable"}

NoState == "unset"   \* the empty bytes of a response that sets no state

\* What read() may do: it has a state when it returns, which the schema may
\* refuse, and it may have added an error whatever it does then.
ReadHooks ==
  {h \in [how : {"returned", "raised", "deferred"}, state : SourceStates, encodes : BOOLEAN,
          adds : BOOLEAN] :
     /\ h.how # "returned" => h.state = NullState
     /\ h.state = NullState => h.encodes}

NotReached == [how |-> "not reached", state |-> NullState, encodes |-> TRUE, adds |-> FALSE]

Answer(errors, state, deferred) == [errors |-> errors, state |-> state, deferred |-> deferred]

DsInit ==
  /\ dsClass \in DataClasses
  /\ dsConfig \in DataConfigs
  /\ dsAllowed \in BOOLEAN
  /\ dsPhase = "new"
  /\ dsHook = NotReached
  /\ dsAnswer = Answer({}, NoState, FALSE)

\* decode_config: only a validation asks the schema's validators.
ConfigDecodes(validate) == dsConfig = "sound" \/ (dsConfig = "invalid" /\ ~validate)

-----------------------------------------------------------------------------
\* ValidateDataResourceConfig; its hook complains or raises.
ValidateSource(hookIsContent) ==
  LET errors == IF ~dsClass.registered THEN {"unknown type"}
                ELSE IF ~ConfigDecodes(TRUE) THEN {"config"}
                ELSE IF ~hookIsContent THEN {"hook"} ELSE {}
  IN /\ dsPhase = "new"
     /\ dsPhase' = IF errors = {} THEN "validated" ELSE "refused"
     /\ dsAnswer' = Answer(errors, NoState, FALSE)
     /\ UNCHANGED <<dsClass, dsConfig, dsAllowed, dsHook>>

\* _registered_data_source: no type, or one for tests outside of test mode.
Unregistered(testMode) ==
  IF ~dsClass.registered THEN {"unknown type"}
  ELSE IF dsClass.testOnly /\ ~testMode THEN {"test only"} ELSE {}

\* _capability_kwargs: a hook whose capability the hub has not is called without it, which is a
\* TypeError unless its parameter has a default.
HookCanRun == dsClass.parent = "missing" => dsClass.optional

\* _write_state, or what the except clauses make of an exception.
HookAnswer(hook) ==
  CASE hook.how = "returned" /\ hook.encodes -> Answer({}, hook.state, FALSE)
    [] hook.how = "returned" /\ ~hook.encodes -> Answer({"encoding"}, NoState, FALSE)
    [] hook.how = "raised" -> Answer({"hook"}, NoState, FALSE)
    [] hook.how = "deferred" ->
         IF dsAllowed THEN Answer({}, NoState, TRUE) ELSE Answer({"deferral"}, NoState, FALSE)

\* Mutant: an answer to an exception has the exception only.
AddedIfReturned(hook) ==
  LET given == HookAnswer(hook)
  IN Answer(given.errors \cup (IF hook.adds /\ hook.how = "returned" THEN {"added"} ELSE {}),
            given.state, given.deferred)

\* The end of _read_data_source_impl, which every way through it reaches.
ReadAnswer(hook) ==
  LET given == HookAnswer(hook)
  IN Answer(given.errors \cup (IF hook.adds THEN {"added"} ELSE {}), given.state, given.deferred)

\* ReadDataSource refused before the hook: the type, the configuration, or a
\* hook that cannot be called as it is.
ReadRefused(testMode) ==
  LET errors == IF Unregistered(testMode) # {} THEN Unregistered(testMode)
                ELSE IF ~ConfigDecodes(FALSE) THEN {"config"}
                ELSE IF ~HookCanRun THEN {"hook"} ELSE {}
  IN /\ dsPhase \in {"validated", "read"}
     /\ errors # {}
     /\ dsPhase' = "refused"
     /\ dsHook' = NotReached
     /\ dsAnswer' = Answer(errors, NoState, FALSE)
     /\ UNCHANGED <<dsClass, dsConfig, dsAllowed>>

\* Terraform reads again, in a later plan or at apply, unless an error stops it.
Read(hook, testMode) ==
  /\ dsPhase \in {"validated", "read"}
  /\ Unregistered(testMode) = {} /\ ConfigDecodes(FALSE) /\ HookCanRun
  /\ dsHook' = hook
  /\ dsAnswer' = ReadAnswer(hook)
  /\ dsPhase' = IF ReadAnswer(hook).errors = {} THEN "read" ELSE "refused"
  /\ UNCHANGED <<dsClass, dsConfig, dsAllowed>>

DsNext ==
  \/ \E hookIsContent \in BOOLEAN : ValidateSource(hookIsContent)
  \/ \E testMode \in BOOLEAN : ReadRefused(testMode)
  \/ \E hook \in ReadHooks, testMode \in BOOLEAN : Read(hook, testMode)

DsSpec == DsInit /\ [][DsNext]_dsVars

-----------------------------------------------------------------------------
DsTypeOK ==
  /\ dsClass \in DataClasses
  /\ dsConfig \in DataConfigs
  /\ dsAllowed \in BOOLEAN
  /\ dsPhase \in {"new", "validated", "refused", "read"}
  /\ dsHook \in ReadHooks \cup {NotReached}
  /\ dsAnswer.deferred \in BOOLEAN
  /\ dsAnswer.state \in SourceStates \cup {NoState}

\* Nothing that a read hook did is lost on the way to Terraform: the errors it
\* added arrive also when it then raised, deferred, or returned what does not
\* encode; an answer without an error and without a deferral has the state it
\* returned, and no other answer has a state that it did not; a deferral
\* arrives only where it is allowed.
AnswerTellsAll ==
  LET added == dsHook.adds /\ dsHook.how # "not reached"
  IN /\ added => "added" \in dsAnswer.errors
     /\ dsAnswer.state # NoState => dsHook.how = "returned" /\ dsAnswer.state = dsHook.state
     /\ dsPhase = "read" => dsAnswer.deferred \/ dsAnswer.state = dsHook.state
     /\ dsAnswer.deferred => dsAllowed /\ dsHook.how = "deferred"
     /\ dsHook.how \in {"raised", "deferred"} => dsAnswer.deferred \/ dsAnswer.errors # {}

=============================================================================
