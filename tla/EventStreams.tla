---------------------------- MODULE EventStreams ----------------------------
(***************************************************************************)
(* The two server-streaming calls of components: InvokeAction, which       *)
(* forwards an action's progress and ends with a completed event, and      *)
(* ListResource, which sends one event for each resource found.  Both walk *)
(* an async generator of the provider's author, which may yield, end,      *)
(* raise or be cancelled at any of its steps and need never end by itself; *)
(* Terraform may cancel the call at any time.  PlanAction and the two      *)
(* validations are the unary calls that go before them.                    *)
(*                                                                         *)
(* Source: handlers/action_handlers.py, handlers/list_resource.py,         *)
(* handlers/config_handlers.py (ValidateListResourceConfig) and the two    *)
(* streaming methods of handler.py.  Terraform is external.                *)
(***************************************************************************)
EXTENDS Naturals, Sequences

CONSTANTS
  MaxItems,   \* bound: items one generator yields when nothing else stops it
  Limits      \* the limits Terraform may ask for; 0 is no limit

ASSUME MaxItemsAssumption == MaxItems \in Nat
ASSUME LimitsAssumption == Limits \subseteq Nat /\ 0 \in Limits

VARIABLES
  evCall,     \* the request in progress: its kind and what it asks for
  evPhase,    \* where the stream stands
  evEvents,   \* the events sent so far
  evItems,    \* items the author's generator has yielded
  evPlan      \* the answer of the last unary call

evVars == <<evCall, evPhase, evEvents, evItems, evPlan>>

Kinds == {"none", "action", "list"}
Phases == {"idle", "starting", "iterating", "ended", "broken", "cancelled"}

Progress  == "progress"
Result    == "result"
Completed == "completed"
Failed    == "completed with error"   \* a completed event that holds an error
ErrorOnly == "error"                  \* a list event that is only a diagnostic
Events == {Progress, Result, Completed, Failed, ErrorOnly}

NoCall == [kind |-> "none", limit |-> 0]
Calls == {NoCall} \cup [kind : {"action"}, limit : {0}] \cup [kind : {"list"}, limit : Limits]

\* A unary response: whether it holds an error, and whether it defers.
PlanAnswers == [error : BOOLEAN, deferred : BOOLEAN]
NoAnswer == [error |-> FALSE, deferred |-> FALSE]

EvInit ==
  /\ evCall = NoCall
  /\ evPhase = "idle"
  /\ evEvents = <<>>
  /\ evItems = 0
  /\ evPlan = NoAnswer

Streams == <<evCall, evPhase, evEvents, evItems>>

-----------------------------------------------------------------------------
(* The unary calls.  found: the type is registered and visible;            *)
(* decodes: the configuration decodes; complaints: the hook's messages.    *)

ValidateActionConfig(found, decodes, hook) ==
  /\ evPhase = "idle"
  /\ evPlan' = [error |-> ~found \/ ~decodes \/ hook # "content", deferred |-> FALSE]
  /\ UNCHANGED Streams

\* A provider without any list resource has nothing to validate against.
ValidateListResourceConfig(anyRegistered, found, decodes, hook) ==
  /\ evPhase = "idle"
  /\ evPlan' = [error |-> anyRegistered /\ (~found \/ ~decodes \/ hook # "content"),
                deferred |-> FALSE]
  /\ UNCHANGED Streams

\* A deferral that the client did not offer to accept becomes an error.
PlanAction(found, decodes, hook, deferralAllowed) ==
  LET planned == found /\ decodes /\ hook \in {"content", "defers"}
      defers  == planned /\ hook = "defers"
  IN /\ evPhase = "idle"
     /\ evPlan' = [error    |-> ~planned \/ (defers /\ ~deferralAllowed),
                   deferred |-> defers /\ deferralAllowed]
     /\ UNCHANGED Streams

-----------------------------------------------------------------------------
(* The streams.                                                            *)

Send(event) == evEvents' = Append(evEvents, event)

Request(call) ==
  /\ evPhase = "idle"
  /\ call.kind # "none"
  /\ evCall' = call
  /\ evPhase' = "starting"
  /\ UNCHANGED <<evEvents, evItems, evPlan>>

\* stream_invoke_action up to the loop: an unknown type and a configuration
\* that cannot be prepared each end the stream with a failed completion.
StartAction(found, prepared) ==
  /\ evCall.kind = "action" /\ evPhase = "starting"
  /\ IF found /\ prepared
     THEN evPhase' = "iterating" /\ UNCHANGED evEvents
     ELSE evPhase' = "ended" /\ Send(Failed)
  /\ UNCHANGED <<evCall, evItems, evPlan>>

\* Mutant: after an exception the stream still ends with a plain completion.
IterateActionOn(step) ==
  /\ evCall.kind = "action" /\ evPhase = "iterating"
  /\ CASE step = "yields"    -> evItems < MaxItems /\ Send(Progress)
                                  /\ evItems' = evItems + 1 /\ UNCHANGED evPhase
       [] step = "raises"    -> /\ evEvents' = evEvents \o <<Failed, Completed>>
                                /\ evPhase' = "ended" /\ UNCHANGED evItems
       [] step = "finishes"  -> Send(Completed) /\ evPhase' = "ended" /\ UNCHANGED evItems
       [] step = "cancelled" -> evPhase' = "broken" /\ UNCHANGED <<evEvents, evItems>>
  /\ UNCHANGED <<evCall, evPlan>>

\* One step of the action's generator: progress is forwarded, an exception
\* (and a progress that is no message) ends the stream with a failed
\* completion, and the generator's end with a plain one.
IterateAction(step) ==
  /\ evCall.kind = "action" /\ evPhase = "iterating"
  /\ CASE step = "yields"    -> evItems < MaxItems /\ Send(Progress)
                                  /\ evItems' = evItems + 1 /\ UNCHANGED evPhase
       [] step = "raises"    -> Send(Failed) /\ evPhase' = "ended" /\ UNCHANGED evItems
       [] step = "finishes"  -> Send(Completed) /\ evPhase' = "ended" /\ UNCHANGED evItems
       \* A cancellation inside the hook is no Exception: nothing catches it.
       [] step = "cancelled" -> evPhase' = "broken" /\ UNCHANGED <<evEvents, evItems>>
  /\ UNCHANGED <<evCall, evPlan>>

\* stream_list_resource up to the loop.  No registered list resource is an
\* empty stream; the other refusals are one error event, a configuration the
\* hook complains about one for each complaint.  What the two schema hooks
\* raise nothing catches, and the stream breaks.
StartList(anyRegistered, found, identity, complaints, objectsHaveSchema) ==
  /\ evCall.kind = "list" /\ evPhase = "starting"
  /\ IF ~anyRegistered THEN evPhase' = "ended" /\ UNCHANGED evEvents
     ELSE IF found /\ identity = "raises" THEN evPhase' = "broken" /\ UNCHANGED evEvents
     ELSE IF ~found \/ identity = "none" THEN evPhase' = "ended" /\ Send(ErrorOnly)
     ELSE IF complaints > 0
          THEN evPhase' = "ended" /\ evEvents' = evEvents \o [i \in 1..complaints |-> ErrorOnly]
     ELSE evPhase' = (IF objectsHaveSchema THEN "iterating" ELSE "broken") /\ UNCHANGED evEvents
  /\ UNCHANGED <<evCall, evItems, evPlan>>

\* Mutant: the limit is tested before the item is counted.
ReachedLimitLate(limit, emitted) == limit > 0 /\ emitted > limit

\* A limit of zero is no limit.
ReachedLimit(limit, emitted) == limit > 0 /\ emitted >= limit

\* Mutant: from the last item the limit allows, items are skipped and the loop goes
\* on; how many were skipped is counted modulo two.
IterateListSkipping(step) ==
  /\ evCall.kind = "list" /\ evPhase = "iterating"
  /\ IF step = "yields"
     THEN /\ evCall.limit = 0 => evItems < MaxItems
          /\ IF ReachedLimit(evCall.limit, evItems + 1)
             THEN evItems' = (2 * evCall.limit - 1) - evItems /\ UNCHANGED evEvents
             ELSE evItems' = evItems + 1 /\ Send(Result)
          /\ UNCHANGED evPhase
     ELSE evPhase' = "ended" /\ UNCHANGED <<evEvents, evItems>>
  /\ UNCHANGED <<evCall, evPlan>>

\* One step of the listing.  A result that does not marshal raises inside
\* the same try as the generator: one error event, and the stream is over.
IterateList(step) ==
  /\ evCall.kind = "list" /\ evPhase = "iterating"
  /\ CASE step = "yields"    -> /\ evCall.limit = 0 => evItems < MaxItems
                                /\ Send(Result)
                                /\ evItems' = evItems + 1
                                /\ evPhase' = IF ReachedLimit(evCall.limit, evItems + 1)
                                              THEN "ended" ELSE "iterating"
       [] step = "raises"    -> Send(ErrorOnly) /\ evPhase' = "ended" /\ UNCHANGED evItems
       [] step = "finishes"  -> evPhase' = "ended" /\ UNCHANGED <<evEvents, evItems>>
       [] step = "cancelled" -> evPhase' = "broken" /\ UNCHANGED <<evEvents, evItems>>
  /\ UNCHANGED <<evCall, evPlan>>

\* Terraform cancels: the handler's generator is closed where it stands, and
\* sends nothing more.
CancelStream ==
  /\ evPhase \in {"starting", "iterating"}
  /\ evPhase' = "cancelled"
  /\ UNCHANGED <<evCall, evEvents, evItems, evPlan>>

\* The call is over and Terraform makes another.
NextRequest ==
  /\ evPhase \in {"ended", "broken", "cancelled"}
  /\ evPhase' = "idle"
  /\ evCall' = NoCall
  /\ evEvents' = <<>>
  /\ evItems' = 0
  /\ UNCHANGED evPlan

-----------------------------------------------------------------------------

Hooks == {"content", "complains", "raises"}
Steps == {"yields", "raises", "finishes", "cancelled"}

Unary ==
  \E found, decodes, b \in BOOLEAN, hook \in Hooks \cup {"defers"} :
    \/ hook \in Hooks /\ ValidateActionConfig(found, decodes, hook)
    \/ hook \in Hooks /\ ValidateListResourceConfig(b, found, decodes, hook)
    \/ hook # "complains" /\ PlanAction(found, decodes, hook, b)

StreamStep ==
  \/ \E found, prepared \in BOOLEAN : StartAction(found, prepared)
  \/ \E anyRegistered, found, objectsHaveSchema \in BOOLEAN, complaints \in 0..2 :
       \E identity \in {"declared", "none", "raises"} :
         StartList(anyRegistered, found, identity, complaints, objectsHaveSchema)
  \/ \E step \in Steps : IterateAction(step) \/ IterateList(step)

EvNext ==
  \/ Unary
  \/ \E call \in Calls : Request(call)
  \/ StreamStep
  \/ CancelStream
  \/ NextRequest

\* The loop goes on while the generator does; that it ends is the author's
\* promise, not the code's, and is not assumed.
EvFairness == WF_evVars(StreamStep)

EvSpec == EvInit /\ [][EvNext]_evVars /\ EvFairness

-----------------------------------------------------------------------------
(* Properties.                                                             *)

EvTypeOK ==
  /\ evCall \in Calls
  /\ evPhase \in Phases
  /\ evEvents \in Seq(Events)
  /\ evItems \in Nat
  /\ evPlan \in PlanAnswers

Completions == {i \in 1..Len(evEvents) : evEvents[i] \in {Completed, Failed}}

\* Terraform takes a completed event as the end of the action: a stream that
\* ended by itself has exactly one, a stream that goes on has none, and
\* nothing follows it.
CompletesOnce ==
  evCall.kind = "action" =>
    /\ evPhase = "ended" => Completions = {Len(evEvents)}
    /\ evPhase # "ended" => Completions = {}

\* A listing never sends more results than Terraform asked for, whatever the
\* list resource yields, and no result follows an error event.
LimitIsKept ==
  evCall.kind = "list" =>
    /\ evCall.limit > 0 =>
         \A i \in 1..Len(evEvents) : evEvents[i] = Result => i <= evCall.limit
    /\ \A i, j \in 1..Len(evEvents) : i < j /\ evEvents[i] = ErrorOnly => evEvents[j] # Result

\* A listing with a limit ends even when the list resource never stops
\* yielding.
LimitedListEnds ==
  (evCall.kind = "list" /\ evCall.limit > 0 /\ evPhase = "starting")
    ~> evPhase \in {"ended", "broken", "cancelled"}
=============================================================================
