--------------------------- MODULE ProviderServer ---------------------------
(***************************************************************************)
(* The plugin process on its one event loop: component discovery and       *)
(* provider initialisation in the background, RPCs that wait for them in   *)
(* _ensure_provider_ready, the GetProviderSchema cache that computes once  *)
(* for all its callers, and StopProvider.  A step is what a task does      *)
(* between two awaits.                                                     *)
(***************************************************************************)
EXTENDS Naturals

CONSTANTS
  Call,        \* RPCs that Terraform sends
  KindOf,      \* what each asks for: "schema", "stop" or "other"
  MaxAttempts  \* bound on the schema computations: one per schema call is enough

ASSUME KindAssumption == KindOf \in [Call -> {"schema", "stop", "other"}]
ASSUME AttemptsAssumption == MaxAttempts \in Nat

VARIABLES
  ready,     \* DISCOVERY_READY_EVENT is set
  init,      \* the background_init task
  resolved,  \* ProviderHandler._resolved_provider is set
  server,    \* "serving", "stopping" once _stop_after_response is scheduled, "stopped"
  call,      \* where each RPC is, or how it was answered
  future,    \* _schema_future: the attempt the cache points at, 0 for None
  attempt,   \* how each schema computation stands
  joined     \* the attempt whose future a schema call awaits

background == <<ready, init, server>>
cache == <<future, attempt, joined>>
vars == <<background, resolved, call, cache>>

Attempt == 1..MaxAttempts

\* "waiting" is _ensure_provider_ready, "handler" and "schema" are inside the handlers;
\* "unavailable" is its RuntimeError for a missing provider, "timeout" the one of 55 s.
InFlight == {"waiting", "handler", "schema"}
Answered == {"ok", "failed", "unavailable", "timeout", "cancelled"}

TypeOK ==
  /\ ready \in BOOLEAN /\ resolved \in BOOLEAN
  /\ init \in {"discovering", "setup", "registered", "failed", "cancelled"}
  /\ server \in {"serving", "stopping", "stopped"}
  /\ call \in [Call -> InFlight \cup Answered \cup {"idle"}]
  /\ future \in 0..MaxAttempts
  /\ attempt \in [Attempt -> {"unused", "running", "ok", "failed"}]
  /\ joined \in [Call -> 0..MaxAttempts]

Init ==
  /\ ready = FALSE /\ init = "discovering"
  /\ resolved = FALSE /\ server = "serving"
  /\ call = [c \in Call |-> "idle"]
  /\ future = 0
  /\ attempt = [n \in Attempt |-> "unused"]
  /\ joined = [c \in Call |-> 0]

Running == server # "stopped"

Goto(c, from, to) == Running /\ call[c] = from /\ call' = [call EXCEPT ![c] = to]

------------------------------------------------------------------------------
\* _discover_and_signal: the event is set whether discovery succeeded or not.
DiscoveryEnds ==
  /\ Running /\ ~ready
  /\ ready' = TRUE
  /\ UNCHANGED <<init, server, resolved, call, cache>>

\* _initialize_and_register_provider resumes, and finds no provider class or runs setup().
SetupStarts ==
  /\ Running /\ ready /\ init = "discovering"
  /\ init' \in {"setup", "failed"}
  /\ UNCHANGED <<ready, server, resolved, call, cache>>

\* setup() may suspend; once it returns the provider is registered in the hub.
SetupEnds ==
  /\ Running /\ init = "setup"
  /\ init' \in {"registered", "failed"}
  /\ UNCHANGED <<ready, server, resolved, call, cache>>

------------------------------------------------------------------------------
Arrive(c) ==
  /\ Goto(c, "idle", "waiting")
  /\ UNCHANGED <<background, resolved, cache>>

Resolved == resolved \/ (ready /\ init = "registered")

\* _ensure_provider_ready returns and _delegate runs the handler.
EnsureReady(c) ==
  /\ Resolved /\ KindOf[c] # "schema"
  /\ Goto(c, "waiting", "handler")
  /\ resolved' = TRUE
  /\ UNCHANGED <<background, cache>>

\* The event is set and the hub has no provider.
Unavailable(c) ==
  /\ ready /\ ~Resolved
  /\ Goto(c, "waiting", "unavailable")
  /\ UNCHANGED <<background, resolved, cache>>

WaitTimesOut(c) ==
  /\ ~ready /\ ~resolved
  /\ Goto(c, "waiting", "timeout")
  /\ UNCHANGED <<background, resolved, cache>>

------------------------------------------------------------------------------
\* The attempt that a schema call starts: the next one.
Fresh(n) == attempt[n] = "unused" /\ \A m \in 1..(n - 1) : attempt[m] # "unused"

StartCompute(c) ==
  \E n \in Attempt :
    /\ Fresh(n)
    /\ future' = n
    /\ attempt' = [attempt EXCEPT ![n] = "running"]
    /\ joined' = [joined EXCEPT ![c] = n]

\* Under _cache_lock: a future is created and its task scheduled if there is none.
Join(c) ==
  \/ /\ future # 0
     /\ joined' = [joined EXCEPT ![c] = future]
     /\ UNCHANGED <<future, attempt>>
  \/ /\ future = 0
     /\ StartCompute(c)

GetSchema(c) ==
  /\ Resolved /\ KindOf[c] = "schema"
  /\ Goto(c, "waiting", "schema")
  /\ resolved' = TRUE
  /\ Join(c)
  /\ UNCHANGED background

ComputeKeepsFailure(n) ==  \* mutant: a failed computation stays cached
  /\ Running /\ attempt[n] = "running"
  /\ \E outcome \in {"ok", "failed"} : attempt' = [attempt EXCEPT ![n] = outcome]
  /\ UNCHANGED <<background, resolved, call, future, joined>>

\* _set_future_result: the result goes to every caller, a failure is not kept.
ComputeEnds(n) ==
  /\ Running /\ attempt[n] = "running"
  /\ \E outcome \in {"ok", "failed"} :
       /\ attempt' = [attempt EXCEPT ![n] = outcome]
       /\ future' = IF outcome = "failed" THEN 0 ELSE future
  /\ UNCHANGED <<background, resolved, call, joined>>

SchemaReturns(c) ==
  /\ joined[c] # 0 /\ attempt[joined[c]] \in {"ok", "failed"}
  /\ Goto(c, "schema", attempt[joined[c]])
  /\ UNCHANGED <<background, resolved, cache>>

------------------------------------------------------------------------------
HandlerReturns(c) ==
  /\ KindOf[c] = "other"
  /\ Goto(c, "handler", "ok") \/ Goto(c, "handler", "failed")
  /\ UNCHANGED <<background, resolved, cache>>

StopAwaited(c) ==  \* mutant: the handler awaits server.stop() itself
  /\ KindOf[c] = "stop"
  /\ server = "serving" /\ call[c] = "handler"
  /\ server' = "stopping"
  /\ UNCHANGED <<ready, init, resolved, call, cache>>

\* _stop_provider_impl: schedule the shutdown and answer.
StopProvider(c) ==
  /\ KindOf[c] = "stop"
  /\ Goto(c, "handler", "ok")
  /\ server' = "stopping"
  /\ UNCHANGED <<ready, init, resolved, cache>>

\* The hub names no server, or reaching it raises: an empty answer or one with an Error, and
\* nothing is scheduled.
StopFindsNoServer(c) ==
  /\ KindOf[c] = "stop"
  /\ Goto(c, "handler", "ok") \/ Goto(c, "handler", "failed")
  /\ UNCHANGED <<background, resolved, cache>>

\* _stop_after_response after its grace period: calls in flight are cancelled, serve()
\* returns, and what is left of background_init is cancelled.
ServerStops ==
  /\ server = "stopping"
  /\ server' = "stopped"
  /\ call' = [c \in Call |-> IF call[c] \in InFlight THEN "cancelled" ELSE call[c]]
  /\ init' = IF init \in {"discovering", "setup"} THEN "cancelled" ELSE init
  /\ UNCHANGED <<ready, resolved, cache>>

CancelPropagates(c) ==  \* mutant: the await on the shared future is not shielded
  /\ \E l \in InFlight : Goto(c, l, "cancelled")
  /\ attempt' = [n \in Attempt |-> IF call[c] = "schema" /\ joined[c] = n
                                      /\ attempt[n] = "running"
                                   THEN "unused" ELSE attempt[n]]
  /\ UNCHANGED <<background, resolved, future, joined>>

\* The client gives up on a call (Ctrl-C, a disconnect); the schema future is shielded.
Cancel(c) ==
  /\ \E l \in InFlight : Goto(c, l, "cancelled")
  /\ UNCHANGED <<background, resolved, cache>>

Progress(c) ==
  \/ EnsureReady(c) \/ Unavailable(c) \/ WaitTimesOut(c)
  \/ GetSchema(c) \/ SchemaReturns(c) \/ HandlerReturns(c)
  \/ StopProvider(c) \/ StopFindsNoServer(c)

Next ==
  \/ DiscoveryEnds \/ SetupStarts \/ SetupEnds \/ ServerStops
  \/ \E n \in Attempt : ComputeEnds(n)
  \/ \E c \in Call : Arrive(c) \/ Progress(c) \/ Cancel(c)

Spec == Init /\ [][Next]_vars

\* The event loop runs every task that is ready and every timer that is due, and schema
\* computations come to an end.  Nothing is assumed of discovery or of setup().
FairSpec ==
  /\ Spec
  /\ \A n \in Attempt : WF_vars(ComputeEnds(n))
  /\ \A c \in Call : WF_vars(Progress(c))

------------------------------------------------------------------------------
(***************************************************************************)
(* Properties.                                                             *)
(***************************************************************************)

\* No handler runs before the provider is set up and registered, though the server listens
\* from the start: what _ensure_provider_ready is for.
HandlersSeeProvider ==
  \A c \in Call : call[c] \in {"handler", "schema"} => init = "registered"

\* "The schema is computed only once": two computations never run at the same time.
OneComputation ==
  \A m, n \in Attempt : attempt[m] = "running" /\ attempt[n] = "running" => m = n

\* "A failure is not kept": the cached future is being computed or holds a good schema; it is
\* never a failed or a cancelled one, which would answer every later call for good.
CacheIsUsable == future # 0 => attempt[future] \in {"running", "ok"}

\* A good schema, once cached, is the one every later call of the process is answered with.
GoodSchemaStays == \A n \in Attempt : attempt[n] = "ok" => future = n

\* The server is on its way down only after the call that asked for it has its answer: an
\* orderly stop is never reported as a dead plugin.
StopIsAnswered ==
  server # "serving" => \E c \in Call : KindOf[c] = "stop" /\ call[c] = "ok"

\* Every call is answered, even if discovery or setup() hangs, a peer call is cancelled
\* or the shared computation fails.
EveryCallAnswered ==
  \A c \in Call : call[c] \in InFlight ~> call[c] \in Answered

\* An RPC is refused for want of a provider only once its initialisation has failed ("initiali-
\* zation failed to complete").  The code breaks it: the event is set before setup() has run.
UnavailableMeansFailed ==
  \A c \in Call : call[c] = "unavailable" => init = "failed"

==============================================================================
