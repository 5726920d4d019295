-------------------------- MODULE ComponentCatalog --------------------------
(***************************************************************************)
(* What a provider is made of, and what it tells Terraform of it: packages *)
(* are imported, their decorated classes land in the hub, the provider is  *)
(* set up over them, and GetMetadata, GetProviderSchema and GetFunctions   *)
(* each publish a catalogue that later calls are dispatched by.            *)
(*                                                                         *)
(* Source: hub/discovery.py, hub/components.py, providers/base.py (setup), *)
(* handlers/get_metadata.py, get_provider_schema.py, get_functions.py and  *)
(* get_resource_identity_schemas.py, conversion/schema_adapter.py,         *)
(* read_data_source.py (which class a call reaches, and with which         *)
(* capability) and the test-mode helpers of handlers/utils.py.  Importing  *)
(* a module, the entry points of the installed packages and the retry      *)
(* decorator of provide.foundation are external.                           *)
(*                                                                         *)
(* No RPC runs before the provider is registered: ProviderServer.          *)
(***************************************************************************)
EXTENDS Naturals, FiniteSets

CONSTANTS
  Class,       \* decorated classes: kind, name, testOnly, abstract, parent
               \* capability, and what is declared as schema and as identity
  Module,      \* Python modules that discovery may reach
  Package,     \* the entry points of the group "pyvider"
  Submodules,  \* the modules directly below each module
  Members,     \* the classes visible in each module, its own and imported ones
  Explicit     \* the modules with a register_components of their own

ASSUME ModuleAssumption ==
  /\ IsFiniteSet(Module)
  /\ Package \subseteq Module /\ Explicit \subseteq Module
  /\ Submodules \in [Module -> SUBSET Module]
  /\ Members \in [Module -> SUBSET Class]

VARIABLES
  catBroken,    \* modules that raise while they are imported or registered
  catStrict,    \* discover_all(strict)
  catAttempt,   \* which attempt of the retry decorator is running
  catPhase,     \* where discovery stands
  catUnlisted,  \* it could not list the entry points
  catTodo,      \* modules it has still to visit
  catDone,      \* _discovered_modules
  catErrors,    \* import_errors
  catHub,       \* the classes in the registry
  catProvider,  \* the provider instance: none, ready, or its setup failed
  catEnv,       \* PYVIDER_TESTMODE
  catContext,   \* test_mode_enabled of the provider context, once there is one
  catSchema,    \* the cached answer of GetProviderSchema, as a set of classes
  catFunctions, \* _cached_functions
  catAdvertised \* the classes that any catalogue has named so far

catWorld == <<catBroken, catEnv>>
catWalk == <<catStrict, catAttempt, catPhase, catUnlisted, catTodo, catDone, catErrors, catHub>>
catRpc == <<catContext, catSchema, catFunctions, catAdvertised>>
catVars == <<catWorld, catWalk, catProvider, catRpc>>

NotYet == [answered |-> FALSE, classes |-> {}]
Answered(classes) == [answered |-> TRUE, classes |-> classes]

CatInit ==
  /\ catBroken \in SUBSET Module
  /\ catEnv \in {"on", "off", "unset"}
  /\ catStrict \in BOOLEAN
  /\ catAttempt = 1 /\ catPhase = "idle" /\ catUnlisted = FALSE
  /\ catTodo = {} /\ catDone = {} /\ catErrors = {} /\ catHub = {}
  /\ catProvider = "none" /\ catContext = "none"
  /\ catSchema = NotYet /\ catFunctions = NotYet /\ catAdvertised = {}

-----------------------------------------------------------------------------
Key(c) == <<c.kind, c.name>>

\* ComponentRegistry.register, class after class: of two that have the same
\* kind and name the later one stays.
Registered(hub, classes) ==
  {{d \in hub : \A c \in classes : Key(c) # Key(d)} \cup last :
     last \in {s \in SUBSET classes :
                 /\ \A c, d \in s : Key(c) = Key(d) => c = d
                 /\ \A c \in classes : \E d \in s : Key(c) = Key(d)}}

\* _process_module: a decorated class that is still abstract is skipped with a
\* warning.
Concrete(m) == {c \in Members[m] : ~c.abstract}

\* discover_all up to the loop.
StartDiscovery ==
  /\ catPhase \in {"idle", "retrying"}
  /\ catPhase' = "walking"
  /\ catErrors' = {}
  /\ catTodo' = Package
  /\ UNCHANGED <<catWorld, catStrict, catAttempt, catUnlisted, catDone, catHub, catProvider,
                 catRpc>>

\* The entry points cannot be listed: logged, and discovery is over as if there
\* were none, strict or not, with no error recorded.
QueryFails ==
  /\ catPhase \in {"idle", "retrying"}
  /\ catPhase' = "ended"
  /\ catUnlisted' = TRUE
  /\ catErrors' = {}
  /\ catTodo' = {}
  /\ UNCHANGED <<catWorld, catStrict, catAttempt, catDone, catHub, catProvider, catRpc>>

\* _discover_package of a module discovered before.
SkipModule(m) ==
  /\ catPhase = "walking" /\ m \in catTodo \cap catDone
  /\ catTodo' = catTodo \ {m}
  /\ UNCHANGED <<catWorld, catStrict, catAttempt, catUnlisted, catPhase, catDone, catErrors,
                 catHub, catProvider, catRpc>>

\* _discover_package and _register_from_package: the module counts as
\* discovered once it is imported, and its submodules are walked unless it
\* registers its components itself.
DiscoverModule(m) ==
  /\ catPhase = "walking" /\ m \in catTodo \ catDone
  /\ m \notin catBroken
  /\ catDone' = catDone \cup {m}
  /\ catHub' \in Registered(catHub, Concrete(m))
  /\ catTodo' = (catTodo \ {m}) \cup (IF m \in Explicit THEN {} ELSE Submodules[m])
  /\ UNCHANGED <<catWorld, catStrict, catAttempt, catUnlisted, catPhase, catErrors, catProvider,
                 catRpc>>

Retry ==
  IF catAttempt = 1 THEN catAttempt' = 2 /\ catPhase' = "retrying"
  ELSE catPhase' = "raised" /\ UNCHANGED catAttempt

FailSilently(m) ==  \* mutant: an ImportError is logged and not recorded
  /\ catTodo' = catTodo \ {m}
  /\ UNCHANGED <<catAttempt, catPhase, catErrors>>

\* The error branches: strict raises, which the decorator answers with one
\* more attempt; otherwise the module is listed and the walk goes on.
Fail(m) ==
  IF catStrict
  THEN Retry /\ UNCHANGED <<catTodo, catErrors>>
  ELSE /\ catErrors' = catErrors \cup {m}
       /\ catTodo' = catTodo \ {m}
       /\ UNCHANGED <<catAttempt, catPhase>>

\* A module that cannot be imported, or whose own register_components stops
\* after some of its classes: by then it is among the discovered ones.
BreakModule(m) ==
  /\ catPhase = "walking" /\ m \in (catTodo \ catDone) \cap catBroken
  /\ IF m \in Explicit
     THEN /\ catDone' = catDone \cup {m}
          /\ \E some \in SUBSET Concrete(m) : catHub' \in Registered(catHub, some)
     ELSE UNCHANGED <<catDone, catHub>>
  /\ Fail(m)
  /\ UNCHANGED <<catWorld, catStrict, catUnlisted, catProvider, catRpc>>

EndDiscovery ==
  /\ catPhase = "walking" /\ catTodo = {}
  /\ catPhase' = "ended"
  /\ UNCHANGED <<catWorld, catStrict, catAttempt, catUnlisted, catTodo, catDone, catErrors,
                 catHub, catProvider, catRpc>>

-----------------------------------------------------------------------------
OfKind(kind) == {c \in catHub : c.kind = kind}
Capabilities == {c.name : c \in OfKind("capability")} \cup {"provider"}
CheckedKinds == {"resource", "data_source", "function"}

SetupUnchecked ==  \* mutant: nobody asks whether the parent capabilities exist
  /\ catPhase \in {"ended", "raised"} /\ catProvider = "none"
  /\ catProvider' = IF OfKind("provider") = {} THEN "failed" ELSE "ready"
  /\ UNCHANGED <<catWorld, catWalk, catRpc>>

\* _instantiate_providers and BaseProvider.setup, once discovery has ended
\* one way or the other.
Setup ==
  /\ catPhase \in {"ended", "raised"} /\ catProvider = "none"
  /\ catProvider' =
       IF /\ OfKind("provider") # {}
          /\ \A kind \in CheckedKinds : \A c \in OfKind(kind) : c.parent \in Capabilities
       THEN "ready" ELSE "failed"
  /\ UNCHANGED <<catWorld, catWalk, catRpc>>

\* is_test_mode_enabled: the context when it says so, the environment if not.
TestMode == catContext = "on" \/ catEnv = "on"

\* ConfigureProvider through _resolve_test_mode: the environment beats the
\* configuration.
ConfigureTestMode(configured) ==
  /\ catProvider = "ready" /\ catContext = "none"
  /\ catContext' = IF catEnv # "unset" THEN catEnv ELSE configured
  /\ UNCHANGED <<catWorld, catWalk, catProvider, catSchema, catFunctions, catAdvertised>>

\* get_filtered_components.
Filtered(kind) == {c \in OfKind(kind) : TestMode \/ ~c.testOnly}

ServedKinds == {"resource", "data_source", "function", "ephemeral_resource", "list_resource",
          "state_store", "action"}

GetMetadata ==
  /\ catProvider = "ready"
  /\ catAdvertised' = catAdvertised \cup UNION {Filtered(kind) : kind \in ServedKinds}
  /\ UNCHANGED <<catWorld, catWalk, catProvider, catContext, catSchema, catFunctions>>

\* pvs_schema_to_proto, and function_to_dict with dict_to_proto_function: an
\* object type with nested blocks inside has no form on the wire, nor does a
\* function whose types have none; a state store may declare no schema at all.
HasProto(c) == c.schema = "encodable"

\* pvs_identity_schema_to_proto: a flat set of scalars that Terraform neither
\* computes nor fills in nor hides.
IdentityFlaws == {"nested blocks", "not scalar", "default", "computed", "sensitive"}
HasIdentityProto(c) == c.identity \notin IdentityFlaws \cup {"none"}

\* _compute_schema_once: a class whose schema cannot be converted is left out,
\* with a warning, and the answer is kept for the life of the process.
ComputeSchema ==
  /\ catProvider = "ready"
  /\ LET computed == {c \in UNION {Filtered(kind) : kind \in ServedKinds} : HasProto(c)}
         answer == IF catSchema.answered THEN catSchema.classes ELSE computed
     IN /\ catSchema' = Answered(answer)
        /\ catAdvertised' = catAdvertised \cup answer
  /\ UNCHANGED <<catWorld, catWalk, catProvider, catContext, catFunctions>>

\* _get_functions_once: every function there is, computed once.
GetFunctions ==
  /\ catProvider = "ready"
  /\ LET answer == IF catFunctions.answered THEN catFunctions.classes
                   ELSE {c \in OfKind("function") : HasProto(c)}
     IN /\ catFunctions' = Answered(answer)
        /\ catAdvertised' = catAdvertised \cup answer
  /\ UNCHANGED <<catWorld, catWalk, catProvider, catContext, catSchema>>

\* GetResourceIdentitySchemas: what declares an identity, under its own name.
GetIdentitySchemas ==
  /\ catProvider = "ready"
  /\ catAdvertised' = catAdvertised \cup
       {c \in Filtered("resource") \cup Filtered("list_resource") : HasIdentityProto(c)}
  /\ UNCHANGED <<catWorld, catWalk, catProvider, catContext, catSchema, catFunctions>>

CatNext ==
  \/ StartDiscovery \/ QueryFails \/ EndDiscovery
  \/ \E m \in Module : SkipModule(m) \/ DiscoverModule(m) \/ BreakModule(m)
  \/ Setup \/ GetMetadata \/ ComputeSchema \/ GetFunctions \/ GetIdentitySchemas
  \/ \E configured \in {"on", "off"} : ConfigureTestMode(configured)

CatSpec == CatInit /\ [][CatNext]_catVars

-----------------------------------------------------------------------------
\* check_test_only_access and _capability_kwargs: a call by this name is
\* admitted and finds the capability it is to be given.
IsServed(c) ==
  /\ c \in catHub
  /\ TestMode \/ ~c.testOnly
  /\ c.kind \in CheckedKinds => c.parent \in Capabilities

\* Every module that discovery would reach if nothing were broken.
Reach[n \in Nat] ==
  IF n = 0 THEN Package
  ELSE Reach[n - 1] \cup UNION {Submodules[m] : m \in Reach[n - 1] \ Explicit}
Reachable == Reach[Cardinality(Module)]

\* A discovery that ends without an error to report has found every component
\* of every package, under its kind and name: what `pyvider components` tells
\* its user, and what the lists of Terraform rest on.  One failure goes unreported:
\* when the entry points cannot be listed, there is no error either, and nothing
\* is found, so that no error means all or none.  (A strict discovery, tried
\* again by the decorator, skips what its first attempt had come to.)
NoErrorMeansAllOrNone ==
  catPhase = "ended" /\ ~catStrict /\ catErrors = {} =>
    IF catUnlisted THEN catHub = {}
    ELSE \A m \in Reachable : \A c \in Concrete(m) : \E d \in catHub : Key(d) = Key(c)

\* What Terraform was told of, the functions of GetFunctions aside, a later
\* call reaches: the test mode of a process only ever turns on, and the
\* capability a component is to be given was there when the provider was set up.
AdvertisedIsServed ==
  \A c \in catAdvertised : IsServed(c) \/ (c.testOnly /\ c.kind = "function")
=============================================================================
