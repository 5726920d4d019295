-------------------------- MODULE ProviderConfigure --------------------------
(***************************************************************************)
(* The ConfigureProvider RPC: its handler, the provider's own configure()  *)
(* hook, which may suspend and fail, and BaseProvider.configure(), whose   *)
(* _configured flag the hook sets by calling super.  _configure_lock is    *)
(* held inside the base method only, which never suspends, so calls        *)
(* overlap wherever the hook's own body awaits.                            *)
(***************************************************************************)

CONSTANTS
  ConfigureCall,  \* ConfigureProvider RPCs, each with its configuration
  Nobody          \* no configuration

VARIABLES
  cfgShape,       \* where the hook calls super().configure(): first, last or never
  cfgConfigured,  \* BaseProvider._configured
  cfgClient,      \* the call whose ended hook built the live provider object's client
  cfgContext,     \* the call whose configuration provider_context holds
  cfgOrphaned,    \* a hook has built its client and then raised
  cfgCall         \* where each RPC is, or how it was answered

cfgVars == <<cfgShape, cfgConfigured, cfgClient, cfgContext, cfgOrphaned, cfgCall>>

\* "deferred" answers without a diagnostic too: the configuration had unknown values.
ConfigureAnswer == {"success", "deferred", "error"}

CfgTypeOK ==
  /\ cfgShape \in {"superFirst", "superLast", "noSuper"}
  /\ cfgConfigured \in BOOLEAN
  /\ cfgClient \in ConfigureCall \cup {Nobody}
  /\ cfgContext \in ConfigureCall \cup {Nobody}
  /\ cfgOrphaned \in BOOLEAN
  /\ cfgCall \in [ConfigureCall -> {"idle", "hook"} \cup ConfigureAnswer]

CfgInit ==
  /\ cfgShape \in {"superFirst", "superLast", "noSuper"}
  /\ cfgConfigured = FALSE
  /\ cfgClient = Nobody
  /\ cfgContext = Nobody
  /\ cfgOrphaned = FALSE
  /\ cfgCall = [c \in ConfigureCall |-> "idle"]

CallMoves(c, from, to) == cfgCall[c] = from /\ cfgCall' = [cfgCall EXCEPT ![c] = to]

\* An unknown configuration is deferred, one that does not parse is an error.
NotConfigurable(c) ==
  /\ CallMoves(c, "idle", "deferred") \/ CallMoves(c, "idle", "error")
  /\ UNCHANGED <<cfgShape, cfgConfigured, cfgClient, cfgContext, cfgOrphaned>>

AlreadyConfiguredPublishes(c) ==  \* mutant: a repeated RPC publishes its own context
  /\ cfgShape = "superFirst" /\ cfgConfigured
  /\ CallMoves(c, "idle", "success")
  /\ cfgContext' = c
  /\ UNCHANGED <<cfgShape, cfgConfigured, cfgClient, cfgOrphaned>>

\* ProviderAlreadyConfiguredError at the head of the hook: a repeated RPC succeeds.
AlreadyConfigured(c) ==
  /\ cfgShape = "superFirst" /\ cfgConfigured
  /\ CallMoves(c, "idle", "success")
  /\ UNCHANGED <<cfgShape, cfgConfigured, cfgClient, cfgContext, cfgOrphaned>>

\* The hook runs up to an await of its own, past super().configure() if that comes first.
EnterHook(c) ==
  /\ cfgShape = "superFirst" => ~cfgConfigured
  /\ CallMoves(c, "idle", "hook")
  /\ cfgConfigured' = (cfgConfigured \/ cfgShape = "superFirst")
  /\ UNCHANGED <<cfgShape, cfgClient, cfgContext, cfgOrphaned>>

\* The hook raises, before its client is built or after.  The flag keeps the value that
\* super().configure() gave it, and nothing takes back a client.
HookFails(c) ==
  /\ CallMoves(c, "hook", "error")
  /\ \E built \in BOOLEAN :
       /\ cfgClient' = IF built THEN c ELSE cfgClient
       /\ cfgOrphaned' = (cfgOrphaned \/ built)
  /\ UNCHANGED <<cfgShape, cfgConfigured, cfgContext>>

\* The hook returns and the context is published, without an await in between.
HookSucceeds(c) ==
  /\ cfgShape = "superLast" => ~cfgConfigured
  /\ CallMoves(c, "hook", "success")
  /\ cfgConfigured' = TRUE
  /\ cfgClient' = c
  /\ cfgContext' = c
  /\ UNCHANGED <<cfgShape, cfgOrphaned>>

\* The hook has built its client when its super().configure() refuses: reported as a
\* repeated RPC.
HookRefusedLast(c) ==
  /\ cfgShape = "superLast" /\ cfgConfigured
  /\ CallMoves(c, "hook", "success")
  /\ cfgClient' = c
  /\ UNCHANGED <<cfgShape, cfgConfigured, cfgContext, cfgOrphaned>>

\* Terraform sends the RPC again.
ConfigureAgain(c) ==
  /\ \E a \in ConfigureAnswer : CallMoves(c, a, "idle")
  /\ UNCHANGED <<cfgShape, cfgConfigured, cfgClient, cfgContext, cfgOrphaned>>

CfgNext ==
  \E c \in ConfigureCall :
    \/ NotConfigurable(c) \/ AlreadyConfigured(c) \/ EnterHook(c)
    \/ HookFails(c) \/ HookSucceeds(c) \/ HookRefusedLast(c) \/ ConfigureAgain(c)

CfgSpec == CfgInit /\ [][CfgNext]_cfgVars

------------------------------------------------------------------------------
(***************************************************************************)
(* Properties.                                                             *)
(***************************************************************************)

\* "The published context always matches the live provider object's state", also when calls
\* overlap, for a hook that calls super first: the refusal there keeps out a second hook.  With
\* one exception, which the handler's docstring does not make: a hook that builds its client
\* and then raises leaves the client live, and no context is ever published to match it.
ContextMatchesClient ==
  cfgShape = "superFirst" => IF cfgOrphaned THEN cfgContext = Nobody ELSE cfgContext = cfgClient

\* The context is published once: a repeated or an overlapping RPC never replaces the one
\* that components have already read, provided the hook calls super at all.
ContextIsKept ==
  [][cfgShape # "noSuper" /\ cfgContext # Nobody => cfgContext' = cfgContext]_cfgVars

\* A call whose own hook ran is answered with success only if the hook built its client: a
\* hook that failed after super().configure() is not taken for a repeated RPC.
FailureIsReported ==
  [][\A c \in ConfigureCall : cfgCall[c] = "hook" /\ cfgCall'[c] = "success" => cfgClient' = c]_cfgVars

\* Once no hook is running, a provider marked as configured has its client: "stops a failed
\* hook from leaving `_configured` stuck True with no client behind it".  The code breaks it:
\* super().configure() sets the flag, and nothing clears it when the rest of the hook raises.
NotStuckConfigured ==
  cfgConfigured /\ (\A c \in ConfigureCall : cfgCall[c] # "hook") => cfgClient # Nobody

==============================================================================
