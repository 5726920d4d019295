-------------------------- MODULE MCComponentCalls --------------------------
(* The component protocols beside the managed resources, and what there is  *)
(* once per process or installation.  One of them per behaviour: they share *)
(* no state in the provider, so their products would show nothing.          *)
EXTENDS Ephemeral, EventStreams, ResourceMigration, ComponentCatalog, PrivateStateKeys,
        Installation, UnmarkWalk, DataSources, FunctionCall, SchemaDeclaration,
        ValueRefinement, StateConversion, NestedDefaults, ProviderConfigure

CONSTANTS main, extra, helper   \* modules: two packages and a submodule
CONSTANTS short, long           \* component names

VARIABLE part   \* what this behaviour is about

mcVars == <<ephVars, evVars, migVars, catVars, keyVars, instVars, walkVars, dsVars, fnVars, sdVars,
            rfVars, cvVars, dfVars, cfgVars, part>>
Parts == {"ephemeral", "streams", "migration", "catalogue", "keys", "installation", "unmark",
          "data", "function", "declaration", "refinement", "conversion", "defaults",
          "configure"}

Component(kind, name, testOnly, parent) ==
  [kind |-> kind, name |-> name, testOnly |-> testOnly, abstract |-> FALSE, parent |-> parent,
   schema |-> "encodable", identity |-> "none"]

TheProvider == Component("provider", short, FALSE, "provider")
Shared == Component("capability", short, FALSE, "provider")
Plain == [Component("resource", short, FALSE, short) EXCEPT !.identity = "scalars"]
Hidden == [Component("resource", long, TRUE, "provider") EXCEPT !.identity = "computed"]
\* The name of Plain once more, from another package, test-only.
Twin == Component("resource", short, TRUE, "provider")
AFunction == Component("function", short, TRUE, "provider")
Base == [Component("data_source", short, FALSE, "provider") EXCEPT !.abstract = TRUE]
Secretive == [Component("ephemeral_resource", long, FALSE, "provider") EXCEPT
                !.schema = "object with blocks"]

MCClass == {TheProvider, Shared, Plain, Hidden, Twin, AFunction, Base, Secretive}
MCModule == {main, extra, helper}
MCPackage == {main, extra}
MCSubmodules == [m \in MCModule |-> IF m = main THEN {helper} ELSE {}]
MCMembers == [m \in MCModule |-> CASE m = main -> {TheProvider, Plain, Base}
                                   [] m = helper -> {Shared, Plain, Hidden}
                                   [] m = extra -> {Twin, AFunction, Secretive}]
MCExplicit == {extra}

\* What a protocol is fixed to while the behaviour is about another one.
EphAside == ~ephClass.registered /\ ~ephClass.hasPrivateClass
MigAside ==
  LET old == [registered |-> Types, schema |-> [t \in Types |-> 0],
              identity |-> [t \in Types |-> 0]]
  IN /\ migRecord = Fresh(CHOOSE t \in Types : TRUE, old, None, FALSE)
     /\ migProvider.schema = old.schema /\ migProvider.identity = old.identity
CatAside == catBroken = {} /\ catStrict /\ catEnv = "unset"
KeyAside == keyEnv = NoSecret /\ keyFile = NoSecret
InstAside ==
  /\ ~instFrozen /\ ~instProject /\ instVenv = "none" /\ ~instLink
  /\ instVersion = CHOOSE v \in ProjectVersions : TRUE
WalkAside ==
  /\ walkChildren = [n \in Node |-> <<>>] /\ walkMarked = {} /\ walkStack = <<>>
  /\ walkProcessing = {} /\ walkDone = [n \in Node |-> {}]
DsAside == dsClass = [registered |-> FALSE, testOnly |-> FALSE, parent |-> "provider",
                       optional |-> FALSE] /\ dsAllowed
             /\ dsConfig = "sound"
FnAside == fnSignature = <<>>
CfgAside == cfgShape = "noSuper"

Init ==
  /\ part \in Parts
  /\ EphInit /\ (part # "ephemeral" => EphAside)
  /\ EvInit
  /\ MigInit /\ (part # "migration" => MigAside)
  /\ CatInit /\ (part # "catalogue" => CatAside)
  /\ KeyInit /\ (part # "keys" => KeyAside)
  /\ DsInit /\ (part # "data" => DsAside)
  /\ InstInit /\ (part # "installation" => InstAside)
  /\ \/ part = "unmark" /\ WalkInit
     \/ part # "unmark" /\ WalkAside
  /\ FnInit /\ (part # "function" => FnAside)
  /\ SdInit /\ RfInit /\ CvInit /\ DfInit
  /\ CfgInit /\ (part # "configure" => CfgAside)

Next ==
  \/ /\ part = "ephemeral" /\ EphNext
     /\ UNCHANGED <<evVars, migVars, catVars, keyVars, instVars, walkVars,
                    dsVars, fnVars, sdVars, rfVars, cvVars, dfVars, cfgVars, part>>
  \/ /\ part = "streams" /\ EvNext
     /\ UNCHANGED <<ephVars, migVars, catVars, keyVars, instVars, walkVars,
                    dsVars, fnVars, sdVars, rfVars, cvVars, dfVars, cfgVars, part>>
  \/ /\ part = "migration" /\ MigNext
     /\ UNCHANGED <<ephVars, evVars, catVars, keyVars, instVars, walkVars,
                    dsVars, fnVars, sdVars, rfVars, cvVars, dfVars, cfgVars, part>>
  \/ /\ part = "catalogue" /\ CatNext
     /\ UNCHANGED <<ephVars, evVars, migVars, keyVars, instVars, walkVars,
                    dsVars, fnVars, sdVars, rfVars, cvVars, dfVars, cfgVars, part>>
  \/ /\ part = "keys" /\ KeyNext
     /\ UNCHANGED <<ephVars, evVars, migVars, catVars, instVars, walkVars,
                    dsVars, fnVars, sdVars, rfVars, cvVars, dfVars, cfgVars, part>>
  \/ /\ part = "installation" /\ InstNext
     /\ UNCHANGED <<ephVars, evVars, migVars, catVars, keyVars, walkVars,
                    dsVars, fnVars, sdVars, rfVars, cvVars, dfVars, cfgVars, part>>
  \/ /\ part = "unmark" /\ WalkNext
     /\ UNCHANGED <<ephVars, evVars, migVars, catVars, keyVars, instVars,
                    dsVars, fnVars, sdVars, rfVars, cvVars, dfVars, cfgVars, part>>
  \/ /\ part = "data" /\ DsNext
     /\ UNCHANGED <<ephVars, evVars, migVars, catVars, keyVars, instVars, walkVars,
                    fnVars, sdVars, rfVars, cvVars, dfVars, cfgVars, part>>
  \/ /\ part = "function" /\ FnNext
     /\ UNCHANGED <<ephVars, evVars, migVars, catVars, keyVars, instVars, walkVars,
                    dsVars, sdVars, rfVars, cvVars, dfVars, cfgVars, part>>
  \/ /\ part = "declaration" /\ SdNext
     /\ UNCHANGED <<ephVars, evVars, migVars, catVars, keyVars, instVars, walkVars,
                    dsVars, fnVars, rfVars, cvVars, dfVars, cfgVars, part>>
  \/ /\ part = "refinement" /\ RfNext
     /\ UNCHANGED <<ephVars, evVars, migVars, catVars, keyVars, instVars, walkVars,
                    dsVars, fnVars, sdVars, cvHints, dfVars, cfgVars, part>>
  \/ /\ part = "conversion" /\ CvNext
     /\ UNCHANGED <<ephVars, evVars, migVars, catVars, keyVars, instVars, walkVars,
                    dsVars, fnVars, sdVars, rfTypes, dfVars, cfgVars, part>>
  \/ /\ part = "defaults" /\ DfNext
     /\ UNCHANGED <<ephVars, evVars, migVars, catVars, keyVars, instVars, walkVars,
                    dsVars, fnVars, sdVars, rfVars, cvVars, cfgVars, part>>
  \/ /\ part = "configure" /\ CfgNext
     /\ UNCHANGED <<ephVars, evVars, migVars, catVars, keyVars, instVars, walkVars,
                    dsVars, fnVars, sdVars, rfVars, cvVars, dfVars, part>>

Spec == Init /\ [][Next]_mcVars /\ EvFairness
=============================================================================
