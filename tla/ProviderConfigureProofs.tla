------------------------ MODULE ProviderConfigureProofs ------------------------
(***************************************************************************)
(* Proofs about ProviderConfigure for any number of overlapping and        *)
(* repeated ConfigureProvider calls: its type invariant, the agreement of  *)
(* context and client, and its two action properties.                      *)
(*                                                                         *)
(* What makes them inductive is the role of the flag: a hook that calls    *)
(* super first runs alone, and runs before there is any context or any     *)
(* client left behind.                                                     *)
(***************************************************************************)
EXTENDS ProviderConfigure, TLAPS

\* A hook past its super().configure() set the flag, keeps all others out, and has yet to
\* publish.
FirstHookRunsAlone ==
  cfgShape = "superFirst" =>
    \A c \in ConfigureCall : cfgCall[c] = "hook" =>
      /\ cfgConfigured
      /\ cfgContext = Nobody
      /\ \A d \in ConfigureCall : cfgCall[d] = "hook" => d = c

\* A hook that failed with its client built had set the flag: no hook follows it, nothing is
\* published.
OrphanEndsIt ==
  cfgShape = "superFirst" /\ cfgOrphaned =>
    cfgConfigured /\ \A c \in ConfigureCall : cfgCall[c] # "hook"

\* A context is published only together with the flag.
ContextImpliesConfigured == cfgContext # Nobody => cfgConfigured

CfgInv ==
  /\ CfgTypeOK
  /\ FirstHookRunsAlone
  /\ OrphanEndsIt
  /\ ContextImpliesConfigured
  /\ ContextMatchesClient

------------------------------------------------------------------------------
LEMMA CfgInvInit == CfgInit => CfgInv
<1> SUFFICES ASSUME CfgInit PROVE CfgInv
  OBVIOUS
<1>1. CfgTypeOK
  <2>1. cfgConfigured \in BOOLEAN /\ cfgOrphaned \in BOOLEAN
    BY Zenon DEF CfgInit
  <2> QED
    BY <2>1 DEF CfgInit, CfgTypeOK
<1>2. FirstHookRunsAlone /\ OrphanEndsIt
  BY DEF CfgInit, FirstHookRunsAlone, OrphanEndsIt
<1>3. ContextImpliesConfigured /\ ContextMatchesClient
  BY DEF CfgInit, ContextImpliesConfigured, ContextMatchesClient
<1> QED
  BY <1>1, <1>2, <1>3 DEF CfgInv

\* A call that begins or ends without running a hook of its own to its end leaves everything
\* but itself as it was.
LEMMA OtherStepsPreserve ==
  ASSUME CfgInv, NEW c \in ConfigureCall,
         NotConfigurable(c) \/ AlreadyConfigured(c) \/ ConfigureAgain(c)
  PROVE  CfgInv'
<1> USE DEF CfgInv, NotConfigurable, AlreadyConfigured, ConfigureAgain, CallMoves
<1>1. UNCHANGED <<cfgShape, cfgConfigured, cfgClient, cfgContext, cfgOrphaned>>
  OBVIOUS
<1>2. cfgCall' \in [ConfigureCall -> {"idle", "hook"} \cup ConfigureAnswer]
  BY DEF CfgTypeOK, ConfigureAnswer
<1>3. \A d \in ConfigureCall : cfgCall'[d] = "hook" => cfgCall[d] = "hook"
  BY DEF CfgTypeOK, ConfigureAnswer
<1> HIDE DEF NotConfigurable, AlreadyConfigured, ConfigureAgain, CallMoves
<1>4. CfgTypeOK'
  BY <1>1, <1>2 DEF CfgTypeOK
<1>5. FirstHookRunsAlone' /\ OrphanEndsIt'
  BY <1>1, <1>3 DEF FirstHookRunsAlone, OrphanEndsIt
<1>6. ContextImpliesConfigured' /\ ContextMatchesClient'
  BY <1>1 DEF ContextImpliesConfigured, ContextMatchesClient
<1> QED
  BY <1>4, <1>5, <1>6

\* A hook that calls super first and fails was the only one, and the flag it set stays.
LEMMA HookFailsPreserves ==
  ASSUME CfgInv, NEW c \in ConfigureCall, HookFails(c)
  PROVE  CfgInv'
<1> USE DEF CfgInv
<1>1. PICK built \in BOOLEAN :
        /\ cfgClient' = IF built THEN c ELSE cfgClient
        /\ cfgOrphaned' = (cfgOrphaned \/ built)
  BY DEF HookFails
<1>2. /\ UNCHANGED <<cfgShape, cfgConfigured, cfgContext>>
      /\ cfgCall[c] = "hook" /\ cfgCall' = [cfgCall EXCEPT ![c] = "error"]
  BY DEF HookFails, CallMoves
<1>3. CfgTypeOK'
  <2>1. cfgOrphaned' \in BOOLEAN
    BY <1>1, Zenon DEF CfgTypeOK
  <2>2. cfgClient' \in ConfigureCall \cup {Nobody}
    BY <1>1 DEF CfgTypeOK
  <2> QED
    BY <1>2, <2>1, <2>2 DEF CfgTypeOK, ConfigureAnswer
<1>4. ASSUME NEW d \in ConfigureCall, cfgCall'[d] = "hook"
      PROVE  cfgCall[d] = "hook" /\ d # c
  BY <1>2, <1>4 DEF CfgTypeOK
<1>5. cfgShape = "superFirst" => \A d \in ConfigureCall : cfgCall'[d] # "hook"
  BY <1>2, <1>4 DEF FirstHookRunsAlone
<1>6. FirstHookRunsAlone' /\ OrphanEndsIt'
  BY <1>2, <1>5 DEF FirstHookRunsAlone, OrphanEndsIt
<1>7. ContextImpliesConfigured'
  BY <1>2 DEF ContextImpliesConfigured
<1>8. ContextMatchesClient'
  BY <1>1, <1>2 DEF FirstHookRunsAlone, ContextMatchesClient
<1> QED
  BY <1>3, <1>6, <1>7, <1>8

LEMMA EnterHookPreserves ==
  ASSUME CfgInv, NEW c \in ConfigureCall, EnterHook(c)
  PROVE  CfgInv'
<1> USE DEF CfgInv, EnterHook, CallMoves
<1>1. CfgTypeOK'
  <2>1. cfgConfigured' \in BOOLEAN
    BY Zenon
  <2> QED
    BY <2>1 DEF CfgTypeOK
\* The flag was clear: no other hook is running, and nothing is published.
<1>2. FirstHookRunsAlone'
  <2> SUFFICES ASSUME cfgShape' = "superFirst" PROVE FirstHookRunsAlone'
    BY DEF FirstHookRunsAlone
  <2>1. \A d \in ConfigureCall : cfgCall[d] # "hook"
    BY DEF FirstHookRunsAlone
  <2>2. cfgContext' = Nobody /\ cfgConfigured'
    BY DEF ContextImpliesConfigured
  <2>3. \A d \in ConfigureCall : cfgCall'[d] = "hook" => d = c
    BY <2>1 DEF CfgTypeOK
  <2> QED
    BY <2>2, <2>3 DEF FirstHookRunsAlone
\* Nor has a hook failed before: the flag it set would still be there.
<1>3. OrphanEndsIt'
  BY DEF OrphanEndsIt
<1>4. ContextImpliesConfigured' /\ ContextMatchesClient'
  BY DEF ContextImpliesConfigured, ContextMatchesClient
<1> QED
  BY <1>1, <1>2, <1>3, <1>4

LEMMA HookEndsPreserves ==
  ASSUME CfgInv, NEW c \in ConfigureCall, HookSucceeds(c) \/ HookRefusedLast(c)
  PROVE  CfgInv'
<1> USE DEF CfgInv, HookSucceeds, HookRefusedLast, CallMoves
<1>1. CfgTypeOK'
  <2>1. cfgConfigured' \in BOOLEAN
    BY Zenon DEF CfgTypeOK
  <2> QED
    BY <2>1 DEF CfgTypeOK, ConfigureAnswer
\* The hook that ends was the only one.
<1>2. FirstHookRunsAlone' /\ OrphanEndsIt'
  BY DEF FirstHookRunsAlone, OrphanEndsIt, CfgTypeOK
<1>3. ContextImpliesConfigured' /\ ContextMatchesClient'
  BY DEF ContextImpliesConfigured, ContextMatchesClient, OrphanEndsIt
<1> QED
  BY <1>1, <1>2, <1>3

LEMMA CfgInvNext == CfgInv /\ [CfgNext]_cfgVars => CfgInv'
<1> SUFFICES ASSUME CfgInv, [CfgNext]_cfgVars PROVE CfgInv'
  OBVIOUS
<1>1. ASSUME NEW c \in ConfigureCall,
             NotConfigurable(c) \/ AlreadyConfigured(c) \/ ConfigureAgain(c)
      PROVE  CfgInv'
  BY <1>1, OtherStepsPreserve
<1>2. ASSUME NEW c \in ConfigureCall, EnterHook(c) PROVE CfgInv'
  BY <1>2, EnterHookPreserves
<1>3. ASSUME NEW c \in ConfigureCall, HookSucceeds(c) \/ HookRefusedLast(c) PROVE CfgInv'
  BY <1>3, HookEndsPreserves
<1>4. ASSUME NEW c \in ConfigureCall, HookFails(c) PROVE CfgInv'
  BY <1>4, HookFailsPreserves
<1>5. CASE UNCHANGED cfgVars
  BY <1>5 DEF cfgVars, CfgInv, CfgTypeOK, FirstHookRunsAlone, OrphanEndsIt,
              ContextImpliesConfigured, ContextMatchesClient
<1> QED
  BY <1>1, <1>2, <1>3, <1>4, <1>5 DEF CfgNext

\* A published context stays, because the only step that publishes is impossible then.
LEMMA ContextKeptByStep ==
  ASSUME CfgInv, [CfgNext]_cfgVars, cfgShape # "noSuper", cfgContext # Nobody
  PROVE  cfgContext' = cfgContext
<1>1. ASSUME NEW c \in ConfigureCall, HookSucceeds(c) PROVE FALSE
  <2>1. CASE cfgShape = "superFirst"
    BY <1>1, <2>1 DEF HookSucceeds, CallMoves, CfgInv, FirstHookRunsAlone
  <2>2. CASE cfgShape = "superLast"
    BY <1>1, <2>2 DEF HookSucceeds, CfgInv, ContextImpliesConfigured
  <2> QED
    BY <2>1, <2>2 DEF CfgInv, CfgTypeOK
<1> QED
  BY <1>1 DEF CfgNext, cfgVars, NotConfigurable, AlreadyConfigured, EnterHook, HookFails,
              HookRefusedLast, ConfigureAgain

\* A call leaves its hook for "success" only by a step that records its client.
LEMMA SuccessRecordsClient ==
  ASSUME CfgInv, [CfgNext]_cfgVars, NEW c \in ConfigureCall, cfgCall[c] = "hook", cfgCall'[c] = "success"
  PROVE  cfgClient' = c
<1> USE DEF CfgInv, CfgTypeOK, ConfigureAnswer, CallMoves
<1>1. ASSUME NEW d \in ConfigureCall,
             NotConfigurable(d) \/ AlreadyConfigured(d) \/ EnterHook(d) \/ HookFails(d)
               \/ ConfigureAgain(d)
      PROVE  FALSE
  BY <1>1 DEF NotConfigurable, AlreadyConfigured, EnterHook, HookFails, ConfigureAgain
<1>2. ASSUME NEW d \in ConfigureCall, HookSucceeds(d) \/ HookRefusedLast(d)
      PROVE  cfgClient' = c
  BY <1>2 DEF HookSucceeds, HookRefusedLast
<1>3. ~ UNCHANGED cfgVars
  BY DEF cfgVars
<1> QED
  BY <1>1, <1>2, <1>3 DEF CfgNext

------------------------------------------------------------------------------
\* The invariant behind the results below.
THEOREM Invariant == CfgSpec => []CfgInv
  BY CfgInvInit, CfgInvNext, PTL DEF CfgSpec

\* The variables keep their types.
THEOREM TypeCorrect == CfgSpec => []CfgTypeOK
<1>1. CfgInv => CfgTypeOK
  BY DEF CfgInv
<1> QED
  BY <1>1, Invariant, PTL

\* For a hook that calls super first, provider_context always is the configuration the live
\* provider object was built from, however many calls overlap; and once a hook has built its
\* client and then failed, there is none and will be none.
THEOREM ContextAgrees == CfgSpec => []ContextMatchesClient
<1>1. CfgInv => ContextMatchesClient
  BY DEF CfgInv
<1> QED
  BY <1>1, Invariant, PTL

\* A published provider_context is never replaced, if the hook calls super at all.
THEOREM ContextStays == CfgSpec => ContextIsKept
<1>1. CfgInv /\ [CfgNext]_cfgVars => [cfgShape # "noSuper" /\ cfgContext # Nobody => cfgContext' = cfgContext]_cfgVars
  BY ContextKeptByStep
<1> QED
  BY <1>1, Invariant, PTL DEF CfgSpec, ContextIsKept

\* A call whose hook ran is answered with success only if its own hook built the client.
THEOREM FailuresReported == CfgSpec => FailureIsReported
<1>1. CfgInv /\ [CfgNext]_cfgVars =>
        [\A c \in ConfigureCall : cfgCall[c] = "hook" /\ cfgCall'[c] = "success" => cfgClient' = c]_cfgVars
  BY SuccessRecordsClient
<1> QED
  BY <1>1, Invariant, PTL DEF CfgSpec, FailureIsReported

==============================================================================
