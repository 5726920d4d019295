------------------------------ MODULE Ephemeral ------------------------------
(***************************************************************************)
(* The life of one ephemeral resource: Terraform validates its             *)
(* configuration, opens it, renews it while the provider asks for that,    *)
(* and closes it.  The provider keeps nothing between the calls: what it   *)
(* needs to renew and to close travels to Terraform and back as the        *)
(* response's private data, which a renewal replaces.                      *)
(*                                                                         *)
(* Source: handlers/validate_, open_, renew_ and close_ephemeral_resource, *)
(* handlers/_component_config.py, ephemerals/base.py.  Terraform, which    *)
(* keeps the newest private data of an answer without an error and stops   *)
(* renewing after one with an error, is external.                          *)
(*                                                                         *)
(* A private state is a number: the generation of credentials it stands    *)
(* for.  NoPrivate is the empty bytes of a response that sets none.        *)
(***************************************************************************)
EXTENDS Naturals

CONSTANT MaxGeneration   \* bound: how many private states the hooks may make

ASSUME MaxGenerationAssumption == MaxGeneration \in Nat \ {0}

VARIABLES
  ephClass,     \* the type as the provider registered it
  ephPhase,     \* how far Terraform is with the instance
  ephPrivate,   \* the private data Terraform holds for the next call
  ephRenewAt,   \* whether Terraform has a time to renew at
  ephErrors,    \* an error diagnostic has reached Terraform
  ephAdded,     \* a hook has added an error to the context it was given
  ephSession,   \* what the hooks made of the thing itself
  ephNewest,    \* the newest private state a hook has returned
  ephGiven      \* the private state the last renew or close hook was given,
                \* beside the newest there was

ephVars == <<ephClass, ephPhase, ephPrivate, ephRenewAt, ephErrors,
             ephAdded, ephSession, ephNewest, ephGiven>>

NoPrivate == 0
Generations == 1..MaxGeneration
Privates == {NoPrivate} \cup Generations

Classes == [registered : BOOLEAN, hasPrivateClass : BOOLEAN]

EphInit ==
  /\ ephClass \in Classes
  /\ ephPhase = "new"
  /\ ephPrivate = NoPrivate
  /\ ephRenewAt = FALSE
  /\ ephErrors = FALSE
  /\ ephAdded = FALSE
  /\ ephSession = "none"
  /\ ephNewest = NoPrivate
  /\ ephGiven = [given |-> NoPrivate, newest |-> NoPrivate]

-----------------------------------------------------------------------------
(* What a hook hands back, field by field: nothing, a value that goes onto *)
(* the wire, or one that does not (the schema rejects the result, msgpack  *)
(* cannot pack the private state, the renewal time is no datetime).        *)

Field == {"none", "good", "bad"}

\* A hook that hands nothing back: it raised, or it deferred the open.
NothingBack == [result |-> "none", private |-> "none", renewAt |-> "none"]

OpenOutcomes ==
  [how : {"returned"}, result : Field, private : Field, renewAt : Field]
    \cup {[how |-> h, result |-> "none", private |-> "none", renewAt |-> "none"] :
            h \in {"raised", "deferred"}}

RenewOutcomes == {o \in OpenOutcomes : o.how # "deferred" /\ o.result = "none"}

\* Each field is marshalled in turn, and what was set before the one that
\* fails stays in the response beside the diagnostic.
PopulateResponse(back, generation) ==
  LET resultFails  == back.result = "bad"
      privateFails == ~resultFails /\ back.private = "bad"
      renewFails   == ~resultFails /\ ~privateFails /\ back.renewAt = "bad"
  IN [private |-> IF ~resultFails /\ back.private = "good" THEN generation ELSE NoPrivate,
      renewAt |-> ~resultFails /\ ~privateFails /\ back.renewAt = "good",
      error   |-> resultFails \/ privateFails \/ renewFails]

ErrorResponse == [private |-> NoPrivate, renewAt |-> FALSE, error |-> TRUE]

\* The generation that a hook's private state is, when it returns one.
NextGeneration == ephNewest + 1

MakesPrivate(back) == back.private # "none"

-----------------------------------------------------------------------------
(* The handlers.                                                           *)

\* ValidateEphemeralResourceConfig: an unregistered type, a configuration
\* that does not decode or is not valid, and a hook that complains or raises
\* are all reported; only then may Terraform go on.
Validate(configIsValid, hookIsContent) ==
  LET error == ~ephClass.registered \/ ~configIsValid \/ ~hookIsContent
  IN /\ ephPhase = "new"
     /\ ephPhase' = IF error THEN "done" ELSE "validated"
     /\ ephErrors' = error
     /\ UNCHANGED <<ephClass, ephPrivate, ephRenewAt, ephAdded, ephSession, ephNewest, ephGiven>>

\* Terraform drops the instance before it opens it, as it does in validate.
Drop ==
  /\ ephPhase = "validated"
  /\ ephPhase' = "done"
  /\ UNCHANGED <<ephClass, ephPrivate, ephRenewAt, ephErrors, ephAdded, ephSession,
                 ephNewest, ephGiven>>

\* OpenEphemeralResource answered with an error or a deferral before anything
\* was opened: the configuration does not decode, or the hook raises (a
\* Deferral is an error too unless the client allows it).
OpenRefused(configDecodes, back, deferralAllowed) ==
  /\ ephPhase = "validated"
  /\ ~configDecodes \/ back.how # "returned"
  /\ ephErrors' = ~(configDecodes /\ back.how = "deferred" /\ deferralAllowed)
  /\ ephPhase' = "done"
  /\ UNCHANGED <<ephClass, ephPrivate, ephRenewAt, ephAdded, ephSession, ephNewest, ephGiven>>

\* The hook has opened the thing, and what it returned goes onto the wire.
\* Terraform takes the instance as open unless there is an error.  What a hook
\* adds to its context's diagnostics, here and below, is not in the response.
OpenDone(back, adds) ==
  LET response == PopulateResponse(back, NextGeneration)
  IN /\ ephPhase = "validated"
     /\ back.how = "returned"
     /\ ephSession' = "open"
     /\ ephNewest' = IF MakesPrivate(back) THEN NextGeneration ELSE ephNewest
     /\ ephErrors' = response.error
     /\ ephAdded' = adds
     /\ ephPhase' = IF response.error THEN "done" ELSE "open"
     /\ ephPrivate' = response.private
     /\ ephRenewAt' = response.renewAt
     /\ UNCHANGED <<ephClass, ephGiven>>

\* RenewEphemeralResource and CloseEphemeralResource rebuild the private
\* state first: the class must declare one, and the empty bytes are no
\* msgpack document.  Otherwise the hook is not reached.
PrivateState == ephPrivate
HookIsReached == ephClass.hasPrivateClass /\ PrivateState # NoPrivate

\* Mutant: the answer carries the request's private data, not the hook's.
RenewKeepsPrivate(back) ==
  IF ~HookIsReached \/ back.how = "raised" THEN ErrorResponse
  ELSE [PopulateResponse(back, NextGeneration) EXCEPT !.private = PrivateState]

\* The response of a renewal, and the private data Terraform keeps of it.
RenewResponse(back) ==
  IF ~HookIsReached \/ back.how = "raised" THEN ErrorResponse
  ELSE PopulateResponse(back, NextGeneration)

Renew(back, adds) ==
  LET response == RenewResponse(back)
      reached  == HookIsReached
  IN /\ ephPhase = "open"
     /\ ephRenewAt
     /\ reached /\ MakesPrivate(back) => NextGeneration \in Generations
     /\ ephGiven' = IF reached THEN [given |-> PrivateState, newest |-> ephNewest] ELSE ephGiven
     /\ ephNewest' = IF reached /\ MakesPrivate(back) THEN NextGeneration ELSE ephNewest
     /\ ephErrors' = (ephErrors \/ response.error)
     /\ ephAdded' = (ephAdded \/ (reached /\ adds))
     /\ ephPrivate' = IF response.error THEN ephPrivate ELSE response.private
     /\ ephRenewAt' = response.renewAt
     /\ UNCHANGED <<ephClass, ephPhase, ephSession>>

\* Mutant: without a private state there is nothing to do, and no error.
CloseInSilence(hook) ==
  LET reached == HookIsReached
  IN /\ ephPhase = "open"
     /\ ephPhase' = "done"
     /\ ephGiven' = IF reached THEN [given |-> PrivateState, newest |-> ephNewest] ELSE ephGiven
     /\ ephSession' = IF reached /\ hook = "closes" THEN "closed" ELSE ephSession
     /\ ephErrors' = (ephErrors \/ (reached /\ hook = "raises"))
     /\ ephAdded' = (ephAdded \/ (reached /\ hook = "adds an error"))
     /\ UNCHANGED <<ephClass, ephPrivate, ephRenewAt, ephNewest>>

\* A close hook may fail by raising, or by adding an error and returning.
CloseHooks == {"closes", "raises", "adds an error"}

Close(hook) ==
  LET reached == HookIsReached
  IN /\ ephPhase = "open"
     /\ ephPhase' = "done"
     /\ ephGiven' = IF reached THEN [given |-> PrivateState, newest |-> ephNewest] ELSE ephGiven
     /\ ephSession' = IF reached /\ hook = "closes" THEN "closed" ELSE ephSession
     /\ ephErrors' = (ephErrors \/ ~reached \/ hook = "raises")
     /\ ephAdded' = (ephAdded \/ (reached /\ hook = "adds an error"))
     /\ UNCHANGED <<ephClass, ephPrivate, ephRenewAt, ephNewest>>

EphNext ==
  \/ \E configIsValid, hookIsContent \in BOOLEAN : Validate(configIsValid, hookIsContent)
  \/ Drop
  \/ \E configDecodes, allowed \in BOOLEAN, back \in OpenOutcomes :
       OpenRefused(configDecodes, back, allowed)
  \/ \E back \in OpenOutcomes, adds \in BOOLEAN : OpenDone(back, adds)
  \/ \E back \in RenewOutcomes, adds \in BOOLEAN : Renew(back, adds)
  \/ \E hook \in CloseHooks : Close(hook)

EphSpec == EphInit /\ [][EphNext]_ephVars

-----------------------------------------------------------------------------
(* Properties.                                                             *)

EphTypeOK ==
  /\ ephClass \in Classes
  /\ ephPhase \in {"new", "validated", "open", "done"}
  /\ ephPrivate \in Privates
  /\ ephRenewAt \in BOOLEAN
  /\ ephErrors \in BOOLEAN
  /\ ephAdded \in BOOLEAN
  /\ ephSession \in {"none", "open", "closed"}
  /\ ephNewest \in Privates
  /\ ephGiven \in [given : Privates, newest : Privates]

\* The renew and close hooks are given the newest private state that a hook
\* has returned; an older one only after a renewal whose answer failed has
\* been reported to Terraform.
NewestReachesHook == ephGiven.given = ephGiven.newest \/ ephErrors

\* What was opened does not stay open in silence: when Terraform is done with
\* the instance, the close hook has closed it or Terraform has been given an
\* error.  A hook that only adds its error to the context is left to
\* AddedErrorsArrive.
NothingLeaksSilently ==
  ephPhase = "done" /\ ephSession = "open" => ephErrors \/ ephAdded

\* An error that a hook adds to its context is an error of the call: add_error
\* of common/context.py says that it "will cause Terraform to fail the
\* operation".  The handlers of resources and data sources send it on.
AddedErrorsArrive == ephPhase = "done" /\ ephAdded => ephErrors
=============================================================================
