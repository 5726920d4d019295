-------------------------- MODULE ResourceMigration --------------------------
(***************************************************************************)
(* What happens to a recorded resource when the provider is replaced by    *)
(* another release, which may raise or lower a type's schema version, or   *)
(* the resource is moved to another type: UpgradeResourceState,            *)
(* UpgradeResourceIdentity and MoveResourceState decide what Terraform     *)
(* writes over its record.                                                 *)
(*                                                                         *)
(* Source: handlers/upgrade_resource_state.py, upgrade_resource_identity.py*)
(* and move_resource_state.py, conversion/identity.py, and the hooks of    *)
(* resources/base.py.  The author's hooks may return anything, None and    *)
(* what satisfies no schema included; what an upgrade hook returns is      *)
(* validated, what a move hook returns is not.  Terraform, which records   *)
(* whatever a response holds, diagnostics or not, is external.             *)
(*                                                                         *)
(* A payload is named by the schema it satisfies, a type and a version; a  *)
(* private state by the type whose author wrote it.                        *)
(***************************************************************************)
EXTENDS Naturals

CONSTANTS
  Types,       \* resource types
  MaxVersion,  \* bound: the highest schema version a release declares
  None         \* no private state, no identity, no payload

ASSUME NoneAssumption == None \notin Types \cup 0..MaxVersion
ASSUME MaxVersionAssumption == MaxVersion \in Nat

VARIABLES
  migRecord,   \* what Terraform has on record of the resource
  migProvider, \* the release that is installed
  migFailed,   \* the last response had an error
  migForeign   \* the state on record is one that a move hook returned and the target's
               \* schema does not accept

migVars == <<migRecord, migProvider, migFailed, migForeign>>

Versions == 0..MaxVersion
Payloads == [type : Types, version : Versions]
NotAPayload == [type |-> None, version |-> 0]   \* satisfies no schema
NullObject == [type |-> None, version |-> 3]    \* satisfies every schema
NoIdentity == [type |-> None, version |-> 1]
Values == Payloads \cup {NotAPayload, NullObject}

Records ==
  [type : Types, version : Versions, state : Values,
   private : Types \cup {None},
   identityVersion : Versions, identity : Payloads \cup {NoIdentity}]

Releases ==
  [registered : SUBSET Types,
   schema : [Types -> Versions],      \* each type's schema version
   identity : [Types -> Versions \cup {None}]]  \* and identity version, if it declares one

\* A response, as far as it decides what is recorded: an error diagnostic or
\* not, and what is set in it.
Unset == [type |-> None, version |-> 2]
Response(error, state, private, identity) ==
  [error |-> error, state |-> state, private |-> private, identity |-> identity]
ErrorResponseOnly == Response(TRUE, Unset, None, Unset)

\* Without an identity schema the version beside the identity is 0.
RecordedVersion(version) == IF version = None THEN 0 ELSE version

Fresh(type, provider, private, identified) ==
  [type |-> type,
   version |-> provider.schema[type],
   state |-> [type |-> type, version |-> provider.schema[type]],
   private |-> private,
   identityVersion |-> RecordedVersion(provider.identity[type]),
   identity |-> IF identified /\ provider.identity[type] # None
                THEN [type |-> type, version |-> provider.identity[type]]
                ELSE NoIdentity]

MigInit ==
  /\ migProvider \in {r \in Releases : r.registered = Types}
  /\ \E type \in Types, identified, hasPrivate \in BOOLEAN :
       migRecord = Fresh(type, migProvider, IF hasPrivate THEN type ELSE None, identified)
  /\ migFailed = FALSE
  /\ migForeign = FALSE

-----------------------------------------------------------------------------
(* The handlers, each from the record and the installed release to a       *)
(* response.  hook is what the author's hook makes of its input.           *)

Current(type) == [type |-> type, version |-> migProvider.schema[type]]
CurrentIdentity(type) == [type |-> type, version |-> migProvider.identity[type]]

\* What the current schema of a type accepts: None is a null object to it.
Accepted(type) == {Current(type), NullObject}

\* An upgrade hook raises, or returns some value; the default hook returns the
\* payload it was given.
Raises == Unset
UpgradeHooks == Values \cup {Raises}

\* Mutant: the author's state is encoded as it is.
UpgradedUnchecked(upgraded) ==
  IF upgraded # NotAPayload THEN Response(FALSE, upgraded, None, Unset)
  ELSE ErrorResponseOnly

\* The hook's result is validated against the current schema before it is
\* encoded: what the schema does not accept is an error, and no state.
UpgradedStateValue(upgraded) ==
  IF upgraded \in Accepted(migRecord.type) THEN Response(FALSE, upgraded, None, Unset)
  ELSE ErrorResponseOnly

\* With the version on record the provider's own, the bytes go back verbatim.
\* (A record holds a state here; a request with none gets the empty object.)
UpgradeStateResponse(hook) ==
  IF migRecord.type \notin migProvider.registered THEN ErrorResponseOnly
  ELSE IF migRecord.version = migProvider.schema[migRecord.type]
       THEN Response(FALSE, migRecord.state, None, Unset)
  ELSE IF hook = Raises THEN ErrorResponseOnly
  ELSE UpgradedStateValue(hook)

\* marshal_identity encodes against the current identity schema, and raises
\* for what does not satisfy it.  None is encoded as null: no identity.
MarshalIdentity(identity) ==
  IF identity = CurrentIdentity(migRecord.type) THEN Response(FALSE, Unset, None, identity)
  ELSE IF identity = NullObject THEN Response(FALSE, Unset, None, NoIdentity)
  ELSE ErrorResponseOnly

\* A type without an identity schema is refused.  A record without identity
\* data stays without: the response leaves it unset.
UpgradeIdentityResponse(hook) ==
  IF \/ migRecord.type \notin migProvider.registered
     \/ migProvider.identity[migRecord.type] = None
  THEN ErrorResponseOnly
  ELSE IF migRecord.identity = NoIdentity THEN Response(FALSE, Unset, None, NoIdentity)
  ELSE IF migRecord.identityVersion = migProvider.identity[migRecord.type]
       THEN MarshalIdentity(migRecord.identity)
  ELSE IF hook = Raises THEN ErrorResponseOnly
  ELSE MarshalIdentity(hook)

\* The type did not change, only the provider's address: everything on record
\* is passed on as it is.  A record without identity data is answered with the
\* empty object.
PassThrough ==
  Response(FALSE, migRecord.state, migRecord.private,
           IF migRecord.identity = NoIdentity THEN NotAPayload ELSE migRecord.identity)

\* What a move hook does: it is not there, or for tests only and this is none,
\* declines, raises, returns what is no JSON, or returns some value: alone, with
\* private data of its own, or with private data that is no bytes.  (None alone is
\* declining; a None that goes out as a null state comes with private data, if empty.)
Returning == {"returns", "returns private", "returns bad private"}
MoveHooks ==
  [does : {"absent", "test only", "declines", "raises", "no JSON"}, state : {NotAPayload}]
    \cup [does : Returning, state : Values]
NoHook == [does |-> "absent", state |-> NotAPayload]

\* Mutant: what was set before the exception stays set.
MoveKeepsPartial(target, hook) ==
  IF target = migRecord.type THEN PassThrough
  ELSE IF \/ target \notin migProvider.registered
          \/ hook.does \notin Returning
       THEN ErrorResponseOnly
  ELSE Response(hook.does = "returns bad private", hook.state,
                IF hook.does = "returns private" THEN target ELSE None, Unset)

\* The state goes out as the hook returned it: nothing holds it against the
\* target's schema.  The private data of the source's type stays behind, and
\* an exception resets whatever was set: a bad private fails after the state
\* was set.
MoveResponse(target, hook) ==
  IF target = migRecord.type THEN PassThrough
  ELSE IF \/ target \notin migProvider.registered
          \/ hook.does \notin Returning \ {"returns bad private"}
       THEN ErrorResponseOnly
  ELSE Response(FALSE, hook.state,
                IF hook.does = "returns private" THEN target ELSE None, Unset)

-----------------------------------------------------------------------------
(* Terraform records what the response holds, diagnostics or not.          *)

\* Another release is installed, with another version of one type; one that
\* changes several types is as good as several releases in a row.
Release(type, isRegistered, version, identity) ==
  /\ migProvider' =
       [registered |-> IF isRegistered THEN migProvider.registered \cup {type}
                       ELSE migProvider.registered \ {type},
        schema |-> [migProvider.schema EXCEPT ![type] = version],
        identity |-> [migProvider.identity EXCEPT ![type] = identity]]
  /\ UNCHANGED <<migRecord, migFailed, migForeign>>

\* A verbatim answer leaves a foreign state what it is, a validated one does not.
UpgradeState(hook) ==
  LET response == UpgradeStateResponse(hook)
  IN /\ migFailed' = response.error
     /\ migRecord' = IF response.state = Unset THEN migRecord
                     ELSE [migRecord EXCEPT !.state = response.state,
                                            !.version = migProvider.schema[migRecord.type]]
     /\ migForeign' = /\ migForeign
                      /\ \/ response.state = Unset
                         \/ migRecord.version = migProvider.schema[migRecord.type]
     /\ UNCHANGED migProvider

UpgradeIdentity(hook) ==
  LET response == UpgradeIdentityResponse(hook)
  IN /\ migFailed' = response.error
     /\ migRecord' = IF response.identity = Unset THEN migRecord
                     ELSE [migRecord EXCEPT
                             !.identity = response.identity,
                             !.identityVersion = migProvider.identity[migRecord.type]]
     /\ UNCHANGED <<migProvider, migForeign>>

\* Across types; the identity of the source is not carried over.
Move(target, hook) ==
  LET response == MoveResponse(target, hook)
  IN /\ target # migRecord.type
     /\ migFailed' = response.error
     /\ migRecord' = IF response.state = Unset THEN migRecord
                     ELSE [type |-> target, version |-> migProvider.schema[target],
                           state |-> response.state, private |-> response.private,
                           identityVersion |-> RecordedVersion(migProvider.identity[target]),
                           identity |-> NoIdentity]
     /\ migForeign' = IF response.state = Unset THEN migForeign
                      ELSE response.state \notin Accepted(target)
     /\ UNCHANGED migProvider

\* Within one type.  The handler takes the source's schema for its own, so
\* the versions are the same here (SameSchema); a record without identity
\* data is left out as well, because the empty object it is answered with
\* satisfies no identity schema that requires anything.
SameSchema ==
  /\ migRecord.version = migProvider.schema[migRecord.type]
  /\ migRecord.identityVersion = migProvider.identity[migRecord.type]

MoveAddress ==
  LET response == MoveResponse(migRecord.type, NoHook)
  IN /\ SameSchema
     /\ migRecord.identity # NoIdentity
     /\ migFailed' = response.error
     /\ migRecord' = [migRecord EXCEPT !.state = response.state,
                                       !.private = response.private,
                                       !.identity = response.identity]
     /\ UNCHANGED <<migProvider, migForeign>>

MigNext ==
  \/ \E type \in Types, isRegistered \in BOOLEAN, version \in Versions, identity \in Versions \cup {None} :
       Release(type, isRegistered, version, identity)
  \/ \E hook \in UpgradeHooks : UpgradeState(hook) \/ UpgradeIdentity(hook)
  \/ \E target \in Types, hook \in MoveHooks : Move(target, hook)
  \/ MoveAddress

MigSpec == MigInit /\ [][MigNext]_migVars

-----------------------------------------------------------------------------
(* Properties.                                                             *)

MigTypeOK ==
  /\ migRecord \in Records
  /\ migProvider \in Releases
  /\ migFailed \in BOOLEAN
  /\ migForeign \in BOOLEAN

\* Whatever the upgrade hooks return, and whatever releases come and go, the
\* state and the identity on record satisfy the schema of the type and of the
\* version that are recorded beside them, and private state is only ever given
\* back to the type whose author wrote it.  The exception is the state that a
\* move hook returned: the code checks nothing of it, so that one reads back
\* only if the hook kept to the target's schema, and stays on record, verbatim,
\* until an upgrade to another version has validated what became of it.
RecordReadsBack ==
  /\ \/ migForeign
     \/ migRecord.state \in {[type |-> migRecord.type, version |-> migRecord.version], NullObject}
  /\ \/ migRecord.identity = NoIdentity
     \/ migRecord.identity = [type |-> migRecord.type, version |-> migRecord.identityVersion]
  /\ migRecord.private \in {None, migRecord.type}

\* A call that is answered with an error leaves the record alone, although
\* Terraform records what an answer with an error holds.
FailureLeavesRecord == [][migFailed' => UNCHANGED migRecord]_migVars
=============================================================================
