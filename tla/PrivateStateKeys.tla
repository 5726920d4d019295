-------------------------- MODULE PrivateStateKeys --------------------------
(***************************************************************************)
(* The keys that private state is sealed with.  Every sealing takes a new  *)
(* salt and derives its key from the salt and the shared secret of the     *)
(* configuration; the manager keeps the derived keys by salt, for all the  *)
(* threads of the process.  What was sealed comes back from Terraform,     *)
(* possibly in a later process, and is to open there.                      *)
(*                                                                         *)
(* Source: common/encryption.py and common/config.py (which secret a       *)
(* process sees).  HKDF and AES-GCM are external: a key is the pair it was *)
(* derived from, and a sealed text opens under its own key and no other.   *)
(***************************************************************************)
EXTENDS Naturals, FiniteSets

CONSTANTS
  Thread,
  Secret,      \* shared secrets that someone may configure
  NoSecret,       \* no secret
  MaxSealed,   \* bound: sealings, each with a salt of its own
  MaxRuns      \* bound: provider processes, one after the other

ASSUME SecretAssumption == NoSecret \notin Secret
ASSUME KeyBoundsAssumption == MaxSealed \in Nat /\ MaxRuns \in Nat \ {0}

VARIABLES
  keyEnv,      \* PYVIDER_PRIVATE_STATE_SHARED_SECRET of the process
  keyFile,     \* private_state_shared_secret of pyvider.toml
  keySeen,     \* secrets in force at some time of this process
  keyCache,    \* _key_cache: what each salt's key was derived from
  keyTask,     \* what each thread is doing
  keySealed,   \* what each salt's text was sealed under
  keyRuns      \* processes so far

keyVars == <<keyEnv, keyFile, keySeen, keyCache, keyTask, keySealed, keyRuns>>

Salt == 1..MaxSealed
Value == Secret \cup {NoSecret}

Idle == [at |-> "idle", op |-> "none", salt |-> 0, key |-> NoSecret]
Tasks ==
  [at : {"idle", "lookup", "derive", "store", "crypt", "done", "refused"},
   op : {"none", "seal", "open"}, salt : 0..MaxSealed, key : Value]

\* PyviderConfig: the environment, then the file; an empty value is none.
SecretOf(env, file) == IF env # NoSecret THEN env ELSE file
InForce == SecretOf(keyEnv, keyFile)

KeyInit ==
  /\ keyEnv \in Value /\ keyFile \in Value
  /\ keySeen = {SecretOf(keyEnv, keyFile)}
  /\ keyCache = [s \in Salt |-> NoSecret]
  /\ keyTask = [t \in Thread |-> Idle]
  /\ keySealed = [s \in Salt |-> NoSecret]
  /\ keyRuns = 1

At(t, step) == keyTask[t].at = step
Goes(t, task) == keyTask' = [keyTask EXCEPT ![t] = task]

-----------------------------------------------------------------------------
\* encrypt: a salt nobody has used.  Empty data stays empty and is not here.
BeginSeal(t) ==
  /\ At(t, "idle")
  /\ \E s \in Salt :
       /\ keySealed[s] = NoSecret
       /\ \A u \in Thread : keyTask[u].salt # s
       /\ \A r \in 1..(s - 1) : keySealed[r] # NoSecret \/ \E u \in Thread : keyTask[u].salt = r
       /\ Goes(t, [at |-> "lookup", op |-> "seal", salt |-> s, key |-> NoSecret])
  /\ UNCHANGED <<keyEnv, keyFile, keySeen, keyCache, keySealed, keyRuns>>

\* decrypt, of a text that has the length and the version byte of one.
BeginOpen(t, s) ==
  /\ At(t, "idle") /\ keySealed[s] # NoSecret
  /\ Goes(t, [at |-> "lookup", op |-> "open", salt |-> s, key |-> NoSecret])
  /\ UNCHANGED <<keyEnv, keyFile, keySeen, keyCache, keySealed, keyRuns>>

\* _derive_key, under the lock.
LookUp(t) ==
  /\ At(t, "lookup")
  /\ LET cached == keyCache[keyTask[t].salt]
     IN Goes(t, [keyTask[t] EXCEPT !.at = IF cached = NoSecret THEN "derive" ELSE "crypt",
                                   !.key = cached])
  /\ UNCHANGED <<keyEnv, keyFile, keySeen, keyCache, keySealed, keyRuns>>

\* Mutant: no secret is as good as one.
DeriveUnchecked(t) ==
  /\ At(t, "derive")
  /\ Goes(t, [keyTask[t] EXCEPT !.at = "store", !.key = InForce])
  /\ UNCHANGED <<keyEnv, keyFile, keySeen, keyCache, keySealed, keyRuns>>

\* _get_shared_secret and HKDF, without the lock: the configuration is read
\* anew, and having no secret is an error.
Derive(t) ==
  /\ At(t, "derive")
  /\ Goes(t, [keyTask[t] EXCEPT !.at = IF InForce = NoSecret THEN "refused" ELSE "store",
                                !.key = InForce])
  /\ UNCHANGED <<keyEnv, keyFile, keySeen, keyCache, keySealed, keyRuns>>

\* _derive_key, under the lock again.
Store(t) ==
  /\ At(t, "store")
  /\ keyCache' = [keyCache EXCEPT ![keyTask[t].salt] = keyTask[t].key]
  /\ Goes(t, [keyTask[t] EXCEPT !.at = "crypt"])
  /\ UNCHANGED <<keyEnv, keyFile, keySeen, keySealed, keyRuns>>

\* AES-GCM at the end of encrypt and decrypt: a wrong key is an error.
Crypt(t) ==
  /\ At(t, "crypt")
  /\ \/ /\ keyTask[t].op = "seal"
        /\ keySealed' = [keySealed EXCEPT ![keyTask[t].salt] = keyTask[t].key]
        /\ Goes(t, [keyTask[t] EXCEPT !.at = "done"])
     \/ /\ keyTask[t].op = "open"
        /\ LET opens == keySealed[keyTask[t].salt] = keyTask[t].key
           IN Goes(t, [keyTask[t] EXCEPT !.at = IF opens THEN "done" ELSE "refused"])
        /\ UNCHANGED keySealed
  /\ UNCHANGED <<keyEnv, keyFile, keySeen, keyCache, keyRuns>>

Return(t) ==
  /\ At(t, "done") \/ At(t, "refused")
  /\ Goes(t, Idle)
  /\ UNCHANGED <<keyEnv, keyFile, keySeen, keyCache, keySealed, keyRuns>>

-----------------------------------------------------------------------------
ClearCache ==
  /\ keyCache' = [s \in Salt |-> NoSecret]
  /\ UNCHANGED <<keyEnv, keyFile, keySeen, keyTask, keySealed, keyRuns>>

\* Someone edits pyvider.toml while the provider runs.
EditFile(secret) ==
  /\ keyFile' = secret
  /\ keySeen' = keySeen \cup {SecretOf(keyEnv, secret)}
  /\ UNCHANGED <<keyEnv, keyCache, keyTask, keySealed, keyRuns>>

\* Terraform ends the process and starts another, perhaps elsewhere.
Restart(env) ==
  /\ keyRuns < MaxRuns
  /\ keyRuns' = keyRuns + 1
  /\ keyEnv' = env
  /\ keySeen' = {SecretOf(env, keyFile)}
  /\ keyCache' = [s \in Salt |-> NoSecret]
  /\ keyTask' = [t \in Thread |-> Idle]
  /\ UNCHANGED <<keyFile, keySealed>>

KeyNext ==
  \/ \E t \in Thread :
       \/ BeginSeal(t) \/ LookUp(t) \/ Derive(t) \/ Store(t) \/ Crypt(t) \/ Return(t)
       \/ \E s \in Salt : BeginOpen(t, s)
  \/ ClearCache
  \/ \E secret \in Value : EditFile(secret) \/ Restart(secret)

KeySpec == KeyInit /\ [][KeyNext]_keyVars

-----------------------------------------------------------------------------
KeyTypeOK ==
  /\ keyEnv \in Value /\ keyFile \in Value /\ keySeen \in SUBSET Value
  /\ keyCache \in [Salt -> Value] /\ keySealed \in [Salt -> Value]
  /\ keyTask \in [Thread -> Tasks] /\ keyRuns \in 1..MaxRuns

\* Private state opens in a process exactly by the secret it was sealed under:
\* it opens only where that secret was in force at some time, and where no
\* other secret ever was, it does open -- after any restarts, however the
\* threads interleave, and whatever the cache has kept.  Nothing is ever sealed
\* under an empty secret or one that was not in force in its process.
OpensUnderItsSecret ==
  \A t \in Thread :
    LET task == keyTask[t]
        under == keySealed[task.salt]
    IN /\ task.op = "open" /\ task.at = "done" => under \in keySeen
       /\ task.op = "open" /\ task.at = "refused" => keySeen # {under}
       /\ task.op = "seal" /\ task.at = "done" => under \in keySeen \ {NoSecret}
=============================================================================
