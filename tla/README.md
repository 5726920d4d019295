# pyvider in TLA+

A verification development for [pyvider](../src/README.md), a framework for writing Terraform
providers in Python: TLA+ modules for the protocols it takes part in, the state that several processes, threads
or coroutines share, and the algorithms its answers are made by, TLC configurations that model-check them, and TLAPS proofs of what holds for
every value of the constants.

Run a model with `tlc -config X.cfg M`, check a proof with `tlapm M.tla`. `PROJECT.json` lists
the runs, the source lines every definition translates (`map`), the hazards the properties are
for, and one mutant of the code per property that TLC finds violated.

## 1. Inventory

A provider is a process that Terraform starts (`pyvider provide`). It discovers its components,
serves the plugin protocol over gRPC on one asyncio event loop, and stops when asked. Blocking
work runs in `asyncio.to_thread` workers. Several provider processes, on one host or many, share
a state directory when the provider offers a state store.

| Component | State | Operations | Interacts with |
|---|---|---|---|
| File mutex (`state_stores/_filelock.py`) | `_THREAD_MUTEXES`; the kernel's record lock, or a sentinel file | `exclusive_file_mutex` | other threads, other processes, the kernel at a process's death |
| Filesystem state store (`state_stores/filesystem.py`, `types.py`) | one file per state, one lease file per state, the root | lock, unlock, get_lock, read, write, delete, list, configure | file mutex; called by the RPCs through worker threads |
| In-memory state store (`state_stores/memory.py`) | two dictionaries under one lock | the same | the RPCs |
| State-store RPCs, manager (`handler.py`, `state_store_handlers.py`, `state_stores/manager.py`) | chunk size and backend per type; a stream in progress | Read/WriteStateBytes, Lock/UnlockState, ConfigureStateStore, GetStates, DeleteState, Validate | Terraform's streams; a backend |
| Server start and stop (`cli/provide_command.py`, `handler.py`, `stop_provider.py`) | ready event, `_resolved_provider`, background task, server | discovery, setup, `_ensure_provider_ready`, `_delegate`, StopProvider | the hub; every RPC |
| Schema cache (`get_provider_schema.py`) | `_schema_future`, `_cache_lock` | GetProviderSchema | concurrent callers |
| Provider configuration (`configure_provider.py`, `providers/base.py`) | `_configured`, the hook's client, `provider_context` | ConfigureProvider, `BaseProvider.configure` | every component that reads the context |
| Managed resources (`plan_`, `apply_resource_change.py`, `read_resource.py`, import, move, upgrade, `resources/base.py`) | none between calls: prior, planned and new state, and private state, travel through Terraform | plan, apply, read, import, move, upgrade, validate | the provider author's hooks; marshalling; encryption |
| Ephemeral resources (`*_ephemeral_resource.py`, `ephemerals/`) | private data that travels through Terraform | validate, open, renew, close | the author's hooks |
| Actions, list resources (`action_handlers.py`, `list_resource.py`) | an event stream per call | plan, invoke, list | the author's async generators |
| Data sources (`read_data_source.py`, `validate_data_resource_config.py`) | none | validate, read | the author's hook and its context |
| Functions (`call_function.py`, `get_functions.py`, `functions/`) | none | list, call | the author's Python functions |
| Hub and discovery (`hub/`), `get_metadata.py`, capabilities, test mode | registry of classes, the errors of the discovery, the test mode | discover, register, set up, publish | imports; the server; every call that looks a type up |
| Schemas, defaults, transforms (`schema/`) | none | declare, extend, apply defaults | plan, apply, validation |
| Conversion, marshalling (`conversion/`, `resources/base.py`, `handlers/utils.py`) | none | decode, encode, unmark, compare with the plan | every handler |
| Private-state encryption (`common/encryption.py`, `common/config.py`) | the key cache of the process | derive, encrypt, decrypt, clear | managed resources; threads |
| Installation (`cli/install_command.py`, `cli/utils.py`, `common/launch_context.py`) | the file in Terraform's plugin directory | install, uninstall, start | bash, Terraform, the project's environment |
| Metrics, telemetry, generated protocol code | counters | I/O | everything |

Hard behaviours, and the properties that make the components correct:

- **File mutex.** `lockf` never separates threads of one process and forgets the lock when any
  descriptor is closed; hence a `threading.Lock` on the outside. Timeouts, errors at each step,
  deaths. *At most one thread inside; the record lock is there while it is; nothing is left
  taken; every wait ends.*
- **Lease.** The record is truncated and rewritten in place, the clock is read before a wait of
  up to twenty seconds, hosts disagree about the time, an unlock may come late. *Locking is
  atomic: two clients never hold a live lease together, a granted lease is not lost.*
- **State files.** Temporary file, fsync, rename, fsync of the directory, with errors, deaths and
  power losses in between. *A reader sees a whole payload; what was acknowledged survives, if its
  directory could be fsynced; a failed write changes nothing.*
- **State RPCs.** Chunked streams that end early or are cancelled, a chunk size that changes,
  leases that lapse under a client. *Reads end at the last byte; a truncated stream is refused;
  locked operations do not lose each other's updates.*
- **Server.** RPCs arrive before discovery has ended; one schema computation serves all its
  callers, one of which may be cancelled; StopProvider must be answered before the shutdown it
  asks for. *No handler without a provider; no failed schema is kept; every call is answered.*
- **Configuration.** The author's hook suspends, and fails before or after `super().configure()`
  and before or after it has built its client. *The published context and the live client belong
  together, unless a hook left a client behind and failed; a failure is reported.*
- **Resources.** A hook changes the world and the handler fails afterwards; plan and apply
  disagree about unknown, omitted and defaulted attributes; an unknown object decodes to None and
  None means delete; private state is dropped. *Terraform accepts every plan and every honest
  apply; what exists is on record or was reported; only planned deletes delete.*
- **Ephemeral resources.** What was opened must be closed, from private data that a renewal
  replaces and that an answer with an error does not carry. *The newest private data reaches the
  hook; nothing stays open in silence.*
- **Streams.** The author's generator yields, ends, raises, never ends or is cancelled. *One
  completed event, and it is the last; the limit is kept, and ends the listing.*
- **Upgrades and moves.** Releases come and go, hooks return what they like, Terraform records
  what it is given. *What is recorded reads back, except what a move hook returned, which nothing
  checks; a failed call changes no record.*
- **Discovery and what is published.** Modules that fail half-way, names taken twice, a test mode
  that is turned on later. *No error means that everything was found, or nothing, when the entry
  points could not be listed; what was published is served.*
- **Private-state keys.** Threads derive outside of the lock, the cache is cleared and the
  configuration changes meanwhile, processes come and go. *Sealed text opens exactly by the secret
  it was sealed under.*
- **Installation.** One wrapper script, started by Terraform and by people, in projects whose
  environment comes and goes. *What was installed starts.*
- **Values.** Defaults in nested blocks whose elements Terraform reorders, unknowns inside of
  collections, nodes that are shared, arguments left out before a variadic one. *The algorithm
  agrees with its reference definition on every input of the bound.*

## 2. Modules

```
Mutex  <==implements==  FileMutex  (FileMutexProofs)      SentinelMutex   hosts without fcntl
  |
  | the mutex as FsLease sees it
  v
LeaseLock  <==implements==  FsLease  (FsLeaseProofs)
  |                            the data plane beside it:  StateFile  (StateFileProofs)
  | a lease and whole payloads, as StateRpc sees them
  v
StateRpc  (StateRpcProofs)

ProviderServer (ProviderServerProofs)

PlanLogic  <--extended by--  ResourceRpc (ResourceRpcProofs)

Ephemeral  EventStreams  ResourceMigration  DataSources  PrivateStateKeys
ComponentCatalog  Installation  UnmarkWalk  FunctionCall  SchemaDeclaration
ProviderConfigure (ProviderConfigureProofs)
    |                  CtyValues  <--extended by--  NestedDefaults
    |                      ^                            |
    |                  CtyTypes  <--extended by--  ValueRefinement  StateConversion
    |                                                   |
    v                                                   v
MCComponentCalls         (ComponentCallsProofs, about the other thirteen)
```

The protocols of `MCComponentCalls` share no state in the provider. A behaviour of it is about one
of them, chosen in the initial state (`part`), while the variables of the others stand still.

What the code computes of a value by recursion, the three modules on values compute from the inside
out: an author declares a type, an annotation or a schema after its parts, and the step fills a
table with what the code's functions make of every value of it, where the recursive call is a
look-up in the table of the part. So a behaviour is a nest of declarations of any depth, no operator
is recursive, and an invariant says of the tables what an induction over values would.

| Module | Models | State and actions in terms of the code |
|---|---|---|
| `Mutex` | the promise of `exclusive_file_mutex` | `holder`: the thread in the with-block |
| `FileMutex` | the POSIX implementation | `pc` follows the function from the `acquire` of the `threading.Lock` to its release; `threadMutex` is `_THREAD_MUTEXES[path]`; `recordLock` is the kernel's lock, owned by a process; `DropRecordLock` is what `LOCK_UN` and any `close` of the file do |
| `SentinelMutex` | `_acquire_sentinel`, `_discard_sentinel` | the sentinel file, its stale reclaim by two waiters |
| `LeaseLock` | the promise of `lock_state`/`unlock_state`; also `InMemoryStateStore`, whose calls are single steps under a mutex | `lease` on record, `held` by clients |
| `FsLease` | `_lock_state_sync`, `_unlock_state_sync`, `_read_lease`, `_write_lease` | `file` is the bytes of the lock file (`Empty`, `Torn` or a record); `local[c].now` the clock read before the wait; one action per read, truncate, write, fsync, return, error, death |
| `StateFile` | `write_state`, `delete_state`, `read_state` | `history` is what a directory entry has been; `floor` how far back a power loss may set it; `synced` the fsynced files |
| `StateRpc` | the RPC handlers over one state: lock, read, write, delete, unlock, configure | `stream[c]` is the chunked stream; `chunk` the negotiated size; `base[c]` the payload an operation has read; `lingering` the threads of cancelled writes and deletes |
| `ProviderServer` | event loop, readiness, schema cache, stop, with a server in the hub or none | `ready` is `DISCOVERY_READY_EVENT`; `future`/`attempt`/`joined` are `_schema_future` and its computations; a step is what a task does between two awaits |
| `ProviderConfigure` | ConfigureProvider and `BaseProvider.configure` | `cfgShape` is where the author's hook calls super; `cfgClient` and `cfgContext` name the call they were built from; `cfgOrphaned` says that a hook built a client and then raised |
| `PlanLogic` | defaults, unknown and required attributes, replacement, refinement | pure operators on objects, which are functions from attributes to `Null`, `Unknown` or a value; one operator per function of the code |
| `ResourceRpc` | the handlers of one managed resource, `BaseResource.plan` and `.apply` | `at` is the call Terraform has made and `reply` its answer; `state`, `private`, `plan`, `planned` what Terraform has on record; `world` the real object; `author` the plan hook. The handlers keep nothing between calls |
| `Ephemeral` | the four ephemeral calls | `ephNewest` is the private data the hooks have made, `ephPrivate` what Terraform holds; a private state is the generation of credentials it stands for; `ephSession` is the thing in the world |
| `EventStreams` | InvokeAction, ListResource, PlanAction and two validations | `evPhase` is where the handler's loop stands, `evEvents` what it has sent; a step of the generator is an action |
| `ResourceMigration` | UpgradeResourceState, UpgradeResourceIdentity, MoveResourceState | `migRecord` is what Terraform has recorded, `migProvider` the release installed; a payload is the type and version whose schema it satisfies; `migForeign` says that the state on record is a move hook's and not of its schema; a release changes one type, several in a row change several |
| `DataSources` | ValidateDataResourceConfig, ReadDataSource | `dsHook` is what `read()` did, `dsAnswer` the response |
| `PrivateStateKeys` | `encrypt`, `decrypt`, `_derive_key`, `clear_cache` | `keyTask[t]` follows a thread through the two holds of the lock; `keyCache` is `_key_cache`; a key is the pair it was derived from |
| `ComponentCatalog` | discovery, registration, set-up, GetMetadata, GetProviderSchema, GetFunctions, look-ups | `catBroken` are the modules that raise; the hub is a set of classes by kind and name |
| `Installation` | `pyvider install`, `uninstall`, and the start of `pyvider provide` | what is in the plugin directory, where the project and its environment are, and what starts from it |
| `UnmarkWalk` | `_unmark_deep` and `marshal` | the explicit stack, the nodes being copied and those done, over graphs with shared nodes |
| `FunctionCall` | a function's parameters and the binding of a call | `fnSignature` is the registered function, a sequence of parameter kinds; `fnCall` the call Terraform makes, where an argument is its place; `fnAnswer` what CallFunction made of it |
| `CtyValues`, `CtyTypes` | the values and types of pyvider-cty, as the code uses them | null, unknown or known; `ctyTypes` has the values of every declared type, all of them and the wholly known ones |
| `NestedDefaults` | `schema/defaults.py` below the top level | `dfSchemas` has a schema's values and what `resolve_schema_defaults`, `_merge_block_into_plan` and `_set_elements_match` make of them; `PlanNested` plans a block of the last one, from every proposal Terraform can make; the reference (`Agrees`) is what the configuration says |
| `ValueRefinement` | `is_valid_refinement` | `rfTypes` has the pairs of a type that the check accepts; the reference (`Resolves`) is that some choice of the unknowns makes the plan the result |
| `StateConversion` | the three decoders and two encoders of state | `cvHints` has both directions of every value, for a type and an annotation; the reference (`MeantValue`) is the value with the defaults that attrs fills in |
| `SchemaDeclaration` | `PvsAttribute`, blocks, objects, `transforms.py` | an author's program builds from the inside out, as the factories do: `sdAttributes`, `sdBlocks` and `sdSchemas` are what it has built; an action is a call of a factory or of the transformer that did not raise |

Terraform is the environment of `ResourceRpc` and is written as the code in `src/` uses it: which
call follows which, what is handed back, and the tests (`ValidPlan`, `Consistent`) whose failure
the comments of the handlers quote. A hook is any hook of a kind: a plan hook leaves computed
attributes to apply or fills them in, asks for replacements or not, hands the private state on or
not; an apply hook does what plan and configuration say (`Honest`), or fails before or after it
has changed the world, or returns something else.

Data is abstracted to what the properties tell apart: a payload is the number of the write it
comes from and its size, a configuration is the RPC that carried it, a lock id is a number that
is never reused (`uuid4`).

## 3. Runs

| Run | Bounds | What it shows |
|---|---|---|
| `file_mutex` | 2 processes, one with 2 of the 4 threads each | exclusion, `ImplementsMutex`, and (`EveryCallReturns`) no endless wait |
| `fs_lease` | 3 clients, clock 0..3, skew 0..1, TTL never or 2, 2 lock ids | the implementation of `LeaseLock` |
| `state_file` | 3 clients, 2 states, 3 mutating calls, 2 faults | whole reads, durability of acknowledged calls whose directory was fsynced, failures without trace |
| `state_rpc` | 2 clients, payloads up to 3 bytes, chunks 1..3, 2 writes | chunk arithmetic, early ends, updates and deletes that meet |
| `provider_server` | 2 schema calls, a stop and another call, 2 computations | single flight, cancellation, shutdown, liveness |
| `resource_rpc` | 4 attributes (required; with a default; optional, computed and `requires_replace`; write-only), 2 values, 9 configurations, 4 plan hooks, 1 private state; any number of operations | plans that Terraform accepts and apply keeps, convergence, no silent orphan, no unplanned delete, private state |
| `component_calls` | 3 concurrent configure calls, each repeated without bound, 3 hook shapes; 3 generations of credentials; 3 items, limits 0..2; 2 types, versions 0..1; 3 modules with 8 classes; 2 threads, 2 secrets, 2 sealings, 2 processes; 2 project versions; value graphs of 4 nodes; signatures of up to 3 parameters, calls of up to 4 arguments; 2 names and 5 points of declarations; 2 scalars, 2 labels, collections of up to 2; 3 types of up to 60 values, 3 annotations; 2 schemas of up to 18 values, nested blocks of up to 300 | the seventeen invariants and two temporal properties of the component protocols and algorithms |
| `sentinel_reclaim`, `startup_race`, `configure_stuck`, `ephemeral_errors`, `defaults_lost` | as small as the behaviour allows | five places where the code does not do what its documentation says (section 6) |

What `component_calls` checks, part by part:

| Part | Property | Says |
|---|---|---|
| `configure` | `ContextMatchesClient` | the published context and the live client come from one call, for a hook that calls super first; none is published once a hook has left a client and failed |
| `ephemeral` | `NewestReachesHook` | a renew or close hook gets the newest private data, unless Terraform was told that a renewal failed |
| | `NothingLeaksSilently` | what was opened is closed, or some answer had an error |
| `streams` | `CompletesOnce` | an action's stream that ends by itself has one completed event and nothing after it |
| | `LimitIsKept`, `LimitedListEnds` | no more results than the limit; a listing with a limit ends although its list resource does not |
| `migration` | `RecordReadsBack` | state, identity and private state on record are of the type and version recorded beside them, but for a state that a move hook returned, until an upgrade has validated it |
| | `FailureLeavesRecord` | a call with an error leaves the record alone |
| `catalogue` | `NoErrorMeansAllOrNone` | a discovery with nothing to report has found every component, or none, when the entry points could not be listed |
| | `AdvertisedIsServed` | what Terraform was told of, a later call reaches |
| `keys` | `OpensUnderItsSecret` | private state opens exactly by the secret it was sealed under |
| `installation` | `InstalledServes` | what the last command said it installed, Terraform can start |
| `unmark` | `WireIsUnmarked` | the copy is whole and has no mark, whatever its nodes share |
| `data` | `AnswerTellsAll` | nothing a read hook reported, returned or deferred is lost |
| `function` | `CallsBindAsMeant` | arguments and defaults reach the parameters they were written for |
| `declaration` | `DeclaredFlagsWork` | a schema that can be declared does what its flags say, at every depth and after any change of it |
| `defaults` | `DefaultsReachPlan` | the plan has the defaults at every depth, whatever Terraform proposed and in whichever order; in sets of several elements, if they can be told apart and null or the default was proposed where one is due |
| `refinement` | `RefinementIsExact` | an applied value that resolves the plan passes, and one that passes is an outcome of the plan; sets with unknowns excepted |
| `conversion` | `ConversionsKeepValues` | decoding and encoding keep a value as it is |

What is proved need not be checked again on every run: the type invariants, and the invariants
`HolderOwnsRecord`, `NoOrphanRecord`, `Exclusive`, `HolderOnRecord`, `HandlersSeeProvider`,
`GoodSchemaStays`, `ContextIsKept` and `FailureIsReported`, are theorems (section 4) and are not
in a run's list; TLC agreed with each of them before it was proved.

Why the bounds are enough. Two threads of one process and one of another is the smallest
instance in which a thread races a peer and a stranger at once; the fourth thread makes the
waits contended on both sides. Two lock ids let a lease lapse, be taken over and meet a stale
unlock, and the third client is the bystander. Three mutating calls let two writers and a
deleter race on a state, two faults let a restart be followed by another. Chunks of 1..3 bytes over payloads of 0..3
bytes reach every remainder, the exact multiple, the single byte and the empty state. A schema
computation beyond one per schema call cannot start. The four attributes of `resource_rpc` are
one of each kind the code treats differently; two values tell a kept one from a changed one; the
configurations set, omit and leave unknown each attribute that can be; and the run has no bound
on its length: operations, drift, failures and provider deaths repeat for ever. In
`component_calls` three generations let a renewal be followed by a failed one and a close; three
items are one more than the largest limit; two versions allow an upgrade and a downgrade, two types
a move; three modules are a package with a submodule and a second package, explicit and loaded
later, with the same resource name in both; two sealings by two threads interleave a derivation
with a cleared cache, and the second process opens what the first has sealed; graphs of four nodes
have a shared node two levels down. Three parameters are one of each kind, or two with a default
before a third; the fourth argument is the surplus. Five points of declarations, of which an
attribute takes two, are an object in a block, two attributes in a schema, or two schemas of one
attribute and their merge. Three types are an object in a list in a map, or an object of two kinds of
attributes. Schemas of 18 values have two attributes, or one that is an object or a nested block;
300 values of a block let a set have two elements of two attributes each, one of which has a
default and the other tells them apart (a block of two schemas counts twice, which keeps the run
short: the invariant was also checked with 27 values a schema). Every bound is a constant: `MaxClock`,
`MaxIssued`, `MaxCalls`, `MaxFaults`, `MaxWrites`, `MaxSize`, `MaxAttempts`, `MaxCrash`,
`MaxGeneration`, `MaxItems`, `MaxVersion`, `MaxSealed`, `MaxRuns`, `Size`, `Width`,
`MaxParameters`, `MaxArguments`, `MaxBuilt`, `MaxLength`, `MaxTypes`, `MaxValues`, `MaxHints`,
`MaxSchemas`, `MaxObjects`, `MaxNested`.

Deadlock is checked except in `provider_server` and `startup_race` (the process ends) and in
`component_calls`, `ephemeral_errors` and `defaults_lost` (a resource's life ends, a walk is over,
everything the bounds allow has been declared).

### Fairness

Liveness is stated for three modules.

- `FileMutex`: weak fairness of each thread's own steps. A thread that runs is scheduled, its
  waits are loops with a deadline (`ThreadMutexTimeout`, `LockRecordFails`), and the block is a
  short read and write. No process has to call, to survive, or to get the lock.
- `ProviderServer`: weak fairness of each call's progress and of a schema computation. asyncio
  runs every ready task and every due timer, including the 55 s timeout of
  `_ensure_provider_ready`. Discovery and `setup()` are the author's code and may hang: nothing
  is assumed of them, nor of Terraform.
- `EventStreams`: weak fairness of the loop (`StreamStep`): each step of the author's generator
  returns, as a step that never does would stop any handler. That the generator ends is not
  assumed, nor that Terraform asks for anything or cancels.

## 4. Proofs

Eight modules of proofs, each beside the module it is about; `ComponentCallsProofs` is about thirteen. Every
safety invariant and every action property that a passing run checks is a theorem. A proof holds for every value of the
constants that the named `ASSUME`s admit: null values are none of the real ones, bounds are
naturals, ttls are naturals, every thread has a process. The bounds (`MaxClock`, `MaxIssued`,
`MaxCalls`, ...) are any naturals, so they bound nothing a proof relies on.

Each module has the same layout: the facts the properties rest on, as named operators; `IInv`,
their conjunction; `IInvInit`, and a lemma that every step keeps `IInv`, with one step per
action; the theorems. The invariants were checked by TLC in the run before they were proved.

| Module | Theorems | What makes the invariant inductive |
|---|---|---|
| `FileMutexProofs` | `TypeCorrect`, `Exclusion`, `RecordLockTracksHolder`, `Refinement` | between `acquire` and `release` a thread is the one its process's `threading.Lock` names, and it has the file open exactly between `os.open` and `close`: so no close of a peer drops the record lock under the holder |
| `FsLeaseProofs` | `TypeCorrect`, `Exclusion`, `GrantsAreKept`, `Refinement` | the time a request judges by has passed on its own host (`NowHasPassed`), so what it finds lapsed is lapsed within the skew; the client rewriting the record is alone with it (`RecordInProgress`); ids are never shared, and a lease an unlock is under way for is relied on by nobody (`UnlockedIsGivenUp`), which is why a late unlock is harmless |
| `StateFileProofs` | `TypeCorrect`, `WholeReads`, `Durability`, `CleanFailure` | the temporary file of a write belongs to it alone until the rename (`OwnTemp`), and is whole and fsynced by then (`WrittenInOrder`); every version an entry has had, not only the newest, is whole on the disk, because a power loss may bring back any of them |
| `StateRpcProofs` | `TypeCorrect`, `WholeReads`, `LockedUpdates`, `NoTruncatedState` | while nothing has overrun its lease, whoever works is the holder (`WorkersHoldLease`), so what it has read is what is stored; and the number of a write not stored yet is known to its own stream, or to its lingering thread, only |
| `ProviderServerProofs` | `TypeCorrect`, `Readiness`, `SingleFlight`, `NoFailureIsKept`, `SchemaIsStable`, `OrderlyStop` | the cached future is the attempt under way whenever there is one, and the last good one afterwards (`CacheNamesItsAttempt`) |
| `ProviderConfigureProofs` | `TypeCorrect`, `ContextAgrees`, `ContextStays`, `FailuresReported` | a hook past its `super().configure()` runs alone, and before there is a context (`FirstHookRunsAlone`); so one that leaves a client and raises was the only one that would ever run (`OrphanEndsIt`) |
| `ResourceRpcProofs` | `TypeCorrect`, `PlansAreKept`, `NoSilentOrphan`, `PlannedDeletes`, `PrivateIsKept`; `PlansAccepted`, `HonestHooksAccepted`, `PlansConverge` | the handlers keep nothing, so the invariant is about the answer that is pending (`AnswersAreTruthful`): it reports an object gone only when it is, hands on the private state, is a plan Terraform accepts, or has kept the plan it applied; private state goes with an object on record, and an object with no record was reported or is about to be (`Tracked`). The last three theorems need a second one, `FInv`: a plan is made attribute by attribute (`PlanAt`), so the approved plan is what the same call would answer now, but for its unknowns (`ApprovedPlanStands`), also after the old object of a replacement is gone (`ReplacesInOrder`), and a settled record has what its configuration says (`SettledIsFaithful`) |
| `ComponentCallsProofs`, Ephemeral | `EphTypeCorrect`, `NewestIsGiven`, `NoSilentLeak` | an instance Terraform holds is open, and what it hands back is the newest private data, or nothing, or an error has told it why (`HeldIsNewest`) |
| ..., EventStreams | `EvTypeCorrect`, `OneCompletion`, `LimitsHold` | a running action has sent progress only (`ProgressOnly`); a listing that goes on has sent one result per item and is below its limit (`ResultsOnly`) |
| ..., ResourceMigration | `MigTypeCorrect`, `RecordsReadBack`, `FailuresLeaveRecord` | `RecordReadsBack` is inductive with the types: the answer to an upgrade holds nothing, and an error, or what the current schema accepts (`UpgradedStateIsCurrent`, `UpgradedIdentityIsCurrent`); a move may bring in any state, and `migForeign` tells when its schema does not accept it |
| ..., DataSources | `DsTypeCorrect`, `AnswersTellAll` | every answer of a hook is one of three shapes (`HookAnswers`), and the errors the hook added join it in each |
| ..., PrivateStateKeys | `KeyTypeCorrect`, `SealsOpen` | a key a thread has got, and one in the cache, is of a secret that was in force in this process; the salt of a sealing is free and nobody else's until it is sealed (`TaskOK`, `SaltsApart`), which is why a cleared cache or an edited file in the middle is harmless |
| ..., ComponentCatalog | `PublishedIsServed` | the hub is what it was when the provider was registered (`HubIsFinal`), what is published is in it with its capability (`HubIsServed`), and is open to everyone as long as the test mode is off (`PublishedIsOpen`) |
| ..., Installation | `InstalledStarts` | the file of the version that was installed last is the one the command reported (`PlacedAsReported`) |
| ..., ComponentCatalog | `ErrorFreeDiscoveryIsComplete`; `ReachableIsClosed`, `ReachableIsLeast` | a lenient walk that has recorded no error has visited, or has still to visit, the packages and every submodule of what it visited, and has registered what the visited define (`WalkMissesNothing`); what the walk never visits would have to be in a set closed under submodules. The property says what can be reached by a recursion bounded by the number of modules: the other two theorems say that this is the least closed set, so that the bound leaves nothing out, cycles of packages included |
| ..., UnmarkWalk | `WalkTypeCorrect`, `NoMarkOnTheWire` | a node that is being copied has its marker on the stack, and all it holds is copied or above that marker; only its descendants are above it, so the walk does not meet a node under way again (`MarkerStands`) |
| ..., FunctionCall | `EveryCallBinds`; `CallBinding` | the positional parameters are the first of the signature, the variadic slot is the last of them or follows them, and the arguments that are given are a prefix: so the places that the declaration and the call skip are the same. `CallBinding` is about every signature and call of any length, without the state machine |
| ..., SchemaDeclaration | `SdTypeCorrect`, `FlagsWork` | an attribute that was built is a fixed point of `__attrs_post_init__` (`NamingIsIdempotent`), and what it, a block or a schema holds was built before (`SdTypeOK`): so what is asked of one level holds at all of them |
| ..., ValueRefinement | `RefinementCheck` | a value of a type is made of values of its parts, wholly known if it is (`CtyInv`); of every type, what resolves a plan is accepted, a known value resolves to itself only, and what is accepted is an outcome (`CheckIsExact`): of a new type this follows from its parts' tables |
| ..., StateConversion | `ConversionsAreFaithful` | under every annotation of a type a wholly known value comes back as it was, and one that is decoded with its defaults as what it means (`BothWays`); the conversion a plan starts with keeps the unknowns too (`KeptInPlan`); and a new annotation suits its type (`HintSuits`), so that it decodes places that the type has |
| ..., NestedDefaults | `DefaultsArrive` | of every schema's tables: resolving and merging stay among its values and keep what is known known (`Resolution`, `Merging`), a merged proposal that can be paired agrees with the effective configuration (`Proposing`), and in a set an element matches its own configuration and none that it can be told apart from (`Pairing`), so that the rounds of `_merge_set_into_plan` pair each of them in the first (`AllPairsFound`) |

The two refinements compose on paper: `FsLease` takes the mutex for atomic, `FileMutex` proves it
so. In the refinement of `LeaseLock`, a lease is granted when its record is written, not when
`lock_state` returns; a lapsed one ends when its record is truncated; an unlock takes effect when
it truncates; a call that fails between those grants a lease nobody learns of. `FsLease` takes
a write that failed for one that has left what it left: with the handle's buffer the theorem does
not hold (section 6).

Induction. The library's induction theorems take an operator as a parameter, which the provers
cannot instantiate. `ComponentCallsProofs` goes around that: `LeastNumber` says that every
non-empty set of numbers has a least element, from the library's theorem that strict inclusion
among finite sets is well-founded; `InductionOnNumbers` is induction for a set `P` of numbers, and a step
cites it for the set of the `n` with the property; `IterationExists` says that a function defined by
recursion on numbers satisfies its equation. With these, `Reach` of the catalogue and the `Ascending`
places of a call are proved about for every size.

`StateRpcProofs!LockedUpdates` and `StateFileProofs!Durability` are proved with the hypotheses
section 5 names. `StateFileProofs` rests on the library's facts about `Append` and `SubSeq`.

## 5. Only model-checked, and not modelled

- Liveness (`EveryCallReturns`, `EveryCallAnswered`, `LimitedListEnds`) is out of the prover's reach
  and is checked by TLC only.
- `NoLostUpdate` and `AckedSurvives` have hypotheses that name a window the code leaves open: a
  lease that lapses under a working client, a cancelled write or delete whose thread runs on
  (`asyncio.to_thread` cannot be cancelled, and a write never looks at the lease), and a power
  loss that takes a type directory whose own entry in the root was never fsynced (`dirLost`).
  `AckedSurvives` is, besides, about calls whose fsync of the directory went through:
  `_fsync_directory` swallows the `OSError` of a failed one and the call is acknowledged all the
  same (`SyncDirectoryFails`), so that a power loss may undo it. They are listed as hazards.
- `ContextMatchesClient` is stated for a hook that calls super first. With super last, the client
  of a refused second hook is live while the first context stays published; with no call of
  super at all, nothing keeps a second hook out. With super first there is one exception as well,
  named in the property: a hook that has built its client and then raises leaves it live, without
  a context.
- `RecordReadsBack` makes an exception of the state that a move hook returned: the handler
  serialises whatever that is, so it reads back only if the hook kept to the target's schema. The
  exception ends with the next upgrade, which validates what becomes of it; a release of the
  same version passes it on verbatim.
- `NoErrorMeansAllOrNone`: when the entry points cannot be listed, the discovery logs it, records
  no error and finds nothing.
- `PlanConverges` excludes computed attributes that apply left null: `_handle_planned_state_dict`
  makes them unknown in every later plan, and with `requires_replace` each such plan is a replacement. `PrivateSurvives` is about plan hooks
  that return `ctx.private_state`: `BaseResource`'s own return none, so an update drops it; and
  about one secret: a plan drops a private state it cannot decrypt, with a warning.
- `Refines` follows `is_valid_refinement` and lets a planned null become a value, which Terraform
  does not: an honest hook never does that (`HonestApplyIsAccepted`), another one's object is
  recorded next to Terraform's error.
- Exclusions that the properties of the algorithms name: a null before an argument
  (`CallsBindAsMeant`); sets of several blocks of which two have no attribute that both give and
  that tells them apart (`CanBePaired`), or one is proposed with another value than null or the
  default where a default is due (`IsFresh`; both for `DefaultsReachPlan`, and a set of one block
  may be either); in a set of the plan, a partly unknown element, or for the second half of the
  property any unknown (`RefinementIsExact`); test-only functions and a strict discovery that
  was tried again (`AdvertisedIsServed`, `NoErrorMeansAllOrNone`). Section 6 lists what happens there.
- Assumed: a `LOCK_UN` does not fail (`FileMutex`); a class of the
  author has a field for every attribute of its object, and unknowns are unrefined
  (`StateConversion`), so that the `TypeError` that `from_cty` turns into None does not come up.
- Left out of the managed resources: resource identities, which every answer derives from its
  object, a plan hook that plans values it must not, and two operations on one resource at a time
  (Terraform's state lock prevents them). A move starts from the current version of its source.
- Not modelled of the state store: `list_states`, GetStates and
  ValidateStateStoreConfig (they change no state), the choice of a backend, the change
  of the root by ConfigureStateStore, and the percent-encoding of names, which needs strings.
- In `NestedDefaults` a default of an attribute that is no object is compared and merged whole: lists
  and maps whose elements are only partly known are not told from other scalars. What
  `cty_to_native` makes of a value is the value itself there; `StateConversion` is about that.
- Not modelled of the rest: the inference of a function's types from its annotations, attribute
  types beyond the element wrappers, the validators and descriptions of a schema, the counters of
  the metrics, telemetry, and the CLI's other commands, which print. None of them has state that
  outlives a call. The generated protocol code, msgpack, HKDF and AES-GCM are taken to be what they
  promise.

## 6. Disagreements between the code and its documentation

1. **Two waiters reclaim one stale sentinel** (`sentinel_reclaim`). `_discard_sentinel` unlinks by
   name, so the slower of two waiters removes the faster one's fresh sentinel.
2. **An RPC between discovery and setup is refused** (`startup_race`). The ready event is set
   before `setup()` has run, so the call fails with "initialization failed to complete".
3. **A failed hook leaves `_configured` set** (`configure_stuck`), if it had called super first:
   the retried RPC is answered with success and there is no client.
4. **An error that an ephemeral hook adds to its context is lost** (`ephemeral_errors`). The open,
   renew and close handlers do not put `ctx.diagnostics` into the response, as the handlers of
   resources and data sources do: Terraform sees a success.
5. **A default is lost in a set of blocks** (`defaults_lost`). Terraform proposes the prior value of
   an omitted attribute. In a set of several blocks the code then finds no configured element to
   pair it with, merges nothing, and the plan keeps the stale value, although `defaults.py:107` says
   that the configuration's default wins outright, prior state included.

Met while modelling, and left out of the models or excluded by a property, as named in section 5:

- State files: `_fsync_directory` swallows the error of a failed fsync, and the write is acknowledged
  (`filesystem.py:343`).
- Configuration: a hook that builds its client and then raises leaves it live.
- Moves: what a move hook returns is not held against the target's schema
  (`move_resource_state.py:173`).
- Lease: `handle.close()` flushes again, after the mutex is released, what `flush()` could not
  write (`_filelock.py:118`).
- Resources: an import does not null the write-only attributes (`import_resource_state.py:73`); a
  move within a type ignores the version of its source (`move_resource_state.py:46`), and passes an
  empty object for an identity that was never there (`:51`).
- Streams: a `CancelledError` raised inside of an action's hook ends the stream without a completed
  event (`action_handlers.py:165`); a listing that stops at its limit does not close its generator
  (`list_resource.py:125`), and the look-up of its schemas is outside of the try (`:174`, `:191`).
- Ephemeral resources: one that is opened without private data is never closed by its hook.
- Functions: GetFunctions lists test-only functions that a call then refuses
  (`get_functions.py:50`); a null before an argument moves the ones after it
  (`call_function.py:136`); `**kwargs` is advertised as a required parameter and dropped.
- Discovery: that the entry points cannot be listed is logged only (`discovery.py:46`); a strict discovery that the decorator tries again skips the modules its first attempt
  had come to; a schema that was cached before the test mode is on stays.
- Data sources: the validation does not ask for the test mode that the read asks for.
- Values: a set with a partly unknown element is compared whole and refused (`utils.py:422`); set
  elements that differ only in what they omit keep a stale value (`defaults.py:100`); a schema's
  marks reach only its top-level attributes.
- Schemas: `default` and `requires_replace` inside an element wrapper are dropped in silence
  (`factory.py:26`); `merge_schemas` compares attributes with attributes and blocks with blocks only,
  and always gives version 1 (`transforms.py:73`).
- Keys: `clear_cache` does not stop a derivation under way from storing its key, which stays right
  but stays.
- Installation: a failed copy leaves a part of the binary; `_is_module_launch` makes
  `EDITABLE_INSTALL` unreachable; nothing calls `_create_venv_symlink`; uninstall leaves the
  directories it made and binaries of another name.

## 7. Plan

Done: the file mutex and the state store from the system calls up, the server, the configuration,
one managed resource through its RPCs, its upgrades and moves; ephemeral resources, streams, data
sources, discovery and what is published, the keys of private state, the installation, and the
algorithms of defaults, refinement, conversion, function calls and schema declaration, proved at
every depth. What is left, in this order:

1. Compositions: `StateRpc` over `FsLease` and `StateFile` by refinement; the change of the root by
   ConfigureStateStore under a held lease.
2. Identities in `ResourceRpc`: the one a plan derives, and what apply makes of it.
