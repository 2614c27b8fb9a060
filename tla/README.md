# A verification of sqlrest

sqlrest serves directories of SQL files as HTTP interfaces. A *registry* owns a
workspace; each *database* in it is registered by a durable `database.toml`,
stored in an embedded Turso file (`data.db`) or in PostgreSQL, brought up to date
by migration files, and served while background operations publish, migrate or
unregister it. This directory holds TLA+ models of the parts that carry state
and concurrency, the TLC configurations that check them on small instances, and
proofs for all instances that TLAPS checks.

## 1. Inventory

| Component | State | Operations | Interacts with |
| --- | --- | --- | --- |
| `registry.rs` | `entries`; per database `State` (phase, record, config, invalid_record, resources, snapshot, active, current) behind one mutex; `Shutdown`; `FILE_CLAIMS` | `open`/`restore`, `publish` and its task `run_publish`, `unregister` and its task, `admit`, `export_migrations`, `shutdown`, status and operation queries | calls workspace and migration on blocking threads; hands executors and lifetime tokens to requests; `Notify` wakes the waiters |
| `workspace.rs` | `database.toml`, `data.db`, the directory, the workspace lock | `open`, `prepare`, `names`, `read`, `require_data`, `sync_data`, `persist`, `remove` | the file system: visible at once, durable only after a sync |
| `migration.rs` | migration files, `__sqlrest_migrations` | `Plan::load`, `validate`, `into_pending`, `Migrator::history`, `apply` | runs its SQL through the executor |
| `execution.rs` | `Control` (deadline, cancellation token), the lifetime token | `execute_tracked`, `prepare`, `response` | spawns the supervisor of a request; drives one of the drivers |
| `turso_driver.rs` | connection slot, `started` gate, weak reference | `run_request`, `request`, `cleanup`, the watchdog | blocking pool, the embedded database |
| `postgres_driver.rs` | client, connection task, `attempted` | `run_request`, `execute_transaction`, `cleanup` | a server session that keeps what was sent to it |
| `http.rs`, `main.rs` | stop token, listeners, handlers | `data_request`, `management_request`, `serve` and the ways it ends, `ServerLifetime` | registry; clients and a signal |
| `loader.rs` | none (a `Snapshot` is immutable) | `Snapshot::from_files`, `resolve`, the OpenAPI document | statements, parameters and contracts of its files |
| `sql.rs`, `params.rs` | none | `compile`; `Type`, `Parameter`, `validate_parameters` | a file becomes statements and the parameters they read |
| `schema.rs`, `response.rs` | none | reference cycles, column types, `Contract::new`, `Contract::record` | decodes the rows of the drivers |
| `error.rs` | none | the error value | used by the above |

The hard behaviours are:

* an operation is a task that runs beside the requests, and takes the mutex of
  `State` only for moments: everything it has read may change in between, unless
  phase, management slot and drain prevent it;
* the process may be killed, and the machine lose power, between any two steps;
  `database.toml`, `data.db` and the history table are then all that is left;
* each persistent step may fail definitely or with an unknown outcome;
* a request outlives its caller, its deadline, and possibly the patience of the
  code that cleans up after it; its worker may be scheduled arbitrarily late;
* COMMIT may take effect although its answer never arrives;
* those who wait (`drain`, `wait_operation`, `shutdown`) are woken by a `Notify` that
  remembers nothing, after the mutex of what they wait for was given back;
* others may remove, rename, link or replace `data.db` between any two system calls
  (`Database` has the removal, at any time; `FileClaims` has the rest);
* a client may send its body late or never, while its request is already counted.

What makes each component correct: *registry* — only a coherent, completely
migrated database is served, its schema never changes under a request, a failed
publication gives back what it found, operations and shutdown end; *workspace* —
a crash leaves a record that is true; *migration* — files are committed once, in
order, exactly as planned; *execution and drivers* — the reply is true of the
transaction, nothing happens after the lifetime is released, and a stopped
request ends; *http* — a server that has returned has left nothing behind, and no
client can hold it up; *interfaces* (loader, sql, params, schema, response) — a
statement binds the parameters written in it, a path is answered by the most
specific file, the OpenAPI document describes what is read, a schema is refused
exactly if its references run in a circle, and decoding a row gives back the record
that was stored. `PROJECT.json` lists the hazards with their lines and the
properties that watch them.

## 2. Modules

| Module | Models |
| --- | --- |
| `Database` | one database of a registry with its files, the process around it and its requests |
| `DatabaseInvariant` | the inductive invariant of `Database` |
| `Service` | what a database promises to its users, without phases, files or tasks |
| `DatabaseService` | the refinement mapping from `Database` to `Service` |
| `DatabaseProofs` | the proofs that the invariant is one, of the properties, and that `Database` implements `Service` |
| `Registry` | several databases, their operations, those who wait, shutdown, `Notify` |
| `FileClaims` | `FILE_CLAIMS` and the opening and closing of `data.db` under changes by others |
| `HttpService` | handlers, uploads and the end of the server, over a small registry |
| `MigrationPlan` | files, plan, history table and their comparison |
| `TursoRequest` | one request to the embedded database |
| `PostgresRequest` | one request to PostgreSQL and its server session |
| `Execution` | what `execute_tracked` promises for one request, whichever driver runs it; both request modules implement it |
| `Contracts` | cycles of references, column types, decoding |
| `Parameters`, `Statements`, `Routes` | types and input, `compile`, the files of a snapshot and `resolve`; each extends the one before |
| `Interfaces` | loads a file, the parameters of an endpoint or a snapshot, and sends one request to it |
| `RegistryProofs`, `FileClaimsProofs`, `HttpServiceProofs`, `MigrationPlanProofs`, `TursoRequestProofs`, `PostgresRequestProofs`, `InterfacesProofs` | for each of these modules its inductive invariant, and the proofs of its safety properties |
| `MCDatabase`, `MCMigrationPlan` | symmetry sets for TLC |
| `MCContracts`, `MCInterfaces` | the small sets of schemas, and of files, parameters and requests; a behaviour of `MCInterfaces` is one of `Contracts` or one of `Interfaces` |

Definitions keep the names of the code. In each module an operator whose comment
begins with "Defect" is a faulty variant of the definition that follows it; it is
not part of any specification, and serves to see that the properties can fail.

### Database

The variables fall into what survives the process (`toml`, `onCrash`, `dataFile`,
`history`), the registry's view (`registry`, `listed`), the fields of `State`
under their own names, and the locals of the one task that may hold the
management slot (`pc`, `request`, `adopting`, `claimed`, `previous`, `site`, `pending`,
`expected`, `fresh`). `inflight` says for each request slot what it was admitted
to. Four history variables record what the state does not show: targets with a
half applied batch, what was served when a publication was accepted, whether
somebody else removed `data.db`, and whether the opening under way has created a
`data.db` that is registered.

Every critical section of the mutex and every file-system call with a lasting
effect is one action. `run_publish` is the sequence

    Prepare, [Connect | ClaimFile, OpenDatabase, CheckHandle],
    (KeepTarget | ChangeTarget, Drain, [SyncData], persist, Adopted),
    Preflight, [BeginMigration, Drain, persist, Marked, Recheck,
    (StartFile, ApplyCommits, FileApplied)*, EndMigration, persist, Marked],
    Load, persist, Published, FinishPublish

with a failure at each point. `persist` is used at four sites, and `site` says
which one is under way: `Writing` is the record it writes. It renames
(`PersistRename`: the file is visible, and a power loss leaves the old or the new
one) and syncs the directory (`PersistSync`), fails before the rename
(`PersistFails`) or after it (`PersistUncertain`). `onCrash` is the set of contents
a power loss may leave; `sync_directory` makes it `{toml}`.

`open_resources` is used by a publication and by `restore`. For the embedded database it
is three steps: `claim_file` (which creates the file only where that is allowed), the
open of Turso (which creates whatever it does not find) and the comparison of the
handles. `LoseData` removes `data.db` at any time, between these steps and while the
database is in use; a process that has it open works on with the file that has no name
any more, so `history` keeps what is committed there until a new file is created.
`claimed` says that the path still leads to the file that was claimed. `restore` is
`ReadRecord`, `RestoreClaim`, `RestoreOpen` and its three ends (`OpenUnavailable`,
`OpenRecovering`, `OpenReady`), and may be killed between them.

Abstractions: an interface tree is the schema it was loaded for; a migration is its
version; limits are opaque; the contents of `data.db` are its history. Timeouts are
possible failures. A panic of a spawned task is not modelled.

### Service and its refinement

`Service` has five variables: what is committed in each target, which targets have a
half applied batch, which target is open, what a new request would be admitted to,
and what each request was admitted to. Requests enter what is offered (`Admit`) or
the open target (`Inspect`, an export); a target is switched or written to only while
nothing is offered and nobody is inside; only a target without a half applied batch
is offered; the embedded target becomes empty only while it is not open. `DatabaseService` maps `history`, `unfinished`, `resources` and `inflight`
to them; the offer is the snapshot and the limits while the phase is ready.

### Registry

`Registry` keeps of a database what its users can see: phase, whether it is open, the
count of requests, the current and the last operation. A wait is the loop of the code
in three steps (make a `Notified`, look under the mutex, await), for each drain, the
shutdown task and the callers. `armed` holds the `Notified`s that no
`notify_waiters` has reached; a change of state puts a call into `owed`, and
`NotifyWaiters` makes it later, since the code calls it after it has given the mutex
back. `journal` is a history variable: every operation with its outcome, of which the
code remembers two.

### FileClaims

Each system call of `claim_file` and `open_resources` is a step: opening the handle,
resolving the path, the comparison with the live claims under the mutex, opening
the database, the second look. Between them others relink files (`Relink`) and
directories (`Redirect`). `swaps` counts the changes while a database is being opened.

### HttpService

A data request is admitted before its body is read, so that it holds up a drain; its
upload and its parse run under what is left of its time limit, in ticks. Uploads of
publications have no limit but the stop token. The server ends by a signal, by a
listener that stops, or by dropping the future of `serve`, and then closes the
registry, cancels the token and joins the listeners. A connection that is kept alive
outlives its listener: requests come in until the stop token is cancelled
(`Connected`). The registry is reduced to the
admission, the count, one operation and the shutdown.

### Contracts, Parameters, Statements, Routes, Interfaces

Functions of their input, except for the search for cycles in `Contracts`, which is
modelled step by step with its stack. A loop of the code over the items of a file, the
names of a way or the columns of a record is a recursive function, one value per round.
`Interfaces` applies them: a file is compiled, a request is checked against the parameters
of its endpoint, a path is resolved in a snapshot. A schema is a graph of nodes with the
keywords that matter to the search and to the types; a source is the sequence of its
lexical items, among them parameters of the database's own syntax, which `compile`
refuses at three places. `compile` puts a generated name in the place of a reference and
tokenizes the text again; the tokenizer reads the name together with the digits and letters
behind it, so a reference carries a `tail` and `TokenOf` computes the number that is
found (`Glued`). Values are told apart as far as the types do. The properties compare
them with reference definitions: a cycle in the closure of the edges, the execution of
the items as they are written, the body that the schema of the document allows, the
minimum of the matching paths in the order of specificity.

### MigrationPlan

A file has a number, a label (the leading zeros and the description of its name)
and a text; a row adds the version and the checksum, which stands for the text it
was computed from. Others may edit files at any moment, since the plan owns its
bytes, and rows until the publication has looked for the last time. The numbers 0
and `MaxVersion + 1` stand for what is not a positive int64.

### TursoRequest and PostgresRequest

`TursoRequest` has four parties: the caller, the supervisor, the blocking worker
and the watchdog. `strong` is the set of those who keep the database open.
`PostgresRequest` has the client and the server session: what was sent waits in
`inbox`, is processed in order, and is lost at most from its end when the
connection breaks. The session follows the PostgreSQL protocol as the driver uses
it: a failed or cancelled statement breaks the transaction, COMMIT of a broken one
undoes it, and a session that has read to the end of its connection rolls back.

`Execution` has three variables: what has become of the transaction, the reply and the
lifetime. The transaction is decided once. After the reply it is decided only if `Late`
holds, and then a COMMIT takes effect only if the reply was "unknown". The embedded
driver implements it with `Late` false, the PostgreSQL driver with `Late` true, since its
server may work on; `Effect` maps the transaction.

## 3. Runs

| Run | Instance | Shows |
| --- | --- | --- |
| `database_safety` | one connection, two limits, two versions, one request; all interleavings, failures, losses and crashes | the safety properties of `Database`, and that it implements `Service` |
| `database_liveness` | one connection, one limit, one version, two requests | operations end |
| `database_recreated` | the same with one request | the first finding below |
| `registry_safety` | two databases, one caller, two operations, one request each | no wake-up is lost, answers are true, a shutdown is complete |
| `registry_liveness` | the same with one operation | every caller gets its answer |
| `file_claims` | two registrations, two paths, three files, three changes by others | two databases never work on one file |
| `http_service` | two data requests, one publication, a limit of two ticks | a server that ended has drained; time limits; nobody is held up by a client |
| `migration_plan` | versions 1 and 2, the bad numbers 0 and 3, two labels, two texts, two files, one row written by others | preflight agrees with its reference definition; completed publications and retries |
| `turso_request` | one request | the four parties in every order, and that they implement `Execution` |
| `postgres_request` | one request | lost, late and cancelled answers, and that they are within `Execution` |
| `postgres_released` | as above | the second finding below |
| `interfaces` | all graphs of four nodes with up to two edges each, 18,000 schemas of records; sources of up to four items of any kind, of five plain ones, and of nine to eleven references with a digit or letters behind the first; pairs of parameters with bodies two levels deep, up to three files with up to two segments | the search for cycles, decoding, compilation, the OpenAPI document and routing against their reference definitions |

Two versions are what a half applied batch needs, two limits what a reload of an
unchanged target needs, one connection beside Turso what a change of target needs,
two requests what a drain with more than one request needs (`database_liveness`; in
`database_safety`, of two million states, one request holds up a drain, and
`DatabaseProofs` has any number of them). Migrations of a
directory are compared pairwise, so two files and two versions show every relation
between a file and a row; a third row adds no new one. The requests of the driver
modules do not interact with each other.

In `Registry` two databases are what the order of the shutdown needs, and two
operations what replaces the last one behind a caller's back. In `FileClaims` a claim
is compared with one other at a time; three files let a path be replaced by a file
that no path had, three changes let both registrations be disturbed while they open.
In `HttpService` a limit of two ticks lets an upload leave something, nothing, or less
than nothing. In `interfaces` four nodes hold every shape of two overlapping paths with
a circle behind them; three files and two segments hold a static, a dynamic and a mixed
path for one request; five items hold two statements, a reference and what may
hide between them; ten references are what it takes for a digit behind one to make the
number of another.

`CHECK_DEADLOCK FALSE` is used where the system may stop: a request ends, a registry
or a server that was shut down stays so, an input is looked at once.

Findings, both disagreements between a text and the code:

1. `docs/registry.md` says a missing local file of a persisted registration "is never
   recreated, even on a publish retry". `turso_driver::open` creates what it does not
   find. When `data.db` goes away after `claim_file` has found it, the attempt fails at
   the comparison of the handles, but the empty file stays, and the next restart or
   publication takes it (`NeverRecreateData`). What the code does keep is
   `RecreatedDataIsRefused`: no other step creates a registered file, and the attempt
   that created it never uses it.
2. `docs/registry.md` says requests hold on "until actual execution and cleanup
   finish". `cleanup` of the PostgreSQL driver gives up after five seconds; the
   lifetime is then released while the session may still have statements, even a
   COMMIT, to execute (`ReleasedIsFinished`).

## 4. Fairness

`Database`: weak fairness of the steps of the task (tokio polls a spawned task
until it ends), of the end of each request (its time limit is validated to be
positive and finite, and `StoppedRequestsEnd` of the request modules shows that a
request out of time releases its lifetime), and of the shutdown task. No call from
outside is fair, and neither is a restart. Every step of the task that can fail may
fail, so no fairness is assumed of files or databases.

`TursoRequest`: tasks are polled and running threads go on. Nothing is assumed of
the pool that starts a queued job, of the deadline, or of a statement, except that
a statement ends once it has been interrupted or its own timeout has passed.

`PostgresRequest`: only the task of the request is fair, and the five seconds of its
cleanup end. The server owes nothing.

`Registry`: spawned tasks and the callers of `wait_operation` and `shutdown` are
polled, `notify_waiters` is reached after the critical section that owes it, and
requests end as above. A task chooses freely whether it succeeds, fails or drains.

`HttpService`: handlers, `serve` and the tasks of the registry are polled, time passes,
and an execution ends. Nothing is assumed of clients, of the blocking threads that
parse, of signals or of listeners.

## 5. Proofs

Every safety property that a passing run checks (every invariant, every action property
and both refinements) is also proved for all values of the constants. Each proof has the
same shape: an inductive invariant as a conjunction of named parts, one lemma per action
(or per group of actions that look alike) that it is kept, a theorem `Invariance`, and the
properties as consequences. The invariants were checked with TLC on the instances of the
runs before they were proved. The proofs about functions of their input are described under
*Interfaces* below.

| Module | Theorem | Shows |
| --- | --- | --- |
| `DatabaseProofs` | `Invariance`, `TypeCorrectness` | `Inv`, `TypeOK` |
| | `Coherence` | `ServiceIsCoherent` |
| | `SchemaStability` | `SchemaIsStableForRequests` |
| | `NoPartialBatch`, `Blocker` | `PartialBatchIsNotServed`, `BlockerCoversMigration` |
| | `Mirror`, `DataFirst`, `Durability` | `RecordMirrorsDisk`, `DataBeforeRecord`, `SuccessIsDurable` |
| | `ServiceKept` | `FailureKeepsService` |
| | `Progress` | `ProgressIsTruthful` |
| | `Quiet` | `ClosedIsQuiet` |
| | `DataKept`, `HistoryGrows` | the action properties `RecreatedDataIsRefused`, `ForwardOnly` |
| | `Implementation` | `ImplementsService` |
| | `OneSchemaForAll` | `EveryoneSeesTheSchema` of `Service`, in every state of a database |
| `RegistryProofs` | `NoLostWakeup` | `WakeupIsOwed` |
| | `Truthful` | `AnswersAreTruthful` |
| | `ShutdownComplete` | `ShutdownIsComplete` |
| `FileClaimsProofs` | `OneOwner`, `ClaimsExclude` | `OneOwnerPerFile`; that living claims share neither path nor file |
| `HttpServiceProofs` | `Drained`, `Budget` | `DrainedOnReturn`, `WithinBudget` |
| `MigrationPlanProofs` | `Prefix` | `HistoryIsPrefix` |
| | `Completed`, `Trusted` | `CompletedIsThePlan`, `NothingOnCorruptHistory` |
| | `Retry` | `RetryIsAccepted` |
| `InterfacesProofs` | `CyclesRejected` | `CyclesAreRejected` |
| | `UnambiguousDecoding` | that a cell of a column with types that are not ambiguous is decoded to what was stored |
| | `Decoding` | `DecodingIsFaithful` |
| | `Compilation`, `StatementsAreWritten` | what `compile` returns for a file; `StatementsBindTheirParameters` |
| | `Agreement`, `DocumentsMatch` | that document and input agree for a set of parameters; `DocumentMatchesInput` |
| | `Resolution`, `RoutesAreSpecific` | what `resolve` returns for a snapshot; `MostSpecificPathAnswers` |
| `TursoRequestProofs` | `NoLateWork`, `ClaimLasts` | `NoWorkAfterRelease`, `ClaimOutlivesDatabase` |
| | `Replies`, `RollbackUndisturbed` | `ReplyIsTruthful`, `RollbackIsNotInterrupted` |
| | `Implementation` | `ImplementsExecution` |
| `PostgresRequestProofs` | `Replies`, `CleanupFinal` | `ReplyIsTruthful`, `ConfirmedCleanupIsFinal` |
| | `Implementation` | `ImplementsExecution` |

### Database and Service

The assumptions are those of `Database`: Turso is not a connection string, versions are
positive, the request slots are finite, and `None` is none of the values it stands beside.

None of the properties is inductive alone. That a served database has no half
applied batch, for example, depends on what a crash may leave on the disk, which
depends on the step of the task at each moment of the batch, which depends on the
record in memory being the one on the disk. `Inv` says so part by part: `Slot` (the
task and the management slot), `Unlisted` (what an entry or process that is not
there cannot have), `Resolved` (configuration and resources are those of the
record), `Counted` (`active` counts the requests), `Sited` (what is established at
each persist call), `Drained` (when nothing is in flight), `Served` (what a ready
phase needs, also while `restore_admission` may still bring it back), `OnDisk` (the
file, and what a power loss leaves), `DataSafe` (`data.db`), `Planned` and
`Accounted` (the batch), `Kept` (what the publication found); together `Core`. `Restored`
(what `restore` may rely on before any call can come) and `Refused` (a file that went away
is not the claimed one, and one that was created in its place is in nobody's hands) are
about the opening of `data.db`, and `OpeningInv` shows that every step keeps them. `DataKept`
follows from `Refused`: whatever happens between two steps of `open_resources`, the
comparison of handles cannot succeed on a file that the opening itself created behind a
claim. The lemmas before the
actions are about what `persist` writes, the counting of requests, `finish`, the loss of
memory and `open`.

`Implementation` shows that every step of `Database` is one of `Service` or invisible to
it. It rests on `Inv`: `Drained` gives that nobody is inside when a target is switched or a
file committed, `Served` and `Resolved` that what is offered is the schema of the open
target, `OnDisk` that a restart finds no half applied batch behind a record without a
marker, `Unlisted` that a process that is down has no service. A
`data.db` is only created while it is not the open database (`Sited`, `Restored`), so to
the service it is `Lose`: the embedded target is empty, and nobody is in it. The assumption beyond those of `Database` is that `None`
is not an offer. `OneSchemaForAll` says what this is good for: the steps of the service
keep every reader and the offer on the schema of the open target as it is.

### Registry

For any set of names that are natural numbers (the code's map is ordered by name; only
the order matters), any callers and bounds. `Shutdown` is not a name, no caller is called
as one of the internal waiters, and `None` is none of the values it stands beside.

A wake-up could be lost between a look at the state and the await, or between a change
of the state and its `notify_waiters`. `WakeupIsOwed` is inductive only with what the
looks depend on: `Slots` (the slot and its task), `Recorded` (`current` and `last` are
the end of the journal, so that an operation a caller knows of is one of the two or older
than both), `Called` (a caller waits on the `Notify` of what it asked about) and `Closing`
(after `start_shutdown` nothing begins, so what was found quiet stays so, and what was
retired stays retired). That the shutdown task has a next database at all uses that a
nonempty set of names has a least one.

### FileClaims

For any registrations, paths, files and natural number of changes by others; `None` is
neither a file nor a path. `Exclusive` says that the claims that are alive share neither
path nor file, `Traced` what is known of the file behind the path at each step: nothing
was changed, or it was changed once and then the second look fails. `OneOwnerPerFile`
follows for registrations with at most one change while they were opened. With two the
path may have been swapped and swapped back, which neither look of the code can see.

### HttpService

For any requests and publications and any positive limit. Admission is closed before
anything else is stopped (`ClosedFirst`), the shutdown ends when nothing is left and
nothing comes after it (`NothingAfterShutdown`), and `serve` returns after it
(`ReturnsLast`); a request that was given time uses up no more of its limit (`GivenOnce`).

### MigrationPlan

For any labels and texts, any set of natural numbers in file names, any bounds, and edits
by others. The order of rows is a sequence chosen to be ascending by version
(`ByVersion`); that there is one, and only one, is proved by looking at a smallest
counterexample, which needs no induction over an operator. `PlanIsSplit` says that the
plan is the history and after it the pending files, all of them newer; a step moves the
border. `SettledIsPrefix` says that while nobody edits files or rows the table holds the
first files of the directory, which is what makes a retry acceptable. `HistoryIsPrefix`
then is a statement about two ascending sequences over the same set.
`NothingOnCorruptHistory` includes that the version of every trusted row is a positive
int64, which is where the conversion of a row's file name is needed.

### Contracts

For any finite or infinite set of schemas whose references lead to locations of the
schema (`SchemasAreGraphs`: `normalize` has resolved them before the search). The
invariant is that of a depth-first search with an explicit stack: the active nodes are those
entered and not left, in the order of a way through the graph, what a node leads to is
visited before it is left, no node is forgotten, and every nonempty set of complete nodes
has a member that does not lead into the set. The last part says that there is no cycle
among them without a word about ways, so that no induction over the length of a way is needed
when a node is left.

`Decoding` is about the schemas that the search lets pass. The types and columns of a node
are computed by recursion into what it refers to, at most as deep as there are nodes.
`TypesSound` and `ColumnsSound` say, by induction on that depth, that a record which
satisfies the schema has in each column a value of the column's types; `Contract::new` refuses
columns that are ambiguous, and for the others `UnambiguousDecoding` gives the value back.

### Interfaces

For any files of lexical items (`SourcesAreLexical`), any finite sets of parameters with
the types that `Type` can have (`ParametersAreTyped`), any finite snapshots of files
(`SnapshotsAreFiles`), any methods, any requests whose segments are texts
(`PathsAreTexts`), and anything that may be sent to an endpoint. These say what the
parsers before the modelled code hand over; none restricts length, depth or number.

The functions are recursive, and the library's induction takes an operator, which the
provers cannot instantiate. The proofs induct over *sets* of numbers instead:
`Induction` (a set that holds 0 and with i also i + 1, up to n, holds 0..n) follows from the
least number principle, and needs no operator. For each recursive function a lemma
(`ScannedRecursion`, `CutRecursion`, `BindingsRecursion`, `AlongRecursion`,
`InsertRecursion`, `TypesRecursion`, `CollectRecursion`) first shows that a function
with its equation exists; the set then holds the numbers up to which an invariant of the
loop is true.

* *compile* passes twice over the file. A file that is compiled has only references that
  stand alone and only native parameters that are operators (`CompiledIsClean`): a token
  of the other kinds stops the second pass, and so does a number that is none of the
  file's references (`PassedHolds` carries what has been let through along the tokens).
  The premise is that the digits behind a reference do not make the number of another one
  (`Confused`); see section 6. For files that are `Clean` the tokens are those the first
  pass has written. `ScannedInv` says what the first pass has
  written after i items: a token for each, an internal name for each reference that counts
  the references of the whole file, and the text of the current statement with numbers of
  its own. `CutInv` says what the second pass, which cuts the tokens at semicolons and
  looks up the internal names, has made of them. The two passes cut and count
  independently; the heart of the proof is that they stay aligned: the second one is at the
  text that the first one is writing (`next`), the parameters it has bound are those of the
  current statement in the order of their numbers (`CutBound`), and no reference is lost
  between statements (`CountInv`). `PartAgrees` says that at its end the tokens of a
  statement are accepted exactly if what is written may be. `Compilation` compares the
  result with the file as it is written.
* *the document* is built by inserting the parameters in their order. `Documented` says
  that after each the document has exactly the ways of the parameters so far, objects on
  the way and types at the ends. `validate_parameters` has refused a way that is the
  beginning of another one, which is what keeps `InsertBody` from its panic.
* *resolve* takes the first match of a sorted list. `SortedExists` shows that a finite
  set with a total order can be listed in it, `BeforeOrders` that `Before` is such an
  order, `BeatsIsBefore` that it agrees with specificity on paths that match the same
  request, and `EqualsHaveOnePath` that paths which tie are one path, since `from_files`
  has refused those that differ only in the names of their parameters.

### TursoRequest and PostgresRequest

These have no constants, and the runs go through all their states; the proofs say why. For
the embedded driver: the worker is waited for exactly if it has marked itself behind the
gate (`Gate`), and one that was not waited for will find the request stopped before it
touches anything (`Abandoned`); `Keepers` says who holds the database open, `Transaction`
relates transaction and outcome at each step, `Watched` says that an interrupt is only
pending while a statement runs. For PostgreSQL: one message at a time, each into a
transaction that is still open (`Working`, `Committing`); the answer that `cleanup` waits for
is that of a ROLLBACK behind everything else (`Cleaning`); before COMMIT is attempted none
is in the session (`Undecided`); what the client leaves with (`Leaving`).

Both drivers implement `Execution`. For the embedded one this needs that a connected worker
has not been answered for (`Abandoned`) and that an ended transaction is never begun again
(`Transaction`). For PostgreSQL one more fact is carried along, `Once`: BEGIN comes first
and into a fresh session, so that nothing reopens a transaction that was decided, and the
lifetime is released when the task has ended.

`TypeOK`, `ReplyIsTruthful` and the inductive invariants are proved, so no run checks them.

### Model-checked only

The liveness properties (`OperationsEnd` of `Database` and of `HttpService`,
`CallersReturn`, `StopEndsHandlers`, `StoppedRequestsEnd`), since fairness is out of the
prover's reach, and the two properties that are violated (section 3).

## 6. Not modelled

Not modelled:

* conversions of text: the scanning of quotes and comments in `sql.rs` (its scanner is
  assumed to find the items that the tokenizer of sqlparser finds), the decoding of
  query strings and bodies in `params.rs`, `normalize` with anchors and identifiers in
  `schema.rs`, the YAML of contracts, TOML and path validation in `workspace.rs`;
* what only reads: the status, list and operation routes, the OpenAPI document except
  for request bodies, names of operations and their collisions, the digest;
* values: the binding of inputs to driver values, the encoding of results, error codes,
  status codes and headers;
* a panic of a spawned task;
* the pool, tokio, the file system, the JSON Schema validator and the databases beyond how
  the code uses them.

Limits of what is shown:

* `${a}0` in a file with ten or more references becomes `$sqlrest_internal_1` followed by
  `0`, which is the name of the tenth reference. The count of `sql.rs:200` and the test of
  `sql.rs:258`, which refuse such a reference in a shorter file, then both pass; the
  statement that is sent has `$10` where `${a}` followed by `0` was written. The model has
  it (`Confused`, and such files are among `LongSources`); `StatementsBindTheirParameters`
  claims that compiled files are well formed for all other files. What well formed files
  are compiled to it claims without exception;
* a schema with both `anyOf` and `oneOf` at one node: `Contracts` has one union per node,
  the code takes the branches of both;
* the handlers of the OpenAPI document and of the export of migrations wait for a blocking
  thread without a look at the stop token (`http.rs:326-339`); they are not modelled, and
  `StopEndsHandlers` speaks of data requests and publications only;
* `Registry` does not keep `invalid_record`: after a publication whose record may or may
  not be written it allows the next one, which the code refuses until the restart.
  `Database` has it;
* replacement of `data.db` by another file is in `FileClaims` only; `Database` has its
  removal;
* a file that is swapped and swapped back while a database is opened escapes both looks
  of `open_resources`; `OneOwnerPerFile` says so in its premise;
* the schema of an `int64` in the OpenAPI document allows 1.0, since JSON Schema does not
  tell it from 1, and the parameter is refused; `DocumentMatchesInput` compares up to
  that;
* in `Database` a COMMIT of a migration whose answer was lost takes effect before the
  failure is reported or never. One that lands after a later publication has read the
  history is not shown;
* the budget of a migration batch is a possible failure at the points where it is
  tested, not an amount of time.

What would come next:

1. a late COMMIT of a migration: `PostgresRequest` composed with `Database`, through
   `Execution`;
2. the deadlines of a migration batch, as arithmetic.
