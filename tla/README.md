# Verification of snowrig

TLA+ modules for snowrig's own logic: finding a profile and a connection,
ordering a manifest's objects, deciding what differs and what is destructive,
applying the difference to a live Snowflake account that other people use too,
running transactions, and serving queries to many callers at once. TLC checks small
instances, TLAPS proves the central guarantees for every instance. Paths are
relative to the repository.

    tlc -config DependencyGraph.cfg MCDependencyGraph.tla
    tlapm DependencyGraph_proofs.tla

## The system

snowrig is a sequential program around one connection. A directory of YAML files
says what a Snowflake account should contain; `plan` shows the difference and
`apply` removes it. Nothing is persisted: every run starts from the manifest and
the live account. Beside that there are commands that run SQL, and a small HTTP
server that runs queries for others.

| Component | State | Operations | Correct means |
|---|---|---|---|
| Manifest objects (`manifest/schema.py`) | none | scope, key, implicit dependency | a key identifies an object, overloads included |
| Loader (`manifest/loader.py`) | none | read `*.yaml`, then `*.yml`, sorted | every file becomes an object or an error |
| Dependency graph (`manifest/graph.py`) | counts and the ready list, inside one call | `build_apply_order` | every object once, prerequisites first, stable; an error only for a reason |
| Datatype comparison (`manifest/diff.py`) | none | normalise, compare, is it narrowing | equal types lose nothing, a loss is flagged |
| Plan (`manifest/diff.py`) | the list of changes | fetch and diff each object | tells every difference, changes nothing |
| Apply (`manifest/diff.py`) | results, place in the plan | execute, block, dry run, stop on error | gate, accounting, convergence |
| Core object client (`resources/core_client.py`) | none (the account is behind it) | `fetch`, `create_or_alter` | columns kept in order, new ones last |
| Command line (`cli/main.py`) | none | eight commands | exit codes tell what happened |
| SQL runner (`sql.py`) | the session's context and transaction, in the connection | `run`, `run_query`, `run_transaction` | a transaction is all or nothing |
| Session (`__init__.py`) | the connection and who owns it | enter, exit, plan, apply, query | every connection it opened is closed, none it was given |
| HTTP server (`api/server.py`) | connection per profile | query, test-connection, profiles, health | a dead connection is replaced, a live one kept |
| Profiles (`config.py`), connection (`connection.py`) | none (the environment and a file) | `load_profile`, `load_profiles_from_file`, resolve the key, `connect`; `init` writes one | exactly one key, that is there |
| Diff rendering (`manifest/diff.py`) | none | rows, window | shows every difference |
| Registry (`resources/core_registry.py`) | none | look up a class | a table |

How they interact. The command line calls `Session.plan` or `Session.apply`;
that loads the manifest, orders it, has `compute_plan` fetch every object in that
order through the core object client, and has `apply_plan` execute the changes
through the client or, for `sql:` objects, through the SQL runner; results go
back as (change, error) pairs from which the command line computes its exit
code. The SQL commands and the server call the SQL runner directly.

What is hard. One run of snowrig has no threads, but its requests are spread over
time and the account is shared. Between the fetch a change is computed from, the
second fetch that orders its columns and the write, others may change the same
object. A request may be refused, or executed with its answer lost. The process
may die between any two requests. Failures, blocks and dry runs share one loop
with early exits. Datatypes are compared as texts although what matters is the
values they hold. A transaction is several requests on a connection whose context and
autocommit outlive it, with two clean-up requests that may fail themselves. The server
handles requests concurrently, with one cache and no lock.

## Modules

**ManifestSchema** – `ObjectKey`, `ManifestObject`, its scope, key and implicit
dependency. Labels are atoms in sequences (a qualified name is the sequence of its
parts), so what depends on dots inside an identifier is not seen.

**ApplyOrder** – the abstract specification of ordering: objects are placed in any order
in which prerequisites come first; a manifest that cannot be read, or of which all that
is left waits for something that is left, is refused. No counts, no lists.

**DependencyGraph** – `build_apply_order`. `objects` is any sequence from the
constant `Manifests`; `BuildPlanNodes` is `build_plan_nodes`, with its two
refusals `MissingKeyPart` and `MalformedDependency`; `CountPrerequisites` sets
up `in_degree` and `ready`; each `ProcessReady` is one turn of the while loop
(sort, pop, decrement the dependents); `ReturnOrder` and `RaiseCycle` end it. It
implements ApplyOrder: `Verdict` is the refinement mapping, building the nodes and
counting are stuttering steps, and each `ProcessReady` places one object.

**Datatypes** – `_normalize_datatype`, `_parse_datatype` and
`_is_lossy_datatype_narrowing` as operators. A datatype is a family, its parameters
and where spaces were typed, because the code compares texts.

**SnowflakeTypes** – external: the type Snowflake keeps for a declaration and the values
it holds, what the code's verdicts are held against. It has a table of shorthand of its own
(`Documented`), from Snowflake's documentation and with the default for `TIMESTAMP`; of
Datatypes it takes the form of a type and nothing else, so a wrong line in
`_DATATYPE_DEFAULTS` shows.

**ColumnsDiff** – a table's columns, or a text, through the plan. `CompareColumns` is
`_diff_list_field`; `CompareTexts` is `_values_match`, which compares two texts whole and in
lower case, the newline at the end included, and the choice of `FieldDiff.render` between one
line and many. `Render` is the rows of `_render_list_diff`, `Window` the context window. difflib is external:
`Alignments` allows any pairing of equal names that is increasing and cannot be extended,
which includes the one difflib chooses. The lines of a text are
items with a name and nothing else, without what ends the last one.

**PlanApply** – the whole of plan and apply. `Start` is an invocation with any
options; `PlanSql`, `PlanExisting`, `PlanNotFound` and `PlanFetchFails` are the
branches of `compute_plan`, one object a step; `ReportPlan` ends the plan command.
Every branch of `apply_plan`'s loop is an action: `ReportFetchError`, `SkipNoop`,
`Block`, `WouldApply`, and for a change that is executed `Prepare` (the second
fetch and the order of the columns) followed by `WriteSucceeds`,
`WriteAnswerLost` or `WriteRefused`; `PrepareFails` stands for every failure
before the request. `Exit` computes the exit code. `Drift` is somebody else
changing an object, `Crash` kills the process; it can be started again. The
write itself (`Execute` and what it uses) is the database and external: columns that
were not sent are dropped, new columns are accepted at the end only, an object
without `create_or_alter` and a `CREATE OR REPLACE` begin from nothing. An object
has one scalar `setting` and its columns. `seen` in a change, `undisturbed` and `settled`
are history: the code keeps none of them, the properties need them. Only tables have a list of columns
here; the list of another class takes the same path.

**SqlCalls** – what a call of the SQL runner is: a method, the context it names, statements
of which some are DDL and commit by themselves.

**AtomicCalls** – the abstract specification of a connection: a call's effects become
durable from one boundary to the next, all at once, then it returns or fails; only an
*exposed* call, one whose clean-up was cut short, may leave a part.

**SqlRunner** – the runner request by request: `USE`, `autocommit(False)`, the statements,
`commit()`, and on an exception `rollback()`, and at last `autocommit(True)`. Each request
is answered, refused, or executed with its answer lost, and at each an interrupt may come
(`BodyRaises`, `RollbackRaises`, `RestoreRaises`); an interrupt is no `Exception`
and skips the rollback. `run`, `run_query`, `call_procedure` are the same path under
autocommit. Several calls share one connection. `Report` is what `snowrig transaction`
prints. The session at the other end (`Execute`, `ExecuteCommit`, ...) is external: it
has a context, autocommit, pending and durable effects, `USE DATABASE` sets the schema to
the database's default, and switching autocommit either commits what is open or leaves it
open: the properties hold both ways.

**Profiles** – `load_profile`, `load_profiles_from_file`, the checks of `Profile`,
`resolve_private_key_pem`, `resolve_passphrase`, what `connect` does before its request,
and the document `init` writes. A value is there or not; a result is "ok" or the class
of the exception.

**ManifestLoader** – which files of a directory are read, in which order, what is refused.

**Session** – a process from its start to its end, built from those two: `__enter__`
(`EnterGiven`, `EnterByProfile`, `ReadProfile`, `Connect`, `ConnectFails`), a call
(`StartCall`, `LoadFile` for one manifest file, `OrderObjects`, `Work`), `__exit__`, the
commands with their known errors (`Told`), `serve` up to its application, `init`. A
program of one's own enters, calls, leaves and catches as it likes, within
`MaxEnters` and `MaxCalls`. exec and fetch hold their connection in a `try`/`finally`
instead of a `with`; that is a block here too. `Work` is where PlanApply goes on.

**ServeApi** – the two handlers that use a connection, `query` and `test_connection`, as
threads. A step is what a handler does between two points where another may run: the look
at the cache, opening a connection, storing it, the statement, the look at `is_closed()`,
the eviction. `GoesBad` closes a connection, or kills it so that `is_closed()` says
nothing. `alone` and `closed_before` are history.

**DependencyGraph_proofs**, **PlanApply_proofs**, **PlanApply_run_proofs**,
**SqlRunner_proofs**, **ServeApi_proofs**, **Session_proofs**, **ColumnsDiff_proofs** –
theorems, see below. **NumberSets** – the first and the last of a set of numbers, and recursion
along numbers, for them.
**MC...** – the instances for TLC.

How they compose. Session ends where PlanApply begins, and hands it an order only if every
file was loaded and `build_apply_order` returned (`WholeManifest`); that order is what
DependencyGraph proves things of (`PrerequisitesFirst`). PlanApply then keeps the order:
with stop-on-error it writes an object only when all earlier ones exist
(`EarlierObjectsExist`). Together, for unique keys and
while nobody else interferes: no object is written before everything of the manifest that
it depends on exists. The two halves meet in the sequence of objects alone, so the argument is this
paragraph and not a module.

Each module holds, just before an operation, the faults of that operation that a
property must catch ("Fault: ..."). No action uses them.

## Runs

| Run | Module, configuration | States | Shows |
|---|---|---|---|
| `graph` | MCDependencyGraph, DependencyGraph | 69 995 | order, completeness, stability, justified errors; implements ApplyOrder |
| `graph_duplicate_lost` | DependencyGraph_dup_lost | violation | of two files with one key one is dropped |
| `graph_without_schema` | DependencyGraph_no_schema | violation | a table before its database |
| `columns` | MCColumnsDiff, ColumnsDiff | 226 094 | what is flagged, what is called equal, what is shown |
| `columns_precision` | ColumnsDiff_precision | violation | NUMBER(38,0) to NUMBER(4) is not flagged |
| `apply` | MCPlanApply, PlanApply | 240 927 | gate, accounting, order on the wire, convergence, exit codes |
| `apply_empty_error` | PlanApply_empty_error | violation | a failure with an empty text exits with 0 |
| `apply_drift` | PlanApply_drift | violation | a column the plan never saw is dropped ungated |
| `transaction` | MCSqlRunner, SqlRunner | 417 100 | context, atomicity, clean connection; implements AtomicCalls |
| `transaction_report` | SqlRunner_report | violation | what is durable is reported as rolled back |
| `serve` | MCServeApi, ServeApi | 329 892 | own account, reconnection, no needless eviction |
| `session` | MCSession, Session | 1 208 278 | connections closed by their owner, whole manifests, one key, known errors |

*Bounds.* `graph` explores every dependency relation of three objects, every one
of four with at most two prerequisites each, the hierarchy of database, schema,
tables, views and overloaded procedures in every order of its files, and manifests
that are refused: cycles of every length up to four, diamonds and disconnected
parts all occur. `columns` takes every pair of about fifty types: every line of the code's table, other shorthand,
aliases and parameters at, below and above each other (`Holds` compares lengths and
digits on a set of sizes around each boundary); every live table of up to three columns
against every list of as many, a name given twice included; every two texts of up to three
lines, lines that are repeated or equal but for case and a newline at the end or none included; and every edit of a table of seven columns, long enough for two windows of two to touch or not. `apply` has a procedure, a table
whose manifest shortens one column and puts a new one first, and a stage; the table
is missing, as declared, without the new column, with a column too long or with
one too many. `MaxRuns = 2` gives a run after every failure, crash or lost answer;
`MaxDrift = 1` puts one change of others at every point of both runs. One change is
enough to make any one of the three looks at an object stale, and all objects but
one are independent of it. With `ErrorText = {"reason"}` every error has a text, which
is what `ExitCodeTells` needs: `apply_empty_error` shows it fails otherwise.
`transaction` makes two calls on one connection, so that each way to end is followed by
each way to begin; `serve` has three requests of two profiles, the fewest in which one
evicts the connection of a second that a third is using; `session` allows two blocks, hence one
inside the other, and two calls, every combination of eight environments, fourteen
configuration files and eight directories, each wrong in one way or right.

*Properties of `apply`.* `GateHolds`: without `--allow-destructive` a write drops no
column the plan saw and narrows none that is as the plan saw it. `ReadOnly`: plan and
dry run change nothing. `ResultsFollowPlan`: each change that is not a no-op has its
result, in order; only a failure under stop-on-error ends the list early, and it always does. `WireOrderAcceptable`: the database never refuses
a column for its place. `NoNeedlessWrite` and `SettledMeansApplied`: when nobody interferes
only what differs is written, and after exit 0 nothing differs, whatever was lost or
killed before. `ExitCodeTells`: after 0 every due change has a result without an
error, after 1 some change failed, after 2 none failed and a destructive change was held back
for want of `--allow-destructive`, as snowrig's README says.
`EarlierObjectsExist`: with stop-on-error, and while nobody else interferes, everything
earlier in the plan exists when an object is written.

*Properties of `columns`.* `NarrowingLoses` and `UnflaggedLossIsByScale` hold
the verdict against the values: a column is blocked only with a reason, and a loss is let
through only where a NUMBER's scale grows; for lengths that makes the verdict exact.
`UnchangedIsTheSame`: a column called unchanged has the very type Snowflake would keep for what
is declared. `RowsRebuildBothSides`: the rows without what is added are the live items in their
order, without what is removed the desired ones.
`DifferencesAreShown`: whatever would be dropped, changed or added is among the lines, for any
window. `OnlyDifferencesOrMoves`: a line that is marked is a difference, or a column
that moved or is there twice. `WindowIsExact`: exactly the rows further than the window from any change are
left out, and counted; where no row is a change, as for texts that differ in a newline at the end,
all of them are shown.

*Properties of `transaction`.* `OwnContext`: a statement runs in the context its call names,
whatever was left behind, and in the default schema of a database named without one.
`AllOrNothing`: at no time is a part of a call durable, DDL aside, unless its clean-up was
cut short (`exposed`: an interrupt, or a rollback that raises, before `autocommit(True)`,
which then commits what is open). `CleanBetweenCalls`: the next call finds autocommit on
and nothing open, with the same exception. `ImplementsAtomicCalls`: each request is a
step of AtomicCalls or none, and every call ends.

*Properties of `serve`.* The code promises little here and the properties say exactly how much.
`OwnAccount`; `NextRequestReconnects`, the comment at `server.py:127`;
`UsableConnectionIsKept` and `NoConnectionIsLost`: an open connection leaves the cache,
or is lost without being closed, only by a test that failed or when two requests of one
profile met, and both do happen.

*Properties of `session`.* `ClosedByTheirOwner` (a given connection is never closed, another
is left open only by entering a session that is open already) and `WorksOnOpenConnection`; `WholeManifest`;
`OneKey`, for a connection that was opened; `BadProfileIsTold`, snowrig's README on exit
1: no file, no such profile, no user, not exactly one key, two passphrases, a key or passphrase
that is not there, be it the environment's profile or the file's. It leaves out what ends in a
traceback, see the disagreements.

*Deadlock* is not checked where the program stops: after its only result, or when the
bounds on runs and drift are used up.

*Fairness.* Only the two refinements need it, for the progress their abstract specifications
promise: `DependencyGraph` assumes weak fairness of its own steps, a computation that waits for
nobody, and `SqlRunner` of `Step`, a request that is made and comes back in one way or another.
snowrig's `connect` sets no timeout, so that a request comes back rests on the connector's own defaults.
Nothing is assumed of users, of callers, of other users of the account, or of crashes, and no outcome
of a request is preferred. Safety properties use no fairness. That the loops and handlers of the
other modules end is not stated: they are straight-line code around `for` loops over finite lists.

## Disagreements found

The violation runs above are disagreements of code and documentation, quoted in
`PROJECT.json`. Others that were met while modelling and have no run of their own:

- with duplicate keys a prerequisite can come late, and a duplicate of an object with a
  prerequisite is reported as a cycle without members (`graph.py:86`, `:90`);
- the error for a cycle also lists objects that only wait for it (`graph.py:91`);
- `DependencyError` is said to be raised for references to objects that are not in the
  manifest (`graph.py:15`); they are dropped, deliberately (`graph.py:51`), and so is one that
  is misspelt;
- NUMBER(10,2) to NUMBER(10,4) loses whole digits and is not narrowing (`diff.py:152`;
  `UnflaggedLossIsByScale` says that it is the only such loss);
- shorthand with a parameter, CHAR(3) or NUMBER(4), differs from the type fetched for it
  on every plan (`diff.py:100`);
- a scalar or a text that changed in case only is never applied (`diff.py:434`), and a text that
  differs in a newline at the end only is a difference shown without a marked line (`diff.py:289`);
- equal columns that moved are rendered as removed and added, though comparison and
  rendering "can never disagree" (`diff.py:157`);
- a changed scalar of a class without `create_or_alter` replaces the object and what it
  holds, ungated (`core_client.py:226`);
- snowrig's README promises one line for a bad profile or credential; exec, transaction and
  fetch call `connect` outside their `try`, so a missing key is a traceback (`main.py:79`,
  `:108`, `:133`), and so are, for plan and apply too, a configuration file that is empty, invalid, not
  a mapping or has a null `profiles:` (`config.py:161`, `:182`), an unknown field, a key that cannot be decoded and a manifest that is a bare number; serve
  guards nothing of `build_app` (`main.py:330`);
- a query whose connection cannot be opened is answered with the framework's 500, not with
  the 400 and the text other failures get (`server.py:122`);
- entering one session twice leaves the first connection open and makes the outer block's
  calls fail with "Session is not open" (`__init__.py:116`);
- an interrupt, or a rollback that fails, followed by `autocommit(True)` may commit a part of a
  transaction (`sql.py:72`), though "all commit together, or none do" (`sql.py:60`).

## Proofs

*DependencyGraph_proofs* (for manifests of any size): `TypeCorrect`; and, for manifests
whose keys are unique, `OrderRespectsPrerequisites`, `OrderIsStable`,
`OrderIsPermutation`, `CycleErrorIsJustified` and `PlacingIsImplemented`. None of them is inductive alone. The
invariant `OrderInv` says what the loop's variables stand for: `in_degree` of an object is
the number of its prerequisites not yet processed, `ready` holds exactly the unprocessed
objects whose count is zero, and an object that was overtaken is waiting for something.
From it each property follows: what is popped has count 0, so its prerequisites are in
`ordered`; when `ready` is empty what remains waits for something that remains.
`PlacingIsImplemented`, that every behaviour is one of ApplyOrder, rests on the same
invariant: a popped object is placeable (`ProcessPlaces`), and when none is ready none is
placeable, so an error is a justified refusal (`NothingReadyNothingPlaceable`); that both
specifications read the same prerequisites off a manifest is `PrerequisitesAgree`. Keys stay
abstract. Uniqueness is needed: the violation run shows what happens without.

*PlanApply_proofs* (for every manifest, account, set of datatypes and any behaviour of
others): `TypeCorrect` and `GateIsKept`, which is `Spec => GateHolds`. The gate is a
statement about a write, decided two steps and possibly several changes of others after the
facts it rests on, so the invariant `GateInv` carries them: every change of the plan that
will be executed names each column it saw and would drop, and each it saw and would cut
(`Examined`); and the change about to be written was let through and sends exactly the
declared columns with their declared datatypes (`Ready`), whatever the second fetch
returned. Assumptions are `ConstantsAssumption`: a well-typed manifest with unique keys, a
finite set of column names, a database that keeps a declared type as some type, and
`Absent` and `None` that are told from records and texts.
What narrowing means stays opaque, only that equal types are never narrowed is used.

*PlanApply_run_proofs* (the same constants): what a whole run does, for any number of runs,
crashes and changes by others.
- `PlanInvariant`: to `GateInv` it adds that the plan is the manifest object by object, that
  the loop begins with all of it, and that only a real apply gets to write (`PlanInv`).
  `ReadOnlyAlways` follows from it step by step.
- `ResultsAlwaysFollow`: `ResultsFollowPlan` is inductive on top of it, once it says for each
  place of the loop which results are due (`Due`, `Follows`, `StoppedEarly`).
- What holds while nobody interferes needs to remember what was looked at. `FoundInv`:
  from the loop's place on, each object is as the plan's fetch found it; that is where unique
  keys are needed, for a write must not disturb what the plan says of another object.
  `WireInv`: the columns to be sent are ordered by those there are. `EarlierInv`: with
  stop-on-error all objects the loop has passed exist. They give `NoNeedlessWriteAlways`,
  `WireOrderIsAcceptable` (for any two lists of columns) and `EarlierObjectsAlwaysExist`.
- `ExitCodeAlwaysTells` rests on `BlockedInv`: a result that says blocked belongs to a
  destructive change of the plan. It has the hypothesis `ErrorsHaveText`, that no exception's text is
  empty. It is not an assumption of the model: the run `apply_empty_error` is what happens
  without it.
- `SettledIsApplied`: exit 0 of an undisturbed run means that every object is as declared,
  by `AppliedInv` (what the loop passed is as declared, or a result tells). Beside
  `ErrorsHaveText` it has the hypothesis `StoredIsDeclared`: what the database keeps of a
  declared datatype does not differ from it. That fails for CHAR(3), see the disagreements;
  the instance of the run meets it.

*SqlRunner_proofs* (any calls, any number of them, any statements): `TypeCorrect`,
`ContextIsOwn`, `TransactionsAreAtomic`, `NextCallIsClean` and `RunnerIsAtomic`. The
context is set by up to four requests, of which `USE DATABASE` undoes a part of what is
known: `ContextInv` says, for the request the call has come to, which fields are set
already. For atomicity `PositionInv` and `OutcomeInv` tie the place in the call to what has
become of it, and `CallInv` says, while no clean-up was cut short, where each effect
is: behind the last boundary durable, after it pending, and none pending when autocommit is on.
`RunnerIsAtomic` is `Spec => Atomic!Spec`, the safety half of the refinement:
every request is a step of AtomicCalls or leaves its variables alone.

*ServeApi_proofs* (any finite set of requests, any profiles, any number of connections and
of failures): `TypeCorrect`, `OwnAccountAlways`, `ReconnectsAlways`, `UsableIsKept`,
`NothingElseIsLost`. `CacheInv` and `HandlerInv` tie a cached or held connection to the
profile it was opened for, `ClosedInv` says that a handler past its look at the cache has a
connection that was open after it began. The last two rest on `NobodyMet`: a handler that
no other request of its profile met has its profile's cache entry to itself, so what it
evicts is its own; `AloneInv` marks both of two that meet.

*Session_proofs* (every environment, configuration file and directory, any nesting of
blocks): `TypeCorrect`, `OwnersClose`, `WorksOnOpen`, `ManifestIsWhole`, `ExactlyOneKey`,
`BadProfilesAreTold`. `ClosedByTheirOwner` counts: `OpenInv` bounds the connections nobody
holds any more by the number of blocks entered inside another, and that count has to be
carried through a block that is half entered. `WholeManifest` needs the assumption that a
directory has one file of a name.

*ColumnsDiff_proofs* (tables of any size, all types and parameters): `VerdictInvariant`,
`UnchangedIsAlwaysTheSame`, `NarrowingAlwaysLoses`, `UnflaggedLossIsAlwaysByScale`. The verdicts are
functions of two columns, so the work is in lemmas about `_normalize_datatype` and the parser
against SnowflakeTypes: every default of the code's table is a type Snowflake keeps
(`DefaultsAreStored`), and the default of the same name in Snowflake's table, so equal normal forms are one stored type, a shrinking parameter loses the
largest value of the live type, and any other loss needs a scale that grew.
`FieldsAssumption` says that live columns have stored types and declared ones declarable types,
and what a text is.
`NarrowingAlwaysLoses` has the hypothesis `AllSizes`, that values of every size are tried
(`Digits = Nat`); on the run's finite set of sizes it depends on the set.

The rendering has theorems of its own, for every alignment `Alignments` allows and every
context: `RenderInvariant`, `DifferencesAlwaysShown`, `OnlyDifferencesOrMovesAlways`,
`WindowIsAlwaysExact`. `RenderInv` says that only what differs is rendered and which rows and
lines come of it. Both are sequences of sequences put one behind the other, so the
argument is about places: `FlattenPlaces` gives each piece an offset, and `PlaceInPiece` finds
the piece of a place. `RowsAre` then says what is marked: names without a pair, and pairs that
differ; `AloneForAReason`, that a name both sides have is only left without a pair where
another pair crosses it or shares one of its ends, because an alignment cannot be extended. For the
window, `RowsAreCounted` follows the positions line by line: before a row that is shown they stand at
that row, and inside a run that is left out already behind its end. Rows without a change take the other
branch of `Window`, and the theorem covers them.

What the proofs changed in the model: two definitions chose among overlapping arms of a
CASE, which TLC reads from the top and the logic does not (Profiles, ManifestLoader), and
are IF chains now, as the code's `if` statements are; `ResultsFollowPlan` names its cases; the
assumptions on constants listed above were made explicit. `OnlyDifferencesOrMoves` was false
as first stated, beyond the instances of its run: with lines a, m, n on one side and
a, x, m, n, a, m on the other, difflib leaves n without a pair though there is an m before it
on both sides. `Moved` now asks for any two occurrences in the opposite order, and the run
has texts with repeated lines. `Rows` was a sort of marked rows and is now the
opcodes in their order, the same rows on every instance.

*Only model-checked*: the fair halves of the two refinements, for the prover does not do
liveness under fairness, and `RowsRebuildBothSides`. Every other property of a passing run has
its theorem.

## Plan

All components but the registry have a module, and every safety property but one is proved. Left for
the prover are `RowsRebuildBothSides` and the argument that composes Session, DependencyGraph and PlanApply, which is a
paragraph above.

## Not modelled

The body coercers, nested dictionaries, the view wrapper and other sub-fields of columns
(comparisons of the same shape as `setting`); what an object holds beside its definition;
the text of errors, of rendered rows and of scalar changes; YAML parsing and the decoding of
keys beyond whether they succeed; the registry, a lookup table; `exists` and `delete`, which
nothing calls; authorisation of the server and its endpoints that use no connection.
Fields of a live object the manifest does not declare are not compared by the code, nor
here. In ServeApi what the statements of different callers do to the session they share is
left out, as the code neither sets nor promises a context for them. In Session an
interrupt is not told from another exception, and `init` writes its file in one step.
