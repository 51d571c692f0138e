----------------------------- MODULE PlanApply -----------------------------
(***************************************************************************)
(* `snowrig plan` and `snowrig apply`: compute_plan fetches every object   *)
(* of the manifest and diffs it, apply_plan executes the changes one after *)
(* the other, and the CLI turns the results into an exit code              *)
(* (src/snowrig/manifest/diff.py, resources/core_client.py, cli/main.py).  *)
(*                                                                         *)
(* Others change the live account at any time (Drift), a request may be    *)
(* refused or its answer lost, and the process may die anywhere and be     *)
(* started again.  Every fetch and every write is a step of its own.       *)
(***************************************************************************)
EXTENDS Datatypes, FiniteSets

CONSTANTS
  Object,          \* keys of the manifest's objects
  Manifest,        \* the objects, in dependency order
  ColumnName, ColumnType, Setting,   \* what objects are made of
  CaseFold(_),     \* a setting as the loose comparison sees it
  Stored(_),       \* the type the database keeps for a declared one
  Absent,          \* an object, or a column, that does not exist
  LiveStates,      \* for each object, the states others may leave it in
  ErrorText,       \* what describe_error may say of an exception
  MaxDrift,        \* changes made by others
  MaxRuns          \* invocations of the program

(* Columns by name.  A declared column is at its place in the manifest's   *)
(* list, a live one at its place in the table.                             *)
Columns(Position) ==
  [ColumnName -> [datatype : ColumnType, position : Position] \cup {Absent}]

NoColumns == [n \in ColumnName |-> Absent]

Names(columns) == {n \in ColumnName : columns[n] # Absent}

(* How an object is written: as a typed table, as another typed object, or *)
(* by its own SQL.  A class without create_or_alter is replaced as a       *)
(* whole, which for what is declared comes to the same.                    *)
Kinds == {"table", "typed", "sql"}

Entry == [key : Object, kind : Kinds, setting : Setting, columns : Columns(Nat)]

Live == [setting : Setting, columns : Columns(Nat)] \cup {Absent}

None == "no error"

ASSUME ConstantsAssumption ==
  /\ Manifest \in Seq(Entry)
  /\ \A i, j \in DOMAIN Manifest : Manifest[i].key = Manifest[j].key => i = j
  /\ \A o \in Object : LiveStates[o] \subseteq Live
  /\ \A dt \in ColumnType : Stored(dt) \in ColumnType
  /\ Absent \notin [datatype : ColumnType, position : Nat \cup ((0..1) \X Nat)]
  /\ Absent \notin [setting : Setting, columns : Columns(Nat)]
  /\ IsFiniteSet(ColumnName)
  /\ None \notin ErrorText
  /\ MaxDrift \in Nat /\ MaxRuns \in Nat

VARIABLES
  live,          \* the account
  pc,            \* "idle", "plan", "apply", "write" or "exited"
  options,       \* of this run
  plan,          \* compute_plan's result so far
  results,       \* apply_plan's result so far
  next,          \* the change apply_plan looks at
  wire,          \* the columns about to be sent
  exit_code,
  drifts, runs,
  undisturbed,   \* history: nobody else changed anything since the run began
  settled        \* history: ... nor since it ended, as a real run, with code 0

vars == <<live, pc, options, plan, results, next, wire, exit_code, drifts, runs,
          undisturbed, settled>>

loop == <<results, next, wire>>
counts == <<drifts, runs>>
history == <<undisturbed, settled>>

Options ==
  [command : {"plan", "apply"}, dry_run : BOOLEAN, stop_on_error : BOOLEAN,
   allow_destructive : BOOLEAN]

(* A process that has not planned anything yet.                            *)
Forget == plan' = <<>> /\ results' = <<>> /\ next' = 1 /\ wire' = NoColumns

Init ==
  /\ live \in {l \in [Object -> UNION {LiveStates[o] : o \in Object}] :
                 \A o \in Object : l[o] \in LiveStates[o]}
  /\ pc = "idle"
  /\ options = [command |-> "plan", dry_run |-> FALSE, stop_on_error |-> TRUE,
                allow_destructive |-> FALSE]
  /\ plan = <<>> /\ results = <<>> /\ next = 1 /\ wire = NoColumns
  /\ exit_code = 0
  /\ drifts = 0 /\ runs = 0
  /\ undisturbed = TRUE /\ settled = FALSE

(* A user invokes the program, again after it ended or died.               *)
Start(o) ==
  /\ pc \in {"idle", "exited"}
  /\ runs < MaxRuns
  /\ runs' = runs + 1
  /\ options' = o
  /\ pc' = "plan"
  /\ Forget
  /\ undisturbed' = TRUE
  /\ UNCHANGED <<live, exit_code, drifts, settled>>

-----------------------------------------------------------------------------
(* compute_plan                                                            *)

(* What _diff_list_field finds for the columns.                            *)
Removed(e, o) ==
  IF e.kind = "table" THEN Names(o.columns) \ Names(e.columns) ELSE {}

ChangedColumns(e, o) ==
  IF e.kind # "table" THEN {} ELSE
  {n \in Names(e.columns) :
     n \in Names(o.columns) =>
       DatatypeDiffers(o.columns[n].datatype, e.columns[n].datatype)}

Narrowed(e, o) ==
  {n \in ChangedColumns(e, o) \cap Names(o.columns) :
     LossyNarrowing(o.columns[n].datatype, e.columns[n].datatype)}

SettingDiffers(e, o) == CaseFold(o.setting) # CaseFold(e.setting)

HasDiff(e, o) ==
  Removed(e, o) # {} \/ ChangedColumns(e, o) # {} \/ SettingDiffers(e, o)

(* PlannedChange; seen are the live columns its diff was computed from.    *)
Change ==
  [entry : Entry, action : {"create", "update", "noop", "error"}, seen : Columns(Nat),
   removed : SUBSET ColumnName, narrowed : SUBSET ColumnName, error : ErrorText \cup {None}]

Unfetched(e, action, error) ==
  [entry |-> e, action |-> action, seen |-> NoColumns, removed |-> {}, narrowed |-> {},
   error |-> error]

Fetched(e, o) ==
  [entry |-> e, action |-> IF HasDiff(e, o) THEN "update" ELSE "noop", seen |-> o.columns,
   removed |-> Removed(e, o), narrowed |-> Narrowed(e, o), error |-> None]

(* Fault: a column that loses values does not count.                       *)
RemovesColumns(c) == c.removed # {}

IsDestructive(c) == c.removed # {} \/ c.narrowed # {}

(* The object compute_plan looks at, if any.                               *)
ToPlan == {Manifest[i] : i \in {Len(plan) + 1} \cap DOMAIN Manifest}

AddToPlan(c) ==
  /\ pc = "plan"
  /\ plan' = Append(plan, c)
  /\ UNCHANGED <<live, pc, options, loop, exit_code, counts, history>>

PlanSql ==               \* a raw sql: body is not fetched
  \E e \in ToPlan : e.kind = "sql" /\ AddToPlan(Unfetched(e, "update", None))

(* Fault: whatever exists is updated.                                      *)
PlanUpdate ==
  \E e \in ToPlan :
    /\ e.kind # "sql" /\ live[e.key] # Absent
    /\ AddToPlan([Fetched(e, live[e.key]) EXCEPT !.action = "update"])

PlanExisting ==
  \E e \in ToPlan :
    /\ e.kind # "sql" /\ live[e.key] # Absent
    /\ AddToPlan(Fetched(e, live[e.key]))

(* Fault: a missing continue, and the object is planned once more.         *)
PlanNotFoundTwice ==
  \E e \in ToPlan :
    /\ e.kind # "sql" /\ live[e.key] = Absent
    /\ pc = "plan"
    /\ plan' = plan \o <<Unfetched(e, "create", None), Unfetched(e, "noop", None)>>
    /\ UNCHANGED <<live, pc, options, loop, exit_code, counts, history>>

PlanNotFound ==
  \E e \in ToPlan :
    /\ e.kind # "sql" /\ live[e.key] = Absent
    /\ AddToPlan(Unfetched(e, "create", None))

(* Fault: an object that cannot be read is taken as up to date.            *)
PlanUnreadableAsNoop ==
  \E e \in ToPlan, text \in ErrorText :
    e.kind # "sql" /\ AddToPlan(Unfetched(e, "noop", None))

PlanFetchFails ==
  \E e \in ToPlan, text \in ErrorText :
    e.kind # "sql" /\ AddToPlan(Unfetched(e, "error", text))

(* The plan command only reports.                                          *)
ReportPlan ==
  /\ pc = "plan" /\ Len(plan) = Len(Manifest)
  /\ options.command = "plan"
  /\ exit_code' = IF \E i \in DOMAIN plan : plan[i].action = "error" THEN 1 ELSE 0
  /\ pc' = "exited"
  /\ UNCHANGED <<live, options, plan, loop, counts, history>>

BeginApply ==
  /\ pc = "plan" /\ Len(plan) = Len(Manifest)
  /\ options.command = "apply"
  /\ pc' = "apply"
  /\ UNCHANGED <<live, options, plan, loop, exit_code, counts, history>>

-----------------------------------------------------------------------------
(* apply_plan                                                              *)

(* The change it looks at, if any.                                         *)
Current == {plan[i] : i \in {next} \cap DOMAIN plan}

Result(c, error, blocked) == [key |-> c.entry.key, error |-> error, blocked |-> blocked]

(* One result more; the loop goes on unless it breaks.                     *)
Record(r, break) ==
  /\ results' = Append(results, r)
  /\ next' = IF break THEN Len(plan) + 1 ELSE next + 1
  /\ pc' = "apply"
  /\ wire' = NoColumns
  /\ UNCHANGED <<options, plan, exit_code, counts, history>>

Fail(c, text) == Record(Result(c, text, FALSE), options.stop_on_error)

ReportFetchError ==
  \E c \in Current :
    /\ pc = "apply" /\ c.action = "error"
    /\ Fail(c, c.error)
    /\ UNCHANGED live

SkipNoop ==
  \E c \in Current :
    /\ pc = "apply" /\ c.action = "noop"
    /\ next' = next + 1
    /\ UNCHANGED <<live, pc, options, plan, results, wire, exit_code, counts, history>>

ToExecute(c) == pc = "apply" /\ c.action \in {"create", "update"}

Blocked(c) == IsDestructive(c) /\ ~options.allow_destructive

(* Fault: a blocked change stops the run.                                  *)
BlockAndStop ==
  \E c \in Current :
    /\ ToExecute(c) /\ Blocked(c)
    /\ Record(Result(c, "blocked", TRUE), options.stop_on_error)
    /\ UNCHANGED live

Block ==                 \* never stops the run
  \E c \in Current :
    /\ ToExecute(c) /\ Blocked(c)
    /\ Record(Result(c, "blocked", TRUE), FALSE)
    /\ UNCHANGED live

WouldApply ==
  \E c \in Current :
    /\ ToExecute(c) /\ ~Blocked(c) /\ options.dry_run
    /\ Record(Result(c, None, FALSE), FALSE)
    /\ UNCHANGED live

(* Fault: a dry run is not one.                                            *)
NotBlocked(c) == ToExecute(c) /\ ~Blocked(c)

Allowed(c) == ToExecute(c) /\ ~Blocked(c) /\ ~options.dry_run

(* Faults: columns go out as declared; new ones are forgotten.             *)
DeclaredColumns(declared, known) ==
  [n \in ColumnName |-> IF declared[n] = Absent THEN Absent
                        ELSE [declared[n] EXCEPT !.position = <<0, declared[n].position>>]]

KnownColumns(declared, known) ==
  [n \in ColumnName |-> IF declared[n] = Absent \/ known[n] = Absent THEN Absent
                        ELSE [declared[n] EXCEPT !.position = <<0, known[n].position>>]]

(* _reorder_new_columns_to_end: columns the table has keep their place,    *)
(* the others follow in the manifest's order.                              *)
WireColumns(declared, known) ==
  [n \in ColumnName |->
     IF declared[n] = Absent THEN Absent
     ELSE [datatype |-> declared[n].datatype,
           position |-> IF known[n] # Absent THEN <<0, known[n].position>>
                                             ELSE <<1, declared[n].position>>]]

(* create_or_alter looks at a table once more to order the columns; when   *)
(* there is none, and for other objects, the body goes out as it is.       *)
Prepare ==
  \E c \in Current :
    /\ Allowed(c)
    /\ LET o == live[c.entry.key]
           known == IF c.entry.kind = "table" /\ o # Absent THEN o.columns ELSE NoColumns
       IN wire' = WireColumns(c.entry.columns, known)
    /\ pc' = "write"
    /\ UNCHANGED <<live, options, plan, results, next, exit_code, counts, history>>

PrepareFails ==
  \E c \in Current, text \in ErrorText : Allowed(c) /\ Fail(c, text) /\ UNCHANGED live

-----------------------------------------------------------------------------
(* The database (external)                                                 *)

Precedes(a, b) == a[1] < b[1] \/ (a[1] = b[1] /\ a[2] < b[2])

(* "column add before end of column list" is refused.                      *)
AcceptableOrder(sent, o) ==
  \A old \in Names(sent) \cap Names(o.columns), new \in Names(sent) \ Names(o.columns) :
    Precedes(sent[old].position, sent[new].position)

(* Columns that were not sent are dropped.                                 *)
StoredColumns(sent) ==
  [n \in ColumnName |->
     IF sent[n] = Absent THEN Absent
     ELSE [datatype |-> Stored(sent[n].datatype),
           position |-> Cardinality({m \in Names(sent) :
                                       Precedes(sent[m].position, sent[n].position)})]]

LiveAfterWrite(e) ==
  [setting |-> e.setting,
   columns |-> IF e.kind = "table" THEN StoredColumns(wire) ELSE NoColumns]

Execute(e) ==
  /\ e.kind = "table" /\ live[e.key] # Absent => AcceptableOrder(wire, live[e.key])
  /\ live' = [live EXCEPT ![e.key] = LiveAfterWrite(e)]

WriteSucceeds ==
  \E c \in Current :
    pc = "write" /\ Execute(c.entry) /\ Record(Result(c, None, FALSE), FALSE)

WriteAnswerLost ==       \* executed, but the program sees an exception
  \E c \in Current, text \in ErrorText : pc = "write" /\ Execute(c.entry) /\ Fail(c, text)

WriteRefused ==
  \E c \in Current, text \in ErrorText : pc = "write" /\ Fail(c, text) /\ UNCHANGED live

(* Somebody else changes an object.                                        *)
Drift(o) ==
  /\ drifts < MaxDrift
  /\ drifts' = drifts + 1
  /\ \E s \in LiveStates[o] \ {live[o]} : live' = [live EXCEPT ![o] = s]
  /\ undisturbed' = FALSE /\ settled' = FALSE
  /\ UNCHANGED <<pc, options, plan, loop, exit_code, runs>>

-----------------------------------------------------------------------------
(* The end of a run                                                        *)

(* An error with an empty text is not one to `elif error`.                 *)
ShownAsFailed(r) == ~r.blocked /\ r.error \notin {None, ""}

(* Fault: a blocked change hides a failure.                                *)
BlockedExitCode ==
  IF \E i \in DOMAIN results : results[i].blocked THEN 2
  ELSE IF \E i \in DOMAIN results : ShownAsFailed(results[i]) THEN 1 ELSE 0

ExitCode ==
  IF \E i \in DOMAIN results : ShownAsFailed(results[i]) THEN 1
  ELSE IF \E i \in DOMAIN results : results[i].blocked THEN 2 ELSE 0

Exit ==
  /\ pc = "apply"
  /\ next > Len(plan)
  /\ exit_code' = ExitCode
  /\ pc' = "exited"
  /\ settled' = (undisturbed /\ ~options.dry_run /\ ExitCode = 0)
  /\ UNCHANGED <<live, options, plan, loop, counts, undisturbed>>

Crash ==
  /\ pc \in {"plan", "apply", "write"}
  /\ pc' = "idle"
  /\ Forget
  /\ UNCHANGED <<live, options, exit_code, counts, history>>

PlanStep ==
  \/ PlanSql \/ PlanExisting \/ PlanNotFound \/ PlanFetchFails
  \/ ReportPlan
  \/ BeginApply

ApplyStep ==
  \/ ReportFetchError \/ SkipNoop \/ Block \/ WouldApply
  \/ Prepare \/ PrepareFails
  \/ WriteSucceeds \/ WriteAnswerLost \/ WriteRefused
  \/ Exit

Next ==
  \/ \E o \in Options : Start(o)
  \/ PlanStep
  \/ ApplyStep
  \/ Crash
  \/ \E o \in Object : Drift(o)

Spec == Init /\ [][Next]_vars

-----------------------------------------------------------------------------
(* Properties                                                              *)

(* The type invariant.                                                     *)
TypeOK ==
  /\ live \in [Object -> Live]
  /\ pc \in {"idle", "plan", "apply", "write", "exited"}
  /\ options \in Options
  /\ plan \in Seq(Change) /\ Len(plan) <= Len(Manifest)
  /\ results \in Seq([key : Object, error : ErrorText \cup {None, "blocked"},
                      blocked : BOOLEAN])
  /\ next \in Nat \ {0}
  /\ wire \in Columns((0..1) \X Nat)
  /\ exit_code \in 0..2
  /\ drifts \in 0..MaxDrift /\ runs \in 0..MaxRuns
  /\ undisturbed \in BOOLEAN /\ settled \in BOOLEAN

(* Column by column: what the plan saw of a table is still there after the *)
(* write, and no value of it was cut.                                      *)
KeepsWhatWasSeen(c, before, after) ==
  \A n \in Names(c.seen) \cap Names(before.columns) :
    /\ n \in Names(after.columns)
    /\ before.columns[n].datatype = c.seen[n].datatype =>
         ~LossyNarrowing(before.columns[n].datatype, wire[n].datatype)

(* Without allow_destructive, a write of the program drops no column the   *)
(* plan saw and narrows none that is as the plan saw it, whatever others   *)
(* do between the fetch, the second fetch and the write.                   *)
GateHolds ==
  [][~options.allow_destructive /\ drifts' = drifts =>
       \A o \in Object : live'[o] # live[o] =>
         \E c \in Current :
           /\ c.entry.key = o
           /\ c.entry.kind = "table" /\ live[o] # Absent =>
                KeepsWhatWasSeen(c, live[o], live'[o])]_vars

(* The plan command and a dry run change nothing.                          *)
ReadOnly ==
  [][(options.command = "plan" \/ options.dry_run) /\ drifts' = drifts => live' = live]_vars

Failed(r) == ~r.blocked /\ r.error # None

(* The changes of the plan that must have a result, up to the k-th.        *)
Due(k) == {i \in 1..k : plan[i].action # "noop"}

(* The results are those of the changes due up to the k-th, in order.      *)
Follows(k) ==
  /\ Len(results) = Cardinality(Due(k))
  /\ \A i \in Due(k) : results[Cardinality(Due(i))].key = plan[i].entry.key

(* Up to where the loop is, without a failure it should have stopped at.   *)
GoesOn ==
  /\ next <= Len(plan) + 1 /\ Follows(next - 1)
  /\ options.stop_on_error /\ next <= Len(plan) =>
       \A i \in DOMAIN results : ~Failed(results[i])

(* A failure under stop_on_error ended the loop.                           *)
StoppedEarly ==
  /\ next > Len(plan) /\ options.stop_on_error
  /\ Len(results) > 0 /\ Failed(results[Len(results)])
  /\ \E k \in DOMAIN plan : Follows(k)

(* Every change that is not a no-op has its result, in the plan's order,   *)
(* up to where the loop is; only a failure under stop_on_error ends it     *)
(* early, never a blocked change, and then nothing more is written.        *)
ResultsFollowPlan ==
  pc \in {"apply", "write"} => GoesOn \/ (StoppedEarly /\ pc = "apply")

(* With stop_on_error, and when nobody interferes, every object before the *)
(* one that is written exists: with the order of the plan, prerequisites   *)
(* first, nothing is attempted whose prerequisites could not be created.   *)
EarlierObjectsExist ==
  pc = "write" /\ undisturbed /\ options.stop_on_error =>
    \A i \in 1..(next - 1) : live[plan[i].entry.key] # Absent

(* When nobody interferes, no column sent to a table is "added before the  *)
(* end of the column list".                                                *)
WireOrderAcceptable ==
  pc = "write" /\ undisturbed =>
    \A c \in Current :
      c.entry.kind = "table" /\ live[c.entry.key] # Absent =>
        AcceptableOrder(wire, live[c.entry.key])

(* When nobody interferes, an object is written only if it is missing or   *)
(* differs: what a lost answer or a crash hid is not written again.        *)
NoNeedlessWrite ==
  pc = "write" /\ undisturbed =>
    \A c \in Current :
      \/ c.entry.kind = "sql"
      \/ live[c.entry.key] = Absent
      \/ HasDiff(c.entry, live[c.entry.key])

(* After a real run that exits with 0, and until somebody else changes     *)
(* something, every object is as declared: running again finds no change.  *)
SettledMeansApplied ==
  settled =>
    \A i \in DOMAIN Manifest :
      LET e == Manifest[i] IN
      e.kind # "sql" => live[e.key] # Absent /\ ~HasDiff(e, live[e.key])

(* A result that says of a destructive change that it was not applied.     *)
HeldBack(r) ==
  /\ r.blocked /\ ~options.allow_destructive
  /\ \E i \in DOMAIN plan : plan[i].entry.key = r.key /\ IsDestructive(plan[i])

(* What the README says of apply's exit codes: 0, "everything applied (or  *)
(* nothing to do)"; 1, "at least one change failed outright"; 2, "nothing  *)
(* failed, but a destructive change was blocked".                          *)
ExitCodeTells ==
  pc = "exited" /\ options.command = "apply" =>
    LET reported == {results[j] : j \in DOMAIN results} IN
    /\ exit_code = 0 => \A i \in DOMAIN plan :
         plan[i].action # "noop" =>
           \E r \in reported : r.key = plan[i].entry.key /\ r.error = None
    /\ exit_code = 1 => \E r \in reported : Failed(r)
    /\ exit_code = 2 => (\A r \in reported : ~Failed(r)) /\ \E r \in reported : HeldBack(r)

(* What the README says of apply without --allow-destructive: no column of *)
(* a table is dropped.                                                     *)
NoColumnIsLostUngated ==
  [][~options.allow_destructive /\ drifts' = drifts =>
       \A i \in DOMAIN Manifest :
         LET e == Manifest[i] IN
         e.kind = "table" /\ live[e.key] # Absent =>
           Names(live[e.key].columns) \subseteq Names(live'[e.key].columns)]_vars

=============================================================================
