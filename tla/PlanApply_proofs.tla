-------------------------- MODULE PlanApply_proofs --------------------------
(***************************************************************************)
(* Type correctness of PlanApply, and its gate: without allow_destructive  *)
(* the program never drops or narrows what the plan saw, for every         *)
(* manifest, whatever others do to the account meanwhile.                  *)
(***************************************************************************)
EXTENDS PlanApply, FiniteSetTheorems, TLAPS

-----------------------------------------------------------------------------
(* Columns                                                                 *)

(* A live object that exists is a record of its setting and columns.       *)
LEMMA LiveFields ==
  ASSUME NEW o \in Live, o # Absent
  PROVE  o.setting \in Setting /\ o.columns \in Columns(Nat)
BY DEF Live

(* A column of a table has a datatype and a place.                         *)
LEMMA ColumnFields ==
  ASSUME NEW Position, NEW columns \in Columns(Position), NEW n \in Names(columns)
  PROVE  /\ n \in ColumnName
         /\ columns[n].datatype \in ColumnType /\ columns[n].position \in Position
BY DEF Columns, Names

(* No columns are columns of any kind.                                     *)
LEMMA NoColumnsTyped ==
  ASSUME NEW Position
  PROVE  NoColumns \in Columns(Position) /\ Names(NoColumns) = {}
BY DEF Columns, NoColumns, Names

(* What goes over the wire are the declared columns with their declared    *)
(* datatypes, only the places differ.                                      *)
LEMMA WireTyped ==
  ASSUME NEW declared \in Columns(Nat), NEW known \in Columns(Nat)
  PROVE  /\ WireColumns(declared, known) \in Columns((0..1) \X Nat)
         /\ Names(WireColumns(declared, known)) = Names(declared)
         /\ \A n \in Names(declared) :
              WireColumns(declared, known)[n].datatype = declared[n].datatype
<1> DEFINE w == WireColumns(declared, known)
<1>1. ASSUME NEW n \in ColumnName, declared[n] = Absent
      PROVE  w[n] = Absent
  BY <1>1 DEF WireColumns
<1>2. ASSUME NEW n \in ColumnName, declared[n] # Absent
      PROVE  /\ w[n] \in [datatype : ColumnType, position : (0..1) \X Nat]
             /\ w[n].datatype = declared[n].datatype
  <2>1. declared[n] \in [datatype : ColumnType, position : Nat]
    BY <1>2 DEF Columns
  <2>2. known[n] # Absent => known[n] \in [datatype : ColumnType, position : Nat]
    BY DEF Columns
  <2> QED
    BY <1>2, <2>1, <2>2 DEF WireColumns
<1>3. [datatype : ColumnType, position : (0..1) \X Nat]
        \subseteq [datatype : ColumnType, position : Nat \cup ((0..1) \X Nat)]
  OBVIOUS
<1>4. \A n \in ColumnName : w[n] = Absent <=> declared[n] = Absent
  BY <1>1, <1>2, <1>3, ConstantsAssumption
<1>5. w \in Columns((0..1) \X Nat)
  <2>1. w = [n \in ColumnName |-> w[n]]
    BY DEF WireColumns
  <2> QED
    BY <1>1, <1>2, <2>1 DEF Columns
<1> HIDE DEF w
<1>6. Names(w) = Names(declared)
  BY <1>4 DEF Names
<1> QED
  BY <1>2, <1>5, <1>6 DEF w, Names

(* The database keeps the columns that are sent.                           *)
LEMMA StoredTyped ==
  ASSUME NEW sent \in Columns((0..1) \X Nat)
  PROVE  /\ StoredColumns(sent) \in Columns(Nat)
         /\ Names(StoredColumns(sent)) = Names(sent)
<1> DEFINE s == StoredColumns(sent)
           place(n) == {m \in Names(sent) : Precedes(sent[m].position, sent[n].position)}
<1>1. ASSUME NEW n \in ColumnName, sent[n] = Absent
      PROVE  s[n] = Absent
  BY <1>1 DEF StoredColumns
<1>2. ASSUME NEW n \in ColumnName, sent[n] # Absent
      PROVE  s[n] \in [datatype : ColumnType, position : Nat]
  <2>1. sent[n].datatype \in ColumnType
    BY <1>2 DEF Columns
  <2>2. Stored(sent[n].datatype) \in ColumnType
    BY <2>1, ConstantsAssumption
  <2>3. Cardinality(place(n)) \in Nat
    <3>1. place(n) \subseteq ColumnName
      BY DEF Names
    <3> QED
      BY <3>1, FS_Subset, FS_CardinalityType, ConstantsAssumption
  <2>4. s[n] = [datatype |-> Stored(sent[n].datatype), position |-> Cardinality(place(n))]
    BY <1>2 DEF StoredColumns
  <2> QED
    BY <2>2, <2>3, <2>4
<1>3. [datatype : ColumnType, position : Nat]
        \subseteq [datatype : ColumnType, position : Nat \cup ((0..1) \X Nat)]
  OBVIOUS
<1>4. \A n \in ColumnName : s[n] = Absent <=> sent[n] = Absent
  BY <1>1, <1>2, <1>3, ConstantsAssumption
<1>5. s \in Columns(Nat)
  <2>1. s = [n \in ColumnName |-> s[n]]
    BY DEF StoredColumns
  <2> QED
    BY <1>1, <1>2, <2>1 DEF Columns
<1> HIDE DEF s
<1>6. Names(s) = Names(sent)
  BY <1>4 DEF Names
<1> QED
  BY <1>5, <1>6 DEF s

(* An object is live after it was written.                                 *)
LEMMA WrittenIsLive ==
  ASSUME TypeOK, NEW e \in Entry
  PROVE  LiveAfterWrite(e) \in Live
<1>1. e.setting \in Setting
  BY DEF Entry
<1>2. wire \in Columns((0..1) \X Nat)
  BY DEF TypeOK
<1>3. (IF e.kind = "table" THEN StoredColumns(wire) ELSE NoColumns) \in Columns(Nat)
  BY <1>2, StoredTyped, NoColumnsTyped
<1> QED
  BY <1>1, <1>3 DEF LiveAfterWrite, Live

-----------------------------------------------------------------------------
(* Changes and results                                                     *)

(* What compute_plan finds out about an object is a change.                *)
LEMMA ChangesTyped ==
  ASSUME NEW e \in Entry
  PROVE  /\ \A text \in ErrorText \cup {None}, a \in {"create", "update", "error"} :
              Unfetched(e, a, text) \in Change
         /\ \A o \in Live \ {Absent} : Fetched(e, o) \in Change
<1>1. ASSUME NEW text \in ErrorText \cup {None}, NEW a \in {"create", "update", "error"}
      PROVE  Unfetched(e, a, text) \in Change
  BY <1>1, NoColumnsTyped DEF Unfetched, Change
<1>2. ASSUME NEW o \in Live \ {Absent}
      PROVE  Fetched(e, o) \in Change
  <2>1. o.columns \in Columns(Nat)
    BY LiveFields
  <2>2. Removed(e, o) \in SUBSET ColumnName
    BY DEF Removed, Names
  <2>3. Narrowed(e, o) \in SUBSET ColumnName
    BY DEF Narrowed, Names
  <2> QED
    BY <2>1, <2>2, <2>3 DEF Fetched, Change
<1> QED
  BY <1>1, <1>2

(* The object looked at is one of the manifest, and leaves room in the     *)
(* plan for its change.                                                    *)
LEMMA ToPlanTyped ==
  ASSUME TypeOK, NEW e \in ToPlan
  PROVE  e \in Entry /\ Len(plan) + 1 <= Len(Manifest)
BY ConstantsAssumption DEF ToPlan, TypeOK

(* The change whose turn it is stands in the plan, and its object in the   *)
(* manifest.                                                               *)
LEMMA CurrentTyped ==
  ASSUME TypeOK, NEW c \in Current
  PROVE  c \in Change /\ c.entry \in Entry /\ c.entry.key \in Object
         /\ next \in DOMAIN plan /\ c = plan[next]
<1>1. next \in DOMAIN plan /\ c = plan[next]
  BY DEF Current
<1>2. c \in Change
  BY <1>1 DEF TypeOK
<1> QED
  BY <1>1, <1>2 DEF Change, Entry

(* One change more keeps the types.                                        *)
LEMMA AddToPlanTyped ==
  ASSUME TypeOK, NEW c \in Change, Len(plan) + 1 <= Len(Manifest), AddToPlan(c)
  PROVE  TypeOK'
<1>1. plan' \in Seq(Change) /\ Len(plan') = Len(plan) + 1
  BY DEF AddToPlan, TypeOK
<1> QED
  BY <1>1 DEF AddToPlan, TypeOK, loop, counts, history

(* One result more keeps the types, if the account does.                   *)
LEMMA RecordTyped ==
  ASSUME TypeOK, live' \in [Object -> Live],
         NEW c \in Current, NEW text \in ErrorText \cup {None, "blocked"},
         NEW blocked \in BOOLEAN, NEW break \in BOOLEAN,
         Record(Result(c, text, blocked), break)
  PROVE  TypeOK'
<1> DEFINE r == Result(c, text, blocked)
           R == [key : Object, error : ErrorText \cup {None, "blocked"}, blocked : BOOLEAN]
<1>1. r \in R
  BY CurrentTyped DEF Result
<1>2. results \in Seq(R)
  BY DEF TypeOK
<1>3. results' = Append(results, r)
  BY DEF Record
<1> HIDE DEF r, R
<1>4. results' \in Seq(R)
  BY <1>1, <1>2, <1>3
<1>5. next' \in Nat \ {0}
  <2>1. Len(plan) \in Nat /\ next \in Nat \ {0}
    BY DEF TypeOK
  <2>2. next' = IF break THEN Len(plan) + 1 ELSE next + 1
    BY DEF Record
  <2> QED
    BY <2>1, <2>2
<1>6. wire' \in Columns((0..1) \X Nat)
  BY NoColumnsTyped DEF Record
<1> USE DEF R
<1> QED
  BY <1>4, <1>5, <1>6 DEF Record, TypeOK, counts, history

-----------------------------------------------------------------------------
(* Type correctness                                                        *)

(* The types at the start.                                                 *)
LEMMA TypesAtStart == Init => TypeOK
<1> SUFFICES ASSUME Init PROVE TypeOK
  OBVIOUS
<1>1. live \in [Object -> Live]
  <2>1. live \in [Object -> UNION {LiveStates[o] : o \in Object}]
        /\ \A o \in Object : live[o] \in LiveStates[o]
    BY DEF Init
  <2> QED
    BY <2>1, ConstantsAssumption
<1>2. Len(Manifest) \in Nat
  BY ConstantsAssumption
<1>3. options \in Options
  BY DEF Init, Options
<1>4. wire \in Columns((0..1) \X Nat)
  BY NoColumnsTyped DEF Init
<1>5. plan \in Seq(Change) /\ Len(plan) <= Len(Manifest)
  BY <1>2 DEF Init
<1>6. drifts \in 0..MaxDrift /\ runs \in 0..MaxRuns
  BY ConstantsAssumption DEF Init
<1>7. results = <<>> /\ next \in Nat \ {0} /\ exit_code \in 0..2 /\ pc = "idle"
  BY DEF Init
<1>8. undisturbed \in BOOLEAN /\ settled \in BOOLEAN
  BY Zenon DEF Init
<1> QED
  BY <1>1, <1>3, <1>4, <1>5, <1>6, <1>7, <1>8 DEF TypeOK

(* A step of compute_plan keeps the types, the plan's length included.     *)
LEMMA PlanStepTyped == TypeOK /\ PlanStep => TypeOK'
<1> SUFFICES ASSUME TypeOK, PlanStep PROVE TypeOK'
  OBVIOUS
<1>1. CASE PlanSql
  BY <1>1, ToPlanTyped, ChangesTyped, AddToPlanTyped DEF PlanSql
<1>2. CASE PlanExisting
  <2>1. PICK e \in ToPlan : live[e.key] # Absent /\ AddToPlan(Fetched(e, live[e.key]))
    BY <1>2 DEF PlanExisting
  <2>2. live[e.key] \in Live \ {Absent}
    BY <2>1, ToPlanTyped DEF Entry, TypeOK
  <2> QED
    BY <2>1, <2>2, ToPlanTyped, ChangesTyped, AddToPlanTyped
<1>3. CASE PlanNotFound
  BY <1>3, ToPlanTyped, ChangesTyped, AddToPlanTyped DEF PlanNotFound
<1>4. CASE PlanFetchFails
  BY <1>4, ToPlanTyped, ChangesTyped, AddToPlanTyped DEF PlanFetchFails
<1>5. CASE ReportPlan
  BY <1>5 DEF ReportPlan, TypeOK, loop, counts, history
<1>6. CASE BeginApply
  BY <1>6 DEF BeginApply, TypeOK, loop, counts, history
<1> QED
  BY <1>1, <1>2, <1>3, <1>4, <1>5, <1>6 DEF PlanStep

(* A write leaves an account.                                              *)
LEMMA ExecuteTyped ==
  ASSUME TypeOK, NEW e \in Entry, Execute(e)
  PROVE  live' \in [Object -> Live]
<1>1. e.key \in Object
  BY DEF Entry
<1>2. live[e.key] \in Live
  BY <1>1 DEF TypeOK
<1>3. LiveAfterWrite(e) \in Live
  BY <1>2, WrittenIsLive
<1> QED
  BY <1>1, <1>3 DEF Execute, TypeOK

(* Every branch of apply_plan's loop keeps them.                           *)
LEMMA ApplyStepTyped == TypeOK /\ ApplyStep => TypeOK'
<1> SUFFICES ASSUME TypeOK, ApplyStep PROVE TypeOK'
  OBVIOUS
<1>0. live \in [Object -> Live] /\ options.stop_on_error \in BOOLEAN
  BY DEF TypeOK, Options
<1>1. CASE ReportFetchError
  <2>1. PICK c \in Current : Fail(c, c.error) /\ UNCHANGED live
    BY <1>1 DEF ReportFetchError
  <2>2. c.error \in ErrorText \cup {None}
    BY CurrentTyped DEF Change
  <2> QED
    BY <1>0, <2>1, <2>2, RecordTyped DEF Fail
<1>2. CASE SkipNoop
  BY <1>2 DEF SkipNoop, TypeOK, counts, history
<1>3. CASE Block
  BY <1>0, <1>3, RecordTyped DEF Block
<1>4. CASE WouldApply
  BY <1>0, <1>4, RecordTyped DEF WouldApply
<1>5. CASE Prepare
  <2>1. PICK c \in Current :
          LET o == live[c.entry.key]
              known == IF c.entry.kind = "table" /\ o # Absent THEN o.columns ELSE NoColumns
          IN wire' = WireColumns(c.entry.columns, known)
    BY <1>5 DEF Prepare
  <2> DEFINE o == live[c.entry.key]
             known == IF c.entry.kind = "table" /\ o # Absent THEN o.columns ELSE NoColumns
  <2>2. o \in Live
    BY <1>0, CurrentTyped
  <2>3. known \in Columns(Nat)
    BY <2>2, LiveFields, NoColumnsTyped
  <2>4. c.entry.columns \in Columns(Nat)
    BY CurrentTyped DEF Entry
  <2>5. wire' = WireColumns(c.entry.columns, known)
    BY <2>1
  <2> HIDE DEF known
  <2>6. wire' \in Columns((0..1) \X Nat)
    BY <2>3, <2>4, <2>5, WireTyped
  <2> QED
    BY <1>5, <2>6 DEF Prepare, TypeOK, counts, history
<1>6. CASE PrepareFails
  BY <1>0, <1>6, RecordTyped DEF PrepareFails, Fail
<1>7. CASE WriteSucceeds
  BY <1>7, CurrentTyped, ExecuteTyped, RecordTyped DEF WriteSucceeds
<1>8. CASE WriteAnswerLost
  BY <1>0, <1>8, CurrentTyped, ExecuteTyped, RecordTyped DEF WriteAnswerLost, Fail
<1>9. CASE WriteRefused
  BY <1>0, <1>9, RecordTyped DEF WriteRefused, Fail
<1>10. CASE Exit
  <2>1. exit_code' \in 0..2
    BY <1>10 DEF Exit, ExitCode
  <2>2. settled' \in BOOLEAN
    BY <1>10 DEF Exit
  <2> QED
    BY <1>10, <2>1, <2>2 DEF Exit, TypeOK, loop, counts
<1> QED
  BY <1>1, <1>2, <1>3, <1>4, <1>5, <1>6, <1>7, <1>8, <1>9, <1>10 DEF ApplyStep

(* So do an invocation, a crash and what others do.                        *)
LEMMA OtherStepsTyped ==
  ASSUME TypeOK,
         \/ \E o \in Options : Start(o)
         \/ Crash
         \/ \E o \in Object : Drift(o)
         \/ UNCHANGED vars
  PROVE  TypeOK'
<1>1. ASSUME NEW o \in Options, Start(o) PROVE TypeOK'
  <2>1. runs' \in 0..MaxRuns
    BY <1>1, ConstantsAssumption DEF Start, TypeOK
  <2>2. plan' \in Seq(Change) /\ Len(plan') <= Len(Manifest)
    BY <1>1, ConstantsAssumption DEF Start, Forget
  <2> QED
    BY <1>1, <2>1, <2>2, NoColumnsTyped DEF Start, Forget, TypeOK
<1>2. CASE Crash
  <2>1. plan' \in Seq(Change) /\ Len(plan') <= Len(Manifest)
    BY <1>2, ConstantsAssumption DEF Crash, Forget
  <2> QED
    BY <1>2, <2>1, NoColumnsTyped DEF Crash, Forget, TypeOK, counts, history
<1>3. ASSUME NEW o \in Object, Drift(o) PROVE TypeOK'
  <2>1. drifts' \in 0..MaxDrift
    BY <1>3, ConstantsAssumption DEF Drift, TypeOK
  <2>2. live' \in [Object -> Live]
    BY <1>3, ConstantsAssumption DEF Drift, TypeOK
  <2> QED
    BY <1>3, <2>1, <2>2 DEF Drift, TypeOK, loop
<1>4. CASE UNCHANGED vars
  BY <1>4 DEF vars, TypeOK
<1> QED
  BY <1>1, <1>2, <1>3, <1>4

(* Whatever the manifest and the account, every variable keeps its type:   *)
(* in particular the plan never outgrows the manifest.                     *)
THEOREM TypeCorrect == Spec => []TypeOK
<1>1. TypeOK /\ [Next]_vars => TypeOK'
  BY PlanStepTyped, ApplyStepTyped, OtherStepsTyped DEF Next
<1> QED
  BY <1>1, TypesAtStart, PTL DEF Spec

-----------------------------------------------------------------------------
(* The gate                                                                *)

(* What the gate relies on: a change that is executed names every column   *)
(* it saw and would drop, and every one it saw and would cut.              *)
Examined(c) ==
  c.entry.kind = "table" /\ c.action \in {"create", "update"} =>
    /\ Names(c.seen) \ Names(c.entry.columns) \subseteq c.removed
    /\ \A n \in Names(c.seen) \cap Names(c.entry.columns) :
         LossyNarrowing(c.seen[n].datatype, c.entry.columns[n].datatype) => n \in c.narrowed

(* The change that is about to be written was let through, and its columns *)
(* are what is about to be sent.                                           *)
Ready(c) ==
  /\ c.action \in {"create", "update"}
  /\ ~Blocked(c)
  /\ Names(wire) = Names(c.entry.columns)
  /\ \A n \in Names(c.entry.columns) : wire[n].datatype = c.entry.columns[n].datatype

GateInv ==
  /\ TypeOK
  /\ \A i \in DOMAIN plan : Examined(plan[i])
  /\ pc = "write" => \A c \in Current : Ready(c)

(* Only a datatype that differs can be narrowed.                           *)
LEMMA NarrowedDiffers ==
  ASSUME NEW l, NEW d, LossyNarrowing(l, d)
  PROVE  DatatypeDiffers(l, d)
BY DEF LossyNarrowing, DatatypeDiffers

(* compute_plan examines every object it fetches.                          *)
LEMMA FetchedIsExamined ==
  ASSUME NEW e, NEW o
  PROVE  Examined(Fetched(e, o))
<1> DEFINE c == Fetched(e, o)
<1>1. c.entry = e /\ c.seen = o.columns /\ c.removed = Removed(e, o)
      /\ c.narrowed = Narrowed(e, o)
  BY DEF Fetched
<1> HIDE DEF c
<1> SUFFICES ASSUME e.kind = "table"
             PROVE  /\ Names(o.columns) \ Names(e.columns) \subseteq Removed(e, o)
                    /\ \A n \in Names(o.columns) \cap Names(e.columns) :
                         LossyNarrowing(o.columns[n].datatype, e.columns[n].datatype)
                           => n \in Narrowed(e, o)
  BY <1>1 DEF Examined, c
<1>2. Names(o.columns) \ Names(e.columns) \subseteq Removed(e, o)
  BY DEF Removed
<1>3. ASSUME NEW n \in Names(o.columns) \cap Names(e.columns),
             LossyNarrowing(o.columns[n].datatype, e.columns[n].datatype)
      PROVE  n \in Narrowed(e, o)
  <2>1. DatatypeDiffers(o.columns[n].datatype, e.columns[n].datatype)
    BY <1>3, NarrowedDiffers
  <2>2. n \in ChangedColumns(e, o)
    BY <2>1 DEF ChangedColumns
  <2> QED
    BY <1>3, <2>2 DEF Narrowed
<1> QED
  BY <1>2, <1>3

(* An object that was not fetched showed no column to lose.                *)
LEMMA UnfetchedIsExamined ==
  ASSUME NEW e, NEW action, NEW error
  PROVE  Examined(Unfetched(e, action, error))
<1>1. Unfetched(e, action, error).seen = NoColumns
  BY DEF Unfetched
<1>2. Names(NoColumns) = {}
  BY NoColumnsTyped
<1> QED
  BY <1>1, <1>2 DEF Examined

(* What compute_plan adds names all it saw and would lose.                 *)
LEMMA PlanStepKeepsGate == GateInv /\ PlanStep => GateInv'
<1> SUFFICES ASSUME GateInv, PlanStep PROVE GateInv'
  OBVIOUS
<1>1. TypeOK /\ TypeOK'
  BY PlanStepTyped DEF GateInv
<1>2. ASSUME NEW c, Examined(c), AddToPlan(c)
      PROVE  \A i \in DOMAIN plan' : Examined(plan'[i])
  <2>1. plan' = Append(plan, c) /\ plan \in Seq(Change)
    BY <1>1, <1>2 DEF AddToPlan, TypeOK
  <2>2. DOMAIN plan' = 1..(Len(plan) + 1)
    BY <2>1
  <2>3. \A i \in 1..Len(plan) : plan'[i] = plan[i]
    BY <2>1
  <2>4. plan'[Len(plan) + 1] = c
    BY <2>1
  <2>5. \A i \in 1..Len(plan) : Examined(plan[i])
    BY <2>1 DEF GateInv
  <2>6. \A i \in 1..Len(plan) : Examined(plan'[i])
    BY <2>3, <2>5
  <2>7. Examined(plan'[Len(plan) + 1])
    BY <1>2, <2>4
  <2>8. Len(plan) \in Nat
    BY <2>1
  <2> QED
    BY <2>2, <2>6, <2>7, <2>8
<1>3. CASE PlanSql
  <2>1. PICK e \in ToPlan : AddToPlan(Unfetched(e, "update", None))
    BY <1>3 DEF PlanSql
  <2>2. pc' # "write"
    BY <2>1 DEF AddToPlan
  <2> QED
    BY <1>1, <1>2, <2>1, <2>2, UnfetchedIsExamined DEF GateInv
<1>4. CASE PlanExisting
  <2>1. PICK e \in ToPlan : AddToPlan(Fetched(e, live[e.key]))
    BY <1>4 DEF PlanExisting
  <2>2. pc' # "write"
    BY <2>1 DEF AddToPlan
  <2> QED
    BY <1>1, <1>2, <2>1, <2>2, FetchedIsExamined DEF GateInv
<1>5. CASE PlanNotFound
  <2>1. PICK e \in ToPlan : AddToPlan(Unfetched(e, "create", None))
    BY <1>5 DEF PlanNotFound
  <2>2. pc' # "write"
    BY <2>1 DEF AddToPlan
  <2> QED
    BY <1>1, <1>2, <2>1, <2>2, UnfetchedIsExamined DEF GateInv
<1>6. CASE PlanFetchFails
  <2>1. PICK e \in ToPlan, text \in ErrorText : AddToPlan(Unfetched(e, "error", text))
    BY <1>6 DEF PlanFetchFails
  <2>2. pc' # "write"
    BY <2>1 DEF AddToPlan
  <2> QED
    BY <1>1, <1>2, <2>1, <2>2, UnfetchedIsExamined DEF GateInv
<1>7. CASE ReportPlan \/ BeginApply
  BY <1>1, <1>7 DEF ReportPlan, BeginApply, GateInv
<1> QED
  BY <1>3, <1>4, <1>5, <1>6, <1>7 DEF PlanStep

(* A step that leaves the plan alone and does not go on to write.          *)
LEMMA OtherKeepsGate ==
  ASSUME GateInv, TypeOK', plan' = plan \/ plan' = <<>>, pc' # "write"
  PROVE  GateInv'
<1>1. \A i \in DOMAIN plan' : Examined(plan'[i])
  <2>1. CASE plan' = plan
    BY <2>1 DEF GateInv
  <2>2. CASE plan' = <<>>
    BY <2>2
  <2> QED
    BY <2>1, <2>2
<1> QED
  BY <1>1 DEF GateInv

(* What is sent has the declared columns, whatever the second fetch finds. *)
LEMMA PrepareKeepsGate == GateInv /\ Prepare => GateInv'
<1> SUFFICES ASSUME GateInv, Prepare PROVE GateInv'
  OBVIOUS
<1>1. TypeOK /\ TypeOK'
  BY ApplyStepTyped DEF GateInv, ApplyStep
<1>2. PICK c \in Current :
        /\ Allowed(c)
        /\ LET o == live[c.entry.key]
               known == IF c.entry.kind = "table" /\ o # Absent THEN o.columns ELSE NoColumns
           IN wire' = WireColumns(c.entry.columns, known)
  BY DEF Prepare
<1> DEFINE o == live[c.entry.key]
           known == IF c.entry.kind = "table" /\ o # Absent THEN o.columns ELSE NoColumns
<1>3. o \in Live
  BY <1>1, CurrentTyped DEF TypeOK
<1>4. known \in Columns(Nat)
  BY <1>3, LiveFields, NoColumnsTyped
<1>5. c.entry.columns \in Columns(Nat)
  BY <1>1, CurrentTyped DEF Entry
<1>6. wire' = WireColumns(c.entry.columns, known)
  BY <1>2
<1> HIDE DEF known
<1>7. /\ Names(wire') = Names(c.entry.columns)
      /\ \A n \in Names(c.entry.columns) : wire'[n].datatype = c.entry.columns[n].datatype
  BY <1>4, <1>5, <1>6, WireTyped
<1>8. plan' = plan /\ next' = next /\ options' = options
  BY DEF Prepare
<1>9. \A d \in Current' : d = c
  BY <1>2, <1>8 DEF Current
<1>10. Ready(c)'
  <2>1. c.action \in {"create", "update"} /\ ~Blocked(c)
    BY <1>2 DEF Allowed, ToExecute
  <2>2. Blocked(c)' = Blocked(c)
    BY <1>8 DEF Blocked
  <2> QED
    BY <1>7, <2>1, <2>2 DEF Ready
<1>11. \A d \in Current' : Ready(d)'
  BY <1>9, <1>10
<1> QED
  BY <1>1, <1>8, <1>11 DEF GateInv

(* The other branches of the loop leave the plan alone.                    *)
LEMMA ApplyStepKeepsGate == GateInv /\ ApplyStep => GateInv'
<1> SUFFICES ASSUME GateInv, ApplyStep PROVE GateInv'
  OBVIOUS
<1>1. TypeOK'
  BY ApplyStepTyped DEF GateInv
<1>2. CASE Prepare
  BY <1>2, PrepareKeepsGate
<1>3. CASE SkipNoop
  BY <1>1, <1>3, OtherKeepsGate DEF SkipNoop
<1>4. CASE Exit
  BY <1>1, <1>4, OtherKeepsGate DEF Exit
<1>5. CASE \/ ReportFetchError \/ Block \/ WouldApply \/ PrepareFails
           \/ WriteSucceeds \/ WriteAnswerLost \/ WriteRefused
  <2>1. plan' = plan /\ pc' = "apply"
    BY <1>5 DEF ReportFetchError, Block, WouldApply, PrepareFails, WriteSucceeds,
                WriteAnswerLost, WriteRefused, Fail, Record
  <2> QED
    BY <1>1, <2>1, OtherKeepsGate
<1> QED
  BY <1>2, <1>3, <1>4, <1>5 DEF ApplyStep

(* Others change the account, and no change of the plan.                   *)
LEMMA DriftKeepsGate == GateInv /\ (\E o \in Object : Drift(o)) => GateInv'
<1> SUFFICES ASSUME GateInv, NEW o \in Object, Drift(o) PROVE GateInv'
  OBVIOUS
<1>1. TypeOK'
  BY OtherStepsTyped DEF GateInv
<1>2. plan' = plan /\ next' = next /\ options' = options /\ wire' = wire /\ pc' = pc
  BY DEF Drift, loop
<1>3. Current' = Current
  BY <1>2 DEF Current
<1>4. \A c : Ready(c)' = Ready(c)
  BY <1>2 DEF Ready, Blocked
<1> QED
  BY <1>1, <1>2, <1>3, <1>4 DEF GateInv

(* The inductive invariant: nothing gets to be written before the gate saw *)
(* all that the plan's fetch saw.                                          *)
THEOREM GateInvariant == Spec => []GateInv
<1>1. Init => GateInv
  BY TypesAtStart DEF Init, GateInv
<1>2. GateInv /\ [Next]_vars => GateInv'
  <2> SUFFICES ASSUME GateInv, [Next]_vars PROVE GateInv'
    OBVIOUS
  <2>1. CASE \E o \in Options : Start(o)
    <3>1. TypeOK'
      BY <2>1, OtherStepsTyped DEF GateInv
    <3> QED
      BY <2>1, <3>1, OtherKeepsGate DEF Start, Forget
  <2>2. CASE PlanStep
    BY <2>2, PlanStepKeepsGate
  <2>3. CASE ApplyStep
    BY <2>3, ApplyStepKeepsGate
  <2>4. CASE Crash
    <3>1. TypeOK'
      BY <2>4, OtherStepsTyped DEF GateInv
    <3> QED
      BY <2>4, <3>1, OtherKeepsGate DEF Crash, Forget
  <2>5. CASE \E o \in Object : Drift(o)
    BY <2>5, DriftKeepsGate
  <2>6. CASE UNCHANGED vars
    <3>1. TypeOK'
      BY <2>6, OtherStepsTyped DEF GateInv
    <3>2. Current' = Current /\ plan' = plan /\ pc' = pc
      BY <2>6 DEF vars, Current
    <3>3. \A c : Ready(c)' = Ready(c)
      BY <2>6 DEF vars, Ready, Blocked
    <3> QED
      BY <3>1, <3>2, <3>3 DEF GateInv
  <2> QED
    BY <2>1, <2>2, <2>3, <2>4, <2>5, <2>6 DEF Next
<1> QED
  BY <1>1, <1>2, PTL DEF Spec

(* A write of what was let through keeps what the plan saw.                *)
LEMMA WriteKeeps ==
  ASSUME GateInv, pc = "write", ~options.allow_destructive,
         NEW c \in Current, Execute(c.entry), c.entry.kind = "table"
  PROVE  KeepsWhatWasSeen(c, live[c.entry.key], live'[c.entry.key])
<1>1. Ready(c)
  BY DEF GateInv
<1>2. c.removed = {} /\ c.narrowed = {}
  BY <1>1 DEF Ready, Blocked, IsDestructive
<1>3. next \in DOMAIN plan /\ c = plan[next] /\ c.entry.key \in Object
  BY CurrentTyped DEF GateInv
<1>4. Examined(c)
  BY <1>3 DEF GateInv
<1>5. /\ Names(c.seen) \subseteq Names(c.entry.columns)
      /\ \A n \in Names(c.seen) :
           ~LossyNarrowing(c.seen[n].datatype, c.entry.columns[n].datatype)
  BY <1>1, <1>2, <1>4 DEF Examined, Ready
<1>6. live'[c.entry.key].columns = StoredColumns(wire)
  <2>1. live'[c.entry.key] = LiveAfterWrite(c.entry)
    BY <1>3 DEF Execute, GateInv, TypeOK
  <2> QED
    BY <2>1 DEF LiveAfterWrite
<1>7. Names(StoredColumns(wire)) = Names(c.entry.columns)
  BY <1>1, StoredTyped DEF GateInv, TypeOK, Ready
<1>8. \A n \in Names(c.seen) : wire[n].datatype = c.entry.columns[n].datatype
  BY <1>1, <1>5 DEF Ready
<1> QED
  BY <1>5, <1>6, <1>7, <1>8 DEF KeepsWhatWasSeen

(* The property GateHolds of the specification: whatever the manifest, the *)
(* account and what others do to it, a write without allow_destructive     *)
(* drops no column the plan saw and cuts no value of it.                   *)
THEOREM GateIsKept == Spec => GateHolds
<1> DEFINE Step ==
      ~options.allow_destructive /\ drifts' = drifts =>
        \A o \in Object : live'[o] # live[o] =>
          \E c \in Current :
            /\ c.entry.key = o
            /\ c.entry.kind = "table" /\ live[o] # Absent =>
                 KeepsWhatWasSeen(c, live[o], live'[o])
<1>1. GateInv /\ [Next]_vars => [Step]_vars
  <2> SUFFICES ASSUME GateInv, Next, ~options.allow_destructive, drifts' = drifts,
                      NEW o \in Object, live'[o] # live[o]
               PROVE  \E c \in Current :
                        /\ c.entry.key = o
                        /\ c.entry.kind = "table" /\ live[o] # Absent =>
                             KeepsWhatWasSeen(c, live[o], live'[o])
    OBVIOUS
  <2>1. drifts \in Nat
    BY ConstantsAssumption DEF GateInv, TypeOK
  <2>2. WriteSucceeds \/ WriteAnswerLost
    <3>1. ~\E d \in Object : Drift(d)
      BY <2>1 DEF Drift
    <3>2. live' # live
      OBVIOUS
    <3>3. ~\E p \in Options : Start(p)
      BY <3>2 DEF Start
    <3>4. ~PlanStep
      BY <3>2 DEF PlanStep, PlanSql, PlanExisting, PlanNotFound, PlanFetchFails,
                  AddToPlan, ReportPlan, BeginApply
    <3>5. ~Crash
      BY <3>2 DEF Crash
    <3>6. ApplyStep
      BY <3>1, <3>3, <3>4, <3>5 DEF Next
    <3> QED
      BY <3>2, <3>6 DEF ApplyStep, ReportFetchError, SkipNoop, Block, WouldApply,
                        Prepare, PrepareFails, WriteRefused, Exit
  <2>3. PICK c \in Current : pc = "write" /\ Execute(c.entry)
    BY <2>2 DEF WriteSucceeds, WriteAnswerLost
  <2>4. c.entry.key = o
    BY <2>3 DEF Execute, GateInv, TypeOK
  <2>5. c.entry.kind = "table" => KeepsWhatWasSeen(c, live[o], live'[o])
    BY <2>3, <2>4, WriteKeeps
  <2> QED
    BY <2>4, <2>5
<1>2. Spec => [][Step]_vars
  BY <1>1, GateInvariant, PTL DEF Spec
<1> QED
  BY <1>2 DEF GateHolds
=============================================================================
