---------------------------- MODULE ColumnsDiff ----------------------------
(***************************************************************************)
(* What the plan finds and shows of two fields of an object                *)
(* (src/snowrig/manifest/diff.py): the columns of a table, where           *)
(* _diff_list_field decides what differs and what would be lost, and two   *)
(* texts, which _values_match compares as a whole.  Both are shown as      *)
(* removed, added and unchanged rows of which those far from any change    *)
(* are left out, so a text is here a list of items that have nothing but   *)
(* a name, its lines.                                                      *)
(***************************************************************************)
EXTENDS SnowflakeTypes, SequencesExt

CONSTANTS
  Pairs,        \* <<live columns, desired columns>> that are compared
  Texts,        \* <<live text, desired text>> that are compared
  Lower,        \* of each line, the line in lower case
  Undeclared,   \* the datatype of a column the manifest only names
  Contexts      \* how many unchanged rows are shown around a change

Item == [name : STRING, datatype : Datatype]

ASSUME ContextsAssumption == Contexts \subseteq Nat

(* A text is its lines and whether the last of them is closed by a newline:*)
(* splitlines() gives the same list for both.                              *)
Line == [name : DOMAIN Lower, datatype : {Undeclared}]

Text == {text \in [lines : Seq(Line), closed : BOOLEAN] : text.lines = <<>> => ~text.closed}

(* Live columns have the types the database keeps, declared ones any.      *)
ASSUME FieldsAssumption ==
  /\ \A pair \in Pairs :
       /\ pair[1] \in Seq(Item) /\ \A i \in DOMAIN pair[1] : IsStored(pair[1][i].datatype)
       /\ pair[2] \in Seq(Item) /\ \A i \in DOMAIN pair[2] : IsDeclarable(pair[2][i].datatype)
  /\ Line \subseteq Item /\ Texts \subseteq Text \X Text

VARIABLES
  kind,       \* whether the field holds "columns" or a "text"
  live,       \* the columns as fetch() returns them, or the lines of the text
  desired,    \* the columns as the manifest declares them, or the lines
  closed,     \* of the live and of the desired text
  diff,       \* what _diff_list_field found
  rows,       \* the rendering before its window
  context,
  lines,      \* the rendering
  pc

field == <<kind, live, desired, closed>>
vars == <<kind, live, desired, closed, diff, rows, context, lines, pc>>

Init ==
  /\ \/ /\ kind = "columns" /\ closed = <<FALSE, FALSE>>
        /\ \E pair \in Pairs : live = pair[1] /\ desired = pair[2]
     \/ /\ kind = "text"
        /\ \E pair \in Texts : /\ live = pair[1].lines /\ desired = pair[2].lines
                               /\ closed = <<pair[1].closed, pair[2].closed>>
  /\ diff = [removed |-> {}, changed |-> {}, narrowed |-> {}]
  /\ rows = <<>> /\ lines = <<>>
  /\ context = 0
  /\ pc = "compare"

-----------------------------------------------------------------------------
(* _diff_list_field                                                        *)

ColumnNames(items) == {items[i].name : i \in DOMAIN items}

(* live_by_name and desired_by_name: of items with one name the last.      *)
ByName(items, n) == items[CHOOSE i \in DOMAIN items :
                            /\ items[i].name = n
                            /\ \A j \in DOMAIN items : items[j].name = n => j <= i]

(* Only what the manifest declares of a column is compared.                *)
ItemDiffers(l, d) == d.datatype # Undeclared /\ DatatypeDiffers(l.datatype, d.datatype)

Kept == ColumnNames(live) \cap ColumnNames(desired)

Altered == {n \in Kept : ItemDiffers(ByName(live, n), ByName(desired, n))}

Found ==
  [removed  |-> ColumnNames(live) \ ColumnNames(desired),
   changed  |-> Altered \cup (ColumnNames(desired) \ ColumnNames(live)),
   narrowed |-> {n \in Altered : LossyNarrowing(ByName(live, n).datatype,
                                                ByName(desired, n).datatype)}]

CompareColumns ==
  /\ pc = "compare" /\ kind = "columns"
  /\ diff' = Found
  /\ pc' = IF Found.removed = {} /\ Found.changed = {} THEN "no difference" ELSE "render"
  /\ UNCHANGED <<field, rows, context, lines>>

-----------------------------------------------------------------------------
(* _values_match, and the choice between one line and many                 *)

Lowered(text) == [i \in DOMAIN text |-> Lower[text[i].name]]

ValuesMatch == closed[1] = closed[2] /\ Lowered(live) = Lowered(desired)

HasNewline(text, isClosed) == isClosed \/ Len(text) > 1

CompareTexts ==
  /\ pc = "compare" /\ kind = "text"
  /\ pc' = IF ValuesMatch THEN "no difference"
           ELSE IF HasNewline(live, closed[1]) \/ HasNewline(desired, closed[2])
           THEN "render" ELSE "one line"
  /\ UNCHANGED <<field, diff, rows, context, lines>>

-----------------------------------------------------------------------------
(* _render_list_diff and, for items without a datatype, _render_text_diff  *)

(* External: difflib pairs equal names in increasing order, and leaves no  *)
(* pair out that would fit.                                                *)
Increasing(pairs) ==
  \A p, q \in pairs : p[1] <= q[1] => p = q \/ (p[1] < q[1] /\ p[2] < q[2])

Alignments ==
  LET equal == {p \in (DOMAIN live) \X (DOMAIN desired) : live[p[1]].name = desired[p[2]].name}
      increasing == {ps \in SUBSET equal : Increasing(ps)}
  IN {ps \in increasing : \A p \in equal \ ps : ps \cup {p} \notin increasing}

Row(status, item) == [status |-> status, item |-> item]

(* Fault: the texts of the datatypes are compared.                         *)
MatchedByText(l, d) ==
  IF l # d
  THEN <<Row("removed", l), Row("added", d)>> ELSE <<Row("context", l)>>

Matched(l, d) ==
  IF ItemDiffers(l, d)
  THEN <<Row("removed", l), Row("added", d)>> ELSE <<Row("context", l)>>

(* The new lines between a pair and the pair before it.                    *)
Behind(p, alignment) == Max({0} \cup {q[2] : q \in {q \in alignment : q[1] < p[1]}})

(* Fault: of the new lines the last is forgotten.                          *)
NewBeforeWithoutLast(p, alignment) ==
  [j \in 1..(p[2] - Behind(p, alignment) - 2) |->
     Row("added", ByName(desired, desired[Behind(p, alignment) + j].name))]

NewBefore(p, alignment) ==
  [j \in 1..(p[2] - Behind(p, alignment) - 1) |->
     Row("added", ByName(desired, desired[Behind(p, alignment) + j].name))]

(* Line by line of the old: those without a pair are removed, and before a *)
(* pair, as after the last one, come the new lines that have none.         *)
RowsOf(i, alignment) ==
  LET ends == <<Len(live) + 1, Len(desired) + 1>>
      pairs == {p \in alignment \cup {ends} : p[1] = i}
      n == live[i].name
  IN IF pairs = {} THEN <<Row("removed", ByName(live, n))>>
     ELSE NewBefore(CHOOSE p \in pairs : TRUE, alignment)
          \o (IF ends \in pairs THEN <<>> ELSE Matched(ByName(live, n), ByName(desired, n)))

Rows(alignment) == FlattenSeq([i \in 1..(Len(live) + 1) |-> RowsOf(i, alignment)])

Render ==
  /\ pc = "render"
  /\ \E alignment \in Alignments : rows' = Rows(alignment)
  /\ pc' = "window"
  /\ UNCHANGED <<field, diff, context, lines>>

-----------------------------------------------------------------------------
(* _apply_context_window                                                   *)

(* Fault: only new lines are kept.                                         *)
IsAddition(i) == rows[i].status = "added"

IsChange(i) == rows[i].status # "context"

(* Fault: the upper bound of a range is taken for its last element.        *)
ShownWithoutLast(i, c) == \E j \in DOMAIN rows : IsChange(j) /\ j - c <= i /\ i < j + c

Shown(i, c) == \E j \in DOMAIN rows : IsChange(j) /\ j - c <= i /\ i <= j + c

Omitted(count) == [status |-> "...", count |-> count]

(* Rows that are not shown come together in one line that counts them.     *)
Windowed(c) ==
  LET hidden == {i \in DOMAIN rows : ~Shown(i, c)}
      run(i) == {j \in hidden : j >= i /\ i..j \subseteq hidden}
  IN FlattenSeq([i \in DOMAIN rows |->
       IF i \notin hidden THEN <<rows[i]>>
       ELSE IF i - 1 \in hidden THEN <<>>
       ELSE <<Omitted(Cardinality(run(i)))>>])

(* Without a change there is nothing to put a window around.               *)
Lines(c) == IF \E i \in DOMAIN rows : IsChange(i) THEN Windowed(c) ELSE rows

Window ==
  /\ pc = "window"
  /\ \E c \in Contexts : context' = c /\ lines' = Lines(c)
  /\ pc' = "shown"
  /\ UNCHANGED <<field, diff, rows>>

Next == CompareColumns \/ CompareTexts \/ Render \/ Window

Spec == Init /\ [][Next]_vars

-----------------------------------------------------------------------------
(* Properties of the verdicts                                              *)

Compared == pc # "compare"

LiveType(n) == ByName(live, n).datatype
DesiredType(n) == ByName(desired, n).datatype

(* Columns on both sides whose datatypes are of one family and one number  *)
(* of parameters, all of them integers.                                    *)
OneShape ==
  {n \in Kept :
     LET l == LiveType(n)
         d == NormalizeDatatype(DesiredType(n))
     IN /\ DesiredType(n) # Undeclared
        /\ d.family = l.family /\ Len(d.params) = Len(l.params)
        /\ Matches(DesiredType(n))
        /\ \A i \in DOMAIN l.params : l.params[i] # NotAnInteger}

(* A column is only blocked for a reason: within one shape, what is called *)
(* narrowing loses values.                                                 *)
NarrowingLoses ==
  \A n \in diff.narrowed \cap OneShape : LosesValues(LiveType(n), DesiredType(n))

(* The one loss within one shape that is let through: a scale that grows   *)
(* and takes whole digits away, NUMBER(10,2) to NUMBER(10,4), where no     *)
(* parameter shrinks.  Every other loss is called narrowing.               *)
UnflaggedLossIsByScale ==
  Compared => \A n \in OneShape \ diff.narrowed :
    LosesValues(LiveType(n), DesiredType(n)) =>
      /\ LiveType(n).family = "NUMBER"
      /\ NormalizeDatatype(DesiredType(n)).params[2] > LiveType(n).params[2]

(* A column the plan calls unchanged has the type the database would keep  *)
(* for what is declared: no change of a type goes unnoticed.               *)
UnchangedIsTheSame ==
  Compared => \A n \in Kept \ diff.changed :
    kind = "columns" /\ DesiredType(n) # Undeclared => Stored(DesiredType(n)) = LiveType(n)

(* "reducing a NUMBER/DECIMAL's precision": a lower first parameter of a   *)
(* NUMBER is called narrowing, whether or not the scale is spelled out.    *)
ReducedPrecisionIsFlagged ==
  Compared => \A n \in Kept :
    /\ DesiredType(n) # Undeclared
    /\ LiveType(n).family = "NUMBER" /\ DesiredType(n).family = "NUMBER"
    /\ DesiredType(n).params # <<>> /\ DesiredType(n).params[1] < LiveType(n).params[1]
    => n \in diff.narrowed

-----------------------------------------------------------------------------
(* Properties of the rendering                                             *)

(* What _diff_list_field found, or the lines only one of the texts has.    *)
Differences == IF kind = "columns" THEN diff ELSE Found

(* The rows are the whole of both sides: without what is added they name   *)
(* the live items in their order, without what is removed the desired.     *)
NamesWithout(status) ==
  LET left == SelectSeq(rows, LAMBDA row : row.status # status)
  IN [i \in DOMAIN left |-> left[i].item.name]

NamesOf(items) == [i \in DOMAIN items |-> items[i].name]

RowsRebuildBothSides ==
  pc \in {"window", "shown"} =>
    NamesWithout("added") = NamesOf(live) /\ NamesWithout("removed") = NamesOf(desired)

Marked(statuses) ==
  {lines[k].item.name : k \in {k \in DOMAIN lines : lines[k].status \in statuses}}

(* Whoever approves a plan sees every difference: each column that would   *)
(* be dropped or changed, and each line that goes or comes, is among the   *)
(* marked ones, however small the window.                                  *)
DifferencesAreShown ==
  pc = "shown" =>
    /\ Differences.removed \cup (Differences.changed \cap ColumnNames(live))
         \subseteq Marked({"removed"})
    /\ Differences.changed \subseteq Marked({"added"})

Before(items, m, n) ==
  \E i, j \in DOMAIN items : i < j /\ items[i].name = m /\ items[j].name = n

(* An item that is there twice, or one that changed places with another.   *)
Repeated(n) == Before(live, n, n) \/ Before(desired, n, n)

Moved(n) ==
  \E m \in Kept :
    \/ Before(live, m, n) /\ Before(desired, n, m)
    \/ Before(live, n, m) /\ Before(desired, m, n)

(* The comparison and the rendering "can never disagree about whether      *)
(* something actually changed", but for the order of the columns, which    *)
(* only the rendering looks at.                                            *)
OnlyDifferencesOrMoves ==
  pc = "shown" =>
    \A n \in Marked({"removed", "added"}) :
      n \in Differences.removed \cup Differences.changed \/ Moved(n) \/ Repeated(n)

Width(line) == IF line.status = "..." THEN line.count ELSE 1

(* The row a line stands for, or the first of them.                        *)
Positions ==
  LET position[k \in 1..(Len(lines) + 1)] ==
        IF k = 1 THEN 1 ELSE position[k - 1] + Width(lines[k - 1])
  IN position

Position(k) == Positions[k]

Near(i) == \E j \in DOMAIN rows : rows[j].status # "context" /\ i - j \in (-context)..context

(* The window leaves out exactly the rows further than `context` from any  *)
(* change, one line counts each run of them, and nothing else is missing.  *)
WindowOfChanges ==
  /\ Position(Len(lines) + 1) = Len(rows) + 1
  /\ \A k \in DOMAIN lines :
       IF lines[k].status = "..."
       THEN /\ lines[k].count > 0
            /\ \A i \in Position(k)..(Position(k + 1) - 1) : ~Near(i)
            /\ k > 1 => lines[k - 1].status # "..."
       ELSE lines[k] = rows[Position(k)] /\ Near(Position(k))

(* Where no row is a change, as for texts that differ in a final newline,  *)
(* "everything is shown plainly instead" of behind a single count.         *)
WindowIsExact ==
  pc = "shown" =>
    IF \E i \in DOMAIN rows : rows[i].status # "context" THEN WindowOfChanges ELSE lines = rows
=============================================================================
