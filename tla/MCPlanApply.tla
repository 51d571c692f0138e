---------------------------- MODULE MCPlanApply ----------------------------
(***************************************************************************)
(* A table whose manifest shortens one column and adds another in front of *)
(* it, a stage, and a procedure.                                           *)
(***************************************************************************)
EXTENDS PlanApply

CONSTANTS table, stage, proc

Short == Plain("VARCHAR", <<2>>)
Long == Plain("VARCHAR", <<3>>)

MCColumnType == {Short, Long}

MCStored(dt) == dt

Column(dt, position) == [datatype |-> dt, position |-> position]

(* A table's columns by name, in the order a, b, c.                        *)
ThreeColumns(a, b, c) == [n \in {"a", "b", "c"} |-> CASE n = "a" -> a [] n = "b" -> b [] n = "c" -> c]

TableEntry ==
  [key |-> table, kind |-> "table", setting |-> "on",
   columns |-> ThreeColumns(Column(Short, 1), Absent, Column(Long, 0))]

OtherEntry(key, kind) == [key |-> key, kind |-> kind, setting |-> "on", columns |-> NoColumns]

MCManifest == <<OtherEntry(proc, "sql"), TableEntry, OtherEntry(stage, "typed")>>

LiveTable(columns) == [setting |-> "on", columns |-> columns]

(* As declared; before the new column; with a column too long; with a      *)
(* column the manifest does not have.                                      *)
TableStates ==
  {Absent,
   LiveTable(ThreeColumns(Column(Short, 0), Absent, Column(Long, 1))),
   LiveTable(ThreeColumns(Column(Short, 0), Absent, Absent)),
   LiveTable(ThreeColumns(Column(Long, 0), Absent, Absent)),
   LiveTable(ThreeColumns(Column(Short, 1), Column(Short, 0), Absent))}

StageStates ==
  {Absent} \cup {[setting |-> s, columns |-> NoColumns] : s \in Setting}

MCLiveStates ==
  [o \in Object |-> IF o = table THEN TableStates
                    ELSE IF o = stage THEN StageStates ELSE {Absent}]

MCCaseFold(s) == s
=============================================================================
