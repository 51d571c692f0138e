--------------------------- MODULE MCColumnsDiff ---------------------------
(***************************************************************************)
(* Single columns of every datatype, whose precisions, scales and lengths  *)
(* lie around each other's boundaries; short tables against every list of  *)
(* columns; texts; and a longer table for the window.                      *)
(***************************************************************************)
EXTENDS ColumnsDiff

MCDigits == 0..5 \cup {9, 37, 38, 39, 8388608, 8388609, 16777216, 16777217}

MCUndeclared == Plain("undeclared", <<>>)

(* Every name the plan's table of shorthand knows, and some it does not.   *)
Shorthand ==
  {Plain(f, <<>>) : f \in
     {"NUMBER", "DECIMAL", "NUMERIC", "INT", "INTEGER", "BIGINT", "SMALLINT", "TINYINT",
      "BYTEINT", "VARCHAR", "STRING", "TEXT", "NVARCHAR", "NVARCHAR2", "CHAR", "CHARACTER",
      "NCHAR", "BINARY", "VARBINARY", "TIME", "TIMESTAMP", "DATETIME", "TIMESTAMP_NTZ",
      "TIMESTAMP_LTZ", "TIMESTAMP_TZ",
      "DEC", "DOUBLE PRECISION", "FLOAT", "REAL", "BOOLEAN", "VARIANT"}}

Lengths == {Plain(f, <<n>>) : f \in {"VARCHAR", "BINARY", "TIME"}, n \in 1..4}

Numbers == {Plain("NUMBER", <<p, s>>) : p \in 1..4, s \in 0..1}
           \cup {Plain("NUMBER", <<p, 2>>) : p \in 2..4}

Types ==
  Shorthand \cup Lengths \cup Numbers \cup
  {Plain("VECTOR", <<NotAnInteger, 3>>), Plain("VECTOR", <<NotAnInteger, 4>>),
   Plain("NVARCHAR2", <<3>>), Plain("DECIMAL", <<4, 2>>), Plain("NUMBER", <<4>>), Plain("CHAR", <<3>>),
   Written("NUMBER", <<4, 2>>, "after comma"), Written("NUMBER", <<4, 2>>, "before parenthesis")}

Column(n, dt) == [name |-> n, datatype |-> dt]

SingleColumns == {<<<<Column("a", Stored(l))>>, <<Column("a", d)>>>> : l, d \in Types}

-----------------------------------------------------------------------------
(* Lists of up to three columns; a manifest may name one twice.            *)

LiveItems == {Column(n, dt) : n \in {"a", "b", "c"},
                            dt \in {Plain("NUMBER", <<38, 0>>), Plain("VARCHAR", <<2>>)}}

DesiredItems == {Column(n, dt) : n \in {"a", "b", "c"},
                               dt \in {Plain("NUMBER", <<>>), Plain("VARCHAR", <<2>>), MCUndeclared}}

NoRepeats(items) == \A i, j \in DOMAIN items : items[i].name = items[j].name => i = j

ShortLists ==
  {s \in UNION {[1..n -> LiveItems] : n \in 0..3} : NoRepeats(s)}
  \X {s \in UNION {[1..n -> DesiredItems] : n \in 0..3} : Len(s) = 3 => NoRepeats(s)}

-----------------------------------------------------------------------------
(* Texts of up to three lines, any of which may be equal, or but for case, *)
(* with and without a newline at the end.                                  *)

MCLower == [n \in {"a", "A", "b"} |-> IF n = "A" THEN "a" ELSE n]

ShortTexts ==
  {t \in [lines : UNION {[1..n -> Line] : n \in 0..3}, closed : BOOLEAN] :
     t.lines = <<>> => ~t.closed}

MCTexts == ShortTexts \X ShortTexts

-----------------------------------------------------------------------------
(* Seven columns of which any are dropped, changed or preceded by a new    *)
(* one.                                                                    *)

LongTable == [i \in 1..7 |-> Column(<<"a", "b", "c", "d", "e", "f", "g">>[i], Plain("VARCHAR", <<2>>))]

Edited(edits) ==
  FlattenSeq([i \in 1..7 |->
    CASE edits[i] = "keep"   -> <<LongTable[i]>>
      [] edits[i] = "drop"   -> <<>>
      [] edits[i] = "change" -> <<Column(LongTable[i].name, Plain("VARCHAR", <<3>>))>>
      [] edits[i] = "add"    -> <<Column("new", Plain("VARCHAR", <<2>>)), LongTable[i]>>])

LongLists ==
  {<<LongTable, Edited(edits)>> :
     edits \in {e \in [1..7 -> {"keep", "drop", "change", "add"}] :
                  /\ Cardinality({i \in 1..7 : e[i] # "keep"}) \in 1..2
                  /\ Cardinality({i \in 1..7 : e[i] = "add"}) <= 1}}

MCPairs == SingleColumns \cup ShortLists \cup LongLists
=============================================================================
