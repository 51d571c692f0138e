----------------------------- MODULE Datatypes -----------------------------
(***************************************************************************)
(* How the plan compares the datatype of a column with the one the         *)
(* manifest declares (src/snowrig/manifest/diff.py).                       *)
(*                                                                         *)
(* A datatype is the text of one, upper-cased: a family, the parameters    *)
(* between parentheses (none for shorthand), and where spaces were typed,  *)
(* because the comparison is one of texts.  A parameter is an integer or   *)
(* NotAnInteger.                                                           *)
(***************************************************************************)
EXTENDS Integers, Sequences

NotAnInteger == -1

Datatype ==
  [family : STRING, params : Seq(Nat \cup {NotAnInteger}),
   spacing : {"none", "after comma", "before parenthesis"}]

(* Where spaces were typed: "none", "after comma", "before parenthesis".   *)
Written(family, params, spacing) ==
  [family |-> family, params |-> params, spacing |-> spacing]

Plain(family, params) == Written(family, params, "none")

NumberNames == {"NUMBER", "DECIMAL", "NUMERIC", "INT", "INTEGER", "BIGINT",
                "SMALLINT", "TINYINT", "BYTEINT"}

(* Fault: a CHAR is taken for a text of any length.                        *)
TextAndCharNames == {"VARCHAR", "STRING", "TEXT", "NVARCHAR", "NVARCHAR2",
                     "CHAR", "CHARACTER", "NCHAR"}

TextNames == {"VARCHAR", "STRING", "TEXT", "NVARCHAR", "NVARCHAR2"}

CharNames == {"CHAR", "CHARACTER", "NCHAR"}
BinaryNames == {"BINARY", "VARBINARY"}
NtzNames == {"TIMESTAMP", "DATETIME", "TIMESTAMP_NTZ"}

(* The longest text and the longest binary value.                          *)
MaxText == 16 * 1024 * 1024
MaxBinary == 8 * 1024 * 1024

(* _DATATYPE_DEFAULTS.                                                     *)
Default(dt) ==
  IF dt.family \in NumberNames THEN Plain("NUMBER", <<38, 0>>)
  ELSE IF dt.family \in TextNames THEN Plain("VARCHAR", <<MaxText>>)
  ELSE IF dt.family \in CharNames THEN Plain("VARCHAR", <<1>>)
  ELSE IF dt.family \in BinaryNames THEN Plain("BINARY", <<MaxBinary>>)
  ELSE IF dt.family \in NtzNames THEN Plain("TIMESTAMP_NTZ", <<9>>)
  ELSE IF dt.family \in {"TIME", "TIMESTAMP_LTZ", "TIMESTAMP_TZ"} THEN Plain(dt.family, <<9>>)
  ELSE dt

(* A text with a parenthesis is taken as fully qualified already.          *)
NormalizeDatatype(dt) == IF dt.params = <<>> THEN Default(dt) ELSE dt

(* Families written with a digit or a space.                               *)
IrregularNames == {"NVARCHAR2", "FLOAT4", "FLOAT8", "DOUBLE PRECISION",
                   "CHAR VARYING", "NCHAR VARYING"}

(* Whether the regular expression, a word of letters and underscores and   *)
(* at once its parenthesis, matches the text.                              *)
Matches(dt) == dt.spacing # "before parenthesis" /\ dt.family \notin IrregularNames

(* The family and parameters it finds.  A text it does not match is a      *)
(* family of its own; parameters that are not all integers are none.       *)
ParsedFamily(dt) ==
  IF Matches(dt) THEN <<dt.family>> ELSE <<dt.family, dt.params, dt.spacing>>

ParsedParams(dt) ==
  IF Matches(dt) /\ \A i \in DOMAIN dt.params : dt.params[i] # NotAnInteger
  THEN dt.params ELSE <<>>

(* Fault: only the families are compared.                                  *)
FamilyDiffers(live, desired) ==
  NormalizeDatatype(live).family # NormalizeDatatype(desired).family

DatatypeDiffers(live, desired) == NormalizeDatatype(live) # NormalizeDatatype(desired)

(* Faults: growth counts as loss; the arguments are swapped; only the      *)
(* first parameter is looked at.                                           *)
SomeParamChanges(live, desired) == \E i \in DOMAIN live : desired[i] # live[i]

FirstParamShrinks(live, desired) == desired[1] < live[1]

SomeParamShrinks(live, desired) == \E i \in DOMAIN live : desired[i] < live[i]

(* _is_lossy_datatype_narrowing.                                           *)
LossyNarrowing(live, desired) ==
  LET l == NormalizeDatatype(live)
      d == NormalizeDatatype(desired)
      lp == ParsedParams(l)
      dp == ParsedParams(d)
  IN /\ l # d
     /\ \/ ParsedFamily(l) # ParsedFamily(d)
        \/ /\ lp # <<>> /\ dp # <<>> /\ Len(lp) = Len(dp)
           /\ SomeParamShrinks(lp, dp)
=============================================================================
