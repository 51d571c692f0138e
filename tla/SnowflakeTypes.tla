--------------------------- MODULE SnowflakeTypes ---------------------------
(***************************************************************************)
(* External: what Snowflake keeps for a declared datatype and which values *)
(* a type can hold, the reference the plan's verdicts are held against.    *)
(* Of Datatypes it takes the form of a type and none of the names, the     *)
(* defaults or the comparison, which are the code's: the table below is    *)
(* that of Snowflake's own documentation.                                  *)
(***************************************************************************)
EXTENDS Datatypes

CONSTANT Digits    \* sizes of values that are tried

ASSUME DigitsAssumption == Digits \subseteq Nat

(* Lengths where none is declared.                                         *)
TextLength == 16 * 1024 * 1024
BinaryLength == 8 * 1024 * 1024

(* What a family stands for where it is declared without parameters.       *)
Documented(family) ==
  IF family \in {"NUMBER", "DECIMAL", "DEC", "NUMERIC", "INT", "INTEGER", "BIGINT",
                 "SMALLINT", "TINYINT", "BYTEINT"}
  THEN Plain("NUMBER", <<38, 0>>)
  ELSE IF family \in {"FLOAT", "FLOAT4", "FLOAT8", "DOUBLE", "DOUBLE PRECISION", "REAL"}
  THEN Plain("FLOAT", <<>>)
  ELSE IF family \in {"VARCHAR", "STRING", "TEXT", "NVARCHAR", "NVARCHAR2",
                      "CHAR VARYING", "NCHAR VARYING"}
  THEN Plain("VARCHAR", <<TextLength>>)
  ELSE IF family \in {"CHAR", "CHARACTER", "NCHAR"}
  THEN Plain("VARCHAR", <<1>>)
  ELSE IF family \in {"BINARY", "VARBINARY"}
  THEN Plain("BINARY", <<BinaryLength>>)
  ELSE IF family \in {"TIMESTAMP", "DATETIME", "TIMESTAMP_NTZ"}
  THEN Plain("TIMESTAMP_NTZ", <<9>>)
  ELSE IF family \in {"TIME", "TIMESTAMP_LTZ", "TIMESTAMP_TZ"}
  THEN Plain(family, <<9>>)
  ELSE Plain(family, <<>>)

(* The type Snowflake keeps for a declaration, which is what fetch()       *)
(* returns.  Every alias is its base type, a missing scale is 0.           *)
BaseFamily(family) == Documented(family).family

Stored(dt) ==
  IF dt.params = <<>> THEN Documented(dt.family)
  ELSE Plain(BaseFamily(dt.family),
             IF BaseFamily(dt.family) = "NUMBER" /\ Len(dt.params) = 1
             THEN Append(dt.params, 0) ELSE dt.params)

(* The types fetch() returns: a base type with its parameters, or a type   *)
(* that has none.                                                          *)
Temporal == {"TIME", "TIMESTAMP_NTZ", "TIMESTAMP_LTZ", "TIMESTAMP_TZ"}

IsStored(dt) ==
  LET p == dt.params IN
  /\ dt \in Datatype /\ dt = Plain(dt.family, p)
  /\ \/ dt.family = "NUMBER" /\ Len(p) = 2 /\ p[1] \in Nat /\ p[2] \in 0..p[1]
     \/ dt.family \in {"VARCHAR", "BINARY"} \cup Temporal /\ Len(p) = 1 /\ p[1] \in Nat
     \/ dt.family = "VECTOR" /\ Len(p) = 2 /\ p[1] = NotAnInteger /\ p[2] \in Nat
     \/ p = <<>> /\ dt.family # "VECTOR" /\ Documented(dt.family) = dt

(* What may be declared: only a vector has a parameter that is no integer. *)
IsDeclarable(dt) ==
  /\ dt \in Datatype
  /\ (\E i \in DOMAIN dt.params : dt.params[i] = NotAnInteger) => dt.family = "VECTOR"

(* Whether a stored type holds a value of whole digits (or characters,     *)
(* bytes) and fractional digits.                                           *)
Holds(stored, whole, fraction) ==
  LET p == stored.params IN
  /\ stored.family = "NUMBER" => whole <= p[1] - p[2] /\ fraction <= p[2]
  /\ stored.family \in {"VARCHAR", "BINARY"} => whole <= p[1] /\ fraction = 0
  /\ stored.family = "VECTOR" => whole = p[2] /\ fraction = 0
  /\ stored.family \in Temporal => fraction <= p[1]

(* The change would lose or refuse a value the column holds today.         *)
LosesValues(live, desired) ==
  LET l == Stored(live)
      d == Stored(desired)
  IN \/ l.family # d.family
     \/ \E whole, fraction \in Digits :
          Holds(l, whole, fraction) /\ ~Holds(d, whole, fraction)
=============================================================================
