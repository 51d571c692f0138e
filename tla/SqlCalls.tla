------------------------------ MODULE SqlCalls ------------------------------
(***************************************************************************)
(* What a program asks of a SqlRunner: calls that run one statement, and   *)
(* calls that run several as one transaction (src/snowrig/sql.py).         *)
(***************************************************************************)
EXTENDS Naturals, Sequences

CONSTANTS
  Name, NoName,    \* roles, warehouses, databases and schemas, or none given
  Calls,           \* what the program may ask
  MaxCalls         \* calls on one connection

Field == {"role", "warehouse", "database", "schema"}

Context == [Field -> Name \cup {NoName}]

(* run_query and call_procedure make the requests of run.  A "ddl"         *)
(* statement commits by itself, whatever transaction it is in.             *)
Call == [method : {"run", "run_transaction"}, use : Context,
         statements : Seq({"dml", "ddl"})]

ASSUME CallsAssumption ==
  /\ Calls \subseteq Call
  /\ \A c \in Calls : c.method = "run" => Len(c.statements) = 1
  /\ MaxCalls \in Nat

Outcome == {"returned", "raised", "interrupted"}

(* The effect of statement i of the n-th call; the first k of them.        *)
Effect == [call : 1..MaxCalls, index : Nat \ {0}]

FirstEffects(n, k) == {[call |-> n, index |-> i] : i \in 1..k}

AllEffects(n, c) == FirstEffects(n, Len(c.statements))

(* How many of a call's statements may be durable together: none or all,   *)
(* and those up to a statement that commits by itself.                     *)
Boundaries(c) ==
  {0, Len(c.statements)} \cup
    UNION {{i - 1, i} : i \in {j \in DOMAIN c.statements : c.statements[j] = "ddl"}}
=============================================================================
