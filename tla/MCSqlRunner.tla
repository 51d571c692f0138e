---------------------------- MODULE MCSqlRunner ----------------------------
(***************************************************************************)
(* Two calls on one connection: queries and transactions that name no      *)
(* context, a database, or a database and a schema.                        *)
(***************************************************************************)
EXTENDS SqlRunner

Using(database, schema) ==
  [f \in Field |-> CASE f = "database" -> database [] f = "schema" -> schema [] OTHER -> NoName]

MCProfileContext == Using("DB", "S")

MCContexts == {Using(NoName, NoName), Using("OTHER", NoName), Using("DB", "S")}

Run(use, kind) == [method |-> "run", use |-> use, statements |-> <<kind>>]

Transaction(use, statements) ==
  [method |-> "run_transaction", use |-> use, statements |-> statements]

MCCalls ==
  {Run(use, kind) : use \in MCContexts, kind \in {"dml", "ddl"}} \cup
  {Transaction(use, ss) :
     use \in MCContexts,
     ss \in {<<>>, <<"dml", "dml", "dml">>, <<"dml", "ddl", "dml">>, <<"ddl", "dml">>}}

(* Transactions without a statement that commits by itself.                *)
MCPlainTransactions == {Transaction(Using("DB", "S"), <<"dml", "dml">>)}
=============================================================================
