--------------------------- MODULE ManifestSchema ---------------------------
(***************************************************************************)
(* The unit of desired state, one manifest object, and the key under which *)
(* the dependency graph knows it (src/snowrig/manifest/schema.py).         *)
(*                                                                         *)
(* An identifier is the sequence of its dot-separated labels, so that      *)
(* joining identifiers with dots, as the code does, is concatenation: like *)
(* the code's strings it does not remember where one identifier ended.     *)
(***************************************************************************)
EXTENDS Integers, Sequences, FiniteSets

CONSTANTS
  Label,         \* what an identifier is made of between two dots
  Datatype,      \* argument types of procedures and functions
  NoDatatype,    \* an argument that does not say its type
  MalformedRef   \* a depends_on entry without a ':'

SCHEMA_SCOPED_RESOURCES ==
  {"table", "view", "procedure", "function", "task", "stream",
   "dynamic-table", "event-table", "sequence", "pipe", "stage"}

OVERLOADABLE_RESOURCES == {"procedure", "function"}

PathParam == {"database", "schema", "name"}

Identifier == Seq(Label)

(* A signature is the list of argument types; objects that cannot be       *)
(* overloaded have none.                                                   *)
NoSignature == <<"no signature">>

ObjectKey ==
  [resource : STRING, qualified_name : Identifier,
   signature : Seq(Datatype) \cup {NoSignature}]

(* path_params is the mapping of the YAML file: only `name` is sure to be  *)
(* there, the loader checks nothing else.                                  *)
NameAnd(ps) == [{"name"} \cup ps -> Identifier]

ManifestObject ==
  [resource    : STRING,
   path_params : NameAnd({}) \cup NameAnd({"database"}) \cup NameAnd({"schema"})
                   \cup NameAnd({"database", "schema"}),
   arguments   : Seq(Datatype \cup {NoDatatype}),
   depends_on  : Seq(ObjectKey \cup {MalformedRef})]

Scope(o) ==
  CASE o.resource = "schema"                   -> "database"
    [] o.resource \in SCHEMA_SCOPED_RESOURCES  -> "schema"
    [] OTHER                                   -> "account"

(* The path_params key() indexes: it raises KeyError when one is missing,  *)
(* and so does _arg_signature_suffix for an argument without a datatype.   *)
RequiredParams(o) ==
  CASE Scope(o) = "account"  -> {}
    [] Scope(o) = "database" -> {"database", "name"}
    [] Scope(o) = "schema"   -> PathParam

HasKey(o) ==
  /\ RequiredParams(o) \subseteq DOMAIN o.path_params
  /\ o.resource \in OVERLOADABLE_RESOURCES =>
       \A i \in DOMAIN o.arguments : o.arguments[i] # NoDatatype

Key(o) ==
  LET pp == o.path_params IN
  [resource |-> o.resource,
   qualified_name |->
     CASE Scope(o) = "account"  -> pp["name"]
       [] Scope(o) = "database" -> pp["database"] \o pp["name"]
       [] Scope(o) = "schema"   -> pp["database"] \o pp["schema"] \o pp["name"],
   signature |-> IF o.resource \in OVERLOADABLE_RESOURCES
                 THEN o.arguments ELSE NoSignature]

(* The schema a schema-scoped object lives in, the database a schema lives *)
(* in, nothing for an account-level object: one level up, never two.       *)
ImplicitDependency(o) ==
  LET pp == o.path_params IN
  CASE Scope(o) = "account"  -> {}
    [] Scope(o) = "database" -> {[resource       |-> "database",
                                  qualified_name |-> pp["database"],
                                  signature      |-> NoSignature]}
    [] Scope(o) = "schema"   -> {[resource       |-> "schema",
                                  qualified_name |-> pp["database"] \o pp["schema"],
                                  signature      |-> NoSignature]}
=============================================================================
