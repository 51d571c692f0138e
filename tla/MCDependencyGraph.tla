-------------------------- MODULE MCDependencyGraph --------------------------
(***************************************************************************)
(* Manifests for DependencyGraph: all dependency relations over a few      *)
(* objects, the real hierarchy in every file order, and the manifests that *)
(* name an object twice or leave out a schema.                             *)
(***************************************************************************)
EXTENDS DependencyGraph, SequencesExt

MCLabel == {"DB", "PUBLIC", "A", "B", "C", "D"}
MCDatatype == {"NUMBER", "VARCHAR"}

Object(resource, pp, args, deps) ==
  [resource |-> resource, path_params |-> pp, arguments |-> args, depends_on |-> deps]

Named(n) == [name |-> <<n>>]
InDatabase(n) == [database |-> <<"DB">>, name |-> <<n>>]
InSchema(n) == [database |-> <<"DB">>, schema |-> <<"PUBLIC">>, name |-> <<n>>]

KeyOf(resource, pp) == Key(Object(resource, pp, <<>>, <<>>))

-----------------------------------------------------------------------------
(* n account-level objects with every set of dependencies among them, of   *)
(* which at most `most` each.  All the names play the same part, so one    *)
(* order of the files is enough.                                           *)

Names == <<"A", "B", "C", "D">>

WarehouseKey(i) == KeyOf("warehouse", Named(Names[i]))

AllGraphs(n, most) ==
  {[i \in 1..n |-> Object("warehouse", Named(Names[i]), <<>>,
                          SetToSeq({WarehouseKey(d) : d \in deps[i]}))] :
     deps \in [1..n -> {ds \in SUBSET (1..n) : Cardinality(ds) <= most}]}

-----------------------------------------------------------------------------
(* The hierarchy, in every order of its files.                             *)

Database == Object("database", Named("DB"), <<>>, <<>>)
Public == Object("schema", InDatabase("PUBLIC"), <<>>, <<>>)
Table(n, deps) == Object("table", InSchema(n), <<>>, deps)
View(n, deps) == Object("view", InSchema(n), <<>>, deps)
Procedure(n, args, deps) == Object("procedure", InSchema(n), args, deps)

OtherDatabase == KeyOf("database", Named("D"))   \* managed elsewhere

TableKey(n) == KeyOf("table", InSchema(n))

(* An explicit reference to an overload carries its signature.             *)
ProcedureKey(n, args) == Key(Procedure(n, args, <<>>))

Hierarchies ==
  LET Bases == {{Database, Public, Table("A", <<>>), View("B", <<TableKey("A")>>)},
                {Database, Public, Procedure("A", <<"NUMBER">>, <<>>),
                 Procedure("A", <<"VARCHAR">>, <<ProcedureKey("A", <<"NUMBER">>)>>)},
                {Database, Public, Table("A", <<OtherDatabase>>),
                 View("B", <<TableKey("A")>>), View("C", <<TableKey("A")>>)}}
  IN UNION {SetToSeqs(b) : b \in Bases}

(* Manifests build_apply_order refuses before it has an order.             *)
Refused ==
  {<<Database, Object("table", InDatabase("A"), <<>>, <<>>)>>,
   <<Database, Public, Procedure("A", <<"NUMBER", NoDatatype>>, <<>>)>>,
   <<Database, Public, Table("A", <<MalformedRef>>)>>,
   <<Object("schema", Named("PUBLIC"), <<>>, <<>>), Table("A", <<MalformedRef>>)>>}

MCUniqueManifests ==
  {<<>>} \cup AllGraphs(3, 3) \cup AllGraphs(4, 2) \cup Hierarchies \cup Refused

-----------------------------------------------------------------------------
(* Two files for one object, each with its own dependencies.               *)

Duplicated ==
  LET w(n, ds) == Object("warehouse", Named(n), <<>>, ds)
      k(n) == KeyOf("warehouse", Named(n))
  IN [1..4 -> {w("A", <<>>), w("B", <<k("A"), k("C")>>), w("B", <<k("A")>>), w("C", <<>>)}]

MCDuplicateManifests == Duplicated

(* The schema PUBLIC comes with every database, a manifest need not list   *)
(* it; the loader sorts DB/PUBLIC/... before DB/database.yaml.             *)
MCWithoutSchema ==
  UNION {SetToSeqs(b) : b \in {{Database, Table("A", <<>>)},
                               {Database, Table("A", <<>>), View("B", <<TableKey("A")>>)}}}
  \cup Hierarchies
=============================================================================
