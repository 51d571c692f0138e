--------------------------- MODULE DependencyGraph ---------------------------
(***************************************************************************)
(* build_apply_order: the order in which plan and apply visit the objects  *)
(* of a manifest (src/snowrig/manifest/graph.py).                          *)
(*                                                                         *)
(* The phases of the computation are the values of pc: build_plan_nodes    *)
(* turns the objects into nodes, the head of topological_order counts the  *)
(* prerequisites of each key, its loop is Kahn's algorithm, and it ends in *)
(* an order or in an exception.  A node is named by its position in the    *)
(* manifest.  Everything the algorithm keeps is indexed by KEY, as in the  *)
(* code, so two objects with one key share a count, a place in ready and a *)
(* by_key entry.                                                           *)
(***************************************************************************)
EXTENDS ManifestSchema

CONSTANT Manifests     \* the manifests build_apply_order may be called with

ASSUME ManifestsAssumption == Manifests \subseteq Seq(ManifestObject)

VARIABLES
  objects,     \* the argument: the manifest in the loader's order
  nodes,       \* build_plan_nodes' result
  in_degree,   \* key -> prerequisites not processed yet
  ready,       \* key -> how many times it is in the list `ready`
  ordered,     \* nodes in the order they were processed
  pc

vars == <<objects, nodes, in_degree, ready, ordered, pc>>

NoCounts == [k \in {} |-> 0]

Init ==
  /\ objects \in Manifests
  /\ nodes = <<>>
  /\ in_degree = NoCounts
  /\ ready = NoCounts
  /\ ordered = <<>>
  /\ pc = "build"

-----------------------------------------------------------------------------
(* build_plan_nodes                                                        *)

KnownKeys(os) == {Key(os[i]) : i \in DOMAIN os}

(* Fault: what the hierarchy implies is forgotten.                         *)
ExplicitPrerequisites(o, known) == {o.depends_on[j] : j \in DOMAIN o.depends_on} \cap known

(* Only prerequisites that are in the manifest themselves are kept.        *)
Prerequisites(o, known) ==
  (ImplicitDependency(o) \cup {o.depends_on[j] : j \in DOMAIN o.depends_on}) \cap known

PlanNodes(os) ==
  [i \in DOMAIN os |->
     [key |-> Key(os[i]), depends_on |-> Prerequisites(os[i], KnownKeys(os))]]

AllHaveKeys(os) == \A i \in DOMAIN os : HasKey(os[i])

AllRefsWellFormed(os) ==
  \A i \in DOMAIN os :
    \A j \in DOMAIN os[i].depends_on : os[i].depends_on[j] # MalformedRef

BuildPlanNodes ==
  /\ pc = "build"
  /\ AllHaveKeys(objects)
  /\ AllRefsWellFormed(objects)
  /\ nodes' = PlanNodes(objects)
  /\ pc' = "count"
  /\ UNCHANGED <<objects, in_degree, ready, ordered>>

MissingKeyPart ==        \* key() raises KeyError
  /\ pc = "build"
  /\ ~AllHaveKeys(objects)
  /\ pc' = "KeyError"
  /\ UNCHANGED <<objects, nodes, in_degree, ready, ordered>>

MalformedDependency ==   \* _parse_dependency_string raises DependencyError
  /\ pc = "build"
  /\ AllHaveKeys(objects)
  /\ ~AllRefsWellFormed(objects)
  /\ pc' = "malformed"
  /\ UNCHANGED <<objects, nodes, in_degree, ready, ordered>>

-----------------------------------------------------------------------------
(* topological_order                                                       *)

NodeKeys == {nodes[i].key : i \in DOMAIN nodes}

NodesOf(k) == {i \in DOMAIN nodes : nodes[i].key = k}

(* Fault: positions counted from 0.                                        *)
OrderIndexFromZero(k) == (CHOOSE i \in NodesOf(k) : \A j \in NodesOf(k) : j <= i) - 1

(* by_key and order_index: of nodes with one key the last one wins.        *)
OrderIndex(k) == CHOOSE i \in NodesOf(k) : \A j \in NodesOf(k) : j <= i

(* <<i, d>>: node i, which has key k, depends on d.                        *)
Edges(k) ==
  {e \in (DOMAIN nodes) \X NodeKeys :
     nodes[e[1]].key = k /\ e[2] \in nodes[e[1]].depends_on}

(* How many times k is in dependents[c].                                   *)
DependentCount(c, k) == Cardinality({i \in NodesOf(k) : c \in nodes[i].depends_on})

CountPrerequisites ==
  /\ pc = "count"
  /\ in_degree' = [k \in NodeKeys |-> Cardinality(Edges(k))]
  /\ ready' = [k \in NodeKeys |->
                 IF Edges(k) = {} THEN Cardinality(NodesOf(k)) ELSE 0]
  /\ pc' = "order"
  /\ UNCHANGED <<objects, nodes, ordered>>

ReadyKeys == {k \in DOMAIN ready : ready[k] > 0}

Decremented(c) == [k \in DOMAIN in_degree |-> in_degree[k] - DependentCount(c, k)]

(* Faults: a dependent is ready as soon as one prerequisite is processed;  *)
(* the count is tested before it has met 0.                                *)
ReachedByAnyPrerequisite(c) == {k \in DOMAIN in_degree : DependentCount(c, k) > 0}

ReachedBelowZero(c) == {k \in DOMAIN in_degree : in_degree[k] > 0 /\ Decremented(c)[k] < 0}

(* Reached(c): the keys whose count meets 0 while dependents[c] is walked; *)
(* a count below zero, or one that passed it before, adds nothing.         *)
Reached(c) == {k \in DOMAIN in_degree : in_degree[k] > 0 /\ Decremented(c)[k] <= 0}

(* Fault: ready is not sorted again after the first time.                  *)
ProcessUnsorted(c) ==
  /\ pc = "order"
  /\ c \in ReadyKeys
  /\ ordered = <<>> => \A k \in ReadyKeys : OrderIndex(c) <= OrderIndex(k)
  /\ ordered' = Append(ordered, OrderIndex(c))
  /\ in_degree' = Decremented(c)
  /\ ready' = [k \in DOMAIN ready |->
                 ready[k] - (IF k = c THEN 1 ELSE 0)
                          + (IF k \in Reached(c) THEN 1 ELSE 0)]
  /\ UNCHANGED <<objects, nodes, pc>>

Process(c) ==
  /\ pc = "order"
  /\ c \in ReadyKeys
  /\ \A k \in ReadyKeys : OrderIndex(c) <= OrderIndex(k)
  /\ ordered' = Append(ordered, OrderIndex(c))
  /\ in_degree' = Decremented(c)
  /\ ready' = [k \in DOMAIN ready |->
                 ready[k] - (IF k = c THEN 1 ELSE 0)
                          + (IF k \in Reached(c) THEN 1 ELSE 0)]
  /\ UNCHANGED <<objects, nodes, pc>>

ProcessReady == \E c \in ReadyKeys : Process(c)

(* Fault: whatever was processed is returned.                              *)
ReturnWhateverIsOrdered ==
  /\ pc = "order"
  /\ ReadyKeys = {}
  /\ pc' = "done"
  /\ UNCHANGED <<objects, nodes, in_degree, ready, ordered>>

ReturnOrder ==
  /\ pc = "order"
  /\ ReadyKeys = {}
  /\ Len(ordered) = Len(nodes)
  /\ pc' = "done"
  /\ UNCHANGED <<objects, nodes, in_degree, ready, ordered>>

RaiseCycle ==            \* raises DependencyError
  /\ pc = "order"
  /\ ReadyKeys = {}
  /\ Len(ordered) # Len(nodes)
  /\ pc' = "cycle"
  /\ UNCHANGED <<objects, nodes, in_degree, ready, ordered>>

(* What the error message lists.                                           *)
Remaining == NodeKeys \ {nodes[ordered[p]].key : p \in DOMAIN ordered}

Next ==
  \/ BuildPlanNodes
  \/ MissingKeyPart
  \/ MalformedDependency
  \/ CountPrerequisites
  \/ ProcessReady
  \/ ReturnOrder
  \/ RaiseCycle

(* One thread, nothing it waits for.                                       *)
Spec == Init /\ [][Next]_vars

FairSpec == Spec /\ WF_vars(Next)

-----------------------------------------------------------------------------
(* Properties                                                              *)

(* The shape of the state in every phase.                                  *)
TypeOK ==
  /\ objects \in Seq(ManifestObject)
  /\ pc \in {"build", "count", "order", "done", "cycle", "KeyError", "malformed"}
  /\ nodes = IF pc \in {"build", "KeyError", "malformed"}
             THEN <<>> ELSE PlanNodes(objects)
  /\ IF pc \in {"order", "done", "cycle"}
     THEN /\ in_degree \in [NodeKeys -> Int]
          /\ ready \in [NodeKeys -> Nat]
     ELSE in_degree = NoCounts /\ ready = NoCounts /\ ordered = <<>>
  /\ ordered \in Seq(DOMAIN nodes)

(* schema.py calls a key what "uniquely identifies a manifest object";     *)
(* nothing enforces it, so the guarantees of the order name it.            *)
UniqueKeys == \A i, j \in DOMAIN objects : Key(objects[i]) = Key(objects[j]) => i = j

(* An object is processed after every prerequisite the manifest holds,     *)
(* explicit or implied, whatever the order of the files: graph.py's "apply *)
(* never touches something before its prerequisites exist".                *)
PrerequisitesFirst ==
  \A p \in DOMAIN ordered :
    \A d \in nodes[ordered[p]].depends_on :
      \E q \in 1..(p - 1) : nodes[ordered[q]].key = d

(* A returned order is a permutation of the manifest: no object is dropped *)
(* on the way and none is applied twice.                                   *)
EveryObjectOnce ==
  pc = "done" =>
    \A i \in DOMAIN objects : \E p \in DOMAIN ordered :
      \A q \in DOMAIN ordered : ordered[q] = i <=> q = p

(* A cycle is reported only when no order exists: there are objects left   *)
(* and each of them waits for another of them.                             *)
CycleErrorJustified ==
  pc = "cycle" =>
    /\ Remaining # {}
    /\ \A i \in DOMAIN nodes :
         nodes[i].key \in Remaining => nodes[i].depends_on \cap Remaining # {}

(* The order is the manifest's own wherever prerequisites allow: an object *)
(* is overtaken by a later one only while it still waits for something     *)
(* ("process ready nodes in the order they appear").                       *)
StableOrder ==
  \A p, q \in DOMAIN ordered :
    p < q /\ ordered[q] < ordered[p] =>
      \E r \in p..(q - 1) : nodes[ordered[r]].key \in nodes[ordered[q]].depends_on

(* The hierarchy: the module's comment orders a database before its schema *)
(* and a schema before what it contains, so a database comes before        *)
(* everything in it that the manifest holds.                               *)
DatabaseOf(o) ==
  [resource |-> "database", qualified_name |-> o.path_params["database"],
   signature |-> NoSignature]

DatabasesFirst ==
  pc = "done" =>
    \A p, q \in DOMAIN ordered :
      LET o == objects[ordered[p]] IN
      Scope(o) # "account" /\ nodes[ordered[q]].key = DatabaseOf(o) => q < p

(* Counting implements placing: each object is placed when everything it   *)
(* needs is, an order is returned only when every object has its place,    *)
(* and a manifest is refused only if it cannot be read or nothing that is  *)
(* left can be placed; one or the other comes, whatever the manifest.      *)
Verdict ==
  CASE pc \in {"build", "count", "order"} -> "ordering"
    [] pc = "done"                        -> "ordered"
    [] OTHER                              -> "refused"

Abstract == INSTANCE ApplyOrder WITH verdict <- Verdict

ImplementsApplyOrder == Abstract!FairSpec

=============================================================================
