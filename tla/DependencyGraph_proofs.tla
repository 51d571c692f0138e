----------------------- MODULE DependencyGraph_proofs -----------------------
(***************************************************************************)
(* Proofs about DependencyGraph.  The keys stay abstract: nothing depends  *)
(* on how Key computes them.                                               *)
(***************************************************************************)
EXTENDS DependencyGraph, NumberSets, SequenceTheorems

(* The positions of a sequence are as many as it is long.                  *)
LEMMA PositionsFinite ==
  ASSUME NEW n \in Nat
  PROVE  IsFiniteSet(1..n) /\ Cardinality(1..n) = n
<1>1. IsFiniteSet(1..n) /\ Cardinality(1..n) = IF 1 > n THEN 0 ELSE n - 1 + 1
  BY FS_Interval
<1> QED BY <1>1

-----------------------------------------------------------------------------
(* The nodes                                                               *)

(* build_plan_nodes returns one node per object, under the object's key,   *)
(* and its prerequisites are keys of other nodes.                          *)
LEMMA NodeFacts ==
  ASSUME objects \in Seq(ManifestObject), nodes = PlanNodes(objects)
  PROVE  /\ DOMAIN nodes = 1..Len(nodes)
         /\ Len(nodes) \in Nat
         /\ DOMAIN nodes = DOMAIN objects
         /\ \A i \in DOMAIN nodes : /\ nodes[i].key = Key(objects[i])
                                    /\ nodes[i].key \in NodeKeys
                                    /\ nodes[i].depends_on \subseteq NodeKeys
<1>1. DOMAIN nodes = DOMAIN objects /\ DOMAIN objects = 1..Len(objects) /\ Len(objects) \in Nat
  BY DEF PlanNodes
<1>2. Len(nodes) = Len(objects)
  BY <1>1
<1>3. \A i \in DOMAIN nodes : /\ nodes[i].key = Key(objects[i])
                              /\ nodes[i].depends_on = Prerequisites(objects[i], KnownKeys(objects))
  BY <1>1 DEF PlanNodes
<1>4. KnownKeys(objects) = NodeKeys
  BY <1>1, <1>3 DEF KnownKeys, NodeKeys
<1>5. \A i \in DOMAIN nodes : nodes[i].depends_on \subseteq NodeKeys
  BY <1>3, <1>4 DEF Prerequisites
<1> QED BY <1>1, <1>2, <1>3, <1>5 DEF NodeKeys

(* What is counted is finite.                                              *)
LEMMA FiniteEdges ==
  ASSUME objects \in Seq(ManifestObject), nodes = PlanNodes(objects)
  PROVE  /\ IsFiniteSet(DOMAIN nodes)
         /\ Cardinality(DOMAIN nodes) = Len(nodes)
         /\ IsFiniteSet(NodeKeys)
         /\ \A k : IsFiniteSet(Edges(k)) /\ IsFiniteSet(NodesOf(k))
<1>1. DOMAIN nodes = 1..Len(nodes) /\ Len(nodes) \in Nat
  BY NodeFacts
<1>2. IsFiniteSet(DOMAIN nodes) /\ Cardinality(DOMAIN nodes) = Len(nodes)
  BY <1>1, PositionsFinite
<1>3. IsFiniteSet(NodeKeys)
  <2> DEFINE f == [i \in DOMAIN nodes |-> nodes[i].key]
  <2>1. f \in Surjection(DOMAIN nodes, NodeKeys)
    BY DEF Surjection, NodeKeys
  <2> QED BY <1>2, <2>1, FS_Surjection
<1>4. IsFiniteSet((DOMAIN nodes) \X NodeKeys)
  BY <1>2, <1>3, FS_Product
<1>5. \A k : Edges(k) \subseteq (DOMAIN nodes) \X NodeKeys
  BY DEF Edges
<1>6. \A k : NodesOf(k) \subseteq DOMAIN nodes
  BY DEF NodesOf
<1> QED BY <1>2, <1>3, <1>4, <1>5, <1>6, FS_Subset

(* by_key[k] is a node with key k, and the last one.                       *)
LEMMA OrderIndexFacts ==
  ASSUME objects \in Seq(ManifestObject), nodes = PlanNodes(objects), NEW k \in NodeKeys
  PROVE  /\ OrderIndex(k) \in DOMAIN nodes
         /\ nodes[OrderIndex(k)].key = k
<1>1. DOMAIN nodes = 1..Len(nodes) /\ Len(nodes) \in Nat
  BY NodeFacts
<1>2. NodesOf(k) \subseteq 1..Len(nodes) /\ NodesOf(k) # {}
  BY <1>1 DEF NodesOf, NodeKeys
<1>3. \E i \in NodesOf(k) : \A j \in NodesOf(k) : j <= i
  BY <1>1, <1>2, LastExists
<1>4. OrderIndex(k) \in NodesOf(k)
  BY <1>3 DEF OrderIndex
<1> QED BY <1>4 DEF NodesOf

-----------------------------------------------------------------------------
(* Type correctness                                                        *)

(* Every reachable state, whatever the manifests, duplicates included, has *)
(* the shape TypeOK states; in particular `ready` never holds a negative   *)
(* number of entries and order_index has an entry for each key looked up.  *)
THEOREM TypeCorrect == Spec => []TypeOK
<1>1. Init => TypeOK
  BY ManifestsAssumption DEF Init, TypeOK, NoCounts
<1>2. TypeOK /\ [Next]_vars => TypeOK'
  <2> SUFFICES ASSUME TypeOK, [Next]_vars PROVE TypeOK'
    OBVIOUS
  <2>1. CASE BuildPlanNodes
    BY <2>1 DEF BuildPlanNodes, TypeOK, NoCounts
  <2>2. CASE MissingKeyPart
    BY <2>2 DEF MissingKeyPart, TypeOK, NoCounts
  <2>3. CASE MalformedDependency
    BY <2>3 DEF MalformedDependency, TypeOK, NoCounts
  <2>4. CASE CountPrerequisites
    <3>1. objects \in Seq(ManifestObject) /\ nodes = PlanNodes(objects)
      BY <2>4 DEF CountPrerequisites, TypeOK
    <3>2. \A k \in NodeKeys : Cardinality(Edges(k)) \in Nat /\ Cardinality(NodesOf(k)) \in Nat
      BY <3>1, FiniteEdges, FS_CardinalityType
    <3>3. NodeKeys' = NodeKeys
      BY <2>4 DEF CountPrerequisites, NodeKeys
    <3>4. in_degree' \in [NodeKeys -> Int] /\ ready' \in [NodeKeys -> Nat]
      BY <2>4, <3>2 DEF CountPrerequisites
    <3> QED BY <2>4, <3>1, <3>3, <3>4 DEF CountPrerequisites, TypeOK
  <2>5. ASSUME NEW c \in ReadyKeys, Process(c) PROVE TypeOK'
    <3>1. /\ objects \in Seq(ManifestObject) /\ nodes = PlanNodes(objects)
          /\ in_degree \in [NodeKeys -> Int] /\ ready \in [NodeKeys -> Nat]
          /\ ordered \in Seq(DOMAIN nodes)
      BY <2>5 DEF Process, TypeOK
    <3>2. c \in NodeKeys /\ ready[c] > 0
      BY <3>1 DEF ReadyKeys
    <3>3. OrderIndex(c) \in DOMAIN nodes
      BY <3>1, <3>2, OrderIndexFacts
    <3>4. \A k \in NodeKeys : DependentCount(c, k) \in Nat
      <4> SUFFICES ASSUME NEW k \in NodeKeys PROVE DependentCount(c, k) \in Nat
        OBVIOUS
      <4>1. {i \in NodesOf(k) : c \in nodes[i].depends_on} \in SUBSET NodesOf(k)
        OBVIOUS
      <4>2. IsFiniteSet({i \in NodesOf(k) : c \in nodes[i].depends_on})
        BY <3>1, <4>1, FiniteEdges, FS_Subset
      <4> QED BY <4>2, FS_CardinalityType DEF DependentCount
    <3>5. NodeKeys' = NodeKeys
      BY <2>5 DEF Process, NodeKeys
    <3>6. in_degree' \in [NodeKeys -> Int]
      BY <2>5, <3>1, <3>4 DEF Process, Decremented
    <3>7. ready' \in [NodeKeys -> Nat]
      BY <2>5, <3>1, <3>2 DEF Process
    <3>8. ordered' \in Seq(DOMAIN nodes)
      BY <2>5, <3>1, <3>3 DEF Process
    <3> QED BY <2>5, <3>1, <3>5, <3>6, <3>7, <3>8 DEF Process, TypeOK
  <2>6. CASE ReturnOrder
    BY <2>6 DEF ReturnOrder, TypeOK, NodeKeys
  <2>7. CASE RaiseCycle
    BY <2>7 DEF RaiseCycle, TypeOK, NodeKeys
  <2>8. CASE UNCHANGED vars
    BY <2>8 DEF vars, TypeOK, NodeKeys
  <2> QED BY <2>1, <2>2, <2>3, <2>4, <2>5, <2>6, <2>7, <2>8 DEF Next, ProcessReady
<1> QED BY <1>1, <1>2, PTL DEF Spec

-----------------------------------------------------------------------------
(* The inductive invariant                                                 *)

Processed == {nodes[ordered[p]].key : p \in DOMAIN ordered}

(* The edges of k that processing has not removed yet.                     *)
Pending(k) == {e \in Edges(k) : e[2] \notin Processed}

(* The counts are what they stand for.                                     *)
CountsExact ==
  \A k \in NodeKeys :
    /\ in_degree[k] = Cardinality(Pending(k))
    /\ ready[k] = IF Pending(k) = {} /\ k \notin Processed THEN 1 ELSE 0

NoRepeats == \A p, q \in DOMAIN ordered : ordered[p] = ordered[q] => p = q

(* A node not processed yet that a later one has overtaken was waiting     *)
(* when that happened: the history StableOrder speaks of.                  *)
OvertakenWaits ==
  \A p \in DOMAIN ordered, i \in DOMAIN nodes :
    nodes[i].key \notin Processed /\ i < ordered[p] =>
      \E d \in nodes[i].depends_on : \A r \in 1..(p - 1) : nodes[ordered[r]].key # d

Ended ==
  pc \in {"done", "cycle"} =>
    ReadyKeys = {} /\ (pc = "done" <=> Len(ordered) = Len(nodes))

OrderInv ==
  /\ pc \in {"order", "done", "cycle"} => CountsExact
  /\ NoRepeats
  /\ PrerequisitesFirst
  /\ StableOrder
  /\ OvertakenWaits
  /\ Ended

(* With unique keys a key has one node, and its edges are that node's.     *)
LEMMA UniqueNode ==
  ASSUME UniqueKeys, objects \in Seq(ManifestObject), nodes = PlanNodes(objects),
         NEW k \in NodeKeys
  PROVE  /\ NodesOf(k) = {OrderIndex(k)}
         /\ Edges(k) = {<<OrderIndex(k), d>> : d \in nodes[OrderIndex(k)].depends_on}
         /\ \A c : DependentCount(c, k) = IF c \in nodes[OrderIndex(k)].depends_on THEN 1 ELSE 0
<1> DEFINE i == OrderIndex(k)
<1>1. i \in DOMAIN nodes /\ nodes[i].key = k
  BY OrderIndexFacts
<1>2. \A j \in DOMAIN nodes : nodes[j].key = k => j = i
  BY <1>1, NodeFacts DEF UniqueKeys
<1> HIDE DEF i
<1>3. NodesOf(k) = {i}
  BY <1>1, <1>2 DEF NodesOf
<1>4. Edges(k) = {<<i, d>> : d \in nodes[i].depends_on}
  <2>1. nodes[i].depends_on \subseteq NodeKeys
    BY <1>1, NodeFacts
  <2> QED BY <1>1, <1>2, <2>1 DEF Edges
<1>5. ASSUME NEW c
      PROVE DependentCount(c, k) = IF c \in nodes[i].depends_on THEN 1 ELSE 0
  <2>1. CASE c \in nodes[i].depends_on
    <3>1. {j \in NodesOf(k) : c \in nodes[j].depends_on} = {i}
      BY <1>3, <2>1
    <3> QED BY <2>1, <3>1, FS_Singleton DEF DependentCount
  <2>2. CASE c \notin nodes[i].depends_on
    <3>1. {j \in NodesOf(k) : c \in nodes[j].depends_on} = {}
      BY <1>3, <2>2
    <3> QED BY <2>2, <3>1, FS_EmptySet DEF DependentCount
  <2> QED BY <2>1, <2>2
<1> QED BY <1>3, <1>4, <1>5 DEF i

(* Processing c removes c from what its dependents wait for, adds to ready *)
(* the keys that waited for nothing else, and keeps the counts exact.      *)
LEMMA ProcessCounts ==
  ASSUME TypeOK, OrderInv, UniqueKeys, NEW c \in ReadyKeys, Process(c)
  PROVE  /\ CountsExact'
         /\ Processed' = Processed \cup {c}
         /\ c \in NodeKeys \ Processed
         /\ Pending(c) = {}
<1>1. /\ objects \in Seq(ManifestObject) /\ nodes = PlanNodes(objects)
      /\ in_degree \in [NodeKeys -> Int] /\ ready \in [NodeKeys -> Nat]
      /\ ordered \in Seq(DOMAIN nodes) /\ CountsExact
  BY DEF Process, TypeOK, OrderInv
<1>2. c \in NodeKeys /\ c \notin Processed /\ Pending(c) = {}
  BY <1>1 DEF ReadyKeys, CountsExact
<1>3. Processed' = Processed \cup {c}
  <2>1. /\ DOMAIN ordered' = DOMAIN ordered \cup {Len(ordered) + 1}
        /\ \A p \in DOMAIN ordered : ordered'[p] = ordered[p]
        /\ ordered'[Len(ordered) + 1] = OrderIndex(c)
    BY <1>1, <1>2, OrderIndexFacts DEF Process
  <2>2. nodes' = nodes /\ nodes[OrderIndex(c)].key = c
    BY <1>1, <1>2, OrderIndexFacts DEF Process
  <2> QED BY <2>1, <2>2 DEF Processed
<1>4. /\ nodes' = nodes /\ NodeKeys' = NodeKeys
      /\ \A k : Edges(k)' = Edges(k)
  BY DEF Process, NodeKeys, Edges
<1>5. ASSUME NEW k \in NodeKeys
      PROVE /\ in_degree'[k] = Cardinality(Pending(k)')
            /\ ready'[k] = IF Pending(k)' = {} /\ k \notin Processed' THEN 1 ELSE 0
  <2> DEFINE i == OrderIndex(k)
  <2>1. /\ Edges(k) = {<<i, d>> : d \in nodes[i].depends_on}
        /\ DependentCount(c, k) = IF c \in nodes[i].depends_on THEN 1 ELSE 0
    BY <1>1, UniqueNode
  <2>2. /\ in_degree'[k] = in_degree[k] - DependentCount(c, k)
        /\ Decremented(c)[k] = in_degree'[k]
        /\ ready'[k] = ready[k] - (IF k = c THEN 1 ELSE 0)
                        + (IF in_degree[k] > 0 /\ in_degree'[k] <= 0 THEN 1 ELSE 0)
    BY <1>1 DEF Process, Decremented, Reached
  <2>3. /\ in_degree[k] = Cardinality(Pending(k))
        /\ ready[k] = IF Pending(k) = {} /\ k \notin Processed THEN 1 ELSE 0
    BY <1>1 DEF CountsExact
  <2>4. Pending(k)' = {e \in Pending(k) : e[2] # c}
    BY <1>3, <1>4 DEF Pending
  <2>5. IsFiniteSet(Pending(k)) /\ Cardinality(Pending(k)) \in Nat
    <3>1. Pending(k) \in SUBSET Edges(k)
      BY DEF Pending
    <3>2. IsFiniteSet(Pending(k))
      BY <1>1, <3>1, FiniteEdges, FS_Subset
    <3> QED BY <3>2, FS_CardinalityType
  <2> HIDE DEF i
  <2>6. CASE c \in nodes[i].depends_on
    <3>1. <<i, c>> \in Pending(k)
      BY <2>1, <2>6, <1>2 DEF Pending
    <3>2. Pending(k)' = Pending(k) \ {<<i, c>>}
      BY <2>1, <2>4 DEF Pending
    <3>3. Cardinality(Pending(k)') = Cardinality(Pending(k)) - 1
      BY <2>5, <3>1, <3>2, FS_RemoveElement
    <3>4. Pending(k)' = {} <=> Cardinality(Pending(k)') = 0
      BY <2>5, <3>2, FS_RemoveElement, FS_EmptySet
    <3>5. k # c /\ ready[k] = 0
      BY <1>2, <2>3, <3>1
    <3>6. k \notin Processed
      <4> SUFFICES ASSUME NEW p \in DOMAIN ordered, nodes[ordered[p]].key = k PROVE FALSE
        BY DEF Processed
      <4>1. ordered[p] \in NodesOf(k)
        BY <1>1 DEF NodesOf
      <4>2. ordered[p] = i
        BY <1>1, <4>1, UniqueNode DEF i
      <4>3. \E q \in 1..(p - 1) : nodes[ordered[q]].key = c
        BY <2>6, <4>2 DEF OrderInv, PrerequisitesFirst
      <4>4. c \in Processed
        BY <1>1, <4>3 DEF Processed
      <4> QED BY <1>2, <4>4
    <3>7. in_degree'[k] = Cardinality(Pending(k)')
      BY <2>1, <2>2, <2>3, <2>6, <3>3
    <3>8. ready'[k] = IF Cardinality(Pending(k)) > 0 /\ Cardinality(Pending(k)) - 1 <= 0 THEN 1 ELSE 0
      BY <2>2, <2>3, <3>3, <3>5, <3>7
    <3> QED BY <1>3, <2>5, <3>3, <3>4, <3>5, <3>6, <3>7, <3>8
  <2>7. CASE c \notin nodes[i].depends_on
    <3>1. Pending(k)' = Pending(k)
      BY <2>1, <2>4, <2>7 DEF Pending
    <3>2. in_degree'[k] = in_degree[k]
      BY <1>1, <2>1, <2>2, <2>7
    <3>3. ready'[k] = ready[k] - (IF k = c THEN 1 ELSE 0)
      BY <1>1, <2>2, <3>2
    <3> QED BY <1>2, <1>3, <2>3, <3>1, <3>2, <3>3
  <2> QED BY <2>6, <2>7
<1> QED BY <1>2, <1>3, <1>4, <1>5 DEF CountsExact

(* The rest of the invariant across one turn of the loop: c is appended,   *)
(* all its prerequisites are behind it, and whatever it overtakes waits.   *)
LEMMA ProcessOrder ==
  ASSUME TypeOK, OrderInv, UniqueKeys, NEW c \in ReadyKeys, Process(c)
  PROVE  NoRepeats' /\ PrerequisitesFirst' /\ StableOrder' /\ OvertakenWaits'
<1> DEFINE n == Len(ordered)
           new == OrderIndex(c)
<1>1. /\ objects \in Seq(ManifestObject) /\ nodes = PlanNodes(objects)
      /\ ready \in [NodeKeys -> Nat] /\ ordered \in Seq(DOMAIN nodes)
      /\ CountsExact /\ nodes' = nodes
  BY DEF Process, TypeOK, OrderInv
<1>2. c \in NodeKeys \ Processed /\ Pending(c) = {} /\ Processed' = Processed \cup {c}
  BY ProcessCounts
<1>3. new \in DOMAIN nodes /\ nodes[new].key = c
  BY <1>1, <1>2, OrderIndexFacts
<1>4. /\ n \in Nat /\ DOMAIN ordered = 1..n /\ DOMAIN ordered' = 1..(n + 1)
      /\ \A p \in 1..n : ordered'[p] = ordered[p] /\ ordered[p] \in DOMAIN nodes
      /\ ordered'[n + 1] = new
  BY <1>1, <1>3 DEF Process
<1>5. DOMAIN nodes = 1..Len(nodes) /\ Len(nodes) \in Nat
  BY <1>1, NodeFacts
<1>6. \A p \in 1..n : nodes[ordered[p]].key \in Processed
  BY <1>4 DEF Processed
<1>7. \A d \in nodes[new].depends_on : \E r \in 1..n : nodes[ordered[r]].key = d
  <2> SUFFICES ASSUME NEW d \in nodes[new].depends_on PROVE d \in Processed
    BY <1>4 DEF Processed
  <2>1. <<new, d>> \in Edges(c)
    BY <1>1, <1>2, <1>3, NodeFacts DEF Edges
  <2> QED BY <1>2, <2>1 DEF Pending
<1> HIDE DEF n, new
<1>8. NoRepeats'
  <2>1. \A p \in 1..n : ordered[p] # new
    BY <1>2, <1>3, <1>6
  <2>2. \A p, q \in 1..n : ordered[p] = ordered[q] => p = q
    BY <1>4 DEF OrderInv, NoRepeats
  <2>3. \A p, q \in 1..(n + 1) : ordered'[p] = ordered'[q] => p = q
    BY <1>4, <2>1, <2>2
  <2> QED BY <1>4, <2>3 DEF NoRepeats
<1>9. PrerequisitesFirst'
  <2> SUFFICES ASSUME NEW p \in 1..(n + 1), NEW d \in nodes[ordered'[p]].depends_on
               PROVE  \E q \in 1..(p - 1) : nodes[ordered'[q]].key = d
    BY <1>1, <1>4 DEF PrerequisitesFirst
  <2>1. CASE p = n + 1
    BY <1>4, <1>7, <2>1
  <2>2. CASE p \in 1..n
    <3>1. PICK q \in 1..(p - 1) : nodes[ordered[q]].key = d
      BY <1>4, <2>2 DEF OrderInv, PrerequisitesFirst
    <3> QED BY <1>4, <2>2, <3>1
  <2> QED BY <1>4, <2>1, <2>2
<1>10. StableOrder'
  <2> SUFFICES ASSUME NEW p \in 1..(n + 1), NEW q \in 1..(n + 1),
                      p < q, ordered'[q] < ordered'[p]
               PROVE  \E r \in p..(q - 1) :
                        nodes[ordered'[r]].key \in nodes[ordered'[q]].depends_on
    BY <1>1, <1>4 DEF StableOrder
  <2>1. CASE q = n + 1
    <3>1. p \in 1..n /\ ordered'[p] = ordered[p] /\ new < ordered[p]
      BY <1>4, <2>1
    <3>2. PICK d \in nodes[new].depends_on :
            \A r \in 1..(p - 1) : nodes[ordered[r]].key # d
      BY <1>2, <1>3, <1>4, <3>1 DEF OrderInv, OvertakenWaits
    <3>3. PICK r \in 1..n : nodes[ordered[r]].key = d
      BY <1>7
    <3>4. r \in p..(q - 1)
      BY <1>4, <2>1, <3>1, <3>2, <3>3
    <3> QED BY <1>4, <2>1, <3>2, <3>3, <3>4
  <2>2. CASE q \in 1..n
    <3>1. p \in 1..n /\ ordered[q] < ordered[p]
      BY <1>4, <2>2
    <3>2. PICK r \in p..(q - 1) : nodes[ordered[r]].key \in nodes[ordered[q]].depends_on
      BY <1>4, <2>2, <3>1 DEF OrderInv, StableOrder
    <3>3. r \in 1..n
      BY <1>4, <2>2, <3>1
    <3> QED BY <1>4, <2>2, <3>2, <3>3
  <2> QED BY <1>4, <2>1, <2>2
<1>11. OvertakenWaits'
  <2> SUFFICES ASSUME NEW p \in 1..(n + 1), NEW i \in DOMAIN nodes,
                      nodes[i].key \notin Processed', i < ordered'[p]
               PROVE  \E d \in nodes[i].depends_on :
                        \A r \in 1..(p - 1) : nodes[ordered'[r]].key # d
    BY <1>1, <1>4 DEF OvertakenWaits
  <2>1. nodes[i].key \notin Processed /\ nodes[i].key # c
    BY <1>2
  <2>2. CASE p = n + 1
    <3> DEFINE k == nodes[i].key
    <3>1. k \in NodeKeys /\ OrderIndex(k) = i /\ i < new
      <4>1. k \in NodeKeys
        BY <1>1, NodeFacts
      <4>2. i \in NodesOf(k)
        BY DEF NodesOf
      <4>3. OrderIndex(k) = i
        BY <1>1, <4>1, <4>2, UniqueNode
      <4> QED BY <1>4, <2>2, <4>1, <4>3
    <3>2. k \notin ReadyKeys
      <4>1. new \in Int /\ i \in Int
        BY <1>3, <1>5
      <4> QED BY <3>1, <4>1 DEF Process, new
    <3>3. Pending(k) # {}
      BY <1>1, <2>1, <3>1, <3>2 DEF ReadyKeys, CountsExact
    <3>4. PICK d \in nodes[i].depends_on : d \notin Processed
      BY <1>1, <3>1, <3>3, UniqueNode DEF Pending
    <3> QED BY <1>4, <1>6, <2>2, <3>4
  <2>3. CASE p \in 1..n
    <3>1. PICK d \in nodes[i].depends_on : \A r \in 1..(p - 1) : nodes[ordered[r]].key # d
      BY <1>4, <2>1, <2>3 DEF OrderInv, OvertakenWaits
    <3> QED BY <1>4, <2>3, <3>1
  <2> QED BY <1>4, <2>2, <2>3
<1> QED BY <1>8, <1>9, <1>10, <1>11

(* Only processing disturbs the counts.                                    *)
LEMMA CountsFrame ==
  ASSUME CountsExact, UNCHANGED <<nodes, in_degree, ready, ordered>>
  PROVE  CountsExact'
<1>1. NodeKeys' = NodeKeys /\ Processed' = Processed
  BY DEF NodeKeys, Processed
<1>2. \A k : Edges(k)' = Edges(k)
  BY <1>1 DEF Edges
<1>3. \A k : Pending(k)' = Pending(k)
  BY <1>1, <1>2 DEF Pending
<1> QED BY <1>1, <1>3 DEF CountsExact

(* Every step keeps the invariant.                                         *)
LEMMA OrderInductive ==
  ASSUME TypeOK, UniqueKeys => OrderInv, [Next]_vars
  PROVE  (UniqueKeys => OrderInv)'
<1>1. objects' = objects
  BY DEF Next, vars, BuildPlanNodes, MissingKeyPart, MalformedDependency,
         CountPrerequisites, ProcessReady, Process, ReturnOrder, RaiseCycle
<1> SUFFICES ASSUME UniqueKeys PROVE OrderInv'
  BY <1>1 DEF UniqueKeys
<1>2. OrderInv
  OBVIOUS
<1>3. CASE BuildPlanNodes \/ MissingKeyPart \/ MalformedDependency
  <2>1. ordered = <<>> /\ ordered' = <<>> /\ pc' \notin {"order", "done", "cycle"}
    BY <1>3 DEF TypeOK, BuildPlanNodes, MissingKeyPart, MalformedDependency
  <2> QED BY <2>1 DEF OrderInv, NoRepeats, PrerequisitesFirst, StableOrder, OvertakenWaits, Ended
<1>4. CASE CountPrerequisites
  <2>1. ordered = <<>> /\ ordered' = <<>> /\ pc' = "order" /\ nodes' = nodes
    BY <1>4 DEF TypeOK, CountPrerequisites
  <2>2. objects \in Seq(ManifestObject) /\ nodes = PlanNodes(objects)
    BY <1>4 DEF CountPrerequisites, TypeOK
  <2>3. Processed' = {} /\ NodeKeys' = NodeKeys /\ \A k : Pending(k)' = Edges(k)
    BY <2>1 DEF Processed, NodeKeys, Pending, Edges
  <2>4. \A k \in NodeKeys : Cardinality(NodesOf(k)) = 1
    BY <2>2, UniqueNode, FS_Singleton
  <2>5. CountsExact'
    BY <1>4, <2>3, <2>4 DEF CountsExact, CountPrerequisites
  <2> QED BY <2>1, <2>5 DEF OrderInv, NoRepeats, PrerequisitesFirst, StableOrder, OvertakenWaits, Ended
<1>5. ASSUME NEW c \in ReadyKeys, Process(c) PROVE OrderInv'
  BY <1>2, <1>5, ProcessCounts, ProcessOrder DEF OrderInv, Ended, Process
<1>6. CASE ReturnOrder
  <2>1. Ended'
    BY <1>6 DEF ReturnOrder, Ended, ReadyKeys
  <2>2. CountsExact'
    BY <1>2, <1>6, CountsFrame DEF ReturnOrder, OrderInv
  <2> QED BY <1>2, <1>6, <2>1, <2>2
          DEF ReturnOrder, OrderInv, NoRepeats, PrerequisitesFirst, StableOrder, OvertakenWaits, Processed
<1>7. CASE RaiseCycle
  <2>1. Ended'
    BY <1>7 DEF RaiseCycle, Ended, ReadyKeys
  <2>2. CountsExact'
    BY <1>2, <1>7, CountsFrame DEF RaiseCycle, OrderInv
  <2> QED BY <1>2, <1>7, <2>1, <2>2
          DEF RaiseCycle, OrderInv, NoRepeats, PrerequisitesFirst, StableOrder, OvertakenWaits, Processed
<1>8. CASE UNCHANGED vars
  <2>1. CountsExact => CountsExact'
    BY <1>8, CountsFrame DEF vars
  <2> QED BY <1>2, <1>8, <2>1
          DEF vars, OrderInv, NoRepeats, PrerequisitesFirst, StableOrder,
              OvertakenWaits, Ended, ReadyKeys, Processed
<1> QED BY <1>3, <1>4, <1>5, <1>6, <1>7, <1>8 DEF Next, ProcessReady

(* OrderInv holds of every manifest whose keys are unique.                 *)
THEOREM OrderInvariant == Spec => [](UniqueKeys => OrderInv)
<1>1. Init => OrderInv
  BY DEF Init, OrderInv, NoRepeats, PrerequisitesFirst, StableOrder, OvertakenWaits, Ended
<1>2. TypeOK /\ (UniqueKeys => OrderInv) /\ [Next]_vars => (UniqueKeys => OrderInv)'
  BY OrderInductive
<1> QED BY <1>1, <1>2, TypeCorrect, PTL DEF Spec

-----------------------------------------------------------------------------
(* What the order promises                                                 *)

(* Whatever the manifest, if no two objects share a key, an object is only *)
(* ever processed behind all its prerequisites.                            *)
THEOREM OrderRespectsPrerequisites == Spec => [](UniqueKeys => PrerequisitesFirst)
<1>1. (UniqueKeys => OrderInv) => (UniqueKeys => PrerequisitesFirst)
  BY DEF OrderInv
<1> QED BY <1>1, OrderInvariant, PTL

(* ... and the order departs from the manifest's own only where it must.   *)
THEOREM OrderIsStable == Spec => [](UniqueKeys => StableOrder)
<1>1. (UniqueKeys => OrderInv) => (UniqueKeys => StableOrder)
  BY DEF OrderInv
<1> QED BY <1>1, OrderInvariant, PTL

(* ordered is injective, so it reaches every node exactly when it is as    *)
(* long as the manifest.                                                   *)
LEMMA FullLength ==
  ASSUME TypeOK, OrderInv, pc \in {"order", "done", "cycle"}
  PROVE  Len(ordered) = Len(nodes) <=> \A i \in DOMAIN nodes : \E p \in DOMAIN ordered : ordered[p] = i
<1>1. /\ objects \in Seq(ManifestObject) /\ nodes = PlanNodes(objects)
      /\ ordered \in Seq(DOMAIN nodes) /\ NoRepeats
  BY DEF TypeOK, OrderInv
<1>2. ordered \in Injection(DOMAIN ordered, DOMAIN nodes)
  BY <1>1 DEF NoRepeats, Injection, IsInjective
<1>3. IsFiniteSet(DOMAIN nodes) /\ Cardinality(DOMAIN nodes) = Len(nodes)
  BY <1>1, FiniteEdges
<1>4. Cardinality(DOMAIN ordered) = Len(ordered)
  <2>1. DOMAIN ordered = 1..Len(ordered) /\ Len(ordered) \in Nat
    BY <1>1
  <2> QED BY <2>1, PositionsFinite
<1>5. Len(ordered) = Len(nodes) <=> ordered \in Surjection(DOMAIN ordered, DOMAIN nodes)
  BY <1>2, <1>3, <1>4, FS_Injection
<1>6. ordered \in [DOMAIN ordered -> DOMAIN nodes]
  BY <1>1
<1> QED BY <1>5, <1>6 DEF Surjection

(* A returned order has every object of the manifest, once.                *)
THEOREM OrderIsPermutation == Spec => [](UniqueKeys => EveryObjectOnce)
<1>1. ASSUME TypeOK, OrderInv, pc = "done" PROVE EveryObjectOnce
  <2>1. DOMAIN nodes = DOMAIN objects
    BY <1>1, NodeFacts DEF TypeOK
  <2>2. \A i \in DOMAIN nodes : \E p \in DOMAIN ordered : ordered[p] = i
    BY <1>1, FullLength DEF OrderInv, Ended
  <2> QED BY <1>1, <2>1, <2>2 DEF EveryObjectOnce, OrderInv, NoRepeats
<1>2. TypeOK /\ (UniqueKeys => OrderInv) => (UniqueKeys => EveryObjectOnce)
  BY <1>1 DEF EveryObjectOnce
<1> QED BY <1>2, TypeCorrect, OrderInvariant, PTL

(* A cycle is reported only when there is one: a set of objects of which   *)
(* each waits for another.                                                 *)
THEOREM CycleErrorIsJustified == Spec => [](UniqueKeys => CycleErrorJustified)
<1>1. ASSUME TypeOK, OrderInv, UniqueKeys, pc = "cycle" PROVE CycleErrorJustified
  <2>1. /\ objects \in Seq(ManifestObject) /\ nodes = PlanNodes(objects)
        /\ ready \in [NodeKeys -> Nat] /\ ordered \in Seq(DOMAIN nodes)
        /\ CountsExact /\ ReadyKeys = {} /\ Len(ordered) # Len(nodes)
    BY <1>1 DEF TypeOK, OrderInv, Ended
  <2>2. Remaining = NodeKeys \ Processed
    BY DEF Remaining, Processed
  <2>3. Remaining # {}
    <3>1. PICK i \in DOMAIN nodes : \A p \in DOMAIN ordered : ordered[p] # i
      BY <1>1, <2>1, FullLength
    <3>2. nodes[i].key \in NodeKeys
      BY <2>1, NodeFacts
    <3>3. nodes[i].key \notin Processed
      <4> SUFFICES ASSUME NEW p \in DOMAIN ordered, nodes[ordered[p]].key = nodes[i].key
                   PROVE FALSE
        BY DEF Processed
      <4>1. ordered[p] \in DOMAIN nodes /\ DOMAIN nodes = DOMAIN objects
        BY <2>1, NodeFacts
      <4>2. ordered[p] = i
        BY <1>1, <2>1, <4>1, NodeFacts DEF UniqueKeys
      <4> QED BY <3>1, <4>2
    <3> QED BY <2>2, <3>2, <3>3
  <2>4. ASSUME NEW i \in DOMAIN nodes, nodes[i].key \in Remaining
        PROVE  nodes[i].depends_on \cap Remaining # {}
    <3> DEFINE k == nodes[i].key
    <3>1. k \in NodeKeys /\ k \notin Processed
      BY <2>2, <2>4
    <3>2. i = OrderIndex(k)
      BY <1>1, <2>1, <3>1, UniqueNode DEF NodesOf
    <3>3. Pending(k) # {}
      BY <2>1, <3>1 DEF ReadyKeys, CountsExact
    <3>4. PICK d \in nodes[i].depends_on : d \notin Processed
      BY <1>1, <2>1, <3>1, <3>2, <3>3, UniqueNode DEF Pending
    <3>5. d \in NodeKeys
      BY <2>1, <3>4, NodeFacts
    <3> QED BY <2>2, <3>4, <3>5
  <2> QED BY <2>3, <2>4 DEF CycleErrorJustified
<1>2. TypeOK /\ (UniqueKeys => OrderInv) => (UniqueKeys => CycleErrorJustified)
  BY <1>1 DEF CycleErrorJustified
<1> QED BY <1>2, TypeCorrect, OrderInvariant, PTL

-----------------------------------------------------------------------------
(* Counting implements placing                                             *)

(* Both specifications speak of the same schema.                           *)
LEMMA OneSchema ==
  /\ Abstract!ManifestObject = ManifestObject
  /\ \A o : /\ Abstract!HasKey(o) <=> HasKey(o)
            /\ Abstract!Key(o) = Key(o)
            /\ Abstract!ImplicitDependency(o) = ImplicitDependency(o)
<1>1. \A o : Abstract!Scope(o) = Scope(o)
  BY DEF Abstract!Scope, Scope, Abstract!SCHEMA_SCOPED_RESOURCES, SCHEMA_SCOPED_RESOURCES
<1>2. \A o : Abstract!HasKey(o) <=> HasKey(o)
  BY <1>1 DEF Abstract!HasKey, HasKey, Abstract!RequiredParams, RequiredParams,
              Abstract!PathParam, PathParam, Abstract!OVERLOADABLE_RESOURCES,
              OVERLOADABLE_RESOURCES
<1>3. \A o : Abstract!Key(o) = Key(o)
  BY <1>1 DEF Abstract!Key, Key, Abstract!NoSignature, NoSignature,
              Abstract!OVERLOADABLE_RESOURCES, OVERLOADABLE_RESOURCES
<1>4. \A o : Abstract!ImplicitDependency(o) = ImplicitDependency(o)
  BY <1>1 DEF Abstract!ImplicitDependency, ImplicitDependency,
              Abstract!NoSignature, NoSignature
<1>5. Abstract!ManifestObject = ManifestObject
  BY DEF Abstract!ManifestObject, ManifestObject, Abstract!NameAnd, NameAnd,
         Abstract!Identifier, Identifier, Abstract!ObjectKey, ObjectKey,
         Abstract!NoSignature, NoSignature
<1> QED BY <1>2, <1>3, <1>4, <1>5

(* An object has its place when its key is processed.                      *)
LEMMA PlacedIsProcessed ==
  ASSUME TypeOK, UniqueKeys, pc \in {"order", "done", "cycle"},
         NEW i \in DOMAIN nodes
  PROVE  i \in Abstract!Placed <=> nodes[i].key \in Processed
<1>1. /\ objects \in Seq(ManifestObject) /\ nodes = PlanNodes(objects)
      /\ ordered \in Seq(DOMAIN nodes)
  BY DEF TypeOK
<1>2. ASSUME NEW p \in DOMAIN ordered, nodes[ordered[p]].key = nodes[i].key
      PROVE  ordered[p] = i
  <2>1. ordered[p] \in DOMAIN nodes
    BY <1>1
  <2>2. DOMAIN nodes = DOMAIN objects
    BY <1>1, NodeFacts
  <2>3. Key(objects[ordered[p]]) = Key(objects[i])
    BY <1>1, <1>2, <2>1, NodeFacts
  <2> QED BY <2>1, <2>2, <2>3 DEF UniqueKeys
<1> QED BY <1>2 DEF Abstract!Placed, Processed

(* The keys a node depends on are those of the objects it must not come    *)
(* before.                                                                 *)
LEMMA PrerequisitesAgree ==
  ASSUME objects \in Seq(ManifestObject), nodes = PlanNodes(objects), NEW i \in DOMAIN nodes
  PROVE  /\ \A j \in Abstract!Prerequisites(i) :
              j \in DOMAIN nodes /\ nodes[j].key \in nodes[i].depends_on
         /\ \A d \in nodes[i].depends_on :
              \E j \in Abstract!Prerequisites(i) : nodes[j].key = d
<1>1. DOMAIN nodes = DOMAIN objects /\ \A j \in DOMAIN nodes : nodes[j].key = Key(objects[j])
  BY NodeFacts
<1>2. nodes[i].depends_on = Abstract!Needed(objects[i]) \cap KnownKeys(objects)
  BY <1>1, OneSchema DEF PlanNodes, Prerequisites, Abstract!Needed
<1>3. \A j \in DOMAIN nodes : Key(objects[j]) \in KnownKeys(objects)
  BY <1>1 DEF KnownKeys
<1>4. \A d \in KnownKeys(objects) : \E j \in DOMAIN nodes : Key(objects[j]) = d
  BY <1>1 DEF KnownKeys
<1> QED BY <1>1, <1>2, <1>3, <1>4, OneSchema DEF Abstract!Prerequisites

(* An object can be placed exactly when it is not processed and nothing it *)
(* depends on is left.                                                     *)
LEMMA PlaceableMeans ==
  ASSUME TypeOK, UniqueKeys, pc \in {"order", "done", "cycle"}, NEW i \in DOMAIN nodes
  PROVE  Abstract!Placeable(i) <=>
           nodes[i].key \notin Processed /\ nodes[i].depends_on \subseteq Processed
<1>1. objects \in Seq(ManifestObject) /\ nodes = PlanNodes(objects)
  BY DEF TypeOK
<1>2. /\ \A j \in Abstract!Prerequisites(i) :
           j \in DOMAIN nodes /\ nodes[j].key \in nodes[i].depends_on
      /\ \A d \in nodes[i].depends_on :
           \E j \in Abstract!Prerequisites(i) : nodes[j].key = d
  BY <1>1, PrerequisitesAgree
<1>3. \A j \in DOMAIN nodes : j \in Abstract!Placed <=> nodes[j].key \in Processed
  BY PlacedIsProcessed
<1>4. Abstract!Prerequisites(i) \subseteq Abstract!Placed
        <=> nodes[i].depends_on \subseteq Processed
  BY <1>2, <1>3
<1> QED BY <1>3, <1>4 DEF Abstract!Placeable

(* Nodes exist only of a manifest that can be read.                        *)
NodesReadable == pc \in {"count", "order", "done", "cycle"} => Abstract!Readable

(* build_plan_nodes returns nodes only of a manifest it has not refused.   *)
LEMMA NodesAreReadable == Spec => []NodesReadable
<1>1. Init => NodesReadable
  BY DEF Init, NodesReadable
<1>2. NodesReadable /\ [Next]_vars => NodesReadable'
  BY OneSchema
     DEF NodesReadable, Abstract!Readable, Next, vars, BuildPlanNodes, MissingKeyPart,
         MalformedDependency, CountPrerequisites, ProcessReady, Process, ReturnOrder,
         RaiseCycle, AllHaveKeys, AllRefsWellFormed
<1> QED BY <1>1, <1>2, PTL DEF Spec

(* Taking a ready key places its object.                                   *)
LEMMA ProcessPlaces ==
  ASSUME TypeOK, OrderInv, UniqueKeys, NodesReadable, NEW c \in ReadyKeys, Process(c)
  PROVE  \E i \in DOMAIN objects : Abstract!Place(i)
<1> DEFINE i == OrderIndex(c)
<1>1. /\ objects \in Seq(ManifestObject) /\ nodes = PlanNodes(objects)
      /\ pc = "order"
  BY DEF TypeOK, Process
<1>2. c \in NodeKeys \ Processed /\ Pending(c) = {}
  BY ProcessCounts
<1>3. i \in DOMAIN nodes /\ nodes[i].key = c /\ DOMAIN nodes = DOMAIN objects
  BY <1>1, <1>2, OrderIndexFacts, NodeFacts
<1>4. Edges(c) = {<<i, d>> : d \in nodes[i].depends_on}
  BY <1>1, <1>2, UniqueNode
<1> HIDE DEF i
<1>5. nodes[i].depends_on \subseteq Processed
  <2> SUFFICES ASSUME NEW d \in nodes[i].depends_on PROVE d \in Processed
    OBVIOUS
  <2>1. <<i, d>> \in Edges(c) /\ <<i, d>>[2] = d
    BY <1>4
  <2> QED BY <1>2, <2>1 DEF Pending
<1>6. Abstract!Placeable(i)
  BY <1>1, <1>2, <1>3, <1>5, PlaceableMeans
<1>7. ordered' = Append(ordered, i) /\ objects' = objects /\ pc' = pc
  BY DEF Process, i
<1>8. Verdict = "ordering" /\ Verdict' = Verdict
  BY <1>1, <1>7 DEF Verdict
<1>9. Abstract!Readable
  BY <1>1 DEF NodesReadable
<1> QED BY <1>3, <1>6, <1>7, <1>8, <1>9 DEF Abstract!Place

(* When nothing is ready, nothing that is left can be placed.              *)
LEMMA NothingReadyNothingPlaceable ==
  ASSUME TypeOK, OrderInv, UniqueKeys, pc = "order", ReadyKeys = {}, NEW i \in DOMAIN nodes
  PROVE  ~Abstract!Placeable(i)
<1> DEFINE k == nodes[i].key
<1>1. /\ objects \in Seq(ManifestObject) /\ nodes = PlanNodes(objects)
      /\ ready \in [NodeKeys -> Nat] /\ CountsExact
  BY DEF TypeOK, OrderInv
<1>2. k \in NodeKeys
  BY <1>1, NodeFacts
<1> SUFFICES ASSUME k \notin Processed PROVE ~(nodes[i].depends_on \subseteq Processed)
  BY PlaceableMeans
<1>3. Pending(k) # {}
  BY <1>1, <1>2 DEF ReadyKeys, CountsExact
<1>4. i = OrderIndex(k)
  BY <1>1, <1>2, UniqueNode DEF NodesOf
<1>5. Edges(k) = {<<i, d>> : d \in nodes[i].depends_on}
  BY <1>1, <1>2, <1>4, UniqueNode
<1> QED BY <1>3, <1>5 DEF Pending

(* For every manifest without duplicate keys, of any size, build_apply_order *)
(* does what ApplyOrder says: places what can be placed, returns when all is *)
(* placed and refuses only what cannot be read or has no order.              *)
THEOREM PlacingIsImplemented == Spec /\ []UniqueKeys => Abstract!Spec
<1>1. Init => Abstract!Init
  BY ManifestsAssumption, OneSchema DEF Init, Abstract!Init, Verdict
<1>2. ASSUME TypeOK, UniqueKeys => OrderInv, UniqueKeys, NodesReadable, [Next]_vars
      PROVE  [Abstract!Next]_(Abstract!vars)
  <2> USE <1>2
  <2>1. CASE BuildPlanNodes
    <3>1. UNCHANGED <<objects, ordered>> /\ Verdict' = Verdict
      BY <2>1 DEF BuildPlanNodes, Verdict
    <3> QED BY <3>1 DEF Abstract!vars
  <2>2. CASE MissingKeyPart
    <3>1. ~Abstract!Readable
      BY <2>2, OneSchema DEF MissingKeyPart, AllHaveKeys, Abstract!Readable
    <3>2. Verdict = "ordering" /\ Verdict' = "refused" /\ UNCHANGED <<objects, ordered>>
      BY <2>2 DEF MissingKeyPart, Verdict
    <3> QED BY <3>1, <3>2 DEF Abstract!Next, Abstract!Refuse
  <2>3. CASE MalformedDependency
    <3>1. ~Abstract!Readable
      BY <2>3 DEF MalformedDependency, AllRefsWellFormed, Abstract!Readable
    <3>2. Verdict = "ordering" /\ Verdict' = "refused" /\ UNCHANGED <<objects, ordered>>
      BY <2>3 DEF MalformedDependency, Verdict
    <3> QED BY <3>1, <3>2 DEF Abstract!Next, Abstract!Refuse
  <2>4. CASE CountPrerequisites
    <3>1. UNCHANGED <<objects, ordered>> /\ Verdict' = Verdict
      BY <2>4 DEF CountPrerequisites, Verdict
    <3> QED BY <3>1 DEF Abstract!vars
  <2>5. ASSUME NEW c \in ReadyKeys, Process(c) PROVE Abstract!Next
    BY <2>5, ProcessPlaces DEF Abstract!Next
  <2>6. CASE ReturnOrder
    <3>1. pc = "order" /\ Len(ordered) = Len(nodes)
      BY <2>6 DEF ReturnOrder
    <3>2. DOMAIN nodes = DOMAIN objects /\ ordered \in Seq(DOMAIN nodes)
      BY <3>1, NodeFacts DEF TypeOK
    <3>3. Abstract!Placed = DOMAIN objects
      <4>1. \A i \in DOMAIN nodes : \E p \in DOMAIN ordered : ordered[p] = i
        BY <3>1, FullLength
      <4>2. \A p \in DOMAIN ordered : ordered[p] \in DOMAIN nodes
        BY <3>2
      <4> QED BY <3>2, <4>1, <4>2 DEF Abstract!Placed
    <3>4. Verdict = "ordering" /\ Verdict' = "ordered" /\ UNCHANGED <<objects, ordered>>
      BY <2>6 DEF ReturnOrder, Verdict
    <3> QED BY <3>1, <3>3, <3>4 DEF NodesReadable, Abstract!Next, Abstract!Return
  <2>7. CASE RaiseCycle
    <3>1. pc = "order" /\ ReadyKeys = {} /\ Len(ordered) # Len(nodes)
      BY <2>7 DEF RaiseCycle
    <3>2. DOMAIN nodes = DOMAIN objects
      BY <3>1, NodeFacts DEF TypeOK
    <3>3. \A i \in DOMAIN objects : ~Abstract!Placeable(i)
      BY <3>1, <3>2, NothingReadyNothingPlaceable
    <3>4. Abstract!Placed # DOMAIN objects
      <4>1. PICK i \in DOMAIN nodes : \A p \in DOMAIN ordered : ordered[p] # i
        BY <3>1, FullLength
      <4> QED BY <3>2, <4>1 DEF Abstract!Placed
    <3>5. Verdict = "ordering" /\ Verdict' = "refused" /\ UNCHANGED <<objects, ordered>>
      BY <2>7 DEF RaiseCycle, Verdict
    <3> QED BY <3>3, <3>4, <3>5 DEF Abstract!Next, Abstract!Refuse, Abstract!Stuck
  <2>8. CASE UNCHANGED vars
    BY <2>8 DEF vars, Abstract!vars, Verdict
  <2> QED BY <2>1, <2>2, <2>3, <2>4, <2>5, <2>6, <2>7, <2>8 DEF Next, ProcessReady
<1> QED
  BY <1>1, <1>2, TypeCorrect, OrderInvariant, NodesAreReadable, PTL DEF Spec, Abstract!Spec

=============================================================================
