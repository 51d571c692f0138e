----------------------------- MODULE ApplyOrder -----------------------------
(***************************************************************************)
(* What build_apply_order promises, without counts, lists or sorting: the  *)
(* objects are placed one after the other, in whatever order, each after   *)
(* everything of the manifest it needs; a manifest that says no such order *)
(* exists, or that cannot be read, is refused.                             *)
(***************************************************************************)
EXTENDS ManifestSchema

VARIABLES
  objects,     \* the manifest, any
  ordered,     \* positions of the objects placed so far
  verdict      \* "ordering", "ordered" or "refused"

vars == <<objects, ordered, verdict>>

Placed == {ordered[p] : p \in DOMAIN ordered}

(* Nothing can be said of a manifest with an object that has no key or     *)
(* names a prerequisite in a form that is not one.                         *)
Readable ==
  \A i \in DOMAIN objects :
    /\ HasKey(objects[i])
    /\ \A j \in DOMAIN objects[i].depends_on : objects[i].depends_on[j] # MalformedRef

Needed(o) == ImplicitDependency(o) \cup {o.depends_on[j] : j \in DOMAIN o.depends_on}

(* The objects of the manifest that object i must not come before.         *)
Prerequisites(i) == {j \in DOMAIN objects : Key(objects[j]) \in Needed(objects[i])}

Placeable(i) == i \notin Placed /\ Prerequisites(i) \subseteq Placed

Init ==
  /\ objects \in Seq(ManifestObject)
  /\ ordered = <<>>
  /\ verdict = "ordering"

Place(i) ==
  /\ verdict = "ordering" /\ Readable
  /\ Placeable(i)
  /\ ordered' = Append(ordered, i)
  /\ UNCHANGED <<objects, verdict>>

Return ==
  /\ verdict = "ordering" /\ Readable
  /\ Placed = DOMAIN objects
  /\ verdict' = "ordered"
  /\ UNCHANGED <<objects, ordered>>

(* Some objects are left and each of them waits for another of them.       *)
Stuck == Placed # DOMAIN objects /\ \A i \in DOMAIN objects : ~Placeable(i)

Refuse ==
  /\ verdict = "ordering"
  /\ ~Readable \/ Stuck
  /\ verdict' = "refused"
  /\ UNCHANGED <<objects, ordered>>

Next == (\E i \in DOMAIN objects : Place(i)) \/ Return \/ Refuse

Spec == Init /\ [][Next]_vars

FairSpec == Spec /\ WF_vars(Next)
=============================================================================
