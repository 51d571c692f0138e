---------------------------- MODULE AtomicCalls ----------------------------
(***************************************************************************)
(* What a SqlRunner promises, without connection, autocommit or rollback:  *)
(* calls are made one after the other, the effects of each become durable  *)
(* whole, "all commit together, or none do", and a call that returns has   *)
(* made all of its effects durable.                                        *)
(*                                                                         *)
(* The promise ends when the clean-up of a transaction is cut short        *)
(* (Expose): what was executed may then become durable in part and later.  *)
(***************************************************************************)
EXTENDS SqlCalls

VARIABLES
  calls,      \* the calls made so far
  reports,    \* how the finished ones ended
  durable,    \* effects that are there to stay
  exposed

vars == <<calls, reports, durable, exposed>>

Init == calls = <<>> /\ reports = <<>> /\ durable = {} /\ exposed = FALSE

Running == Len(reports) < Len(calls)

Begin ==
  /\ ~Running /\ Len(calls) < MaxCalls
  /\ \E c \in Calls : calls' = Append(calls, c)
  /\ UNCHANGED <<reports, durable, exposed>>

(* The running call comes to a boundary.                                   *)
Commit ==
  /\ Running
  /\ \E b \in Boundaries(calls[Len(calls)]) :
       durable' = durable \cup FirstEffects(Len(calls), b)
  /\ UNCHANGED <<calls, reports, exposed>>

Return ==
  /\ Running
  /\ AllEffects(Len(calls), calls[Len(calls)]) \subseteq durable \/ exposed
  /\ reports' = Append(reports, "returned")
  /\ UNCHANGED <<calls, durable, exposed>>

Fail ==
  /\ Running
  /\ \E o \in Outcome \ {"returned"} : reports' = Append(reports, o)
  /\ UNCHANGED <<calls, durable, exposed>>

(* From here on nothing is said of when effects become durable.            *)
Expose ==
  /\ Running \/ exposed
  /\ exposed' = TRUE
  /\ durable \subseteq durable'
  /\ durable' \subseteq UNION {AllEffects(n, calls[n]) : n \in DOMAIN calls}
  /\ UNCHANGED <<calls, reports>>

Next == Begin \/ Commit \/ Return \/ Fail \/ Expose

Spec == Init /\ [][Next]_vars

(* A call ends, one way or the other.                                      *)
FairSpec == Spec /\ WF_vars(Return \/ Fail)
=============================================================================
