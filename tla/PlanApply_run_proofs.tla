------------------------ MODULE PlanApply_run_proofs ------------------------
(***************************************************************************)
(* Proofs about a whole run of PlanApply, for every manifest and every     *)
(* account: what a run that changes nothing may do, how the results follow *)
(* the plan and make the exit code, and, when nobody else interferes, what *)
(* is written, in which order, and what a run that ends well leaves.       *)
(***************************************************************************)
EXTENDS PlanApply_proofs

-----------------------------------------------------------------------------
(* The strengthened invariant                                              *)

(* The plan is the manifest's, object by object; the loop begins with all  *)
(* of it, and only a real apply gets to write.                             *)
PlanInv ==
  /\ \A i \in DOMAIN plan :
       /\ plan[i].entry = Manifest[i]
       /\ plan[i].action = "error" => plan[i].error # None
  /\ pc \in {"apply", "write", "exited"} => Len(plan) = Len(Manifest)
  /\ pc \in {"apply", "write"} => options.command = "apply"
  /\ pc = "write" => ~options.dry_run /\ next \in DOMAIN plan
  /\ pc = "plan" => next = 1 /\ results = <<>>

(* While nobody interferes, the account is as the plan found it from the   *)
(* change on that the loop looks at.                                       *)
AsFound(c) ==
  LET o == live[c.entry.key] IN
  /\ c.action = "create" => o = Absent
  /\ c.action = "update" /\ c.entry.kind # "sql" => o # Absent /\ HasDiff(c.entry, o)
  /\ c.action = "noop" => o # Absent /\ ~HasDiff(c.entry, o)
  /\ IsDestructive(c) => o # Absent

Running == pc \in {"plan", "apply", "write"}

FoundInv ==
  undisturbed /\ Running => \A i \in DOMAIN plan : i >= next => AsFound(plan[i])

(* The columns that are about to be sent are ordered by those there are.   *)
WireInv ==
  undisturbed /\ pc = "write" =>
    \A c \in Current :
      c.entry.kind = "table" /\ live[c.entry.key] # Absent =>
        wire = WireColumns(c.entry.columns, live[c.entry.key].columns)

(* With stop_on_error the loop passes nothing that is not there.           *)
EarlierInv ==
  undisturbed /\ pc \in {"apply", "write"} /\ options.stop_on_error /\ ~options.dry_run
      /\ next <= Len(plan) =>
    \A i \in DOMAIN plan : i < next => live[plan[i].entry.key] # Absent

(* What the loop passed is as declared, or a result tells.                 *)
AsDeclared(e) ==
  e.kind # "sql" => live[e.key] # Absent /\ ~HasDiff(e, live[e.key])

SomethingWrong == \E i \in DOMAIN results : results[i].blocked \/ Failed(results[i])

AppliedInv ==
  undisturbed /\ pc \in {"apply", "write"} /\ ~options.dry_run =>
    SomethingWrong \/ \A i \in DOMAIN plan : i < next => AsDeclared(plan[i].entry)

(* The results, until the next run begins.                                 *)
ReportedInv ==
  pc = "exited" /\ options.command = "apply" =>
    /\ next > Len(plan)
    /\ (next = Len(plan) + 1 /\ Follows(Len(plan))) \/ StoppedEarly
    /\ exit_code = ExitCode

-----------------------------------------------------------------------------
(* The plan                                                                *)

(* What compute_plan looks at next is the manifest's next object.          *)
LEMMA ToPlanIsNext ==
  ASSUME TypeOK, NEW e \in ToPlan
  PROVE  /\ Len(plan) + 1 \in DOMAIN Manifest /\ e = Manifest[Len(plan) + 1]
         /\ e \in Entry /\ e.key \in Object
<1>1. Len(plan) + 1 \in DOMAIN Manifest /\ e = Manifest[Len(plan) + 1]
  BY DEF ToPlan
<1>2. e \in Entry
  BY <1>1, ConstantsAssumption
<1> QED
  BY <1>1, <1>2 DEF Entry

(* A step of compute_plan adds the change of that object, and nothing that *)
(* the changes before it say is touched; what it says is true of the       *)
(* account as it is.                                                       *)
PlansNext(c) ==
  /\ pc = "plan" /\ pc' = "plan"
  /\ plan' = Append(plan, c)
  /\ Len(plan) + 1 \in DOMAIN Manifest /\ c.entry = Manifest[Len(plan) + 1]
  /\ c.action = "error" => c.error # None
  /\ AsFound(c)
  /\ UNCHANGED <<live, options, loop, exit_code, counts, history>>

(* What a fetch says of an object that exists.                             *)
LEMMA FetchedAsFound ==
  ASSUME NEW e, live[e.key] # Absent
  PROVE  /\ AsFound(Fetched(e, live[e.key])) /\ Fetched(e, live[e.key]).entry = e
         /\ Fetched(e, live[e.key]).action # "error"
<1> DEFINE c == Fetched(e, live[e.key])
<1>1. c.entry = e /\ c.action = IF HasDiff(e, live[e.key]) THEN "update" ELSE "noop"
  BY DEF Fetched
<1> HIDE DEF c
<1>2. AsFound(c)
  BY <1>1 DEF AsFound
<1> QED
  BY <1>1, <1>2 DEF c

(* What is said of an object without its columns loses nothing.            *)
LEMMA UnfetchedAsFound ==
  ASSUME NEW e, NEW action, NEW error,
         action = "create" => live[e.key] = Absent,
         action = "update" => e.kind = "sql",
         action # "noop"
  PROVE  /\ AsFound(Unfetched(e, action, error)) /\ Unfetched(e, action, error).entry = e
         /\ Unfetched(e, action, error).action = action
         /\ Unfetched(e, action, error).error = error
<1> DEFINE c == Unfetched(e, action, error)
<1>1. /\ c.entry = e /\ c.action = action /\ c.error = error
      /\ c.removed = {} /\ c.narrowed = {}
  BY DEF Unfetched
<1> HIDE DEF c
<1>2. AsFound(c)
  BY <1>1 DEF AsFound, IsDestructive
<1> QED
  BY <1>1, <1>2 DEF c

(* Every branch of compute_plan appends one change that is as found, and   *)
(* the end of the plan leaves it as it is.                                 *)
LEMMA PlanStepPlansNext ==
  ASSUME TypeOK, PlanStep
  PROVE  (\E c : PlansNext(c)) \/ ReportPlan \/ BeginApply
<1>1. CASE PlanSql
  <2>1. PICK e \in ToPlan : e.kind = "sql" /\ AddToPlan(Unfetched(e, "update", None))
    BY <1>1 DEF PlanSql
  <2> DEFINE c == Unfetched(e, "update", None)
  <2>2. c.entry = e /\ c.action # "error" /\ AsFound(c)
    BY <2>1, UnfetchedAsFound
  <2>3. AddToPlan(c)
    BY <2>1
  <2> HIDE DEF c
  <2>4. PlansNext(c)
    BY <2>2, <2>3, ToPlanIsNext DEF AddToPlan, PlansNext
  <2> QED
    BY <2>4
<1>2. CASE PlanExisting
  <2>1. PICK e \in ToPlan : live[e.key] # Absent /\ AddToPlan(Fetched(e, live[e.key]))
    BY <1>2 DEF PlanExisting
  <2> DEFINE c == Fetched(e, live[e.key])
  <2>2. c.entry = e /\ c.action # "error" /\ AsFound(c)
    BY <2>1, FetchedAsFound
  <2>3. AddToPlan(c)
    BY <2>1
  <2> HIDE DEF c
  <2>4. PlansNext(c)
    BY <2>2, <2>3, ToPlanIsNext DEF AddToPlan, PlansNext
  <2> QED
    BY <2>4
<1>3. CASE PlanNotFound
  <2>1. PICK e \in ToPlan :
          live[e.key] = Absent /\ AddToPlan(Unfetched(e, "create", None))
    BY <1>3 DEF PlanNotFound
  <2> DEFINE c == Unfetched(e, "create", None)
  <2>2. c.entry = e /\ c.action # "error" /\ AsFound(c)
    BY <2>1, UnfetchedAsFound
  <2>3. AddToPlan(c)
    BY <2>1
  <2> HIDE DEF c
  <2>4. PlansNext(c)
    BY <2>2, <2>3, ToPlanIsNext DEF AddToPlan, PlansNext
  <2> QED
    BY <2>4
<1>4. CASE PlanFetchFails
  <2>1. PICK e \in ToPlan, text \in ErrorText : AddToPlan(Unfetched(e, "error", text))
    BY <1>4 DEF PlanFetchFails
  <2> DEFINE c == Unfetched(e, "error", text)
  <2>2. c.entry = e /\ c.error # None /\ AsFound(c)
    BY <2>1, UnfetchedAsFound, ConstantsAssumption
  <2>3. AddToPlan(c)
    BY <2>1
  <2> HIDE DEF c
  <2>4. PlansNext(c)
    BY <2>2, <2>3, ToPlanIsNext DEF AddToPlan, PlansNext
  <2> QED
    BY <2>4
<1> QED
  BY <1>1, <1>2, <1>3, <1>4 DEF PlanStep

(* The plan after one more change: the old ones, and the new one.          *)
LEMMA PlanWithOneMore ==
  ASSUME TypeOK, NEW c, PlansNext(c), NEW i \in DOMAIN plan'
  PROVE  \/ i \in DOMAIN plan /\ plan'[i] = plan[i]
         \/ i = Len(plan) + 1 /\ plan'[i] = c
BY DEF PlansNext, TypeOK

(* The plan follows the manifest in every step.                            *)
LEMMA PlanStepKeepsPlan == TypeOK /\ PlanInv /\ PlanStep => PlanInv'
<1> SUFFICES ASSUME TypeOK, PlanInv, PlanStep PROVE PlanInv'
  OBVIOUS
<1>1. ASSUME NEW c, PlansNext(c) PROVE PlanInv'
  <2>1. ASSUME NEW i \in DOMAIN plan'
        PROVE  plan'[i].entry = Manifest[i] /\ (plan'[i].action = "error" => plan'[i].error # None)
    BY <1>1, <2>1, PlanWithOneMore DEF PlansNext, PlanInv
  <2>2. pc' = "plan" /\ pc = "plan" /\ next' = next /\ results' = results
    BY <1>1 DEF PlansNext, loop
  <2> QED
    BY <2>1, <2>2 DEF PlanInv
<1>2. CASE ReportPlan
  BY <1>2 DEF ReportPlan, PlanInv, loop
<1>3. CASE BeginApply
  BY <1>3 DEF BeginApply, PlanInv, loop
<1> QED
  BY <1>1, <1>2, <1>3, PlanStepPlansNext

-----------------------------------------------------------------------------
(* The loop                                                                *)

(* No two changes of the plan are about one object.                        *)
LEMMA KeyIsOwn ==
  ASSUME TypeOK, PlanInv, NEW i \in DOMAIN plan, NEW j \in DOMAIN plan, i # j
  PROVE  plan[i].entry.key # plan[j].entry.key
<1>1. i \in DOMAIN Manifest /\ j \in DOMAIN Manifest
  BY ConstantsAssumption DEF TypeOK
<1> QED
  BY <1>1, ConstantsAssumption DEF PlanInv

(* A write makes one object what it writes, and nothing else.              *)
LEMMA WriteChanges ==
  ASSUME TypeOK, PlanInv, NEW c \in Current, Execute(c.entry)
  PROVE  /\ live'[c.entry.key] = LiveAfterWrite(c.entry)
         /\ live'[c.entry.key] # Absent
         /\ \A o \in Object : o # c.entry.key => live'[o] = live[o]
         /\ \A i \in DOMAIN plan : i # next =>
              live'[plan[i].entry.key] = live[plan[i].entry.key]
<1>1. /\ c.entry \in Entry /\ c.entry.key \in Object
      /\ next \in DOMAIN plan /\ c = plan[next]
  BY CurrentTyped
<1>2. live \in [Object -> Live]
  BY DEF TypeOK
<1>3. live' = [live EXCEPT ![c.entry.key] = LiveAfterWrite(c.entry)]
  BY DEF Execute
<1>4. live'[c.entry.key] = LiveAfterWrite(c.entry)
  BY <1>1, <1>2, <1>3
<1>5. LiveAfterWrite(c.entry) # Absent
  <2>1. (IF c.entry.kind = "table" THEN StoredColumns(wire) ELSE NoColumns) \in Columns(Nat)
    BY StoredTyped, NoColumnsTyped DEF TypeOK
  <2>2. LiveAfterWrite(c.entry) \in [setting : Setting, columns : Columns(Nat)]
    BY <1>1, <2>1 DEF LiveAfterWrite, Entry
  <2> QED
    BY <2>2, ConstantsAssumption
<1>6. \A o \in Object : o # c.entry.key => live'[o] = live[o]
  BY <1>2, <1>3
<1>7. ASSUME NEW i \in DOMAIN plan, i # next
      PROVE  live'[plan[i].entry.key] = live[plan[i].entry.key]
  <2>1. plan[i].entry.key # c.entry.key
    BY <1>1, <1>7, KeyIsOwn
  <2>2. plan[i].entry.key \in Object
    <3>1. plan[i] \in Change
      BY DEF TypeOK
    <3>2. plan[i].entry \in Entry
      BY <3>1 DEF Change
    <3> QED
      BY <3>2 DEF Entry
  <2> QED
    BY <1>6, <2>1, <2>2
<1> QED
  BY <1>4, <1>5, <1>6, <1>7

(* A result takes the loop past the change it looks at.                    *)
LEMMA RecordPasses ==
  ASSUME TypeOK, NEW c \in Current, NEW r, NEW break \in BOOLEAN, Record(r, break)
  PROVE  /\ next' = (IF break THEN Len(plan) + 1 ELSE next + 1)
         /\ next' > next /\ next' \in Nat /\ pc' = "apply"
         /\ results' = Append(results, r)
         /\ UNCHANGED <<plan, options, undisturbed, settled, exit_code>>
<1>1. next \in 1..Len(plan) /\ Len(plan) \in Nat
  BY CurrentTyped DEF TypeOK
<1>2. next' = (IF break THEN Len(plan) + 1 ELSE next + 1)
  BY DEF Record
<1>3. next' > next /\ next' \in Nat
  BY <1>1, <1>2
<1> QED
  BY <1>2, <1>3 DEF Record, history

(* What is written is no no-op, and the run is a real one.                 *)
LEMMA WritesExecute ==
  ASSUME GateInv, PlanInv, pc = "write", NEW c \in Current
  PROVE  c.action # "noop" /\ ~options.dry_run
BY DEF GateInv, Ready, PlanInv

(* What a step of the loop may be: nothing, a look ahead, the end, or a    *)
(* result.  Only a write changes the account, and only a failure under     *)
(* stop_on_error breaks the loop.                                          *)
LEMMA WhatTheLoopDoes ==
  ASSUME GateInv, PlanInv, ApplyStep
  PROVE  \/ SkipNoop
         \/ Prepare
         \/ Exit
         \/ \E c \in Current, text \in ErrorText :
              /\ c.action # "noop" /\ Fail(c, text)
              /\ live' = live \/ (~options.dry_run /\ pc = "write" /\ Execute(c.entry))
         \/ \E c \in Current :
              /\ c.action # "noop" /\ IsDestructive(c) /\ ~options.allow_destructive
              /\ live' = live
              /\ Record(Result(c, "blocked", TRUE), FALSE)
         \/ \E c \in Current :
              /\ c.action # "noop" /\ options.dry_run /\ live' = live
              /\ Record(Result(c, None, FALSE), FALSE)
         \/ \E c \in Current :
              /\ c.action # "noop" /\ ~options.dry_run /\ pc = "write" /\ Execute(c.entry)
              /\ Record(Result(c, None, FALSE), FALSE)
<1>1. CASE ReportFetchError
  <2>1. PICK c \in Current : c.action = "error" /\ Fail(c, c.error) /\ live' = live
    BY <1>1 DEF ReportFetchError
  <2>2. c \in Change /\ next \in DOMAIN plan /\ c = plan[next]
    BY CurrentTyped DEF GateInv
  <2>3. c.error # None
    BY <2>1, <2>2 DEF PlanInv
  <2>4. c.error \in ErrorText
    BY <2>2, <2>3 DEF Change
  <2> QED
    BY <2>1, <2>4
<1>2. CASE Block
  BY <1>2 DEF Block, ToExecute, Blocked
<1>3. CASE WouldApply
  BY <1>3 DEF WouldApply, ToExecute
<1>4. CASE PrepareFails
  BY <1>4 DEF PrepareFails, Allowed, ToExecute
<1>5. CASE WriteSucceeds
  BY <1>5, WritesExecute DEF WriteSucceeds
<1>6. CASE WriteAnswerLost
  BY <1>6, WritesExecute DEF WriteAnswerLost
<1>7. CASE WriteRefused
  BY <1>7, WritesExecute DEF WriteRefused
<1> QED
  BY <1>1, <1>2, <1>3, <1>4, <1>5, <1>6, <1>7 DEF ApplyStep

(* A step of the loop never goes back, and changes at most the object it   *)
(* goes past.                                                              *)
Passes ==
  /\ UNCHANGED <<plan, options, undisturbed>>
  /\ next' \in Nat /\ next' >= next
  /\ \/ live' = live
     \/ /\ next' > next
        /\ \A i \in DOMAIN plan : i # next =>
             live'[plan[i].entry.key] = live[plan[i].entry.key]

(* Any result does.                                                        *)
LEMMA ResultPasses ==
  ASSUME TypeOK, PlanInv,
         NEW c \in Current, NEW r, NEW break \in BOOLEAN, Record(r, break),
         live' = live \/ Execute(c.entry)
  PROVE  Passes
<1>1. next \in Nat
  BY DEF TypeOK
<1>2. /\ UNCHANGED <<plan, options, undisturbed>>
      /\ next' \in Nat /\ next' > next
  BY RecordPasses
<1>3. Execute(c.entry) => \A i \in DOMAIN plan : i # next =>
                       live'[plan[i].entry.key] = live[plan[i].entry.key]
  BY WriteChanges
<1>4. next' >= next
  BY <1>1, <1>2
<1> QED
  BY <1>2, <1>3, <1>4 DEF Passes

(* Every branch of apply_plan's loop does no more than Passes allows.      *)
LEMMA LoopPasses ==
  ASSUME GateInv, PlanInv, ApplyStep
  PROVE  Passes
<1>0. TypeOK
  BY DEF GateInv
<1>1. next \in Nat /\ options.stop_on_error \in BOOLEAN
  BY <1>0 DEF TypeOK, Options
<1>2. CASE SkipNoop
  BY <1>1, <1>2 DEF SkipNoop, history, Passes
<1>3. CASE Prepare \/ Exit
  BY <1>1, <1>3 DEF Prepare, Exit, loop, history, Passes
<1>4. CASE \E c \in Current, text \in ErrorText :
              /\ c.action # "noop" /\ Fail(c, text)
              /\ live' = live \/ (~options.dry_run /\ Execute(c.entry))
  BY <1>0, <1>1, <1>4, ResultPasses DEF Fail
<1>5. CASE \E c \in Current :
              /\ c.action # "noop" /\ IsDestructive(c) /\ live' = live
              /\ Record(Result(c, "blocked", TRUE), FALSE)
  BY <1>0, <1>5, ResultPasses
<1>6. CASE \E c \in Current :
              /\ c.action # "noop" /\ options.dry_run /\ live' = live
              /\ Record(Result(c, None, FALSE), FALSE)
  BY <1>0, <1>6, ResultPasses
<1>7. CASE \E c \in Current :
              /\ c.action # "noop" /\ ~options.dry_run /\ Execute(c.entry)
              /\ Record(Result(c, None, FALSE), FALSE)
  BY <1>0, <1>7, ResultPasses
<1> QED
  BY <1>2, <1>3, <1>4, <1>5, <1>6, <1>7, WhatTheLoopDoes

(* The phases of the loop: it goes on to write, only when nothing is dry,  *)
(* or to its end, or stays.                                                *)
LEMMA LoopPhases ==
  ASSUME GateInv, PlanInv, ApplyStep
  PROVE  /\ pc \in {"apply", "write"} /\ pc' \in {"apply", "write", "exited"}
         /\ pc' = "write" => Prepare
         /\ pc' = "exited" => Exit
<1> USE DEF Record, Fail
<1>1. CASE ReportFetchError \/ SkipNoop \/ Block \/ WouldApply \/ PrepareFails
  BY <1>1 DEF ReportFetchError, SkipNoop, Block, WouldApply, PrepareFails, Allowed, ToExecute
<1>2. CASE Prepare
  BY <1>2 DEF Prepare, Allowed, ToExecute
<1>3. CASE WriteSucceeds \/ WriteAnswerLost \/ WriteRefused
  BY <1>3 DEF WriteSucceeds, WriteAnswerLost, WriteRefused
<1>4. CASE Exit
  BY <1>4 DEF Exit
<1> QED
  BY <1>1, <1>2, <1>3, <1>4 DEF ApplyStep

(* The loop of apply_plan keeps the plan's invariant.                      *)
LEMMA ApplyStepKeepsPlan == GateInv /\ PlanInv /\ ApplyStep => PlanInv'
<1> SUFFICES ASSUME GateInv, PlanInv, ApplyStep PROVE PlanInv'
  OBVIOUS
<1>1. plan' = plan /\ options' = options
  BY LoopPasses DEF Passes
<1>2. pc \in {"apply", "write"} /\ pc' \in {"apply", "write", "exited"}
  BY LoopPhases
<1>3. pc' = "write" => ~options.dry_run /\ next' \in DOMAIN plan
  <2> SUFFICES ASSUME Prepare PROVE ~options.dry_run /\ next' \in DOMAIN plan
    BY LoopPhases
  <2>1. PICK c \in Current : Allowed(c)
    BY DEF Prepare
  <2>2. next' = next
    BY DEF Prepare
  <2> QED
    BY <2>1, <2>2 DEF Allowed, Current
<1> QED
  BY <1>1, <1>2, <1>3 DEF PlanInv

(* Everything the proofs below rest on.                                    *)
BaseInv == GateInv /\ PlanInv

(* A step that is none of the program's own.                               *)
Outside == (\E o \in Options : Start(o)) \/ Crash \/ (\E o \in Object : Drift(o))

(* What they do: a process starts or dies, or somebody else interferes.    *)
LEMMA WhatOutsideDoes ==
  ASSUME Outside \/ UNCHANGED vars
  PROVE  \/ /\ pc' = "plan" /\ plan' = <<>> /\ results' = <<>> /\ next' = 1
            /\ undisturbed' = TRUE /\ UNCHANGED <<live, settled>>
         \/ /\ pc' = "idle" /\ plan' = <<>> /\ results' = <<>> /\ next' = 1
            /\ UNCHANGED <<live, options, exit_code, undisturbed, settled>>
         \/ /\ undisturbed' = FALSE /\ settled' = FALSE
            /\ UNCHANGED <<pc, options, plan, results, next, wire, exit_code>>
         \/ UNCHANGED vars
BY DEF Outside, Start, Crash, Drift, Forget, loop, history

(* The invariant of the plan, from the gate's.                             *)
THEOREM PlanInvariant == Spec => []BaseInv
<1>1. Init => PlanInv
  BY DEF Init, PlanInv
<1>2. GateInv /\ PlanInv /\ [Next]_vars => PlanInv'
  <2> SUFFICES ASSUME GateInv, PlanInv, [Next]_vars PROVE PlanInv'
    OBVIOUS
  <2>1. CASE PlanStep
    BY <2>1, PlanStepKeepsPlan DEF GateInv
  <2>2. CASE ApplyStep
    BY <2>2, ApplyStepKeepsPlan
  <2>3. CASE Outside \/ UNCHANGED vars
    <3>1. CASE pc' \in {"plan", "idle"} /\ plan' = <<>> /\ results' = <<>> /\ next' = 1
      BY <3>1 DEF PlanInv
    <3>2. CASE UNCHANGED <<pc, options, plan, results, next>>
      BY <3>2 DEF PlanInv
    <3> QED
      BY <2>3, <3>1, <3>2, WhatOutsideDoes DEF vars
  <2> QED
    BY <2>1, <2>2, <2>3 DEF Next, Outside
<1> QED
  BY <1>1, <1>2, GateInvariant, PTL DEF Spec, BaseInv

(* The property ReadOnly of the specification: whatever the plan says, the *)
(* plan command and a dry run leave the account alone.                     *)
THEOREM ReadOnlyAlways == Spec => ReadOnly
<1> DEFINE Step ==
      (options.command = "plan" \/ options.dry_run) /\ drifts' = drifts => live' = live
<1>1. BaseInv /\ [Next]_vars => [Step]_vars
  <2> SUFFICES ASSUME GateInv, PlanInv, Next,
                      options.command = "plan" \/ options.dry_run, drifts' = drifts
               PROVE  live' = live
    BY DEF BaseInv
  <2>1. CASE PlanStep
    BY <2>1, PlanStepPlansNext DEF PlansNext, ReportPlan, BeginApply, GateInv
  <2>2. CASE ApplyStep
    <3>1. options.dry_run
      BY <2>2, LoopPhases DEF PlanInv
    <3> QED
      BY <2>2, <3>1, WhatTheLoopDoes DEF SkipNoop, Prepare, Exit
  <2>3. CASE (\E o \in Options : Start(o)) \/ Crash
    BY <2>3 DEF Start, Crash
  <2>4. ~\E o \in Object : Drift(o)
    BY ConstantsAssumption DEF Drift, GateInv, TypeOK
  <2> QED
    BY <2>1, <2>2, <2>3, <2>4 DEF Next
<1>2. Spec => [][Step]_vars
  BY <1>1, PlanInvariant, PTL DEF Spec
<1> QED
  BY <1>2 DEF ReadOnly

-----------------------------------------------------------------------------
(* When nobody interferes                                                  *)

(* A change is as found as long as its object is.                          *)
LEMMA StillAsFound ==
  ASSUME NEW c, live'[c.entry.key] = live[c.entry.key], AsFound(c)
  PROVE  AsFound(c)'
BY DEF AsFound

(* What is still to come was found as it is, as each object is written in  *)
(* its own turn only.                                                      *)
LEMMA FoundStays ==
  ASSUME BaseInv, FoundInv, [Next]_vars
  PROVE  FoundInv'
<1> SUFFICES ASSUME undisturbed', Running', NEW i \in DOMAIN plan', i >= next'
             PROVE  AsFound(plan[i])'
  BY DEF FoundInv
<1>0. TypeOK /\ GateInv /\ PlanInv
  BY DEF BaseInv, GateInv
<1>1. PICK c : c = plan'[i]
  OBVIOUS
<1> SUFFICES AsFound(c)'
  BY <1>1 DEF AsFound
<1> SUFFICES /\ live'[c.entry.key] = live[c.entry.key]
             /\ AsFound(c)
  BY StillAsFound
<1>2. ASSUME i \in DOMAIN plan, c = plan[i], i >= next, undisturbed, Running
      PROVE  AsFound(c)
  BY <1>2 DEF FoundInv
<1>3. CASE PlanStep
  <2>1. ASSUME NEW d, PlansNext(d)
        PROVE  live' = live /\ AsFound(c)
    <3>1. live' = live /\ undisturbed /\ Running /\ next' = next
      BY <2>1 DEF PlansNext, history, loop, Running
    <3>2. AsFound(d)
      BY <2>1 DEF PlansNext
    <3>3. i \in DOMAIN plan /\ plan'[i] = plan[i] => AsFound(c)
      BY <1>1, <1>2, <3>1
    <3> QED
      BY <1>0, <1>1, <2>1, <3>1, <3>2, <3>3, PlanWithOneMore
  <2>2. CASE BeginApply
    <3>1. /\ live' = live /\ plan' = plan /\ next' = next
          /\ undisturbed /\ Running
      BY <2>2 DEF BeginApply, loop, history, Running
    <3> QED
      BY <1>1, <1>2, <3>1
  <2> QED
    BY <1>0, <1>3, <2>1, <2>2, PlanStepPlansNext DEF ReportPlan, Running
<1>4. CASE ApplyStep
  <2>1. Passes /\ pc \in {"apply", "write"}
    BY <1>0, <1>4, LoopPasses, LoopPhases
  <2>2. next \in Nat /\ next' \in Nat /\ i \in Nat
    BY <1>0, <2>1 DEF TypeOK, Passes
  <2>3. i \in DOMAIN plan /\ c = plan[i] /\ i >= next
    BY <1>1, <2>1, <2>2 DEF Passes
  <2>4. AsFound(c)
    BY <1>2, <2>1, <2>3 DEF Passes, Running
  <2>5. live'[c.entry.key] = live[c.entry.key]
    BY <2>1, <2>2, <2>3 DEF Passes
  <2> QED
    BY <2>4, <2>5
<1>5. CASE Outside \/ UNCHANGED vars
  <2>1. plan' # <<>>
    OBVIOUS
  <2>2. UNCHANGED vars
    BY <1>5, <2>1, WhatOutsideDoes
  <2>3. UNCHANGED <<live, plan, next, undisturbed, pc>>
    BY <2>2 DEF vars
  <2> QED
    BY <1>1, <1>2, <2>3 DEF Running
<1> QED
  BY <1>3, <1>4, <1>5 DEF Next, Outside

(* What is sent is ordered by the second fetch, and stays so as long as    *)
(* nobody interferes.                                                      *)
LEMMA WireStays ==
  ASSUME BaseInv, WireInv, [Next]_vars
  PROVE  WireInv'
<1> SUFFICES ASSUME undisturbed', pc' = "write", NEW c \in Current',
                    c.entry.kind = "table", live'[c.entry.key] # Absent
             PROVE  wire' = WireColumns(c.entry.columns, live'[c.entry.key].columns)
  BY DEF WireInv
<1>0. TypeOK /\ GateInv /\ PlanInv
  BY DEF BaseInv, GateInv
<1>1. CASE PlanStep
  BY <1>0, <1>1, PlanStepPlansNext DEF PlansNext, ReportPlan, BeginApply
<1>2. CASE ApplyStep
  <2>1. Prepare
    BY <1>0, <1>2, LoopPhases
  <2>2. PICK d \in Current :
        LET o == live[d.entry.key]
            known == IF d.entry.kind = "table" /\ o # Absent THEN o.columns ELSE NoColumns
        IN wire' = WireColumns(d.entry.columns, known)
    BY <2>1 DEF Prepare
  <2>3. Current' = Current /\ live' = live
    BY <2>1 DEF Prepare, Current
  <2>4. c = d
    BY <2>3 DEF Current
  <2> QED
    BY <2>2, <2>3, <2>4
<1>3. CASE Outside \/ UNCHANGED vars
  <2>1. UNCHANGED vars
    BY <1>3, WhatOutsideDoes
  <2>2. UNCHANGED <<live, plan, next, wire, undisturbed, pc>>
    BY <2>1 DEF vars
  <2>3. Current' = Current
    BY <2>2 DEF Current
  <2> QED
    BY <2>2, <2>3 DEF WireInv
<1> QED
  BY <1>1, <1>2, <1>3 DEF Next, Outside

(* With stop_on_error, what a step of the loop goes past without breaking  *)
(* it is there afterwards.                                                 *)
LEMMA PassedIsThere ==
  ASSUME BaseInv, FoundInv, ApplyStep, undisturbed,
         options.stop_on_error, ~options.dry_run, next' # next, next' <= Len(plan)
  PROVE  next' = next + 1 /\ next \in DOMAIN plan /\ live'[plan[next].entry.key] # Absent
<1>0. TypeOK /\ GateInv /\ PlanInv
  BY DEF BaseInv, GateInv
<1>1. pc \in {"apply", "write"} /\ Len(plan) \in Nat /\ next \in Nat
  BY <1>0, LoopPhases DEF TypeOK
<1>2. \A c \in Current : c = plan[next] /\ next \in DOMAIN plan
  BY DEF Current
<1>3. \A c \in Current : AsFound(c)
  BY <1>1, <1>2 DEF FoundInv, Running
<1>4. CASE SkipNoop
  <2>1. PICK c \in Current : c.action = "noop" /\ next' = next + 1 /\ live' = live
    BY <1>4 DEF SkipNoop
  <2> QED
    BY <1>2, <1>3, <2>1 DEF AsFound
<1>5. ~Prepare /\ ~Exit
  BY DEF Prepare, Exit, loop
<1>6. ASSUME NEW c \in Current, NEW text, Fail(c, text)
      PROVE  FALSE
  <2>1. next' = Len(plan) + 1
    BY <1>6 DEF Fail, Record
  <2> QED
    BY <1>1, <2>1
<1>7. ASSUME NEW c \in Current, IsDestructive(c), live' = live, NEW r, Record(r, FALSE)
      PROVE  next' = next + 1 /\ next \in DOMAIN plan /\ live'[plan[next].entry.key] # Absent
  <2>1. next' = next + 1
    BY <1>7 DEF Record
  <2>2. live[c.entry.key] # Absent
    BY <1>3, <1>7 DEF AsFound
  <2> QED
    BY <1>2, <1>7, <2>1, <2>2
<1>8. ASSUME NEW c \in Current, Execute(c.entry), NEW r, Record(r, FALSE)
      PROVE  next' = next + 1 /\ next \in DOMAIN plan /\ live'[plan[next].entry.key] # Absent
  <2>1. next' = next + 1
    BY <1>8 DEF Record
  <2>2. live'[c.entry.key] # Absent
    BY <1>0, <1>8, WriteChanges
  <2> QED
    BY <1>2, <1>8, <2>1, <2>2
<1> QED
  BY <1>0, <1>4, <1>5, <1>6, <1>7, <1>8, WhatTheLoopDoes

(* With stop_on_error the loop passes a change only when its object is     *)
(* there.                                                                  *)
LEMMA EarlierStays ==
  ASSUME BaseInv, FoundInv, EarlierInv, [Next]_vars
  PROVE  EarlierInv'
<1> SUFFICES ASSUME undisturbed', pc' \in {"apply", "write"}, options'.stop_on_error,
                    ~options'.dry_run, next' <= Len(plan'),
                    NEW i \in DOMAIN plan', i < next'
             PROVE  live'[plan'[i].entry.key] # Absent
  BY DEF EarlierInv
<1>0. TypeOK /\ GateInv /\ PlanInv
  BY DEF BaseInv, GateInv
<1>1. CASE PlanStep
  <2>1. next' = 1
    BY <1>0, <1>1, PlanStepPlansNext
      DEF PlansNext, ReportPlan, BeginApply, PlanInv, loop
  <2>2. i \in Nat \ {0}
    <3>1. DOMAIN plan' = DOMAIN plan
      BY <1>0, <1>1, PlanStepPlansNext DEF PlansNext, ReportPlan, BeginApply
    <3> QED
      BY <1>0, <3>1 DEF TypeOK
  <2> QED
    BY <2>1, <2>2
<1>2. CASE ApplyStep
  <2>1. Passes /\ pc \in {"apply", "write"}
    BY <1>0, <1>2, LoopPasses, LoopPhases
  <2>2. UNCHANGED <<plan, options, undisturbed>> /\ next' \in Nat /\ next' >= next
    BY <2>1 DEF Passes
  <2>3. next \in Nat /\ i \in Nat /\ Len(plan) \in Nat
    BY <1>0, <2>2 DEF TypeOK
  <2>4. CASE i < next
    <3>1. next <= Len(plan)
      BY <2>2, <2>3
    <3>2. live[plan[i].entry.key] # Absent
      BY <2>1, <2>2, <2>4, <3>1 DEF EarlierInv
    <3>3. live'[plan[i].entry.key] = live[plan[i].entry.key]
      BY <2>1, <2>2, <2>3, <2>4 DEF Passes
    <3> QED
      BY <2>2, <3>2, <3>3
  <2>5. CASE i >= next
    <3>1. next' # next
      BY <2>2, <2>3, <2>5
    <3>2. next' = next + 1 /\ live'[plan[next].entry.key] # Absent
      BY <1>2, <2>2, <3>1, PassedIsThere
    <3>3. i = next
      BY <2>3, <2>5, <3>2
    <3> QED
      BY <2>2, <3>2, <3>3
  <2> QED
    BY <2>3, <2>4, <2>5
<1>3. CASE Outside \/ UNCHANGED vars
  <2>1. UNCHANGED vars
    BY <1>3, WhatOutsideDoes
  <2>2. UNCHANGED <<live, plan, next, options, undisturbed, pc>>
    BY <2>1 DEF vars
  <2> QED
    BY <2>2 DEF EarlierInv
<1> QED
  BY <1>1, <1>2, <1>3 DEF Next, Outside

(* What an undisturbed run finds, sends and leaves behind it.              *)
UndisturbedInv == BaseInv /\ FoundInv /\ WireInv /\ EarlierInv

(* Both looks at an object stay true until it is written, for every        *)
(* manifest and account, while nobody else writes to it.                   *)
THEOREM UndisturbedInvariant == Spec => []UndisturbedInv
<1>1. Init => FoundInv /\ WireInv /\ EarlierInv
  BY DEF Init, FoundInv, Running, WireInv, EarlierInv
<1>2. BaseInv /\ FoundInv /\ [Next]_vars => FoundInv'
  BY FoundStays
<1>3. BaseInv /\ WireInv /\ [Next]_vars => WireInv'
  BY WireStays
<1>4. BaseInv /\ FoundInv /\ EarlierInv /\ [Next]_vars => EarlierInv'
  BY EarlierStays
<1> QED
  BY <1>1, <1>2, <1>3, <1>4, PlanInvariant, PTL DEF Spec, UndisturbedInv

(* The invariant NoNeedlessWrite of the specification: for every manifest  *)
(* and account, when nobody interferes nothing is written that is there    *)
(* and does not differ, also after lost answers and crashes.               *)
THEOREM NoNeedlessWriteAlways == Spec => []NoNeedlessWrite
<1>1. UndisturbedInv => NoNeedlessWrite
  <2> SUFFICES ASSUME UndisturbedInv, pc = "write", undisturbed, NEW c \in Current
               PROVE  \/ c.entry.kind = "sql"
                      \/ live[c.entry.key] = Absent
                      \/ HasDiff(c.entry, live[c.entry.key])
    BY DEF NoNeedlessWrite
  <2>1. Ready(c) /\ TypeOK
    BY DEF UndisturbedInv, BaseInv, GateInv
  <2>2. next \in DOMAIN plan /\ c = plan[next] /\ next \in Nat
    BY <2>1, CurrentTyped DEF TypeOK
  <2>3. AsFound(c)
    BY <2>2 DEF UndisturbedInv, FoundInv, Running
  <2> QED
    BY <2>1, <2>3 DEF Ready, AsFound
<1> QED
  BY <1>1, UndisturbedInvariant, PTL

(* Columns a table has go before those it has not, as the database wants.  *)
LEMMA NewColumnsGoLast ==
  ASSUME NEW declared \in Columns(Nat), NEW o
  PROVE  AcceptableOrder(WireColumns(declared, o.columns), o)
<1> DEFINE sent == WireColumns(declared, o.columns)
<1>1. ASSUME NEW old \in Names(sent) \cap Names(o.columns)
      PROVE  sent[old].position[1] = 0
  BY <1>1 DEF WireColumns, Names
<1>2. ASSUME NEW new \in Names(sent) \ Names(o.columns)
      PROVE  sent[new].position[1] = 1
  BY <1>2 DEF WireColumns, Names
<1> HIDE DEF sent
<1>3. AcceptableOrder(sent, o)
  BY <1>1, <1>2 DEF AcceptableOrder, Precedes
<1> QED
  BY <1>3 DEF sent

(* The invariant WireOrderAcceptable of the specification: when nobody     *)
(* interferes, no table is refused for the order of its columns.           *)
THEOREM WireOrderIsAcceptable == Spec => []WireOrderAcceptable
<1>1. UndisturbedInv => WireOrderAcceptable
  <2> SUFFICES ASSUME UndisturbedInv, pc = "write", undisturbed, NEW c \in Current,
                      c.entry.kind = "table", live[c.entry.key] # Absent
               PROVE  AcceptableOrder(wire, live[c.entry.key])
    BY DEF WireOrderAcceptable
  <2>1. wire = WireColumns(c.entry.columns, live[c.entry.key].columns)
    BY DEF UndisturbedInv, WireInv
  <2>2. c.entry.columns \in Columns(Nat)
    BY CurrentTyped DEF UndisturbedInv, BaseInv, GateInv, Entry
  <2> QED
    BY <2>1, <2>2, NewColumnsGoLast
<1> QED
  BY <1>1, UndisturbedInvariant, PTL

(* The invariant EarlierObjectsExist of the specification: with            *)
(* stop_on_error, and when nobody interferes, whatever is before the       *)
(* object that is written is there.                                        *)
THEOREM EarlierObjectsAlwaysExist == Spec => []EarlierObjectsExist
<1>1. UndisturbedInv => EarlierObjectsExist
  <2> SUFFICES ASSUME UndisturbedInv, pc = "write", undisturbed, options.stop_on_error,
                      NEW i \in 1..(next - 1)
               PROVE  live[plan[i].entry.key] # Absent
    BY DEF EarlierObjectsExist
  <2>1. plan \in Seq(Change) /\ next \in DOMAIN plan /\ ~options.dry_run
    BY DEF UndisturbedInv, BaseInv, PlanInv, GateInv, TypeOK
  <2>2. next <= Len(plan) /\ i \in DOMAIN plan /\ i < next
    BY <2>1
  <2> QED
    BY <2>1, <2>2 DEF UndisturbedInv, EarlierInv
<1> QED
  BY <1>1, UndisturbedInvariant, PTL

-----------------------------------------------------------------------------
(* The results and the exit code                                           *)

(* What is due are finitely many changes.                                  *)
LEMMA DueFinite ==
  ASSUME NEW k \in Nat
  PROVE  IsFiniteSet(Due(k)) /\ Cardinality(Due(k)) \in Nat
<1>1. Due(k) \subseteq 1..k
  BY DEF Due
<1>2. IsFiniteSet(1..k)
  BY FS_Interval
<1> QED
  BY <1>1, <1>2, FS_Subset, FS_CardinalityType

(* One change more is due, unless it is a no-op.                           *)
LEMMA DueGrows ==
  ASSUME NEW k \in Nat \ {0}
  PROVE  /\ plan[k].action = "noop" => Due(k) = Due(k - 1)
         /\ plan[k].action # "noop" =>
              /\ Due(k) = Due(k - 1) \cup {k}
              /\ Cardinality(Due(k)) = Cardinality(Due(k - 1)) + 1
<1>1. plan[k].action = "noop" => Due(k) = Due(k - 1)
  BY DEF Due
<1>2. plan[k].action # "noop" => Due(k) = Due(k - 1) \cup {k}
  BY DEF Due
<1>3. k \notin Due(k - 1)
  BY DEF Due
<1>4. IsFiniteSet(Due(k - 1))
  BY DueFinite
<1> QED
  BY <1>1, <1>2, <1>3, <1>4, FS_AddElement

(* A change that is due has a place among the results.                     *)
LEMMA DuePlace ==
  ASSUME NEW k \in Nat, NEW i \in Due(k)
  PROVE  Cardinality(Due(i)) \in 1..Cardinality(Due(k))
<1>1. i \in 1..k /\ i \in Nat /\ i \in Due(i)
  BY DEF Due
<1>2. Due(i) \subseteq Due(k)
  BY <1>1 DEF Due
<1>3. /\ IsFiniteSet(Due(i)) /\ Cardinality(Due(i)) \in Nat
      /\ IsFiniteSet(Due(k)) /\ Cardinality(Due(k)) \in Nat
  BY <1>1, DueFinite
<1>4. Cardinality(Due(i)) <= Cardinality(Due(k))
  BY <1>2, <1>3, FS_Subset
<1>5. Cardinality(Due(i)) # 0
  BY <1>1, <1>3, FS_EmptySet
<1> QED
  BY <1>3, <1>4, <1>5

(* The result of the change the results had come to.                       *)
LEMMA FollowsGrows ==
  ASSUME NEW R, results \in Seq(R), NEW r \in R, NEW k \in Nat \ {0},
         Follows(k - 1), plan[k].action # "noop", r.key = plan[k].entry.key,
         results' = Append(results, r), plan' = plan
  PROVE  Follows(k)'
<1>1. Len(results) = Cardinality(Due(k - 1)) /\ Len(results) \in Nat
  BY DEF Follows
<1>2. Due(k) = Due(k - 1) \cup {k} /\ Cardinality(Due(k)) = Len(results) + 1
  BY <1>1, DueGrows
<1>3. /\ Len(results') = Len(results) + 1 /\ results'[Len(results) + 1] = r
      /\ \A j \in 1..Len(results) : results'[j] = results[j]
  OBVIOUS
<1>4. ASSUME NEW i \in Due(k - 1)
      PROVE  results'[Cardinality(Due(i))].key = plan[i].entry.key
  <2>1. Cardinality(Due(i)) \in 1..Len(results)
    BY <1>1, DuePlace
  <2> QED
    BY <1>3, <2>1 DEF Follows
<1>5. results'[Cardinality(Due(k))].key = plan[k].entry.key
  BY <1>2, <1>3
<1>6. \A i \in Due(k) : results'[Cardinality(Due(i))].key = plan[i].entry.key
  BY <1>2, <1>4, <1>5
<1>7. \A i : Due(i)' = Due(i)
  BY DEF Due
<1> QED
  BY <1>2, <1>3, <1>6, <1>7 DEF Follows

(* Where the loop is, the results have come to.                            *)
LEMMA FollowsTo ==
  ASSUME NEW k, next' - 1 = k, Follows(k)'
  PROVE  Follows(next - 1)'
BY DEF Follows, Due

(* Nothing about the results changes as long as nothing of them does.      *)
LEMMA ResultsUnchanged ==
  ASSUME UNCHANGED <<plan, results, next, options>>
  PROVE  /\ GoesOn' = GoesOn /\ StoppedEarly' = StoppedEarly
         /\ Follows(Len(plan))' = Follows(Len(plan)) /\ ExitCode' = ExitCode
BY DEF GoesOn, StoppedEarly, Follows, Due, ExitCode, ShownAsFailed, Failed

(* A result more: the loop goes on, or a failure under stop_on_error ends  *)
(* it.                                                                     *)
LEMMA ResultFollows ==
  ASSUME TypeOK, GoesOn,
         NEW c \in Current, c.action # "noop",
         NEW text \in ErrorText \cup {None, "blocked"}, NEW blocked \in BOOLEAN,
         NEW break \in BOOLEAN, Record(Result(c, text, blocked), break),
         break => options.stop_on_error /\ ~blocked /\ text # None,
         ~break => ~options.stop_on_error \/ blocked \/ text = None
  PROVE  GoesOn' \/ StoppedEarly'
<1> DEFINE R == [key : Object, error : ErrorText \cup {None, "blocked"}, blocked : BOOLEAN]
<1>1. PICK k : k = next
  OBVIOUS
<1>2. PICK r : r = Result(c, text, blocked)
  OBVIOUS
<1>3. /\ k \in 1..Len(plan) /\ k \in Nat \ {0} /\ Len(plan) \in Nat
      /\ c = plan[k] /\ c.entry.key \in Object
  BY <1>1, CurrentTyped DEF TypeOK
<1>4. results \in Seq(R)
  BY DEF TypeOK
<1>5. /\ r \in R /\ r.key = plan[k].entry.key
      /\ Failed(r) <=> ~blocked /\ text # None
  BY <1>2, <1>3 DEF Result, Failed
<1> HIDE DEF R
<1>6. /\ results' = Append(results, r) /\ plan' = plan /\ options' = options
      /\ next' = (IF break THEN Len(plan) + 1 ELSE k + 1)
  BY <1>1, <1>2, RecordPasses
<1>7. Follows(k - 1)
  BY <1>1 DEF GoesOn
<1>8. Follows(k)'
  BY <1>3, <1>4, <1>5, <1>6, <1>7, FollowsGrows
<1>9. /\ Len(results') = Len(results) + 1 /\ results'[Len(results')] = r
      /\ Len(results) \in Nat
      /\ \A i \in DOMAIN results' :
           results'[i] = r \/ (i \in DOMAIN results /\ results'[i] = results[i])
  BY <1>4, <1>5, <1>6
<1>10. CASE break
  <2>1. next' = Len(plan') + 1 /\ k \in DOMAIN plan'
    BY <1>3, <1>6, <1>10 DEF TypeOK
  <2>2. Failed(results[Len(results)])'
    BY <1>5, <1>9, <1>10 DEF Failed
  <2>3. next' > Len(plan') /\ Len(results') > 0
    BY <1>3, <1>6, <1>9, <2>1
  <2>4. (\E j \in DOMAIN plan : Follows(j))'
    BY <1>8, <2>1
  <2> QED
    BY <1>6, <1>10, <2>2, <2>3, <2>4 DEF StoppedEarly
<1>11. CASE ~break
  <2>1. next' = k + 1 /\ next' - 1 = k /\ next' <= Len(plan') + 1
    BY <1>3, <1>6, <1>11
  <2>2. Follows(next - 1)'
    BY <1>8, <2>1, FollowsTo
  <2>3. ASSUME options.stop_on_error, NEW i \in DOMAIN results'
        PROVE  ~Failed(results[i])'
    <3>1. ~Failed(r)
      BY <1>5, <1>11, <2>3
    <3>2. \A j \in DOMAIN results : ~Failed(results[j])
      BY <1>1, <1>3, <2>3 DEF GoesOn
    <3> QED
      BY <1>9, <2>3, <3>1, <3>2 DEF Failed
  <2> QED
    BY <1>6, <2>1, <2>2, <2>3 DEF GoesOn
<1> QED
  BY <1>10, <1>11

(* The results follow the plan, whatever a step does.                      *)
LEMMA ResultsStay ==
  ASSUME BaseInv, ResultsFollowPlan, [Next]_vars
  PROVE  ResultsFollowPlan'
<1> SUFFICES ASSUME pc' \in {"apply", "write"}
             PROVE  GoesOn' \/ (StoppedEarly' /\ pc' = "apply")
  BY DEF ResultsFollowPlan
<1>0. TypeOK /\ GateInv /\ PlanInv
  BY DEF BaseInv, GateInv
<1>1. ASSUME pc \in {"apply", "write"}
      PROVE  GoesOn \/ (StoppedEarly /\ pc = "apply")
  BY <1>1 DEF ResultsFollowPlan
<1>2. CASE PlanStep
  <2>1. BeginApply
    BY <1>0, <1>2, PlanStepPlansNext DEF PlansNext, ReportPlan
  <2>2. next = 1 /\ results = <<>> /\ UNCHANGED <<plan, results, next, options>>
    BY <1>0, <2>1 DEF BeginApply, PlanInv, loop
  <2>3. Due(0) = {}
    BY DEF Due
  <2>4. Follows(next - 1)
    BY <2>2, <2>3, FS_EmptySet DEF Follows
  <2>5. next <= Len(plan) + 1
    BY <1>0, <2>2 DEF TypeOK
  <2>6. GoesOn
    BY <2>2, <2>4, <2>5 DEF GoesOn
  <2> QED
    BY <2>2, <2>6, ResultsUnchanged
<1>3. CASE ApplyStep
  <2>1. pc \in {"apply", "write"} /\ pc' # "exited"
    BY <1>0, <1>3, LoopPhases
  <2>2. ASSUME NEW c \in Current PROVE GoesOn
    <3>1. next <= Len(plan)
      BY <1>0, CurrentTyped DEF TypeOK
    <3>2. ~StoppedEarly
      BY <1>0, <3>1 DEF StoppedEarly, TypeOK
    <3> QED
      BY <1>1, <2>1, <3>2
  <2>3. pc' = "write" => Prepare
    BY <1>0, <1>3, LoopPhases
  <2>4. CASE SkipNoop
    <3>1. PICK c \in Current : c.action = "noop" /\ next' = next + 1
      BY <2>4 DEF SkipNoop
    <3>2. PICK k : k = next
      OBVIOUS
    <3>3. /\ k \in 1..Len(plan) /\ k \in Nat \ {0} /\ Len(plan) \in Nat
          /\ plan[k].action = "noop"
      BY <1>0, <3>1, <3>2, CurrentTyped DEF TypeOK
    <3>4. GoesOn
      BY <2>2, <3>1
    <3>5. UNCHANGED <<plan, results, options, pc>>
      BY <2>4 DEF SkipNoop
    <3>6. Due(k) = Due(k - 1)
      BY <3>3, DueGrows
    <3>7. Follows(k)
      BY <3>2, <3>4, <3>6 DEF GoesOn, Follows
    <3>8. Follows(k)'
      BY <3>5, <3>7 DEF Follows, Due
    <3>9. next' - 1 = k /\ next' <= Len(plan) + 1
      BY <3>1, <3>2, <3>3
    <3>10. Follows(next - 1)'
      BY <3>8, <3>9, FollowsTo
    <3>11. options.stop_on_error => \A i \in DOMAIN results : ~Failed(results[i])
      BY <3>2, <3>3, <3>4 DEF GoesOn
    <3>12. (options.stop_on_error => \A i \in DOMAIN results : ~Failed(results[i]))'
      BY <3>5, <3>11 DEF Failed
    <3> QED
      BY <3>5, <3>9, <3>10, <3>12 DEF GoesOn
  <2>5. CASE Prepare
    <3>1. UNCHANGED <<plan, results, next, options>> /\ \E c \in Current : TRUE
      BY <2>5 DEF Prepare
    <3> QED
      BY <2>2, <3>1, ResultsUnchanged
  <2>6. ~Exit
    BY <2>1 DEF Exit
  <2>7. CASE \E c \in Current, text \in ErrorText : c.action # "noop" /\ Fail(c, text)
    <3>1. PICK c \in Current, text \in ErrorText : c.action # "noop" /\ Fail(c, text)
      BY <2>7
    <3>2. text # None /\ options.stop_on_error \in BOOLEAN
      BY <1>0, ConstantsAssumption DEF TypeOK, Options
    <3>3. Record(Result(c, text, FALSE), options.stop_on_error) /\ pc' = "apply"
      BY <3>1 DEF Fail, Record
    <3> QED
      BY <1>0, <2>2, <3>1, <3>2, <3>3, ResultFollows
  <2>8. CASE \E c \in Current :
               c.action # "noop" /\ Record(Result(c, "blocked", TRUE), FALSE)
    <3>1. PICK c \in Current :
             c.action # "noop" /\ Record(Result(c, "blocked", TRUE), FALSE)
      BY <2>8
    <3>2. pc' = "apply"
      BY <3>1 DEF Record
    <3> QED
      BY <1>0, <2>2, <3>1, <3>2, ResultFollows
  <2>9. CASE \E c \in Current :
               c.action # "noop" /\ Record(Result(c, None, FALSE), FALSE)
    <3>1. PICK c \in Current :
             c.action # "noop" /\ Record(Result(c, None, FALSE), FALSE)
      BY <2>9
    <3>2. pc' = "apply"
      BY <3>1 DEF Record
    <3> QED
      BY <1>0, <2>2, <3>1, <3>2, ResultFollows
  <2> QED
    BY <1>0, <1>3, <2>4, <2>5, <2>6, <2>7, <2>8, <2>9, WhatTheLoopDoes
<1>4. CASE Outside \/ UNCHANGED vars
  <2>1. UNCHANGED <<pc, plan, results, next, options>>
    BY <1>4, WhatOutsideDoes DEF vars
  <2> QED
    BY <1>1, <2>1, ResultsUnchanged
<1> QED
  BY <1>2, <1>3, <1>4 DEF Next, Outside

(* The invariant ResultsFollowPlan of the specification: whatever the      *)
(* requests come to, each change has its result, in the plan's order.      *)
THEOREM ResultsAlwaysFollow == Spec => []ResultsFollowPlan
<1>1. Init => ResultsFollowPlan
  BY DEF Init, ResultsFollowPlan
<1>2. BaseInv /\ ResultsFollowPlan /\ [Next]_vars => ResultsFollowPlan'
  BY ResultsStay
<1> QED
  BY <1>1, <1>2, PlanInvariant, PTL DEF Spec

(* What the end of the loop leaves stays until the next run.               *)
LEMMA ReportedStays ==
  ASSUME BaseInv, ResultsFollowPlan, ReportedInv, [Next]_vars
  PROVE  ReportedInv'
<1> DEFINE Ended == /\ next > Len(plan)
                    /\ (next = Len(plan) + 1 /\ Follows(Len(plan))) \/ StoppedEarly
<1> SUFFICES ASSUME pc' = "exited", options'.command = "apply"
             PROVE  Ended' /\ exit_code' = ExitCode'
  BY DEF ReportedInv
<1>0. TypeOK /\ GateInv /\ PlanInv
  BY DEF BaseInv, GateInv
<1>1. ASSUME Ended, UNCHANGED <<plan, results, next, options>>
      PROVE  Ended'
  <2>1. /\ StoppedEarly' = StoppedEarly
        /\ Follows(Len(plan))' = Follows(Len(plan))
    BY <1>1, ResultsUnchanged
  <2> QED
    BY <1>1, <2>1
<1> HIDE DEF Ended
<1>2. CASE PlanStep
  BY <1>0, <1>2, PlanStepPlansNext DEF PlansNext, ReportPlan, BeginApply
<1>3. CASE ApplyStep
  <2>1. Exit
    BY <1>0, <1>3, LoopPhases
  <2>2. /\ UNCHANGED <<plan, results, next, options>>
        /\ exit_code' = ExitCode /\ next > Len(plan) /\ pc = "apply"
    BY <2>1 DEF Exit, loop
  <2>3. Ended
    <3>1. GoesOn \/ StoppedEarly
      BY <2>2 DEF ResultsFollowPlan
    <3>2. CASE GoesOn
      <4>1. next \in Nat /\ Len(plan) \in Nat
        BY <1>0 DEF TypeOK
      <4>2. next = Len(plan) + 1
        BY <2>2, <3>2, <4>1 DEF GoesOn
      <4>3. next - 1 = Len(plan)
        BY <4>1, <4>2
      <4> QED
        BY <2>2, <3>2, <4>2, <4>3 DEF GoesOn, Ended
    <3>3. CASE StoppedEarly
      BY <2>2, <3>3 DEF Ended
    <3> QED
      BY <3>1, <3>2, <3>3
  <2> QED
    BY <1>1, <2>2, <2>3, ResultsUnchanged
<1>4. CASE Outside \/ UNCHANGED vars
  <2>1. UNCHANGED <<pc, plan, results, next, options, exit_code>>
    BY <1>4, WhatOutsideDoes DEF vars
  <2>2. Ended /\ exit_code = ExitCode
    BY <2>1 DEF ReportedInv, Ended
  <2> QED
    BY <1>1, <2>1, <2>2, ResultsUnchanged
<1> QED
  BY <1>2, <1>3, <1>4 DEF Next, Outside

(* Every exception has something to say.  It is what apply's exit code     *)
(* relies on, and the code does not see to it.                             *)
ErrorsHaveText == "" \notin ErrorText

(* Then no failure is taken for a success.                                 *)
LEMMA FailuresAreShown ==
  ASSUME ErrorsHaveText, TypeOK, NEW j \in DOMAIN results
  PROVE  ShownAsFailed(results[j]) <=> Failed(results[j])
<1> DEFINE Errors == ErrorText \cup {None, "blocked"}
<1>1. results[j].error \in Errors
  <2> DEFINE R == [key : Object, error : Errors, blocked : BOOLEAN]
  <2>1. results \in Seq(R)
    BY DEF TypeOK
  <2> HIDE DEF R
  <2>2. results[j] \in R
    BY <2>1
  <2> QED
    BY <2>2 DEF R
<1>2. "" # "blocked" /\ "" # None
  BY DEF None
<1>3. results[j].error # ""
  BY <1>1, <1>2 DEF ErrorsHaveText
<1> QED
  BY <1>3 DEF ShownAsFailed, Failed

(* What the exit code says of the results.                                 *)
LEMMA WhatExitCodeSays ==
  ASSUME ErrorsHaveText, TypeOK
  PROVE  /\ ExitCode = 0 => \A j \in DOMAIN results : ~results[j].blocked /\ ~Failed(results[j])
         /\ ExitCode = 1 => \E j \in DOMAIN results : Failed(results[j])
         /\ ExitCode = 2 => /\ \A j \in DOMAIN results : ~Failed(results[j])
                            /\ \E j \in DOMAIN results : results[j].blocked
<1>1. \A j \in DOMAIN results : ShownAsFailed(results[j]) <=> Failed(results[j])
  BY FailuresAreShown
<1> QED
  BY <1>1 DEF ExitCode

(* Only the gate holds a change back, and only a destructive one.          *)
BlockedInv == \A j \in DOMAIN results : results[j].blocked => HeldBack(results[j])

(* A result says "blocked" of nothing else, whatever a step does.          *)
LEMMA BlockedStays ==
  ASSUME BaseInv, BlockedInv, [Next]_vars
  PROVE  BlockedInv'
<1>0. TypeOK /\ GateInv /\ PlanInv
  BY DEF BaseInv, GateInv
<1>1. ASSUME UNCHANGED <<plan, results, options>>
      PROVE  BlockedInv'
  BY <1>1 DEF BlockedInv, HeldBack
<1>2. ASSUME results' = <<>>
      PROVE  BlockedInv'
  BY <1>2 DEF BlockedInv
<1>3. ASSUME NEW c \in Current, NEW text, NEW blocked \in BOOLEAN, NEW break \in BOOLEAN,
             Record(Result(c, text, blocked), break),
             blocked => IsDestructive(c) /\ ~options.allow_destructive
      PROVE  BlockedInv'
  <2>1. PICK r : r = Result(c, text, blocked)
    OBVIOUS
  <2>2. results' = Append(results, r) /\ UNCHANGED <<plan, options>>
    BY <1>0, <1>3, <2>1, RecordPasses
  <2>3. next \in DOMAIN plan /\ c = plan[next]
    BY <1>0, CurrentTyped
  <2>4. r.blocked => HeldBack(r)
    BY <1>3, <2>1, <2>3 DEF Result, HeldBack
  <2>5. PICK R : results \in Seq(R)
    BY <1>0 DEF TypeOK
  <2>6. ASSUME NEW j \in DOMAIN results'
        PROVE  results'[j] = r \/ (j \in DOMAIN results /\ results'[j] = results[j])
    BY <2>2, <2>5
  <2>7. ASSUME NEW j \in DOMAIN results', results'[j].blocked
        PROVE  HeldBack(results'[j])
    BY <2>4, <2>6, <2>7 DEF BlockedInv
  <2> QED
    BY <2>2, <2>7 DEF BlockedInv, HeldBack
<1>4. CASE PlanStep
  <2>1. (results = <<>> /\ results' = results) \/ UNCHANGED <<plan, results, options>>
    BY <1>0, <1>4, PlanStepPlansNext DEF PlansNext, ReportPlan, BeginApply, PlanInv, loop
  <2> QED
    BY <1>1, <1>2, <2>1
<1>5. CASE ApplyStep
  <2>1. CASE SkipNoop \/ Prepare \/ Exit
    BY <1>1, <2>1 DEF SkipNoop, Prepare, Exit, loop
  <2>2. CASE \E c \in Current, text \in ErrorText : Fail(c, text)
    <3>1. options.stop_on_error \in BOOLEAN
      BY <1>0 DEF TypeOK, Options
    <3> QED
      BY <1>3, <2>2, <3>1 DEF Fail
  <2>3. CASE \E c \in Current : /\ IsDestructive(c) /\ ~options.allow_destructive
                               /\ Record(Result(c, "blocked", TRUE), FALSE)
    BY <1>3, <2>3
  <2>4. CASE \E c \in Current : Record(Result(c, None, FALSE), FALSE)
    BY <1>3, <2>4
  <2> QED
    BY <1>0, <1>5, <2>1, <2>2, <2>3, <2>4, WhatTheLoopDoes
<1>6. CASE Outside \/ UNCHANGED vars
  <2>1. results' = <<>> \/ UNCHANGED <<plan, results, options>>
    BY <1>6 DEF Outside, Start, Crash, Drift, Forget, loop, vars
  <2> QED
    BY <1>1, <1>2, <2>1
<1> QED
  BY <1>4, <1>5, <1>6 DEF Next, Outside

(* The invariant ExitCodeTells of the specification, as long as every      *)
(* exception has a text: 0 says that all was applied, 1 that something     *)
(* failed, 2 that nothing did and a destructive change was held back.      *)
THEOREM ExitCodeAlwaysTells ==
  ASSUME ErrorsHaveText
  PROVE  Spec => []ExitCodeTells
<1>1. Init => ResultsFollowPlan /\ ReportedInv /\ BlockedInv
  BY DEF Init, ResultsFollowPlan, ReportedInv, BlockedInv
<1>2. BaseInv /\ ResultsFollowPlan /\ ReportedInv /\ [Next]_vars => ReportedInv'
  BY ReportedStays
<1>3. BaseInv /\ BlockedInv /\ [Next]_vars => BlockedInv'
  BY BlockedStays
<1>4. BaseInv /\ ReportedInv /\ BlockedInv => ExitCodeTells
  <2> DEFINE reported == {results[j] : j \in DOMAIN results}
  <2> SUFFICES ASSUME BaseInv, ReportedInv, BlockedInv,
                      pc = "exited", options.command = "apply"
               PROVE  /\ exit_code = 0 => \A i \in DOMAIN plan :
                           plan[i].action # "noop" =>
                             \E r \in reported : r.key = plan[i].entry.key /\ r.error = None
                      /\ exit_code = 1 => \E r \in reported : Failed(r)
                      /\ exit_code = 2 => /\ \A r \in reported : ~Failed(r)
                                          /\ \E r \in reported : HeldBack(r)
    BY DEF ExitCodeTells
  <2>1. TypeOK /\ exit_code = ExitCode
    BY DEF BaseInv, GateInv, ReportedInv
  <2>2. exit_code = 1 => \E r \in reported : Failed(r)
    BY <2>1, WhatExitCodeSays
  <2>3. exit_code = 2 => (\A r \in reported : ~Failed(r)) /\ \E r \in reported : HeldBack(r)
    BY <2>1, WhatExitCodeSays DEF BlockedInv
  <2>4. ASSUME exit_code = 0, NEW i \in DOMAIN plan, plan[i].action # "noop"
        PROVE  \E r \in reported : r.key = plan[i].entry.key /\ r.error = None
    <3>1. \A j \in DOMAIN results : ~results[j].blocked /\ ~Failed(results[j])
      BY <2>1, <2>4, WhatExitCodeSays
    <3>2. Len(results) \in Nat /\ DOMAIN results = 1..Len(results)
          /\ Len(plan) \in Nat /\ i \in 1..Len(plan)
      BY <2>1 DEF TypeOK
    <3>3. ~StoppedEarly
      BY <3>1, <3>2 DEF StoppedEarly
    <3>4. Follows(Len(plan))
      BY <3>3 DEF ReportedInv
    <3>5. i \in Due(Len(plan))
      BY <2>4, <3>2 DEF Due
    <3>6. Cardinality(Due(i)) \in DOMAIN results
      BY <3>2, <3>4, <3>5, DuePlace DEF Follows
    <3>7. results[Cardinality(Due(i))].key = plan[i].entry.key
      BY <3>4, <3>5 DEF Follows
    <3>8. results[Cardinality(Due(i))].error = None
      BY <3>1, <3>6 DEF Failed
    <3> QED
      BY <3>6, <3>7, <3>8
  <2> QED
    BY <2>2, <2>3, <2>4
<1> QED
  BY <1>1, <1>2, <1>3, <1>4, PlanInvariant, ResultsAlwaysFollow, PTL DEF Spec

-----------------------------------------------------------------------------
(* What a run that ends well leaves                                        *)

(* What the database keeps of a datatype is, to the plan, no other one.    *)
(* It is what the normalisation is for; where it fails, as for CHAR(3),    *)
(* every plan finds a difference and no run of apply settles the column.   *)
StoredIsDeclared == \A dt \in ColumnType : ~DatatypeDiffers(Stored(dt), dt)

(* What is written, or is not an object the plan fetches, is as declared.  *)
LEMMA WrittenAsDeclared ==
  ASSUME StoredIsDeclared, BaseInv, pc = "write", NEW c \in Current, Execute(c.entry)
  PROVE  AsDeclared(c.entry)'
<1>0. TypeOK /\ GateInv /\ PlanInv
  BY DEF BaseInv, GateInv
<1>1. PICK e : e = c.entry
  OBVIOUS
<1>2. PICK o : o = live'[e.key]
  OBVIOUS
<1>3. o = LiveAfterWrite(e) /\ o # Absent
  BY <1>0, <1>1, <1>2, WriteChanges
<1>4. o.setting = e.setting
  BY <1>3 DEF LiveAfterWrite
<1>5. Removed(e, o) = {} /\ ChangedColumns(e, o) = {}
  <2>1. CASE e.kind # "table"
    BY <2>1 DEF Removed, ChangedColumns
  <2>2. CASE e.kind = "table"
    <3>1. /\ Names(wire) = Names(e.columns)
          /\ \A n \in Names(e.columns) : wire[n].datatype = e.columns[n].datatype
      BY <1>0, <1>1 DEF GateInv, Ready
    <3>2. o.columns = StoredColumns(wire)
      BY <1>3, <2>2 DEF LiveAfterWrite
    <3>3. Names(o.columns) = Names(e.columns)
      BY <1>0, <3>1, <3>2, StoredTyped DEF TypeOK
    <3>4. ASSUME NEW n \in Names(e.columns)
          PROVE  ~DatatypeDiffers(o.columns[n].datatype, e.columns[n].datatype)
      <4>1. n \in ColumnName /\ wire[n] # Absent
        BY <3>1 DEF Names
      <4>2. o.columns[n].datatype = Stored(wire[n].datatype)
        BY <3>2, <4>1 DEF StoredColumns
      <4>3. wire[n].datatype = e.columns[n].datatype
        BY <3>1
      <4>4. e.columns \in Columns(Nat)
        BY <1>0, <1>1, CurrentTyped DEF Entry
      <4>5. e.columns[n].datatype \in ColumnType
        BY <4>4, ColumnFields
      <4> QED
        BY <4>2, <4>3, <4>5 DEF StoredIsDeclared
    <3> QED
      BY <3>3, <3>4 DEF Removed, ChangedColumns
  <2> QED
    BY <2>1, <2>2
<1>6. ~HasDiff(e, o)
  BY <1>4, <1>5 DEF HasDiff, SettingDiffers
<1>7. AsDeclared(e)'
  BY <1>2, <1>3, <1>6 DEF AsDeclared
<1> QED
  BY <1>1, <1>7 DEF AsDeclared

(* An object stays as declared as long as it is as it is.                  *)
LEMMA StillAsDeclared ==
  ASSUME NEW e, live'[e.key] = live[e.key], AsDeclared(e)
  PROVE  AsDeclared(e)'
BY DEF AsDeclared

(* What ends up as declared stays so through every write of the program.   *)
LEMMA SettledStays ==
  ASSUME StoredIsDeclared, ErrorsHaveText, BaseInv, AppliedInv, SettledMeansApplied,
         [Next]_vars
  PROVE  SettledMeansApplied'
<1> SUFFICES ASSUME settled', NEW i \in DOMAIN Manifest
             PROVE  AsDeclared(Manifest[i])'
  BY DEF SettledMeansApplied, AsDeclared
<1>0. TypeOK /\ GateInv /\ PlanInv
  BY DEF BaseInv, GateInv
<1>1. PICK e : e = Manifest[i]
  OBVIOUS
<1> SUFFICES AsDeclared(e)'
  BY <1>1
<1>2. ASSUME settled PROVE AsDeclared(e)
  BY <1>1, <1>2 DEF SettledMeansApplied, AsDeclared
<1>3. CASE settled /\ live' = live
  BY <1>2, <1>3, StillAsDeclared
<1>4. CASE settled /\ live' # live /\ ApplyStep
  <2>1. PICK c \in Current : pc = "write" /\ Execute(c.entry)
    BY <1>4 DEF ApplyStep, ReportFetchError, SkipNoop, Block, WouldApply, Prepare,
      PrepareFails, WriteSucceeds, WriteAnswerLost, WriteRefused, Exit
  <2>2. /\ next \in DOMAIN plan /\ c = plan[next] /\ c.entry = Manifest[next]
        /\ next \in DOMAIN Manifest
    BY <1>0, CurrentTyped, ConstantsAssumption DEF PlanInv, TypeOK
  <2>3. CASE i = next
    <3>1. c.entry = e
      BY <1>1, <2>2, <2>3
    <3>2. AsDeclared(c.entry)'
      BY <2>1, WrittenAsDeclared
    <3> QED
      BY <3>1, <3>2 DEF AsDeclared
  <2>4. CASE i # next
    <3>1. e.key # c.entry.key
      BY <1>1, <2>2, <2>4, ConstantsAssumption
    <3>2. e.key \in Object
      <4>1. e \in Entry
        BY <1>1, ConstantsAssumption
      <4> QED
        BY <4>1 DEF Entry
    <3>3. live'[e.key] = live[e.key]
      BY <1>0, <2>1, <3>1, <3>2, WriteChanges
    <3> QED
      BY <1>2, <1>4, <3>3, StillAsDeclared
  <2> QED
    BY <2>3, <2>4
<1>5. CASE ~settled
  <2>1. Exit
    <3>1. PlanStep => settled' = settled
      BY <1>0, PlanStepPlansNext DEF PlansNext, ReportPlan, BeginApply, history
    <3>2. Outside \/ UNCHANGED vars => ~settled' \/ settled' = settled
      BY WhatOutsideDoes DEF vars
    <3>3. ApplyStep
      BY <1>5, <3>1, <3>2 DEF Next, Outside
    <3> QED
      BY <1>5, <3>3 DEF ApplyStep, ReportFetchError, SkipNoop, Block, WouldApply, Prepare,
        PrepareFails, WriteSucceeds, WriteAnswerLost, WriteRefused, Fail, Record, history
  <2>2. /\ pc = "apply" /\ next > Len(plan) /\ undisturbed /\ ~options.dry_run
        /\ ExitCode = 0 /\ live' = live
    BY <2>1 DEF Exit
  <2>3. ~SomethingWrong
    BY <1>0, <2>2, WhatExitCodeSays DEF SomethingWrong
  <2>4. /\ i \in DOMAIN plan /\ plan[i].entry = e /\ i <= Len(plan)
        /\ i \in Nat /\ next \in Nat /\ Len(plan) \in Nat
    BY <1>0, <1>1, <2>2, ConstantsAssumption DEF PlanInv, TypeOK
  <2>5. i < next
    BY <2>2, <2>4
  <2>6. AsDeclared(e)
    BY <2>2, <2>3, <2>4, <2>5 DEF AppliedInv
  <2> QED
    BY <2>2, <2>6, StillAsDeclared
<1>6. CASE settled /\ live' # live /\ ~ApplyStep
  <2>1. ~PlanStep
    BY <1>0, <1>6, PlanStepPlansNext DEF PlansNext, ReportPlan, BeginApply
  <2> QED
    BY <1>6, <2>1, WhatOutsideDoes DEF Next, Outside, vars
<1> QED
  BY <1>3, <1>4, <1>5, <1>6

(* What a result more tells.                                               *)
LEMMA WrongStaysWrong ==
  ASSUME TypeOK, NEW R, results \in Seq(R), NEW r \in R, results' = Append(results, r)
  PROVE  /\ SomethingWrong => SomethingWrong'
         /\ r.blocked \/ Failed(r) => SomethingWrong'
<1>1. /\ \A j \in DOMAIN results : j \in DOMAIN results' /\ results'[j] = results[j]
      /\ Len(results) + 1 \in DOMAIN results' /\ results'[Len(results) + 1] = r
  OBVIOUS
<1>2. SomethingWrong => SomethingWrong'
  BY <1>1 DEF SomethingWrong, Failed
<1>3. r.blocked \/ Failed(r) => SomethingWrong'
  BY <1>1 DEF SomethingWrong, Failed
<1> QED
  BY <1>2, <1>3

(* As long as nothing is wrong, what the loop passed is as declared.       *)
LEMMA AppliedStays ==
  ASSUME StoredIsDeclared, BaseInv, FoundInv, AppliedInv, [Next]_vars
  PROVE  AppliedInv'
<1> SUFFICES ASSUME undisturbed', pc' \in {"apply", "write"}, ~options'.dry_run,
                    ~SomethingWrong', NEW i \in DOMAIN plan', i < next'
             PROVE  AsDeclared(plan[i].entry)'
  BY DEF AppliedInv
<1>0. TypeOK /\ GateInv /\ PlanInv
  BY DEF BaseInv, GateInv
<1>1. CASE PlanStep
  <2>1. next' = 1 /\ DOMAIN plan' = DOMAIN plan
    BY <1>0, <1>1, PlanStepPlansNext
      DEF PlansNext, ReportPlan, BeginApply, PlanInv, loop
  <2>2. i \in Nat \ {0}
    BY <1>0, <2>1 DEF TypeOK
  <2> QED
    BY <2>1, <2>2
<1>2. CASE ApplyStep
  <2>1. Passes /\ pc \in {"apply", "write"} /\ pc' # "exited"
    BY <1>0, <1>2, LoopPasses, LoopPhases
  <2>2. /\ UNCHANGED <<plan, options, undisturbed>> /\ next' \in Nat
        /\ next \in Nat /\ i \in Nat /\ i \in DOMAIN plan
    <3>1. UNCHANGED <<plan, options, undisturbed>> /\ next' \in Nat
      BY <2>1 DEF Passes
    <3>2. next \in Nat /\ plan \in Seq(Change)
      BY <1>0 DEF TypeOK
    <3>3. plan' = plan
      BY <3>1
    <3>4. i \in DOMAIN plan
      BY <3>3
    <3>5. i \in Nat
      BY <3>2, <3>4
    <3> QED
      BY <3>1, <3>2, <3>4, <3>5
  <2>3. PICK e : e = plan[i].entry
    OBVIOUS
  <2> SUFFICES AsDeclared(e)'
    BY <2>2, <2>3 DEF AsDeclared
  <2>4. ASSUME NEW c \in Current, NEW text \in ErrorText \cup {None, "blocked"},
               NEW blocked \in BOOLEAN, NEW break,
               Record(Result(c, text, blocked), break)
        PROVE  /\ ~SomethingWrong /\ ~blocked /\ text = None
    <3> DEFINE R == [key : Object, error : ErrorText \cup {None, "blocked"},
                     blocked : BOOLEAN]
    <3>1. PICK r : r = Result(c, text, blocked)
      OBVIOUS
    <3>2. /\ r \in R /\ (r.blocked <=> blocked)
          /\ Failed(r) <=> ~blocked /\ text # None
      BY <1>0, <3>1, CurrentTyped DEF Result, Failed
    <3>3. results \in Seq(R)
      BY <1>0 DEF TypeOK
    <3>4. results' = Append(results, r)
      BY <2>4, <3>1 DEF Record
    <3> HIDE DEF R
    <3> QED
      BY <1>0, <3>2, <3>3, <3>4, WrongStaysWrong
  <2>5. ASSUME i < next, ~SomethingWrong
        PROVE  AsDeclared(e)'
    <3>1. AsDeclared(e)
      BY <2>1, <2>2, <2>3, <2>5 DEF AppliedInv
    <3>2. live'[e.key] = live[e.key]
      BY <2>1, <2>2, <2>3, <2>5 DEF Passes
    <3> QED
      BY <3>1, <3>2, StillAsDeclared
  <2>6. CASE SkipNoop
    <3>1. PICK c \in Current : c.action = "noop" /\ next' = next + 1 /\ live' = live
      BY <2>6 DEF SkipNoop
    <3>2. ~SomethingWrong
      BY <2>6 DEF SkipNoop, SomethingWrong, Failed
    <3>3. next \in DOMAIN plan /\ c = plan[next]
      BY DEF Current
    <3>4. AsDeclared(c.entry)
      BY <2>1, <2>2, <3>1, <3>3 DEF FoundInv, Running, AsFound, AsDeclared
    <3>5. i < next \/ i = next
      BY <2>2, <3>1
    <3>6. i = next => AsDeclared(e) /\ live' = live
      BY <2>3, <3>1, <3>3, <3>4
    <3> QED
      BY <2>5, <3>2, <3>5, <3>6, StillAsDeclared
  <2>7. CASE Prepare
    <3>1. next' = next /\ ~SomethingWrong
      BY <2>7 DEF Prepare, SomethingWrong, Failed
    <3> QED
      BY <2>5, <3>1
  <2>8. ~Exit
    BY <2>1 DEF Exit
  <2>9. ~\E c \in Current, text \in ErrorText : Fail(c, text)
    <3> SUFFICES ASSUME NEW c \in Current, NEW text \in ErrorText, Fail(c, text)
                 PROVE  FALSE
      OBVIOUS
    <3>1. Record(Result(c, text, FALSE), options.stop_on_error)
      BY DEF Fail
    <3>2. options.stop_on_error \in BOOLEAN /\ text \in ErrorText \cup {None, "blocked"}
      BY <1>0 DEF TypeOK, Options
    <3>3. text = None
      BY <2>4, <3>1, <3>2
    <3> QED
      BY <3>3, ConstantsAssumption
  <2>10. ~\E c \in Current : Record(Result(c, "blocked", TRUE), FALSE)
    BY <2>4
  <2>11. ~options.dry_run
    BY <2>2
  <2>12. ASSUME NEW c \in Current, pc = "write", Execute(c.entry),
                Record(Result(c, None, FALSE), FALSE)
         PROVE  AsDeclared(e)'
    <3>1. next' = next + 1
      BY <2>12 DEF Record
    <3>2. ~SomethingWrong
      BY <2>4, <2>12
    <3>3. next \in DOMAIN plan /\ c = plan[next]
      BY DEF Current
    <3>4. AsDeclared(c.entry)'
      BY <2>12, WrittenAsDeclared
    <3>5. i < next \/ i = next
      BY <2>2, <3>1
    <3>6. i = next => AsDeclared(e)'
      BY <2>3, <3>3, <3>4 DEF AsDeclared
    <3> QED
      BY <2>5, <3>2, <3>5, <3>6
  <2> QED
    BY <1>0, <1>2, <2>6, <2>7, <2>8, <2>9, <2>10, <2>11, <2>12, WhatTheLoopDoes
<1>3. CASE Outside \/ UNCHANGED vars
  <2>1. UNCHANGED vars
    BY <1>3, WhatOutsideDoes
  <2>2. UNCHANGED <<live, plan, results, next, options, undisturbed, pc>>
    BY <2>1 DEF vars
  <2>3. ~SomethingWrong
    BY <2>2 DEF SomethingWrong, Failed
  <2>4. AsDeclared(plan[i].entry)
    BY <2>2, <2>3 DEF AppliedInv
  <2> QED
    BY <2>2, <2>4 DEF AsDeclared
<1> QED
  BY <1>1, <1>2, <1>3 DEF Next, Outside

(* The invariant SettledMeansApplied of the specification: when every      *)
(* exception has a text and the database keeps what is declared, a run     *)
(* that exits with 0 leaves the account as the manifest has it.            *)
THEOREM SettledIsApplied ==
  ASSUME StoredIsDeclared, ErrorsHaveText
  PROVE  Spec => []SettledMeansApplied
<1>1. Init => AppliedInv /\ SettledMeansApplied
  BY DEF Init, AppliedInv, SettledMeansApplied
<1>2. BaseInv /\ FoundInv /\ AppliedInv /\ [Next]_vars => AppliedInv'
  BY AppliedStays
<1>3. BaseInv /\ AppliedInv /\ SettledMeansApplied /\ [Next]_vars => SettledMeansApplied'
  BY SettledStays
<1>4. UndisturbedInv => BaseInv /\ FoundInv
  BY DEF UndisturbedInv
<1> QED
  BY <1>1, <1>2, <1>3, <1>4, UndisturbedInvariant, PTL DEF Spec
=============================================================================
