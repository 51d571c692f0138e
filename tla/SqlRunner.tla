----------------------------- MODULE SqlRunner -----------------------------
(***************************************************************************)
(* SqlRunner's calls on one connection, request by request, and the        *)
(* session behind it: its context, its autocommit switch, and what its     *)
(* open transaction has executed (src/snowrig/sql.py; the commands exec    *)
(* and transaction of src/snowrig/cli/main.py make one such call).         *)
(*                                                                         *)
(* A request is answered, or it raises: it was not executed, or it was and *)
(* its answer is lost.  What is raised is an Exception, or an interrupt    *)
(* (Ctrl-C), which `except Exception` does not catch.                      *)
(***************************************************************************)
EXTENDS SqlCalls

CONSTANT
  ProfileContext,     \* the context connect() asks for
  DefaultSchema       \* the schema that is current after USE DATABASE

ASSUME ContextAssumption == ProfileContext \in Context /\ DefaultSchema \in Name

VARIABLES
  context, autocommit,   \* of the session
  pending,    \* executed in the open transaction
  durable,    \* committed
  pc,         \* "idle", "body", "rollback", "restore", "report" or "closed"
  at,         \* the request the body has come to
  outcome,    \* how the body, or what follows it, has ended so far
  calls,      \* the calls made so far
  reports,    \* how the finished ones ended
  exposed     \* history: a transaction's clean-up was cut short

session == <<context, autocommit, pending, durable>>
vars == <<session, pc, at, outcome, calls, reports, exposed>>

Init ==
  /\ context = ProfileContext
  /\ autocommit = TRUE
  /\ pending = {} /\ durable = {}
  /\ pc = "idle" /\ at = 1 /\ outcome = "none"
  /\ calls = <<>> /\ reports = <<>>
  /\ exposed = FALSE

-----------------------------------------------------------------------------
(* The requests of a call                                                  *)

Request(op, field, index) == [op |-> op, field |-> field, index |-> index]

UseOf(c, field) ==
  IF c.use[field] = NoName THEN <<>> ELSE <<Request("use", field, 0)>>

(* Fault: the schema is named before the database.                         *)
UsesSchemaFirst(c) ==
  UseOf(c, "role") \o UseOf(c, "warehouse") \o UseOf(c, "schema") \o UseOf(c, "database")

(* _use_context: one USE for each field that is given.                     *)
Uses(c) ==
  UseOf(c, "role") \o UseOf(c, "warehouse") \o UseOf(c, "database") \o UseOf(c, "schema")

Statements(c) ==
  [i \in DOMAIN c.statements |-> Request("statement", "", i)]

(* Fault: autocommit stays on.                                             *)
BodyWithoutSwitch(c) ==
  IF c.method = "run" THEN Uses(c) \o Statements(c)
  ELSE Uses(c) \o Statements(c) \o <<Request("commit", "", 0)>>

(* The try block.                                                          *)
Body(c) ==
  IF c.method = "run" THEN Uses(c) \o Statements(c)
  ELSE Uses(c) \o <<Request("autocommit", "", 0)>> \o Statements(c)
               \o <<Request("commit", "", 0)>>

-----------------------------------------------------------------------------
(* The session: Snowflake's side of a request                              *)

Current == calls[Len(calls)]

(* A schema belongs to a database: to name another is to leave it.         *)
ExecuteUse(field) ==
  /\ context' = [f \in Field |->
                   IF f = field THEN Current.use[f]
                   ELSE IF f = "schema" /\ field = "database" THEN DefaultSchema
                   ELSE context[f]]
  /\ UNCHANGED <<autocommit, pending, durable>>

ExecuteCommit ==
  /\ durable' = durable \cup pending /\ pending' = {}
  /\ UNCHANGED <<context, autocommit>>

ExecuteRollback ==
  /\ pending' = {}
  /\ UNCHANGED <<context, autocommit, durable>>

(* Switching autocommit may commit an open transaction or leave it open;   *)
(* the properties must hold either way.                                    *)
ExecuteSwitch(on) ==
  /\ autocommit' = on
  /\ \/ durable' = durable \cup pending /\ pending' = {}
     \/ UNCHANGED <<pending, durable>>
  /\ UNCHANGED context

ExecuteStatement(i) ==
  LET effect == {[call |-> Len(calls), index |-> i]} IN
  /\ IF Current.statements[i] = "ddl" \/ (autocommit /\ pending = {})
     THEN durable' = durable \cup pending \cup effect /\ pending' = {}
     ELSE pending' = pending \cup effect /\ UNCHANGED durable
  /\ UNCHANGED <<context, autocommit>>

Execute(r) ==
  \/ r.op = "use" /\ ExecuteUse(r.field)
  \/ r.op = "autocommit" /\ ExecuteSwitch(FALSE)
  \/ r.op = "statement" /\ ExecuteStatement(r.index)
  \/ r.op = "commit" /\ ExecuteCommit

(* A statement that commits by itself may have committed what was open     *)
(* before it was refused.                                                  *)
Refuse(r) ==
  \/ UNCHANGED session
  \/ r.op = "statement" /\ Current.statements[r.index] = "ddl" /\ ExecuteCommit

-----------------------------------------------------------------------------
(* A call                                                                  *)

Begin(c) ==
  /\ pc = "idle" /\ Len(calls) < MaxCalls
  /\ calls' = Append(calls, c)
  /\ pc' = "body" /\ at' = 1 /\ outcome' = "none"
  /\ UNCHANGED <<session, reports, exposed>>

CurrentRequest == Body(Current)[at]

InTransaction == Current.method = "run_transaction"

(* Fault: the end of the body is not noted.                                *)
BodyAnsweredUnnoted ==
  /\ pc = "body"
  /\ Execute(CurrentRequest)
  /\ IF at < Len(Body(Current))
     THEN at' = at + 1 /\ UNCHANGED pc
     ELSE pc' = (IF InTransaction THEN "restore" ELSE "report") /\ UNCHANGED at
  /\ UNCHANGED <<outcome, calls, reports, exposed>>

BodyAnswered ==
  /\ pc = "body"
  /\ Execute(CurrentRequest)
  /\ IF at < Len(Body(Current))
     THEN at' = at + 1 /\ UNCHANGED <<pc, outcome>>
     ELSE /\ outcome' = "returned"
          /\ pc' = (IF InTransaction THEN "restore" ELSE "report")
          /\ UNCHANGED at
  /\ UNCHANGED <<calls, reports, exposed>>

(* Where an exception of the body leads.                                   *)
AfterBody(how) ==
  IF ~InTransaction THEN "report" ELSE IF how = "raised" THEN "rollback" ELSE "restore"

(* Fault: straight to the finally clause.                                  *)
RaiseWithoutRollback(how) ==
  /\ pc = "body"
  /\ Execute(CurrentRequest) \/ Refuse(CurrentRequest)
  /\ outcome' = how
  /\ pc' = IF InTransaction THEN "restore" ELSE "report"
  /\ exposed' = (exposed \/ (InTransaction /\ how = "interrupted"))
  /\ UNCHANGED <<at, calls, reports>>

BodyRaises(how) ==
  /\ pc = "body"
  /\ Execute(CurrentRequest) \/ Refuse(CurrentRequest)
  /\ outcome' = how
  /\ pc' = AfterBody(how)
  /\ exposed' = (exposed \/ (InTransaction /\ how = "interrupted"))
  /\ UNCHANGED <<at, calls, reports>>

RollbackAnswered ==
  /\ pc = "rollback"
  /\ ExecuteRollback
  /\ pc' = "restore"
  /\ UNCHANGED <<at, outcome, calls, reports, exposed>>

(* The new exception hides the body's.                                     *)
RollbackRaises(how) ==
  /\ pc = "rollback"
  /\ \/ ExecuteRollback /\ UNCHANGED exposed
     \/ UNCHANGED session /\ exposed' = TRUE
  /\ outcome' = how
  /\ pc' = "restore"
  /\ UNCHANGED <<at, calls, reports>>

(* Fault: autocommit is restored after a commit only.                      *)
RestoreAfterCommit ==
  /\ pc = "restore"
  /\ IF outcome = "returned" THEN ExecuteSwitch(TRUE) ELSE UNCHANGED session
  /\ pc' = "report"
  /\ UNCHANGED <<at, outcome, calls, reports, exposed>>

RestoreAnswered ==
  /\ pc = "restore"
  /\ ExecuteSwitch(TRUE)
  /\ pc' = "report"
  /\ UNCHANGED <<at, outcome, calls, reports, exposed>>

(* Also after a commit: the call then raises although all is done.         *)
RestoreRaises(how) ==
  /\ pc = "restore"
  /\ \/ ExecuteSwitch(TRUE) /\ UNCHANGED exposed
     \/ UNCHANGED session /\ exposed' = TRUE
  /\ outcome' = how
  /\ pc' = "report"
  /\ UNCHANGED <<at, calls, reports>>

(* What the caller is told: `snowrig transaction` prints "committed" when  *)
(* the call returned, and "rolled back" when it raised.                    *)
Report ==
  /\ pc = "report"
  /\ reports' = Append(reports, outcome)
  /\ pc' = "idle"
  /\ UNCHANGED <<session, at, outcome, calls, exposed>>

(* The connection's owner closes it; the server drops an open transaction. *)
Close ==
  /\ pc = "idle"
  /\ pc' = "closed"
  /\ pending' = {}
  /\ UNCHANGED <<context, autocommit, durable, at, outcome, calls, reports, exposed>>

Step ==
  \/ BodyAnswered \/ RollbackAnswered \/ RestoreAnswered
  \/ \E how \in {"raised", "interrupted"} :
       BodyRaises(how) \/ RollbackRaises(how) \/ RestoreRaises(how)
  \/ Report

Next == (\E c \in Calls : Begin(c)) \/ Step \/ Close

Spec == Init /\ [][Next]_vars

(* A call that began goes on: its requests are answered or time out.       *)
FairSpec == Spec /\ WF_vars(Step)

-----------------------------------------------------------------------------
(* Properties                                                              *)

(* The type invariant.                                                     *)
TypeOK ==
  /\ context \in Context
  /\ autocommit \in BOOLEAN
  /\ pending \subseteq Effect /\ durable \subseteq Effect
  /\ pc \in {"idle", "body", "rollback", "restore", "report", "closed"}
  /\ at \in Nat \ {0}
  /\ outcome \in Outcome \cup {"none"}
  /\ calls \in Seq(Calls) /\ Len(calls) <= MaxCalls
  /\ reports \in Seq(Outcome)
  /\ Len(calls) = Len(reports) + (IF pc \in {"idle", "closed"} THEN 0 ELSE 1)
  /\ exposed \in BOOLEAN

(* A statement runs in the context its call names, whatever calls ran on   *)
(* the connection before; a schema that is not named is the named          *)
(* database's default, never one an earlier call left.                     *)
OwnContext ==
  pc = "body" /\ CurrentRequest.op = "statement" =>
    /\ \A f \in Field : Current.use[f] # NoName => context[f] = Current.use[f]
    /\ Current.use["database"] # NoName /\ Current.use["schema"] = NoName =>
         context["schema"] = DefaultSchema

DurableEffects(n) == {e \in durable : e.call = n}

(* run_transaction "Runs every statement atomically": at no time is only a *)
(* part of a call durable, unless a statement commits by itself or the     *)
(* clean-up was cut short.                                                 *)
AllOrNothing ==
  ~exposed =>
    \A n \in DOMAIN calls : \E b \in Boundaries(calls[n]) :
      DurableEffects(n) = FirstEffects(n, b)

(* However a call ended, the next one finds autocommit on and no open      *)
(* transaction: its own statements are committed as they run.              *)
CleanBetweenCalls == pc = "idle" /\ ~exposed => autocommit /\ pending = {}

(* SqlRunner implements AtomicCalls: each request is one of its steps or   *)
(* none, and every call ends.                                              *)
Atomic == INSTANCE AtomicCalls

ImplementsAtomicCalls == Atomic!FairSpec

(* `snowrig transaction` says "Transaction rolled back" when the call      *)
(* raised; then nothing of the transaction should be there.                *)
RolledBackMeansNothing ==
  \A n \in DOMAIN reports :
    calls[n].method = "run_transaction" /\ reports[n] = "raised" => DurableEffects(n) = {}
=============================================================================
