-------------------------- MODULE SqlRunner_proofs --------------------------
(***************************************************************************)
(* What a SqlRunner promises, for every set of calls and every context:    *)
(* its statements run where their call says, a transaction is durable      *)
(* whole or not at all, the next call starts clean, and so its steps are   *)
(* those of AtomicCalls.                                                   *)
(***************************************************************************)
EXTENDS SqlRunner, SequenceTheorems, TLAPS

-----------------------------------------------------------------------------
(* The requests of a call                                                  *)

Requests ==
  [op : {"use", "autocommit", "statement", "commit"},
   field : Field \cup {""}, index : Nat]

UseRequests == {r \in Requests : r.op = "use" /\ r.field \in Field}

(* A call has its four fields, and statements.                             *)
LEMMA CallFields ==
  ASSUME NEW c \in Calls
  PROVE  /\ c.method \in {"run", "run_transaction"}
         /\ c.method = "run" => Len(c.statements) = 1
         /\ \A f \in Field : c.use[f] \in Name \cup {NoName}
         /\ c.statements \in Seq({"dml", "ddl"}) /\ Len(c.statements) \in Nat
BY CallsAssumption DEF Call, Context

(* One field's part of _use_context.                                       *)
LEMMA UseOfShape ==
  ASSUME NEW c, NEW f \in Field
  PROVE  /\ UseOf(c, f) \in Seq(UseRequests)
         /\ c.use[f] = NoName => Len(UseOf(c, f)) = 0
         /\ c.use[f] # NoName => Len(UseOf(c, f)) = 1 /\ UseOf(c, f)[1].field = f
<1>1. Request("use", f, 0) \in UseRequests /\ Request("use", f, 0).field = f
  BY DEF Request, UseRequests, Requests
<1> QED
  BY <1>1 DEF UseOf

(* What one more field adds to the requests made so far: itself, last.     *)
LEMMA UseAdded ==
  ASSUME NEW c, NEW f \in Field, NEW s \in Seq(UseRequests)
  PROVE  LET t == s \o UseOf(c, f) IN
         /\ t \in Seq(UseRequests)
         /\ Len(s) <= Len(t)
         /\ \A i \in 1..Len(s) : t[i] = s[i]
         /\ \A i \in 1..Len(t) : i > Len(s) => t[i].field = f /\ i = Len(t)
         /\ c.use[f] # NoName <=> Len(s) < Len(t)
<1> DEFINE u == UseOf(c, f)
<1>1. /\ u \in Seq(UseRequests)
      /\ c.use[f] = NoName => Len(u) = 0
      /\ c.use[f] # NoName => Len(u) = 1 /\ u[1].field = f
  BY UseOfShape
<1> HIDE DEF u
<1>2. /\ s \o u \in Seq(UseRequests)
      /\ Len(s \o u) = Len(s) + Len(u)
      /\ \A i \in 1..(Len(s) + Len(u)) :
           (s \o u)[i] = IF i <= Len(s) THEN s[i] ELSE u[i - Len(s)]
  BY <1>1, ConcatProperties
<1>3. Len(s) \in Nat
  BY LenProperties
<1>4. \A i \in 1..Len(s \o u) : i > Len(s) => (s \o u)[i].field = f /\ i = Len(s \o u)
  <2> SUFFICES ASSUME NEW i \in 1..Len(s \o u), i > Len(s)
               PROVE  (s \o u)[i].field = f /\ i = Len(s \o u)
    OBVIOUS
  <2>1. Len(u) = 1 /\ u[1].field = f
    BY <1>1, <1>2, <1>3
  <2>2. i = Len(s) + 1 /\ i - Len(s) = 1
    BY <1>2, <1>3, <2>1
  <2>3. (s \o u)[i] = u[1]
    BY <1>2, <1>3, <2>1, <2>2
  <2> QED
    BY <1>2, <2>1, <2>2, <2>3
<1> QED
  BY <1>1, <1>2, <1>3, <1>4 DEF u

(* _use_context asks for every field that is given, the schema after the   *)
(* database.                                                               *)
LEMMA UsesShape ==
  ASSUME NEW c
  PROVE  LET u == Uses(c) IN
         /\ u \in Seq(UseRequests)
         /\ \A f \in Field : c.use[f] # NoName => \E i \in 1..Len(u) : u[i].field = f
         /\ \A i \in 1..Len(u) : c.use[u[i].field] # NoName
         /\ \A i, j \in 1..Len(u) :
              u[i].field = "schema" /\ u[j].field = "database" => j < i
<1> DEFINE role == UseOf(c, "role")
           warehouse == role \o UseOf(c, "warehouse")
           database == warehouse \o UseOf(c, "database")
           schema == database \o UseOf(c, "schema")
<1> Field = {"role", "warehouse", "database", "schema"}
  BY DEF Field
<1>0. schema = Uses(c)
  BY DEF Uses
<1>1. /\ role \in Seq(UseRequests)
      /\ \A i \in 1..Len(role) : role[i].field = "role"
      /\ c.use["role"] # NoName <=> Len(role) > 0
  <2>1. /\ role \in Seq(UseRequests)
        /\ c.use["role"] = NoName => Len(role) = 0
        /\ c.use["role"] # NoName => Len(role) = 1 /\ role[1].field = "role"
    BY UseOfShape
  <2> QED
    BY <2>1
<1> HIDE DEF role
<1>2. /\ warehouse \in Seq(UseRequests)
      /\ Len(role) <= Len(warehouse)
      /\ \A i \in 1..Len(role) : warehouse[i] = role[i]
      /\ \A i \in 1..Len(warehouse) : i > Len(role) =>
           warehouse[i].field = "warehouse" /\ i = Len(warehouse)
      /\ c.use["warehouse"] # NoName <=> Len(role) < Len(warehouse)
  BY <1>1, UseAdded
<1> HIDE DEF warehouse
<1>3. /\ database \in Seq(UseRequests)
      /\ Len(warehouse) <= Len(database)
      /\ \A i \in 1..Len(warehouse) : database[i] = warehouse[i]
      /\ \A i \in 1..Len(database) : i > Len(warehouse) =>
           database[i].field = "database" /\ i = Len(database)
      /\ c.use["database"] # NoName <=> Len(warehouse) < Len(database)
  BY <1>2, UseAdded
<1> HIDE DEF database
<1>4. /\ schema \in Seq(UseRequests)
      /\ Len(database) <= Len(schema)
      /\ \A i \in 1..Len(database) : schema[i] = database[i]
      /\ \A i \in 1..Len(schema) : i > Len(database) =>
           schema[i].field = "schema" /\ i = Len(schema)
      /\ c.use["schema"] # NoName <=> Len(database) < Len(schema)
  BY <1>3, UseAdded
<1> HIDE DEF schema
<1>5. Len(role) \in Nat /\ Len(warehouse) \in Nat /\ Len(database) \in Nat /\ Len(schema) \in Nat
  BY <1>1, <1>2, <1>3, <1>4
<1>6. \A i \in 1..Len(database) : schema[i].field # "schema"
  BY <1>1, <1>2, <1>3, <1>4, <1>5
<1>7. \A f \in Field : c.use[f] # NoName => \E i \in 1..Len(schema) : schema[i].field = f
  <2>1. c.use["role"] # NoName => schema[1].field = "role" /\ 1 \in 1..Len(schema)
    BY <1>1, <1>2, <1>3, <1>4, <1>5
  <2>2. c.use["warehouse"] # NoName =>
          /\ schema[Len(warehouse)].field = "warehouse"
          /\ Len(warehouse) \in 1..Len(schema)
    BY <1>2, <1>3, <1>4, <1>5
  <2>3. c.use["database"] # NoName =>
          schema[Len(database)].field = "database" /\ Len(database) \in 1..Len(schema)
    BY <1>3, <1>4, <1>5
  <2>4. c.use["schema"] # NoName =>
          schema[Len(schema)].field = "schema" /\ Len(schema) \in 1..Len(schema)
    BY <1>4, <1>5
  <2> QED
    BY <2>1, <2>2, <2>3, <2>4
<1>8. \A i, j \in 1..Len(schema) :
        schema[i].field = "schema" /\ schema[j].field = "database" => j < i
  BY <1>4, <1>5, <1>6
<1>9. \A i \in 1..Len(schema) : c.use[schema[i].field] # NoName
  <2> SUFFICES ASSUME NEW i \in 1..Len(schema)
               PROVE  c.use[schema[i].field] # NoName
    OBVIOUS
  <2>1. CASE i <= Len(role)
    BY <1>1, <1>2, <1>3, <1>4, <1>5, <2>1
  <2>2. CASE i > Len(role) /\ i <= Len(warehouse)
    BY <1>2, <1>3, <1>4, <1>5, <2>2
  <2>3. CASE i > Len(warehouse) /\ i <= Len(database)
    BY <1>3, <1>4, <1>5, <2>3
  <2>4. CASE i > Len(database)
    BY <1>4, <1>5, <2>4
  <2> QED
    BY <1>5, <2>1, <2>2, <2>3, <2>4
<1> QED
  BY <1>0, <1>4, <1>7, <1>8, <1>9

(* Both parts of a concatenation are found in it.                          *)
LEMMA Joined ==
  ASSUME NEW S, NEW s \in Seq(S), NEW t \in Seq(S)
  PROVE  /\ s \o t \in Seq(S)
         /\ Len(s) \in Nat /\ Len(t) \in Nat /\ Len(s \o t) = Len(s) + Len(t)
         /\ \A i \in 1..Len(s) : (s \o t)[i] = s[i]
         /\ \A i \in 1..Len(t) : (s \o t)[Len(s) + i] = t[i]
<1>1. Len(s) \in Nat /\ Len(t) \in Nat
  BY LenProperties
<1>2. /\ s \o t \in Seq(S)
      /\ Len(s \o t) = Len(s) + Len(t)
      /\ \A i \in 1..(Len(s) + Len(t)) :
           (s \o t)[i] = IF i <= Len(s) THEN s[i] ELSE t[i - Len(s)]
  BY ConcatProperties
<1>3. \A i \in 1..Len(s) : (s \o t)[i] = s[i]
  BY <1>1, <1>2
<1>4. ASSUME NEW i \in 1..Len(t)
      PROVE  (s \o t)[Len(s) + i] = t[i]
  <2>1. Len(s) + i \in 1..(Len(s) + Len(t)) /\ ~(Len(s) + i <= Len(s))
        /\ (Len(s) + i) - Len(s) = i
    BY <1>1
  <2> QED
    BY <1>2, <2>1
<1> QED
  BY <1>1, <1>2, <1>3, <1>4

(* The requests before a call's first statement.                           *)
Before(c) == Len(Uses(c)) + (IF c.method = "run" THEN 0 ELSE 1)

(* What the body asks for, place by place: the context, the switch of a    *)
(* transaction, the statements in order, and a transaction's commit.       *)
LEMMA BodyShape ==
  ASSUME NEW c \in Calls
  PROVE  LET n == Len(c.statements) IN
         /\ Len(Uses(c)) \in Nat /\ Before(c) \in Nat /\ Body(c) \in Seq(Requests)
         /\ Len(Body(c)) = Before(c) + n + (IF c.method = "run" THEN 0 ELSE 1)
         /\ Len(Body(c)) > 0
         /\ \A i \in 1..Len(Uses(c)) : Body(c)[i] = Uses(c)[i] /\ Body(c)[i] \in UseRequests
         /\ \A i \in 1..n : Body(c)[Before(c) + i] = Request("statement", "", i)
         /\ c.method # "run" =>
              /\ Body(c)[Before(c)] = Request("autocommit", "", 0)
              /\ Body(c)[Len(Body(c))] = Request("commit", "", 0)
<1> DEFINE n == Len(c.statements)
           u == Uses(c)
           ss == Statements(c)
           off == <<Request("autocommit", "", 0)>>
           commit == <<Request("commit", "", 0)>>
<1>1. /\ c.method = "run" => n = 1
      /\ n \in Nat
      /\ c.method \in {"run", "run_transaction"}
      /\ DOMAIN c.statements = 1..n
  BY CallFields, LenProperties
<1>2. u \in Seq(Requests) /\ (\A i \in 1..Len(u) : u[i] \in UseRequests) /\ Len(u) \in Nat
  <2>1. u \in Seq(UseRequests) /\ UseRequests \subseteq Requests
    BY UsesShape DEF UseRequests
  <2> HIDE DEF u
  <2> QED
    BY <2>1, SeqMonotonic, ElementOfSeq, LenProperties
<1>3. /\ ss \in Seq(Requests) /\ Len(ss) = n
      /\ \A i \in 1..n : ss[i] = Request("statement", "", i)
  <2>1. \A i \in 1..n : Request("statement", "", i) \in Requests
    BY <1>1 DEF Request, Requests
  <2>2. ss = [i \in 1..n |-> Request("statement", "", i)]
    BY <1>1 DEF Statements
  <2>3. n \in Nat
    BY <1>1
  <2> HIDE DEF n, ss
  <2>4. ss \in [1..n -> Requests] /\ \A i \in 1..n : ss[i] = Request("statement", "", i)
    BY <2>1, <2>2
  <2>a. ss \in [1..n -> Requests]
    BY <2>4
  <2>5. ss \in Seq(Requests) /\ Len(ss) = n
    BY <2>3, <2>a
  <2> QED
    BY <2>4, <2>5
<1>4. off \in Seq(Requests) /\ Len(off) = 1 /\ off[1] = Request("autocommit", "", 0)
  BY DEF Request, Requests
<1>5. commit \in Seq(Requests) /\ Len(commit) = 1 /\ commit[1] = Request("commit", "", 0)
  BY DEF Request, Requests
<1>a. /\ u \in Seq(Requests) /\ ss \in Seq(Requests)
      /\ off \in Seq(Requests) /\ commit \in Seq(Requests)
  BY <1>2, <1>3, <1>4, <1>5
<1>b. /\ Len(u) \in Nat /\ n \in Nat /\ (c.method = "run" => n = 1)
      /\ Len(ss) = n /\ Len(off) = 1 /\ Len(commit) = 1
  BY <1>1, <1>2, <1>3, <1>4, <1>5
<1>6. Before(c) = Len(u) + (IF c.method = "run" THEN 0 ELSE 1)
  BY DEF Before
<1>7. /\ c.method = "run" => Body(c) = u \o ss
      /\ c.method # "run" => Body(c) = ((u \o off) \o ss) \o commit
  BY DEF Body
<1> HIDE DEF n, u, ss, off, commit
<1>8. CASE c.method = "run"
  <2>1. /\ u \o ss \in Seq(Requests)
        /\ Len(u \o ss) = Len(u) + Len(ss)
        /\ \A i \in 1..Len(u) : (u \o ss)[i] = u[i]
        /\ \A i \in 1..Len(ss) : (u \o ss)[Len(u) + i] = ss[i]
    BY <1>a, Joined
  <2>2. \A i \in 1..Len(u) : Body(c)[i] = u[i]
    BY <1>7, <1>8, <2>1
  <2>3. \A i \in 1..n : Body(c)[Len(u) + i] = ss[i]
    BY <1>3, <1>7, <1>8, <2>1
  <2>4. /\ Body(c) \in Seq(Requests)
        /\ Len(Body(c)) = Before(c) + n /\ Before(c) = Len(u) /\ Len(Body(c)) > 0
    <3>1. Body(c) = u \o ss /\ Before(c) = Len(u) + 0
      BY <1>6, <1>7, <1>8
    <3>2. u \o ss \in Seq(Requests) /\ Len(u \o ss) = Len(u) + n
      BY <1>b, <2>1
    <3> QED
      BY <1>b, <1>8, <3>1, <3>2
  <2>5. /\ \A i \in 1..Len(u) : Body(c)[i] = u[i] /\ Body(c)[i] \in UseRequests
        /\ \A i \in 1..n : Body(c)[Before(c) + i] = Request("statement", "", i)
    BY <1>2, <1>3, <2>2, <2>3, <2>4
  <2>6. Len(u) \in Nat /\ Before(c) \in Nat
    BY <1>b, <2>4
  <2>7. Len(Body(c)) = Before(c) + n + (IF c.method = "run" THEN 0 ELSE 1)
    BY <1>b, <1>8, <2>4, <2>6
  <2> QED
    BY <1>8, <2>4, <2>5, <2>6, <2>7 DEF n, u
<1>9. CASE c.method # "run"
  <2> DEFINE a == u \o off
             b == a \o ss
             d == b \o commit
  <2>1. /\ a \in Seq(Requests) /\ Len(a) = Len(u) + Len(off)
        /\ \A i \in 1..Len(u) : a[i] = u[i]
        /\ \A i \in 1..Len(off) : a[Len(u) + i] = off[i]
    BY <1>a, Joined
  <2> HIDE DEF a
  <2>b. a \in Seq(Requests)
    BY <2>1
  <2>2. /\ b \in Seq(Requests) /\ Len(b) = Len(a) + Len(ss)
        /\ \A i \in 1..Len(a) : b[i] = a[i]
        /\ \A i \in 1..Len(ss) : b[Len(a) + i] = ss[i]
    BY <1>a, <2>b, Joined
  <2> HIDE DEF b
  <2>c. b \in Seq(Requests)
    BY <2>2
  <2>3. /\ d \in Seq(Requests) /\ Len(d) = Len(b) + Len(commit)
        /\ \A i \in 1..Len(b) : d[i] = b[i]
        /\ \A i \in 1..Len(commit) : d[Len(b) + i] = commit[i]
    BY <1>a, <2>c, Joined
  <2>4. Body(c) = d
    BY <1>7, <1>9 DEF a, b
  <2> HIDE DEF d
  <2>a. /\ Len(a) = Len(u) + 1 /\ Len(b) = Len(u) + 1 + n /\ Len(d) = Len(u) + n + 2
        /\ Len(u) \in Nat /\ n \in Nat
    <3>1. Len(a) = Len(u) + Len(off) /\ Len(b) = Len(a) + Len(ss) /\ Len(d) = Len(b) + Len(commit)
      BY <2>1, <2>2, <2>3
    <3> QED
      BY <1>b, <3>1
  <2>5. \A i \in 1..Len(u) : Body(c)[i] = u[i]
    BY <2>1, <2>2, <2>3, <2>4, <2>a
  <2>6. Body(c)[Len(u) + 1] = off[1]
    <3>1. a[Len(u) + 1] = off[1]
      BY <1>b, <2>1
    <3>2. Len(u) + 1 \in 1..Len(a) /\ Len(u) + 1 \in 1..Len(b)
      BY <2>a
    <3> QED
      BY <2>2, <2>3, <2>4, <3>1, <3>2
  <2>7. \A i \in 1..n : Body(c)[Len(u) + 1 + i] = ss[i]
    <3> SUFFICES ASSUME NEW i \in 1..n
                 PROVE  Body(c)[Len(u) + 1 + i] = ss[i]
      OBVIOUS
    <3>1. b[Len(a) + i] = ss[i]
      BY <1>b, <2>2
    <3>2. Len(a) + i \in 1..Len(b) /\ Len(a) + i = Len(u) + 1 + i
      BY <2>a
    <3> QED
      BY <2>3, <2>4, <3>1, <3>2
  <2>8. Body(c)[Len(u) + n + 2] = commit[1] /\ Len(Body(c)) = Len(u) + n + 2
    <3>1. d[Len(b) + 1] = commit[1]
      BY <1>b, <2>3
    <3>2. Len(b) + 1 = Len(u) + n + 2
      BY <2>a
    <3> QED
      BY <2>4, <2>a, <3>1, <3>2
  <2>9. Before(c) = Len(u) + 1
    BY <1>6, <1>9
  <2>10. /\ Body(c) \in Seq(Requests) /\ Before(c) \in Nat
         /\ Len(Body(c)) = Before(c) + n + 1 /\ Len(Body(c)) > 0
    BY <2>3, <2>4, <2>8, <2>9, <2>a
  <2>11. /\ \A i \in 1..Len(u) : Body(c)[i] = u[i] /\ Body(c)[i] \in UseRequests
         /\ \A i \in 1..n : Body(c)[Before(c) + i] = Request("statement", "", i)
    BY <1>2, <1>3, <2>5, <2>7, <2>9
  <2>12. /\ Body(c)[Before(c)] = Request("autocommit", "", 0)
         /\ Body(c)[Len(Body(c))] = Request("commit", "", 0)
    BY <1>1, <1>2, <1>4, <1>5, <2>6, <2>8, <2>9
  <2> QED
    BY <1>2, <1>9, <2>10, <2>11, <2>12 DEF n, u
<1> QED
  BY <1>8, <1>9

(* What a request is follows from its place, and its place from what it is. *)
LEMMA RequestShape ==
  ASSUME NEW c \in Calls, NEW i \in 1..Len(Body(c))
  PROVE  LET r == Body(c)[i] IN
         /\ r \in Requests
         /\ r.op = "use" => i <= Len(Uses(c)) /\ r = Uses(c)[i] /\ r.field \in Field
         /\ r.op = "autocommit" => c.method # "run" /\ i = Before(c)
         /\ r.op = "statement" =>
              i > Before(c) /\ r.index = i - Before(c) /\ r.index \in 1..Len(c.statements)
         /\ r.op = "commit" => c.method # "run" /\ i = Len(Body(c))
         /\ i <= Len(Uses(c)) => r.op = "use"
         /\ i <= Before(c) => r.op \in {"use", "autocommit"}
<1> DEFINE n == Len(c.statements)
           r == Body(c)[i]
           Shape == /\ r \in Requests
                    /\ r.op = "use" =>
                         i <= Len(Uses(c)) /\ r = Uses(c)[i] /\ r.field \in Field
                    /\ r.op = "autocommit" => c.method # "run" /\ i = Before(c)
                    /\ r.op = "statement" =>
                         i > Before(c) /\ r.index = i - Before(c) /\ r.index \in 1..n
                    /\ r.op = "commit" => c.method # "run" /\ i = Len(Body(c))
                    /\ i <= Len(Uses(c)) => r.op = "use"
                    /\ i <= Before(c) => r.op \in {"use", "autocommit"}
<1> SUFFICES Shape
  OBVIOUS
<1>1. /\ Len(Uses(c)) \in Nat /\ Before(c) \in Nat /\ n \in Nat
      /\ Len(Body(c)) = Before(c) + n + (IF c.method = "run" THEN 0 ELSE 1)
      /\ Before(c) = Len(Uses(c)) + (IF c.method = "run" THEN 0 ELSE 1)
  BY BodyShape, CallFields DEF Before
<1>a. Body(c) \in Seq(Requests) /\ Len(Body(c)) \in Nat
  BY BodyShape, LenProperties
<1>2. r \in Requests
  BY <1>a, ElementOfSeq
<1>3. \/ i \in 1..Len(Uses(c))
      \/ c.method # "run" /\ i = Before(c) /\ i > Len(Uses(c))
      \/ i > Before(c) /\ i > Len(Uses(c)) /\ i - Before(c) \in 1..n
      \/ c.method # "run" /\ i = Len(Body(c)) /\ i > Before(c) /\ i > Len(Uses(c))
  <2>1. i \in Nat /\ 1 <= i /\ i <= Len(Body(c))
    BY <1>a
  <2>2. CASE c.method = "run"
    <3>1. Before(c) = Len(Uses(c)) /\ Len(Body(c)) = Before(c) + n
      BY <1>1, <2>2
    <3> HIDE DEF n
    <3> QED
      BY <1>1, <2>1, <3>1
  <2>3. CASE c.method # "run"
    <3>1. Before(c) = Len(Uses(c)) + 1 /\ Len(Body(c)) = Before(c) + n + 1
      BY <1>1, <2>3
    <3> HIDE DEF n
    <3> QED
      BY <1>1, <2>1, <2>3, <3>1
  <2> QED
    BY <2>2, <2>3
<1>c. i \in Nat /\ Len(Uses(c)) \in Nat /\ Before(c) \in Nat /\ Len(Uses(c)) <= Before(c)
  BY <1>1, <1>a
<1>4. CASE i \in 1..Len(Uses(c))
  <2>1. r = Uses(c)[i] /\ r \in UseRequests
    BY <1>4, BodyShape
  <2>2. i <= Len(Uses(c)) /\ i <= Before(c)
    BY <1>4, <1>c
  <2>3. r.op = "use" /\ r.field \in Field
    <3> HIDE DEF r
    <3> QED
      BY <2>1 DEF UseRequests
  <2> HIDE DEF r, n
  <2> QED
    BY <1>2, <2>1, <2>2, <2>3
<1>5. CASE c.method # "run" /\ i = Before(c) /\ i > Len(Uses(c))
  <2>1. r = Request("autocommit", "", 0)
    BY <1>5, BodyShape
  <2>2. r.op = "autocommit" /\ ~(i <= Len(Uses(c)))
    <3> HIDE DEF r
    <3>1. r.op = "autocommit"
      BY <2>1 DEF Request
    <3> QED
      BY <1>5, <1>c, <3>1
  <2> HIDE DEF r, n
  <2> QED
    BY <1>2, <1>5, <2>2
<1>6. CASE i > Before(c) /\ i > Len(Uses(c)) /\ i - Before(c) \in 1..n
  <2>1. Body(c)[Before(c) + (i - Before(c))] = Request("statement", "", i - Before(c))
    BY <1>6, BodyShape
  <2>2. Before(c) + (i - Before(c)) = i /\ ~(i <= Before(c)) /\ ~(i <= Len(Uses(c)))
    BY <1>1, <1>6
  <2>3. r = Request("statement", "", i - Before(c))
    BY <2>1, <2>2
  <2>4. r.op = "statement" /\ r.index = i - Before(c)
    <3> HIDE DEF r
    <3> QED
      BY <2>3 DEF Request
  <2> HIDE DEF r, n
  <2> QED
    BY <1>2, <1>6, <2>2, <2>4
<1>7. CASE c.method # "run" /\ i = Len(Body(c)) /\ i > Before(c) /\ i > Len(Uses(c))
  <2>1. r = Request("commit", "", 0)
    BY <1>7, BodyShape
  <2>2. ~(i <= Before(c)) /\ ~(i <= Len(Uses(c)))
    BY <1>1, <1>7
  <2>3. r.op = "commit"
    <3> HIDE DEF r
    <3> QED
      BY <2>1 DEF Request
  <2> HIDE DEF r, n
  <2> QED
    BY <1>2, <1>7, <2>2, <2>3
<1> QED
  BY <1>3, <1>4, <1>5, <1>6, <1>7

-----------------------------------------------------------------------------
(* Type correctness                                                        *)

(* While its body runs, a call has come to one of its requests.            *)
PositionInv == pc = "body" => at \in 1..Len(Body(Current))

(* A body that raised or ended has an outcome.                             *)
OutcomeInv ==
  /\ pc \in {"restore", "report"} => outcome \in Outcome
  /\ pc = "rollback" => outcome \in Outcome \ {"returned"}

Typed == TypeOK /\ PositionInv /\ OutcomeInv

(* A call that runs is the last that was made.                             *)
LEMMA CurrentIsCall ==
  ASSUME TypeOK, pc \notin {"idle", "closed"}
  PROVE  /\ Len(calls) \in 1..MaxCalls /\ Current \in Calls
         /\ Len(calls) = Len(reports) + 1 /\ DOMAIN calls = 1..Len(calls)
<1>1. Len(calls) \in Nat /\ Len(reports) \in Nat /\ calls \in Seq(Calls)
  BY LenProperties DEF TypeOK
<1>2. Len(calls) = Len(reports) + 1 /\ Len(calls) <= MaxCalls /\ MaxCalls \in Nat
  BY CallsAssumption DEF TypeOK
<1> QED
  BY <1>1, <1>2, ElementOfSeq, LenProperties DEF Current

(* The request the body has come to is one of the call's.                  *)
LEMMA RequestTyped ==
  ASSUME Typed, pc = "body"
  PROVE  /\ Current \in Calls /\ CurrentRequest \in Requests
         /\ CurrentRequest.op = "use" =>
              CurrentRequest.field \in Field /\ Current.use \in Context
         /\ CurrentRequest.op = "statement" =>
              CurrentRequest.index \in 1..Len(Current.statements)
<1>1. Current \in Calls /\ at \in 1..Len(Body(Current))
  BY CurrentIsCall DEF Typed, PositionInv
<1>2. Current.use \in Context
  BY <1>1, CallsAssumption DEF Call
<1> QED
  BY <1>1, <1>2, RequestShape DEF CurrentRequest

SessionTyped ==
  /\ context \in Context /\ autocommit \in BOOLEAN
  /\ pending \subseteq Effect /\ durable \subseteq Effect

(* Whatever the server does with a request, the session stays one.         *)
LEMMA ServerTyped ==
  ASSUME Typed, pc = "body", Execute(CurrentRequest) \/ Refuse(CurrentRequest)
  PROVE  SessionTyped'
<1> DEFINE r == CurrentRequest
<1> USE DEF SessionTyped
<1>0. SessionTyped
  BY DEF Typed, TypeOK
<1>1. /\ r.op = "use" => r.field \in Field /\ Current.use \in Context
      /\ r.op = "statement" => r.index \in 1..Len(Current.statements)
      /\ Len(calls) \in 1..MaxCalls
  BY RequestTyped, CurrentIsCall DEF Typed
<1> HIDE DEF r
<1>2. CASE r.op = "use" /\ ExecuteUse(r.field)
  <2>1. \A f \in Field : Current.use[f] \in Name \cup {NoName} /\ context[f] \in Name \cup {NoName}
    BY <1>0, <1>1, <1>2 DEF Context
  <2>2. context' \in Context
    BY <1>1, <1>2, <2>1, ContextAssumption DEF ExecuteUse, Context
  <2> QED
    BY <1>0, <1>2, <2>2 DEF ExecuteUse
<1>3. CASE r.op = "autocommit" /\ ExecuteSwitch(FALSE)
  BY <1>0, <1>3 DEF ExecuteSwitch
<1>4. CASE r.op = "statement" /\ ExecuteStatement(r.index)
  <2>1. {[call |-> Len(calls), index |-> r.index]} \subseteq Effect
    BY <1>1, <1>4 DEF Effect
  <2> QED
    BY <1>0, <1>4, <2>1 DEF ExecuteStatement
<1>5. CASE ExecuteCommit
  BY <1>0, <1>5 DEF ExecuteCommit
<1>6. CASE UNCHANGED session
  BY <1>0, <1>6 DEF session
<1> QED
  BY <1>2, <1>3, <1>4, <1>5, <1>6 DEF Execute, Refuse, r

(* Begin comes to the first request of a call's body, and there is one.    *)
LEMMA BeginTyped ==
  ASSUME Typed, NEW c \in Calls, Begin(c)
  PROVE  Typed' /\ Current' = c /\ Len(calls)' = Len(calls) + 1
<1> USE DEF Typed
<1>1. /\ calls \in Seq(Calls) /\ Len(calls) \in Nat /\ Len(calls) < MaxCalls
      /\ pc = "idle" /\ pc' = "body" /\ at' = 1 /\ calls' = Append(calls, c)
      /\ MaxCalls \in Nat
  BY LenProperties, CallsAssumption DEF TypeOK, Begin
<1>2. /\ calls' \in Seq(Calls) /\ Len(calls') = Len(calls) + 1
      /\ calls'[Len(calls) + 1] = c
  BY <1>1, AppendProperties
<1>3. Current' = c
  BY <1>2 DEF Current
<1>4. Len(Body(c)) \in Nat /\ Len(Body(c)) > 0
  BY BodyShape, LenProperties
<1>5. PositionInv'
  BY <1>1, <1>3, <1>4 DEF PositionInv
<1>6. Len(calls) = Len(reports) /\ Len(calls') = Len(reports') + 1 /\ Len(calls') <= MaxCalls
  BY <1>1, <1>2 DEF TypeOK, Begin
<1>7. TypeOK'
  BY <1>1, <1>2, <1>6 DEF TypeOK, Begin, session
<1>8. OutcomeInv'
  BY <1>1 DEF OutcomeInv
<1> QED
  BY <1>2, <1>3, <1>5, <1>7, <1>8

(* Nothing but Begin changes the calls, and Report and Close apart nothing *)
(* ends one.                                                               *)
SameCall == UNCHANGED <<calls, reports>> /\ pc \notin {"idle", "closed"}
            /\ pc' \in {"body", "rollback", "restore", "report"}

(* A step within a call that keeps the session typed keeps everything      *)
(* typed.                                                                  *)
LEMMA SameCallTyped ==
  ASSUME Typed, SameCall, SessionTyped', exposed' \in BOOLEAN,
         outcome' \in Outcome, pc' = "rollback" => outcome' # "returned",
         pc' # "body", at' = at
  PROVE  Typed' /\ Current' = Current
<1>1. Current' = Current
  BY DEF SameCall, Current
<1>2. PositionInv'
  BY DEF PositionInv
<1>3. TypeOK'
  BY DEF Typed, TypeOK, SameCall, SessionTyped
<1> QED
  BY <1>1, <1>2, <1>3 DEF Typed, OutcomeInv

(* The body goes to its next request, or ends behind its last.             *)
LEMMA BodyTyped ==
  ASSUME Typed, BodyAnswered
  PROVE  Typed' /\ Current' = Current /\ SameCall
<1>1. SessionTyped'
  BY ServerTyped DEF BodyAnswered
<1>2. at \in 1..Len(Body(Current)) /\ at \in Nat /\ Len(Body(Current)) \in Nat
  BY CurrentIsCall, BodyShape, LenProperties DEF Typed, PositionInv, BodyAnswered, TypeOK
<1>3. UNCHANGED <<calls, reports, exposed>> /\ Current' = Current
  BY DEF BodyAnswered, Current
<1>4. CASE at < Len(Body(Current))
  <2>1. at' = at + 1 /\ pc' = "body" /\ pc = "body" /\ outcome' = outcome
    BY <1>4 DEF BodyAnswered
  <2>2. at' \in 1..Len(Body(Current')) /\ at' \in Nat \ {0}
    BY <1>2, <1>3, <1>4, <2>1
  <2>3. PositionInv'
    BY <1>3, <2>2 DEF PositionInv
  <2>4. TypeOK'
    BY <1>1, <1>3, <2>1, <2>2 DEF Typed, TypeOK, SessionTyped
  <2> QED
    BY <1>3, <2>1, <2>3, <2>4 DEF Typed, SameCall, OutcomeInv
<1>5. CASE ~(at < Len(Body(Current)))
  <2>1. /\ at' = at /\ pc' \in {"restore", "report"} /\ pc = "body"
        /\ outcome' = "returned"
    BY <1>5 DEF BodyAnswered
  <2>2. SameCall
    BY <1>3, <2>1 DEF SameCall
  <2>3. exposed' \in BOOLEAN
    BY <1>3 DEF Typed, TypeOK
  <2> QED
    BY <1>1, <2>1, <2>2, <2>3, SameCallTyped DEF Outcome
<1> QED
  BY <1>4, <1>5

(* An exception in the body: the call goes on to its clean-up.             *)
LEMMA RaiseTyped ==
  ASSUME Typed, NEW how \in {"raised", "interrupted"}, BodyRaises(how)
  PROVE  Typed' /\ Current' = Current /\ SameCall
<1>1. SessionTyped'
  BY ServerTyped DEF BodyRaises
<1>2. /\ pc = "body" /\ pc' \in {"rollback", "restore", "report"} /\ at' = at
      /\ outcome' \in Outcome \ {"returned"}
  BY DEF BodyRaises, AfterBody, Outcome
<1>3. exposed' \in BOOLEAN
  BY DEF BodyRaises, Typed, TypeOK
<1>4. SameCall
  BY <1>2 DEF SameCall, BodyRaises
<1> QED
  BY <1>1, <1>2, <1>3, <1>4, SameCallTyped

(* The clean-up of a transaction: the rollback and the switch back.        *)
CleanUp ==
  \/ RollbackAnswered \/ RestoreAnswered
  \/ \E how \in {"raised", "interrupted"} : RollbackRaises(how) \/ RestoreRaises(how)

(* Every answer to a clean-up request, and every exception in one.         *)
LEMMA CleanUpTyped ==
  ASSUME Typed, CleanUp
  PROVE  Typed' /\ Current' = Current /\ SameCall
<1>1. SessionTyped'
  <2>1. SessionTyped
    BY DEF Typed, TypeOK, SessionTyped
  <2>2. ExecuteRollback \/ ExecuteSwitch(TRUE) \/ UNCHANGED session
    BY DEF CleanUp, RollbackAnswered, RollbackRaises, RestoreAnswered, RestoreRaises
  <2> QED
    BY <2>1, <2>2 DEF SessionTyped, ExecuteRollback, ExecuteSwitch, session
<1>2. /\ pc \in {"rollback", "restore"} /\ pc' \in {"restore", "report"} /\ at' = at
      /\ outcome' \in Outcome /\ UNCHANGED <<calls, reports>>
  BY DEF CleanUp, RollbackAnswered, RollbackRaises, RestoreAnswered, RestoreRaises,
         Typed, OutcomeInv, Outcome
<1>3. exposed' \in BOOLEAN
  BY DEF CleanUp, RollbackAnswered, RollbackRaises, RestoreAnswered, RestoreRaises,
         Typed, TypeOK
<1>4. SameCall
  BY <1>2 DEF SameCall
<1> QED
  BY <1>1, <1>2, <1>3, <1>4, SameCallTyped

(* A report ends the call that runs.                                       *)
LEMMA ReportTyped ==
  ASSUME Typed, Report
  PROVE  Typed'
<1>1. reports \in Seq(Outcome) /\ outcome \in Outcome
  BY DEF Typed, TypeOK, OutcomeInv, Report
<1>2. reports' \in Seq(Outcome) /\ Len(reports') = Len(reports) + 1
  BY <1>1, AppendProperties DEF Report
<1>3. Len(calls) = Len(reports) + 1 /\ Len(reports) \in Nat
  BY <1>1, LenProperties DEF Typed, TypeOK, Report
<1>4. Len(calls') = Len(reports')
  BY <1>2, <1>3 DEF Report
<1>5. TypeOK'
  BY <1>2, <1>4 DEF Typed, TypeOK, Report, session
<1> QED
  BY <1>5 DEF Typed, PositionInv, OutcomeInv, Report

(* TypeOK holds, and a running body is at one of its requests.             *)
LEMMA TypedHolds == Spec => []Typed
<1>1. Init => Typed
  <2>1. <<>> \in Seq(Calls) /\ <<>> \in Seq(Outcome) /\ Len(<<>>) = 0
    BY EmptySeq
  <2> SUFFICES ASSUME Init
               PROVE  TypeOK /\ pc = "idle"
    BY DEF Typed, PositionInv, OutcomeInv
  <2>2. MaxCalls \in Nat
    BY CallsAssumption
  <2>3. 0 <= MaxCalls
    BY <2>2
  <2>4. calls = <<>> /\ reports = <<>> /\ pc = "idle" /\ at = 1
    BY DEF Init
  <2>5. /\ calls \in Seq(Calls) /\ Len(calls) <= MaxCalls /\ reports \in Seq(Outcome)
        /\ Len(calls) = Len(reports) + (IF pc \in {"idle", "closed"} THEN 0 ELSE 1)
    <3>1. calls \in Seq(Calls) /\ reports \in Seq(Outcome) /\ pc \in {"idle", "closed"}
      BY <2>1, <2>4
    <3>2. Len(calls) = 0 /\ Len(reports) = 0
      BY <2>1, <2>4
    <3> QED
      BY <2>3, <3>1, <3>2
  <2>6. /\ context \in Context /\ autocommit \in BOOLEAN
        /\ pending \subseteq Effect /\ durable \subseteq Effect /\ exposed \in BOOLEAN
    BY ContextAssumption DEF Init
  <2>7. at \in Nat \ {0} /\ outcome \in Outcome \cup {"none"}
    BY DEF Init
  <2> QED
    BY <2>4, <2>5, <2>6, <2>7 DEF TypeOK
<1>2. Typed /\ [Next]_vars => Typed'
  <2> SUFFICES ASSUME Typed, [Next]_vars
               PROVE  Typed'
    OBVIOUS
  <2>1. ASSUME NEW c \in Calls, Begin(c)
        PROVE  Typed'
    BY <2>1, BeginTyped
  <2>2. CASE BodyAnswered
    BY <2>2, BodyTyped
  <2>3. ASSUME NEW how \in {"raised", "interrupted"}, BodyRaises(how)
        PROVE  Typed'
    BY <2>3, RaiseTyped
  <2>4. CASE CleanUp
    BY <2>4, CleanUpTyped
  <2>5. CASE Report
    BY <2>5, ReportTyped
  <2>6. CASE Close
    BY <2>6 DEF Close, Typed, TypeOK, PositionInv, OutcomeInv
  <2>7. CASE UNCHANGED vars
    BY <2>7 DEF vars, session, Typed, TypeOK, PositionInv, OutcomeInv, Current
  <2> QED
    BY <2>1, <2>2, <2>3, <2>4, <2>5, <2>6, <2>7 DEF Next, Step, CleanUp
<1> QED
  BY <1>1, <1>2, PTL DEF Spec

(* The session's type, and as many reports as calls that ended.            *)
THEOREM TypeCorrect == Spec => []TypeOK
<1>1. Typed => TypeOK
  BY DEF Typed
<1> QED
  BY <1>1, TypedHolds, PTL

-----------------------------------------------------------------------------
(* The context                                                             *)

(* What the requests of _use_context that were answered have set: nothing  *)
(* that follows takes it back.                                             *)
ContextInv ==
  pc = "body" =>
    \A j \in 1..Len(Uses(Current)) :
      j < at =>
        LET f == Uses(Current)[j].field IN
        /\ context[f] = Current.use[f]
        /\ f = "database" /\ Current.use["schema"] = NoName =>
             context["schema"] = DefaultSchema

(* Answering one request of the body keeps it.                             *)
LEMMA BodyKeepsContext ==
  ASSUME Typed, ContextInv, BodyAnswered
  PROVE  ContextInv'
<1> DEFINE u == Uses(Current)
           r == CurrentRequest
<1>1. Current' = Current /\ Current \in Calls /\ pc = "body" /\ at \in Nat
  BY BodyTyped, RequestTyped DEF BodyAnswered, Typed, TypeOK
<1>2. SUFFICES ASSUME pc' = "body", at' = at + 1
               PROVE  ContextInv'
  BY DEF BodyAnswered, ContextInv
<1>3. /\ \A j \in 1..Len(u) : u[j].field \in Field /\ Current.use[u[j].field] # NoName
      /\ \A i, j \in 1..Len(u) :
           u[i].field = "schema" /\ u[j].field = "database" => j < i
      /\ Len(u) \in Nat
  <2>1. \A j \in 1..Len(u) : u[j] \in UseRequests
    BY UsesShape, ElementOfSeq
  <2> QED
    BY <2>1, UsesShape, LenProperties DEF UseRequests
<1>4. \A j \in 1..Len(u) : j < at =>
        /\ context[u[j].field] = Current.use[u[j].field]
        /\ u[j].field = "database" /\ Current.use["schema"] = NoName =>
             context["schema"] = DefaultSchema
  BY <1>1 DEF ContextInv
<1>5. SUFFICES ASSUME NEW j \in 1..Len(u), j < at + 1
               PROVE  /\ context'[u[j].field] = Current.use[u[j].field]
                      /\ u[j].field = "database" /\ Current.use["schema"] = NoName =>
                           context'["schema"] = DefaultSchema
  BY <1>1, <1>2 DEF ContextInv
<1>6. /\ at \in 1..Len(Body(Current))
      /\ r.op = "use" => at <= Len(u) /\ r = u[at] /\ r.field \in Field
      /\ at <= Len(u) => r.op = "use"
  BY <1>1, RequestShape DEF Typed, PositionInv, CurrentRequest
<1>7. Execute(r)
  BY DEF BodyAnswered
<1> HIDE DEF u, r
<1>8. CASE r.op # "use"
  <2>1. context' = context
    BY <1>7, <1>8 DEF Execute, ExecuteSwitch, ExecuteStatement, ExecuteCommit
  <2>2. j < at
    BY <1>1, <1>3, <1>5, <1>6, <1>8
  <2> QED
    BY <1>4, <2>1, <2>2
<1>9. CASE r.op = "use"
  <2>1. /\ r.field \in Field
        /\ context' = [f \in Field |->
             IF f = r.field THEN Current.use[f]
             ELSE IF f = "schema" /\ r.field = "database" THEN DefaultSchema
             ELSE context[f]]
    BY <1>6, <1>7, <1>9 DEF Execute, ExecuteUse
  <2>2. u[j].field \in Field /\ "schema" \in Field
    BY <1>3 DEF Field
  <2>3. CASE j = at
    <3>1. r.field = u[j].field
      BY <1>6, <1>9, <2>3
    <3> QED
      BY <2>1, <2>2, <3>1
  <2>4. CASE j < at
    <3>1. at \in 1..Len(u) /\ r.field = u[at].field
      BY <1>1, <1>3, <1>6, <1>9
    <3>2. ~(u[j].field = "schema" /\ r.field = "database")
      BY <1>1, <1>3, <2>4, <3>1
    <3>3. Current.use["schema"] = NoName => r.field # "schema"
      BY <1>3, <3>1
    <3>4. context'[u[j].field] = Current.use[u[j].field]
      BY <1>4, <2>1, <2>2, <2>4, <3>2
    <3>5. u[j].field = "database" /\ Current.use["schema"] = NoName =>
            context'["schema"] = DefaultSchema
      BY <1>4, <2>1, <2>2, <2>4, <3>3
    <3> QED
      BY <3>4, <3>5
  <2> QED
    BY <1>1, <1>5, <2>3, <2>4
<1> QED
  BY <1>8, <1>9

(* A statement is behind all of its call's requests for a context.         *)
LEMMA StatementsFollowUses ==
  ASSUME Typed, ContextInv
  PROVE  OwnContext
<1> SUFFICES ASSUME pc = "body", CurrentRequest.op = "statement"
             PROVE  /\ \A f \in Field :
                         Current.use[f] # NoName => context[f] = Current.use[f]
                    /\ Current.use["database"] # NoName /\ Current.use["schema"] = NoName =>
                         context["schema"] = DefaultSchema
  BY DEF OwnContext
<1> DEFINE u == Uses(Current)
<1>1. Current \in Calls /\ at > Before(Current) /\ at \in Nat
  BY RequestTyped, RequestShape DEF Typed, TypeOK, PositionInv, CurrentRequest
<1>2. Len(u) \in Nat /\ Before(Current) \in Nat /\ Len(u) <= Before(Current)
  <2>1. Len(u) \in Nat /\ Before(Current) \in Nat
    BY <1>1, BodyShape
  <2>2. Before(Current) = Len(u) \/ Before(Current) = Len(u) + 1
    BY <2>1 DEF Before
  <2> QED
    BY <2>1, <2>2
<1>3. \A j \in 1..Len(u) : j < at
  BY <1>1, <1>2
<1>4. \A f \in Field : Current.use[f] # NoName => \E j \in 1..Len(u) : u[j].field = f
  BY UsesShape
<1>5. \A j \in 1..Len(u) :
        /\ context[u[j].field] = Current.use[u[j].field]
        /\ u[j].field = "database" /\ Current.use["schema"] = NoName =>
             context["schema"] = DefaultSchema
  BY <1>3 DEF ContextInv
<1> HIDE DEF u
<1>6. "database" \in Field
  BY DEF Field
<1>7. \A f \in Field : Current.use[f] # NoName => context[f] = Current.use[f]
  BY <1>4, <1>5
<1>8. Current.use["database"] # NoName /\ Current.use["schema"] = NoName =>
        context["schema"] = DefaultSchema
  BY <1>4, <1>5, <1>6
<1> QED
  BY <1>7, <1>8

(* Whatever calls ran on the connection before, and however they ended, a  *)
(* statement finds the context its call names, and the default schema of a *)
(* database that is named without one.                                     *)
THEOREM ContextIsOwn == Spec => []OwnContext
<1>1. Init => ContextInv
  BY DEF Init, ContextInv
<1>2. Typed /\ ContextInv /\ [Next]_vars => ContextInv'
  <2> SUFFICES ASSUME Typed, ContextInv, [Next]_vars
               PROVE  ContextInv'
    OBVIOUS
  <2>1. ASSUME NEW c \in Calls, Begin(c)
        PROVE  ContextInv'
    <3>1. at' = 1 /\ Current' = c
      BY <2>1, BeginTyped DEF Begin
    <3>2. Len(Uses(c)) \in Nat
      BY BodyShape
    <3>3. \A j \in 1..Len(Uses(c)) : ~(j < 1)
      BY <3>2
    <3> QED
      BY <3>1, <3>3 DEF ContextInv
  <2>2. CASE BodyAnswered
    BY <2>2, BodyKeepsContext
  <2>3. CASE pc' # "body"
    BY <2>3 DEF ContextInv
  <2>4. CASE UNCHANGED vars
    BY <2>4 DEF vars, session, ContextInv, Current
  <2>5. [Next]_vars =>
          (\E c \in Calls : Begin(c)) \/ BodyAnswered \/ pc' # "body" \/ UNCHANGED vars
    BY DEF Next, Step, BodyRaises, AfterBody, RollbackAnswered, RollbackRaises,
           RestoreAnswered, RestoreRaises, Report, Close
  <2> QED
    BY <2>1, <2>2, <2>3, <2>4, <2>5
<1>3. Typed /\ ContextInv => OwnContext
  BY StatementsFollowUses
<1> QED
  BY <1>1, <1>2, <1>3, TypedHolds, PTL DEF Spec

-----------------------------------------------------------------------------
(* Effects                                                                 *)

(* A call's first effects grow one by one, each with the call's number.    *)
LEMMA FirstEffectsGrow ==
  ASSUME NEW n, NEW k \in Nat, NEW b \in Nat, b <= k
  PROVE  /\ FirstEffects(n, b) \subseteq FirstEffects(n, k)
         /\ FirstEffects(n, k + 1) = FirstEffects(n, k) \cup {[call |-> n, index |-> k + 1]}
         /\ [call |-> n, index |-> k + 1] \notin FirstEffects(n, b)
         /\ FirstEffects(n, 0) = {}
         /\ \A e \in FirstEffects(n, k) : e.call = n
<1>1. 1..b \subseteq 1..k /\ 1..(k + 1) = (1..k) \cup {k + 1} /\ k + 1 \notin 1..b /\ 1..0 = {}
  OBVIOUS
<1>2. FirstEffects(n, b) \subseteq FirstEffects(n, k) /\ FirstEffects(n, 0) = {}
  BY <1>1 DEF FirstEffects
<1>3. FirstEffects(n, k + 1) = FirstEffects(n, k) \cup {[call |-> n, index |-> k + 1]}
  BY <1>1 DEF FirstEffects
<1>4. [call |-> n, index |-> k + 1] \notin FirstEffects(n, b)
  <2> SUFFICES ASSUME NEW i \in 1..b, [call |-> n, index |-> k + 1] = [call |-> n, index |-> i]
               PROVE  FALSE
    BY DEF FirstEffects
  <2>1. i = k + 1
    OBVIOUS
  <2> QED
    BY <1>1, <2>1
<1>5. \A e \in FirstEffects(n, k) : e.call = n
  BY DEF FirstEffects
<1> QED
  BY <1>2, <1>3, <1>4, <1>5

(* None, all, and where a statement commits by itself.                     *)
LEMMA BoundaryFacts ==
  ASSUME NEW c \in Calls
  PROVE  /\ Boundaries(c) \subseteq Nat /\ 0 \in Boundaries(c)
         /\ Len(c.statements) \in Boundaries(c)
         /\ \A i \in 1..Len(c.statements) : c.statements[i] = "ddl" =>
              i \in Boundaries(c) /\ i - 1 \in Boundaries(c)
         /\ \A b \in Boundaries(c) : b <= Len(c.statements)
<1>1. Len(c.statements) \in Nat /\ DOMAIN c.statements = 1..Len(c.statements)
  BY CallFields, LenProperties
<1>2. \A i \in 1..Len(c.statements) :
        i \in Nat /\ i - 1 \in Nat /\ i <= Len(c.statements) /\ i - 1 <= Len(c.statements)
  BY <1>1
<1>3. 0 <= Len(c.statements) /\ Len(c.statements) <= Len(c.statements)
  BY <1>1
<1> HIDE DEF Boundaries
<1>4. \A b : b \in Boundaries(c) <=>
        \/ b = 0 \/ b = Len(c.statements)
        \/ \E i \in 1..Len(c.statements) : c.statements[i] = "ddl" /\ (b = i - 1 \/ b = i)
  BY <1>1 DEF Boundaries
<1> QED
  BY <1>1, <1>2, <1>3, <1>4

(* The running call has executed k statements, those up to a boundary are  *)
(* durable, and the others wait in the open transaction.                   *)
Waiting(n, b, k) ==
  /\ DurableEffects(n) = FirstEffects(n, b)
  /\ pending = FirstEffects(n, k) \ FirstEffects(n, b)

Progress(k) == \E b \in Boundaries(Current) : b <= k /\ Waiting(Len(calls), b, k)

OthersKept(n) == \A m : m # n => DurableEffects(m)' = DurableEffects(m)

(* What becomes durable with what waits is the call's, and of no other.    *)
LEMMA CommitTakesAll ==
  ASSUME NEW n, NEW b \in Nat, NEW k \in Nat, b <= k, Waiting(n, b, k),
         durable' = durable \cup pending, pending' = {}
  PROVE  Waiting(n, k, k)' /\ OthersKept(n)
<1>1. FirstEffects(n, b) \subseteq FirstEffects(n, k) /\ \A e \in FirstEffects(n, k) : e.call = n
  BY FirstEffectsGrow
<1>2. \A e \in pending : e.call = n
  BY <1>1 DEF Waiting
<1>3. DurableEffects(n)' = FirstEffects(n, k)
  BY <1>1, <1>2 DEF DurableEffects, Waiting
<1>4. OthersKept(n)
  BY <1>2 DEF DurableEffects, OthersKept
<1> QED
  BY <1>3, <1>4 DEF Waiting

(* A statement that commits by itself takes with it what waits.            *)
LEMMA DdlTakesAll ==
  ASSUME NEW n, NEW b \in Nat, NEW k \in Nat, b <= k, Waiting(n, b, k),
         durable' = durable \cup pending \cup {[call |-> n, index |-> k + 1]}, pending' = {}
  PROVE  Waiting(n, k + 1, k + 1)' /\ OthersKept(n)
<1> DEFINE new == [call |-> n, index |-> k + 1]
<1>1. /\ FirstEffects(n, b) \subseteq FirstEffects(n, k)
      /\ FirstEffects(n, k + 1) = FirstEffects(n, k) \cup {new}
      /\ \A e \in FirstEffects(n, k) : e.call = n
  BY FirstEffectsGrow
<1>2. new.call = n
  OBVIOUS
<1> HIDE DEF new
<1>3. \A e \in pending \cup {new} : e.call = n
  BY <1>1, <1>2 DEF Waiting
<1>4. durable' = durable \cup (pending \cup {new})
  BY DEF new
<1>5. DurableEffects(n)' = FirstEffects(n, k + 1)
  BY <1>1, <1>3, <1>4 DEF DurableEffects, Waiting
<1>6. OthersKept(n)
  BY <1>3, <1>4 DEF DurableEffects, OthersKept
<1> QED
  BY <1>5, <1>6 DEF Waiting

(* A statement of an open transaction waits with the others.               *)
LEMMA StatementWaits ==
  ASSUME NEW n, NEW b \in Nat, NEW k \in Nat, b <= k, Waiting(n, b, k),
         pending' = pending \cup {[call |-> n, index |-> k + 1]}, durable' = durable
  PROVE  Waiting(n, b, k + 1)' /\ OthersKept(n)
<1> DEFINE new == [call |-> n, index |-> k + 1]
<1>1. /\ FirstEffects(n, b) \subseteq FirstEffects(n, k)
      /\ FirstEffects(n, k + 1) = FirstEffects(n, k) \cup {new}
      /\ new \notin FirstEffects(n, b)
  BY FirstEffectsGrow
<1>2. pending' = pending \cup {new}
  OBVIOUS
<1> HIDE DEF new
<1>3. pending' = FirstEffects(n, k + 1) \ FirstEffects(n, b)
  BY <1>1, <1>2 DEF Waiting
<1> QED
  BY <1>3 DEF Waiting, DurableEffects, OthersKept

(* The statements the running body has executed.                           *)
Executed == IF at <= Before(Current) THEN 0 ELSE at - Before(Current) - 1

(* What the request says of how far the body has come.                     *)
LEMMA BodyPlace ==
  ASSUME Typed, pc = "body"
  PROVE  LET r == CurrentRequest IN
         /\ Current \in Calls /\ Executed \in Nat
         /\ at \in Nat /\ Before(Current) \in Nat /\ Len(Body(Current)) \in Nat
         /\ r.op \in {"use", "autocommit", "statement", "commit"}
         /\ r.op = "statement" =>
              /\ r.index = Executed + 1 /\ r.index \in 1..Len(Current.statements)
              /\ at > Before(Current)
              /\ ~InTransaction =>
                   Executed = 0 /\ Len(Current.statements) = 1 /\ at = Len(Body(Current))
         /\ r.op \in {"use", "autocommit"} => Executed = 0 /\ at < Len(Body(Current))
         /\ r.op = "commit" =>
              /\ InTransaction /\ Executed = Len(Current.statements)
              /\ at = Len(Body(Current)) /\ at > Before(Current)
         /\ r.op = "autocommit" => InTransaction /\ at = Before(Current)
         /\ InTransaction /\ at = Before(Current) => r.op = "autocommit"
         /\ at = Len(Body(Current)) => r.op = (IF InTransaction THEN "commit" ELSE "statement")
<1> DEFINE r == CurrentRequest
           c == Current
           n == Len(Current.statements)
<1>1. c \in Calls /\ at \in 1..Len(Body(c))
  BY RequestTyped DEF Typed, PositionInv
<1>2. /\ Len(Body(c)) \in Nat /\ Before(c) \in Nat /\ n \in Nat /\ at \in Nat
      /\ InTransaction <=> c.method # "run"
      /\ c.method = "run" => n = 1
  <2>1. c.method \in {"run", "run_transaction"} /\ (c.method = "run" => n = 1) /\ n \in Nat
    BY <1>1, CallFields
  <2>2. Len(Body(c)) \in Nat /\ Before(c) \in Nat
    BY <1>1, BodyShape, LenProperties
  <2>3. at \in Nat
    BY DEF Typed, TypeOK
  <2> QED
    BY <2>1, <2>2, <2>3 DEF InTransaction
<1>3. /\ InTransaction => Len(Body(c)) = Before(c) + n + 1
      /\ ~InTransaction => Len(Body(c)) = Before(c) + n
  <2>1. Len(Body(c)) = Before(c) + n + (IF c.method = "run" THEN 0 ELSE 1)
    BY <1>1, BodyShape
  <2> HIDE DEF c, n
  <2> QED
    BY <1>2, <2>1
<1>4. /\ r \in Requests
      /\ r.op = "autocommit" => InTransaction /\ at = Before(c)
      /\ r.op = "statement" => at > Before(c) /\ r.index = at - Before(c) /\ r.index \in 1..n
      /\ r.op = "commit" => InTransaction /\ at = Len(Body(c))
      /\ r.op = "use" => at <= Len(Uses(c))
      /\ at <= Before(c) => r.op \in {"use", "autocommit"}
  BY <1>1, <1>2, RequestShape DEF CurrentRequest
<1>5. Len(Uses(c)) \in Nat /\ Len(Uses(c)) <= Before(c) /\ (InTransaction => Len(Uses(c)) < Before(c))
  <2>1. Len(Uses(c)) \in Nat
    BY <1>1, BodyShape
  <2>2. /\ c.method = "run" => Before(c) = Len(Uses(c))
        /\ c.method # "run" => Before(c) = Len(Uses(c)) + 1
    BY <2>1 DEF Before
  <2> HIDE DEF c
  <2> QED
    BY <1>2, <2>1, <2>2
<1>6. r.op \in {"use", "autocommit", "statement", "commit"}
  BY <1>4 DEF Requests
<1>7. Executed = IF at <= Before(c) THEN 0 ELSE at - Before(c) - 1
  BY DEF Executed
<1> HIDE DEF r, c, n
<1>8. Executed \in Nat
  BY <1>2, <1>7
<1>9. r.op = "statement" =>
        /\ r.index = Executed + 1 /\ r.index \in 1..n /\ at > Before(c)
        /\ ~InTransaction => Executed = 0 /\ n = 1 /\ at = Len(Body(c))
  BY <1>1, <1>2, <1>3, <1>4, <1>7
<1>10. r.op \in {"use", "autocommit"} => Executed = 0 /\ at < Len(Body(c))
  BY <1>1, <1>2, <1>3, <1>4, <1>5, <1>7
<1>11. r.op = "commit" =>
         InTransaction /\ Executed = n /\ at = Len(Body(c)) /\ at > Before(c)
  BY <1>2, <1>3, <1>4, <1>7
<1>12. InTransaction /\ at = Before(c) => r.op = "autocommit"
  BY <1>2, <1>4, <1>5
<1>13. at = Len(Body(c)) => r.op = (IF InTransaction THEN "commit" ELSE "statement")
  <2> SUFFICES ASSUME at = Len(Body(c))
               PROVE  r.op = (IF InTransaction THEN "commit" ELSE "statement")
    OBVIOUS
  <2>1. r.op \in {"statement", "commit"}
    BY <1>2, <1>6, <1>10
  <2>2. r.op = "statement" => ~InTransaction
    BY <1>2, <1>3, <1>4
  <2> QED
    BY <1>11, <2>1, <2>2
<1> QED
  BY <1>1, <1>2, <1>4, <1>6, <1>8, <1>9, <1>10, <1>11, <1>12, <1>13 DEF c, r, n

-----------------------------------------------------------------------------
(* All or nothing                                                          *)

(* While no clean-up was cut short: what was executed waits in the open    *)
(* transaction behind what a boundary made durable, autocommit is off only *)
(* within a transaction, and a body that returned has left nothing to do.  *)
CallInv ==
  /\ pc = "body" =>
       /\ autocommit = ~(InTransaction /\ at > Before(Current))
       /\ Progress(Executed)
  /\ pc \in {"idle", "report"} => autocommit
  /\ pc \notin {"body", "rollback"} => pending = {}
  /\ pc \in {"restore", "report"} /\ outcome = "returned" =>
       AllEffects(Len(calls), Current) \subseteq durable

(* What an executed request does to the running call's effects.            *)
LEMMA ExecuteProgress ==
  ASSUME Typed, pc = "body", CallInv, Execute(CurrentRequest),
         NEW n, n = Len(calls), NEW k \in Nat, k = Executed
  PROVE  LET r == CurrentRequest IN
         /\ r.op = "statement" =>
              \E b \in Boundaries(Current) : b <= k + 1 /\ Waiting(n, b, k + 1)'
         /\ r.op # "statement" =>
              \E b \in Boundaries(Current) : b <= k /\ Waiting(n, b, k)'
         /\ OthersKept(n)
         /\ ~InTransaction \/ r.op = "commit" => pending' = {}
         /\ autocommit' = ~(InTransaction /\ at + 1 > Before(Current))
<1> DEFINE r == CurrentRequest
<1>1. /\ Current \in Calls
      /\ at \in Nat /\ Before(Current) \in Nat
      /\ r.op \in {"use", "autocommit", "statement", "commit"}
      /\ r.op = "statement" =>
              /\ r.index = k + 1 /\ r.index \in 1..Len(Current.statements)
              /\ at > Before(Current)
              /\ ~InTransaction => k = 0 /\ Len(Current.statements) = 1
      /\ r.op \in {"use", "autocommit"} => k = 0
      /\ r.op = "commit" =>
              InTransaction /\ k = Len(Current.statements) /\ at > Before(Current)
      /\ r.op = "autocommit" => InTransaction /\ at = Before(Current)
      /\ InTransaction /\ at = Before(Current) => r.op = "autocommit"
  BY BodyPlace
<1>2. autocommit = ~(InTransaction /\ at > Before(Current))
  BY DEF CallInv
<1>3. PICK b \in Boundaries(Current) : b <= k /\ Waiting(n, b, k)
  BY DEF CallInv, Progress
<1>4. b \in Nat /\ k <= k /\ b <= k + 1 /\ k <= k + 1 /\ 0 <= k
  BY <1>1, <1>3, BoundaryFacts
<1>5. k = 0 => pending = {}
  <2>1. FirstEffects(n, 0) = {}
    BY FirstEffectsGrow, <1>4
  <2> QED
    BY <1>3, <2>1 DEF Waiting
<1>6. UNCHANGED <<pending, durable>> => Waiting(n, b, k)' /\ OthersKept(n)
  BY <1>3 DEF Waiting, DurableEffects, OthersKept
<1>7. durable' = durable \cup pending /\ pending' = {} => Waiting(n, k, k)' /\ OthersKept(n)
  BY <1>3, <1>4, CommitTakesAll
<1> HIDE DEF r
<1>8. CASE r.op = "use" /\ ExecuteUse(r.field)
  <2>1. UNCHANGED <<pending, durable>> /\ autocommit' = autocommit
    BY <1>8 DEF ExecuteUse
  <2>2. autocommit' = ~(InTransaction /\ at + 1 > Before(Current))
    BY <1>1, <1>2, <1>8, <2>1
  <2>3. pending' = {} /\ r.op # "statement"
    BY <1>1, <1>5, <1>8, <2>1
  <2> QED
    BY <1>3, <1>6, <2>1, <2>2, <2>3 DEF r
<1>9. CASE r.op = "autocommit" /\ ExecuteSwitch(FALSE)
  <2>1. /\ autocommit' = FALSE /\ r.op # "statement" /\ InTransaction
        /\ \/ UNCHANGED <<pending, durable>>
           \/ durable' = durable \cup pending /\ pending' = {}
    BY <1>1, <1>9 DEF ExecuteSwitch
  <2>2. autocommit' = ~(InTransaction /\ at + 1 > Before(Current))
    <3>1. at + 1 > Before(Current)
      BY <1>1, <1>9
    <3> QED
      BY <2>1, <3>1
  <2>3. k \in Boundaries(Current) /\ pending' = {}
    BY <1>1, <1>5, <1>9, <2>1, BoundaryFacts
  <2> QED
    BY <1>3, <1>4, <1>6, <1>7, <2>1, <2>2, <2>3 DEF r
<1>10. CASE r.op = "commit" /\ ExecuteCommit
  <2>1. /\ autocommit' = autocommit /\ r.op # "statement" /\ InTransaction
        /\ durable' = durable \cup pending /\ pending' = {}
    BY <1>1, <1>10 DEF ExecuteCommit
  <2>2. autocommit' = ~(InTransaction /\ at + 1 > Before(Current))
    BY <1>1, <1>2, <1>10, <2>1
  <2>3. k \in Boundaries(Current)
    BY <1>1, <1>10, BoundaryFacts
  <2> QED
    BY <1>4, <1>7, <2>1, <2>2, <2>3 DEF r
<1>11. CASE r.op = "statement" /\ ExecuteStatement(r.index)
  <2> DEFINE own == Current.statements[r.index] = "ddl" \/ (autocommit /\ pending = {})
  <2>1. autocommit' = autocommit /\ r.op # "commit"
    BY <1>11 DEF ExecuteStatement
  <2>2. autocommit' = ~(InTransaction /\ at + 1 > Before(Current))
    BY <1>1, <1>2, <1>11, <2>1
  <2>3. r.index = k + 1 /\ r.index \in 1..Len(Current.statements)
    BY <1>1, <1>11
  <2>4. CASE own
    <3>1. durable' = durable \cup pending \cup {[call |-> n, index |-> k + 1]} /\ pending' = {}
      BY <1>11, <2>3, <2>4 DEF ExecuteStatement
    <3>2. Waiting(n, k + 1, k + 1)' /\ OthersKept(n)
      BY <1>3, <1>4, <3>1, DdlTakesAll
    <3>3. k + 1 \in Boundaries(Current)
      <4>1. CASE Current.statements[r.index] = "ddl"
        BY <1>1, <2>3, <4>1, BoundaryFacts
      <4>2. CASE autocommit
        <5>1. ~InTransaction
          BY <1>1, <1>2, <1>11, <4>2
        <5>2. k + 1 = Len(Current.statements)
          BY <1>1, <1>11, <5>1
        <5> QED
          BY <1>1, <5>2, BoundaryFacts
      <4> QED
        BY <2>4, <4>1, <4>2
    <3>4. k + 1 <= k + 1
      OBVIOUS
    <3> QED
      BY <1>11, <2>2, <3>1, <3>2, <3>3, <3>4 DEF r
  <2>5. CASE ~own
    <3>1. pending' = pending \cup {[call |-> n, index |-> k + 1]} /\ durable' = durable
      BY <1>11, <2>3, <2>5 DEF ExecuteStatement
    <3>2. Waiting(n, b, k + 1)' /\ OthersKept(n)
      BY <1>3, <1>4, <3>1, StatementWaits
    <3>3. InTransaction
      <4>1. ~InTransaction => autocommit /\ pending = {}
        BY <1>1, <1>2, <1>5, <1>11
      <4> QED
        BY <2>5, <4>1
    <3> QED
      BY <1>3, <1>4, <1>11, <2>1, <2>2, <3>2, <3>3 DEF r
  <2> QED
    BY <2>4, <2>5
<1> QED
  BY <1>8, <1>9, <1>10, <1>11 DEF Execute, r

(* A refused request leaves the session, or has committed what waited.     *)
LEMMA RefuseProgress ==
  ASSUME Typed, pc = "body", CallInv, Refuse(CurrentRequest),
         NEW n, n = Len(calls), NEW k \in Nat, k = Executed
  PROVE  /\ \E b \in Boundaries(Current) : b <= k /\ Waiting(n, b, k)'
         /\ OthersKept(n)
         /\ ~InTransaction => pending' = {}
         /\ autocommit' = autocommit
<1> DEFINE r == CurrentRequest
<1>1. /\ Current \in Calls
      /\ r.op = "statement" =>
              r.index = k + 1 /\ r.index \in 1..Len(Current.statements)
      /\ ~InTransaction => k = 0
  BY BodyPlace
<1>2. PICK b \in Boundaries(Current) : b <= k /\ Waiting(n, b, k)
  BY DEF CallInv, Progress
<1>3. b \in Nat /\ k <= k /\ 0 <= k
  BY <1>1, <1>2, BoundaryFacts
<1>4. k = 0 => pending = {}
  <2>1. FirstEffects(n, 0) = {}
    BY FirstEffectsGrow, <1>3
  <2> QED
    BY <1>2, <2>1 DEF Waiting
<1>5. CASE UNCHANGED session
  BY <1>1, <1>2, <1>4, <1>5 DEF Waiting, DurableEffects, OthersKept, session
<1>6. CASE r.op = "statement" /\ Current.statements[r.index] = "ddl" /\ ExecuteCommit
  <2>1. durable' = durable \cup pending /\ pending' = {} /\ autocommit' = autocommit
    BY <1>6 DEF ExecuteCommit
  <2>2. Waiting(n, k, k)' /\ OthersKept(n)
    BY <1>2, <1>3, <2>1, CommitTakesAll
  <2>3. k \in Boundaries(Current)
    <3>1. r.index - 1 \in Boundaries(Current) /\ r.index - 1 = k
      BY <1>1, <1>6, BoundaryFacts
    <3> QED
      BY <3>1
  <2> QED
    BY <1>3, <2>1, <2>2, <2>3
<1> QED
  BY <1>5, <1>6 DEF Refuse

(* Effects are of calls that were made.                                    *)
Made == UNION {AllEffects(n, calls[n]) : n \in DOMAIN calls}

OwnEffects == durable \cup pending \subseteq Made

(* What the calls' durable effects need to be all or nothing.              *)
SafeInv == OwnEffects /\ (~exposed => AllOrNothing /\ CallInv)

(* Only the running call's statements are executed.                        *)
LEMMA ServerMakesOwnEffects ==
  ASSUME Typed, OwnEffects, pc = "body", UNCHANGED calls,
         Execute(CurrentRequest) \/ Refuse(CurrentRequest)
  PROVE  OwnEffects'
<1> DEFINE n == Len(calls)
           r == CurrentRequest
<1>1. n \in DOMAIN calls /\ Current = calls[n]
  BY CurrentIsCall DEF Current, Typed
<1>2. AllEffects(n, calls[n]) \subseteq Made /\ Made' = Made
  BY <1>1 DEF Made
<1>3. r.op = "statement" => [call |-> n, index |-> r.index] \in Made
  <2> SUFFICES ASSUME r.op = "statement"
               PROVE  [call |-> n, index |-> r.index] \in AllEffects(n, calls[n])
    BY <1>2
  <2>1. r.index \in 1..Len(calls[n].statements)
    BY <1>1, RequestTyped
  <2> QED
    BY <2>1 DEF AllEffects, FirstEffects
<1>4. durable' \cup pending' \subseteq durable \cup pending \/
        (r.op = "statement" /\
         durable' \cup pending' \subseteq durable \cup pending \cup {[call |-> n, index |-> r.index]})
  BY DEF Execute, Refuse, ExecuteUse, ExecuteSwitch, ExecuteStatement, ExecuteCommit, session
<1> HIDE DEF n, r
<1> QED
  BY <1>2, <1>3, <1>4 DEF OwnEffects

(* A call's durable effects stay all or nothing when those of the others   *)
(* are kept and its own come to a boundary.                                *)
LEMMA BoundaryIsSafe ==
  ASSUME AllOrNothing \/ exposed, ~exposed, UNCHANGED calls,
         NEW n \in DOMAIN calls, OthersKept(n),
         NEW b \in Boundaries(calls[n]), DurableEffects(n)' = FirstEffects(n, b)
  PROVE  AllOrNothing'
<1> SUFFICES ASSUME NEW m \in DOMAIN calls
             PROVE  \E d \in Boundaries(calls[m]) : DurableEffects(m)' = FirstEffects(m, d)
  BY DEF AllOrNothing
<1>1. CASE m = n
  BY <1>1
<1>2. CASE m # n
  BY <1>2 DEF AllOrNothing, OthersKept
<1> QED
  BY <1>1, <1>2

(* Begin starts with nothing executed and nothing durable.                 *)
LEMMA BeginIsSafe ==
  ASSUME Typed, SafeInv, NEW c \in Calls, Begin(c)
  PROVE  SafeInv'
<1>1. /\ calls \in Seq(Calls) /\ Len(calls) \in Nat /\ calls' = Append(calls, c)
      /\ UNCHANGED <<session, exposed>> /\ pc = "idle" /\ pc' = "body" /\ at' = 1
  BY LenProperties DEF Typed, TypeOK, Begin
<1>2. /\ DOMAIN calls = 1..Len(calls) /\ DOMAIN calls' = 1..(Len(calls) + 1)
      /\ Len(calls') = Len(calls) + 1
      /\ \A m \in DOMAIN calls : calls'[m] = calls[m]
      /\ calls'[Len(calls) + 1] = c /\ Current' = c
  BY <1>1, AppendProperties, LenProperties, BeginTyped
<1>3. DOMAIN calls \subseteq DOMAIN calls' /\ Len(calls) + 1 \notin DOMAIN calls
  BY <1>1, <1>2
<1>4. Made \subseteq Made'
  BY <1>2, <1>3 DEF Made
<1>5. OwnEffects'
  BY <1>1, <1>4 DEF SafeInv, OwnEffects, session
<1>6. SUFFICES ASSUME ~exposed
               PROVE  AllOrNothing' /\ CallInv'
  BY <1>1, <1>5 DEF SafeInv
<1>7. \A e \in durable : e.call \in DOMAIN calls
  <2>1. \A m \in DOMAIN calls : \A e \in AllEffects(m, calls[m]) : e.call = m
    BY DEF AllEffects, FirstEffects
  <2> QED
    BY <2>1 DEF SafeInv, OwnEffects, Made
<1>8. DurableEffects(Len(calls) + 1) = {}
  BY <1>3, <1>7 DEF DurableEffects
<1>9. \A m : DurableEffects(m)' = DurableEffects(m)
  BY <1>1 DEF DurableEffects, session
<1>10. FirstEffects(Len(calls) + 1, 0) = {} /\ 0 \in Boundaries(c)
  BY FirstEffectsGrow, BoundaryFacts
<1>11. AllOrNothing'
  <2> SUFFICES ASSUME NEW m \in DOMAIN calls'
               PROVE  \E b \in Boundaries(calls'[m]) : DurableEffects(m)' = FirstEffects(m, b)
    BY DEF AllOrNothing
  <2>1. CASE m = Len(calls) + 1
    BY <1>2, <1>8, <1>9, <1>10, <2>1
  <2>2. CASE m # Len(calls) + 1
    <3>1. m \in DOMAIN calls
      BY <1>1, <1>2, <2>2
    <3> QED
      BY <1>2, <1>6, <1>9, <3>1 DEF SafeInv, AllOrNothing
  <2> QED
    BY <2>1, <2>2
<1>12. CallInv'
  <2>1. autocommit' /\ pending' = {}
    BY <1>1, <1>6 DEF SafeInv, CallInv, session
  <2>2. Before(c) \in Nat /\ (c.method = "run_transaction" => Before(c) >= 1)
    <3>1. Len(Uses(c)) \in Nat
      BY BodyShape
    <3> QED
      BY <3>1 DEF Before
  <2>3. Executed' = 0
    BY <1>1, <1>2, <2>2 DEF Executed
  <2>4. ~(InTransaction /\ at > Before(Current))'
    BY <1>1, <1>2, <2>2 DEF InTransaction
  <2>5. PICK n : n = Len(calls) + 1
    OBVIOUS
  <2>6. DurableEffects(n)' = FirstEffects(n, 0) /\ FirstEffects(n, 0) = {}
    BY <1>8, <1>9, <1>10, <2>5
  <2>7. Waiting(n, 0, 0)'
    BY <2>1, <2>6 DEF Waiting
  <2>8. n = Len(calls')
    BY <1>2, <2>5
  <2>9. Progress(Executed)'
    <3>1. 0 \in Boundaries(Current') /\ 0 <= Executed'
      BY <1>2, <1>10, <2>3
    <3>2. Waiting(Len(calls), 0, Executed)'
      BY <2>3, <2>7, <2>8
    <3> QED
      BY <3>1, <3>2 DEF Progress
  <2> QED
    BY <1>1, <2>1, <2>4, <2>9 DEF CallInv
<1> QED
  BY <1>11, <1>12

(* A request that is answered.                                             *)
LEMMA BodyIsSafe ==
  ASSUME Typed, SafeInv, BodyAnswered
  PROVE  SafeInv'
<1>1. /\ Current' = Current /\ UNCHANGED <<calls, exposed>> /\ pc = "body"
      /\ Execute(CurrentRequest)
  BY BodyTyped DEF BodyAnswered
<1>2. OwnEffects'
  BY <1>1, ServerMakesOwnEffects DEF SafeInv
<1>3. SUFFICES ASSUME ~exposed
               PROVE  AllOrNothing' /\ CallInv'
  BY <1>1, <1>2 DEF SafeInv
<1>4. PICK n : n = Len(calls)
  OBVIOUS
<1>5. n \in DOMAIN calls /\ Current = calls[n]
  BY <1>1, <1>4, CurrentIsCall DEF Current, Typed
<1> DEFINE r == CurrentRequest
<1>6. /\ Current \in Calls /\ Executed \in Nat
      /\ at \in Nat /\ Before(Current) \in Nat /\ Len(Body(Current)) \in Nat
      /\ r.op \in {"use", "autocommit", "statement", "commit"}
      /\ r.op = "statement" =>
           /\ at > Before(Current)
           /\ ~InTransaction => Executed = 0 /\ Len(Current.statements) = 1
      /\ r.op = "commit" => Executed = Len(Current.statements) /\ at = Len(Body(Current))
      /\ r.op \in {"use", "autocommit"} => Executed = 0 /\ at < Len(Body(Current))
      /\ at = Len(Body(Current)) => r.op = (IF InTransaction THEN "commit" ELSE "statement")
      /\ r.op = "use" => at <= Before(Current)
      /\ r.op = "autocommit" => at = Before(Current)
  <2>1. r.op = "use" => at <= Before(Current)
    <3>1. r.op = "use" => at <= Len(Uses(Current))
      BY <1>1, RequestTyped, RequestShape DEF Typed, PositionInv, CurrentRequest
    <3>2. Len(Uses(Current)) \in Nat
      BY <1>1, RequestTyped, BodyShape
    <3>3. Before(Current) = Len(Uses(Current)) \/ Before(Current) = Len(Uses(Current)) + 1
      BY <3>2 DEF Before
    <3>4. at \in Nat
      BY DEF Typed, TypeOK
    <3> HIDE DEF r
    <3> QED
      BY <3>1, <3>2, <3>3, <3>4
  <2> QED
    BY <1>1, <2>1, BodyPlace
<1>7. PICK k \in Nat : k = Executed
  BY <1>6
<1>8. /\ r.op = "statement" =>
           \E b \in Boundaries(Current) : b <= k + 1 /\ Waiting(n, b, k + 1)'
      /\ r.op # "statement" =>
           \E b \in Boundaries(Current) : b <= k /\ Waiting(n, b, k)'
      /\ OthersKept(n)
      /\ ~InTransaction \/ r.op = "commit" => pending' = {}
      /\ autocommit' = ~(InTransaction /\ at + 1 > Before(Current))
  BY <1>1, <1>3, <1>4, <1>7, ExecuteProgress DEF SafeInv
<1> HIDE DEF r
<1>9. PICK d \in Nat : d = IF r.op = "statement" THEN k + 1 ELSE k
  OBVIOUS
<1>10. PICK b \in Boundaries(Current) : b <= d /\ Waiting(n, b, d)'
  BY <1>8, <1>9
<1>11. AllOrNothing'
  BY <1>1, <1>3, <1>5, <1>8, <1>10, BoundaryIsSafe DEF SafeInv, Waiting
<1>12. CASE at < Len(Body(Current))
  <2>1. pc' = "body" /\ at' = at + 1
    BY <1>12 DEF BodyAnswered
  <2>2. Executed' = d
    <3>1. r.op # "commit"
      BY <1>6, <1>12
    <3>2. CASE r.op = "statement"
      <4>1. Executed = at - Before(Current) - 1 /\ ~(at + 1 <= Before(Current))
        BY <1>6, <3>2 DEF Executed
      <4>2. Executed' = (at + 1) - Before(Current) - 1
        BY <1>1, <2>1, <4>1 DEF Executed
      <4> QED
        BY <1>6, <1>7, <1>9, <3>2, <4>1, <4>2
    <3>3. CASE r.op \in {"use", "autocommit"}
      <4>1. d = 0 /\ at <= Before(Current)
        BY <1>6, <1>7, <1>9, <3>3
      <4>2. Executed' = IF at + 1 <= Before(Current) THEN 0 ELSE (at + 1) - Before(Current) - 1
        BY <1>1, <2>1 DEF Executed
      <4> QED
        BY <1>6, <4>1, <4>2
    <3> QED
      BY <1>6, <3>1, <3>2, <3>3
  <2>3. Waiting(Len(calls), b, Executed)'
    BY <1>1, <1>4, <1>10, <2>2
  <2>4. Progress(Executed)'
    BY <1>1, <1>10, <2>2, <2>3 DEF Progress
  <2>5. (autocommit = ~(InTransaction /\ at > Before(Current)))'
    BY <1>1, <1>8, <2>1 DEF InTransaction
  <2> QED
    BY <1>11, <2>1, <2>4, <2>5 DEF CallInv
<1>13. CASE ~(at < Len(Body(Current)))
  <2>1. pc' = (IF InTransaction THEN "restore" ELSE "report")
    BY <1>13 DEF BodyAnswered
  <2>2. at = Len(Body(Current))
    BY <1>1, <1>6, <1>13 DEF Typed, PositionInv
  <2>3. r.op = (IF InTransaction THEN "commit" ELSE "statement")
    BY <1>6, <2>2
  <2>4. pending' = {} /\ (~InTransaction => autocommit')
    BY <1>8, <2>3
  <2>5. d = Len(Current.statements)
    <3>1. CASE InTransaction
      BY <1>6, <1>7, <1>9, <2>3, <3>1
    <3>2. CASE ~InTransaction
      <4>1. r.op = "statement" /\ d = k + 1
        BY <1>9, <2>3, <3>2
      <4>2. k = 0 /\ Len(Current.statements) = 1
        BY <1>6, <1>7, <3>2, <4>1
      <4> QED
        BY <4>1, <4>2
    <3> QED
      BY <3>1, <3>2
  <2>6. FirstEffects(n, d) \subseteq durable'
    <3>1. FirstEffects(n, d) \subseteq FirstEffects(n, b)
      BY <1>10, <2>4 DEF Waiting
    <3>2. DurableEffects(n)' \subseteq durable'
      BY DEF DurableEffects
    <3> QED
      BY <1>10, <3>1, <3>2 DEF Waiting
  <2>7. AllEffects(Len(calls), Current)' \subseteq durable'
    BY <1>1, <1>4, <2>5, <2>6 DEF AllEffects
  <2> QED
    BY <1>11, <2>1, <2>4, <2>7 DEF CallInv
<1> QED
  BY <1>12, <1>13

(* A request that raises, executed or not: a transaction goes to its       *)
(* rollback unless it is interrupted.                                      *)
LEMMA RaiseIsSafe ==
  ASSUME Typed, SafeInv, NEW how \in {"raised", "interrupted"}, BodyRaises(how)
  PROVE  SafeInv'
<1>1. /\ Current' = Current /\ UNCHANGED calls /\ pc = "body"
      /\ Execute(CurrentRequest) \/ Refuse(CurrentRequest)
      /\ outcome' = how /\ pc' = AfterBody(how)
      /\ exposed' = (exposed \/ (InTransaction /\ how = "interrupted"))
  BY RaiseTyped DEF BodyRaises
<1>2. OwnEffects'
  BY <1>1, ServerMakesOwnEffects DEF SafeInv
<1>3. SUFFICES ASSUME ~exposed, ~(InTransaction /\ how = "interrupted")
               PROVE  AllOrNothing' /\ CallInv'
  BY <1>1, <1>2 DEF SafeInv
<1>4. PICK n : n = Len(calls)
  OBVIOUS
<1>5. n \in DOMAIN calls /\ Current = calls[n]
  BY <1>1, <1>4, CurrentIsCall DEF Current, Typed
<1>6. PICK k \in Nat : k = Executed
  BY <1>1, BodyPlace
<1>7. CallInv /\ AllOrNothing
  BY <1>3 DEF SafeInv
<1>8. /\ \E b \in Boundaries(Current) : DurableEffects(n)' = FirstEffects(n, b)
      /\ OthersKept(n)
      /\ ~InTransaction => pending' = {} /\ autocommit'
  <2>1. CASE Execute(CurrentRequest)
    <3>1. /\ (\E b \in Boundaries(Current) : Waiting(n, b, k + 1)') \/
             (\E b \in Boundaries(Current) : Waiting(n, b, k)')
          /\ OthersKept(n)
          /\ ~InTransaction => pending' = {}
          /\ autocommit' = ~(InTransaction /\ at + 1 > Before(Current))
      BY <1>1, <1>4, <1>6, <1>7, <2>1, ExecuteProgress
    <3> QED
      BY <3>1 DEF Waiting
  <2>2. CASE Refuse(CurrentRequest)
    <3>1. /\ \E b \in Boundaries(Current) : Waiting(n, b, k)'
          /\ OthersKept(n)
          /\ ~InTransaction => pending' = {}
          /\ autocommit' = autocommit
      BY <1>1, <1>4, <1>6, <1>7, <2>2, RefuseProgress
    <3>2. ~InTransaction => autocommit
      BY <1>1, <1>7 DEF CallInv
    <3> QED
      BY <3>1, <3>2 DEF Waiting
  <2> QED
    BY <1>1, <2>1, <2>2
<1>9. AllOrNothing'
  BY <1>1, <1>3, <1>5, <1>7, <1>8, BoundaryIsSafe
<1>10. pc' = (IF InTransaction THEN "rollback" ELSE "report") /\ outcome' # "returned"
  BY <1>1, <1>3 DEF AfterBody
<1>11. CallInv'
  BY <1>8, <1>10 DEF CallInv
<1> QED
  BY <1>9, <1>11

(* Rollback and the switch back: nothing more becomes durable, unless one  *)
(* of them is cut short.                                                   *)
LEMMA CleanUpIsSafe ==
  ASSUME Typed, SafeInv, CleanUp
  PROVE  SafeInv'
<1>1. Current' = Current /\ UNCHANGED calls /\ pc \in {"rollback", "restore"}
  BY CleanUpTyped DEF SameCall, CleanUp, RollbackAnswered, RollbackRaises, RestoreAnswered,
     RestoreRaises
<1>2. /\ durable' \cup pending' \subseteq durable \cup pending
      /\ exposed' \/ exposed' = exposed
      /\ pc = "rollback" => durable' = durable
      /\ pc = "restore" => durable' = durable \/ durable' = durable \cup pending
  BY DEF CleanUp, RollbackAnswered, RollbackRaises, RestoreAnswered, RestoreRaises,
         ExecuteRollback, ExecuteSwitch, session
<1>3. OwnEffects'
  BY <1>1, <1>2 DEF SafeInv, OwnEffects, Made
<1>4. SUFFICES ASSUME ~exposed, ~exposed'
               PROVE  AllOrNothing' /\ CallInv'
  BY <1>2, <1>3 DEF SafeInv
<1>5. AllOrNothing /\ CallInv
  BY <1>4 DEF SafeInv
<1>6. durable' = durable
  BY <1>1, <1>2, <1>5 DEF CallInv
<1>7. AllOrNothing'
  BY <1>1, <1>4, <1>5, <1>6 DEF AllOrNothing, DurableEffects
<1>8. CASE pc = "rollback"
  <2>1. pc' = "restore" /\ outcome' # "returned" /\ pending' = {}
    BY <1>4, <1>8 DEF CleanUp, RollbackAnswered, RollbackRaises, RestoreAnswered,
       RestoreRaises, ExecuteRollback, Typed, OutcomeInv
  <2> QED
    BY <1>7, <2>1 DEF CallInv
<1>9. CASE pc = "restore"
  <2>1. /\ pc' = "report" /\ autocommit' /\ (outcome' = "returned" => outcome = "returned")
        /\ pending' = {}
    BY <1>4, <1>5, <1>9 DEF CleanUp, RollbackAnswered, RollbackRaises, RestoreAnswered,
       RestoreRaises, ExecuteSwitch, CallInv
  <2>2. outcome' = "returned" => AllEffects(Len(calls), Current)' \subseteq durable'
    BY <1>1, <1>5, <1>6, <1>9, <2>1 DEF CallInv
  <2> QED
    BY <1>7, <2>1, <2>2 DEF CallInv
<1> QED
  BY <1>1, <1>8, <1>9

(* While no clean-up was cut short, durable effects are all or nothing.    *)
LEMMA SafeHolds == Spec => []SafeInv
<1>1. Init => SafeInv
  BY DEF Init, SafeInv, OwnEffects, AllOrNothing, CallInv
<1>2. Typed /\ SafeInv /\ [Next]_vars => SafeInv'
  <2> SUFFICES ASSUME Typed, SafeInv, [Next]_vars
               PROVE  SafeInv'
    OBVIOUS
  <2>1. ASSUME NEW c \in Calls, Begin(c)
        PROVE  SafeInv'
    BY <2>1, BeginIsSafe
  <2>2. CASE BodyAnswered
    BY <2>2, BodyIsSafe
  <2>3. ASSUME NEW how \in {"raised", "interrupted"}, BodyRaises(how)
        PROVE  SafeInv'
    BY <2>3, RaiseIsSafe
  <2>4. CASE CleanUp
    BY <2>4, CleanUpIsSafe
  <2>5. CASE Report \/ Close
    <3>1. /\ UNCHANGED <<calls, durable, exposed, autocommit, outcome>>
          /\ pc \in {"report", "idle"} /\ pc' \in {"idle", "closed"}
          /\ pending' \subseteq pending
      BY <2>5 DEF Report, Close, session
    <3>2. OwnEffects' /\ (AllOrNothing => AllOrNothing')
      BY <3>1 DEF SafeInv, OwnEffects, Made, AllOrNothing, DurableEffects
    <3>3. CallInv => CallInv'
      BY <2>5, <3>1 DEF CallInv, Report, Close
    <3> QED
      BY <3>1, <3>2, <3>3 DEF SafeInv
  <2>6. CASE UNCHANGED vars
    BY <2>6 DEF vars, session, SafeInv, OwnEffects, Made, AllOrNothing, DurableEffects, CallInv,
       Progress, Waiting, Executed, InTransaction, Current
  <2> QED
    BY <2>1, <2>2, <2>3, <2>4, <2>5, <2>6 DEF Next, Step, CleanUp
<1> QED
  BY <1>1, <1>2, TypedHolds, PTL DEF Spec

(* run_transaction "Runs every statement atomically": whichever request of *)
(* a call is refused, lost or interrupted, never only a part of it is      *)
(* durable, but for statements that commit by themselves.                  *)
THEOREM TransactionsAreAtomic == Spec => []AllOrNothing
<1>1. SafeInv => AllOrNothing
  BY DEF SafeInv, AllOrNothing
<1> QED
  BY <1>1, SafeHolds, PTL

(* Between two calls autocommit is on and no transaction is open, however  *)
(* the first one ended.                                                    *)
THEOREM NextCallIsClean == Spec => []CleanBetweenCalls
<1>1. SafeInv => CleanBetweenCalls
  BY DEF SafeInv, CallInv, CleanBetweenCalls
<1> QED
  BY <1>1, SafeHolds, PTL

-----------------------------------------------------------------------------
(* The refinement of AtomicCalls                                           *)

(* Both specifications speak of the same effects.                          *)
LEMMA SameData ==
  /\ \A c : Atomic!Boundaries(c) = Boundaries(c)
  /\ \A n, k : Atomic!FirstEffects(n, k) = FirstEffects(n, k)
  /\ \A n, c : Atomic!AllEffects(n, c) = AllEffects(n, c)
  /\ Atomic!Outcome = Outcome
BY DEF Atomic!Boundaries, Boundaries, Atomic!FirstEffects, FirstEffects,
       Atomic!AllEffects, AllEffects, Atomic!Outcome, Outcome

(* Once exposed, more of what was executed may become durable at any time. *)
LEMMA ExposedStep ==
  ASSUME Typed, OwnEffects', pc \notin {"idle", "closed"}, exposed' = TRUE,
         durable \subseteq durable', UNCHANGED <<calls, reports>>
  PROVE  Atomic!Expose
<1>1. Len(calls) = Len(reports) + 1 /\ Len(reports) \in Nat
  BY CurrentIsCall, LenProperties DEF Typed, TypeOK
<1>2. Atomic!Running
  BY <1>1 DEF Atomic!Running
<1>3. durable' \subseteq UNION {Atomic!AllEffects(n, calls[n]) : n \in DOMAIN calls}
  BY SameData DEF OwnEffects, Made
<1> QED
  BY <1>2, <1>3 DEF Atomic!Expose

(* What a request makes durable is the running call's, up to a boundary.   *)
LEMMA CommitStep ==
  ASSUME Typed, Typed', ~exposed, ~exposed', AllOrNothing', pc = "body", durable \subseteq durable',
         UNCHANGED <<calls, reports>>, NEW n, n = Len(calls), OthersKept(n)
  PROVE  Atomic!Commit
<1>1. Len(calls) = Len(reports) + 1 /\ Len(reports) \in Nat /\ n \in DOMAIN calls
  BY CurrentIsCall, LenProperties DEF Typed, TypeOK
<1>2. Atomic!Running
  BY <1>1 DEF Atomic!Running
<1>3. PICK b \in Boundaries(calls[n]) : DurableEffects(n)' = FirstEffects(n, b)
  BY <1>1 DEF AllOrNothing
<1>4. durable' = durable \cup FirstEffects(n, b)
  <2>1. \A e \in durable' : e.call = n => e \in FirstEffects(n, b)
    BY <1>3 DEF DurableEffects
  <2>2. \A e \in durable' : e.call # n => e \in durable
    BY DEF OthersKept, DurableEffects
  <2>3. FirstEffects(n, b) \subseteq durable'
    BY <1>3 DEF DurableEffects
  <2> QED
    BY <2>1, <2>2, <2>3
<1>5. exposed' = exposed
  <2>1. exposed \in BOOLEAN /\ exposed' \in BOOLEAN
    BY DEF Typed, TypeOK
  <2> QED
    BY <2>1
<1>6. b \in Atomic!Boundaries(calls[Len(calls)])
  BY <1>3, SameData
<1>7. durable' = durable \cup Atomic!FirstEffects(Len(calls), b)
  BY <1>4, SameData
<1> QED
  BY <1>2, <1>5, <1>6, <1>7 DEF Atomic!Commit

(* Answered or raised, a request is one step of the running call.          *)
LEMMA RequestStep ==
  ASSUME Typed, Typed', SafeInv, SafeInv',
         BodyAnswered \/ (\E how \in {"raised", "interrupted"} : BodyRaises(how))
  PROVE  Atomic!Commit \/ Atomic!Expose
<1>1. /\ UNCHANGED <<calls, reports>> /\ pc = "body" /\ (~exposed' => ~exposed)
      /\ Execute(CurrentRequest) \/ Refuse(CurrentRequest)
  <2>1. CASE BodyAnswered
    BY <2>1 DEF BodyAnswered
  <2>2. ASSUME NEW how \in {"raised", "interrupted"}, BodyRaises(how)
        PROVE  /\ UNCHANGED <<calls, reports>> /\ pc = "body" /\ (~exposed' => ~exposed)
               /\ Execute(CurrentRequest) \/ Refuse(CurrentRequest)
    BY <2>2 DEF BodyRaises
  <2> QED
    BY <2>1, <2>2
<1>2. durable \subseteq durable'
  BY <1>1 DEF Execute, Refuse, ExecuteUse, ExecuteSwitch, ExecuteStatement, ExecuteCommit,
              session
<1>3. CASE exposed'
  <2>1. exposed' = TRUE
    BY <1>3 DEF Typed, TypeOK
  <2> QED
    BY <1>1, <1>2, <2>1, ExposedStep DEF SafeInv
<1>4. CASE ~exposed'
  <2>1. ~exposed /\ CallInv /\ AllOrNothing'
    BY <1>1, <1>4 DEF SafeInv
  <2>2. PICK k \in Nat : k = Executed
    BY <1>1, BodyPlace
  <2>3. PICK n : n = Len(calls)
    OBVIOUS
  <2>4. OthersKept(n)
    BY <1>1, <2>1, <2>2, <2>3, ExecuteProgress, RefuseProgress
  <2> QED
    BY <1>1, <1>2, <1>4, <2>1, <2>3, <2>4, CommitStep
<1> QED
  BY <1>3, <1>4

(* The clean-up is not seen, unless it is cut short.                       *)
LEMMA CleanUpStep ==
  ASSUME Typed, Typed', SafeInv, SafeInv', CleanUp
  PROVE  Atomic!Expose \/ UNCHANGED Atomic!vars
<1>1. /\ UNCHANGED <<calls, reports>> /\ pc \in {"rollback", "restore"}
      /\ (~exposed' => ~exposed)
      /\ durable' = durable \/ (durable' = durable \cup pending /\ pc = "restore")
  BY DEF CleanUp, RollbackAnswered, RollbackRaises, RestoreAnswered, RestoreRaises,
         ExecuteRollback, ExecuteSwitch, session
<1>2. CASE exposed'
  <2>1. exposed' = TRUE
    BY <1>2 DEF Typed, TypeOK
  <2> QED
    BY <1>1, <2>1, ExposedStep DEF SafeInv
<1>3. CASE ~exposed'
  <2>1. exposed' = exposed
    BY <1>1, <1>3 DEF Typed, TypeOK
  <2>2. pc = "restore" => pending = {}
    BY <1>1, <1>3 DEF SafeInv, CallInv
  <2> QED
    BY <1>1, <2>1, <2>2 DEF Atomic!vars
<1> QED
  BY <1>2, <1>3

(* A call that is reported as returned has all its effects durable.        *)
LEMMA ReportStep ==
  ASSUME Typed, SafeInv, Report
  PROVE  Atomic!Return \/ Atomic!Fail
<1>1. Len(calls) = Len(reports) + 1 /\ Len(reports) \in Nat
  BY CurrentIsCall, LenProperties DEF Typed, TypeOK, Report
<1>2. Atomic!Running
  BY <1>1 DEF Atomic!Running
<1>3. outcome \in Outcome /\ reports' = Append(reports, outcome)
      /\ UNCHANGED <<calls, durable, exposed>>
  BY DEF Typed, OutcomeInv, Report, session
<1>4. CASE outcome = "returned"
  <2>1. AllEffects(Len(calls), calls[Len(calls)]) \subseteq durable \/ exposed
    BY <1>4 DEF SafeInv, CallInv, Report, Current
  <2> QED
    BY <1>2, <1>3, <1>4, <2>1, SameData DEF Atomic!Return
<1>5. CASE outcome # "returned"
  BY <1>2, <1>3, <1>5, SameData DEF Atomic!Fail
<1> QED
  BY <1>4, <1>5

(* Every step of the runner, with its requests, autocommit and rollback,   *)
(* is a step of AtomicCalls or none: who only sees calls and what became   *)
(* durable sees atomic calls, until a clean-up is cut short.               *)
THEOREM RunnerIsAtomic == Spec => Atomic!Spec
<1>1. Init => Atomic!Init
  BY DEF Init, Atomic!Init
<1>2. Typed /\ Typed' /\ SafeInv /\ SafeInv' /\ [Next]_vars => [Atomic!Next]_(Atomic!vars)
  <2> SUFFICES ASSUME Typed, Typed', SafeInv, SafeInv', [Next]_vars
               PROVE  Atomic!Next \/ UNCHANGED Atomic!vars
    OBVIOUS
  <2>1. ASSUME NEW c \in Calls, Begin(c)
        PROVE  Atomic!Begin
    <3>1. Len(calls) = Len(reports)
      BY <2>1 DEF Begin, Typed, TypeOK
    <3>2. ~Atomic!Running
      BY <3>1, LenProperties DEF Atomic!Running, Typed, TypeOK
    <3> QED
      BY <2>1, <3>2 DEF Atomic!Begin, Begin, session
  <2>2. CASE BodyAnswered \/ (\E how \in {"raised", "interrupted"} : BodyRaises(how))
    BY <2>2, RequestStep DEF Atomic!Next
  <2>3. CASE CleanUp
    BY <2>3, CleanUpStep DEF Atomic!Next
  <2>4. CASE Report
    BY <2>4, ReportStep DEF Atomic!Next
  <2>5. CASE Close
    BY <2>5 DEF Close, Atomic!vars
  <2>6. CASE UNCHANGED vars
    BY <2>6 DEF vars, session, Atomic!vars
  <2> QED
    BY <2>1, <2>2, <2>3, <2>4, <2>5, <2>6 DEF Next, Step, CleanUp, Atomic!Next
<1> QED
  BY <1>1, <1>2, TypedHolds, SafeHolds, PTL DEF Spec, Atomic!Spec

=============================================================================
