-------------------------- MODULE ServeApi_proofs --------------------------
(***************************************************************************)
(* Proofs about ServeApi, for every number of requests, every set of       *)
(* profiles and any connections that go bad: the type invariant, that a    *)
(* statement runs in the account its caller named, that a request does not *)
(* run on a connection that was closed before it began, and which requests *)
(* may take a usable connection out of the cache or lose one.              *)
(***************************************************************************)
EXTENDS ServeApi, FiniteSetTheorems, TLAPS

(* None is not the number of a connection.                                 *)
LEMMA NoneIsNoConnection == None \notin Connection
  <1>1. Cardinality(Request) \in Nat
    BY ConstantsAssumption, FS_CardinalityType
  <1> QED
    BY <1>1, ConstantsAssumption DEF Connection

(* The fields of a request.                                                *)
LEMMA BodyFields ==
  ASSUME TypeOK, NEW r \in Request
  PROVE  body[r].profile \in Profile /\ body[r].kind \in {"query", "test"}
  BY DEF TypeOK, Body

-----------------------------------------------------------------------------
(* Type correctness                                                        *)

(* A handler that got past the 404 works for a profile there is.           *)
KnownProfile ==
  \A r \in Request : InProgress(r) => body[r].profile \in Configured

TypeInv == TypeOK /\ KnownProfile

(* The invariant holds when the application is built.                      *)
LEMMA TypesAtStart == Init => TypeInv
  <1> SUFFICES ASSUME Init PROVE TypeInv
    OBVIOUS
  <1>1. body \in [Request -> Body]
    BY ConstantsAssumption DEF Init
  <1> QED
    BY <1>1 DEF Init, TypeInv, TypeOK, KnownProfile, InProgress

(* What a handler finds in the cache and may use.                          *)
LEMMA WhatIsCached ==
  ASSUME TypeInv, NEW r \in Request, InProgress(r), NEW c \in Cached(r)
  PROVE  /\ body[r].profile \in Configured
         /\ c = connections[body[r].profile] /\ c \in Connection
         /\ ~IsClosed(c)
  <1>1. body[r].profile \in Configured
    BY DEF TypeInv, KnownProfile
  <1>2. c \in {connections[body[r].profile]} \ {None} /\ ~IsClosed(c)
    BY DEF Cached
  <1>3. connections[body[r].profile] \in Connection \cup {None}
    BY <1>1 DEF TypeInv, TypeOK
  <1> QED
    BY <1>1, <1>2, <1>3

(* No step of a handler undoes it.                                         *)
LEMMA StepTyped ==
  ASSUME TypeInv, NEW r \in Request, Receive(r) \/ Step(r)
  PROVE  TypeInv'
  <1> USE DEF TypeInv, TypeOK, KnownProfile, InProgress, Go, cache, handlers, history
  <1>1. CASE Receive(r)
    BY <1>1 DEF Receive
  <1>2. CASE UnknownProfile(r)
    BY <1>2 DEF UnknownProfile, Answer
  <1>3. CASE LookUp(r)
    <2>1. InProgress(r)
      BY <1>3 DEF LookUp
    <2>2. \A c \in Cached(r) : c \in Connection
      BY <2>1, WhatIsCached
    <2> HIDE DEF Cached
    <2> QED
      BY <1>3, <2>2 DEF LookUp
  <1>4. CASE ConnectSucceeds(r)
    <2>1. body[r].profile \in Configured
      BY <1>4 DEF ConnectSucceeds
    <2>2. PICK c \in Connection : /\ state' = [state EXCEPT ![c] = "open"]
                                  /\ account' = [account EXCEPT ![c] = body[r].profile]
                                  /\ conn' = [conn EXCEPT ![r] = c]
      BY <1>4 DEF ConnectSucceeds
    <2>3. /\ state' \in [Connection -> {"unopened", "open", "dead", "closed"}]
          /\ account' \in [Connection -> Configured \cup {None}]
          /\ conn' \in [Request -> Connection \cup {None}]
      BY <2>1, <2>2
    <2>4. pc[r] = "connect" /\ Go(r, "store") /\ UNCHANGED <<connections, body, answer, history>>
      BY <1>4 DEF ConnectSucceeds
    <2> QED
      BY <2>3, <2>4
  <1>5. CASE ConnectFails(r)
    BY <1>5 DEF ConnectFails, Answer
  <1>6. CASE Store(r)
    BY <1>6 DEF Store
  <1>7. CASE RunSucceeds(r)
    BY <1>7 DEF RunSucceeds, Answer
  <1>8. CASE RunRaises(r)
    BY <1>8 DEF RunRaises
  <1>9. CASE Except(r)
    BY <1>9 DEF Except, Answer
  <1>10. CASE Evict(r)
    BY <1>10 DEF Evict, Answer
  <1> QED
    BY <1>1, <1>2, <1>3, <1>4, <1>5, <1>6, <1>7, <1>8, <1>9, <1>10 DEF Step

(* Nor does a connection that goes bad.                                    *)
LEMMA GoesBadTyped ==
  ASSUME TypeInv, NEW c \in Connection, GoesBad(c)
  PROVE  TypeInv'
  BY DEF TypeInv, TypeOK, KnownProfile, InProgress, GoesBad, handlers, history

(* What the server keeps is well formed whatever meets, fails or goes bad. *)
THEOREM TypeCorrect == Spec => []TypeOK
  <1>1. Init => TypeInv
    BY TypesAtStart
  <1>2. TypeInv /\ [Next]_vars => TypeInv'
    <2> SUFFICES ASSUME TypeInv, [Next]_vars PROVE TypeInv'
      OBVIOUS
    <2>1. CASE UNCHANGED vars
      BY <2>1 DEF TypeInv, TypeOK, KnownProfile, InProgress, vars, cache, handlers, history
    <2>2. CASE Next
      BY <2>2, StepTyped, GoesBadTyped DEF Next
    <2> QED
      BY <2>1, <2>2
  <1>3. TypeInv => TypeOK
    BY DEF TypeInv
  <1> QED
    BY <1>1, <1>2, <1>3, PTL DEF Spec

-----------------------------------------------------------------------------
(* What a step changes and what it leaves alone                            *)

AStep(r) == Receive(r) \/ Step(r)

(* A handler does nothing to the requests of others.                       *)
LEMMA OthersStay ==
  ASSUME TypeInv, NEW r \in Request, AStep(r), NEW q \in Request, q # r
  PROVE  pc'[q] = pc[q] /\ conn'[q] = conn[q] /\ answer'[q] = answer[q]
  BY DEF TypeInv, TypeOK, AStep, Step, Receive, UnknownProfile, LookUp, ConnectSucceeds,
         ConnectFails, Store, RunSucceeds, RunRaises, Except, Evict, Go, Answer

(* A request is what it is; what it met, it met.                           *)
LEMMA RequestsStay ==
  ASSUME TypeInv, NEW r \in Request, AStep(r)
  PROVE  /\ body' = body
         /\ Step(r) => UNCHANGED history
         /\ \A q \in Request : alone'[q] => alone[q]
  BY DEF TypeInv, TypeOK, AStep, Step, Receive, UnknownProfile, LookUp, ConnectSucceeds,
         ConnectFails, Store, RunSucceeds, RunRaises, Except, Evict, Go, Answer, history

(* Only connect, and the network, change a connection.                     *)
LEMMA ConnectionsStay ==
  ASSUME NEW r \in Request, AStep(r), ~ConnectSucceeds(r)
  PROVE  UNCHANGED <<state, account>>
  BY DEF AStep, Step, Receive, UnknownProfile, LookUp,
         ConnectFails, Store, RunSucceeds, RunRaises, Except, Evict, cache

(* Only Store and Evict change the cache, for their own profile.           *)
LEMMA CacheStays ==
  ASSUME NEW r \in Request, AStep(r), ~Store(r), ~Evict(r)
  PROVE  UNCHANGED connections
  BY DEF AStep, Step, Receive, UnknownProfile, LookUp, ConnectSucceeds,
         ConnectFails, RunSucceeds, RunRaises, Except, cache

-----------------------------------------------------------------------------
(* What the handlers know                                                  *)

(* A connection that is cached, or that a handler holds, was opened for    *)
(* the profile it is used for; before a handler has looked, it holds none. *)
Opened(c, p) == c \in Connection /\ state[c] # "unopened" /\ account[c] = p

Holds(r) ==
  pc[r] \in {"store", "run", "except"} \/ (pc[r] = "evict" /\ conn[r] # None)

CacheInv == \A p \in Configured : connections[p] # None => Opened(connections[p], p)

HandlerInv ==
  \A r \in Request :
    /\ Holds(r) => Opened(conn[r], body[r].profile)
    /\ pc[r] \in {"waiting", "lookup", "connect"} => conn[r] = None

(* A connection keeps the account it was opened for, and one that was      *)
(* closed stays closed.                                                    *)
LEMMA ConnectionsAge ==
  ASSUME TypeInv, [Next]_vars, NEW c \in Connection
  PROVE  /\ \A p \in Configured : Opened(c, p) => Opened(c, p)'
         /\ state[c] # "unopened" => account'[c] = account[c]
         /\ IsClosed(c) => IsClosed(c)'
         /\ state'[c] = "open" => state[c] \in {"open", "unopened"}
  <1> USE DEF Opened, IsClosed, TypeInv, TypeOK
  <1>1. CASE UNCHANGED <<state, account>>
    BY <1>1
  <1>2. ASSUME NEW r \in Request, ConnectSucceeds(r)
        PROVE  /\ \A p \in Configured : Opened(c, p) => Opened(c, p)'
               /\ state[c] # "unopened" => account'[c] = account[c]
               /\ IsClosed(c) => IsClosed(c)'
               /\ state'[c] = "open" => state[c] \in {"open", "unopened"}
    <2>1. PICK d \in Connection : /\ state[d] = "unopened"
                                  /\ state' = [state EXCEPT ![d] = "open"]
                                  /\ account' = [account EXCEPT ![d] = body[r].profile]
      BY <1>2 DEF ConnectSucceeds
    <2>2. CASE c = d
      BY <2>1, <2>2
    <2>3. CASE c # d
      BY <2>1, <2>3
    <2> QED
      BY <2>2, <2>3
  <1>3. ASSUME NEW d \in Connection, GoesBad(d)
        PROVE  /\ \A p \in Configured : Opened(c, p) => Opened(c, p)'
               /\ state[c] # "unopened" => account'[c] = account[c]
               /\ IsClosed(c) => IsClosed(c)'
               /\ state'[c] = "open" => state[c] \in {"open", "unopened"}
    BY <1>3 DEF GoesBad
  <1>4. UNCHANGED vars => UNCHANGED <<state, account>>
    BY DEF vars, cache
  <1> QED
    BY <1>1, <1>2, <1>3, <1>4, ConnectionsStay DEF Next, AStep

(* CacheInv is kept: only Store puts a connection into the cache.          *)
LEMMA CacheKept ==
  ASSUME TypeInv, CacheInv, HandlerInv, [Next]_vars
  PROVE  CacheInv'
  <1> SUFFICES ASSUME NEW p \in Configured, connections'[p] # None
               PROVE  Opened(connections[p], p)'
    BY DEF CacheInv
  <1> DEFINE c == connections'[p]
  <1>1. Opened(c, p)
    <2>1. CASE UNCHANGED connections
      BY <2>1 DEF CacheInv
    <2>2. ASSUME NEW r \in Request, Store(r) PROVE Opened(c, p)
      <3>1. Opened(conn[r], body[r].profile)
        BY <2>2 DEF HandlerInv, Holds, Store
      <3>2. connections' = [connections EXCEPT ![body[r].profile] = conn[r]]
        BY <2>2 DEF Store
      <3>3. CASE p = body[r].profile
        BY <3>1, <3>2, <3>3 DEF TypeInv, TypeOK
      <3>4. CASE p # body[r].profile
        BY <3>2, <3>4 DEF CacheInv
      <3> QED
        BY <3>3, <3>4
    <2>3. ASSUME NEW r \in Request, Evict(r) PROVE Opened(c, p)
      <3>1. connections' = [connections EXCEPT ![body[r].profile] = None]
        BY <2>3 DEF Evict
      <3> QED
        BY <3>1 DEF CacheInv, TypeInv, TypeOK
    <2>4. ASSUME NEW d \in Connection, GoesBad(d) PROVE UNCHANGED connections
      BY <2>4 DEF GoesBad
    <2>5. UNCHANGED vars => UNCHANGED connections
      BY DEF vars, cache
    <2> QED
      BY <2>1, <2>2, <2>3, <2>4, <2>5, CacheStays DEF Next, AStep
  <1>2. PICK d : d = connections'[p]
    OBVIOUS
  <1>3. Opened(d, p)' /\ d = connections'[p]
    BY <1>1, <1>2, ConnectionsAge DEF Opened
  <1> QED
    BY <1>3 DEF Opened

(* What a step's own handler holds afterwards.                             *)
LEMMA OwnHandlerKept ==
  ASSUME TypeInv, CacheInv, HandlerInv, NEW r \in Request, AStep(r)
  PROVE  /\ Holds(r)' => Opened(conn[r], body[r].profile)'
         /\ pc'[r] \in {"waiting", "lookup", "connect"} => conn'[r] = None
  <1> DEFINE p == body[r].profile
             Claim == /\ Holds(r)' => Opened(conn[r], body[r].profile)'
                      /\ pc'[r] \in {"waiting", "lookup", "connect"} => conn'[r] = None
  <1>1. body' = body /\ body[r] \in Body
    BY RequestsStay DEF TypeInv, TypeOK
  <1>2. ASSUME Holds(r), conn'[r] = conn[r], pc'[r] \notin {"waiting", "lookup", "connect"}
        PROVE  Claim
    <2>1. PICK c \in Connection : c = conn[r] /\ Opened(c, p)
      BY <1>2 DEF HandlerInv, Opened
    <2>2. p \in Configured
      BY <1>2 DEF Holds, TypeInv, KnownProfile, InProgress
    <2>3. Opened(c, p)'
      BY <2>1, <2>2, ConnectionsAge, <1>1 DEF AStep, Next
    <2> QED
      BY <2>1, <2>3, <1>1, <1>2 DEF Opened
  <1> USE DEF Go, TypeInv, TypeOK
  <1>3. CASE Receive(r)
    BY <1>3 DEF Receive, HandlerInv, Holds
  <1>4. CASE UnknownProfile(r)
    BY <1>4 DEF UnknownProfile, Answer, Holds
  <1>5. CASE LookUp(r)
    <2>0. pc[r] = "lookup" /\ UNCHANGED <<connections, state, account>>
      BY <1>5 DEF LookUp, cache
    <2>1. CASE Cached(r) = {} /\ Go(r, "connect") /\ UNCHANGED conn
      BY <2>0, <2>1 DEF HandlerInv, Holds
    <2>2. CASE \E c \in Cached(r) : conn' = [conn EXCEPT ![r] = c] /\ Go(r, "run")
      <3>1. PICK c \in Cached(r) : conn' = [conn EXCEPT ![r] = c] /\ Go(r, "run")
        BY <2>2
      <3>2. p \in Configured /\ c = connections[p] /\ c \in Connection
        BY <2>0, WhatIsCached DEF InProgress
      <3>3. Opened(c, p)
        BY <3>2, NoneIsNoConnection DEF CacheInv
      <3>4. Opened(conn[r], p)'
        BY <1>1, <2>0, <3>1, <3>3 DEF Opened
      <3>5. pc'[r] = "run"
        BY <3>1
      <3> QED
        BY <3>4, <3>5
    <2> QED
      BY <1>5, <2>1, <2>2 DEF LookUp
  <1>6. CASE ConnectSucceeds(r)
    <2>1. PICK c \in Connection : /\ state' = [state EXCEPT ![c] = "open"]
                                  /\ account' = [account EXCEPT ![c] = body[r].profile]
                                  /\ conn' = [conn EXCEPT ![r] = c]
      BY <1>6 DEF ConnectSucceeds
    <2>2. pc' = [pc EXCEPT ![r] = "store"]
      BY <1>6 DEF ConnectSucceeds
    <2>3. conn'[r] = c /\ state'[c] = "open" /\ account'[c] = p
      BY <2>1
    <2>4. pc'[r] = "store"
      BY <2>2
    <2> QED
      BY <1>1, <2>3, <2>4 DEF Opened
  <1>7. CASE ConnectFails(r)
    BY <1>7 DEF ConnectFails, Answer, Holds, HandlerInv
  <1>8. CASE Store(r)
    BY <1>8, <1>2 DEF Store, Holds
  <1>9. CASE RunSucceeds(r)
    BY <1>9 DEF RunSucceeds, Answer, Holds
  <1>10. CASE RunRaises(r)
    BY <1>10, <1>2 DEF RunRaises, Holds
  <1>11. CASE Except(r)
    BY <1>11, <1>2 DEF Except, Answer, Holds
  <1>12. CASE Evict(r)
    BY <1>12 DEF Evict, Answer, Holds
  <1> QED
    BY <1>3, <1>4, <1>5, <1>6, <1>7, <1>8, <1>9, <1>10, <1>11, <1>12 DEF AStep, Step

(* HandlerInv is kept.                                                     *)
LEMMA HandlersKept ==
  ASSUME TypeInv, CacheInv, HandlerInv, [Next]_vars
  PROVE  HandlerInv'
  <1> SUFFICES ASSUME NEW q \in Request
               PROVE  /\ Holds(q)' => Opened(conn[q], body[q].profile)'
                      /\ pc'[q] \in {"waiting", "lookup", "connect"} => conn'[q] = None
    BY DEF HandlerInv
  <1>1. ASSUME pc'[q] = pc[q], conn'[q] = conn[q], body' = body
        PROVE  /\ Holds(q)' => Opened(conn[q], body[q].profile)'
               /\ pc'[q] \in {"waiting", "lookup", "connect"} => conn'[q] = None
    <2>1. ASSUME Holds(q) PROVE Opened(conn[q], body[q].profile)'
      <3>1. PICK c \in Connection, p \in Configured :
              c = conn[q] /\ p = body[q].profile /\ Opened(c, p)
        BY <2>1 DEF HandlerInv, Opened, Holds, TypeInv, KnownProfile, InProgress
      <3>2. Opened(c, p)'
        BY <3>1, ConnectionsAge
      <3> QED
        BY <1>1, <3>1, <3>2 DEF Opened
    <2> QED
      BY <1>1, <2>1 DEF HandlerInv, Holds
  <1>2. ASSUME NEW r \in Request, AStep(r), r # q
        PROVE  pc'[q] = pc[q] /\ conn'[q] = conn[q] /\ body' = body
    BY <1>2, OthersStay, RequestsStay
  <1>3. ASSUME NEW d \in Connection, GoesBad(d)
        PROVE  pc'[q] = pc[q] /\ conn'[q] = conn[q] /\ body' = body
    BY <1>3 DEF GoesBad, handlers
  <1>4. UNCHANGED vars => pc'[q] = pc[q] /\ conn'[q] = conn[q] /\ body' = body
    BY DEF vars, handlers
  <1> QED
    BY <1>1, <1>2, <1>3, <1>4, OwnHandlerKept DEF Next, AStep

(* What was closed stays so, and a handler looks after it was received.    *)
ClosedInv ==
  \A r \in Request :
    /\ \A c \in closed_before[r] : IsClosed(c)
    /\ pc[r] \in {"store", "run"} => conn[r] \notin closed_before[r]

(* ClosedInv is kept.                                                      *)
LEMMA ClosedKept ==
  ASSUME TypeInv, ClosedInv, [Next]_vars
  PROVE  ClosedInv'
  <1> USE DEF TypeInv, TypeOK
  <1>1. ASSUME NEW q \in Request,
               closed_before'[q] = closed_before[q]
               \/ closed_before'[q] = {c \in Connection : IsClosed(c)}
        PROVE  \A c \in closed_before'[q] : IsClosed(c)'
    <2> SUFFICES ASSUME NEW c \in closed_before'[q] PROVE IsClosed(c)'
      OBVIOUS
    <2>1. c \in Connection /\ IsClosed(c)
      BY <1>1 DEF ClosedInv
    <2> QED
      BY <2>1, ConnectionsAge
  <1>2. CASE UNCHANGED vars
    BY <1>2, <1>1 DEF ClosedInv, vars, handlers, history
  <1>3. ASSUME NEW d \in Connection, GoesBad(d) PROVE ClosedInv'
    BY <1>3, <1>1 DEF GoesBad, ClosedInv, handlers, history
  <1>4. ASSUME NEW r \in Request, Receive(r) PROVE ClosedInv'
    <2>1. /\ pc' = [pc EXCEPT ![r] = "lookup"] /\ UNCHANGED conn
          /\ closed_before' = [closed_before EXCEPT ![r] = {c \in Connection : IsClosed(c)}]
      BY <1>4 DEF Receive, Go
    <2>2. ASSUME NEW q \in Request
          PROVE  /\ pc'[q] \in {"store", "run"} => pc'[q] = pc[q] /\ q # r
                 /\ q # r => closed_before'[q] = closed_before[q]
                 /\ q = r => closed_before'[q] = {c \in Connection : IsClosed(c)}
      BY <2>1
    <2> QED
      BY <2>1, <2>2, <1>1 DEF ClosedInv
  <1>5. ASSUME NEW r \in Request, Step(r) PROVE ClosedInv'
    <2>1. UNCHANGED closed_before
      BY <1>5, RequestsStay DEF AStep, history
    <2>2. \A q \in Request \ {r} : pc'[q] = pc[q] /\ conn'[q] = conn[q]
      BY <1>5, OthersStay DEF AStep
    <2>3. ASSUME pc'[r] \in {"store", "run"} PROVE conn'[r] \notin closed_before[r]
      <3>1. CASE LookUp(r)
        <4>1. pc' = [pc EXCEPT ![r] = "run"]
              /\ \E c \in Cached(r) : conn' = [conn EXCEPT ![r] = c]
          BY <3>1, <2>3 DEF LookUp, Go
        <4>2. PICK c \in Cached(r) : conn' = [conn EXCEPT ![r] = c]
          BY <4>1
        <4>3. ~IsClosed(c)
          BY <3>1, WhatIsCached DEF LookUp, InProgress
        <4> QED
          BY <4>2, <4>3 DEF ClosedInv
      <3>2. CASE ConnectSucceeds(r)
        <4>1. PICK c \in Connection : state[c] = "unopened" /\ conn' = [conn EXCEPT ![r] = c]
          BY <3>2 DEF ConnectSucceeds
        <4> QED
          BY <4>1 DEF ClosedInv, IsClosed
      <3>3. CASE Store(r)
        BY <3>3 DEF Store, ClosedInv
      <3>4. ~LookUp(r) /\ ~ConnectSucceeds(r) /\ ~Store(r) => pc'[r] \notin {"store", "run"}
        BY <1>5 DEF Step, UnknownProfile, ConnectFails, RunSucceeds, RunRaises, Except, Evict,
                    Go, Answer
      <3> QED
        BY <2>3, <3>1, <3>2, <3>3, <3>4
    <2> QED
      BY <2>1, <2>2, <2>3, <1>1 DEF ClosedInv
  <1> QED
    BY <1>2, <1>3, <1>4, <1>5 DEF Next

(* A handler that nobody met has the cache of its profile for itself:      *)
(* nothing usable is there while it opens a connection, its own connection *)
(* is there while it runs, and what a query evicts is closed.              *)
NobodyMet ==
  \A r, q \in Request :
    alone[r] /\ InProgress(r) /\ InProgress(q) /\ r # q =>
      body[q].profile # body[r].profile

OwnCache(r) ==
  LET cached == connections[body[r].profile] IN
  /\ pc[r] \in {"connect", "store"} => cached = None \/ IsClosed(cached)
  /\ pc[r] \in {"run", "except"} => cached = conn[r]
  /\ pc[r] = "evict" /\ ~IsTest(r) =>
       cached = conn[r] /\ conn[r] # None /\ IsClosed(conn[r])

AloneInv == \A r \in Request : alone[r] => OwnCache(r)

(* NobodyMet is kept: whoever begins while another is at work with the     *)
(* same profile marks both.                                                *)
LEMMA NobodyMetKept ==
  ASSUME TypeInv, NobodyMet, [Next]_vars
  PROVE  NobodyMet'
  <1> USE DEF TypeInv, TypeOK
  <1>1. ASSUME body' = body, \A q \in Request : InProgress(q)' => InProgress(q),
               \A q \in Request : alone'[q] => alone[q]
        PROVE  NobodyMet'
    BY <1>1 DEF NobodyMet
  <1>2. CASE UNCHANGED vars
    BY <1>1, <1>2 DEF vars, handlers, history, InProgress
  <1>3. ASSUME NEW d \in Connection, GoesBad(d) PROVE NobodyMet'
    BY <1>1, <1>3 DEF GoesBad, handlers, history, InProgress
  <1>4. ASSUME NEW r \in Request, Step(r) PROVE NobodyMet'
    <2>1. InProgress(r)' => InProgress(r)
      BY <1>4 DEF Step, UnknownProfile, LookUp, ConnectSucceeds, ConnectFails, Store,
                  RunSucceeds, RunRaises, Except, Evict, Go, Answer, InProgress
    <2>2. \A q \in Request : InProgress(q)' => InProgress(q)
      BY <1>4, <2>1, OthersStay DEF AStep, InProgress
    <2> QED
      BY <1>1, <1>4, <2>2, RequestsStay DEF AStep
  <1>5. ASSUME NEW r \in Request, Receive(r) PROVE NobodyMet'
    <2>1. /\ pc' = [pc EXCEPT ![r] = "lookup"] /\ body' = body
          /\ alone' = [q \in Request |->
                         alone[q] /\ q \notin Company(r) /\ (q = r => Company(r) = {})]
      BY <1>5 DEF Receive, Go
    <2>2. \A q \in Request : alone'[q] => /\ alone[q] /\ q \notin Company(r)
                                          /\ q = r => Company(r) = {}
      BY <2>1
    <2>3. \A q \in Request : InProgress(q)' => InProgress(q) \/ q = r
      BY <2>1 DEF InProgress
    <2>4. \A q \in Request : q # r /\ InProgress(q) /\ body[q].profile = body[r].profile =>
                               q \in Company(r)
      BY DEF Company
    <2> SUFFICES ASSUME NEW a \in Request, NEW q \in Request, alone'[a], InProgress(a)',
                        InProgress(q)', a # q, body[q].profile = body[a].profile
                 PROVE  FALSE
      BY <2>1 DEF NobodyMet
    <2>5. CASE a = r
      BY <2>2, <2>3, <2>4, <2>5
    <2>6. CASE q = r
      BY <2>2, <2>3, <2>4, <2>6
    <2>7. CASE a # r /\ q # r
      BY <2>2, <2>3, <2>7 DEF NobodyMet
    <2> QED
      BY <2>5, <2>6, <2>7
  <1> QED
    BY <1>2, <1>3, <1>4, <1>5 DEF Next

(* What a handler knows of its part of the cache stays true while that     *)
(* part and the handler do not move, whatever goes bad.                    *)
LEMMA OwnCacheStays ==
  ASSUME TypeInv, HandlerInv, [Next]_vars, NEW r \in Request, InProgress(r), OwnCache(r),
         body' = body, pc'[r] = pc[r], conn'[r] = conn[r],
         connections'[body[r].profile] = connections[body[r].profile]
  PROVE  OwnCache(r)'
  <1>1. body[r].profile \in Configured
    BY DEF TypeInv, KnownProfile
  <1>2. PICK c, d : c = connections[body[r].profile] /\ d = conn[r]
    OBVIOUS
  <1>3. c \in Connection \cup {None} /\ d \in Connection \cup {None}
    BY <1>1, <1>2 DEF TypeInv, TypeOK
  <1>4. (c # None /\ IsClosed(c) => IsClosed(c)') /\ (d # None /\ IsClosed(d) => IsClosed(d)')
    BY <1>3, ConnectionsAge
  <1>5. c = connections'[body'[r].profile] /\ d = conn'[r] /\ IsTest(r)' = IsTest(r)
    BY <1>2 DEF IsTest
  <1>6. (pc[r] \in {"connect", "store"}) => c = None \/ (c # None /\ IsClosed(c))
    BY <1>2 DEF OwnCache
  <1>7. pc[r] \in {"run", "except"} => c = d
    BY <1>2 DEF OwnCache
  <1>8. pc[r] = "evict" /\ ~IsTest(r) => c = d /\ d # None /\ IsClosed(d)
    BY <1>2 DEF OwnCache
  <1>9. (pc'[r] \in {"connect", "store"}) => c = None \/ IsClosed(c)'
    BY <1>4, <1>6
  <1>10. pc'[r] = "evict" /\ ~IsTest(r)' => c = d /\ d # None /\ IsClosed(d)'
    BY <1>4, <1>5, <1>8
  <1> QED
    BY <1>5, <1>7, <1>9, <1>10 DEF OwnCache, IsClosed

(* A handler's own step.                                                   *)
LEMMA OwnStepKeepsOwnCache ==
  ASSUME TypeInv, HandlerInv, [Next]_vars, NEW r \in Request, Step(r), OwnCache(r)
  PROVE  OwnCache(r)'
  <1> DEFINE p == body[r].profile
  <1> USE DEF TypeInv, TypeOK, Go
  <1>1. body' = body
    BY RequestsStay DEF AStep
  <1>2. CASE UnknownProfile(r)
    BY <1>2 DEF UnknownProfile, Answer, OwnCache
  <1>3. CASE LookUp(r)
    <2>0. pc[r] = "lookup" /\ UNCHANGED <<connections, state>>
      BY <1>3 DEF LookUp, cache
    <2>1. CASE Cached(r) = {} /\ Go(r, "connect") /\ UNCHANGED conn
      <3>1. connections[p] = None \/ IsClosed(connections[p])
        BY <2>1 DEF Cached
      <3>2. pc'[r] = "connect"
        BY <2>1
      <3> QED
        BY <1>1, <2>0, <3>1, <3>2 DEF OwnCache, IsClosed
    <2>2. CASE \E c \in Cached(r) : conn' = [conn EXCEPT ![r] = c] /\ Go(r, "run")
      <3>1. PICK c \in Cached(r) : conn' = [conn EXCEPT ![r] = c] /\ Go(r, "run")
        BY <2>2
      <3>2. c = connections[p]
        BY <2>0, WhatIsCached DEF InProgress
      <3>3. pc'[r] = "run" /\ conn'[r] = c
        BY <3>1
      <3> QED
        BY <1>1, <2>0, <3>2, <3>3 DEF OwnCache
    <2> QED
      BY <1>3, <2>1, <2>2 DEF LookUp
  <1>4. CASE ConnectSucceeds(r)
    <2>1. p \in Configured /\ UNCHANGED connections
      BY <1>4 DEF ConnectSucceeds, KnownProfile, InProgress
    <2>2. PICK c : c = connections[p]
      OBVIOUS
    <2>3. c = None \/ (c \in Connection /\ IsClosed(c))
      BY <1>4, <2>1, <2>2 DEF ConnectSucceeds, OwnCache
    <2>4. c = None \/ IsClosed(c)'
      BY <2>3, ConnectionsAge
    <2>5. pc'[r] = "store"
      BY <1>4 DEF ConnectSucceeds
    <2> QED
      BY <1>1, <2>1, <2>2, <2>4, <2>5 DEF OwnCache, IsClosed
  <1>5. CASE ConnectFails(r)
    BY <1>1, <1>5 DEF ConnectFails, Answer, OwnCache, IsTest
  <1>6. CASE Store(r)
    <2>1. p \in Configured
      BY <1>6 DEF Store, KnownProfile, InProgress
    <2> QED
      BY <1>1, <1>6, <2>1 DEF Store, OwnCache
  <1>7. CASE RunSucceeds(r)
    BY <1>7 DEF RunSucceeds, Answer, OwnCache
  <1>8. CASE RunRaises(r)
    BY <1>1, <1>8 DEF RunRaises, OwnCache, cache
  <1>9. CASE Except(r)
    <2>1. conn[r] # None
      BY <1>9, NoneIsNoConnection DEF Except, HandlerInv, Holds, Opened
    <2>2. UNCHANGED <<connections, state, conn>> /\ connections[p] = conn[r]
      BY <1>9 DEF Except, cache, OwnCache
    <2>3. \/ IsTest(r) \/ IsClosed(conn[r])
          \/ pc'[r] = "answered"
      BY <1>9 DEF Except, Answer
    <2>4. pc'[r] \in {"evict", "answered"}
      BY <1>9 DEF Except, Answer
    <2> QED
      BY <1>1, <2>1, <2>2, <2>3, <2>4 DEF OwnCache, IsClosed, IsTest
  <1>10. CASE Evict(r)
    BY <1>10 DEF Evict, Answer, OwnCache
  <1> QED
    BY <1>2, <1>3, <1>4, <1>5, <1>6, <1>7, <1>8, <1>9, <1>10 DEF Step

(* AloneInv is kept.                                                       *)
LEMMA AloneKept ==
  ASSUME TypeInv, HandlerInv, NobodyMet, AloneInv, [Next]_vars
  PROVE  AloneInv'
  <1> USE DEF TypeInv, TypeOK
  <1> SUFFICES ASSUME NEW r \in Request, alone'[r] PROVE OwnCache(r)'
    BY DEF AloneInv
  <1>1. CASE UNCHANGED vars
    BY <1>1 DEF vars, cache, handlers, history, AloneInv, OwnCache, IsTest, IsClosed
  <1>2. ASSUME ~InProgress(r), pc'[r] = pc[r] PROVE OwnCache(r)'
    BY <1>2 DEF OwnCache, InProgress
  <1>3. ASSUME NEW d \in Connection, GoesBad(d) PROVE OwnCache(r)'
    <2>1. /\ alone[r] /\ body' = body /\ pc'[r] = pc[r] /\ conn'[r] = conn[r]
          /\ connections' = connections
      BY <1>3 DEF GoesBad, handlers, history
    <2> QED
      BY <2>1, <1>2, OwnCacheStays DEF AloneInv
  <1>4. ASSUME Receive(r) PROVE OwnCache(r)'
    BY <1>4 DEF Receive, Go, OwnCache
  <1>5. ASSUME Step(r) PROVE OwnCache(r)'
    BY <1>5, RequestsStay, OwnStepKeepsOwnCache DEF AStep, AloneInv
  <1>6. ASSUME NEW q \in Request, AStep(q), q # r, InProgress(r) PROVE OwnCache(r)'
    <2>1. alone[r] /\ body' = body /\ pc'[r] = pc[r] /\ conn'[r] = conn[r]
      BY <1>6, RequestsStay, OthersStay
    <2>2. connections'[body[r].profile] = connections[body[r].profile]
      <3>1. CASE ~Store(q) /\ ~Evict(q)
        BY <1>6, <3>1, CacheStays
      <3>2. CASE Store(q) \/ Evict(q)
        <4>1. InProgress(q)
          BY <3>2 DEF Store, Evict, InProgress
        <4>2. body[q].profile # body[r].profile
          BY <1>6, <2>1, <4>1 DEF NobodyMet
        <4>3. \E v : connections' = [connections EXCEPT ![body[q].profile] = v]
          BY <3>2 DEF Store, Evict
        <4>4. body[r].profile \in Configured
          BY <1>6 DEF KnownProfile
        <4> QED
          BY <4>2, <4>3, <4>4
      <3> QED
        BY <3>1, <3>2
    <2> QED
      BY <1>6, <2>1, <2>2, OwnCacheStays DEF AloneInv
  <1>7. ASSUME NEW q \in Request, AStep(q), q # r, ~InProgress(r) PROVE OwnCache(r)'
    BY <1>2, <1>7, OthersStay
  <1> QED
    BY <1>1, <1>3, <1>4, <1>5, <1>6, <1>7 DEF Next, AStep

-----------------------------------------------------------------------------
(* The invariant, and what it says of requests                             *)

Inv ==
  /\ TypeInv /\ CacheInv /\ HandlerInv /\ ClosedInv /\ NobodyMet /\ AloneInv

(* It holds when the application is built.                                 *)
LEMMA InvAtStart == Init => Inv
  <1> SUFFICES ASSUME Init PROVE Inv
    OBVIOUS
  <1>1. TypeInv
    BY TypesAtStart
  <1>2. CacheInv /\ HandlerInv /\ ClosedInv
    BY DEF Init, CacheInv, HandlerInv, ClosedInv, Holds
  <1>3. NobodyMet /\ AloneInv
    BY DEF Init, NobodyMet, AloneInv, OwnCache, InProgress
  <1> QED
    BY <1>1, <1>2, <1>3 DEF Inv

(* Every step keeps it.                                                    *)
LEMMA InvKept ==
  ASSUME Inv, [Next]_vars
  PROVE  Inv'
  <1>1. TypeInv'
    <2>1. CASE UNCHANGED vars
      BY <2>1 DEF Inv, TypeInv, TypeOK, KnownProfile, InProgress, vars, cache, handlers, history
    <2>2. CASE Next
      BY <2>2, StepTyped, GoesBadTyped DEF Next, Inv
    <2> QED
      BY <2>1, <2>2
  <1> QED
    BY <1>1, CacheKept, HandlersKept, ClosedKept, NobodyMetKept, AloneKept DEF Inv

(* So it always holds.                                                     *)
LEMMA InvHolds == Spec => []Inv
  <1>1. Init => Inv
    BY InvAtStart
  <1>2. Inv /\ [Next]_vars => Inv'
    BY InvKept
  <1> QED
    BY <1>1, <1>2, PTL DEF Spec

(* A statement runs in the account of the profile its caller named,        *)
(* whatever was stored, evicted and reopened between the request's steps.  *)
THEOREM OwnAccountAlways == Spec => []OwnAccount
  <1>1. Inv => OwnAccount
    BY DEF Inv, HandlerInv, Holds, Opened, OwnAccount
  <1> QED
    BY <1>1, InvHolds, PTL

(* A request never runs on a connection that was closed before it began.   *)
THEOREM ReconnectsAlways == Spec => []NextRequestReconnects
  <1>1. Inv => NextRequestReconnects
    BY DEF Inv, ClosedInv, NextRequestReconnects
  <1> QED
    BY <1>1, InvHolds, PTL

-----------------------------------------------------------------------------
(* What becomes of a usable connection                                     *)

(* A usable connection leaves the cache by a step of a test, or of a       *)
(* request that another one met.                                           *)
LEMMA WhoEvicts ==
  ASSUME Inv, NEW p \in Configured, connections[p] # None, state[connections[p]] = "open",
         connections'[p] # connections[p], NEW r \in Request, Store(r) \/ Evict(r)
  PROVE  body[r].profile = p /\ InProgress(r) /\ (IsTest(r) \/ ~alone[r])
  <1>1. InProgress(r)
    BY DEF Store, Evict, InProgress
  <1>2. \E v : connections' = [connections EXCEPT ![body[r].profile] = v]
    BY DEF Store, Evict
  <1>3. body[r].profile = p
    BY <1>2 DEF Inv, TypeInv, TypeOK
  <1>4. ASSUME alone[r], ~IsTest(r) PROVE FALSE
    <2>1. OwnCache(r)
      BY <1>4 DEF Inv, AloneInv
    <2>2. CASE Store(r)
      BY <1>3, <2>1, <2>2 DEF Store, OwnCache, IsClosed
    <2>3. CASE Evict(r)
      BY <1>3, <1>4, <2>1, <2>3 DEF Evict, OwnCache, IsClosed
    <2> QED
      BY <2>2, <2>3
  <1> QED
    BY <1>1, <1>3, <1>4

(* "A plain SQL error leaves the connection open, so it's kept": only a    *)
(* failed test, or requests that met, cost a usable connection its place.  *)
THEOREM UsableIsKept == Spec => UsableConnectionIsKept
  <1> DEFINE Kept ==
        \A p \in Configured : \A c \in {connections[p]} \ {None} :
          state[c] = "open" /\ connections'[p] # c =>
            \E r \in Request :
              body[r].profile = p /\ InProgress(r) /\ (IsTest(r) \/ ~alone[r])
  <1>1. Inv /\ [Next]_vars => [Kept]_vars
    <2> SUFFICES ASSUME Inv, Next, NEW p \in Configured, connections[p] # None,
                        state[connections[p]] = "open", connections'[p] # connections[p]
                 PROVE  \E r \in Request :
                          body[r].profile = p /\ InProgress(r) /\ (IsTest(r) \/ ~alone[r])
      OBVIOUS
    <2>1. \E r \in Request : Store(r) \/ Evict(r)
      <3>1. \A d \in Connection : ~GoesBad(d)
        BY DEF GoesBad
      <3>2. PICK r \in Request : AStep(r)
        BY <3>1 DEF Next, AStep
      <3> QED
        BY <3>2, CacheStays
    <2> QED
      BY <2>1, WhoEvicts
  <1> QED
    BY <1>1, InvHolds, PTL DEF Spec, UsableConnectionIsKept

(* Nothing leads to an open connection any more only by such a step: it    *)
(* was put in the cache or held for the profile of the request that lets   *)
(* go of it.                                                               *)
LEMMA WhoLoses ==
  ASSUME Inv, NEW r \in Request, AStep(r), NEW c \in Connection,
         state[c] = "open", Reachable(c), ~Reachable(c)'
  PROVE  body[r].profile = account[c] /\ (~alone[r] \/ (IsTest(r) /\ answer'[r] = "error"))
  <1> DEFINE p == body[r].profile
  <1> USE DEF Inv, TypeInv, TypeOK, Go
  <1>0. c # None /\ ~IsClosed(c)
    BY NoneIsNoConnection DEF IsClosed
  <1>1. \A q \in Request \ {r} : pc'[q] = pc[q] /\ conn'[q] = conn[q]
    BY OthersStay
  <1>2. \A q \in Request \ {r} : ~(conn[q] = c /\ InProgress(q))
    BY <1>1 DEF Reachable, InProgress
  <1>3. UNCHANGED connections => conn[r] = c /\ InProgress(r)
    BY <1>2 DEF Reachable
  <1>4. ~(conn'[r] = c /\ InProgress(r)')
    BY DEF Reachable, InProgress
  <1>5. UNCHANGED connections => \A x \in Configured : connections[x] # c
    BY DEF Reachable
  <1>7. ASSUME UNCHANGED connections, pc[r] \in {"waiting", "lookup", "connect"} PROVE FALSE
    BY <1>0, <1>3, <1>7 DEF HandlerInv
  <1>8. ASSUME UNCHANGED connections, pc[r] \in {"run", "except"}
        PROVE  p = account[c] /\ ~alone[r]
    <2>1. Opened(c, p) /\ p \in Configured
      BY <1>3, <1>8 DEF HandlerInv, Holds, KnownProfile, InProgress
    <2>2. alone[r] => connections[p] = c
      BY <1>3, <1>8 DEF AloneInv, OwnCache
    <2> QED
      BY <1>5, <1>8, <2>1, <2>2 DEF Opened
  <1>9. CASE Store(r)
    <2>1. InProgress(r) /\ InProgress(r)' /\ conn' = conn
      BY <1>9 DEF Store, InProgress
    <2>2. PICK x \in Configured : connections[x] = c
      BY <1>2, <1>4, <2>1 DEF Reachable
    <2>3. x = p
      BY <1>9, <2>2 DEF Store, Reachable
    <2>4. account[c] = p
      BY <1>0, <2>2, <2>3 DEF CacheInv, Opened
    <2>5. ~alone[r]
      BY <1>0, <1>9, <2>2, <2>3 DEF Store, AloneInv, OwnCache
    <2> QED
      BY <2>4, <2>5
  <1>10. CASE Evict(r)
    <2>1. pc[r] = "evict" /\ InProgress(r) /\ answer'[r] = "error"
      BY <1>10 DEF Evict, InProgress, Answer
    <2>2. p \in Configured /\ connections' = [connections EXCEPT ![p] = None]
      BY <1>10, <2>1 DEF Evict, KnownProfile
    <2>3. connections[p] = c \/ conn[r] = c
      <3>1. \A x \in Configured \ {p} : connections'[x] = connections[x]
        BY <2>2
      <3>2. \A x \in Configured \ {p} : connections[x] # c
        BY <3>1 DEF Reachable
      <3> QED
        BY <1>2, <3>2 DEF Reachable
    <2>4. account[c] = p
      BY <1>0, <2>1, <2>2, <2>3 DEF CacheInv, HandlerInv, Holds, Opened
    <2>5. ~IsTest(r) => ~alone[r]
      BY <1>0, <2>1, <2>3 DEF AloneInv, OwnCache
    <2> QED
      BY <2>1, <2>4, <2>5
  <1>11. ~Store(r) /\ ~Evict(r) => UNCHANGED connections
    BY CacheStays
  <1>12. Receive(r) \/ UnknownProfile(r) \/ LookUp(r) \/ ConnectSucceeds(r) \/ ConnectFails(r)
           => pc[r] \in {"waiting", "lookup", "connect"}
    BY DEF Receive, UnknownProfile, LookUp, ConnectSucceeds, ConnectFails
  <1>13. RunSucceeds(r) \/ RunRaises(r) \/ Except(r) => pc[r] \in {"run", "except"}
    BY DEF RunSucceeds, RunRaises, Except
  <1> QED
    BY <1>7, <1>8, <1>9, <1>10, <1>11, <1>12, <1>13 DEF AStep, Step

(* An excuse that a request once gave stays one.                           *)
Excuses(r, p) ==
  body[r].profile = p /\ (~alone[r] \/ (IsTest(r) /\ answer[r] = "error"))

(* A handler that met another, or whose test failed, stays one that did.   *)
LEMMA ExcusesStay ==
  ASSUME Inv, [Next]_vars, NEW q \in Request, NEW p, Excuses(q, p)
  PROVE  Excuses(q, p)'
  <1> USE DEF Inv, TypeInv, TypeOK
  <1>1. CASE UNCHANGED <<body, alone>> /\ answer'[q] = answer[q]
    BY <1>1 DEF Excuses, IsTest
  <1>2. ASSUME NEW d \in Connection, GoesBad(d) PROVE Excuses(q, p)'
    BY <1>1, <1>2 DEF GoesBad, handlers, history
  <1>3. ASSUME NEW r \in Request, AStep(r) PROVE Excuses(q, p)'
    <2>1. body' = body /\ (alone'[q] => alone[q])
      BY <1>3, RequestsStay
    <2>2. answer[q] # "none" => answer'[q] = answer[q]
      <3>1. CASE q # r
        BY <1>3, <3>1, OthersStay
      <3>2. CASE q = r
        BY <1>3, <3>2 DEF AStep, Step, Receive, UnknownProfile, LookUp, ConnectSucceeds,
           ConnectFails, Store, RunSucceeds, RunRaises, Except, Evict, Go, Answer
      <3> QED
        BY <3>1, <3>2
    <2> QED
      BY <2>1, <2>2 DEF Excuses, IsTest
  <1>4. UNCHANGED vars => UNCHANGED <<body, alone>> /\ answer'[q] = answer[q]
    BY DEF vars, handlers, history
  <1> QED
    BY <1>1, <1>2, <1>3, <1>4 DEF Next, AStep

(* An open connection that nothing leads to any more was opened for the    *)
(* profile of a test that failed, or of a request that another one met.    *)
THEOREM NothingElseIsLost == Spec => []NoConnectionIsLost
  <1>1. Init => NoConnectionIsLost
    BY DEF Init, NoConnectionIsLost
  <1>2. Inv /\ NoConnectionIsLost /\ [Next]_vars => NoConnectionIsLost'
    <2> SUFFICES ASSUME Inv, NoConnectionIsLost, [Next]_vars, NEW c \in Connection,
                        state'[c] = "open", ~Reachable(c)'
                 PROVE  \E q \in Request : Excuses(q, account[c])'
      BY DEF NoConnectionIsLost, Excuses
    <2>1. state[c] = "open" /\ account'[c] = account[c]
      <3>1. state[c] \in {"open", "unopened"}
        BY ConnectionsAge DEF Inv
      <3>2. ASSUME state[c] = "unopened" PROVE FALSE
        <4>1. ~UNCHANGED state
          BY <3>2
        <4>2. \A d \in Connection : ~GoesBad(d)
          BY <3>2 DEF GoesBad, Inv, TypeInv, TypeOK
        <4>3. PICK r \in Request : ConnectSucceeds(r)
          BY <4>1, <4>2, ConnectionsStay DEF Next, AStep, vars, cache
        <4>4. PICK d \in Connection : /\ state' = [state EXCEPT ![d] = "open"]
                                      /\ conn' = [conn EXCEPT ![r] = d]
          BY <4>3 DEF ConnectSucceeds
        <4>5. c = d
          BY <3>2, <4>4 DEF Inv, TypeInv, TypeOK
        <4>6. conn'[r] = c
          BY <4>4, <4>5 DEF Inv, TypeInv, TypeOK
        <4>7. pc'[r] = "store"
          BY <4>3 DEF ConnectSucceeds, Go, Inv, TypeInv, TypeOK
        <4> QED
          BY <4>6, <4>7 DEF Reachable, InProgress
      <3>3. state[c] # "unopened" => account'[c] = account[c]
        BY ConnectionsAge DEF Inv
      <3> QED
        BY <3>1, <3>2, <3>3
    <2>2. CASE ~Reachable(c)
      <3>1. PICK q \in Request : Excuses(q, account[c])
        BY <2>1, <2>2 DEF NoConnectionIsLost, Excuses
      <3>2. PICK p : p = account[c]
        OBVIOUS
      <3>3. Excuses(q, p)'
        BY <3>1, <3>2, ExcusesStay
      <3> QED
        BY <2>1, <3>2, <3>3 DEF Excuses
    <2>3. CASE Reachable(c)
      <3>1. ~UNCHANGED vars
        BY <2>3 DEF vars, cache, handlers, Reachable, InProgress
      <3>2. \A d \in Connection : ~GoesBad(d)
        BY <2>3 DEF GoesBad, handlers, Reachable, InProgress
      <3>3. PICK r \in Request : AStep(r)
        BY <3>1, <3>2 DEF Next, AStep
      <3>4. /\ body[r].profile = account[c]
            /\ ~alone[r] \/ (IsTest(r) /\ answer'[r] = "error")
        BY <2>1, <2>3, <3>3, WhoLoses
      <3>5. body' = body /\ (alone'[r] => alone[r])
        BY <3>3, RequestsStay DEF Inv
      <3> QED
        BY <2>1, <3>4, <3>5 DEF Excuses, IsTest
    <2> QED
      BY <2>2, <2>3
  <1> QED
    BY <1>1, <1>2, InvHolds, PTL DEF Spec
=============================================================================
