------------------------------ MODULE ServeApi ------------------------------
(***************************************************************************)
(* `snowrig serve`: HTTP requests that query through one cached connection *)
(* per profile (src/snowrig/api/server.py).  The handlers are plain        *)
(* functions, which FastAPI runs on a pool of threads: requests interleave *)
(* wherever one of them waits for the network or touches the cache, and    *)
(* nothing locks.                                                          *)
(*                                                                         *)
(* A connection may go bad at any time: "closed", as is_closed() tells, or *)
(* "dead", so that statements fail on it and is_closed() says nothing.     *)
(***************************************************************************)
EXTENDS Naturals, FiniteSets

CONSTANTS
  Request,       \* the requests made of the server, each a thread
  Profile,       \* names callers send
  Configured,    \* those the configuration file has
  Bodies,        \* for each request, what it may ask
  MaxBad,        \* connections that go bad
  None

Body == [kind : {"query", "test"}, profile : Profile]

(* Connections are numbered as they are opened; a request opens at most    *)
(* one.                                                                    *)
Connection == 1..Cardinality(Request)

ASSUME ConstantsAssumption ==
  /\ Configured \subseteq Profile
  /\ \A r \in Request : Bodies[r] \subseteq Body
  /\ IsFiniteSet(Request)
  /\ MaxBad \in Nat /\ None \notin Nat

VARIABLES
  connections,   \* profile -> its cached connection
  state,         \* connection -> "unopened", "open", "dead" or "closed"
  account,       \* connection -> the profile it was opened for
  pc,            \* request -> where its handler is
  body,          \* request -> [kind, profile]
  conn,          \* request -> the handler's local variable conn
  answer,        \* request -> what its caller gets
  alone,         \* history, request -> no other request of its profile met it
  closed_before  \* history, request -> the connections closed when it began

cache == <<connections, state, account>>
handlers == <<pc, body, conn, answer>>
history == <<alone, closed_before>>
vars == <<cache, handlers, history>>

(* build_app: no connection yet.                                           *)
Init ==
  /\ connections = [p \in Configured |-> None]
  /\ state = [c \in Connection |-> "unopened"]
  /\ account = [c \in Connection |-> None]
  /\ pc = [r \in Request |-> "waiting"]
  /\ body \in {b \in [Request -> Body] : \A r \in Request : b[r] \in Bodies[r]}
  /\ conn = [r \in Request |-> None]
  /\ answer = [r \in Request |-> "none"]
  /\ alone = [r \in Request |-> TRUE]
  /\ closed_before = [r \in Request |-> {}]

IsClosed(c) == state[c] = "closed"

IsTest(r) == body[r].kind = "test"

Go(r, place) == pc' = [pc EXCEPT ![r] = place]

Answer(r, a) == Go(r, "answered") /\ answer' = [answer EXCEPT ![r] = a]

InProgress(r) == pc[r] \notin {"waiting", "answered"}

(* The requests at work with r's profile while r begins.                   *)
Company(r) == {q \in Request \ {r} : InProgress(q) /\ body[q].profile = body[r].profile}

-----------------------------------------------------------------------------
(* query and test_connection                                               *)

Receive(r) ==
  /\ pc[r] = "waiting"
  /\ body[r].profile \in Configured
  /\ Go(r, "lookup")
  /\ alone' = [q \in Request |->
                 alone[q] /\ q \notin Company(r) /\ (q = r => Company(r) = {})]
  /\ closed_before' = [closed_before EXCEPT ![r] = {c \in Connection : IsClosed(c)}]
  /\ UNCHANGED <<cache, body, conn, answer>>

UnknownProfile(r) ==     \* 404
  /\ pc[r] = "waiting"
  /\ body[r].profile \notin Configured
  /\ Answer(r, "unknown profile")
  /\ UNCHANGED <<cache, body, conn, history>>

(* Faults: a cached connection is not looked at; any cached one will do;   *)
(* the cached one is not used.                                             *)
CachedUnchecked(r) == {connections[body[r].profile]} \ {None}

CachedForAnybody(r) ==
  {connections[p] : p \in Configured} \ ({None} \cup {c \in Connection : IsClosed(c)})

CachedIfDead(r) == {c \in {connections[body[r].profile]} \ {None} : state[c] = "dead"}

(* _get_connection: the cached connection, if it may be used.              *)
Cached(r) == {c \in {connections[body[r].profile]} \ {None} : ~IsClosed(c)}

LookUp(r) ==
  /\ pc[r] = "lookup"
  /\ \/ \E c \in Cached(r) : conn' = [conn EXCEPT ![r] = c] /\ Go(r, "run")
     \/ Cached(r) = {} /\ Go(r, "connect") /\ UNCHANGED conn
  /\ UNCHANGED <<cache, body, answer, history>>

ConnectSucceeds(r) ==
  /\ pc[r] = "connect"
  /\ \E c \in Connection :
       /\ state[c] = "unopened" /\ \A b \in 1..(c - 1) : state[b] # "unopened"
       /\ state' = [state EXCEPT ![c] = "open"]
       /\ account' = [account EXCEPT ![c] = body[r].profile]
       /\ conn' = [conn EXCEPT ![r] = c]
  /\ Go(r, "store")
  /\ UNCHANGED <<connections, body, answer, history>>

(* query calls _get_connection outside its try: nothing is evicted, and    *)
(* the caller gets the framework's 500.                                    *)
ConnectFails(r) ==
  /\ pc[r] = "connect"
  /\ IF IsTest(r) THEN Go(r, "evict") /\ UNCHANGED answer ELSE Answer(r, "server error")
  /\ UNCHANGED <<cache, body, conn, history>>

Store(r) ==
  /\ pc[r] = "store"
  /\ connections' = [connections EXCEPT ![body[r].profile] = conn[r]]
  /\ Go(r, "run")
  /\ UNCHANGED <<state, account, body, conn, answer, history>>

RunSucceeds(r) ==
  /\ pc[r] = "run"
  /\ state[conn[r]] = "open"
  /\ Answer(r, "rows")
  /\ UNCHANGED <<cache, body, conn, history>>

(* The statement is wrong, or the connection is not what it was.           *)
RunRaises(r) ==
  /\ pc[r] = "run"
  /\ Go(r, "except")
  /\ UNCHANGED <<cache, body, conn, answer, history>>

(* Faults: any error evicts; the caller is answered before the eviction.   *)
ExceptAlways(r) ==
  /\ pc[r] = "except"
  /\ Go(r, "evict")
  /\ UNCHANGED <<cache, body, conn, answer, history>>

ExceptAnswersEarly(r) ==
  /\ pc[r] = "except"
  /\ answer' = [answer EXCEPT ![r] = "error"]
  /\ Go(r, IF IsTest(r) \/ IsClosed(conn[r]) THEN "evict" ELSE "answered")
  /\ UNCHANGED <<cache, body, conn, history>>

(* A test always evicts, a query if its connection is closed.              *)
Except(r) ==
  /\ pc[r] = "except"
  /\ IF IsTest(r) \/ IsClosed(conn[r])
     THEN Go(r, "evict") /\ UNCHANGED answer
     ELSE Answer(r, "error")
  /\ UNCHANGED <<cache, body, conn, history>>

(* connections.pop(profile): whichever connection is there by now.         *)
Evict(r) ==
  /\ pc[r] = "evict"
  /\ connections' = [connections EXCEPT ![body[r].profile] = None]
  /\ Answer(r, "error")
  /\ UNCHANGED <<state, account, body, conn, history>>

Step(r) ==
  \/ UnknownProfile(r)
  \/ LookUp(r)
  \/ ConnectSucceeds(r) \/ ConnectFails(r)
  \/ Store(r)
  \/ RunSucceeds(r) \/ RunRaises(r)
  \/ Except(r) \/ Evict(r)

(* The network drops, the session expires.                                 *)
GoesBad(c) ==
  /\ state[c] = "open"
  /\ Cardinality({b \in Connection : state[b] \in {"dead", "closed"}}) < MaxBad
  /\ \E s \in {"dead", "closed"} : state' = [state EXCEPT ![c] = s]
  /\ UNCHANGED <<connections, account, handlers, history>>

Next ==
  \/ \E r \in Request : Receive(r) \/ Step(r)
  \/ \E c \in Connection : GoesBad(c)

Spec == Init /\ [][Next]_vars

-----------------------------------------------------------------------------
(* Properties                                                              *)

(* The type invariant.                                                     *)
TypeOK ==
  /\ connections \in [Configured -> Connection \cup {None}]
  /\ state \in [Connection -> {"unopened", "open", "dead", "closed"}]
  /\ account \in [Connection -> Configured \cup {None}]
  /\ pc \in [Request -> {"waiting", "lookup", "connect", "store", "run", "except", "evict",
                         "answered"}]
  /\ body \in [Request -> Body]
  /\ conn \in [Request -> Connection \cup {None}]
  /\ answer \in [Request -> {"none", "rows", "error", "server error", "unknown profile"}]
  /\ \A r \in Request : (answer[r] # "none") <=> (pc[r] = "answered")
  /\ alone \in [Request -> BOOLEAN]
  /\ closed_before \in [Request -> SUBSET Connection]

(* A statement runs in the account of the profile its caller named.        *)
OwnAccount ==
  \A r \in Request : pc[r] = "run" => account[conn[r]] = body[r].profile

(* A request never runs on a connection that was closed before it began:   *)
(* "the *next* request reconnects instead of repeatedly retrying a         *)
(* connection that's already dead".                                        *)
NextRequestReconnects ==
  \A r \in Request : pc[r] = "run" => conn[r] \notin closed_before[r]

(* "A plain SQL error leaves the connection open, so it's kept and         *)
(* reused": a usable connection leaves the cache only by a test that       *)
(* failed, or when two requests for its profile met.                       *)
UsableConnectionIsKept ==
  [][\A p \in Configured : \A c \in {connections[p]} \ {None} :
       state[c] = "open" /\ connections'[p] # c =>
         \E r \in Request :
           body[r].profile = p /\ InProgress(r) /\ (IsTest(r) \/ ~alone[r])]_vars

(* A connection that is open and that nothing leads to any more, for       *)
(* nothing ever closes it, comes from such a test or such a meeting too.   *)
Reachable(c) ==
  \/ \E p \in Configured : connections[p] = c
  \/ \E r \in Request : conn[r] = c /\ InProgress(r)

NoConnectionIsLost ==
  \A c \in Connection :
    state[c] = "open" /\ ~Reachable(c) =>
      \E r \in Request :
        body[r].profile = account[c] /\ (~alone[r] \/ (IsTest(r) /\ answer[r] = "error"))
=============================================================================
