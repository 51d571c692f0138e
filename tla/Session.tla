------------------------------ MODULE Session ------------------------------
(***************************************************************************)
(* From a profile to a connection and back: Session as a context manager,  *)
(* used by a program of one's own or by one command of snowrig, up to the  *)
(* point where plan or apply has a connection, a manifest and an order     *)
(* (src/snowrig/__init__.py, cli/main.py); PlanApply goes on from there.   *)
(*                                                                         *)
(* pc tells where control is: in the caller's code ("ready"), in           *)
(* __enter__ ("profile", "connect"), in a call ("load", "work"), with an   *)
(* exception in flight ("raised"), or the process has ended ("over").      *)
(***************************************************************************)
EXTENDS Profiles, ManifestLoader

CONSTANTS
  Environments, ConfigFiles, Directories,   \* what a process may find
  Orders,          \* what build_apply_order may do with the manifest
  NoDirectory,     \* what there is when the manifest directory is none
  Default,         \* the profile that is asked for
  MaxEnters, MaxCalls,   \* blocks entered and calls made by one process
  None

ASSUME WorldAssumption ==
  /\ Environments \subseteq Environment
  /\ ConfigFiles \subseteq ConfigFile
  /\ \A d \in Directories :
       \/ d = NoDirectory
       \/ /\ d \subseteq File /\ IsFiniteSet(d)
          /\ \A f, g \in d : f.path = g.path => f = g
  /\ Orders \subseteq {"ok", "DependencyError", "KeyError"}
  /\ Default \in ProfileName
  /\ MaxEnters \in Nat /\ MaxCalls \in Nat
  /\ None \notin Nat

Program == {"library", "plan", "apply", "exec", "fetch", "serve", "init"}

VARIABLES
  env, file, directory, order,   \* the process's surroundings
  program,     \* who uses the connection
  given,       \* a connection was passed to the Session
  pc,
  conn, owns,  \* _conn and _owns_connection
  depth,       \* with-blocks that are open
  opened, closed,   \* connections; 0 is the given one
  loaded,      \* the manifest files of this call that are loaded
  call,        \* the call being made
  error,       \* the exception in flight, or "none"
  told,        \* how the process ended
  counts       \* blocks entered, calls made, and blocks entered inside another

surroundings == <<env, file, directory, order, program, given>>
connection == <<conn, owns, depth, opened, closed>>
vars == <<surroundings, pc, connection, loaded, call, error, told, counts>>

Init ==
  /\ env \in Environments /\ file \in ConfigFiles /\ directory \in Directories
  /\ order \in Orders
  /\ program \in Program
  /\ given \in BOOLEAN /\ (given => program = "library")
  /\ pc = "ready"
  /\ conn = None /\ owns = FALSE /\ depth = 0
  /\ opened = {} /\ closed = {}
  /\ loaded = {} /\ call = "none"
  /\ error = "none" /\ told = "no"
  /\ counts = [enters |-> 0, calls |-> 0, nested |-> 0]

(* Commands that guard load_profile alone, and make one request; so does   *)
(* transaction, which guards its request besides, see SqlRunner.           *)
Unguarded == program \in {"exec", "fetch"}

IsCommand == Unguarded \/ program \in {"plan", "apply"}

Raise(e) == pc' = "raised" /\ error' = e

-----------------------------------------------------------------------------
(* __enter__                                                               *)

(* A command enters one block, a program of one's own any.                 *)
MayEnter ==
  /\ pc = "ready" /\ counts.enters < MaxEnters
  /\ program = "library" \/ (IsCommand /\ counts.enters = 0)

Entered ==
  counts' = [counts EXCEPT !.enters = @ + 1, !.nested = @ + (IF depth > 0 THEN 1 ELSE 0)]

EnterGiven ==
  /\ MayEnter /\ given
  /\ conn' = 0 /\ owns' = FALSE
  /\ depth' = depth + 1
  /\ Entered
  /\ UNCHANGED <<surroundings, pc, opened, closed, loaded, call, error, told>>

EnterByProfile ==
  /\ MayEnter /\ ~given
  /\ pc' = "profile"
  /\ Entered
  /\ UNCHANGED <<surroundings, connection, loaded, call, error, told>>

ReadProfile ==
  /\ pc = "profile"
  /\ LET result == LoadProfile(Default, env, file) IN
     IF result = "ok" THEN pc' = "connect" /\ UNCHANGED error ELSE Raise(result)
  /\ UNCHANGED <<surroundings, connection, loaded, call, told, counts>>

Connect ==
  /\ pc = "connect"
  /\ PrepareConnect(Chosen(Default, env, file), env) = "ok"
  /\ conn' = counts.enters /\ owns' = TRUE
  /\ opened' = opened \cup {counts.enters}
  /\ depth' = depth + 1
  /\ pc' = "ready"
  /\ UNCHANGED <<surroundings, closed, loaded, call, error, told, counts>>

(* Fault: the exception is lost on the way.                                *)
ConnectFailsUnseen ==
  /\ pc = "connect"
  /\ pc' = "raised"
  /\ UNCHANGED <<surroundings, connection, loaded, call, error, told, counts>>

(* The key cannot be had, or the connector raises.                         *)
ConnectFails ==
  /\ pc = "connect"
  /\ LET result == PrepareConnect(Chosen(Default, env, file), env) IN
     Raise(IF result = "ok" THEN "ConnectorError" ELSE result)
  /\ UNCHANGED <<surroundings, connection, loaded, call, told, counts>>

-----------------------------------------------------------------------------
(* plan, apply, query                                                      *)

(* A command makes the call it is named for, inside its block.             *)
MayCall(c) ==
  /\ pc = "ready" /\ counts.calls < MaxCalls
  /\ \/ program = "library"
     \/ /\ IsCommand /\ depth = 1 /\ counts.calls = 0
        /\ c = IF Unguarded THEN "query" ELSE program

StartCall(c) ==
  /\ MayCall(c)
  /\ counts' = [counts EXCEPT !.calls = @ + 1]
  /\ call' = c /\ loaded' = {}
  /\ IF conn = None THEN Raise("RuntimeError")      \* _require_open
     ELSE pc' = (IF c = "query" THEN "work" ELSE "load") /\ UNCHANGED error
  /\ UNCHANGED <<surroundings, connection, told>>

RefuseDirectory ==
  /\ pc = "load" /\ directory = NoDirectory
  /\ Raise("ManifestError")
  /\ UNCHANGED <<surroundings, connection, loaded, call, told, counts>>

LoadFile ==
  /\ pc = "load" /\ directory # NoDirectory
  /\ \E f \in ToLoad(directory, loaded) :
       IF LoadOne(f.doc) = "ok" THEN loaded' = loaded \cup {f} /\ UNCHANGED <<pc, error>>
       ELSE Raise(LoadOne(f.doc)) /\ UNCHANGED loaded
  /\ UNCHANGED <<surroundings, connection, call, told, counts>>

(* build_apply_order, see DependencyGraph; then the first request.         *)
OrderObjects ==
  /\ pc = "load" /\ directory # NoDirectory
  /\ ToLoad(directory, loaded) = {}
  /\ IF order = "ok" THEN pc' = "work" /\ UNCHANGED error ELSE Raise(order)
  /\ UNCHANGED <<surroundings, connection, loaded, call, told, counts>>

(* compute_plan and apply_plan, or the query.                              *)
Work ==
  /\ pc = "work"
  /\ \/ pc' = "ready" /\ UNCHANGED error
     \/ Raise("ConnectorError")
  /\ UNCHANGED <<surroundings, connection, loaded, call, told, counts>>

-----------------------------------------------------------------------------
(* __exit__ and the end of the process                                     *)

(* A command leaves its block when its call is made.                       *)
MayExit ==
  /\ depth > 0
  /\ pc \in {"ready", "raised"}
  /\ IsCommand /\ pc = "ready" => counts.calls = 1

Leave ==
  /\ depth' = depth - 1
  /\ UNCHANGED <<surroundings, pc, opened, loaded, call, error, told, counts>>

(* Faults: an exception leaves the connection open; the closed one is      *)
(* kept.                                                                   *)
ExitUnlessRaised ==
  /\ MayExit
  /\ closed' = closed \cup (IF owns /\ conn # None /\ pc = "ready" THEN {conn} ELSE {})
  /\ conn' = None
  /\ UNCHANGED owns /\ Leave

ExitKeeping ==
  /\ MayExit
  /\ closed' = closed \cup (IF owns /\ conn # None THEN {conn} ELSE {})
  /\ UNCHANGED <<conn, owns>> /\ Leave

Exit ==
  /\ MayExit
  /\ closed' = closed \cup (IF owns /\ conn # None THEN {conn} ELSE {})
  /\ conn' = None
  /\ UNCHANGED owns /\ Leave

(* A program of one's own handles an exception, inside or outside a block. *)
Catch ==
  /\ pc = "raised" /\ program = "library"
  /\ pc' = "ready" /\ error' = "none"
  /\ UNCHANGED <<surroundings, connection, loaded, call, told, counts>>

(* Fault: KeyError is not among them.                                      *)
ErrorsWithoutKeyError ==
  {"ManifestError", "DependencyError", "CredentialError", "FileNotFoundError"}

(* _CLI_KNOWN_ERRORS                                                       *)
KnownErrors ==
  {"ManifestError", "DependencyError", "CredentialError", "FileNotFoundError", "KeyError"}

(* plan and apply guard all they do.                                       *)
Told ==
  CASE error = "none" -> "done"
    [] error \in KnownErrors /\ (~Unguarded \/ LoadProfile(Default, env, file) # "ok")
         -> "error line"
    [] OTHER -> "traceback"

End ==
  /\ depth = 0
  /\ \/ IsCommand /\ pc = "raised"
     \/ IsCommand /\ pc = "ready" /\ counts.calls = 1
     \/ program = "library" /\ pc \in {"ready", "raised"}
  /\ pc' = "over" /\ told' = Told
  /\ UNCHANGED <<surroundings, connection, loaded, call, error, counts>>

(* `snowrig serve`: the extra or the token is missing; or build_app, and   *)
(* then ServeApi.                                                          *)
ServeRefused ==
  /\ program = "serve" /\ pc = "ready"
  /\ pc' = "over" /\ told' = "error line"
  /\ UNCHANGED <<surroundings, connection, loaded, call, error, counts>>

Serve ==
  /\ program = "serve" /\ pc = "ready"
  /\ pc' = "over"
  /\ error' = (IF LoadProfilesFromFile(file) = "ok" THEN "none" ELSE LoadProfilesFromFile(file))
  /\ told' = IF error' = "none" THEN "serving" ELSE "traceback"
  /\ UNCHANGED <<surroundings, connection, loaded, call, counts>>

(* `snowrig init`; the answers are the user's.                             *)
InitProfile ==
  /\ program = "init" /\ pc = "ready"
  /\ pc' = "over"
  /\ \E name \in ProfileName, passphrase \in {{}, {"given"}} :
       IF InitReads(file) # "ok"
       THEN error' = InitReads(file) /\ told' = "traceback" /\ UNCHANGED file
       ELSE /\ file' = InitFile(file, name, InitFields(passphrase))
            /\ told' = "done" /\ UNCHANGED error
  /\ UNCHANGED <<env, directory, order, program, given, connection, loaded, call, counts>>

Inside ==
  \/ ReadProfile \/ Connect \/ ConnectFails
  \/ RefuseDirectory \/ LoadFile \/ OrderObjects \/ Work

Command ==
  /\ program # "library"
  /\ \/ EnterByProfile
     \/ \E c \in {"plan", "apply", "query"} : StartCall(c)
     \/ Exit \/ End \/ ServeRefused \/ Serve \/ InitProfile

User ==
  /\ program = "library"
  /\ \/ EnterGiven \/ EnterByProfile
     \/ \E c \in {"plan", "apply", "query"} : StartCall(c)
     \/ Exit \/ Catch \/ End

Next == Inside \/ Command \/ User

Spec == Init /\ [][Next]_vars

-----------------------------------------------------------------------------
(* Properties                                                              *)

(* The type invariant.                                                     *)
TypeOK ==
  /\ env \in Environment /\ file \in ConfigFile /\ directory \in Directories
  /\ order \in Orders /\ program \in Program /\ given \in BOOLEAN
  /\ pc \in {"ready", "profile", "connect", "load", "work", "raised", "over"}
  /\ conn \in Nat \cup {None} /\ owns \in BOOLEAN
  /\ depth \in 0..counts.enters
  /\ opened \subseteq 1..counts.enters /\ closed \subseteq opened
  /\ loaded # {} => loaded \subseteq directory
  /\ call \in {"none", "plan", "apply", "query"}
  /\ (pc = "raised") => (error # "none")
  /\ told \in {"no", "done", "error line", "traceback", "serving"}
  /\ (told = "no") <=> (pc # "over")

(* Whatever raises and wherever, a connection that snowrig opened is       *)
(* closed when its block is left.  Entering a session that is open already *)
(* loses the connection it had; nothing else does.  "The session won't     *)
(* close" one that was passed in: it is the caller's.                      *)
ClosedByTheirOwner ==
  /\ 0 \notin closed
  /\ Cardinality(opened \ closed) <= counts.nested + (IF depth > 0 THEN 1 ELSE 0)

(* No call works on a connection that is closed.                           *)
WorksOnOpenConnection == pc = "work" => conn # None /\ conn \notin closed

(* plan and apply do nothing in the account unless every manifest file of  *)
(* the directory names an object and an order of all of them exists.       *)
WholeManifest ==
  pc = "work" /\ call \in {"plan", "apply"} =>
    /\ directory # NoDirectory
    /\ loaded = {f \in directory : f.suffix # "other"}
    /\ \A f \in loaded : /\ f.doc.top = "mapping" /\ f.doc.resource /\ f.doc.name
                         /\ f.doc.path_params = "mapping" /\ ~f.doc.body_name
    /\ order = "ok"

(* A connection is opened only with "exactly one" key, and one that is     *)
(* there, be it the environment's or the file's.                           *)
OneKey ==
  [][opened' # opened =>
       \E s \in Source :
         /\ Chosen(Default, env, file).sources = {s}
         /\ s = "env" => env.key_variable
         /\ s = "path" => env.key_file]_vars

(* A profile without exactly one key, with two passphrases, or with a key  *)
(* or passphrase that is not where it says.                                *)
Unusable(f) ==
  \/ Cardinality(f.sources) # 1
  \/ f.sources = {"env"} /\ ~env.key_variable
  \/ f.sources = {"path"} /\ ~env.key_file
  \/ f.passphrases = {"given", "env"}
  \/ f.passphrases = {"env"} /\ ~env.passphrase_variable

(* What tells of a bad profile: the environment's without a user or        *)
(* unusable, no file, no such profile in it, or one that is unusable.      *)
(* Left out is what ends in a traceback: a file that is not one of         *)
(* profiles, a profile with fields missing or unknown, a key that cannot   *)
(* be decoded.                                                             *)
BadProfile ==
  IF env.account
  THEN ~env.user \/ Unusable(FromEnvironment(env))
  ELSE \/ file.status = "missing"
       \/ /\ file.status = "read"
          /\ LET f == file.profiles[Default] IN
             f = NoProfile \/ (f.complete /\ Unusable(f))

(* "a bad profile/credential config exits 1 with a one-line message", and  *)
(* before anything is connected.                                           *)
BadProfileIsTold ==
  program \in {"plan", "apply"} /\ pc = "over" /\ BadProfile =>
    told = "error line" /\ opened = {}
=============================================================================
