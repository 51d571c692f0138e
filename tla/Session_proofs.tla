--------------------------- MODULE Session_proofs ---------------------------
(***************************************************************************)
(* Proofs about Session, for every environment, configuration file and     *)
(* manifest directory and any number of blocks and calls: the type         *)
(* invariant, that a connection is closed by whoever opened it, that no    *)
(* call works on a closed connection or on a part of a manifest, and what  *)
(* a bad profile comes to.                                                 *)
(***************************************************************************)
EXTENDS Session, NumberSets

-----------------------------------------------------------------------------
(* The operators                                                           *)

(* Whatever a profile, a key or a file is, loading it has a result.        *)
LEMMA ProfileResults ==
  ASSUME NEW name, NEW e, NEW f
  PROVE  LoadProfile(name, e, f) \in
           {"ok", "KeyError", "CredentialError", "FileNotFoundError", "YAMLError",
            "AttributeError", "TypeError"}
  <1>1. ASSUME NEW g PROVE NewProfile(g) \in {"ok", "CredentialError", "TypeError"}
    BY DEF NewProfile
  <1>2. CASE e.account
    BY <1>1, <1>2 DEF LoadProfile
  <1>3. CASE ~e.account /\ f.profiles[name] # NoProfile
    <2>1. NewProfile(f.profiles[name]) \in {"ok", "CredentialError", "TypeError"}
      BY <1>1
    <2> QED
      BY <1>3, <2>1 DEF LoadProfile
  <1>4. CASE ~e.account /\ f.profiles[name] = NoProfile
    BY <1>4 DEF LoadProfile
  <1> QED
    BY <1>2, <1>3, <1>4

(* The same for the file that serve loads whole.                           *)
LEMMA FileResults ==
  ASSUME NEW f
  PROVE  LoadProfilesFromFile(f) \in
           {"ok", "CredentialError", "FileNotFoundError", "YAMLError", "AttributeError",
            "TypeError"}
  <1>1. ASSUME NEW g PROVE NewProfile(g) \in {"ok", "CredentialError", "TypeError"}
    BY DEF NewProfile
  <1> QED
    BY <1>1 DEF LoadProfilesFromFile

(* The same for the key.                                                   *)
LEMMA KeyResults ==
  ASSUME NEW f, NEW e
  PROVE  PrepareConnect(f, e) \in {"ok", "CredentialError", "ValueError"}
  BY DEF PrepareConnect, ResolveKey, ResolvePassphrase

(* The same for a manifest file, and what loads is what it should be.      *)
LEMMA FileLoads ==
  ASSUME NEW doc
  PROVE  /\ LoadOne(doc) \in {"ok", "ManifestError", "TypeError"}
         /\ LoadOne(doc) = "ok" => /\ doc.top = "mapping" /\ doc.resource /\ doc.name
                                   /\ doc.path_params = "mapping" /\ ~doc.body_name
  BY DEF LoadOne

(* What init writes is a configuration file.                               *)
LEMMA InitFileTyped ==
  ASSUME NEW f \in ConfigFile, NEW name \in ProfileName, NEW passphrase \in {{}, {"given"}}
  PROVE  InitFile(f, name, InitFields(passphrase)) \in ConfigFile
  <1>1. InitFields(passphrase) \in Fields
    BY DEF InitFields, Fields, Source
  <1>2. f.profiles \in [ProfileName -> Fields \cup {NoProfile}]
    BY DEF ConfigFile
  <1> QED
    BY <1>1, <1>2 DEF InitFile, ConfigFile

(* Of the files of one suffix that are left, one comes before the others.  *)
LEMMA FirstOfSuffix ==
  ASSUME NEW d \in Directories, d # NoDirectory, NEW S, S \subseteq d, S # {}, NEW suffix,
         \A f \in S : f.suffix = suffix
  PROVE  \E f \in S : \A g \in S \ {f} : LoadedBefore(f, g)
  <1>1. S \subseteq File /\ \A f, g \in S : f.path = g.path => f = g
    BY WorldAssumption
  <1>2. \A f \in S : f.path \in Nat
    BY <1>1 DEF File
  <1> DEFINE Paths == {f.path : f \in S}
  <1>3. PICK i \in Paths : \A j \in Paths : i <= j
    <2>1. Paths \subseteq Nat /\ Paths # {}
      BY <1>2
    <2> HIDE DEF Paths
    <2> QED
      BY <2>1, FirstExists
  <1>4. PICK f \in S : f.path = i
    OBVIOUS
  <1>5. ASSUME NEW g \in S \ {f} PROVE LoadedBefore(f, g)
    <2>1. f.path <= g.path /\ f.path # g.path
      BY <1>1, <1>3, <1>4
    <2>2. f.path < g.path
      BY <1>2, <2>1
    <2> QED
      BY <2>2 DEF LoadedBefore
  <1> QED
    BY <1>5

(* When no file is next, every manifest file is loaded.                    *)
LEMMA NothingIsLeft ==
  ASSUME NEW d \in Directories, d # NoDirectory, NEW files, ToLoad(d, files) = {}
  PROVE  Manifests(d) \subseteq files
  <1> DEFINE left == Manifests(d) \ files
             yaml == {f \in left : f.suffix = "yaml"}
  <1>1. left \subseteq d /\ \A f \in left : f.suffix \in {"yaml", "yml"}
    BY DEF Manifests
  <1>2. ASSUME NEW f \in left, \A g \in left \ {f} : LoadedBefore(f, g) PROVE FALSE
    BY <1>2 DEF ToLoad
  <1>3. ASSUME yaml # {} PROVE FALSE
    <2>1. PICK f \in yaml : \A g \in yaml \ {f} : LoadedBefore(f, g)
      <3>1. yaml \subseteq d /\ \A f \in yaml : f.suffix = "yaml"
        BY <1>1
      <3> HIDE DEF yaml
      <3> QED
        BY <1>3, <3>1, FirstOfSuffix
    <2>2. \A g \in left \ yaml : LoadedBefore(f, g)
      BY <1>1 DEF LoadedBefore
    <2> QED
      BY <1>2, <2>1, <2>2
  <1>4. ASSUME yaml = {}, left # {} PROVE FALSE
    <2>1. \A f \in left : f.suffix = "yml"
      BY <1>1, <1>4
    <2>2. PICK f \in left : \A g \in left \ {f} : LoadedBefore(f, g)
      <3> HIDE DEF left
      <3> QED
        BY <1>1, <1>4, <2>1, FirstOfSuffix
    <2> QED
      BY <1>2, <2>2
  <1> QED
    BY <1>3, <1>4

-----------------------------------------------------------------------------
(* The strengthened invariant                                              *)

(* The blocks and calls are counted, and a block that is being entered is  *)
(* counted before it is open and before it has a connection.               *)
CountsInv ==
  /\ counts \in [enters : Nat, calls : Nat, nested : Nat]
  /\ pc \in {"profile", "connect"} =>
       counts.enters > depth /\ opened \subseteq 1..(counts.enters - 1)

(* _conn is a connection that is open: the caller's own, or one that       *)
(* __enter__ opened, and outside of every block there is none.             *)
ConnectionInv ==
  /\ conn # None =>
       /\ conn \notin closed /\ depth > 0
       /\ IF given THEN conn = 0 ELSE owns /\ conn \in opened
  /\ given => opened = {} /\ ~owns /\ pc \notin {"profile", "connect"}
  /\ pc \in {"load", "work"} => conn # None

(* Connections that are open and that nobody holds any more: at most one   *)
(* for every block that was entered inside another.  A block that is being *)
(* entered is about to leave one behind.                                   *)
Mine == owns /\ conn # None

EnteringAnother == pc \in {"profile", "connect"} /\ depth > 0

Left == Cardinality(opened \ closed)

OpenInv ==
  /\ Left <= counts.nested + 1
  /\ ~Mine => Left <= counts.nested
  /\ EnteringAnother => Left <= counts.nested
  /\ EnteringAnother /\ ~Mine => Left + 1 <= counts.nested

(* While a call loads, what it loaded is right.                            *)
LoadInv ==
  /\ pc = "load" =>
       /\ call \in {"plan", "apply"}
       /\ \A f \in loaded : f.suffix # "other" /\ LoadOne(f.doc) = "ok"
  /\ pc = "work" /\ call \in {"plan", "apply"} =>
       /\ directory # NoDirectory /\ order = "ok"
       /\ Manifests(directory) \subseteq loaded
       /\ \A f \in loaded : f.suffix # "other" /\ LoadOne(f.doc) = "ok"

(* A profile that connects was loaded.                                     *)
ProfileInv == pc = "connect" => LoadProfile(Default, env, file) = "ok"

Inv == TypeOK /\ CountsInv /\ ConnectionInv /\ OpenInv /\ LoadInv /\ ProfileInv

-----------------------------------------------------------------------------
(* Every step keeps it                                                     *)

(* What is left open can be counted.                                       *)
LEMMA LeftIsFinite ==
  ASSUME TypeOK, CountsInv
  PROVE  /\ IsFiniteSet(opened) /\ IsFiniteSet(opened \ closed)
         /\ Left \in Nat
  <1>1. counts.enters \in Nat
    BY DEF CountsInv
  <1>2. IsFiniteSet(1..counts.enters)
    BY <1>1, FS_Interval
  <1>3. IsFiniteSet(opened) /\ opened \ closed \in SUBSET opened
    BY <1>2, FS_Subset DEF TypeOK
  <1> QED
    BY <1>3, FS_Subset, FS_CardinalityType DEF Left

(* The counters are numbers.                                               *)
LEMMA CountFields ==
  ASSUME CountsInv
  PROVE  counts.enters \in Nat /\ counts.calls \in Nat /\ counts.nested \in Nat
  BY DEF CountsInv

(* What Entered counts: the block, and whether it is inside another.       *)
LEMMA WhatIsCounted ==
  ASSUME Inv, Entered
  PROVE  /\ counts' \in [enters : Nat, calls : Nat, nested : Nat]
         /\ counts'.enters = counts.enters + 1
         /\ counts'.calls = counts.calls
         /\ depth > 0 => counts'.nested = counts.nested + 1
         /\ ~(depth > 0) => counts'.nested = counts.nested
  <1>1. counts.enters \in Nat /\ counts.calls \in Nat /\ counts.nested \in Nat
    BY CountFields DEF Inv
  <1>2. counts \in [enters : Nat, calls : Nat, nested : Nat]
    BY DEF Inv, CountsInv
  <1>3. PICK k : /\ counts' = [counts EXCEPT !.enters = @ + 1, !.nested = @ + k]
                 /\ k = IF depth > 0 THEN 1 ELSE 0
    BY DEF Entered
  <1>4. k \in Nat /\ (depth > 0 => k = 1) /\ (~(depth > 0) => k = 0)
    BY <1>3
  <1>5. /\ counts'.enters = counts.enters + 1 /\ counts'.calls = counts.calls
        /\ counts'.nested = counts.nested + k
    BY <1>2, <1>3
  <1>6. counts' \in [enters : Nat, calls : Nat, nested : Nat]
    <2>1. counts.enters + 1 \in Nat /\ counts.nested + k \in Nat
      BY <1>1, <1>4
    <2>2. counts' = [enters |-> counts.enters + 1, calls |-> counts.calls,
                     nested |-> counts.nested + k]
      BY <1>2, <1>3
    <2> QED
      BY <1>1, <2>1, <2>2
  <1>7. depth > 0 => counts'.nested = counts.nested + 1
    BY <1>4, <1>5
  <1>8. ~(depth > 0) => counts'.nested = counts.nested
    BY <1>1, <1>4, <1>5
  <1> QED
    BY <1>5, <1>6, <1>7, <1>8

(* depth is a number too.                                                  *)
LEMMA DepthIsNumber ==
  ASSUME Inv
  PROVE  depth \in Nat /\ depth <= counts.enters
  <1>1. counts.enters \in Nat
    BY CountFields DEF Inv
  <1>2. depth \in 0..counts.enters
    BY DEF Inv, TypeOK
  <1> QED
    BY <1>1, <1>2

(* It holds when the process starts.                                       *)
LEMMA InvAtStart == Init => Inv
  <1> SUFFICES ASSUME Init PROVE Inv
    OBVIOUS
  <1>1. counts.enters = 0 /\ counts.calls = 0 /\ counts.nested = 0
    BY DEF Init
  <1>2. TypeOK
    <2>1. env \in Environment /\ file \in ConfigFile /\ directory \in Directories /\ order \in Orders
      BY WorldAssumption DEF Init
    <2>2. depth \in 0..counts.enters /\ opened \subseteq 1..counts.enters /\ closed \subseteq opened
      BY <1>1 DEF Init
    <2>3. program \in Program /\ given \in BOOLEAN
      BY DEF Init
    <2>4. pc = "ready" /\ conn = None /\ owns = FALSE /\ loaded = {} /\ call = "none"
          /\ told = "no"
      BY DEF Init
    <2> QED
      BY <2>1, <2>2, <2>3, <2>4 DEF TypeOK
  <1>3. CountsInv /\ ConnectionInv /\ LoadInv /\ ProfileInv
    BY <1>1 DEF Init, CountsInv, ConnectionInv, LoadInv, ProfileInv
  <1>4. Left = 0
    BY FS_EmptySet DEF Init, Left
  <1>5. OpenInv
    BY <1>1, <1>4 DEF Init, OpenInv, EnteringAnother
  <1> QED
    BY <1>2, <1>3, <1>5 DEF Inv

(* What a step keeps that opens and closes nothing and counts no block:    *)
(* where control goes and what is loaded may change.                       *)
LEMMA NothingOpens ==
  ASSUME Inv, UNCHANGED <<connection, given>>,
         counts' \in [enters : Nat, calls : Nat, nested : Nat],
         counts'.enters = counts.enters, counts'.nested = counts.nested,
         pc' \in {"profile", "connect"} => pc \in {"profile", "connect"}
  PROVE  CountsInv' /\ OpenInv'
  BY DEF Inv, CountsInv, OpenInv, Mine, EnteringAnother, Left, connection

(* __enter__ with a connection of the caller's own.                        *)
LEMMA EnterGivenKeeps ==
  ASSUME Inv, EnterGiven
  PROVE  Inv'
  <1>1. /\ pc = "ready" /\ given /\ conn' = 0 /\ owns' = FALSE /\ depth' = depth + 1
        /\ UNCHANGED <<surroundings, pc, opened, closed, loaded, call, error, told>>
    BY DEF EnterGiven, MayEnter
  <1>2. /\ counts.enters \in Nat /\ counts.nested \in Nat
        /\ depth \in Nat /\ depth <= counts.enters
    BY CountFields, DepthIsNumber DEF Inv
  <1>3. /\ counts' \in [enters : Nat, calls : Nat, nested : Nat]
        /\ counts'.enters = counts.enters + 1
    BY WhatIsCounted DEF EnterGiven
  <1>4. counts'.enters \in Nat /\ counts'.nested \in Nat
    BY <1>3
  <1>5. opened = {} /\ closed = {}
    BY <1>1 DEF Inv, ConnectionInv, TypeOK
  <1>6. TypeOK'
    <2>1. depth' \in 0..counts'.enters /\ opened' \subseteq 1..counts'.enters
          /\ closed' \subseteq opened' /\ conn' \in Nat \cup {None} /\ owns' \in BOOLEAN
      <3>1. depth + 1 \in 0..(counts.enters + 1)
        BY <1>2
      <3> QED
        BY <1>1, <1>3, <1>5, <3>1
    <2> QED
      BY <1>1, <2>1 DEF Inv, TypeOK, surroundings
  <1>7. CountsInv' /\ LoadInv' /\ ProfileInv'
    BY <1>1, <1>3 DEF CountsInv, LoadInv, ProfileInv
  <1>9. ConnectionInv'
    <2>1. depth' > 0 /\ 0 \notin closed' /\ opened' = {} /\ ~owns' /\ given' /\ conn' = 0
      BY <1>1, <1>2, <1>5 DEF surroundings
    <2> QED
      BY <1>1, <2>1 DEF ConnectionInv
  <1>8. OpenInv'
    <2>1. Left' = 0
      BY <1>1, <1>5, FS_EmptySet DEF Left
    <2> QED
      BY <1>1, <1>3, <2>1 DEF OpenInv, EnteringAnother
  <1> QED
    BY <1>6, <1>7, <1>8, <1>9 DEF Inv

(* __enter__ with a profile's name.                                        *)
LEMMA EnterByProfileKeeps ==
  ASSUME Inv, EnterByProfile
  PROVE  Inv'
  <1>1. /\ pc = "ready" /\ ~given /\ pc' = "profile"
        /\ UNCHANGED <<surroundings, connection, loaded, call, error, told>>
    BY DEF EnterByProfile, MayEnter
  <1>2. /\ counts.enters \in Nat /\ counts.nested \in Nat
        /\ depth \in Nat /\ depth <= counts.enters
    BY CountFields, DepthIsNumber DEF Inv
  <1>3. /\ counts' \in [enters : Nat, calls : Nat, nested : Nat]
        /\ counts'.enters = counts.enters + 1
        /\ counts'.nested \in {counts.nested, counts.nested + 1}
        /\ depth > 0 => counts'.nested = counts.nested + 1
    BY WhatIsCounted DEF EnterByProfile
  <1>4. opened \subseteq 1..counts.enters
    BY DEF Inv, TypeOK
  <1>5. TypeOK'
    <2>1. opened \subseteq 1..counts'.enters /\ depth \in 0..counts'.enters
      BY <1>2, <1>3, <1>4
    <2> QED
      BY <1>1, <2>1 DEF Inv, TypeOK, surroundings, connection
  <1>6. CountsInv'
    <2>1. opened \subseteq 1..(counts'.enters - 1) /\ counts'.enters > depth
      BY <1>2, <1>3, <1>4
    <2> QED
      BY <1>1, <1>3, <2>1 DEF CountsInv, connection
  <1>7. ConnectionInv' /\ LoadInv' /\ ProfileInv'
    BY <1>1 DEF Inv, ConnectionInv, LoadInv, ProfileInv, surroundings, connection
  <1>8. OpenInv'
    <2>1. Left' = Left /\ Left \in Nat /\ counts.nested \in Nat /\ Mine' = Mine
      BY <1>1, <1>2, LeftIsFinite DEF Inv, Left, Mine, connection
    <2>2. Left <= counts.nested + 1 /\ (~Mine => Left <= counts.nested)
      BY DEF Inv, OpenInv
    <2>3. EnteringAnother' => counts'.nested = counts.nested + 1
      BY <1>1, <1>3 DEF EnteringAnother, connection
    <2> QED
      BY <1>3, <2>1, <2>2, <2>3 DEF OpenInv
  <1> QED
    BY <1>5, <1>6, <1>7, <1>8 DEF Inv

(* load_profile.                                                           *)
LEMMA ReadProfileKeeps ==
  ASSUME Inv, ReadProfile
  PROVE  Inv'
  <1> DEFINE result == LoadProfile(Default, env, file)
  <1>1. /\ pc = "profile" /\ UNCHANGED <<surroundings, connection, loaded, call, told, counts>>
        /\ \/ result = "ok" /\ pc' = "connect" /\ error' = error
           \/ result # "ok" /\ pc' = "raised" /\ error' = result
    BY DEF ReadProfile, Raise
  <1>2. result # "none"
    BY ProfileResults
  <1> HIDE DEF result
  <1>3. TypeOK'
    BY <1>1, <1>2 DEF Inv, TypeOK, surroundings, connection
  <1>4. CountsInv' /\ OpenInv'
    BY <1>1, NothingOpens DEF Inv, CountsInv, surroundings
  <1>5. ConnectionInv' /\ LoadInv'
    BY <1>1 DEF Inv, ConnectionInv, LoadInv, surroundings, connection
  <1>6. ProfileInv'
    BY <1>1 DEF ProfileInv, surroundings, result
  <1> QED
    BY <1>3, <1>4, <1>5, <1>6 DEF Inv

(* connect.                                                                *)
LEMMA ConnectKeeps ==
  ASSUME Inv, Connect
  PROVE  Inv'
  <1>1. /\ pc = "connect" /\ pc' = "ready"
        /\ conn' = counts.enters /\ owns' = TRUE /\ opened' = opened \cup {counts.enters}
        /\ depth' = depth + 1
        /\ UNCHANGED <<surroundings, closed, loaded, call, error, told, counts>>
    BY DEF Connect
  <1>2. /\ counts \in [enters : Nat, calls : Nat, nested : Nat]
        /\ counts.enters > depth /\ opened \subseteq 1..(counts.enters - 1) /\ ~given
        /\ depth \in 0..counts.enters /\ closed \subseteq opened
    BY <1>1 DEF Inv, CountsInv, ConnectionInv, TypeOK
  <1>0. counts.enters \in Nat /\ counts.nested \in Nat
    BY CountFields DEF Inv
  <1> DEFINE n == counts.enters
  <1>3. n \in Nat /\ n \notin opened /\ n \in 1..n /\ opened' \subseteq 1..n /\ n # None
    <2>1. n \in Nat /\ n >= 1 /\ n # None
      BY <1>0, <1>2, WorldAssumption
    <2>2. n \notin opened /\ n \in 1..n /\ opened \subseteq 1..n
      BY <1>2, <2>1
    <2> QED
      BY <1>1, <2>1, <2>2
  <1>4. TypeOK'
    <2>1. depth' \in 0..n
      BY <1>0, <1>1, <1>2
    <2> QED
      BY <1>1, <1>2, <1>3, <2>1 DEF Inv, TypeOK, surroundings
  <1>5. CountsInv' /\ LoadInv' /\ ProfileInv'
    BY <1>1, <1>2 DEF CountsInv, LoadInv, ProfileInv
  <1>6. ConnectionInv'
    BY <1>1, <1>2, <1>3 DEF ConnectionInv, surroundings
  <1>7. OpenInv'
    <2>1. opened' \ closed' = (opened \ closed) \cup {n} /\ n \notin opened \ closed
      BY <1>1, <1>2, <1>3
    <2>2. Left' = Left + 1 /\ Left \in Nat
      BY <2>1, LeftIsFinite, FS_AddElement DEF Left, Inv
    <2>3. Left <= counts.nested
      <3>1. CASE depth > 0
        BY <1>1, <3>1 DEF Inv, OpenInv, EnteringAnother
      <3>2. CASE ~(depth > 0)
        BY <1>1, <3>2 DEF Inv, OpenInv, Mine, ConnectionInv
      <3> QED
        BY <3>1, <3>2
    <2>4. Mine' /\ ~EnteringAnother' /\ counts' = counts /\ counts.nested \in Nat
      BY <1>1, <1>2, <1>3 DEF Mine, EnteringAnother
    <2> QED
      BY <2>2, <2>3, <2>4 DEF OpenInv
  <1> QED
    BY <1>4, <1>5, <1>6, <1>7 DEF Inv

(* What the steps have in common that only pass control on: the account,   *)
(* the connection and the counts stay, and nobody enters a block.          *)
PassesOn ==
  /\ UNCHANGED <<surroundings, connection, counts>>
  /\ pc' \in {"ready", "load", "work", "raised", "over"}
  /\ pc' = "raised" => error' # "none"
  /\ pc' \in {"load", "work"} => conn # None
  /\ call' \in {"none", "plan", "apply", "query"}
  /\ loaded' # {} => loaded' \subseteq directory
  /\ told' \in {"no", "done", "error line", "traceback", "serving"}
  /\ told' = "no" <=> pc' # "over"

(* Such a step keeps everything but the fate of the manifest.              *)
LEMMA PassingOnKeeps ==
  ASSUME Inv, PassesOn
  PROVE  TypeOK' /\ CountsInv' /\ ConnectionInv' /\ OpenInv' /\ ProfileInv'
  <1>1. UNCHANGED <<surroundings, connection, counts>>
    BY DEF PassesOn
  <1>2. TypeOK'
    BY DEF Inv, TypeOK, PassesOn, surroundings, connection
  <1>3. CountsInv' /\ OpenInv'
    <2>1. counts' \in [enters : Nat, calls : Nat, nested : Nat]
      BY <1>1 DEF Inv, CountsInv
    <2> QED
      BY <1>1, <2>1, NothingOpens DEF PassesOn, surroundings
  <1>4. ConnectionInv'
    BY DEF Inv, ConnectionInv, PassesOn, surroundings, connection
  <1>5. ProfileInv'
    BY DEF ProfileInv, PassesOn
  <1> QED
    BY <1>2, <1>3, <1>4, <1>5

(* connect raises.                                                         *)
LEMMA ConnectFailsKeeps ==
  ASSUME Inv, ConnectFails
  PROVE  Inv'
  <1> DEFINE result == PrepareConnect(Chosen(Default, env, file), env)
  <1>1. /\ pc' = "raised" /\ error' = (IF result = "ok" THEN "ConnectorError" ELSE result)
        /\ UNCHANGED <<surroundings, connection, loaded, call, told, counts>>
        /\ pc = "connect"
    BY DEF ConnectFails, Raise
  <1>2. error' # "none"
    BY <1>1, KeyResults
  <1>3. PassesOn
    BY <1>1, <1>2 DEF PassesOn, Inv, TypeOK, surroundings
  <1>4. LoadInv'
    BY <1>1 DEF LoadInv
  <1> QED
    BY <1>3, <1>4, PassingOnKeeps DEF Inv

(* A call begins, or is refused for want of a connection.                  *)
LEMMA StartCallKeeps ==
  ASSUME Inv, NEW c \in {"plan", "apply", "query"}, StartCall(c)
  PROVE  Inv'
  <1>1. /\ pc = "ready" /\ call' = c /\ loaded' = {}
        /\ UNCHANGED <<surroundings, connection, told>>
        /\ counts' = [counts EXCEPT !.calls = @ + 1]
        /\ \/ conn = None /\ pc' = "raised" /\ error' = "RuntimeError"
           \/ conn # None /\ pc' = (IF c = "query" THEN "work" ELSE "load") /\ error' = error
    BY DEF StartCall, MayCall, Raise
  <1>2. /\ counts' \in [enters : Nat, calls : Nat, nested : Nat]
        /\ counts'.enters = counts.enters /\ counts'.nested = counts.nested
    <2>1. counts \in [enters : Nat, calls : Nat, nested : Nat] /\ counts.calls \in Nat
      BY CountFields DEF Inv, CountsInv
    <2>2. counts.calls + 1 \in Nat
      BY <2>1
    <2> QED
      BY <1>1, <2>1, <2>2
  <1>3. CountsInv' /\ OpenInv'
    BY <1>1, <1>2, NothingOpens DEF surroundings
  <1>4. TypeOK'
    BY <1>1, <1>2 DEF Inv, TypeOK, surroundings, connection
  <1>5. ConnectionInv' /\ ProfileInv'
    BY <1>1 DEF Inv, ConnectionInv, ProfileInv, surroundings, connection
  <1>6. LoadInv'
    BY <1>1 DEF LoadInv
  <1> QED
    BY <1>3, <1>4, <1>5, <1>6 DEF Inv

(* The directory is none.                                                  *)
LEMMA RefuseDirectoryKeeps ==
  ASSUME Inv, RefuseDirectory
  PROVE  Inv'
  <1>1. /\ pc = "load" /\ pc' = "raised" /\ error' = "ManifestError"
        /\ UNCHANGED <<surroundings, connection, loaded, call, told, counts>>
    BY DEF RefuseDirectory, Raise
  <1>2. PassesOn
    BY <1>1 DEF PassesOn, Inv, TypeOK, surroundings
  <1>3. LoadInv'
    BY <1>1 DEF LoadInv
  <1> QED
    BY <1>2, <1>3, PassingOnKeeps DEF Inv

(* One more manifest file.                                                 *)
LEMMA LoadFileKeeps ==
  ASSUME Inv, LoadFile
  PROVE  Inv'
  <1>1. /\ pc = "load" /\ UNCHANGED <<surroundings, connection, call, told, counts>>
        /\ conn # None
    BY DEF LoadFile, Inv, ConnectionInv
  <1>2. PICK f \in ToLoad(directory, loaded) :
          IF LoadOne(f.doc) = "ok" THEN loaded' = loaded \cup {f} /\ UNCHANGED <<pc, error>>
          ELSE Raise(LoadOne(f.doc)) /\ UNCHANGED loaded
    BY DEF LoadFile
  <1>3. f \in directory /\ f.suffix # "other"
    BY <1>2 DEF ToLoad, Manifests
  <1>4. CASE LoadOne(f.doc) = "ok"
    <2>1. loaded' = loaded \cup {f} /\ UNCHANGED <<pc, error>>
      BY <1>2, <1>4
    <2>2. PassesOn
      BY <1>1, <1>3, <2>1 DEF PassesOn, Inv, TypeOK, surroundings
    <2>3. LoadInv'
      BY <1>1, <1>3, <1>4, <2>1 DEF LoadInv, Inv
    <2> QED
      BY <2>2, <2>3, PassingOnKeeps DEF Inv
  <1>5. CASE LoadOne(f.doc) # "ok"
    <2>1. pc' = "raised" /\ error' = LoadOne(f.doc) /\ UNCHANGED loaded
      BY <1>2, <1>5 DEF Raise
    <2>2. error' # "none"
      BY <2>1, FileLoads
    <2>3. PassesOn
      BY <1>1, <2>1, <2>2 DEF PassesOn, Inv, TypeOK, surroundings
    <2>4. LoadInv'
      BY <2>1 DEF LoadInv
    <2> QED
      BY <2>3, <2>4, PassingOnKeeps DEF Inv
  <1> QED
    BY <1>4, <1>5

(* All files are loaded: the order, and the account is next.               *)
LEMMA OrderObjectsKeeps ==
  ASSUME Inv, OrderObjects
  PROVE  Inv'
  <1>1. /\ pc = "load" /\ UNCHANGED <<surroundings, connection, loaded, call, told, counts>>
        /\ conn # None /\ directory # NoDirectory /\ ToLoad(directory, loaded) = {}
        /\ \/ order = "ok" /\ pc' = "work" /\ UNCHANGED error
           \/ order # "ok" /\ pc' = "raised" /\ error' = order
    BY DEF OrderObjects, Inv, ConnectionInv, Raise
  <1>2. order # "none" /\ directory \in Directories
    BY WorldAssumption DEF Inv, TypeOK
  <1>3. PassesOn
    BY <1>1, <1>2 DEF PassesOn, Inv, TypeOK, surroundings
  <1>4. Manifests(directory) \subseteq loaded
    BY <1>1, <1>2, NothingIsLeft
  <1>5. LoadInv'
    BY <1>1, <1>4 DEF LoadInv, Inv, surroundings, Manifests
  <1> QED
    BY <1>3, <1>5, PassingOnKeeps DEF Inv

(* The work is done, or the connector raises.                              *)
LEMMA WorkKeeps ==
  ASSUME Inv, Work
  PROVE  Inv'
  <1>1. /\ pc = "work" /\ UNCHANGED <<surroundings, connection, loaded, call, told, counts>>
        /\ \/ pc' = "ready" /\ UNCHANGED error
           \/ pc' = "raised" /\ error' = "ConnectorError"
    BY DEF Work, Raise
  <1>2. PassesOn
    BY <1>1 DEF PassesOn, Inv, TypeOK, surroundings
  <1>3. LoadInv'
    BY <1>1 DEF LoadInv
  <1> QED
    BY <1>2, <1>3, PassingOnKeeps DEF Inv

(* __exit__: what is ours is closed, and what is not is let go of.         *)
LEMMA ExitKeeps ==
  ASSUME Inv, Exit
  PROVE  Inv'
  <1>1. /\ depth > 0 /\ pc \in {"ready", "raised"} /\ conn' = None /\ UNCHANGED owns
        /\ closed' = closed \cup (IF owns /\ conn # None THEN {conn} ELSE {})
        /\ depth' = depth - 1
        /\ UNCHANGED <<surroundings, pc, opened, loaded, call, error, told, counts>>
    BY DEF Exit, MayExit, Leave
  <1>2. /\ depth \in Nat /\ depth <= counts.enters
        /\ counts.enters \in Nat /\ counts.nested \in Nat /\ Left \in Nat
    BY DepthIsNumber, CountFields, LeftIsFinite DEF Inv
  <1>3. closed \subseteq opened /\ (Mine => conn \in opened /\ conn \notin closed)
    BY DEF Inv, TypeOK, ConnectionInv, Mine
  <1>4. TypeOK'
    <2>1. depth' \in 0..counts.enters /\ closed' \subseteq opened
      BY <1>1, <1>2, <1>3 DEF Mine
    <2> QED
      BY <1>1, <2>1 DEF Inv, TypeOK, surroundings
  <1>5. CountsInv' /\ LoadInv' /\ ProfileInv'
    BY <1>1 DEF Inv, CountsInv, LoadInv, ProfileInv
  <1>6. ConnectionInv'
    BY <1>1 DEF Inv, ConnectionInv, surroundings
  <1>7. Left' <= counts.nested
    <2>1. CASE Mine
      <3>1. opened' \ closed' = (opened \ closed) \ {conn} /\ conn \in opened \ closed
        BY <1>1, <1>3, <2>1 DEF Mine
      <3>2. Left' = Left - 1
        BY <3>1, LeftIsFinite, FS_RemoveElement DEF Left, Inv
      <3>3. Left <= counts.nested + 1
        BY DEF Inv, OpenInv
      <3> QED
        BY <1>2, <3>2, <3>3
    <2>2. CASE ~Mine
      BY <1>1, <2>2 DEF Inv, OpenInv, Left, Mine
    <2> QED
      BY <2>1, <2>2
  <1>8. OpenInv'
    <2>1. Left' \in Nat
      <3>1. opened' \ closed' \in SUBSET opened /\ IsFiniteSet(opened)
        BY <1>1, LeftIsFinite DEF Inv
      <3> QED
        BY <3>1, FS_Subset, FS_CardinalityType DEF Left
    <2>2. counts' = counts /\ ~EnteringAnother'
      BY <1>1 DEF EnteringAnother
    <2> QED
      BY <1>2, <1>7, <2>1, <2>2 DEF OpenInv
  <1> QED
    BY <1>4, <1>5, <1>6, <1>8 DEF Inv

(* An exception is handled, or the process ends.                           *)
LEMMA EndsKeep ==
  ASSUME Inv, Catch \/ End \/ ServeRefused \/ Serve
  PROVE  Inv'
  <1>1. /\ UNCHANGED <<surroundings, connection, loaded, call, counts>>
        /\ pc' \in {"ready", "over"} /\ LoadInv'
    BY DEF Catch, End, ServeRefused, Serve, LoadInv
  <1>2. /\ told' \in {"no", "done", "error line", "traceback", "serving"}
        /\ told' = "no" <=> pc' # "over"
    <2>1. CASE Catch
      BY <2>1 DEF Catch, Inv, TypeOK
    <2>2. CASE End
      <3>1. Told \in {"done", "error line", "traceback"}
        BY DEF Told
      <3> QED
        BY <2>2, <3>1 DEF End
    <2>3. CASE ServeRefused \/ Serve
      BY <2>3 DEF ServeRefused, Serve
    <2> QED
      BY <2>1, <2>2, <2>3
  <1>3. PassesOn
    BY <1>1, <1>2 DEF PassesOn, Inv, TypeOK, surroundings
  <1> QED
    BY <1>1, <1>3, PassingOnKeeps DEF Inv

(* `snowrig init`.                                                         *)
LEMMA InitProfileKeeps ==
  ASSUME Inv, InitProfile
  PROVE  Inv'
  <1>1. /\ pc = "ready" /\ pc' = "over" /\ told' \in {"traceback", "done"}
        /\ UNCHANGED <<env, directory, order, program, given, connection, loaded, call, counts>>
    BY DEF InitProfile
  <1>2. file' \in ConfigFile
    BY InitFileTyped DEF InitProfile, Inv, TypeOK
  <1>3. TypeOK'
    BY <1>1, <1>2 DEF Inv, TypeOK, connection
  <1>4. CountsInv' /\ OpenInv'
    BY <1>1 DEF Inv, CountsInv, OpenInv, Mine, EnteringAnother, Left, connection
  <1>5. ConnectionInv' /\ LoadInv' /\ ProfileInv'
    BY <1>1 DEF Inv, ConnectionInv, LoadInv, ProfileInv, connection
  <1> QED
    BY <1>3, <1>4, <1>5 DEF Inv

(* Every step keeps it.                                                    *)
LEMMA InvKept ==
  ASSUME Inv, [Next]_vars
  PROVE  Inv'
  <1>1. CASE UNCHANGED vars
    <2>1. UNCHANGED <<surroundings, connection, pc, loaded, call, error, told, counts>>
      BY <1>1 DEF vars
    <2>2. TypeOK'
      BY <2>1 DEF Inv, TypeOK, surroundings, connection
    <2>3. CountsInv' /\ ConnectionInv' /\ OpenInv' /\ LoadInv' /\ ProfileInv'
      BY <2>1 DEF Inv, CountsInv, ConnectionInv, OpenInv, Mine, EnteringAnother, Left, LoadInv,
                  ProfileInv, surroundings, connection
    <2> QED
      BY <2>2, <2>3 DEF Inv
  <1>2. CASE Inside
    BY <1>2, ReadProfileKeeps, ConnectKeeps, ConnectFailsKeeps, RefuseDirectoryKeeps,
       LoadFileKeeps, OrderObjectsKeeps, WorkKeeps DEF Inside
  <1>3. CASE Command
    BY <1>3, EnterByProfileKeeps, StartCallKeeps, ExitKeeps, EndsKeep, InitProfileKeeps
       DEF Command
  <1>4. CASE User
    BY <1>4, EnterGivenKeeps, EnterByProfileKeeps, StartCallKeeps, ExitKeeps, EndsKeep DEF User
  <1> QED
    BY <1>1, <1>2, <1>3, <1>4 DEF Next

(* So it always holds.                                                     *)
LEMMA InvHolds == Spec => []Inv
  <1>1. Init => Inv
    BY InvAtStart
  <1>2. Inv /\ [Next]_vars => Inv'
    BY InvKept
  <1> QED
    BY <1>1, <1>2, PTL DEF Spec

-----------------------------------------------------------------------------
(* What it says                                                            *)

(* The type invariant.                                                     *)
THEOREM TypeCorrect == Spec => []TypeOK
  <1>1. Inv => TypeOK
    BY DEF Inv
  <1> QED
    BY <1>1, InvHolds, PTL

(* Whatever raises and wherever, a connection that snowrig opened is       *)
(* closed when its block is left, and one that was passed in is not.       *)
THEOREM OwnersClose == Spec => []ClosedByTheirOwner
  <1>1. ASSUME Inv PROVE ClosedByTheirOwner
    <2>1. 0 \notin closed
      <3>1. counts.enters \in Nat
        BY <1>1, CountFields DEF Inv
      <3>2. closed \subseteq 1..counts.enters
        BY <1>1 DEF Inv, TypeOK
      <3> QED
        BY <3>1, <3>2
    <2>2. Left \in Nat /\ counts.nested \in Nat
      BY <1>1, LeftIsFinite, CountFields DEF Inv
    <2>3. CASE depth > 0
      <3>1. Left <= counts.nested + 1
        BY <1>1 DEF Inv, OpenInv
      <3> QED
        BY <2>1, <2>3, <3>1 DEF ClosedByTheirOwner, Left
    <2>4. CASE ~(depth > 0)
      <3>1. Left <= counts.nested
        BY <1>1, <2>4 DEF Inv, OpenInv, Mine, ConnectionInv
      <3>2. Left <= counts.nested + 0
        BY <2>2, <3>1
      <3> QED
        BY <2>1, <2>4, <3>2 DEF ClosedByTheirOwner, Left
    <2> QED
      BY <2>3, <2>4
  <1> QED
    BY <1>1, InvHolds, PTL

(* No call works on a connection that is closed, or on none.               *)
THEOREM WorksOnOpen == Spec => []WorksOnOpenConnection
  <1>1. Inv => WorksOnOpenConnection
    BY DEF Inv, ConnectionInv, WorksOnOpenConnection
  <1> QED
    BY <1>1, InvHolds, PTL

(* plan and apply do nothing in the account unless every manifest file of  *)
(* the directory names an object, however many files there are, and an     *)
(* order of all of them exists.                                            *)
THEOREM ManifestIsWhole == Spec => []WholeManifest
  <1>1. ASSUME Inv PROVE WholeManifest
    <2> SUFFICES ASSUME pc = "work", call \in {"plan", "apply"}
                 PROVE  /\ directory # NoDirectory
                        /\ loaded = {f \in directory : f.suffix # "other"}
                        /\ \A f \in loaded :
                             /\ f.doc.top = "mapping" /\ f.doc.resource /\ f.doc.name
                             /\ f.doc.path_params = "mapping" /\ ~f.doc.body_name
                        /\ order = "ok"
      BY DEF WholeManifest
    <2>1. /\ directory # NoDirectory /\ order = "ok" /\ Manifests(directory) \subseteq loaded
          /\ \A f \in loaded : f.suffix # "other" /\ LoadOne(f.doc) = "ok"
      BY <1>1 DEF Inv, LoadInv
    <2>2. loaded \subseteq directory
      BY <1>1 DEF Inv, TypeOK
    <2>3. \A f \in directory : f.suffix \in {"yaml", "yml", "other"}
      BY <1>1, <2>1, WorldAssumption DEF Inv, TypeOK, File
    <2>4. loaded = {f \in directory : f.suffix # "other"}
      BY <2>1, <2>2, <2>3 DEF Manifests
    <2> QED
      BY <2>1, <2>4, FileLoads
  <1> QED
    BY <1>1, InvHolds, PTL

-----------------------------------------------------------------------------
(* Profiles                                                                *)

(* A profile that connect can use has exactly one key, and it is there.    *)
LEMMA UsableProfile ==
  ASSUME Inv, pc = "connect", PrepareConnect(Chosen(Default, env, file), env) = "ok"
  PROVE  \E s \in Source :
           /\ Chosen(Default, env, file).sources = {s}
           /\ s = "env" => env.key_variable
           /\ s = "path" => env.key_file
  <1> DEFINE f == Chosen(Default, env, file)
  <1>1. LoadProfile(Default, env, file) = "ok"
    BY DEF Inv, ProfileInv
  <1>2. NewProfile(f) = "ok"
    BY <1>1 DEF LoadProfile, Chosen
  <1>3. Cardinality(f.sources) = 1
    BY <1>2 DEF NewProfile
  <1>4. f.sources \subseteq Source
    <2>1. env.sources \subseteq Source
      BY DEF Inv, TypeOK, Environment
    <2>2. CASE env.account
      BY <2>1, <2>2 DEF Chosen, FromEnvironment
    <2>3. CASE ~env.account
      <3>1. file.profiles[Default] # NoProfile
        BY <1>1, <2>3 DEF LoadProfile
      <3>2. file.profiles[Default] \in Fields
        BY <3>1, WorldAssumption DEF Inv, TypeOK, ConfigFile
      <3> QED
        BY <2>3, <3>2 DEF Chosen, Fields
    <2> QED
      BY <2>2, <2>3
  <1>5. IsFiniteSet(f.sources)
    <2>1. IsFiniteSet({"path"} \cup {"env"} \cup {"raw"})
      BY FS_Singleton, FS_AddElement
    <2>2. Source = {"path"} \cup {"env"} \cup {"raw"}
      BY DEF Source
    <2> QED
      BY <1>4, <2>1, <2>2, FS_Subset
  <1> HIDE DEF f
  <1>6. PICK s : f.sources = {s}
    BY <1>3, <1>5, FS_Singleton
  <1>7. s \in Source
    BY <1>4, <1>6
  <1>8. ResolveKey(f, env) = "ok"
    BY DEF PrepareConnect, f
  <1>9. (s = "env" => env.key_variable) /\ (s = "path" => env.key_file)
    BY <1>6, <1>8 DEF ResolveKey
  <1> QED
    BY <1>6, <1>7, <1>9 DEF f

(* A connection is opened only with exactly one key, and one that is       *)
(* there, be it the environment's or the file's.                           *)
THEOREM ExactlyOneKey == Spec => OneKey
  <1> DEFINE Step ==
        opened' # opened =>
          \E s \in Source :
            /\ Chosen(Default, env, file).sources = {s}
            /\ s = "env" => env.key_variable
            /\ s = "path" => env.key_file
  <1>1. Inv /\ [Next]_vars => [Step]_vars
    <2> SUFFICES ASSUME Inv, Next, opened' # opened
                 PROVE  \E s \in Source :
                          /\ Chosen(Default, env, file).sources = {s}
                          /\ s = "env" => env.key_variable
                          /\ s = "path" => env.key_file
      OBVIOUS
    <2>1. Connect
      <3>1. Inside => Connect
        BY DEF Inside, ReadProfile, ConnectFails, RefuseDirectory, LoadFile, OrderObjects, Work,
               connection
      <3>2. ~Command /\ ~User
        BY DEF Command, User, EnterByProfile, EnterGiven, StartCall, Exit, Leave, End,
               ServeRefused, Serve, InitProfile, Catch, connection
      <3> QED
        BY <3>1, <3>2 DEF Next
    <2> QED
      BY <2>1, UsableProfile DEF Connect
  <1> QED
    BY <1>1, InvHolds, PTL DEF Spec, OneKey

(* A command with a bad profile gets no further than the profile.          *)
BadProfileInv ==
  program \in {"plan", "apply"} /\ BadProfile =>
    /\ opened = {} /\ depth = 0 /\ counts.calls = 0
    /\ pc \in {"ready", "profile", "connect", "raised", "over"}
    /\ pc = "ready" => error = "none"
    /\ pc = "raised" => error \in {"FileNotFoundError", "KeyError", "CredentialError"}
    /\ pc = "over" => told = "error line"

(* Fields that cannot be used are refused by the constructor or by connect.*)
LEMMA UnusableFails ==
  ASSUME NEW f, f.complete, Unusable(f)
  PROVE  \/ NewProfile(f) = "CredentialError"
         \/ NewProfile(f) = "ok" /\ PrepareConnect(f, env) = "CredentialError"
  <1>1. NewProfile(f) = IF Cardinality(f.sources) # 1 \/ f.passphrases = {"given", "env"}
                        THEN "CredentialError" ELSE "ok"
    BY DEF NewProfile
  <1>2. ASSUME f.sources = {"env"} /\ ~env.key_variable
        PROVE  ResolveKey(f, env) = "CredentialError"
    <2>1. "raw" \notin f.sources /\ "env" \in f.sources
      BY <1>2
    <2> QED
      BY <1>2, <2>1 DEF ResolveKey
  <1>3. ASSUME f.sources = {"path"} /\ ~env.key_file
        PROVE  ResolveKey(f, env) = "CredentialError"
    <2>1. "raw" \notin f.sources /\ "env" \notin f.sources
      BY <1>3
    <2> QED
      BY <1>3, <2>1 DEF ResolveKey
  <1>4. ASSUME f.passphrases = {"env"} /\ ~env.passphrase_variable
        PROVE  ResolvePassphrase(f, env) = "CredentialError"
    <2>1. "given" \notin f.passphrases /\ f.passphrases # {}
      BY <1>4
    <2> QED
      BY <1>4, <2>1 DEF ResolvePassphrase
  <1>5. /\ ResolveKey(f, env) \in {"ok", "CredentialError"}
        /\ ResolvePassphrase(f, env) \in {"ok", "CredentialError"}
    BY DEF ResolveKey, ResolvePassphrase
  <1>6. \/ ResolveKey(f, env) = "CredentialError" \/ ResolvePassphrase(f, env) = "CredentialError"
        => PrepareConnect(f, env) = "CredentialError"
    BY <1>5 DEF PrepareConnect
  <1> QED
    BY <1>1, <1>2, <1>3, <1>4, <1>6 DEF Unusable

(* A bad profile is refused when it is loaded, or for its key.             *)
LEMMA BadProfileFails ==
  ASSUME BadProfile
  PROVE  /\ LoadProfile(Default, env, file) \in
              {"ok", "FileNotFoundError", "KeyError", "CredentialError"}
         /\ LoadProfile(Default, env, file) = "ok" =>
              PrepareConnect(Chosen(Default, env, file), env) = "CredentialError"
  <1> DEFINE f == Chosen(Default, env, file)
  <1>1. CASE ~env.account /\ file.status = "missing"
    BY <1>1 DEF LoadProfile
  <1>2. CASE env.account /\ ~env.user
    BY <1>2 DEF LoadProfile
  <1>3. CASE ~env.account /\ file.status = "read" /\ f = NoProfile
    BY <1>3 DEF LoadProfile, Chosen
  <1>4. CASE LoadProfile(Default, env, file) = NewProfile(f) /\ f.complete /\ Unusable(f)
    BY <1>4, UnusableFails
  <1>5. FromEnvironment(env).complete
    BY DEF FromEnvironment
  <1>6. CASE env.account /\ env.user
    BY <1>4, <1>5, <1>6 DEF BadProfile, LoadProfile, Chosen
  <1>7. CASE ~env.account /\ file.status = "read" /\ f # NoProfile
    BY <1>4, <1>7 DEF BadProfile, LoadProfile, Chosen
  <1> QED
    BY <1>1, <1>2, <1>3, <1>6, <1>7 DEF BadProfile

(* Every step of a command keeps it there.                                 *)
LEMMA BadProfileKept ==
  ASSUME Inv, BadProfileInv, [Next]_vars
  PROVE  BadProfileInv'
  <1> SUFFICES ASSUME program' \in {"plan", "apply"}, BadProfile'
               PROVE  /\ opened' = {} /\ depth' = 0 /\ counts'.calls = 0
                      /\ pc' \in {"ready", "profile", "connect", "raised", "over"}
                      /\ pc' = "ready" => error' = "none"
                      /\ pc' = "raised" =>
                           error' \in {"FileNotFoundError", "KeyError", "CredentialError"}
                      /\ pc' = "over" => told' = "error line"
    BY DEF BadProfileInv
  <1>1. program' = program
    BY DEF Next, Inside, Command, User, ReadProfile, Connect, ConnectFails, RefuseDirectory,
           LoadFile, OrderObjects, Work, EnterGiven, EnterByProfile, StartCall, Exit, Leave, End,
           Catch, ServeRefused, Serve, InitProfile, surroundings, vars
  <1>2. ~User /\ ~ServeRefused /\ ~Serve /\ ~InitProfile
    BY <1>1 DEF User, ServeRefused, Serve, InitProfile
  <1>3. UNCHANGED <<env, file>>
    BY <1>2 DEF Next, Inside, Command, ReadProfile, Connect, ConnectFails, RefuseDirectory,
           LoadFile, OrderObjects, Work, EnterByProfile, StartCall, Exit, Leave, End,
           surroundings, vars
  <1>4. BadProfile
    BY <1>3 DEF BadProfile, Unusable
  <1>5. /\ opened = {} /\ depth = 0 /\ counts.calls = 0
        /\ pc \in {"ready", "profile", "connect", "raised", "over"}
        /\ pc = "ready" => error = "none"
        /\ pc = "raised" => error \in {"FileNotFoundError", "KeyError", "CredentialError"}
        /\ pc = "over" => told = "error line"
    BY <1>1, <1>4 DEF BadProfileInv
  <1>13. program # "library" /\ ~(depth > 0) /\ depth # 1 /\ counts.calls # 1
    <2>1. program # "library"
      BY <1>1
    <2>2. depth = 0 /\ counts.calls = 0
      BY <1>5
    <2>3. ~(depth > 0) /\ depth # 1
      BY <2>2
    <2>4. counts.calls # 1
      BY <2>2
    <2> QED
      BY <2>1, <2>3, <2>4
  <1>6. CASE UNCHANGED vars
    BY <1>5, <1>6 DEF vars, connection
  <1>7. CASE EnterByProfile
    <2>1. /\ UNCHANGED connection /\ pc' = "profile"
          /\ counts'.calls = counts.calls
      BY <1>7, WhatIsCounted DEF EnterByProfile
    <2> QED
      BY <1>5, <2>1 DEF connection
  <1>8. CASE ReadProfile
    <2>1. /\ UNCHANGED <<connection, counts>>
          /\ \/ pc' = "connect"
             \/ /\ pc' = "raised" /\ error' = LoadProfile(Default, env, file)
                /\ LoadProfile(Default, env, file) # "ok"
      BY <1>8 DEF ReadProfile, Raise
    <2> QED
      BY <1>4, <1>5, <2>1, BadProfileFails DEF connection
  <1>9. CASE Connect \/ ConnectFails
    <2>1. PrepareConnect(Chosen(Default, env, file), env) = "CredentialError"
      BY <1>4, <1>9, BadProfileFails DEF Connect, ConnectFails, Inv, ProfileInv
    <2>2. ConnectFails
      BY <1>9, <2>1 DEF Connect
    <2>3. UNCHANGED <<connection, counts>> /\ pc' = "raised" /\ error' = "CredentialError"
      BY <2>1, <2>2 DEF ConnectFails, Raise
    <2> QED
      BY <1>5, <2>3 DEF connection
  <1>10. CASE RefuseDirectory \/ LoadFile \/ OrderObjects \/ Work
    BY <1>5, <1>10 DEF RefuseDirectory, LoadFile, OrderObjects, Work
  <1>11. ~Exit /\ \A c \in {"plan", "apply", "query"} : ~StartCall(c)
    BY <1>13 DEF Exit, MayExit, StartCall, MayCall
  <1>12. CASE End
    <2>1. pc = "raised" /\ error # "none"
      BY <1>5, <1>12, <1>13 DEF End
    <2>2. Told = "error line"
      BY <1>1, <1>5, <2>1 DEF Told, KnownErrors, Unguarded
    <2>3. UNCHANGED <<connection, counts>> /\ pc' = "over" /\ told' = Told
      BY <1>12 DEF End
    <2> QED
      BY <1>5, <2>2, <2>3 DEF connection
  <1> QED
    BY <1>2, <1>6, <1>7, <1>8, <1>9, <1>10, <1>11, <1>12 DEF Next, Inside, Command

(* "a bad profile/credential config exits 1 with a one-line message", and  *)
(* before anything is connected, whether it is the environment's or the    *)
(* file's.                                                                 *)
THEOREM BadProfilesAreTold == Spec => []BadProfileIsTold
  <1>1. Init => BadProfileInv
    BY DEF Init, BadProfileInv
  <1>2. Inv /\ BadProfileInv /\ [Next]_vars => BadProfileInv'
    BY BadProfileKept
  <1>3. BadProfileInv => BadProfileIsTold
    BY DEF BadProfileInv, BadProfileIsTold
  <1> QED
    BY <1>1, <1>2, <1>3, InvHolds, PTL DEF Spec
=============================================================================
