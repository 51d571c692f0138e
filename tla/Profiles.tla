------------------------------ MODULE Profiles ------------------------------
(***************************************************************************)
(* Connection profiles: where one comes from, when it is refused, and how  *)
(* its key is found (src/snowrig/config.py, connection.py).  A value is    *)
(* abstracted to being there and non-empty; results are "ok" or the class  *)
(* of the exception.                                                       *)
(***************************************************************************)
EXTENDS Naturals, FiniteSets

CONSTANTS
  ProfileName,
  NoProfile      \* a name the file does not have

(* private_key_path, private_key_env, private_key                          *)
Source == {"path", "env", "raw"}

(* What a profile gives; complete: a mapping with account and user, and no *)
(* unknown field.                                                          *)
Fields ==
  [complete : BOOLEAN, sources : SUBSET Source, passphrases : SUBSET {"given", "env"}]

(* The SNOWRIG_* variables, the variables a profile may refer to, the key  *)
(* file and whether the key can be decoded.                                *)
Environment ==
  [account : BOOLEAN, user : BOOLEAN, sources : SUBSET Source,
   passphrases : SUBSET {"given", "env"},
   key_variable : BOOLEAN, passphrase_variable : BOOLEAN, key_file : BOOLEAN,
   key_decodes : BOOLEAN]

(* What the file is: absent, a text without a document, no YAML, a         *)
(* document that is no mapping, a mapping whose `profiles` is null, or one *)
(* that can be read.                                                       *)
ConfigFile ==
  [status : {"missing", "empty", "invalid", "not a mapping", "null profiles", "read"},
   profiles : [ProfileName -> Fields \cup {NoProfile}]]

Names(file) == {n \in ProfileName : file.profiles[n] # NoProfile}

(* Fault: a second source is ignored.                                      *)
NewProfileFirstSource(f) ==
  IF ~f.complete THEN "TypeError"
  ELSE IF f.sources = {} \/ f.passphrases = {"given", "env"} THEN "CredentialError"
  ELSE "ok"

(* The constructor and __post_init__.                                      *)
NewProfile(f) ==
  IF ~f.complete THEN "TypeError"
  ELSE IF Cardinality(f.sources) # 1 \/ f.passphrases = {"given", "env"} THEN "CredentialError"
  ELSE "ok"

FromEnvironment(env) ==
  [complete |-> TRUE, sources |-> env.sources, passphrases |-> env.passphrases]

(* load_profile: the environment alone, if SNOWRIG_ACCOUNT is set, or the  *)
(* file alone.                                                             *)
Chosen(name, env, file) ==
  IF env.account THEN FromEnvironment(env) ELSE file.profiles[name]

LoadProfile(name, env, file) ==
  IF env.account
  THEN IF env.user THEN NewProfile(FromEnvironment(env)) ELSE "KeyError"
  ELSE IF file.status = "missing" THEN "FileNotFoundError"
  ELSE IF file.status = "invalid" THEN "YAMLError"
  ELSE IF file.status \in {"empty", "not a mapping"} THEN "AttributeError"
  ELSE IF file.status = "null profiles" THEN "TypeError"
  ELSE IF file.profiles[name] = NoProfile THEN "KeyError"
  ELSE NewProfile(file.profiles[name])

(* load_profiles_from_file: all of them or none; an empty file has none.   *)
LoadProfilesFromFile(file) ==
  IF file.status = "missing" THEN "FileNotFoundError"
  ELSE IF file.status = "invalid" THEN "YAMLError"
  ELSE IF file.status \in {"not a mapping", "null profiles"} THEN "AttributeError"
  ELSE IF \E n \in Names(file) : NewProfile(file.profiles[n]) # "ok"
  THEN NewProfile(file.profiles[CHOOSE n \in Names(file) :
                                  NewProfile(file.profiles[n]) # "ok"])
  ELSE "ok"

ResolveKey(f, env) ==
  IF "raw" \in f.sources \/ (IF "env" \in f.sources THEN env.key_variable ELSE env.key_file)
  THEN "ok" ELSE "CredentialError"

ResolvePassphrase(f, env) ==
  IF "given" \in f.passphrases \/ f.passphrases = {} \/ env.passphrase_variable
  THEN "ok" ELSE "CredentialError"

(* connect, up to the connector's own request.                             *)
PrepareConnect(f, env) ==
  IF ResolveKey(f, env) # "ok" THEN ResolveKey(f, env)
  ELSE IF ResolvePassphrase(f, env) # "ok" THEN ResolvePassphrase(f, env)
  ELSE IF ~env.key_decodes THEN "ValueError"
  ELSE "ok"

(* `snowrig init`: the profile it writes, beside those that are there.     *)
InitFields(passphrase) ==
  [complete |-> TRUE, sources |-> {"path"}, passphrases |-> passphrase]

(* It takes the file as it finds it, and only an empty one for none.       *)
InitReads(file) ==
  IF file.status = "invalid" THEN "YAMLError"
  ELSE IF file.status = "not a mapping" THEN "AttributeError"
  ELSE IF file.status = "null profiles" THEN "TypeError"
  ELSE "ok"

InitFile(file, name, fields) ==
  [status |-> "read",
   profiles |-> [n \in ProfileName |-> IF n = name THEN fields ELSE file.profiles[n]]]
=============================================================================
