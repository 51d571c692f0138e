----------------------------- MODULE MCSession -----------------------------
(***************************************************************************)
(* Processes that find their profile in the environment or in the file,    *)
(* right or wrong in each way, and manifests that load, or stop at the     *)
(* first or the last file.                                                 *)
(***************************************************************************)
EXTENDS Session

NoVariables ==
  [account |-> FALSE, user |-> FALSE, sources |-> {}, passphrases |-> {},
   key_variable |-> TRUE, passphrase_variable |-> TRUE, key_file |-> TRUE, key_decodes |-> TRUE]

FromCI == [NoVariables EXCEPT !.account = TRUE, !.user = TRUE, !.sources = {"raw"}]

MCEnvironments ==
  {NoVariables, FromCI,
   [NoVariables EXCEPT !.key_variable = FALSE, !.key_file = FALSE],
   [NoVariables EXCEPT !.passphrase_variable = FALSE, !.key_decodes = FALSE],
   [FromCI EXCEPT !.user = FALSE],
   [FromCI EXCEPT !.sources = {"raw", "path"}],
   [FromCI EXCEPT !.sources = {"env"}, !.key_variable = FALSE],
   [FromCI EXCEPT !.passphrases = {"env"}, !.passphrase_variable = FALSE]}

ByKey(sources) == [complete |-> TRUE, sources |-> sources, passphrases |-> {}]

Read(default, other) ==
  [status |-> "read",
   profiles |-> [n \in ProfileName |-> IF n = Default THEN default ELSE other]]

NoProfilesIn(status) ==
  [status |-> status, profiles |-> [n \in ProfileName |-> NoProfile]]

MCConfigFiles ==
  {NoProfilesIn(s) : s \in {"missing", "empty", "invalid", "not a mapping", "null profiles", "read"}} \cup
  {Read(default, ByKey({"path"})) :
     default \in {NoProfile, ByKey({"path"}), ByKey({"env"}), ByKey({"env", "path"}), ByKey({}),
                  [ByKey({"env"}) EXCEPT !.passphrases = {"env"}],
                  [ByKey({"env"}) EXCEPT !.passphrases = {"given", "env"}],
                  [ByKey({"path"}) EXCEPT !.complete = FALSE]}}

Good ==
  [parses |-> TRUE, top |-> "mapping", resource |-> TRUE, path_params |-> "mapping",
   name |-> TRUE, body_name |-> FALSE]

ManifestFile(path, suffix, doc) == [path |-> path, suffix |-> suffix, doc |-> doc]

MCDirectories ==
  {NoDirectory, {}, {ManifestFile(1, "yml", Good), ManifestFile(2, "yaml", Good),
        ManifestFile(3, "other", [Good EXCEPT !.parses = FALSE])}} \cup
  {{ManifestFile(1, "yml", Good), ManifestFile(2, "yaml", doc)} :
     doc \in {[Good EXCEPT !.parses = FALSE], [Good EXCEPT !.top = "number"],
              [Good EXCEPT !.resource = FALSE], [Good EXCEPT !.body_name = TRUE]}} \cup
  {{ManifestFile(1, "yml", [Good EXCEPT !.path_params = "other"]), ManifestFile(2, "yaml", Good)}}
=============================================================================
