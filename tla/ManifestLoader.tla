--------------------------- MODULE ManifestLoader ---------------------------
(***************************************************************************)
(* load_manifest_dir: which files of a directory are read, in which order, *)
(* and what is refused (src/snowrig/manifest/loader.py).                   *)
(***************************************************************************)
EXTENDS Naturals, FiniteSets

(* What yaml.safe_load makes of a file, as far as it is looked at.         *)
Document ==
  [parses : BOOLEAN, top : {"mapping", "nothing", "list", "number"}, resource : BOOLEAN,
   path_params : {"missing", "mapping", "other"}, name : BOOLEAN, body_name : BOOLEAN]

(* A path is its place among the sorted paths.                             *)
File == [path : Nat, suffix : {"yaml", "yml", "other"}, doc : Document]

(* Fault: a document without a resource is passed over.                    *)
LoadOneLenient(doc) ==
  IF ~doc.parses THEN "ManifestError"
  ELSE IF doc.top = "number" THEN "TypeError"
  ELSE IF doc.top # "mapping" \/ ~doc.resource THEN "ok"
  ELSE IF doc.path_params # "mapping" \/ ~doc.name \/ doc.body_name THEN "ManifestError"
  ELSE "ok"

(* _load_one: "ok" or the exception.  `in` fails on a number.              *)
LoadOne(doc) ==
  IF ~doc.parses THEN "ManifestError"
  ELSE IF doc.top = "number" THEN "TypeError"
  ELSE IF doc.top # "mapping" \/ ~doc.resource \/ doc.path_params # "mapping" \/ ~doc.name
          \/ doc.body_name
  THEN "ManifestError"
  ELSE "ok"

Manifests(files) == {f \in files : f.suffix \in {"yaml", "yml"}}

(* Every *.yaml by path, then every *.yml by path.                         *)
LoadedBefore(f, g) ==
  IF f.suffix = g.suffix THEN f.path < g.path ELSE f.suffix = "yaml"

(* The next file, if any, after the ones that are loaded.                  *)
ToLoad(files, loaded) ==
  LET left == Manifests(files) \ loaded
  IN {f \in left : \A g \in left \ {f} : LoadedBefore(f, g)}
=============================================================================
