---------------------------- MODULE SchemaVersion ----------------------------
(***************************************************************************)
(* MAJOR.MINOR versions of records, as packages/aldus-regression compares   *)
(* them (corpus.ts).  The text is left out: a version is a pair, Malformed   *)
(* anything else.                                                           *)
(***************************************************************************)
EXTENDS Integers

CONSTANTS
  Malformed,  \* what is not MAJOR.MINOR
  Supported   \* REGRESSION_SCHEMA_VERSION of this build

(* compareSchemaVersion: "newer".                                           *)
Newer(v, w) == v.major > w.major \/ (v.major = w.major /\ v.minor > w.minor)

(* declaresNewerVersion: any newer version is refused, minor included; a    *)
(* malformed one is left to the format check.                               *)
DeclaresNewer(v) == v # Malformed /\ Newer(v, Supported)
=============================================================================
