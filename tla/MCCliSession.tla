---------------------------- MODULE MCCliSession ----------------------------
(***************************************************************************)
(* Small instances of CliSession: two files, one of them below a skipped    *)
(* directory, and contents of which "bin" is not text.                      *)
(***************************************************************************)
EXTENDS CliSession

MCLossy(c) == IF c = "bin" THEN "lossy" ELSE c
MCContent == {"old", "bin", "lossy"}

\* The files do not interact, so they are all there or none is.
Workspaces == {[f \in Files |-> c] : c \in {"old", None}}
=============================================================================
