--------------------------- MODULE MCBenchJournal ---------------------------
(***************************************************************************)
(* A journal of a few events and one follower.                             *)
(***************************************************************************)
EXTENDS BenchJournal
=============================================================================
