----------------------------- MODULE MCJournal -----------------------------
(***************************************************************************)
(* Small instances of Journal for TLC: see the cfg files.                  *)
(***************************************************************************)
EXTENDS Journal

=============================================================================
