----------------------------- MODULE MCConsole -----------------------------
(***************************************************************************)
(* Console with two sessions of one owner, two of the five fields, and two *)
(* writes: what one session does while, or after, the other does the same. *)
(***************************************************************************)
EXTENDS Console, TLC

MCFields == {"greeting", "origins"}
Symmetry == Permutations(Pages)
=============================================================================
