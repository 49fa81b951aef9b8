------------------------------ MODULE ConsoleMC ------------------------------
(* Two jobs on pages of one row stand for lists longer than a page; of two  *)
(* requests one acts and one changes a parameter meanwhile, ticks are free. *)
EXTENDS Console

(* The jobs differ in what they are sorted by.                              *)
MCRank == [e \in Entries |-> IF e = "j1" THEN 1 ELSE 2]
=============================================================================
