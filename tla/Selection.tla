------------------------------- MODULE Selection -------------------------------
(***************************************************************************)
(* The entries of a sequence at given positions, in their order.           *)
(***************************************************************************)
EXTENDS Naturals, Sequences

Selected(s, P) ==
  LET upTo[n \in 0..Len(s)] ==
        IF n = 0 THEN <<>>
        ELSE IF n \in P THEN Append(upTo[n - 1], s[n]) ELSE upTo[n - 1]
  IN  upTo[Len(s)]
================================================================================
