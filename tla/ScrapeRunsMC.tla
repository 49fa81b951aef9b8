------------------------------ MODULE ScrapeRunsMC ------------------------------
(* Small instances of ScrapeRuns for TLC. *)
EXTENDS ScrapeRuns, TLC

CONSTANTS a, b, p1, p2, w1, w2, h1

\* Workers and runs are interchangeable.
Symmetry == Permutations(Workers) \cup Permutations(Runs)
================================================================================
