--------------------------- MODULE DiscoveryFetchMC --------------------------
(* Pages of two entries stand for Adzuna's fifty, and a unit of time for    *)
(* the smallest pause between polls; the parameters reach from below every  *)
(* limit to above it.                                                       *)
EXTENDS DiscoveryFetch

MCPageNumbers == {0, 1, 3}
MCPollNumbers == {0, 1, 3, 5}

PostingsAlike == Permutations(Postings)
=============================================================================
