----------------------------- MODULE IngestionMC -----------------------------
(* An instance of Ingestion for TLC. gh is a board, agg a discovery feed,  *)
(* jobspy JobSpy; A and B are two apply pages.                             *)
EXTENDS Ingestion

CONSTANTS A, B, x, y, w1, h1, h2

U(g, q) == [page |-> g, query |-> q]

P(s, e, w, apply, url) ==
  [source |-> s, external |-> e, what |-> w, apply |-> apply, url |-> url]

SomePostings ==
  {P("gh", "1", x, U(A, "plain"), U(A, "plain")),
   P("gh", "1", y, U(A, "plain"), U(A, "plain")),     \* retitled
   P("gh", "2", x, U(B, "plain"), U(A, "plain")),     \* applied to elsewhere
   P("agg", "1", x, U(A, "tracked"), U(A, "plain")),
   P("agg", "2", y, NoUrl, U(A, "plain")),
   P("jobspy", "1", x, NoUrl, U(A, "plain")),
   P("jobspy", "2", x, U(A, "tracked"), U(B, "plain")),
   P(Manual, None, x, U(A, "plain"), NoUrl),
   P(Manual, None, x, NoUrl, U(B, "plain"))}           \* apply_url left empty
=============================================================================
