------------------------------ MODULE Agg1Fetch ------------------------------
(***************************************************************************)
(* One fetch of the AGG-1 discovery connector (Adzuna): pages are asked    *)
(* for one request at a time while the provider's result list changes.     *)
(* The list is external: it is modelled from what the connector relies on, *)
(* that page n of size s holds the entries (n-1)*s+1 .. n*s of the moment. *)
(***************************************************************************)
EXTENDS Integers, Sequences, SequencesExt

CONSTANTS
  Postings,           \* what the provider can list
  Absent,             \* a parameter that is missing or no number
  MaxPerPage,         \* ADZUNA_MAX_RESULTS_PER_PAGE, the provider's cap too
  DefaultPerPage, DefaultMaxPages, DefaultMaxResults,
  Numbers,            \* values of the numeric parameters of a request
  MaxChanges          \* changes of the list during a fetch, a bound of the model

(* What the fetch assumes of its constants.                                 *)
Agg1Constants ==
  /\ {MaxPerPage, DefaultPerPage, DefaultMaxPages, DefaultMaxResults}
       \subseteq Nat \ {0}
  /\ Numbers \subseteq Int /\ Absent \notin Int
  /\ MaxChanges \in Nat /\ IsFiniteSet(Postings)

VARIABLES
  request,   \* the parameters of the fetch
  listing,   \* the provider's result list, newest first
  atStart,   \* the list when the fetch began
  changes,   \* changes of the list since
  withdrawn, \* the postings withdrawn since
  state,     \* "idle", "fetching" or "done"
  page,      \* the page to ask for next; when done, the last one asked for
  raw,       \* the raw jobs collected
  error      \* the FetchResult's error, "none" when there is none

vars ==
  <<request, listing, atStart, changes, withdrawn, state, page, raw, error>>

Errors == {"credentials", "http_status", "request", "provider", "not_a_list"}

Request ==
  [credentials : BOOLEAN, results_per_page : Numbers \cup {Absent},
   max_pages : Numbers \cup {Absent}, max_results : Numbers \cup {Absent}]

----------------------------------------------------------------------------
(* The limits of a fetch.                                                  *)

AtLeast(low, n) == IF n < low THEN low ELSE n
AtMost(high, n) == IF n > high THEN high ELSE n

CoerceInt(value, default) == IF value = Absent THEN default ELSE value

\* Mutant: results_per_page is sent as it was given.
PerPageUnclamped ==
  AtLeast(1, CoerceInt(request.results_per_page, DefaultPerPage))

PerPage ==
  AtLeast(1, AtMost(MaxPerPage,
                    CoerceInt(request.results_per_page, DefaultPerPage)))

PageLimit   == AtLeast(1, CoerceInt(request.max_pages, DefaultMaxPages))
ResultLimit == AtLeast(1, CoerceInt(request.max_results, DefaultMaxResults))

\* Mutant: pages are counted from zero by the provider and from one here.
ProviderPageSkipped(n, size) ==
  LET served == AtMost(MaxPerPage, size)
  IN  SubSeq(listing, n * served + 1, AtMost(Len(listing), (n + 1) * served))

(* The provider serves no page larger than its cap.                        *)
ProviderPage(n, size) ==
  LET served == AtMost(MaxPerPage, size)
  IN  SubSeq(listing, (n - 1) * served + 1, AtMost(Len(listing), n * served))

----------------------------------------------------------------------------

NoRequest ==
  [credentials |-> FALSE, results_per_page |-> Absent, max_pages |-> Absent,
   max_results |-> Absent]

Init ==
  /\ request = NoRequest
  /\ \E S \in SUBSET Postings : listing \in SetToSeqs(S)
  /\ atStart = listing /\ changes = 0 /\ withdrawn = {}
  /\ state = "idle" /\ page = 1 /\ raw = <<>> /\ error = "none"

FetchRawJobs ==
  /\ state = "idle" /\ request' \in Request
  /\ IF request'.credentials
     THEN state' = "fetching" /\ UNCHANGED error
     ELSE state' = "done" /\ error' = "credentials"
  /\ UNCHANGED <<listing, atStart, changes, withdrawn, page, raw>>

\* Mutant: max_pages ends nothing.
LastPageUnlimited(results, collected) ==
  \/ results = <<>>
  \/ Len(collected) >= ResultLimit
  \/ Len(results) < PerPage

LastPage(results, collected) ==
  \/ results = <<>>
  \/ Len(collected) >= ResultLimit
  \/ Len(results) < PerPage
  \/ page = PageLimit

Truncated(collected) == SubSeq(collected, 1, AtMost(ResultLimit, Len(collected)))

PageAnswered ==
  /\ state = "fetching"
  /\ LET results   == ProviderPage(page, PerPage)
         collected == raw \o results
     IN  /\ raw' = Truncated(collected)
         /\ IF LastPage(results, collected)
            THEN state' = "done" /\ page' = page
            ELSE state' = "fetching" /\ page' = page + 1
  /\ UNCHANGED <<request, listing, atStart, changes, withdrawn, error>>

(* A status error, no answer, an exception payload or results of another   *)
(* type: the same result but for its text.  The pages before it are lost.  *)
RequestFailed ==
  /\ state = "fetching" /\ state' = "done" /\ raw' = <<>>
  /\ error' \in Errors \ {"credentials"}
  /\ UNCHANGED <<request, listing, atStart, changes, withdrawn, page>>

(* The list changes between two requests.                                  *)
ListChanges(l) ==
  /\ state = "fetching" /\ changes < MaxChanges
  /\ listing' = l /\ changes' = changes + 1
  /\ UNCHANGED <<request, atStart, state, page, raw, error>>

Publish ==
  \E p \in Postings \ (ToSet(listing) \cup withdrawn) :
    ListChanges(<<p>> \o listing) /\ UNCHANGED withdrawn

Withdraw ==
  \E i \in DOMAIN listing :
    ListChanges(RemoveAt(listing, i)) /\ withdrawn' = withdrawn \cup {listing[i]}

Next ==
  \/ FetchRawJobs \/ PageAnswered \/ RequestFailed
  \/ Publish \/ Withdraw

Spec == Init /\ [][Next]_vars

----------------------------------------------------------------------------

TypeOK ==
  /\ request \in Request
  /\ listing \in Seq(Postings) /\ atStart \in Seq(Postings)
  /\ changes \in 0..MaxChanges /\ withdrawn \subseteq Postings
  /\ state \in {"idle", "fetching", "done"} /\ page \in 1..PageLimit
  /\ raw \in Seq(Postings) /\ error \in Errors \cup {"none"}

(* Postings that arrive between two requests push the others to later      *)
(* pages and never past the page asked for next: while nothing is          *)
(* withdrawn, a posting listed before a collected one is collected too.    *)
NoPostingSkipped ==
  withdrawn = {} =>
    \A i, j \in DOMAIN atStart :
      i < j /\ atStart[j] \in ToSet(raw) => atStart[i] \in ToSet(raw)

(* A fetch that ends under both of its limits has collected everything     *)
(* that was listed when it began, unless something was withdrawn: the      *)
(* short page it stopped at was the last one of the provider.              *)
CompleteBelowLimits ==
  state = "done" /\ error = "none" /\ withdrawn = {}
    /\ Len(raw) < ResultLimit /\ Len(raw) < PageLimit * PerPage
  => ToSet(atStart) \subseteq ToSet(raw)

=============================================================================
