--------------------------- MODULE BoardAcquisition --------------------------
(***************************************************************************)
(* The board adapters and the two backends that fetch for them: one        *)
(* listing page, then the detail pages of its candidates, URL by URL and   *)
(* mode by mode, any of which can fail.  A board is acquired twice, as two *)
(* runs of the same source do, while the site stays as it is: what differs *)
(* between the two comes from the fetches alone.                           *)
(* The site is external: a listing is a sequence of anchors, a posting is  *)
(* what its two pages tell of it.                                          *)
(***************************************************************************)
EXTENDS Integers, Sequences, SequencesExt, Selection

CONSTANTS
  Postings,     \* postings of the site, each named by its detail URL
  Junk,         \* an anchor or entry no candidate can be made of
  Listing,      \* the listing's own URL
  Adapters,     \* the sources acquired
  Fallbacks,    \* the fallback_fetch_mode of a request: a set of modes or "none"
  MaxAnchors,   \* length of a listing
  Limits        \* max_results given to a run, 0 when none is

(* What tells one adapter from another.  repeats: a link listed twice is   *)
(* two candidates; slices: max_results cuts the entries, not what is made  *)
(* of them; details: each candidate's page is fetched; listed, detailed:   *)
(* the apply URL of a candidate, and of one whose detail page came: the    *)
(* page's own, the link to an ATS if one is found, or none.                *)
StartupJobsNYC ==
  [repeats |-> TRUE, slices |-> FALSE, details |-> TRUE,
   listed |-> "none", detailed |-> "link"]
BuiltInNYC ==
  [repeats |-> TRUE, slices |-> FALSE, details |-> TRUE,
   listed |-> "none", detailed |-> "link"]
WelcomeToTheJungle ==
  [repeats |-> FALSE, slices |-> FALSE, details |-> TRUE,
   listed |-> "none", detailed |-> "own"]
GetroLike ==
  [repeats |-> TRUE, slices |-> TRUE, details |-> TRUE,
   listed |-> "link", detailed |-> "link"]
GetroLikeLinks ==   \* a Getro page without its state: _extract_listing_links
  [repeats |-> FALSE, slices |-> FALSE, details |-> TRUE,
   listed |-> "none", detailed |-> "link"]
USV ==
  [repeats |-> TRUE, slices |-> TRUE, details |-> FALSE,
   listed |-> "link", detailed |-> "link"]
LinkedInJobs ==
  [repeats |-> TRUE, slices |-> FALSE, details |-> TRUE,
   listed |-> "none", detailed |-> "link"]
Wellfound ==
  [repeats |-> TRUE, slices |-> FALSE, details |-> TRUE,
   listed |-> "none", detailed |-> "link"]
YCJobs ==
  [repeats |-> TRUE, slices |-> FALSE, details |-> TRUE,
   listed |-> "none", detailed |-> "link"]

Boards ==
  [startupjobs_nyc |-> StartupJobsNYC, builtin_nyc |-> BuiltInNYC,
   welcome_to_the_jungle |-> WelcomeToTheJungle, getro |-> GetroLike,
   getro_links |-> GetroLikeLinks, usv |-> USV, linkedin_jobs |-> LinkedInJobs,
   wellfound |-> Wellfound, yc |-> YCJobs]

Supported   == DOMAIN Boards
Unsupported == {"trueup", "underdog", "ventureloop"}
Registered  == Supported \cup Unsupported

(* The sources whose policy prefers the browser backend.                   *)
AuthBoards == {"linkedin_jobs", "wellfound", "yc"}

(* The API takes a max_results from 1 to 100.                              *)
ASSUME BoardAssumption ==
  /\ Adapters \subseteq Supported \cup Unsupported
  /\ Fallbacks \subseteq {"simple", "dynamic", "none"}
  /\ Junk \notin Postings /\ Listing \notin Postings
  /\ MaxAnchors \in Nat /\ Limits \subseteq 0..100

(* What a posting's pages tell: its title and company in the listing or    *)
(* only in the detail page, and whether there is a link to an ATS.         *)
Posting == [named : {"listing", "detail"}, link : BOOLEAN]

VARIABLES
  adapter, limit, fallback,   \* the source, its max_results, the fallback
  flags,       \* the source's feature flag, BB_BROWSER_ENABLED
  site,        \* what the pages tell of each posting
  listing,     \* the anchors of the listing page
  round,       \* the first or the second acquisition
  stage,       \* "idle", "skipped", "listing", "details", "done"
  queue,       \* URLs of the current request left to answer
  tried,       \* modes tried for the first of them
  captured,    \* URLs captured, each with the modes it took
  failures,    \* URLs given up
  candidates,  \* what extract_listings yielded
  result,      \* the batch: records, error
  previous     \* the batch of the first acquisition

vars ==
  <<adapter, limit, fallback, flags, site, listing, round, stage, queue, tried,
    captured, failures, candidates, result, previous>>

source == <<adapter, limit, fallback, flags, site, listing>>

NoBatch == [records |-> <<>>, error |-> FALSE]

----------------------------------------------------------------------------
(* Requests.                                                               *)

(* Listing and detail pages are asked for in the same mode.                *)
PublicBoardMode == "simple"
AuthBoardMode   == "dynamic"

(* A Scrapling request falls back to a second mode when it names one.      *)
AttemptedModes ==
  IF fallback \in {"none", PublicBoardMode} THEN <<PublicBoardMode>>
  ELSE <<PublicBoardMode, fallback>>

(* The text of a response, which may be empty; of a browser capture, which *)
(* may hold a text snapshot in place of the page: no anchor is found.      *)
ScraplingContents == {listing, <<>>}
BbBrowserContents == {listing, <<>>}

----------------------------------------------------------------------------
(* extract_listings.                                                       *)

MaxResults == IF limit = 0 THEN 25 ELSE limit

Distinct(s) == Selected(s, {i \in DOMAIN s : \A k \in 1..(i - 1) : s[k] # s[i]})

Valid(s) == Selected(s, {i \in DOMAIN s : s[i] # Junk})

Shorter(n, s) == IF n < Len(s) THEN n ELSE Len(s)

(* At most max_results: the loops count what they yield, the slices what   *)
(* they pass over.                                                         *)
Cut(s) == SubSeq(s, 1, Shorter(MaxResults, s))

\* Mutant: an anchor without a link is not passed over.
ExtractAll(s) == Cut(s)

Extract(s) ==
  IF Boards[adapter].slices THEN Valid(Cut(s))
  ELSE Cut(IF Boards[adapter].repeats THEN Valid(s) ELSE Distinct(Valid(s)))

DetailUrls(s) == IF Boards[adapter].details THEN Distinct(s) ELSE <<>>

----------------------------------------------------------------------------
(* enrich_candidate, _candidate_to_record and normalize.                   *)

(* What there is to find on a posting's detail page, besides what the      *)
(* listing has.  A capture need not show it: the page may be empty, a text *)
(* snapshot, a login wall, or not rendered to its end.                     *)
OnPage(p) ==
  {t \in {"name", "link"} : IF t = "link" THEN site[p].link ELSE site[p].named = "detail"}

(* What the captured detail pages tell, each a part of what is on it.      *)
DetailContents(urls) == {f \in [urls -> SUBSET {"name", "link"}] :
                          \A p \in urls : f[p] \subseteq OnPage(p)}

ListedApply(p) ==
  IF Boards[adapter].listed = "link" /\ site[p].link THEN "ats" ELSE "none"

\* Mutant: every board takes the link of the detail page.
DetailApplyAlways(p, told) == IF "link" \in told THEN "ats" ELSE ListedApply(p)

(* Without a link in the page the candidate keeps the listing's.           *)
DetailApply(p, told) ==
  IF Boards[adapter].detailed = "own" THEN "own"
  ELSE IF "link" \in told THEN "ats" ELSE ListedApply(p)

\* Mutant: a record is written only for a candidate whose detail came.
RecordsOfDetails(told) ==
  LET kept == SelectSeq(candidates, LAMBDA p : p \in DOMAIN told)
  IN  [i \in DOMAIN kept |->
        [posting |-> kept[i], detail |-> TRUE, named |-> TRUE,
         link |-> "link" \in told[kept[i]],
         apply |-> DetailApply(kept[i], told[kept[i]])]]

(* told: what each captured detail page tells.                             *)
Records(told) ==
  [i \in DOMAIN candidates |->
    LET p     == candidates[i]
        found == IF p \in DOMAIN told THEN told[p] ELSE {}
    IN  [posting |-> p, detail |-> p \in DOMAIN told,
         named   |-> site[p].named = "listing" \/ "name" \in found,
         link    |-> "link" \in found,
         apply   |-> IF p \in DOMAIN told THEN DetailApply(p, found)
                     ELSE ListedApply(p)]]

(* normalize drops a record without title or company, and an apply URL     *)
(* that is missing is the page's own; that URL keys the posting's row.     *)
Accepted(batch) == {r \in ToSet(batch.records) : r.named}
Key(r)          == IF r.apply = "none" THEN "own" ELSE r.apply

----------------------------------------------------------------------------

Init ==
  /\ adapter \in Adapters /\ limit \in Limits /\ fallback \in Fallbacks
  /\ adapter \in AuthBoards => fallback = "none"
  /\ flags \in [source : BOOLEAN, bb_browser : BOOLEAN]
  /\ site \in [Postings -> Posting]
  /\ listing \in BoundedSeq(Postings \cup {Junk}, MaxAnchors)
  /\ round = 1 /\ stage = "idle" /\ queue = <<>> /\ tried = <<>>
  /\ captured = {} /\ failures = {} /\ candidates = <<>>
  /\ result = NoBatch /\ previous = NoBatch

(* A source or a backend that is switched off skips the run.               *)
Disabled == ~flags.source \/ (adapter \in AuthBoards /\ ~flags.bb_browser)

SkipRun ==
  /\ stage = "idle" /\ Disabled /\ stage' = "skipped"
  /\ UNCHANGED <<source, round, queue, tried, captured, failures, candidates,
                 result, previous>>

(* An adapter without an implementation answers with a failure batch.      *)
AcquireUnsupported ==
  /\ stage = "idle" /\ ~Disabled /\ adapter \in Unsupported
  /\ stage' = "done" /\ result' = [records |-> <<>>, error |-> TRUE]
  /\ UNCHANGED <<source, round, queue, tried, captured, failures, candidates, previous>>

AcquireListing ==
  /\ stage = "idle" /\ ~Disabled /\ adapter \in Supported
  /\ stage' = "listing" /\ queue' = <<Listing>>
  /\ UNCHANGED <<source, round, tried, captured, failures, candidates, result, previous>>

CapturedBy(modes) ==
  /\ queue # <<>> /\ queue' = Tail(queue) /\ tried' = <<>>
  /\ captured' = captured \cup {<<Head(queue), modes>>}
  /\ UNCHANGED <<source, round, stage, failures, candidates, result, previous>>

\* Mutant: a URL given up leaves no trace.
GivenUpSilently ==
  /\ queue # <<>> /\ queue' = Tail(queue) /\ tried' = <<>>
  /\ UNCHANGED <<source, round, stage, captured, failures, candidates, result, previous>>

GivenUp ==
  /\ queue # <<>> /\ queue' = Tail(queue) /\ tried' = <<>>
  /\ failures' = failures \cup {Head(queue)}
  /\ UNCHANGED <<source, round, stage, captured, candidates, result, previous>>

ModesLeft == Len(tried) < Len(AttemptedModes)

(* A response below 400 is a record of the URL asked for.                  *)
ScraplingCaptures ==
  /\ adapter \notin AuthBoards /\ ModesLeft
  /\ CapturedBy(Append(tried, AttemptedModes[Len(tried) + 1]))

(* A status of 400 or more, or an exception, whatever its kind.            *)
ScraplingModeFails ==
  /\ adapter \notin AuthBoards /\ queue # <<>> /\ ModesLeft
  /\ tried' = Append(tried, AttemptedModes[Len(tried) + 1])
  /\ UNCHANGED <<source, round, stage, queue, captured, failures, candidates,
                 result, previous>>

ScraplingGivesUp == adapter \notin AuthBoards /\ ~ModesLeft /\ GivenUp

(* The browser session is asked once for each page.                        *)
BbBrowserCaptures == adapter \in AuthBoards /\ CapturedBy(<<AuthBoardMode>>)
BbBrowserFails    == adapter \in AuthBoards /\ GivenUp

CapturedUrls == {c[1] : c \in captured}

(* The listing's record may hold no content: nothing is extracted from it. *)
ListingRead ==
  /\ stage = "listing" /\ queue = <<>> /\ Listing \in CapturedUrls
  /\ stage' = "details"
  /\ \E content \in IF adapter \in AuthBoards THEN BbBrowserContents ELSE ScraplingContents :
       candidates' = Extract(content) /\ queue' = DetailUrls(Extract(content))
  /\ UNCHANGED <<source, round, tried, captured, failures, result, previous>>

\* Mutant: an error is reported whenever something failed.
BatchOfAnyFailure(records) ==
  [records |-> records, error |-> failures # {}]

Batch(records) ==
  [records |-> records, error |-> failures # {} /\ records = <<>>]

ListingFailed ==
  /\ stage = "listing" /\ queue = <<>> /\ Listing \notin CapturedUrls
  /\ stage' = "done" /\ result' = Batch(<<>>)
  /\ UNCHANGED <<source, round, queue, tried, captured, failures, candidates, previous>>

AcquireReturns ==
  /\ stage = "details" /\ queue = <<>>
  /\ stage' = "done"
  /\ \E told \in DetailContents(CapturedUrls \ {Listing}) : result' = Batch(Records(told))
  /\ UNCHANGED <<source, round, queue, tried, captured, failures, candidates, previous>>

SecondRun ==
  /\ stage = "done" /\ round = 1
  /\ round' = 2 /\ stage' = "idle" /\ previous' = result /\ result' = NoBatch
  /\ queue' = <<>> /\ tried' = <<>> /\ captured' = {} /\ failures' = {}
  /\ candidates' = <<>> /\ UNCHANGED source

Next ==
  \/ SkipRun \/ AcquireUnsupported \/ AcquireListing
  \/ ScraplingCaptures \/ ScraplingModeFails \/ ScraplingGivesUp
  \/ BbBrowserCaptures \/ BbBrowserFails
  \/ ListingRead \/ ListingFailed \/ AcquireReturns \/ SecondRun

Spec == Init /\ [][Next]_vars

----------------------------------------------------------------------------

Modes == {<<m>> : m \in {"simple", "dynamic"}} \cup {<<"simple", "dynamic">>}

Urls == Postings \cup {Listing}

Record ==
  [posting : Postings, detail : BOOLEAN, named : BOOLEAN, link : BOOLEAN,
   apply : {"none", "own", "ats"}]
BatchType(b) == b.records \in Seq(Record) /\ b.error \in BOOLEAN

TypeOK ==
  /\ adapter \in Adapters /\ limit \in Limits /\ fallback \in Fallbacks
  /\ site \in [Postings -> Posting] /\ listing \in Seq(Postings \cup {Junk})
  /\ round \in 1..2 /\ flags \in [source : BOOLEAN, bb_browser : BOOLEAN]
  /\ stage \in {"idle", "skipped", "listing", "details", "done"}
  /\ queue \in Seq(Urls) /\ tried \in Seq({"simple", "dynamic"})
  /\ captured \subseteq Urls \X Modes /\ failures \subseteq Urls
  /\ candidates \in Seq(Postings)
  /\ BatchType(result) /\ BatchType(previous)

(* When a batch is returned every URL asked for was answered once: a       *)
(* record or a failure and never both, so that the run's error count is    *)
(* the number of pages missing from it.                                    *)
EveryUrlAnswered ==
  stage = "done" /\ adapter \in Supported =>
    /\ failures \cap CapturedUrls = {}
    /\ failures \cup CapturedUrls = {Listing} \cup ToSet(DetailUrls(candidates))

(* Failed detail pages cost a posting its detail and never its record: the *)
(* records are the candidates in their order, at most max_results of them, *)
(* each made with its own page exactly when that was captured.             *)
NoCandidateLost ==
  stage = "done" /\ Listing \in CapturedUrls =>
    /\ [i \in DOMAIN result.records |-> result.records[i].posting] = candidates
    /\ \A r \in ToSet(result.records) : r.detail = (r.posting \in CapturedUrls)
    /\ Len(result.records) <= MaxResults

(* A batch carries an error only when it carries no record, and then some  *)
(* fetch failed or the source is unsupported: a run is marked FAILED only  *)
(* when nothing was acquired.                                              *)
ErrorMeansNothing ==
  stage = "done" =>
    (result.error <=> result.records = <<>>
                      /\ (failures # {} \/ adapter \in Unsupported))

(* The URL that keys a posting's row is the same in both acquisitions of   *)
(* an unchanged site, but for the boards that take it from the detail page *)
(* alone: there it differs when exactly one of the two read the link, be   *)
(* it that the other missed the page or that it captured it without.       *)
KeyStable ==
  stage = "done" /\ round = 2 =>
    \A a \in Accepted(previous), b \in Accepted(result) :
      a.posting = b.posting /\ Key(a) # Key(b) =>
        /\ a.link # b.link
        /\ Boards[adapter].listed = "none" /\ adapter # "welcome_to_the_jungle"
=============================================================================
