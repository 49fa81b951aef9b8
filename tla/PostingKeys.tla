------------------------------ MODULE PostingKeys ------------------------------
(***************************************************************************)
(* What each source makes of a posting: the canonical payload it is stored *)
(* from, the keys it is recognised by, and the way from a link back to the *)
(* posting on an applicant tracking system (ATS).                          *)
(*                                                                         *)
(* A text is the set of table words and phrases it contains, empty when it *)
(* is blank.  A link is a page of a site, which may be its application     *)
(* form, with the query that canonicalization drops.  A raw record has the *)
(* fields of every source's payload; each source reads its own.            *)
(***************************************************************************)
EXTENDS Naturals, Sequences, SequencesExt

CONSTANTS
  Slugs,   \* last path segments; an ATS also uses them as ids
  Occurs   \* pairs <<s, t>> such that s occurs in the address of t's page

Ats  == {"greenhouse", "lever", "ashby"}
None == "none"

NoLink == [site |-> None, slug |-> None, form |-> FALSE, query |-> FALSE]

ASSUME SlugsAssumption ==
  /\ None \notin Slugs
  /\ Occurs \subseteq Slugs \X Slugs
  /\ \A s \in Slugs : <<s, s>> \in Occurs

First(a, b) == IF a # None THEN a ELSE b

FirstLink(a, b) == IF a # NoLink THEN a ELSE b

--------------------------------------------------------------------------------
(* Normal forms and the two keys of deduplication.                         *)

CanonicalLink(l) == [site |-> l.site, slug |-> l.slug, form |-> l.form]

NormalLocation(place) ==
  IF place \in {{"remote"}, {"anywhere"}, {"distributed"}} THEN {"remote"} ELSE place

LinkForDedup(p) == FirstLink(p.apply, p.url)

DedupHash(p) ==
  [company |-> p.company, title |-> p.title,
   location |-> NormalLocation(p.location),
   link |-> CanonicalLink(LinkForDedup(p))]

--------------------------------------------------------------------------------
(* Payloads.  Reject stands for the None of normalize().                   *)

Reject == [source |-> None]

Payload(source, external, company, raw, apply, url) ==
  [source |-> source, external |-> external, title |-> raw.title,
   company |-> company, location |-> raw.place, description |-> raw.text,
   apply |-> apply, url |-> url, remote |-> FALSE]

\* The employer the provider names, else the one configured for the run.
CompanyName(raw, configured) == First(First(raw.employer, configured), "Unknown")

Greenhouse(raw, configured) ==
  IF raw.id = None \/ raw.title = {} THEN Reject
  ELSE Payload("greenhouse", <<raw.id>>, CompanyName(raw, configured), raw,
               raw.page, raw.page)

Lever(raw, configured) ==
  IF raw.id = None \/ raw.title = {} THEN Reject
  ELSE Payload("lever", <<raw.id>>, CompanyName(raw, configured), raw,
               FirstLink(raw.apply, raw.page), raw.page)

\* Ashby's id is the end of the page's address.
Ashby(raw, configured) ==
  LET external == First(raw.page.slug, raw.id)
      placed   == [raw EXCEPT !.place = IF @ = {} /\ raw.remote THEN {"remote"} ELSE @]
  IN  IF external = None \/ raw.title = {} THEN Reject
      ELSE Payload("ashby", <<external>>, CompanyName(raw, configured), placed,
                   FirstLink(raw.apply, raw.page), raw.page)

Adzuna(raw) ==
  IF raw.id = None \/ raw.title = {} THEN Reject
  ELSE Payload("agg1", <<raw.id>>, First(raw.employer, "Unknown"), raw, raw.page, raw.page)

\* Without a job_id the id is a digest of the fields, the time stamp included.
SerpId(raw, company) ==
  IF raw.id # None THEN <<raw.id>>
  ELSE <<raw.title, company, raw.place, raw.page, raw.stamp>>

GoogleJobs(raw) ==
  LET company == First(raw.employer, "Unknown")
  IN  IF raw.title = {} THEN Reject
      ELSE Payload("serp1", SerpId(raw, company), company, raw,
                   FirstLink(raw.apply, raw.page), raw.page)

JobSpy(raw) ==
  IF raw.title = {} \/ raw.page = NoLink THEN Reject
  ELSE [Payload("jobspy", <<raw.id>>, raw.employer, raw, raw.apply, raw.page)
          EXCEPT !.remote = raw.remote]

Normalize(source, raw, configured) ==
  CASE source = "greenhouse" -> Greenhouse(raw, configured)
    [] source = "lever"      -> Lever(raw, configured)
    [] source = "ashby"      -> Ashby(raw, configured)
    [] source = "agg1"       -> Adzuna(raw)
    [] source = "serp1"      -> GoogleJobs(raw)
    [] source = "jobspy"     -> JobSpy(raw)

--------------------------------------------------------------------------------
(* From a link to the posting.                                             *)

Unsupported == [provider |-> None, id |-> None]

\* The patterns admit the application form of a Lever posting only.
ParseUrl(l) ==
  IF l.site \in Ats /\ (l.form => l.site = "lever")
  THEN [provider |-> l.site, id |-> l.slug] ELSE Unsupported

\* An Ashby posting is taken when the id occurs anywhere in its address.
Matches(raw, asked) ==
  CASE asked.provider = "greenhouse" -> raw.id = asked.id
    [] asked.provider = "lever" -> raw.id = asked.id \/ raw.page.slug = asked.id
    [] asked.provider = "ashby" ->
         raw.page # NoLink /\ <<asked.id, raw.page.slug>> \in Occurs

\* The first posting of the board that matches, as a batch of one or none.
Matching(board, asked) ==
  LET hits == {i \in DOMAIN board : Matches(board[i], asked)}
  IN  IF hits = {} THEN <<>> ELSE <<board[Min(hits)]>>
================================================================================
