---------------------------- MODULE PostingJourney -----------------------------
(***************************************************************************)
(* A posting from the sources that publish it to the resume recommended    *)
(* for it: the rows of jobs with the text and the keys they really have,   *)
(* and the verdicts computed from them.                                    *)
(*                                                                         *)
(* Transactions follow one another here: what happens between them is in   *)
(* JobPipeline and Ingestion, which leave texts and keys abstract.         *)
(***************************************************************************)
EXTENDS PostingKeys, Verdicts

CONSTANTS
  Boards,      \* ats -> what its API lists, in order
  Feeds,       \* discovery source -> the records a run of it may bring
  Submitted,   \* links submitted to URL ingest
  SkillFiles,  \* contents of master_skills.json
  Catalogs,    \* contents of resumes.yaml
  Threshold,   \* scoring_threshold, in tenths
  MaxRuns      \* runs of sources, a bound of the model

Unmapped == {"jobspy"}

ASSUME BoardsAssumption ==
  /\ DOMAIN Boards \subseteq Ats
  /\ DOMAIN Feeds \subseteq {"agg1", "serp1", "jobspy"}
  /\ \A ats \in DOMAIN Boards : Boards[ats] \in Seq(ToSet(Boards[ats]))
  /\ Threshold \in 0..1000 /\ MaxRuns \in Nat

\* A posting of a board has a page, and the postings with one id have one link.
ASSUME PagesAssumption ==
  \A ats \in DOMAIN Boards : \A raw, other \in ToSet(Boards[ats]) :
    LET p == Normalize(ats, raw, None)
        q == Normalize(ats, other, None)
    IN  p # Reject /\ q # Reject =>
          /\ LinkForDedup(p) # NoLink
          /\ p.external = q.external
               => CanonicalLink(LinkForDedup(p)) = CanonicalLink(LinkForDedup(q))

\* Years are counted, and a list of skills ends.
ASSUME CatalogsAssumption ==
  \A resumes \in Catalogs :
    /\ resumes \in Seq(ToSet(resumes))
    /\ \A resume \in ToSet(resumes) :
         IsFiniteSet(resume.skills) /\ resume.years \in Nat \cup {Unstated}

VARIABLES
  jobs,     \* dedup_hash -> row
  skills,   \* the skills file
  catalog,  \* the resume catalog
  runs      \* runs so far, capped by MaxRuns

vars == <<jobs, skills, catalog, runs>>

NoAnalysis ==
  [score |-> [total |-> 0, tech |-> 0], persona |-> NotSet, ats |-> NoAts,
   resume |-> NotSet]

\* title is shown and matched with resumes, scored is normalized_title.  former
\* and requested are the model's: the ATS results the resolution found, and the
\* link that led to the posting.
Row(p, role, requested) ==
  [source |-> p.source, external |-> p.external, role |-> role,
   canonical |-> <<None, <<>>>>, company |-> p.company,
   title |-> p.title, scored |-> p.title, location |-> p.location,
   description |-> p.description, remote |-> p.remote,
   apply |-> p.apply, url |-> FirstLink(p.url, p.apply),
   pipeline |-> "INGESTED", analysis |-> NoAnalysis,
   former |-> NoAts, requested |-> requested]

Init ==
  /\ jobs = <<>>
  /\ skills \in SkillFiles
  /\ catalog \in Catalogs
  /\ runs = 0

--------------------------------------------------------------------------------
(* Storing a batch.                                                        *)

Insert(rows, p, role, requested) ==
  [h \in DOMAIN rows \cup {DedupHash(p)} |->
     IF h = DedupHash(p) THEN Row(p, role, requested) ELSE rows[h]]

KnownLink(rows, p) ==
  /\ LinkForDedup(p) # NoLink
  /\ \E h \in DOMAIN rows :
       /\ rows[h].apply # NoLink
       /\ CanonicalLink(rows[h].apply) = CanonicalLink(LinkForDedup(p))

StoreMapped(rows, p, role, requested) ==
  IF KnownLink(rows, p) \/ DedupHash(p) \in DOMAIN rows THEN rows
  ELSE Insert(rows, p, role, requested)

\* JobSpy looks for the hash alone and fills in an apply link that is missing.
StoreUnmapped(rows, p) ==
  LET h == DedupHash(p)
  IN  IF h \notin DOMAIN rows THEN Insert(rows, p, "discovery", NoLink)
      ELSE [rows EXCEPT ![h].apply = FirstLink(@, p.apply)]

Store(rows, p, role, requested) ==
  IF p.source = None THEN rows
  ELSE IF p.source \in Unmapped THEN StoreUnmapped(rows, p)
  ELSE StoreMapped(rows, p, role, requested)

StoreAll(source, batch, configured, role, requested) ==
  LET stored[n \in 0..Len(batch)] ==
        IF n = 0 THEN jobs
        ELSE Store(stored[n - 1], Normalize(source, batch[n], configured), role, requested)
  IN  stored[Len(batch)]

Run(source, batch, configured, role, requested) ==
  /\ runs < MaxRuns
  /\ runs' = runs + 1
  /\ jobs' = StoreAll(source, batch, configured, role, requested)
  /\ UNCHANGED <<skills, catalog>>

RunBoard(ats) ==
  \E configured \in {None, "Acme Inc"} :
    Run(ats, Boards[ats], configured, "canonical", NoLink)

RunFeed(source) ==
  \E raw \in Feeds[source] : Run(source, <<raw>>, None, "discovery", NoLink)

\* The board of the link is fetched and filtered; no match fails the run.
IngestUrl(link) ==
  LET asked == ParseUrl(link)
  IN  /\ asked # Unsupported /\ asked.provider \in DOMAIN Boards
      /\ Run(asked.provider, Matching(Boards[asked.provider], asked), None,
             "url_ingest", link)

--------------------------------------------------------------------------------
(* The resolution of a discovery row.                                      *)

\* Mutant: the resolution keeps the links of the discovery row.
EnrichedInPlace(row, p) ==
  [row EXCEPT
     !.description = IF p.description # {} THEN p.description ELSE @,
     !.scored = p.title, !.company = p.company, !.location = p.location,
     !.canonical = <<p.source, p.external>>, !.pipeline = "INGESTED",
     !.former = row.analysis.ats, !.requested = FirstLink(row.apply, row.url)]

\* title and dedup_hash stay what they were, and so does the analysis.
Enriched(row, p) ==
  [EnrichedInPlace(row, p) EXCEPT
     !.apply = FirstLink(p.apply, @),
     !.url = FirstLink(FirstLink(p.url, p.apply), @)]

Resolve(h) ==
  LET row   == jobs[h]
      asked == ParseUrl(FirstLink(row.apply, row.url))
  IN  /\ row.role = "discovery" /\ row.canonical[1] = None
      /\ asked # Unsupported /\ asked.provider \in DOMAIN Boards
      /\ \E raw \in ToSet(Matching(Boards[asked.provider], asked)) :
           LET p == Normalize(asked.provider, raw, None)
           IN  p # Reject /\ jobs' = [jobs EXCEPT ![h] = Enriched(@, p)]
      /\ UNCHANGED <<skills, catalog, runs>>

--------------------------------------------------------------------------------
(* The chain.                                                              *)

Stage(h, from, new) ==
  /\ jobs[h].pipeline = from
  /\ jobs' = [jobs EXCEPT ![h] = new]
  /\ UNCHANGED <<skills, catalog, runs>>

\* normalized_title and normalized_location, where the row has them.
ScoreJob(h) ==
  LET row   == jobs[h]
      score == Score(row.scored, NormalLocation(row.location), row.remote,
                     row.description, skills)
  IN  Stage(h, "INGESTED",
        [row EXCEPT
           !.analysis.score = score,
           !.pipeline = IF score.total < Threshold THEN "REJECTED" ELSE "SCORED"])

\* Mutant: the link takes up rows that have been through the next one.
ClassifiedAgain(row) == row.pipeline \in {"SCORED", "ATS_ANALYZED"}

Classifiable(row) == row.pipeline = "SCORED"

\* The keywords are those the analysis holds, of this text or of another.
Classify(h) ==
  LET row == jobs[h]
  IN  /\ Classifiable(row)
      /\ Stage(h, row.pipeline,
           [row EXCEPT
              !.analysis.persona = Persona(row.scored, row.description, row.analysis.ats),
              !.pipeline = "CLASSIFIED"])

\* A row without a description is passed over.
AtsMatch(h) ==
  /\ jobs[h].description # {}
  /\ Stage(h, "CLASSIFIED",
       [jobs[h] EXCEPT !.analysis.ats = AtsSignals(jobs[h].description, skills),
                       !.pipeline = "ATS_ANALYZED"])

Recommend(h) ==
  LET row == jobs[h]
  IN  /\ catalog # <<>>
      /\ Stage(h, "ATS_ANALYZED",
           [row EXCEPT
              !.analysis.resume =
                 Suggest(catalog, row.title \cup row.description,
                         row.analysis.persona).resume,
              !.pipeline = "RESUME_READY"])

Next ==
  \/ \E ats \in DOMAIN Boards : RunBoard(ats)
  \/ \E source \in DOMAIN Feeds : RunFeed(source)
  \/ \E link \in Submitted : IngestUrl(link)
  \/ \E h \in DOMAIN jobs :
       \/ Resolve(h) \/ ScoreJob(h) \/ Classify(h) \/ AtsMatch(h) \/ Recommend(h)

Spec == Init /\ [][Next]_vars

--------------------------------------------------------------------------------
(* Properties.                                                             *)

(* A run or a resolution that starts from a link stores the posting behind *)
(* that link ("Filter raw_jobs to the one matching the parsed URL",        *)
(* resolution.py:73).                                                      *)
FoundIsAsked ==
  \A h \in DOMAIN jobs :
    LET row   == jobs[h]
        asked == ParseUrl(row.requested)
        key   == IF row.role = "discovery" THEN row.canonical ELSE <<row.source, row.external>>
    IN  row.requested # NoLink => key = <<asked.provider, <<asked.id>>>>

Carries(row, key) == key \in {<<row.source, row.external>>, row.canonical}

(* An ATS posting that some row has been filled from, by a run of its      *)
(* board, a submitted link or a resolution, is not stored a second time:   *)
(* whatever company name the run is given and whatever the row said before *)
(* it was resolved, the posting is recognised by the link the row now has. *)
NotIngestedTwice ==
  [][\A h \in DOMAIN jobs, g \in DOMAIN jobs' \ DOMAIN jobs :
       jobs'[g].source \in Ats
         => ~Carries(jobs[h], <<jobs'[g].source, jobs'[g].external>>)]_vars

(* The persona shown with a row is the one its own text calls for, unless  *)
(* the row was resolved after an earlier text had been searched for        *)
(* keywords (classify.py:76 reads what the former pass left).              *)
PersonaOfOwnText ==
  \A h \in DOMAIN jobs :
    LET row == jobs[h]
    IN  /\ row.pipeline \in {"CLASSIFIED", "ATS_ANALYZED", "RESUME_READY"}
        /\ row.former = NoAts
        => row.analysis.persona = Persona(row.scored, row.description, NoAts)

(* The scorer and the keyword extraction read the same description with    *)
(* code of their own; when the skills file uses canonical names, the share *)
(* of the asked technologies that the user has is the same in both.        *)
TechAgreesWithAts ==
  \A h \in DOMAIN jobs :
    LET row == jobs[h]
    IN  /\ row.pipeline \in {"ATS_ANALYZED", "RESUME_READY"}
        /\ \A s \in skills : NormalizeKeyword(s) = s
        /\ row.analysis.ats.found \cup row.analysis.ats.missing # {}
        => row.analysis.score.tech = row.analysis.ats.score

(* The order of the resumes in the catalog decides only between resumes    *)
(* that the score, the persona and the number of matched skills cannot     *)
(* tell apart.                                                             *)
CatalogOrderIrrelevant ==
  \A h \in DOMAIN jobs :
    LET row  == jobs[h]
        text == row.title \cup row.description
    IN  row.pipeline = "RESUME_READY" /\ ~Tied(catalog, text, row.analysis.persona)
        => row.analysis.resume = Suggest(Reverse(catalog), text, row.analysis.persona).resume
================================================================================
