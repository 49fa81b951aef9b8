------------------------------ MODULE Ingestion ------------------------------
(***************************************************************************)
(* How a posting becomes a row of jobs or is suppressed as a duplicate:    *)
(* one action per record of a batch, as its statements run under READ      *)
(* COMMITTED next to the other open transactions.                          *)
(*                                                                         *)
(* jobs is keyed by dedup_hash and job_sources by (source_name,            *)
(* external_id), the two unique constraints; an INSERT ... ON CONFLICT DO  *)
(* NOTHING waits while another transaction has inserted its key and not    *)
(* committed.  A transaction's writes stay in txn[t] until its commit.     *)
(* Title, company and location are one value, what; a URL is a page and    *)
(* the query, fragment and spelling that canonicalization drops.           *)
(***************************************************************************)
EXTENDS Naturals, Sequences, FiniteSets

CONSTANTS
  Mapped,       \* sources that look postings up by apply URL first
  Unmapped,     \* sources that look them up by dedup_hash only (JobSpy)
  Discovery,    \* sources whose rows may be resolved
  Ats,          \* sources a resolution can land on
  Postings,     \* what the sources publish and users submit
  Whats, Pages, Queries, Externals,
  Workers,      \* worker processes
  Handlers,     \* manual_ingest requests
  MaxBatch,     \* records per batch
  MaxTxns       \* transactions opened, a bound of the model

Manual == "manual_intake"
None   == "none"

Url    == [page : Pages, query : Queries]
NoUrl  == [page |-> None, query |-> None]
Source == Mapped \cup Unmapped \cup {Manual}

Posting ==
  [source : Source, external : Externals \cup {None}, what : Whats,
   apply : Url \cup {NoUrl}, url : Url \cup {NoUrl}]

ASSUME SourcesAssumption ==
  /\ None \notin Source /\ Manual \notin Mapped \cup Unmapped
  /\ Mapped \cap Unmapped = {}
  /\ Ats \subseteq Mapped /\ Discovery \subseteq Mapped \cup Unmapped

ASSUME PostingsAssumption ==
  /\ None \notin Pages /\ None \notin Whats
  /\ Postings \subseteq Posting
  /\ \A p \in Postings : p.source # Manual => p.external \in Externals

ASSUME ProcessesAssumption == Workers \cap Handlers = {}

ASSUME BoundsAssumption == MaxBatch \in Nat \ {0} /\ MaxTxns \in Nat

----------------------------------------------------------------------------
(* The two keys.                                                           *)

Canon(u) == u.page

(* A submission is hashed with its apply URL alone, which may be empty.     *)
UrlForDedup(p) ==
  IF p.apply # NoUrl \/ p.source = Manual THEN p.apply ELSE p.url

Page(p) == Canon(UrlForDedup(p))

DedupHash(p) == [what |-> p.what, page |-> Page(p)]

Hash   == [what : Whats, page : Pages \cup {None}]
NoHash == [what |-> None, page |-> None]

SourceKey(p) == <<p.source, p.external>>
SourceKeys   == Source \X Externals
NoSourceKey  == <<None, None>>

(* A source record is keyed by the source's own id; manual_intake has none. *)
(* A row remembers whether it was backfilled or resolved since its insert. *)

Row ==
  [source : Source, external : Externals \cup {None}, what : Whats,
   apply : Url \cup {NoUrl}, url : Url \cup {NoUrl},
   amended : {"no", "backfilled", "resolved"},
   canonical : SourceKeys \cup {NoSourceKey}]

NoRow ==
  [source |-> None, external |-> None, what |-> None, apply |-> NoUrl,
   url |-> NoUrl, amended |-> "no", canonical |-> NoSourceKey]

RowOfApplyUrl(p) ==
  [source |-> p.source, external |-> p.external, what |-> p.what,
   apply |-> p.apply, url |-> p.apply,
   amended |-> "no", canonical |-> NoSourceKey]

RowOf(p) ==
  [source |-> p.source, external |-> p.external, what |-> p.what,
   apply |-> p.apply, url |-> IF p.url # NoUrl THEN p.url ELSE p.apply,
   amended |-> "no", canonical |-> NoSourceKey]

----------------------------------------------------------------------------

VARIABLES
  jobs,     \* committed rows of jobs by dedup_hash
  sources,  \* committed rows of job_sources: key -> dedup_hash of its job
  txn,      \* open transaction of each worker and handler
  opened    \* transactions opened so far, capped by MaxTxns

vars == <<jobs, sources, txn, opened>>

Processes == Workers \cup Handlers

NoRows  == [h \in Hash |-> NoRow]
NoLinks == [s \in SourceKeys |-> NoHash]
NoUrls  == [g \in Pages \cup {None} |-> NoHash]

Txn ==
  [source : Source \cup {None},                  \* None: nothing is open
   todo : Seq(Postings),                         \* records still to persist
   urls : [Pages \cup {None} -> Hash \cup {NoHash}],  \* apply_url_to_job_id
   rows : [Hash -> Row \cup {NoRow}],            \* inserted or updated
   links : [SourceKeys -> Hash \cup {NoHash}]]   \* job_sources inserted

Closed ==
  [source |-> None, todo |-> <<>>, urls |-> NoUrls, rows |-> NoRows,
   links |-> NoLinks]

Opened(s, batch, map) ==
  [Closed EXCEPT !.source = s, !.todo = batch, !.urls = map]

TypeOK ==
  /\ jobs \in [Hash -> Row \cup {NoRow}]
  /\ sources \in [SourceKeys -> Hash \cup {NoHash}]
  /\ txn \in [Processes -> Txn]
  /\ opened \in 0..MaxTxns

Init ==
  /\ jobs = NoRows
  /\ sources = NoLinks
  /\ txn = [t \in Processes |-> Closed]
  /\ opened = 0

----------------------------------------------------------------------------
(* What a statement of t sees, and what it waits for.                      *)

Seen(t, h) == IF txn[t].rows[h] # NoRow THEN txn[t].rows[h] ELSE jobs[h]

Linked(t, s) == IF txn[t].links[s] # NoHash THEN txn[t].links[s] ELSE sources[s]

Record(t) == Head(txn[t].todo)

Known(t) == txn[t].urls[Page(Record(t))]

Backfills(t) ==
  LET row == Seen(t, DedupHash(Record(t)))
  IN  /\ txn[t].source \in Unmapped
      /\ row # NoRow /\ row.apply = NoUrl /\ Record(t).apply # NoUrl

LinksRecord(t) == txn[t].source # Manual

(* u makes t wait: it has inserted the same dedup_hash, holds the row t    *)
(* would update, or has inserted the same job_sources key.                 *)
Blocks(u, t) ==
  LET h == DedupHash(Record(t))
  IN  \/ /\ Known(t) = NoHash
         /\ txn[u].rows[h] # NoRow
         /\ jobs[h] = NoRow \/ Backfills(t)
      \/ LinksRecord(t) /\ txn[u].links[SourceKey(Record(t))] # NoHash

WaitsFor(t) ==
  {u \in Processes \ {t} : txn[t].todo # <<>> /\ Blocks(u, t)}

Executes(t) == txn[t].todo # <<>> /\ WaitsFor(t) = {}

(* The transaction after its record has been given to the job h, with the  *)
(* rows it has now written and the URLs it has now seen.                   *)
Persisted(t, h, written, seen) ==
  LET s == SourceKey(Record(t))
  IN  [txn[t] EXCEPT
         !.todo = Tail(@), !.rows = written, !.urls = seen,
         !.links = IF LinksRecord(t) /\ Linked(t, s) = NoHash
                   THEN [@ EXCEPT ![s] = h] ELSE @]

WithRow(t, h, row) == [txn[t].rows EXCEPT ![h] = row]

WithUrlForgotten(t, h) == txn[t].urls

WithUrl(t, h) ==
  IF txn[t].source \in Mapped /\ Page(Record(t)) # None
  THEN [txn[t].urls EXCEPT ![Page(Record(t))] = h] ELSE txn[t].urls

----------------------------------------------------------------------------
(* Batches of the source tasks.                                            *)

Batches(s) ==
  UNION {[1..n -> {p \in Postings : p.source = s}] : n \in 1..MaxBatch}

Carries(h, g) == jobs[h].apply # NoUrl /\ Canon(jobs[h].apply) = g

(* Where several rows carry a URL, the first one the scan returns is kept. *)
UrlMaps ==
  {m \in [Pages \cup {None} -> Hash \cup {NoHash}] :
     \A g \in Pages \cup {None} :
       IF \E h \in Hash : Carries(h, g)
       THEN m[g] \in Hash /\ Carries(m[g], g)
       ELSE m[g] = NoHash}

Open(t, new) ==
  /\ txn[t].source = None
  /\ opened < MaxTxns
  /\ txn' = [txn EXCEPT ![t] = new]
  /\ opened' = opened + 1
  /\ UNCHANGED <<jobs, sources>>

OpenMapped(w) ==
  \E s \in Mapped : \E batch \in Batches(s), map \in UrlMaps :
    Open(w, Opened(s, batch, map))

OpenUnmapped(w) ==
  \E s \in Unmapped : \E batch \in Batches(s) :
    Open(w, Opened(s, batch, NoUrls))

Persist(t, new) ==
  /\ txn' = [txn EXCEPT ![t] = new]
  /\ UNCHANGED <<jobs, sources, opened>>

(* The apply URL is known: nothing is inserted.                            *)
SuppressByUrl(t) ==
  /\ Executes(t)
  /\ Known(t) # NoHash
  /\ Persist(t, Persisted(t, Known(t), txn[t].rows, txn[t].urls))

(* The insert conflicts on dedup_hash; JobSpy fills in a missing URL.      *)
SuppressByHash(t) ==
  LET h == DedupHash(Record(t))
      row == [Seen(t, h) EXCEPT
                !.apply = Record(t).apply,
                !.amended = IF @ = "resolved" THEN @ ELSE "backfilled"]
  IN  /\ Executes(t)
      /\ Known(t) = NoHash /\ Seen(t, h) # NoRow
      /\ Persist(t, Persisted(t, h,
           IF Backfills(t) THEN WithRow(t, h, row) ELSE txn[t].rows,
           txn[t].urls))

Insert(t) ==
  LET h == DedupHash(Record(t))
  IN  /\ Executes(t)
      /\ Known(t) = NoHash /\ Seen(t, h) = NoRow
      /\ Persist(t, Persisted(t, h, WithRow(t, h, RowOf(Record(t))),
                              WithUrl(t, h)))

Commit(t) ==
  /\ txn[t].source # None /\ txn[t].todo = <<>>
  /\ jobs' = [h \in Hash |-> Seen(t, h)]
  /\ sources' = [s \in SourceKeys |-> Linked(t, s)]
  /\ txn' = [txn EXCEPT ![t] = Closed]
  /\ UNCHANGED opened

(* A statement raises, the process dies, or the database breaks a deadlock.*)
Abort(t) ==
  /\ txn[t].source # None
  /\ txn' = [txn EXCEPT ![t] = Closed]
  /\ UNCHANGED <<jobs, sources, opened>>

----------------------------------------------------------------------------
(* The API and the resolution.                                             *)

SubmissionsOfTwo ==
  {<<p, q>> : p, q \in {r \in Postings : r.source = Manual}}

Submissions == {<<p>> : p \in {q \in Postings : q.source = Manual}}

Submit(h) ==
  \E batch \in Submissions : Open(h, Opened(Manual, batch, NoUrls))

FoundAt(row, p) ==
  p.source \in Ats /\ Page(row) \in {Canon(p.apply), Canon(p.url)} \ {None}

EnrichedWithoutId(row, p) ==
  [row EXCEPT !.what = p.what, !.amended = "resolved",
              !.canonical = <<p.source, None>>]

Enriched(row, p) ==
  [row EXCEPT
     !.what = p.what,
     !.apply = IF p.apply # NoUrl THEN p.apply ELSE @,
     !.url = IF p.url # NoUrl THEN p.url
             ELSE IF p.apply # NoUrl THEN p.apply ELSE @,
     !.amended = "resolved", !.canonical = SourceKey(p)]

CanonicalLinkOmits(h, p) == sources

CanonicalLink(h, p) ==
  IF sources[SourceKey(p)] = NoHash
  THEN [sources EXCEPT ![SourceKey(p)] = h] ELSE sources

(* The dedup_hash of the row stays what it was.                            *)
Resolve(w) ==
  /\ txn[w].source = None
  /\ \E h \in Hash, p \in Postings :
       /\ jobs[h].source \in Discovery /\ jobs[h].amended # "resolved"
       /\ FoundAt(jobs[h], p)
       /\ \A u \in Processes : /\ txn[u].rows[h] = NoRow
                               /\ txn[u].links[SourceKey(p)] = NoHash
       /\ jobs' = [jobs EXCEPT ![h] = Enriched(@, p)]
       /\ sources' = CanonicalLink(h, p)
  /\ UNCHANGED <<txn, opened>>

Next ==
  \/ \E w \in Workers : OpenMapped(w) \/ OpenUnmapped(w) \/ Resolve(w)
  \/ \E h \in Handlers : Submit(h)
  \/ \E t \in Processes :
       \/ SuppressByUrl(t) \/ SuppressByHash(t) \/ Insert(t)
       \/ Commit(t) \/ Abort(t)

Spec == Init /\ [][Next]_vars

----------------------------------------------------------------------------
(* Properties.                                                             *)

(* A row that has not been resolved is found again under its own fields:   *)
(* whatever filled in its URLs, its dedup_hash is the hash of what it now  *)
(* says (scrape.py backfills apply_url but never dedup_hash).              *)
HashFits ==
  \A h \in Hash :
    jobs[h] # NoRow /\ jobs[h].amended # "resolved" => DedupHash(jobs[h]) = h

(* The row was stored by a task that looked its apply URL up first, and    *)
(* nothing has rewritten that URL since.                                   *)
Claims(row) ==
  row.source \in Mapped /\ row.apply # NoUrl /\ row.amended = "no"

(* Such rows never share an apply URL, under any title, in one batch or in *)
(* several: the URL map is complete for them.  It needs the solo worker.   *)
UrlClaimedOnce ==
  \A h, k \in Hash :
    /\ Claims(jobs[h]) /\ Claims(jobs[k])
    /\ Canon(jobs[h].apply) = Canon(jobs[k].apply)
    => h = k

(* The posting a row was stored or resolved from keeps a source record,    *)
(* although the record may name an older row of the same posting.          *)
ProvenanceKept ==
  \A h \in Hash :
    jobs[h] # NoRow =>
      /\ jobs[h].source # Manual =>
           sources[<<jobs[h].source, jobs[h].external>>] # NoHash
      /\ jobs[h].canonical # NoSourceKey => sources[jobs[h].canonical] # NoHash

(* The documented deployment (README.md:90, -P solo).                      *)
SoloWorker == \A v, w \in Workers : v = w

(* No set of open transactions wait for each other: with one worker only   *)
(* the batch both holds keys and asks for more.                            *)
NoDeadlock ==
  ~ \E S \in (SUBSET Processes) \ {{}} :
      \A t \in S : WaitsFor(t) \cap S # {}

=============================================================================
