# Verification of jobbot

TLA+ specifications of jobbot, the TLC configurations that check them on small instances, and theorems
about them checked by TLAPS. `PROJECT.json` is the machine-readable index: components, runs, the mutant
that each checked property is known to catch, the source lines behind each definition, findings, hazards
and theorems.

Commands, in this directory: `tlc -config JobPipelineSafety.cfg JobPipelineMC` checks one run, `tlapm
JobPipelineProofs.tla` checks the proofs of one module.

## 1. The system

jobbot collects job postings, scores them, and recommends one of the user's existing resumes for each.

    browser ──HTTP──> API (FastAPI) ──commit──> Postgres <──commit── worker (Celery, one solo process)
                        └──── delay() ───────> Redis queues ─────────────┘

Four facts about this deployment carry most of what can go wrong:

* There is **one worker process** (`-P solo`, queues `default,scrape,ingestion`: README.md:90,
  scripts/dev.sh:31), so tasks do not run beside each other; the API does run beside them.
* A session is READ COMMITTED, with no row lock and no version column. Its commit writes the columns that
  changed since the row was loaded (`core/db/session.py:36-54`, `autoflush=False`).
* Tasks are **acknowledged late**, except `scrape_jobspy` and the notification: a worker that dies is
  followed by a redelivery that executes the task from its start. A task that raises is acknowledged as
  failed, and the rest of its chain is dropped.
* A task commits first and publishes its successor afterwards; an API handler commits first and calls
  `delay()` afterwards.

### Inventory

| Component | State | Operations | What makes it correct | Here |
|---|---|---|---|---|
| Job pipeline: `score.py`, `classify.py`, `ats_match.py`, `generation.py`, `job_status.py` | `jobs.pipeline_status`, `user_status`, `status`, `job_analyses` | select rows in a stage, compute, flush, hand ids on | stages in order; verdicts computed from the present text; no job forgotten; the user's decision survives | modelled |
| Worker: Celery app, queues, acknowledgement | messages | receive, acknowledge, redeliver | nothing executed twice at once, nothing lost unnoticed | modelled |
| Resolution: `resolution.py` | `jobs.*`, `job_resolution_attempts`, `job_sources` | check, fetch, filter, promote and rewind | once per job; downstream recomputed; the posting of the link | modelled but for its HTTP requests |
| Source tasks: `ingest.py`, `scrape.py`, `discovery.py` | `jobs`, `job_sources`, `scrape_runs` | fetch, retry, persist, chain | rows stored once; run closed; a failed fetch says so | modelled at five grains |
| Scrape runs: `run_helpers.py`, `run_items.py`, `routes/runs.py` | `scrape_runs` | create, enqueue, close, list | every run ends; its items account for its rows | life and lists modelled |
| API job routes: `routes/jobs.py` | the same tables | launch, manual ingest, resolve, (bulk) status, lists | decisions kept; commit before enqueue; lists agree with the store | state-changing routes and lists modelled |
| Dedup: `core/dedup` | `dedup_hash`, apply URL map | normalize, hash, look up | what the map and the keys suppress stays suppressed | modelled, strings abstracted |
| Connectors: `core/connectors` | polling and paging loops | fetch, normalize, parse a link | bounded in time and attempts, no page lost, stable keys | loops, normalize and links modelled |
| Boards and backends: `core/ingestion` | session, request mode | listing, details, fallback | no candidate lost, a failure is reported as one | modelled, HTML abstracted |
| Scoring, classification, keywords, resume ranking: `core/scoring`, `core/classification`, `core/ats`, `resume_matching.py` | none | pure functions | agree with each other; the best resume wins | modelled over small tables |
| Console: `ui/src/pages` | parameters, rows, selection, loads in flight | load, poll, act and reload | the screen ends up showing what the server holds | list pages and Runs page modelled |
| Generation runs, resume generation, gate package: `generation_runs.py`, `resume.py`, `core/resumes`, `core/automation` | `generation_runs`, `artifacts` | claim, render, store | — | not modelled: nothing starts them |
| Storage, notifications, metrics, WebSocket log, settings, migrations | files, Redis lists | I/O | — | not modelled: nothing in the state above depends on them |

## 2. Modules

| Module | Role |
|---|---|
| `JobStatus` | the status enums and `legacy_status_from_canonical` |
| `JobPipeline` | tables, queues, worker processes, API handlers: one action per step of a task or handler |
| `JobLifecycle` | what the pipeline promises of a job, with nothing about tasks, queues or crashes |
| `JobPipelineMC` | instances of `JobPipeline` for TLC |
| `JobPipelineProofs`, `JobPipelineDelivery` | types, the inductive invariant and its consequences; `JobPipeline` implements `JobLifecycle`, no job is forgotten |
| `ScrapeRuns`, `ScrapeRunsMC`, `ScrapeRunsProofs` | the life of a `ScrapeRun`, its instances, its theorems |
| `Ingestion`, `IngestionMC`, `IngestionProofs` | which record of a batch becomes a row of jobs, its instance, its theorems |
| `Selection` | the entries of a sequence at given positions |
| `Agg1Fetch`, `Serp1Fetch` | one fetch of each discovery connector |
| `DiscoveryFetch`, `DiscoveryFetchMC`, `DiscoveryFetchProofs` | `run_discovery` over the two connectors, its instance, its theorems |
| `BoardAcquisition`, `BoardAcquisitionMC`, `BoardAcquisitionProofs` | the board adapters over the two fetching backends, its instance, its theorems |
| `ListPages`, `RunsPage` | the pages of the console that list rows; the page that polls runs |
| `Console`, `ConsoleMC`, `ConsoleProofs` | the console, one page open at a time, its instance, its theorems |
| `PostingKeys` | what each source makes of a posting: payload, keys, and the way from a link to a posting |
| `Verdicts` | score, persona, keywords and resume ranking as functions |
| `PostingJourney`, `PostingJourneyMC`, `PostingJourneyProofs` | a posting from its sources to its resume, with its real keys and text; its instances, its theorems |

### JobPipeline

*State.* `row` is the jobs table (a posting without a row is `ABSENT`), `analysis` job_analyses, `attempts`
job_resolution_attempts, `queue` the three queues, `work` each worker process with what its open session
has loaded, `api` each handler between its load and its commit, or between its commit and its `delay()`.

*Data.* A text is `listing` (as ingested) or `canonical` (as found by resolution), and an analysis records
which text it was computed from. That is all the properties need of descriptions, scores and keywords.
Whether a job scores below the threshold, whether a resume matches, whether a resolution finds its posting
are choices of the step.

*A chain task* is four steps: `StartChainTask` takes a message and selects rows (those named by the
message and in the task's input stage, or every row in that stage when it names none); `ScoreCommit`,
`ClassifyCommit`, `AtsCommit`, `GateRecommend` or `GateDecline` computes and flushes; `Publish` sends the
next link with the returned ids; `Acknowledge` ends it. `Crash` and `TaskFails` fit between any two. A flush
(`FlushedBy`) writes a column only where the computed row differs from the *loaded* one, over whatever the
database holds by then.

*A resolution* checks the job in one transaction (`ResolveCheck`), fetches, and writes in another
(`ResolveLoad`, `ResolveCommit`) without checking again. *Source tasks* insert any set of unstored
postings and publish a chain for them; JobSpy publishes a chain for everything `INGESTED`.

### ScrapeRuns

`run` is scrape_runs with its items by outcome, `stored` the postings that have a row, `mail` the number
of messages of each run by their retry count, `work` the workers, `api` the handlers between commit and
`delay()`. The five families of source task differ in their retry limit, in when they are acknowledged and
in which answers close the run. One transaction is one step: ON CONFLICT DO NOTHING on the unique key
makes parallel inserts of one posting serial. `InsertedOnce` takes that clause for granted and asks what the
runs then report; the waits behind it are in `Ingestion`. `stats_json` is left out; it is the size of the sets.

### Ingestion

Three modules see a source task at three grains. `JobPipeline` follows its rows, `ScrapeRuns` its run, and
`Ingestion` the records of its batch: `OpenMapped` (boards, feeds and URLs, which first read all apply URLs into
`apply_url_to_job_id`) or `OpenUnmapped` (JobSpy, which does not) opens a transaction, then each record
is given to a stored job (`SuppressByUrl`, `SuppressByHash`, with JobSpy's backfill) or inserted
(`Insert`), and `Commit` or `Abort` ends it. `Submit` is `manual_ingest`. `Resolve` is the write of a
resolution; it rewrites a row and leaves its `dedup_hash`.

*State.* `jobs` is the table keyed by its unique `dedup_hash`, `sources` is job_sources keyed by
`(source_name, external_id)`, `txn` each process's open transaction with the records it has still to
persist, the URL map it read, and its own uncommitted writes. A statement sees its transaction's writes
over the committed state; an insert whose key another transaction has inserted waits (`Blocks`), which
is what ON CONFLICT DO NOTHING does in Postgres.

*Data.* Company, title and location are one value; a URL is a page and what canonicalization drops. The
external id of a JobSpy posting is what `scrape.py:224` falls back to. The statements of one record are
one step; a row's history since its insert is one field (`amended`), which no guard but Resolve's reads.
Companies, run items, records that fail to normalize and row locks of status updates are left out.

### DiscoveryFetch, Agg1Fetch, Serp1Fetch

`run_discovery` chooses a connector by name, asks its feature flag (`NotDispatched`), lets it fetch
(`Agg1Step`, `Serp1Step`) and turns the `FetchResult` into the end of the run (`Persist`).

*AGG-1* asks for one page after the other. `PageAnswered` appends what the provider's list holds at that
moment between `(page-1)*PerPage+1` and `page*PerPage`, cuts at the result limit and stops at the first of
four conditions; `RequestFailed` returns an error and forgets the pages before it. Between two requests the list
changes: `Publish` puts a posting at its head, `Withdraw` takes one out.

*SERP1* posts a task, polls until it is ready, and reads the result. Its time is `now`: a poll takes up to
`MaxRequestTime`, a pause `Interval`, and the deadline is looked at before a poll only. An answer can be
lost at every step, and the provider finishes the task, or fails it, at any moment.

Numbers that arrive as request parameters are clamped as in the code, from below every limit to above it.

### BoardAcquisition

The adapters differ in five traits (a link listed twice, how `max_results` cuts, whether detail pages are fetched,
where the apply URL comes from with and without the detail page), which the records `StartupJobsNYC` ..
`YCJobs` state. One acquisition is `AcquireListing`, the answers of the backend URL by URL
(`ScraplingCaptures`, `ScraplingModeFails`, `ScraplingGivesUp` with the fallback from mode to mode;
`BbBrowserCaptures`, `BbBrowserFails`), `ListingRead`, the details, and `AcquireReturns` or
`ListingFailed`. The board is acquired twice from a site that does not change: whatever differs between the
two batches comes from the fetches. HTML is reduced to anchors (some of which lead nowhere) and to the fields
a page tells. A captured page need not tell them: the browser backend may return a text snapshot or a login
wall, Scrapling an empty or half-rendered page. A listing may be read as empty (`ScraplingContents`,
`BbBrowserContents`), a detail page tells any part of what is on it (`DetailContents`), and what it does
not tell stays as the listing had it. `limit` is the API's, 1 to 100, or 0 for none given.

### Console, ListPages, RunsPage

`ListPages` is one machine for All Jobs, Ready to Apply and Run Details, which differ in their filters and in
what can be done to a row. `loads` and `updates` are the requests in flight; answers arrive in any order,
nothing cancels a load, and a change of filter on page two issues two. The expanded list of All Jobs is one load
of several answers (`AnswerFirst`, `AnswerRest`). An action reloads with the parameters of its click
(`UpdateReturned`). The error banner is no state of the model, because the user can dismiss it and no step
depends on it. A page is held to its rows unless its last load has not arrived, or an update was stored, its
answer was lost and no load was issued since (`lost`, a history variable).

`RunsPage` adds polling: every two seconds while a shown run is RUNNING, whether the former load has ended or
not. `Console` opens one page: a page drops its state when it is left.

### PostingJourney, PostingKeys, Verdicts

Here a posting has its real keys and text, and transactions follow one another. A text is the set of table
words in it, a link a page with the query that canonicalization drops and the mark of an application
form. `PostingKeys` has `normalize` of every source, `compute_dedup_hash`, `parse_supported_url` and the filter
that picks the posting of a link from a board. `Verdicts` has the four pure functions; the tables are
cut to a few entries of every kind, with the weights of the code, and fractions are exact. `PostingJourney`
stores batches (`RunBoard`, `RunFeed`, `IngestUrl`), resolves rows (`Resolve`) and takes them through the
chain. `Occurs` says which slug is part of another posting's address.

## 3. Runs

| Run | Instance | Question | Answer |
|---|---|---|---|
| `safety` | 1 discovery and 1 canonical job, 1 worker, 3 launches, 1 fault | types; verdicts match the text; resolved once; no job forgotten; implements the lifecycle | holds |
| `user` | the same with status requests, 2 launches | what a task loaded is current at its commit; the user's decision is kept | holds |
| `live` | 1 discovery and 1 canonical job, fair, 2 launches, 1 fault | every job is decided if nothing fails; a stranded job is rescued by the next JobSpy chain | holds |
| `runs` | 2 runs, 2 workers, 2 postings, 3 raises, 1 fault, fair | inserted once; a run is stranded in four ways only; and if nothing fails: delivered once, results stand, rows accounted, runs end | holds |
| `ingestion` | 9 postings on 2 pages, 1 worker, 2 submissions, 2 records per batch, 3 transactions | rows found under their own fields; apply URLs claimed once; source records kept; no deadlock | holds |
| `fetch` | 5 postings, pages of 2, 2 changes of the list; poll pauses and limits from {0, 1, 3, 5}, a failure at every request | nothing skipped; complete below the limits; polling bounded, the answer of its own task; an empty success met an empty source | holds |
| `boards` | 7 kinds of adapter, 2 postings, listings of 3 anchors, a limit of 2 or none | every URL answered once; no candidate lost; an error means nothing came; when the key of a posting can change | holds |
| `console` | 2 jobs on pages of 1, 2 requests, 1 failure; 2 runs, 2 loads in flight, 1 fault | settled rows are current; a page at rest shows every run's end; an end is shown eventually | holds |
| `posting` | 4 postings on 3 tracking systems, 3 feeds, 4 links, 3 skill files, 4 catalogs, 2 runs of sources | stored once; persona of its own text; score and keywords agree; the catalog's order does not matter | holds |
| `suggestion` | 1 job | suggestion stored | violated |
| `runs_exhausted` | 1 run, 4 raises, no fault | every run ends (`RunSettles`) | violated |
| `wrong_posting` | as `posting`, two slugs of which one contains the other | a link is answered with its posting (`FoundIsAsked`) | violated |

*Bounds.* Three launches let a resolution and a second source task run around a first chain, which is
what can interleave on one job. One fault suffices for every loss of one message, and the properties
guarded by `faults = 0` need none. Four raises exceed every
retry limit; `RunEnds` promises an end for up to two, which stay below all of them, and of behaviours
without a fault from there on. In `ingestion`, two records per batch are what in-batch duplicates and
lock order need, and three transactions let one batch run beside a submission over what another has stored;
the postings include one under two titles, one applied to on another page, one without an apply URL, and
a submission without one.

In `fetch`, five postings fill three pages of two, the limits lie below and above what the list
holds, and two changes are an arrival and a withdrawal in either order; the theorems of section 5 remove these
bounds. In `boards`, a listing of three anchors has repeats and entries that are no posting around
a valid one, and there is an adapter of every combination of traits in the code. In `console`, of two requests one
acts and one changes a parameter meanwhile; two jobs on pages of one stand for a list longer than a
page. `posting` needs one run to store a posting and one to meet it again (67,029 states); it also
passes with three runs (1.3 million). `wrong_posting` passes as soon as no slug is part of another (`Apart`).
`fetch` and `boards` use symmetry of the postings, which no definition tells apart, and check
invariants only; the runs with liveness use none.

*Deadlock.* The bounds on launches, runs and raises stop every instance in the end, as does an idle
system, so deadlock is not checked.

*Fairness.* Worker steps are weakly fair because a Celery process loops over its queues, and a handler
that has committed goes on to its `delay()` because the event loop runs it. Nothing is assumed of launches,
requests or faults. For runs, receipt is weakly fair per run: the broker delivers each queue in order and
only boundedly many other messages exist. On the Runs page the interval fires, the API answers and answers arrive;
that any run ends, that a user clicks or that a request succeeds is not assumed.

## 4. Findings

1. **The gate's suggestion is never stored** (`suggestion`). `generation.py:81` changes the loaded JSON
   document in place and assigns the same object; a plain JSONB column shows no change, so nothing is
   written (ARCHITECTURE.md:89 says it is stored and surfaced).
2. **An exhausted retry leaves the run RUNNING** (`runs_exhausted`). `retry(exc=e)` raises `e`, so
   `except self.MaxRetriesExceededError` is dead code in all five places.
3. **An Ashby link is answered with another posting** (`wrong_posting`). `resolution.py:73` announces the one
   matching the parsed URL; the filter is a substring test over addresses (`resolution.py:89`,
   `ingest.py:821`), so `platform-engineer` finds `platform-engineer-2` if the board lists that first.

Met on the way, without a run of their own.

*Pipeline.* A status request that commits between a task's load and flush leaves `user_status` APPLIED with a
mirror that says SCORED, although `core/job_status.py:5-6` wants all writers to derive it. A job can stay
ATS_ANALYZED: after a crash between the ATS commit and the acknowledgement, the redelivered task selects only
CLASSIFIED jobs, returns none, and the gate ignores an empty list; nothing sweeps this stage, while a job
stranded at INGESTED is swept (`live`). The rewind of a resolution leaves job_analyses alone, so the persona of
the new text takes in keywords of the old one; `PersonaOfOwnText` excepts that pass. A resolution never rewrites
`title`, only `normalized_title`, and the gate matches resumes against `job.title or job.normalized_title`
(`generation.py:64`): the discovery title. `tests/test_pipeline_chain.py:275` expects ATS_ANALYZED at the end of
the chain, while the gate moves the job to RESUME_READY when a catalog exists.

*Runs.* `RunSettles` is checked without crashes, so its counterexample is the exhausted retry. `runs` has
crashes, and `StrandedByFailure` says there which steps leave a RUNNING run with nothing that could end it:
the API dies between the commit of the run and its `delay()` (`routes/jobs.py:549`), the worker dies in
`scrape_jobspy`, which is acknowledged on receipt (`scrape.py:72`), the persist transaction fails, or the source
raises with the retries used up. No other step does, redeliveries included. A redelivered task rewrites a
finished run, and its own rows turn up as duplicates: `AccountedWithoutFaults` promises nothing after a crash.

*Two workers.* With two worker processes TLC finds `AnalysisFresh`, `ResolvedOnce`, `NoJobForgotten` (with
discovery jobs) and the lifecycle violated: a task that loaded a row before a rewind commits over it.
`NoJobForgotten` holds with two workers and canonical jobs only. `UrlClaimedOnce` and
`NoDeadlock` of `Ingestion` fail as well: two batches each read a URL map without the other's rows, or take the
same keys in opposite orders. The code does not say that it depends on the solo worker, but it does.

*Keys.* A resolution keeps the `dedup_hash` of the discovery fields; what recognises the posting afterwards
is the link it took over, which is why `NotIngestedTwice` holds and why it fails when the links are left as
they were. Under a changed page or title the posting may still become a second row, and the resolution of a
posting that already has a row leaves two rows with one source record. `docs/generated/db-schema.md:32` calls
`dedup_hash` part of the normalized identity; no document promises uniqueness across a resolution, so
`HashFits` excludes resolved rows. Postings whose URLs differ only in the query are one page
(`normalization.py:71`). The external id of a SERP result without `job_id` includes its time stamp, so
it changes from run to run. Ashby's application forms are no link `parse_supported_url` knows. The key of a
posting of most boards changes when its detail page is missed once, or captured without its apply link: two
captures of an unchanged site are enough (`KeyStable` says for which boards).

*Verdicts.* The keyword `c++` matches nothing, because a word boundary is asked for after the sign
(`core/matching.py:15`). The scorer compares skills as the file spells them and the keyword
extraction their canonical names, so they agree only for a canonical file. A rationale says "covers N+
years" also when the resume has fewer (`resume_matching.py:106-107`). Full ties go to the catalog's order.

*Console.* The expanded list is put together from queries whose order has ties: with two jobs of equal
rank TLC finds one shown twice and the other not at all. A reload after an action uses the parameters of the
click, so a filter changed meanwhile shows the rows of the old one. A selection survives a change of filter.

## 5. Proofs

Everything below holds for every value of the constants; TLC checked each invariant first. Every invariant of a
passing run is the subject of a theorem.

**Types** (`TypeCorrect`, `RunsTypeCorrect`, `IngestionTypeCorrect`, `FetchTypes`, `BoardTypes`,
`ConsoleTypes`).

**The pipeline's invariant.** `AnalysisFresh` is not inductive: a commit of a task that loaded a row before a
resolution rewound it would store an old verdict on a new text. What prevents it is that nobody writes the
columns a task works from while it works. `SnapshotCurrent` says so, and says of a resolution under way that its
job is still unresolved. The inductive invariant is

    IInv == TypeOK /\ SnapshotCurrent /\ UnstoredBlank /\ AnalysisFresh /\ ResolvedOnce

and `CommitStores` is the step that uses it: a flush over a row that is as loaded, up to the user's columns,
stores what was computed. `SnapshotCurrent` is kept because all other writers of those columns are worker steps,
and there is one worker (`SoloWorker`, the only assumption of these proofs besides the constants' types), while
a status request changes `user` and `status` alone. From IInv:

* `AnalysisIsFresh`, `SnapshotIsCurrent`, `ResolvedAtMostOnce`, with any crashes and redeliveries;
* `ImplementsLifecycle`: each commit is one step of `JobLifecycle` on the mapped state (the stage is the
  pipeline_status column), everything else stutters.

`DecisionsAreKept` needs no `SoloWorker`: a task never changes the `user` column of what it loaded, so a flush
never writes it, however stale.

**No job is forgotten** (`NoJobIsForgotten`, `SoloWorker`). `NoJobForgotten` says that a job that waits for a
stage is carried to that stage. `Delivery == faults = 0 => AllHeld` restates it in one case for all stages: a
job that waits for t is held for t by a message of t with its id or (except for the gate) with no ids, by a
queued manual ingest, by the worker that has loaded it for t, by the worker between the commit that made it wait
and its `Publish`, or by an API handler before its `delay()`. It is inductive together with IInv only: that a
link which loaded the job really commits it is `SnapshotCurrent` once more, through `CommitStores`, and each
other step hands the job on or ends its wait. It promises nothing after a fault: a crash between a commit and
its `Publish` is what `SweepRescues` is about, which TLC checks.

**Runs.** `InsertedByOneRun` is inductive with types: new insertions avoid everything stored, and stored
contains every earlier insertion. It holds with parallel workers and crashes. `DeliveredOnce` rests on `Single`:
a RUNNING run is in exactly one of handler, message and worker at most, and an ended run in none. `ResultsStand`
and `RowsAccounted` follow from it: only an executing task writes a run, and the run it executes has not ended
and has reported nothing. `RowsAccounted` is the one that section 4 says to fail after a crash. `StrandingSteps`
needs no invariant but the types, and holds with any number of crashes and workers: a run that waits does so in
a handler, a message or a worker, each step moves one of these on, and the steps that drop one are the four.

**Ingestion.** `Typed` adds to the types the shape of a transaction: a closed one is `Closed`, a submission has
one record and has written nothing while it waits for it. `DeadlockFree` follows from that shape alone under
`SoloWorker`: whoever blocks somebody holds a key, and whoever holds a key and still waits is the worker.
`HashesFit` extends the invariant to uncommitted rows; a backfill only ever meets a row of the same page.
`UrlsClaimedOnce` (`SoloWorker`) rests on `MapComplete`: of every row the worker sees that claims a URL, its map
knows the URL, in the batch as in the table. Nobody else can add such a row: submissions and backfills do not
claim, and a resolution ends a claim. `ProvenanceIsKept` needs no `SoloWorker`: records of job_sources are never
removed, and a row is written in the transaction that has its record or sees it.

**Fetches** (`DiscoveryFetchProofs`). `PollingIsBounded` and `TimeoutsAreReal` hold for every number of
attempts, interval and timeout: `InBounds` keeps attempt and time within what the parameters say, and a poll
adds to a time that was within the deadline. `NothingIsSkipped` and `ShortFetchesAreComplete` hold for every
page size, both limits and any number of changes. As long as nothing is withdrawn, the list at the start is the
end of the list of now, moved down by `Shift`. All pages so far were full, so the position read is the number
collected, and `Collected` says that what stood at the start and is now at or above that position is collected:
an arrival only moves entries down, a page takes the next positions. Two entries are never equal, so a later one
that is collected has its position read, and every earlier one with it.

`SuccessesAreAnswers` and `EmptySuccessesAreEmpty` join both connectors to the run (`FetchInv`): a successful
SERP1 fetch was seen ready and holds one record for each object of its task's result, an AGG-1 fetch that
collected nothing read a first page at or past the end of the list, and `Persist` reports what the connector
ended with.

**Boards** (`BoardAcquisitionProofs`). `KeysAreStable` and `ErrorsMeanNothing` hold for every site, listing and
limit. Each record of either batch has the apply URL that its posting, its adapter and what its detail page told
give (`RecordFits`). The first two are the same in both, so records with different keys differ in whether the
link was read (`KeysDiffer`), whether a page was missed or captured without it. `UrlsAreAnswered` and
`CandidatesAreKept` rest on `AInv`: while a board is fetched, each URL asked for is in exactly one of the queue,
the captures and the failures, whatever mode its backend fell back to (`Accounted`), and the records of a
returned batch are made from the candidates (`Made`). That no candidate is lost is then a fact about `Records`
and `Extract`; that no URL is asked for twice is one about `DetailUrls`, whose entries differ because each is at
its first position in the candidates.

**Console** (`ConsoleProofs`). `RowsAreCurrent` and `RunsAreCurrent` hold for any number of loads in flight, in
any order of their answers. On a list page the loads are numbered (`Numbered`), and the last one issued carries
the parameters of the page, or those of an action, and what the store holds now, unless an update is on its way
back or its answer was lost (`Fresh`): an update that is stored makes the last load stale, and its return issues a new one. The
expanded list is right about how many rows it has, which is all that the property claims of it. On the Runs page
no load is numbered. `Covered` says of each run that exists why it is or will be on the screen: a form has yet
to load, a request failed, a call that will show it was issued after all those that will not, or such a call has
arrived and the others are overtaken. `AllPast` adds that no answer is ahead of the table, so a run shown as
ended has ended.

**Posting** (`PostingJourneyProofs`). `PostingsAreStoredOnce` proves the action property `NotIngestedTwice`. Its
invariant is `KeyInv`: a row that came from a tracking system, or was resolved to one, has the apply link which
that system publishes for the posting. The rows before and after each record of a batch are related by `Grown`,
by induction over the batch: keys stay, links stay, and a new row of a tracking system carries a key that no row
carried before, because a row with the key would have had the link, and the URL map finds it. It needs
`PagesAssumption`: a posting of a board has a page, and postings with one id have one. The code leans on it
without saying so: each connector reads one id and one address per posting (`greenhouse.py:151`, `lever.py:141`,
`ashby.py:112`) and keys by both. A posting without an address would be recognised by its hash alone, which a
changed title changes.

`PersonasFitTheText`, `ScoresAndKeywordsAgree` and `CatalogsCanBeReordered` rest on `VerdictInv`: in every
stage, each row has the verdicts that the functions of `Verdicts` give for its own text, the skills file and the
catalog. Scores and keywords agree for every text and every canonical skills file because both count the
technologies asked for among the same names. The order of the catalog is irrelevant because the ranking is a
strict weak order: its key compares fractions, exactly, by cross-multiplication, so that it is transitive needs
an argument; a best resume exists by induction over the catalog, and if no other has its key, the reversed
catalog has the same best. `SharesAreBounded` says that the share of the skills that a score is made from lies
between none and all.

**What the proofs cost the models.** Induction over a sequence is available in its set form: a set of naturals
that is not empty has a least element (`Least`, from the library's well-founded induction), so a counterexample
to a claim about the first n entries has a shortest one. What could not be reasoned about were operators of the
libraries that take an operator (`SelectSeq`, `FoldLeft`), so the filters of `BoardAcquisition` and `Serp1Fetch`
are `Selected`, `StoreAll` is a recursive function, and `Matching` is the least position of a hit; every run
reaches the states it reached before.

**Only model-checked.** Liveness (`EveryJobDecided`, `SweepRescues`, `RunEnds`, `EndShown`), out of the prover's
reach, and the three properties that are violated. Two operators still go through the library's fold over a set
(the weighted sums of `Verdicts`), so no theorem says how large a whole score is.

## 6. Not modelled

* Row locks of status updates in Postgres, and the deadlock they could close with JobSpy's backfill; Redis
  losing data; the visibility timeout, which would redeliver a task that runs for more than an hour.
* Generation runs, resume generation and the package of the generation gate. No route, task or page starts
  `generate_grounded_resume_task` any more, and the routes that read artifacts show what earlier versions
  stored. The gate of the chain is `generation.py`, which is modelled.
* Third-party work: Scrapling, the browser session with its authentication, python-jobspy, and the HTTP call of an ATS
  connector, each of which is one outcome.
* Companies (`company_names` decides nothing modelled), the normalization of legacy run items, `run_ingestion`'s own
  HTTP requests, the wording of rationales.
* The job detail and manual intake pages, which hold one request at a time, the detail, artifact and source-list
  routes, storage, notifications, metrics, settings, the WebSocket log and migrations.

## 7. Plan

1. Proofs: the bounds of a whole score, from a form of the weighted sums the provers can use.
2. `Ingestion` composed with `ScrapeRuns`: the items of a run against the rows its batch stored.
3. The job detail page, if it comes to hold more than one request.
