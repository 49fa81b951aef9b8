------------------------------- MODULE ScrapeRuns -------------------------------
(***************************************************************************)
(* The life of a ScrapeRun: the API commits it RUNNING and then enqueues   *)
(* its task; a worker fetches, retries when the source raises, and in one  *)
(* transaction stores the postings it does not know yet and ends the run.  *)
(* A task acknowledged late is delivered again after a crash, and then     *)
(* executes again from the start, on the same run.                         *)
(***************************************************************************)
EXTENDS Naturals, FiniteSets

CONSTANTS
  Runs,          \* the ids of runs
  Postings,      \* what the sources list; two of them never share a dedup key
  Broken,        \* postings the source's normalize rejects
  Workers,       \* Celery worker processes
  Handlers,      \* API handlers in flight
  Disabled,      \* sources switched off by a feature flag the worker reads
  MaxRaises,     \* bound: fetches that raise
  MaxFaults      \* bound: crashes and failed persists

\* greenhouse, lever, ashby and run_discovery share one shape ("connector"); the
\* public, portfolio and auth boards another ("adapter").
Sources == {"jobspy", "connector", "adapter", "url_ingest"}

ASSUME RunsAssumption ==
  /\ "none" \notin Runs
  /\ Broken \subseteq Postings
  /\ Disabled \subseteq Sources
  /\ MaxRaises \in Nat
  /\ MaxFaults \in Nat

Statuses == {"absent", "RUNNING", "SUCCESS", "FAILED", "SKIPPED"}

\* Mutant: one retry for every task.
RetryLimitOne(source) == 1

\* max_retries of the task, 0 where the task does not call retry.
RetryLimit(source) == CASE source = "connector" -> 3
                        [] source = "adapter"   -> 2
                        [] OTHER                -> 0

\* Mutant: every task is acknowledged on receipt.
AcksOnReceipt(source) == FALSE

\* scrape_jobspy is acknowledged on receipt, the others when they have returned.
AcksLate(source) == source # "jobspy"

\* A row of scrape_runs; its items are items_json by outcome, error is error_text.
Run == [status : Statuses, source : Sources \cup {"manual_intake"},
        inserted : SUBSET Postings, duplicates : SUBSET Postings,
        skipped : SUBSET Postings, error : BOOLEAN]

NoRun == [status |-> "absent", source |-> "manual_intake", inserted |-> {},
          duplicates |-> {}, skipped |-> {}, error |-> FALSE]

Retries == 0..3

VARIABLES
  run,      \* scrape_runs
  stored,   \* the postings that have a row in jobs
  api,      \* per handler: the run it has committed and is about to enqueue
  mail,     \* how many messages of a run wait, by their number of retries
  work,     \* what each worker is doing
  raises,   \* fetches that raised so far
  faults    \* crashes and failed persists so far

vars == <<run, stored, api, mail, work, raises, faults>>

Idle == [phase |-> "idle", run |-> "none", retries |-> 0]
NoHandler == "none"

TypeOK ==
  /\ run \in [Runs -> Run]
  /\ stored \in SUBSET Postings
  /\ api \in [Handlers -> Runs \cup {NoHandler}]
  /\ mail \in [Runs -> [Retries -> Nat]]
  /\ work \in [Workers -> [phase : {"idle", "fetching", "done"},
                           run : Runs \cup {"none"}, retries : Retries]]
  /\ \A w \in Workers : work[w].phase # "idle" => work[w].run \in Runs
  /\ raises \in 0..MaxRaises
  /\ faults \in 0..MaxFaults

Init ==
  /\ run = [r \in Runs |-> NoRun]
  /\ stored = {}
  /\ api = [h \in Handlers |-> NoHandler]
  /\ mail = [r \in Runs |-> [n \in Retries |-> 0]]
  /\ work = [w \in Workers |-> Idle]
  /\ raises = 0
  /\ faults = 0

--------------------------------------------------------------------------------
(* The API.                                                                *)

\* A launch route: the run is committed, its task not yet enqueued.
Create(h, r, source) ==
  /\ api[h] = NoHandler
  /\ run[r].status = "absent"
  /\ run' = [run EXCEPT ![r] = [NoRun EXCEPT !.status = "RUNNING", !.source = source]]
  /\ api' = [api EXCEPT ![h] = r]
  /\ UNCHANGED <<stored, mail, work, raises, faults>>

Post(r, n) == mail' = [mail EXCEPT ![r][n] = @ + 1]

\* delay().
Enqueue(h) ==
  /\ api[h] # NoHandler
  /\ Post(api[h], 0)
  /\ api' = [api EXCEPT ![h] = NoHandler]
  /\ UNCHANGED <<run, stored, work, raises, faults>>

\* Mutant: every posting that can be normalized is reported as inserted.
EndedAllInserted(r, S, partial) ==
  [run[r] EXCEPT !.status = "SUCCESS", !.inserted = S \ Broken,
                 !.duplicates = {}, !.skipped = S \cap Broken, !.error = partial]

\* Mutant: the postings stored by the run are left out of its items.
EndedNoItems(r, S, partial) ==
  [run[r] EXCEPT !.status = "SUCCESS", !.inserted = {},
                 !.duplicates = (S \cap stored) \ Broken,
                 !.skipped = S \cap Broken, !.error = partial]

\* Run r as a persist of the fetched postings S leaves it.  A posting that is
\* stored already, by whichever run, is a duplicate.
Ended(r, S, partial) ==
  [run[r] EXCEPT !.status = "SUCCESS",
                 !.inserted = S \ (stored \cup Broken),
                 !.duplicates = (S \cap stored) \ Broken,
                 !.skipped = S \cap Broken,
                 !.error = IF run[r].source = "adapter" THEN partial ELSE @]

\* manual_ingest: the run and its one row in one transaction.
ManualRun(r, p) ==
  /\ p \notin Broken
  /\ run[r].status = "absent"
  /\ run' = [run EXCEPT ![r] =
               [NoRun EXCEPT !.status = "SUCCESS",
                             !.inserted = {p} \ stored,
                             !.duplicates = {p} \cap stored]]
  /\ stored' = stored \cup {p}
  /\ UNCHANGED <<api, mail, work, raises, faults>>

--------------------------------------------------------------------------------
(* The worker.                                                             *)

\* A message is delivered.
Start(w, r, n) ==
  /\ work[w].phase = "idle"
  /\ mail[r][n] > 0
  /\ mail' = [mail EXCEPT ![r][n] = @ - 1]
  /\ work' = [work EXCEPT ![w] = [phase |-> "fetching", run |-> r, retries |-> n]]
  /\ UNCHANGED <<run, stored, api, raises, faults>>

Executing(w) == work[w].phase = "fetching"
Finish(w) == work' = [work EXCEPT ![w].phase = "done"]

\* Mutant: a failed run gets a status of its own, which the model does not list.
ClosedUnlisted(r, status, skipped) ==
  [run[r] EXCEPT !.status = "ERROR", !.inserted = {}, !.duplicates = {},
                 !.skipped = skipped, !.error = TRUE]

\* Run r with status and an empty list of items.
Closed(r, status, skipped) ==
  [run[r] EXCEPT !.status = status, !.inserted = {}, !.duplicates = {},
                 !.skipped = skipped, !.error = TRUE]

Close(w, status, skipped) ==
  /\ run' = [run EXCEPT ![work[w].run] = Closed(work[w].run, status, skipped)]
  /\ Finish(w)
  /\ UNCHANGED <<stored, api, mail, faults>>

\* The feature flag is off: mark_run_skipped, before anything is fetched.
Skip(w) ==
  /\ Executing(w)
  /\ run[work[w].run].source \in Disabled
  /\ Close(w, "SKIPPED", {})
  /\ UNCHANGED raises

\* What a source may answer.
Fetching(w) == Executing(w) /\ run[work[w].run].source \notin Disabled

\* The source answers with an error, and the run is FAILED.
FetchError(w) ==
  /\ Fetching(w)
  /\ Close(w, "FAILED", {})
  /\ UNCHANGED raises

\* ingest_url did not find the posting: FAILED, with one skipped item that says so.
NotFound(w, p) ==
  /\ Fetching(w)
  /\ run[work[w].run].source = "url_ingest"
  /\ Close(w, "FAILED", {p})
  /\ UNCHANGED raises

\* Mutant: the task goes on after having published its retry.
AfterRaiseContinues(w) == work[w]

\* The worker after a fetch that raised: retry() publishes and raises, and so does
\* an exhausted retry(), with the original exception.
AfterRaise(w) == [work[w] EXCEPT !.phase = "done"]

\* The fetch raises in a task that retries.  When the retries are used up, retry()
\* raises the exception it was given, not MaxRetriesExceededError: the handler
\* that would close the run is not entered.
Raise(w) ==
  LET r == work[w].run
      n == work[w].retries IN
  /\ Fetching(w)
  /\ RetryLimit(run[r].source) > 0
  /\ raises < MaxRaises
  /\ raises' = raises + 1
  /\ IF n < RetryLimit(run[r].source) THEN Post(r, n + 1) ELSE UNCHANGED mail
  /\ work' = [work EXCEPT ![w] = AfterRaise(w)]
  /\ UNCHANGED <<run, stored, api, faults>>

\* The fetch raises in a task that does not retry: it closes the run.
RaiseClosing(w) ==
  /\ Fetching(w)
  /\ RetryLimit(run[work[w].run].source) = 0
  /\ raises < MaxRaises
  /\ raises' = raises + 1
  /\ Close(w, "FAILED", {})

\* The persist transaction.  An adapter's batch may carry an error and records
\* at once; ingest_url keeps the one posting it was asked for; JobSpy's rows are
\* normalized by the library.
Persist(w, S, partial) ==
  LET r == work[w].run IN
  /\ Fetching(w)
  /\ run[r].source = "url_ingest" => Cardinality(S) = 1
  /\ run[r].source = "jobspy" => S \cap Broken = {}
  /\ partial => run[r].source = "adapter" /\ S # {}
  /\ run' = [run EXCEPT ![r] = Ended(r, S, partial)]
  /\ stored' = stored \cup (S \ Broken)
  /\ Finish(w)
  /\ UNCHANGED <<api, mail, raises, faults>>

\* The message is acknowledged.
Acknowledge(w) ==
  /\ work[w].phase = "done"
  /\ work' = [work EXCEPT ![w] = Idle]
  /\ UNCHANGED <<run, stored, api, mail, raises, faults>>

--------------------------------------------------------------------------------
(* Failures.                                                               *)

Faulty == faults < MaxFaults /\ faults' = faults + 1

\* A worker dies; what it had not acknowledged is delivered again.
Crash(w) ==
  /\ Faulty
  /\ work[w].phase # "idle"
  /\ IF AcksLate(run[work[w].run].source) THEN Post(work[w].run, work[w].retries)
                                          ELSE UNCHANGED mail
  /\ work' = [work EXCEPT ![w] = Idle]
  /\ UNCHANGED <<run, stored, api, raises>>

\* The persist transaction raises: nothing is committed, no handler, no retry.
PersistFails(w) ==
  /\ Faulty
  /\ Fetching(w)
  /\ Finish(w)
  /\ UNCHANGED <<run, stored, api, mail, raises>>

\* The API process dies, or delay() raises, after the commit of the run.
HandlerDies(h) ==
  /\ Faulty
  /\ api[h] # NoHandler
  /\ api' = [api EXCEPT ![h] = NoHandler]
  /\ UNCHANGED <<run, stored, mail, work, raises>>

--------------------------------------------------------------------------------

Deliver(w) == \E r \in Runs, n \in Retries : Start(w, r, n)

Answer(w) ==
  \/ Skip(w) \/ FetchError(w) \/ Raise(w) \/ RaiseClosing(w)
  \/ \E p \in Postings : NotFound(w, p)
  \/ \E S \in SUBSET Postings, partial \in BOOLEAN : Persist(w, S, partial)

WorkerStep(w) == Deliver(w) \/ Answer(w) \/ Acknowledge(w)

ApiStep ==
  \/ \E h \in Handlers : Enqueue(h) \/ \E r \in Runs, s \in Sources : Create(h, r, s)
  \/ \E r \in Runs, p \in Postings : ManualRun(r, p)

Fault ==
  \/ \E w \in Workers : Crash(w) \/ PersistFails(w)
  \/ \E h \in Handlers : HandlerDies(h)

Next == ApiStep \/ (\E w \in Workers : WorkerStep(w)) \/ Fault

Spec == Init /\ [][Next]_vars

\* Handlers that started finish; workers keep working, on every run in turn.
Fairness ==
  /\ \A h \in Handlers : WF_vars(Enqueue(h))
  /\ \A w \in Workers : WF_vars(Answer(w)) /\ WF_vars(Acknowledge(w))
  /\ \A r \in Runs : WF_vars(\E w \in Workers, n \in Retries : Start(w, r, n))

FairSpec == Spec /\ Fairness

--------------------------------------------------------------------------------
(* Properties.                                                             *)

IsEnded(r) == run[r].status \in {"SUCCESS", "FAILED", "SKIPPED"}

\* Where a run can be before its task has ended it.
InApi(h, r)  == api[h] = r
InMail(n, r) == mail[r][n] > 0
InHand(w, r) == Executing(w) /\ work[w].run = r
Waiting(r) ==
  \/ \E h \in Handlers : InApi(h, r)
  \/ \E n \in Retries : InMail(n, r)
  \/ \E w \in Workers : InHand(w, r)

\* As long as no process fails a run is in one place only, and an ended run in
\* none: a retry never runs beside the execution that asked for it.
OnePlace(r) ==
  /\ \A n \in Retries : /\ mail[r][n] <= 1
                        /\ \A m \in Retries : InMail(n, r) /\ InMail(m, r) => m = n
                        /\ \A h \in Handlers : ~ (InMail(n, r) /\ InApi(h, r))
                        /\ \A w \in Workers : ~ (InMail(n, r) /\ InHand(w, r))
  /\ \A h, i \in Handlers : InApi(h, r) /\ InApi(i, r) => h = i
  /\ \A w, v \in Workers : InHand(w, r) /\ InHand(v, r) => w = v
  /\ \A h \in Handlers, w \in Workers : ~ (InApi(h, r) /\ InHand(w, r))

\* At most one delivery of a run's task is under way, and none after its end.
OneDelivery ==
  faults = 0 =>
    \A r \in Runs : OnePlace(r) /\ (run[r].status # "RUNNING" => ~ Waiting(r))

\* A posting is reported as inserted by one run at most, and only when it has a
\* row, whatever is delivered twice and however many workers persist.
InsertedOnce ==
  \A r \in Runs :
    /\ run[r].inserted \subseteq stored
    /\ \A q \in Runs \ {r} : run[r].inserted \cap run[q].inserted = {}

\* Every stored row is among the inserted items of some run.
Accounted == \A p \in stored : \E r \in Runs : p \in run[r].inserted

\* As long as no process fails, the runs account for every row they stored.
AccountedWithoutFaults == faults = 0 => Accounted

\* As long as no process fails, the outcome and the items of an ended run stand.
ResultStands ==
  [][faults = 0 => \A r \in Runs : IsEnded(r) => run'[r] = run[r]]_vars

\* A run that is RUNNING, and nothing is left that could end it.
Stranded(r) == run[r].status = "RUNNING" /\ ~ Waiting(r)

\* The four steps that may strand a run: its handler dies before the delay(), the
\* worker dies in a task acknowledged on receipt, the persist transaction fails, or
\* the source raises once more than the task retries.
Strands(r) ==
  \/ faults' > faults /\ \E h \in Handlers : InApi(h, r)
  \/ faults' > faults /\ run[r].source = "jobspy"
  \/ faults' > faults /\ \E w \in Workers : InHand(w, r) /\ work'[w].phase = "done"
  \/ /\ raises' > raises
     /\ \E w \in Workers : InHand(w, r) /\ work[w].retries >= RetryLimit(run[r].source)

\* No other step strands a run, with retries, duplicates and crashes of workers
\* under way: what a worker had not acknowledged is not lost with it.
StrandedByFailure ==
  [][\A r \in Runs : ~ Stranded(r) /\ Stranded(r)' => Strands(r)]_vars

\* Every run that was committed reaches an end.
RunSettles == \A r \in Runs : run[r].status = "RUNNING" ~> IsEnded(r)

\* As long as no process fails and the sources raise less often than any task
\* retries, every run that was committed reaches an end.
RunEnds ==
  \A r \in Runs :
    (run[r].status = "RUNNING" /\ [](faults = 0 /\ raises <= 2)) ~> IsEnded(r)
================================================================================
