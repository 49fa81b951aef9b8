------------------------------ MODULE JobPipeline ------------------------------
(***************************************************************************)
(* The job pipeline: the jobs table with its job_analyses rows, the Celery *)
(* queues, the worker processes that run one task at a time, and the API   *)
(* handlers that write the same rows.                                      *)
(*                                                                         *)
(*   ingestion -> score -> classify -> ats_match -> gate                   *)
(*                  ^                                                      *)
(*                  +--- resolve (rewinds a discovery job to INGESTED)     *)
(*                                                                         *)
(* A task is not atomic.  It selects rows, computes, and commits later, so *)
(* the API may commit in between; the next task of its chain is published  *)
(* after the commit, and the message is acknowledged after that.  A crash  *)
(* can fall into each gap.                                                 *)
(***************************************************************************)
EXTENDS Naturals, Sequences, FiniteSets, JobStatus

CONSTANTS
  Jobs,          \* the postings the sources can deliver, one row each
  Discovery,     \* those delivered by a discovery source (source_role)
  Workers,       \* Celery worker processes
  Requests,      \* API handlers that can be in flight at once
  Decisions,     \* the user_status values clients send
  MaxLaunches,   \* bound: tasks the API starts
  MaxFaults      \* bound: crashes and task failures

ASSUME PipelineAssumption ==
  /\ Discovery \subseteq Jobs
  /\ Decisions \subseteq UserStatus \ {"NEW"}
  /\ MaxLaunches \in Nat
  /\ MaxFaults \in Nat

--------------------------------------------------------------------------------
(* Data.                                                                   *)

\* Which text a row holds, and which text an analysis was computed from: the
\* listing as first ingested, or the canonical posting found by resolution.
Contents == {"listing", "canonical"}
Basis    == Contents \cup {"none"}

\* One row of jobs.  "ABSENT" stands for a posting that has no row yet;
\* ready is artifact_ready_at IS NOT NULL, eligibility generation_eligibility.
Row == [pipeline    : PipelineStatus \cup {"ABSENT"},
        user        : UserStatus,
        status      : MirrorStatus,
        content     : Contents,
        described   : BOOLEAN,
        resolution  : {"not_discovery", "pending", "resolved_canonical"},
        ready       : BOOLEAN,
        eligibility : {"unset", "eligible", "ineligible"}]

Absent == [pipeline |-> "ABSENT", user |-> "NEW", status |-> "NEW",
           content |-> "listing", described |-> FALSE,
           resolution |-> "not_discovery", ready |-> FALSE,
           eligibility |-> "unset"]

\* One row of job_analyses: which text the score and the ATS columns were computed
\* from, which texts the persona was, and the keys of the persona_specific_scores
\* document.
Analysis == [score : Basis, persona : SUBSET Contents, ats : Basis,
             doc   : SUBSET {"breakdown", "signals", "suggestion"}]

NoAnalysis == [score |-> "none", persona |-> {}, ats |-> "none", doc |-> {}]

\* job_resolution_attempts, counted by outcome.
Attempts == [failed : Nat, resolved : Nat]

ChainTasks  == {"score", "classify", "ats_match", "gate"}
SourceTasks == {"scrape", "discover", "ingest"}
Tasks       == ChainTasks \cup SourceTasks \cup {"manual", "resolve"}
Queues      == {"default", "scrape", "ingestion"}

\* A task message.  The tasks treat job_ids = None and job_ids = [] alike, so
\* ids = {} stands for both.
Message == [task : Tasks, ids : SUBSET Jobs]
Msg(t, S) == [task |-> t, ids |-> S]
NoMsg == Msg("none", {})

\* task_routes.
QueueOf(t) ==
  CASE t \in {"scrape", "discover"} -> "scrape"
    [] t \in {"ingest", "manual"}   -> "ingestion"
    [] OTHER                        -> "default"

\* Redelivered after a crash: the tasks declared with acks_late.
AcksLate(t) == t \in Tasks \ {"scrape"}

\* Mutant: the chain built without its third link.
NextTaskSkipsAts(t) == IF t = "score" THEN "classify"
                       ELSE IF t = "classify" THEN "gate" ELSE "score"

\* The next link of the chain score | classify | ats_match | gate.
NextTask(t) ==
  CASE t = "score"     -> "classify"
    [] t = "classify"  -> "ats_match"
    [] t = "ats_match" -> "gate"
    [] OTHER           -> "score"

VARIABLES
  row,        \* jobs
  analysis,   \* job_analyses
  attempts,   \* job_resolution_attempts
  queue,      \* the broker's queues
  work,       \* what each worker process is doing
  api,        \* what each API handler is doing
  launches,   \* tasks started by the API so far
  faults      \* crashes and failures so far

vars == <<row, analysis, attempts, queue, work, api, launches, faults>>
tables == <<row, analysis, attempts>>

Unloaded == [j \in Jobs |-> Absent]

Phases == {"idle", "fetching", "running", "committed", "done"}
Idle == [phase |-> "idle", msg |-> NoMsg, picked |-> {},
         loaded |-> Unloaded, out |-> {}]
NoRequest == [op |-> "none", jobs |-> {}, user |-> "NEW", loaded |-> Absent]

WorkState == [phase : Phases, msg : Message \cup {NoMsg}, picked : SUBSET Jobs,
              loaded : [Jobs -> Row], out : SUBSET Jobs]
RequestState == [op : {"none", "status", "manual"}, jobs : SUBSET Jobs,
                 user : UserStatus, loaded : Row]

TypeOK ==
  /\ row \in [Jobs -> Row]
  /\ analysis \in [Jobs -> Analysis]
  /\ attempts \in [Jobs -> Attempts]
  /\ queue \in [Queues -> Seq(Message)]
  /\ work \in [Workers -> WorkState]
  /\ api \in [Requests -> RequestState]
  /\ launches \in 0..MaxLaunches
  /\ faults \in 0..MaxFaults

Init ==
  /\ row = Unloaded
  /\ analysis = [j \in Jobs |-> NoAnalysis]
  /\ attempts = [j \in Jobs |-> [failed |-> 0, resolved |-> 0]]
  /\ queue = [q \in Queues |-> << >>]
  /\ work = [w \in Workers |-> Idle]
  /\ api = [r \in Requests |-> NoRequest]
  /\ launches = 0
  /\ faults = 0

--------------------------------------------------------------------------------
(* The ORM's unit of work.  A flush writes the columns whose value differs *)
(* from the one loaded, with no version check: what another transaction    *)
(* committed to the remaining columns survives, what it committed to these *)
(* is overwritten.                                                         *)

\* Mutant: every column of a dirty row is written.
ColumnAlways(current, loaded, new) == new

Column(current, loaded, new) == IF new = loaded THEN current ELSE new

Flush(cur, old, new) ==
  [pipeline    |-> Column(cur.pipeline, old.pipeline, new.pipeline),
   user        |-> Column(cur.user, old.user, new.user),
   status      |-> Column(cur.status, old.status, new.status),
   content     |-> Column(cur.content, old.content, new.content),
   described   |-> Column(cur.described, old.described, new.described),
   resolution  |-> Column(cur.resolution, old.resolution, new.resolution),
   ready       |-> Column(cur.ready, old.ready, new.ready),
   eligibility |-> Column(cur.eligibility, old.eligibility, new.eligibility)]

\* The jobs table after worker w flushes the rows new, a function on the jobs it
\* changed.
FlushedBy(w, new) ==
  [j \in Jobs |-> IF j \in DOMAIN new
                  THEN Flush(row[j], work[w].loaded[j], new[j]) ELSE row[j]]

\* A row moved to pipeline stage p, its mirror recomputed from the row loaded.
Moved(r, p) == [r EXCEPT !.pipeline = p, !.status = LegacyStatus(p, r.user)]

--------------------------------------------------------------------------------
(* Worker: receiving messages.                                             *)

\* Worker w, idle, takes the oldest message of queue q and becomes next.
Take(w, q, next) ==
  /\ work[w].phase = "idle"
  /\ queue' = [queue EXCEPT ![q] = Tail(@)]
  /\ work' = [work EXCEPT ![w] = next]

\* The stage each chain task consumes.
InputStage(t) ==
  CASE t = "score"     -> "INGESTED"
    [] t = "classify"  -> "SCORED"
    [] t = "ats_match" -> "CLASSIFIED"
    [] OTHER           -> "ATS_ANALYZED"

\* Mutants: no ids mean no rows; the stage is not asked for.
SelectedNamedOnly(m) ==
  {j \in m.ids : /\ row[j].pipeline = InputStage(m.task)
                 /\ m.task = "ats_match" => row[j].described}
SelectedAnyStage(m) ==
  {j \in Jobs : row[j].pipeline # "ABSENT" /\ (j \in m.ids \/ m.ids = {})}

\* The rows a chain task works on: the named ones in its input stage.  With no
\* ids, score, classify and ats_match take every row in that stage and the gate
\* takes none; ats_match skips rows without a description.
Selected(m) ==
  {j \in Jobs : /\ row[j].pipeline = InputStage(m.task)
                /\ j \in m.ids \/ (m.ids = {} /\ m.task # "gate")
                /\ m.task = "ats_match" => row[j].described}

\* A chain task starts: its SELECT loads the rows into the session.
StartChainTask(w) ==
  /\ queue["default"] # << >>
  /\ LET m == Head(queue["default"])
         S == Selected(m)
     IN  /\ m.task \in ChainTasks
         /\ Take(w, "default",
                 [phase |-> "running", msg |-> m, picked |-> S,
                  loaded |-> [j \in Jobs |-> IF j \in S THEN row[j] ELSE Absent],
                  out |-> {}])
  /\ UNCHANGED <<tables, api, launches, faults>>

\* A source task starts fetching.
StartSourceTask(w) ==
  \E q \in {"scrape", "ingestion"} :
    /\ queue[q] # << >>
    /\ Head(queue[q]).task \in SourceTasks
    /\ Take(w, q, [Idle EXCEPT !.phase = "fetching", !.msg = Head(queue[q])])
    /\ UNCHANGED <<tables, api, launches, faults>>

\* manual_ingest_pipeline: only starts the chain for the ids it was given.
StartManualPipeline(w) ==
  /\ queue["ingestion"] # << >>
  /\ LET m == Head(queue["ingestion"])
     IN  /\ m.task = "manual"
         /\ Take(w, "ingestion",
                 [Idle EXCEPT !.phase = "committed", !.msg = m, !.out = m.ids])
  /\ UNCHANGED <<tables, api, launches, faults>>

--------------------------------------------------------------------------------
(* Worker: committing.                                                     *)

\* Worker w's transaction committed; out is what the task returns.
Committed(w, out) ==
  work' = [work EXCEPT ![w] = [phase |-> "committed", msg |-> work[w].msg,
                               picked |-> {}, loaded |-> Unloaded, out |-> out]]

\* Worker w has nothing more to do for its message.
Finished(w) ==
  work' = [work EXCEPT ![w] = [Idle EXCEPT !.phase = "done", !.msg = work[w].msg]]

Running(w, t) == work[w].phase = "running" /\ work[w].msg.task = t

\* job_analyses after a task upserts the rows new.
Upserted(new) ==
  [j \in Jobs |-> IF j \in DOMAIN new THEN new[j] ELSE analysis[j]]

\* Each selected job moved to its stage, the row otherwise as loaded.
AllMoved(w, stage) ==
  [j \in work[w].picked |-> Moved(work[w].loaded[j], stage[j])]

\* What score_jobs and classify_jobs write to an analysis of a text c: the score
\* replaces the document; the persona is computed from the text and from the ATS
\* keywords the analysis already holds, its signals join the score breakdown.
WithScore(a, c)   == [a EXCEPT !.score = c, !.doc = {"breakdown"}]
WithPersona(a, c) == [a EXCEPT !.persona = {c} \cup ({a.ats} \ {"none"}),
                               !.doc = {"breakdown", "signals"}]

\* What ats_match_resume writes: the keyword match.
WithMatch(a, c)   == [a EXCEPT !.ats = c]

\* score_jobs: every selected job is SCORED or, below the threshold, REJECTED;
\* only the jobs kept are passed on.
ScoreCommit(w) ==
  /\ Running(w, "score")
  /\ \E stage \in [work[w].picked -> {"SCORED", "REJECTED"}] :
       /\ row' = FlushedBy(w, AllMoved(w, stage))
       /\ Committed(w, {j \in work[w].picked : stage[j] = "SCORED"})
  /\ analysis' = Upserted([j \in work[w].picked |->
                   WithScore(analysis[j], work[w].loaded[j].content)])
  /\ UNCHANGED <<attempts, queue, api, launches, faults>>

\* classify_jobs, ats_match_resume: every selected job moves on and is passed on.
AllTo(w, stage) ==
  /\ row' = FlushedBy(w, AllMoved(w, [j \in work[w].picked |-> stage]))
  /\ Committed(w, work[w].picked)
  /\ UNCHANGED <<attempts, queue, api, launches, faults>>

\* The persona is stored, its signals join the score breakdown.
ClassifyCommit(w) ==
  /\ Running(w, "classify")
  /\ AllTo(w, "CLASSIFIED")
  /\ analysis' = Upserted([j \in work[w].picked |->
                   WithPersona(analysis[j], work[w].loaded[j].content)])

\* The keyword match against the description is stored.
AtsCommit(w) ==
  /\ Running(w, "ats_match")
  /\ AllTo(w, "ATS_ANALYZED")
  /\ analysis' = Upserted([j \in work[w].picked |->
                   WithMatch(analysis[j], work[w].loaded[j].content)])

\* What the gate adds to an analysis: the loaded document is changed in place and
\* assigned back, in which the ORM sees no change, so only an empty one is written.
WithSuggestion(a) == [a EXCEPT !.doc = IF @ = {} THEN {"suggestion"} ELSE @]

Recommended(r) == [Moved(r, "RESUME_READY") EXCEPT !.eligibility = "eligible",
                                                   !.ready = TRUE]

\* evaluate_generation_gate with a resume catalog: the job is recommended.
GateRecommend(w) ==
  /\ Running(w, "gate")
  /\ row' = FlushedBy(w, [j \in work[w].picked |-> Recommended(work[w].loaded[j])])
  /\ analysis' = Upserted([j \in work[w].picked |->
                   WithSuggestion(analysis[j])])
  /\ Committed(w, work[w].picked)
  /\ UNCHANGED <<attempts, queue, api, launches, faults>>

\* evaluate_generation_gate without a catalog: the job stays where it is.
GateDecline(w) ==
  /\ Running(w, "gate")
  /\ row' = FlushedBy(w, [j \in work[w].picked |->
              [work[w].loaded[j] EXCEPT !.eligibility = "ineligible"]])
  /\ Committed(w, work[w].picked)
  /\ UNCHANGED <<analysis, attempts, queue, api, launches, faults>>

\* Mutant: postings are not probed for duplicates.
UnstoredUnchecked == Jobs

\* Postings without a row: the dedup probe and the unique keys let no other in.
Unstored == {j \in Jobs : row[j].pipeline = "ABSENT"}

\* Mutant: the mirror is given the pipeline stage.
InsertedMirrorsStage(j, described) ==
  [Absent EXCEPT !.pipeline = "INGESTED", !.status = "INGESTED",
                 !.described = described]

\* What INSERT ... VALUES gives a new row.
Inserted(j, described) ==
  [Absent EXCEPT !.pipeline = "INGESTED", !.described = described,
                 !.resolution = IF j \in Discovery THEN "pending"
                                                   ELSE "not_discovery"]

\* The jobs table with the postings of S inserted, those of D with a text.
WithNew(S, D) == [j \in Jobs |-> IF j \in S THEN Inserted(j, j \in D) ELSE row[j]]

\* A source task persists what it fetched; a posting that already has a row is a
\* duplicate and changes nothing here.
SourceCommit(w) ==
  /\ work[w].phase = "fetching"
  /\ work[w].msg.task \in SourceTasks
  /\ \E new \in SUBSET Unstored :
       \E described \in SUBSET new :
         /\ new \subseteq IF work[w].msg.task = "ingest" THEN Jobs \ Discovery
                                                         ELSE Discovery
         /\ row' = WithNew(new, described)
         /\ Committed(w, new)
  /\ UNCHANGED <<analysis, attempts, queue, api, launches, faults>>

\* The fetch fails, or the source is switched off: nothing is stored.
SourceFails(w) ==
  /\ work[w].phase = "fetching"
  /\ work[w].msg.task \in SourceTasks
  /\ Finished(w)
  /\ UNCHANGED <<tables, queue, api, launches, faults>>

--------------------------------------------------------------------------------
(* Worker: resolving a discovery job to its canonical posting.             *)

\* Mutant: any discovery row will do.
NeedsResolutionAlways(j) == row[j].resolution # "not_discovery"

NeedsResolution(j) == row[j].resolution = "pending"

FailedAttempt(S) ==
  attempts' = [j \in Jobs |-> IF j \in S
                              THEN [attempts[j] EXCEPT !.failed = @ + 1]
                              ELSE attempts[j]]

\* resolve_discovery_job, first transaction: not a pending discovery row, no
\* usable URL, or on to the fetch.
ResolveCheck(w) ==
  /\ queue["default"] # << >>
  /\ LET m == Head(queue["default"])
         Become(phase) == Take(w, "default", [Idle EXCEPT !.phase = phase, !.msg = m])
     IN  /\ m.task = "resolve"
         /\ \/ /\ \E j \in m.ids : ~ NeedsResolution(j)
               /\ Become("done")
               /\ UNCHANGED attempts
            \/ /\ \A j \in m.ids : NeedsResolution(j)
               /\ Become("done")
               /\ FailedAttempt(m.ids)
            \/ /\ \A j \in m.ids : NeedsResolution(j)
               /\ Become("fetching")
               /\ UNCHANGED attempts
  /\ UNCHANGED <<row, analysis, api, launches, faults>>

\* The fetch failed, the posting is gone, or it cannot be normalised.
ResolveFails(w) ==
  /\ work[w].phase = "fetching" /\ work[w].msg.task = "resolve"
  /\ FailedAttempt(work[w].msg.ids)
  /\ Finished(w)
  /\ UNCHANGED <<row, analysis, queue, api, launches, faults>>

\* Second transaction: the row is loaded again, its status is not checked again.
ResolveLoad(w) ==
  /\ work[w].phase = "fetching" /\ work[w].msg.task = "resolve"
  /\ LET S == work[w].msg.ids
     IN work' = [work EXCEPT ![w] =
          [phase |-> "running", msg |-> work[w].msg, picked |-> S,
           loaded |-> [j \in Jobs |-> IF j \in S THEN row[j] ELSE Absent],
           out |-> {}]]
  /\ UNCHANGED <<tables, queue, api, launches, faults>>

\* Mutant: the rewind is forgotten.
ResetForgotten(r) == r

\* _reset_for_reprocessing.
Reset(r) == Moved(r, "INGESTED")

\* The row with the canonical fields applied.
Canonical(r, described) ==
  [Reset(r) EXCEPT !.content = "canonical", !.resolution = "resolved_canonical",
                   !.described = @ \/ described]

\* The canonical fields are written and the job is rewound to INGESTED.
ResolveCommit(w) ==
  /\ Running(w, "resolve")
  /\ \E described \in BOOLEAN :
       row' = FlushedBy(w, [j \in work[w].picked |->
                             Canonical(work[w].loaded[j], described)])
  /\ attempts' = [j \in Jobs |-> IF j \in work[w].picked
                                 THEN [attempts[j] EXCEPT !.resolved = @ + 1]
                                 ELSE attempts[j]]
  /\ Committed(w, work[w].picked)
  /\ UNCHANGED <<analysis, queue, api, launches, faults>>

--------------------------------------------------------------------------------
(* Worker: handing on and acknowledging.                                   *)

\* Mutant: a resolution starts no chain.
OutgoingNotAfterResolve(w) ==
  IF work[w].msg.task \in {"gate", "resolve"} THEN << >>
  ELSE <<Msg(NextTask(work[w].msg.task), work[w].out)>>

\* What the task publishes after its commit.  A chain goes on whatever the link
\* returned; a source starts one for what it inserted, JobSpy always one for
\* everything INGESTED; the gate is the last link.
Outgoing(w) ==
  LET t == work[w].msg.task
      next == Msg(NextTask(t), IF t = "scrape" THEN {} ELSE work[w].out)
      ends == \/ t = "gate"
              \/ t \notin ChainTasks \cup {"scrape"} /\ work[w].out = {}
  IN  IF ends THEN << >> ELSE <<next>>

Publish(w) ==
  /\ work[w].phase = "committed"
  /\ queue' = [queue EXCEPT !["default"] = @ \o Outgoing(w)]
  /\ Finished(w)
  /\ UNCHANGED <<tables, api, launches, faults>>

Acknowledge(w) ==
  /\ work[w].phase = "done"
  /\ work' = [work EXCEPT ![w] = Idle]
  /\ UNCHANGED <<tables, queue, api, launches, faults>>

\* The worker process dies and is restarted: an open transaction is rolled back,
\* the unacknowledged message of an acks_late task is delivered again.
Crash(w) ==
  /\ work[w].phase # "idle"
  /\ faults < MaxFaults
  /\ faults' = faults + 1
  /\ LET m == work[w].msg
     IN queue' = IF AcksLate(m.task)
                 THEN [queue EXCEPT ![QueueOf(m.task)] = <<m>> \o @]
                 ELSE queue
  /\ work' = [work EXCEPT ![w] = Idle]
  /\ UNCHANGED <<tables, api, launches>>

\* The task raises before its commit: rolled back, acknowledged as failed, and
\* neither retried nor continued.
TaskFails(w) ==
  /\ work[w].phase \in {"fetching", "running"}
  /\ faults < MaxFaults
  /\ faults' = faults + 1
  /\ Finished(w)
  /\ UNCHANGED <<tables, queue, api, launches>>

--------------------------------------------------------------------------------
(* The API.                                                                *)

Send(t, S) == queue' = [queue EXCEPT ![QueueOf(t)] = Append(@, Msg(t, S))]

Launch(t, S) ==
  /\ launches < MaxLaunches
  /\ launches' = launches + 1
  /\ Send(t, S)
  /\ UNCHANGED <<tables, work, api, faults>>

\* run-scrape, run-discovery / run-source-adapter, run-ingestion / ingest-url.
LaunchSource == \E t \in SourceTasks : Launch(t, {})

\* POST /{job_id}/resolve: queued for a discovery row not resolved yet.
RequestResolve(j) == NeedsResolution(j) /\ Launch("resolve", {j})

\* manual-ingest inserts the row and commits ...
ManualInsert(r, j) ==
  /\ api[r].op = "none"
  /\ j \in Unstored \ Discovery
  /\ launches < MaxLaunches
  /\ launches' = launches + 1
  /\ \E D \in SUBSET {j} : row' = WithNew({j}, D)
  /\ api' = [api EXCEPT ![r] = [NoRequest EXCEPT !.op = "manual", !.jobs = {j}]]
  /\ UNCHANGED <<analysis, attempts, queue, work, faults>>

\* ... and then enqueues the downstream pipeline.
ManualEnqueue(r) ==
  /\ api[r].op = "manual"
  /\ Send("manual", api[r].jobs)
  /\ api' = [api EXCEPT ![r] = NoRequest]
  /\ UNCHANGED <<tables, work, launches, faults>>

\* PUT /{job_id}/status and POST /bulk-status: the row is selected ...
StatusLoad(r, j, u) ==
  /\ api[r].op = "none"
  /\ row[j].pipeline # "ABSENT"
  /\ api' = [api EXCEPT ![r] = [op |-> "status", jobs |-> {j}, user |-> u,
                                loaded |-> row[j]]]
  /\ UNCHANGED <<tables, queue, work, launches, faults>>

\* ... and its user_status and mirror are written at the commit.
StatusCommit(r) ==
  /\ api[r].op = "status"
  /\ LET old == api[r].loaded
         new == [old EXCEPT !.user = api[r].user,
                            !.status = LegacyStatus(old.pipeline, api[r].user)]
     IN row' = [j \in Jobs |-> IF j \in api[r].jobs THEN Flush(row[j], old, new)
                                                    ELSE row[j]]
  /\ api' = [api EXCEPT ![r] = NoRequest]
  /\ UNCHANGED <<analysis, attempts, queue, work, launches, faults>>

\* The API process dies with the request in flight.
RequestDies(r) ==
  /\ api[r].op # "none"
  /\ faults < MaxFaults
  /\ faults' = faults + 1
  /\ api' = [api EXCEPT ![r] = NoRequest]
  /\ UNCHANGED <<tables, queue, work, launches>>

--------------------------------------------------------------------------------
\* The steps a worker takes of its own accord.
WorkerStep(w) ==
  \/ StartChainTask(w) \/ StartSourceTask(w) \/ StartManualPipeline(w)
  \/ ScoreCommit(w) \/ ClassifyCommit(w) \/ AtsCommit(w)
  \/ GateRecommend(w) \/ GateDecline(w)
  \/ SourceCommit(w) \/ SourceFails(w)
  \/ ResolveCheck(w) \/ ResolveFails(w) \/ ResolveLoad(w) \/ ResolveCommit(w)
  \/ Publish(w) \/ Acknowledge(w)

ApiStep ==
  \/ LaunchSource
  \/ \E j \in Jobs : RequestResolve(j)
  \/ \E r \in Requests :
       \/ \E j \in Jobs : ManualInsert(r, j)
       \/ ManualEnqueue(r)
       \/ \E j \in Jobs, u \in Decisions : StatusLoad(r, j, u)
       \/ StatusCommit(r)

Fault ==
  \/ \E w \in Workers : Crash(w) \/ TaskFails(w)
  \/ \E r \in Requests : RequestDies(r)

Next == (\E w \in Workers : WorkerStep(w)) \/ ApiStep \/ Fault

Spec == Init /\ [][Next]_vars

\* A worker keeps working, and a handler that started finishes.
Fairness ==
  /\ \A w \in Workers : WF_vars(WorkerStep(w))
  /\ \A r \in Requests : WF_vars(ManualEnqueue(r) \/ StatusCommit(r))

FairSpec == Spec /\ Fairness

--------------------------------------------------------------------------------
(* Properties.                                                             *)

\* The documented deployment: a single worker process, one task at a time.
SoloWorker == \A v, w \in Workers : v = w

\* Two versions of a row that differ at most in what the user's decision sets.
TaskColumns == {"pipeline", "content", "described", "resolution", "ready",
                "eligibility"}
Agree(r, s) == \A c \in TaskColumns : r[c] = s[c]

\* A posting without a row has no resolution under way or behind it.
UnstoredBlank ==
  \A j \in Unstored : row[j].resolution = "not_discovery"

\* What worker w has loaded is what the rows still hold, and the rows are still
\* the ones its task is meant for.
Current(w) ==
  /\ work[w].phase = "running" =>
       \A j \in work[w].picked :
         /\ Agree(work[w].loaded[j], row[j])
         /\ \/ /\ work[w].msg.task \in ChainTasks
               /\ row[j].pipeline = InputStage(work[w].msg.task)
            \/ work[w].msg.task = "resolve" /\ NeedsResolution(j)
  /\ work[w].phase = "fetching" /\ work[w].msg.task = "resolve" =>
       \A j \in work[w].msg.ids : NeedsResolution(j)

\* Nobody writes the columns a task works from while it works: what an open
\* transaction loaded still holds at its commit, except for the user's columns,
\* which the API may change, and a resolution that is under way is still pending.
\* No lock and no version check of the code ensures it.
SnapshotCurrent == \A w \in Workers : Current(w)

\* Row r shows the verdicts of stages whose analysis a took in the text r holds.
Fresh(r, a) ==
  /\ r.pipeline \in Scored \cup {"REJECTED"} => a.score = r.content
  /\ r.pipeline \in {"CLASSIFIED", "ATS_ANALYZED", "RESUME_READY"}
       => r.content \in a.persona
  /\ r.pipeline \in {"ATS_ANALYZED", "RESUME_READY"} => a.ats = r.content

\* A verdict is never shown for a text it was not computed from: a job that is
\* past a stage has had that stage's analysis computed from the text it now holds.
\* It is what resolve_discovery_job rewinds the job for, and it is threatened
\* by every message of the old chain still in the queue when the row is rewound.
AnalysisFresh == \A j \in Jobs : Fresh(row[j], analysis[j])

\* Row r and its attempts t tell the same story of its resolution.
Consistent(r, t) ==
  /\ t.resolved = IF r.resolution = "resolved_canonical" THEN 1 ELSE 0
  /\ r.content = "canonical" <=> r.resolution = "resolved_canonical"

\* A discovery job is resolved at most once, however often resolution was asked
\* for or its message redelivered, although the task checks in one transaction
\* and writes in another; only a resolved job holds a canonical text.
ResolvedOnce == \A j \in Jobs : Consistent(row[j], attempts[j])

\* Message m brings job j to chain task t: by itself, or, for a manual ingest,
\* through the chain it starts.
Brings(m, j, t) ==
  \/ m.task = t /\ (j \in m.ids \/ (m.ids = {} /\ t # "gate"))
  \/ m.task = "manual" /\ t = "score" /\ j \in m.ids

\* Job j is on its way to chain task t: in a queued message, in the hands of a
\* worker, about to be published by one, or about to be sent by an API handler.
Carried(j, t) ==
  \/ \E q \in Queues : \E i \in 1..Len(queue[q]) : Brings(queue[q][i], j, t)
  \/ \E w \in Workers : Running(w, t) /\ j \in work[w].picked
  \/ \E w \in Workers : /\ work[w].phase = "committed"
                        /\ work[w].msg.task # "gate"
                        /\ NextTask(work[w].msg.task) = t
                        /\ j \in work[w].out
  \/ \E r \in Requests : t = "score" /\ api[r].op = "manual" /\ j \in api[r].jobs

\* The stage a job waits in is one some message or process will take it out of.
\* Left behind are only a job without a description, which the ATS match skips,
\* and one the gate declined for want of a catalog.
OnItsWay(j) ==
  /\ row[j].pipeline = "INGESTED" => Carried(j, "score")
  /\ row[j].pipeline = "SCORED" => Carried(j, "classify")
  /\ row[j].pipeline = "CLASSIFIED" /\ row[j].described => Carried(j, "ats_match")
  /\ row[j].pipeline = "ATS_ANALYZED" /\ row[j].eligibility # "ineligible"
       => Carried(j, "gate")

\* As long as nothing fails no job is forgotten, although chains running side by
\* side take jobs from each other (a task called with no ids takes every job in
\* its stage) and a task whose jobs were taken returns none.
NoJobForgotten == faults = 0 => \A j \in Jobs : OnItsWay(j)

\* Only the user's own request changes a user_status, to the value it asked for:
\* no task commit writes back the value it loaded before the request.
UserDecisionKept ==
  [][\A j \in Jobs :
       row'[j].user # row[j].user =>
         \E r \in Requests : /\ api[r].op = "status" /\ j \in api[r].jobs
                             /\ row'[j].user = api[r].user]_vars

\* The pipeline implements the lifecycle.
Lifecycle == INSTANCE JobLifecycle
               WITH stage   <- [j \in Jobs |-> row[j].pipeline],
                    content <- [j \in Jobs |-> row[j].content]

\* Every job goes through the documented stages in order, is not revived after a
\* rejection, and is rewound at most once, by its resolution.
LifecycleImplemented == Lifecycle!Spec

\* The pipeline has nothing more to do for job j.
Decided(j) ==
  \/ row[j].pipeline \in {"REJECTED", "RESUME_READY"}
  \/ row[j].pipeline = "CLASSIFIED" /\ ~ row[j].described
  \/ row[j].pipeline = "ATS_ANALYZED" /\ row[j].eligibility = "ineligible"

\* When nothing fails, every stored job is decided in the end.
EveryJobDecided ==
  \A j \in Jobs :
    (row[j].pipeline # "ABSENT" /\ [](faults = 0)) ~> Decided(j)

\* A chain for everything INGESTED is queued.
SweepQueued ==
  \E i \in 1..Len(queue["default"]) : queue["default"][i] = Msg("score", {})

\* A job left at INGESTED, by a crash that lost its chain for instance, is picked
\* up and decided by the next chain JobSpy starts, if nothing fails any more.
SweepRescues ==
  \A j \in Jobs :
    (/\ faults = MaxFaults
     /\ row[j].pipeline = "INGESTED"
     /\ SweepQueued) ~> Decided(j)

\* A job marked RESUME_READY has its suggestion on the analysis row, where the
\* job list and detail responses read it.
SuggestionStored ==
  \A j \in Jobs : row[j].pipeline = "RESUME_READY"
                    => "suggestion" \in analysis[j].doc
================================================================================
