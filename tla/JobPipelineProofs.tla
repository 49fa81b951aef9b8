--------------------------- MODULE JobPipelineProofs ---------------------------
(***************************************************************************)
(* Theorems about JobPipeline, for every set of jobs, workers and API      *)
(* handlers: its types; with one worker process its inductive invariant    *)
(* and the safety properties that follow from it, with crashes anywhere;   *)
(* and with any number of workers that no decision of the user is lost.    *)
(***************************************************************************)
EXTENDS JobPipeline, TLAPS

--------------------------------------------------------------------------------
(* Lemmas about the operators the pipeline is built from.                  *)

\* The mirror helper of core/job_status.py always returns a mirror value.
LEMMA LegacyStatusType ==
  ASSUME NEW p \in PipelineStatus \cup {"ABSENT"}, NEW u \in UserStatus
  PROVE  LegacyStatus(p, u) \in MirrorStatus
BY DEF LegacyStatus, MirrorStatus, UserStatus, Scored

\* Moving a row to a stage yields a row.
LEMMA MovedType ==
  ASSUME NEW r \in Row, NEW p \in PipelineStatus
  PROVE  /\ Moved(r, p) \in Row
         /\ Moved(r, p).pipeline = p
         /\ Moved(r, p).user = r.user
         /\ Moved(r, p).content = r.content
         /\ Moved(r, p).described = r.described
         /\ Moved(r, p).resolution = r.resolution
         /\ Moved(r, p).eligibility = r.eligibility
  <1>1. LegacyStatus(p, r.user) \in MirrorStatus
    BY LegacyStatusType DEF Row
  <1>2. QED
    BY <1>1 DEF Moved, Row

\* A flush of rows yields a row.
LEMMA FlushType ==
  ASSUME NEW cur \in Row, NEW old \in Row, NEW new \in Row
  PROVE  Flush(cur, old, new) \in Row
BY DEF Flush, Column, Row

\* A row that is not stored yet, and one just inserted, are rows.
LEMMA InsertedType ==
  ASSUME NEW j \in Jobs, NEW d \in BOOLEAN
  PROVE  Absent \in Row /\ Inserted(j, d) \in Row
BY DEF Absent, Inserted, Row, PipelineStatus, UserStatus, MirrorStatus, Contents

\* Inserting new rows keeps the table a table of rows.
LEMMA WithNewType ==
  ASSUME TypeOK, NEW S, NEW D
  PROVE  WithNew(S, D) \in [Jobs -> Row]
  <1>1. ASSUME NEW j \in Jobs
        PROVE  (IF j \in S THEN Inserted(j, j \in D) ELSE row[j]) \in Row
    <2>1. (j \in D) \in BOOLEAN
      OBVIOUS
    <2>2. Inserted(j, j \in D) \in Row
      BY <2>1, InsertedType
    <2>3. QED
      BY <2>2 DEF TypeOK
  <1>2. QED
    BY <1>1 DEF WithNew

\* What the worker and request slots are filled with.
LEMMA IdleType ==
  /\ Unloaded \in [Jobs -> Row]
  /\ Idle \in WorkState
  /\ NoRequest \in RequestState
  <1>1. Absent \in Row
    BY DEF Absent, Row, PipelineStatus, UserStatus, MirrorStatus, Contents
  <1>2. Unloaded \in [Jobs -> Row]
    BY <1>1 DEF Unloaded
  <1>3. Idle \in WorkState
    BY <1>2 DEF Idle, WorkState, Phases
  <1>4. NoRequest \in RequestState
    BY <1>1 DEF NoRequest, RequestState, UserStatus
  <1>5. QED
    BY <1>2, <1>3, <1>4

\* Every message the system builds is a message, in a queue that exists.
LEMMA MessageType ==
  ASSUME NEW t \in Tasks, NEW S \in SUBSET Jobs
  PROVE  Msg(t, S) \in Message /\ QueueOf(t) \in Queues
BY DEF Msg, Message, QueueOf, Queues

\* Receiving the oldest message of a non-empty queue.
LEMMA TakeType ==
  ASSUME TypeOK, NEW w \in Workers, NEW q \in Queues, queue[q] # << >>,
         NEW next \in WorkState, Take(w, q, next)
  PROVE  /\ queue' \in [Queues -> Seq(Message)]
         /\ work' \in [Workers -> WorkState]
BY DEF TypeOK, Take

\* The head of a non-empty queue is a message.
LEMMA HeadType ==
  ASSUME TypeOK, NEW q \in Queues, queue[q] # << >>
  PROVE  Head(queue[q]) \in Message
BY DEF TypeOK

\* Flushing rows keeps the table a table of rows.
LEMMA TableType ==
  ASSUME TypeOK, NEW w \in Workers, NEW S \in SUBSET Jobs, NEW new \in [S -> Row],
         row' = FlushedBy(w, new)
  PROVE  row' \in [Jobs -> Row]
  <1>1. ASSUME NEW j \in S
        PROVE  Flush(row[j], work[w].loaded[j], new[j]) \in Row
    BY FlushType DEF TypeOK, WorkState
  <1>2. QED
    BY <1>1 DEF TypeOK, FlushedBy

\* The rows a stage task flushes are rows.
LEMMA AllMovedType ==
  ASSUME TypeOK, NEW w \in Workers, NEW stage \in [work[w].picked -> PipelineStatus]
  PROVE  AllMoved(w, stage) \in [work[w].picked -> Row]
  <1>1. work[w].picked \in SUBSET Jobs /\ work[w].loaded \in [Jobs -> Row]
    BY DEF TypeOK, WorkState
  <1>2. ASSUME NEW j \in work[w].picked
        PROVE  Moved(work[w].loaded[j], stage[j]) \in Row
    BY <1>1, MovedType
  <1>3. QED
    BY <1>2 DEF AllMoved

\* What the stages write to an analysis row.
LEMMA AnalysisEdits ==
  ASSUME NEW a \in Analysis, NEW c \in Contents
  PROVE  /\ WithScore(a, c) \in Analysis
         /\ WithPersona(a, c) \in Analysis
         /\ WithMatch(a, c) \in Analysis
         /\ WithSuggestion(a) \in Analysis
  <1>1. /\ c \in Basis
        /\ {"breakdown"} \in SUBSET {"breakdown", "signals", "suggestion"}
        /\ {"breakdown", "signals"} \in SUBSET {"breakdown", "signals", "suggestion"}
        /\ {"suggestion"} \in SUBSET {"breakdown", "signals", "suggestion"}
    BY DEF Basis
  <1>2. {c} \cup ({a.ats} \ {"none"}) \in SUBSET Contents
    BY DEF Analysis, Basis
  <1>3. QED
    BY <1>1, <1>2 DEF Analysis, WithScore, WithPersona, WithMatch, WithSuggestion

\* What the gate and the resolution write to a row.
LEMMA RowEdits ==
  ASSUME NEW r \in Row, NEW d \in BOOLEAN
  PROVE  Recommended(r) \in Row /\ Canonical(r, d) \in Row
  <1>1. Moved(r, "RESUME_READY") \in Row /\ Moved(r, "INGESTED") \in Row
    BY MovedType DEF PipelineStatus
  <1>2. ASSUME NEW s \in Row, NEW e \in BOOLEAN
        PROVE  /\ [s EXCEPT !.eligibility = "eligible", !.ready = TRUE] \in Row
               /\ [s EXCEPT !.content = "canonical",
                            !.resolution = "resolved_canonical",
                            !.described = e] \in Row
    BY <1>2 DEF Row, Contents
  <1>3. (Moved(r, "INGESTED").described \/ d) \in BOOLEAN
    OBVIOUS
  <1>4. Recommended(r) \in Row
    BY <1>1, <1>2 DEF Recommended
  <1>5. Canonical(r, d) \in Row
    BY <1>1, <1>2, <1>3 DEF Canonical, Reset
  <1>6. QED
    BY <1>4, <1>5

\* An upsert of analysis rows keeps the table a table of them.
LEMMA UpsertedType ==
  ASSUME TypeOK, NEW S \in SUBSET Jobs, NEW new \in [S -> Analysis],
         analysis' = Upserted(new)
  PROVE  analysis' \in [Jobs -> Analysis]
BY DEF TypeOK, Upserted

\* A worker whose transaction committed, and one that is finished.
LEMMA CommittedType ==
  ASSUME TypeOK, NEW w \in Workers, NEW S \in SUBSET Jobs,
         Committed(w, S) \/ Finished(w)
  PROVE  work' \in [Workers -> WorkState]
  <1>1. CASE Committed(w, S)
    BY <1>1, IdleType DEF Committed, TypeOK, WorkState, Phases
  <1>2. CASE Finished(w)
    BY <1>2, IdleType DEF Finished, TypeOK, WorkState, Phases, Idle
  <1>3. QED
    BY <1>1, <1>2

--------------------------------------------------------------------------------
(* Type correctness.                                                       *)

\* Each worker step keeps the variables in their types.
LEMMA WorkerStepType ==
  ASSUME TypeOK, NEW w \in Workers, WorkerStep(w)
  PROVE  TypeOK'
  <1> USE PipelineAssumption
  <1>w. work[w] \in WorkState
    BY DEF TypeOK
  <1>1. CASE StartChainTask(w)
    <2> DEFINE m == Head(queue["default"])
               S == Selected(m)
               next == [phase |-> "running", msg |-> m, picked |-> S,
                        loaded |-> [j \in Jobs |-> IF j \in S THEN row[j] ELSE Absent],
                        out |-> {}]
    <2>1. "default" \in Queues /\ queue["default"] # << >> /\ Take(w, "default", next)
      BY <1>1 DEF StartChainTask, Queues
    <2>2. m \in Message
      BY <2>1, HeadType
    <2>3. S \in SUBSET Jobs
      BY DEF Selected
    <2>4. next \in WorkState
      BY <2>2, <2>3, IdleType DEF TypeOK, WorkState, Phases, Unloaded
    <2>5. QED
      BY <1>1, <2>1, <2>4, TakeType DEF StartChainTask, TypeOK, tables
  <1>2. CASE StartSourceTask(w)
    <2>1. PICK q \in {"scrape", "ingestion"} :
            /\ queue[q] # << >>
            /\ Take(w, q, [Idle EXCEPT !.phase = "fetching", !.msg = Head(queue[q])])
            /\ UNCHANGED <<tables, api, launches, faults>>
      BY <1>2 DEF StartSourceTask
    <2>2. q \in Queues
      BY DEF Queues
    <2>3. [Idle EXCEPT !.phase = "fetching", !.msg = Head(queue[q])] \in WorkState
      BY <2>1, <2>2, HeadType, IdleType DEF WorkState, Phases
    <2>4. QED
      BY <2>1, <2>2, <2>3, TakeType DEF TypeOK, tables
  <1>3. CASE StartManualPipeline(w)
    <2> DEFINE m == Head(queue["ingestion"])
               next == [Idle EXCEPT !.phase = "committed", !.msg = m, !.out = m.ids]
    <2>1. /\ "ingestion" \in Queues
          /\ queue["ingestion"] # << >>
          /\ Take(w, "ingestion", next)
      BY <1>3 DEF StartManualPipeline, Queues
    <2>2. m \in Message
      BY <2>1, HeadType
    <2>3. next \in WorkState
      BY <2>2, IdleType DEF WorkState, Phases, Message
    <2>4. QED
      BY <1>3, <2>1, <2>3, TakeType DEF StartManualPipeline, TypeOK, tables
  <1> DEFINE S == work[w].picked
  <1>S. S \in SUBSET Jobs /\ work[w].loaded \in [Jobs -> Row]
    BY <1>w DEF WorkState
  <1>4. CASE ScoreCommit(w)
    <2>1. PICK stage \in [S -> {"SCORED", "REJECTED"}] :
            /\ row' = FlushedBy(w, AllMoved(w, stage))
            /\ Committed(w, {j \in S : stage[j] = "SCORED"})
      BY <1>4 DEF ScoreCommit
    <2>2. row' \in [Jobs -> Row]
      <3>1. stage \in [S -> PipelineStatus]
        BY DEF PipelineStatus
      <3>2. QED
        BY <3>1, <2>1, <1>S, AllMovedType, TableType
    <2>3. analysis' \in [Jobs -> Analysis]
      <3> DEFINE new == [j \in S |->
                   WithScore(analysis[j], work[w].loaded[j].content)]
      <3>1. new \in [S -> Analysis]
        <4>1. ASSUME NEW j \in S
              PROVE  analysis[j] \in Analysis /\ work[w].loaded[j].content \in Contents
          BY <1>S DEF TypeOK, Row
        <4>2. QED
          BY <4>1, AnalysisEdits
      <3>2. analysis' = Upserted(new)
        BY <1>4 DEF ScoreCommit
      <3> HIDE DEF new
      <3>3. QED
        BY <3>1, <3>2, <1>S, UpsertedType
    <2>4. work' \in [Workers -> WorkState]
      BY <2>1, <1>S, CommittedType
    <2>5. QED
      BY <1>4, <2>2, <2>3, <2>4 DEF ScoreCommit, TypeOK
  <1>5. ASSUME NEW stage \in PipelineStatus, AllTo(w, stage)
        PROVE  /\ row' \in [Jobs -> Row]
               /\ work' \in [Workers -> WorkState]
               /\ UNCHANGED <<attempts, queue, api, launches, faults>>
    <2> DEFINE st == [j \in S |-> stage]
    <2>1. st \in [S -> PipelineStatus] /\ row' = FlushedBy(w, AllMoved(w, st))
      BY <1>5 DEF AllTo
    <2> HIDE DEF st
    <2>2. row' \in [Jobs -> Row]
      BY <2>1, <1>S, AllMovedType, TableType
    <2>3. QED
      BY <1>5, <2>2, <1>S, CommittedType DEF AllTo
  <1>A. ASSUME NEW j \in S
        PROVE  /\ analysis[j] \in Analysis
               /\ work[w].loaded[j] \in Row
               /\ work[w].loaded[j].content \in Contents
    BY <1>S DEF TypeOK, Row
  <1>6. CASE ClassifyCommit(w)
    <2> DEFINE new == [j \in S |->
                   WithPersona(analysis[j], work[w].loaded[j].content)]
    <2>1. new \in [S -> Analysis] /\ analysis' = Upserted(new)
      BY <1>6, <1>A, AnalysisEdits DEF ClassifyCommit
    <2> HIDE DEF new
    <2>2. analysis' \in [Jobs -> Analysis]
      BY <2>1, <1>S, UpsertedType
    <2>3. QED
      BY <1>6, <1>5, <2>2 DEF ClassifyCommit, TypeOK, PipelineStatus
  <1>7. CASE AtsCommit(w)
    <2> DEFINE new == [j \in S |->
                   WithMatch(analysis[j], work[w].loaded[j].content)]
    <2>1. new \in [S -> Analysis] /\ analysis' = Upserted(new)
      BY <1>7, <1>A, AnalysisEdits DEF AtsCommit
    <2> HIDE DEF new
    <2>2. analysis' \in [Jobs -> Analysis]
      BY <2>1, <1>S, UpsertedType
    <2>3. QED
      BY <1>7, <1>5, <2>2 DEF AtsCommit, TypeOK, PipelineStatus
  <1>8. CASE GateRecommend(w)
    <2> DEFINE new == [j \in S |-> WithSuggestion(analysis[j])]
               rows == [j \in S |-> Recommended(work[w].loaded[j])]
    <2>1. new \in [S -> Analysis] /\ analysis' = Upserted(new)
      BY <1>8, <1>A, AnalysisEdits DEF GateRecommend
    <2>2. rows \in [S -> Row] /\ row' = FlushedBy(w, rows)
      BY <1>8, <1>A, RowEdits DEF GateRecommend
    <2> HIDE DEF new, rows
    <2>3. QED
      BY <1>8, <1>S, <2>1, <2>2, UpsertedType, TableType, CommittedType
         DEF GateRecommend, TypeOK
  <1>9. CASE GateDecline(w)
    <2> DEFINE rows == [j \in S |-> [work[w].loaded[j] EXCEPT
                                      !.eligibility = "ineligible"]]
    <2>1. rows \in [S -> Row] /\ row' = FlushedBy(w, rows)
      BY <1>9, <1>A DEF GateDecline, Row
    <2> HIDE DEF rows
    <2>2. QED
      BY <1>9, <1>S, <2>1, TableType, CommittedType DEF GateDecline, TypeOK
  <1>10. CASE SourceCommit(w)
    <2>1. PICK new \in SUBSET Jobs, D \in SUBSET Jobs :
            row' = WithNew(new, D) /\ Committed(w, new)
      BY <1>10 DEF SourceCommit
    <2>2. row' \in [Jobs -> Row]
      BY <2>1, WithNewType
    <2>3. work' \in [Workers -> WorkState]
      BY <2>1, CommittedType
    <2>4. QED
      BY <1>10, <2>2, <2>3 DEF SourceCommit, TypeOK
  <1>11. CASE SourceFails(w)
    BY <1>11, CommittedType DEF SourceFails, TypeOK, tables
  <1>a. ASSUME NEW j \in Jobs
        PROVE  /\ attempts[j] \in Attempts
               /\ [attempts[j] EXCEPT !.failed = @ + 1] \in Attempts
               /\ [attempts[j] EXCEPT !.resolved = @ + 1] \in Attempts
    <2>1. attempts[j] \in Attempts
      BY DEF TypeOK
    <2>2. attempts[j].failed + 1 \in Nat /\ attempts[j].resolved + 1 \in Nat
      BY <2>1 DEF Attempts
    <2>3. QED
      BY <2>1, <2>2 DEF Attempts
  <1>12. ASSUME NEW T \in SUBSET Jobs, FailedAttempt(T)
         PROVE  attempts' \in [Jobs -> Attempts]
    BY <1>12, <1>a DEF FailedAttempt
  <1>13. CASE ResolveCheck(w)
    <2> DEFINE m == Head(queue["default"])
               next(phase) == [Idle EXCEPT !.phase = phase, !.msg = m]
    <2>1. /\ "default" \in Queues
          /\ queue["default"] # << >>
          /\ Take(w, "default", next("done")) \/ Take(w, "default", next("fetching"))
          /\ UNCHANGED attempts \/ FailedAttempt(m.ids)
          /\ UNCHANGED <<row, analysis, api, launches, faults>>
      BY <1>13 DEF ResolveCheck, Queues
    <2>2. m \in Message /\ m.ids \in SUBSET Jobs
      BY <2>1, HeadType DEF Message
    <2>3. next("done") \in WorkState /\ next("fetching") \in WorkState
      BY <2>2, IdleType DEF WorkState, Phases
    <2>4. attempts' \in [Jobs -> Attempts]
      BY <2>1, <2>2, <1>12 DEF TypeOK
    <2> HIDE DEF next
    <2>5. QED
      BY <2>1, <2>3, <2>4, TakeType DEF TypeOK
  <1>m. work[w].msg.ids \in SUBSET Jobs
    BY <1>w DEF WorkState, Message, NoMsg, Msg
  <1>14. CASE ResolveFails(w)
    BY <1>14, <1>m, <1>12, CommittedType DEF ResolveFails, TypeOK
  <1>15. CASE ResolveLoad(w)
    <2> DEFINE L == [j \in Jobs |-> IF j \in work[w].msg.ids THEN row[j] ELSE Absent]
    <2>1. L \in [Jobs -> Row]
      BY InsertedType DEF TypeOK
    <2>2. [phase |-> "running", msg |-> work[w].msg, picked |-> work[w].msg.ids,
           loaded |-> L, out |-> {}] \in WorkState
      BY <2>1, <1>m, <1>w DEF WorkState, Phases
    <2>3. QED
      BY <1>15, <2>2 DEF ResolveLoad, TypeOK, tables
  <1>16. CASE ResolveCommit(w)
    <2>1. PICK described \in BOOLEAN :
            row' = FlushedBy(w, [j \in S |-> Canonical(work[w].loaded[j], described)])
      BY <1>16 DEF ResolveCommit
    <2> DEFINE rows == [j \in S |-> Canonical(work[w].loaded[j], described)]
    <2>2. rows \in [S -> Row]
      BY <1>A, RowEdits
    <2>3. attempts' \in [Jobs -> Attempts]
      BY <1>16, <1>a DEF ResolveCommit
    <2>4. QED
      BY <1>16, <1>S, <2>1, <2>2, <2>3, TableType, CommittedType
         DEF ResolveCommit, TypeOK, rows
  <1>17. CASE Publish(w)
    <2>1. Outgoing(w) \in Seq(Message)
      <3>1. CASE Outgoing(w) = << >>
        BY <3>1
      <3>2. CASE Outgoing(w) # << >>
        <4>1. NextTask(work[w].msg.task) \in Tasks
          BY DEF NextTask, Tasks, ChainTasks
        <4>2. (IF work[w].msg.task = "scrape" THEN {} ELSE work[w].out) \in SUBSET Jobs
          BY <1>w DEF WorkState
        <4>3. QED
          BY <3>2, <4>1, <4>2, MessageType DEF Outgoing
      <3>3. QED
        BY <3>1, <3>2
    <2>2. queue' \in [Queues -> Seq(Message)]
      <3>1. "default" \in Queues /\ queue["default"] \in Seq(Message)
        BY DEF TypeOK, Queues
      <3>2. queue["default"] \o Outgoing(w) \in Seq(Message)
        BY <3>1, <2>1
      <3>3. QED
        BY <1>17, <3>1, <3>2 DEF Publish, TypeOK
    <2>3. QED
      BY <1>17, <2>2, CommittedType DEF Publish, TypeOK, tables
  <1>18. CASE Acknowledge(w)
    BY <1>18, IdleType DEF Acknowledge, TypeOK, tables
  <1>19. QED
    BY <1>1, <1>2, <1>3, <1>4, <1>6, <1>7, <1>8, <1>9, <1>10, <1>11, <1>13,
       <1>14, <1>15, <1>16, <1>17, <1>18 DEF WorkerStep

\* Appending a message of a known task to its queue.
LEMMA SendType ==
  ASSUME TypeOK, NEW t \in Tasks, NEW S \in SUBSET Jobs, Send(t, S)
  PROVE  queue' \in [Queues -> Seq(Message)]
  <1>1. Msg(t, S) \in Message /\ QueueOf(t) \in Queues
    BY MessageType
  <1>2. Append(queue[QueueOf(t)], Msg(t, S)) \in Seq(Message)
    BY <1>1 DEF TypeOK
  <1>3. QED
    BY <1>1, <1>2 DEF Send, TypeOK

\* Launching a task.
LEMMA LaunchType ==
  ASSUME TypeOK, NEW t \in Tasks, NEW S \in SUBSET Jobs, Launch(t, S)
  PROVE  TypeOK'
  <1>1. launches' \in 0..MaxLaunches
    BY PipelineAssumption DEF Launch, TypeOK
  <1>2. QED
    BY <1>1, SendType DEF Launch, TypeOK, tables

\* Each step of the API keeps the variables in their types.
LEMMA ApiStepType ==
  ASSUME TypeOK, ApiStep
  PROVE  TypeOK'
  <1>1. CASE LaunchSource
    BY <1>1, LaunchType DEF LaunchSource, Tasks
  <1>2. ASSUME NEW j \in Jobs, RequestResolve(j)
        PROVE  TypeOK'
    BY <1>2, LaunchType DEF RequestResolve, Tasks
  <1>3. ASSUME NEW r \in Requests, NEW j \in Jobs, ManualInsert(r, j)
        PROVE  TypeOK'
    <2>1. row' \in [Jobs -> Row]
      BY <1>3, WithNewType DEF ManualInsert
    <2>2. api' \in [Requests -> RequestState]
      BY <1>3, IdleType DEF ManualInsert, TypeOK, RequestState
    <2>3. launches' \in 0..MaxLaunches
      BY <1>3, PipelineAssumption DEF ManualInsert, TypeOK
    <2>4. QED
      BY <1>3, <2>1, <2>2, <2>3 DEF ManualInsert, TypeOK
  <1>4. ASSUME NEW r \in Requests, ManualEnqueue(r)
        PROVE  TypeOK'
    <2>1. api[r].jobs \in SUBSET Jobs
      BY DEF TypeOK, RequestState
    <2>2. queue' \in [Queues -> Seq(Message)]
      BY <1>4, <2>1, SendType DEF ManualEnqueue, Tasks
    <2>3. QED
      BY <1>4, <2>2, IdleType DEF ManualEnqueue, TypeOK, tables
  <1>5. ASSUME NEW r \in Requests, NEW j \in Jobs, NEW u \in Decisions,
               StatusLoad(r, j, u)
        PROVE  TypeOK'
    <2>1. [op |-> "status", jobs |-> {j}, user |-> u, loaded |-> row[j]]
            \in RequestState
      BY PipelineAssumption DEF TypeOK, RequestState
    <2>2. QED
      BY <1>5, <2>1 DEF StatusLoad, TypeOK, tables
  <1>6. ASSUME NEW r \in Requests, StatusCommit(r)
        PROVE  TypeOK'
    <2> DEFINE old == api[r].loaded
               new == [old EXCEPT !.user = api[r].user,
                                  !.status = LegacyStatus(old.pipeline, api[r].user)]
    <2>1. old \in Row /\ api[r].user \in UserStatus
      BY DEF TypeOK, RequestState
    <2>2. LegacyStatus(old.pipeline, api[r].user) \in MirrorStatus
      BY <2>1, LegacyStatusType DEF Row
    <2>3. new \in Row
      BY <2>1, <2>2 DEF Row
    <2>4. row' = [j \in Jobs |-> IF j \in api[r].jobs THEN Flush(row[j], old, new)
                                                     ELSE row[j]]
      BY <1>6 DEF StatusCommit
    <2> HIDE DEF old, new
    <2>5. row' \in [Jobs -> Row]
      BY <2>1, <2>3, <2>4, FlushType DEF TypeOK
    <2>6. api' \in [Requests -> RequestState]
      BY <1>6, IdleType DEF StatusCommit, TypeOK
    <2>7. QED
      BY <1>6, <2>5, <2>6 DEF StatusCommit, TypeOK
  <1>7. QED
    BY <1>1, <1>2, <1>3, <1>4, <1>5, <1>6 DEF ApiStep

\* Each fault keeps the variables in their types.
LEMMA FaultType ==
  ASSUME TypeOK, Fault
  PROVE  TypeOK'
  <1>f. ASSUME faults < MaxFaults, faults' = faults + 1
        PROVE  faults' \in 0..MaxFaults
    BY <1>f, PipelineAssumption DEF TypeOK
  <1>1. ASSUME NEW w \in Workers, Crash(w)
        PROVE  TypeOK'
    <2> DEFINE m == work[w].msg
    <2>1. queue' \in [Queues -> Seq(Message)]
      <3>1. CASE ~ AcksLate(m.task)
        BY <1>1, <3>1 DEF Crash, TypeOK
      <3>2. CASE AcksLate(m.task) /\ m \in Message
        <4>1. QueueOf(m.task) \in Queues
          BY DEF QueueOf, Queues
        <4>2. <<m>> \o queue[QueueOf(m.task)] \in Seq(Message)
          BY <3>2, <4>1 DEF TypeOK
        <4>3. QED
          BY <1>1, <3>2, <4>1, <4>2 DEF Crash, TypeOK
      <3>3. AcksLate(m.task) => m \in Message
        BY DEF AcksLate, Tasks, ChainTasks, SourceTasks, TypeOK, WorkState, NoMsg, Msg
      <3>4. QED
        BY <3>1, <3>2, <3>3
    <2>2. work' \in [Workers -> WorkState]
      BY <1>1, IdleType DEF Crash, TypeOK
    <2>3. QED
      BY <1>1, <1>f, <2>1, <2>2 DEF Crash, TypeOK, tables
  <1>2. ASSUME NEW w \in Workers, TaskFails(w)
        PROVE  TypeOK'
    BY <1>2, <1>f, CommittedType DEF TaskFails, TypeOK, tables
  <1>3. ASSUME NEW r \in Requests, RequestDies(r)
        PROVE  TypeOK'
    BY <1>3, <1>f, IdleType DEF RequestDies, TypeOK, tables
  <1>4. QED
    BY <1>1, <1>2, <1>3 DEF Fault

\* The initial state is typed.
LEMMA InitType ==
  ASSUME Init
  PROVE  TypeOK
  <1>1. Absent \in Row
    BY DEF Absent, Row, PipelineStatus, UserStatus, MirrorStatus, Contents
  <1>2. NoAnalysis \in Analysis
    BY DEF NoAnalysis, Analysis, Basis
  <1>3. << >> \in Seq(Message)
    OBVIOUS
  <1>4. QED
    BY <1>1, <1>2, <1>3, IdleType, PipelineAssumption
    DEF Init, TypeOK, Unloaded, Attempts

\* In every behaviour of the pipeline, of any number of jobs, workers and
\* requests, the tables hold rows, the queues messages of known tasks, and the
\* bounds are kept.
THEOREM TypeCorrect == Spec => []TypeOK
  <1>1. Init => TypeOK
    BY InitType
  <1>2. TypeOK /\ [Next]_vars => TypeOK'
    <2> SUFFICES ASSUME TypeOK, [Next]_vars
                 PROVE  TypeOK'
      OBVIOUS
    <2>1. CASE Next
      BY <2>1, WorkerStepType, ApiStepType, FaultType DEF Next
    <2>2. CASE UNCHANGED vars
      BY <2>2 DEF vars, TypeOK
    <2>3. QED
      BY <2>1, <2>2
  <1>3. QED
    BY <1>1, <1>2, PTL DEF Spec

--------------------------------------------------------------------------------
(* The inductive invariant.                                                *)

\* The strengthening: a commit is safe because what it loaded is current.
IInv ==
  /\ TypeOK
  /\ SnapshotCurrent
  /\ UnstoredBlank
  /\ AnalysisFresh
  /\ ResolvedOnce

--------------------------------------------------------------------------------
(* Lemmas about rows.                                                      *)

\* Agreement of two rows, column by column.
LEMMA AgreeColumns ==
  ASSUME NEW r, NEW s
  PROVE  Agree(r, s) <=> /\ r.pipeline = s.pipeline
                         /\ r.content = s.content
                         /\ r.described = s.described
                         /\ r.resolution = s.resolution
                         /\ r.ready = s.ready
                         /\ r.eligibility = s.eligibility
BY DEF Agree, TaskColumns

\* A flush of a row that is still as loaded, up to the user's columns, stores
\* what the task computed.
LEMMA FlushCurrent ==
  ASSUME NEW cur, NEW old, NEW new, Agree(old, cur)
  PROVE  Agree(Flush(cur, old, new), new)
BY AgreeColumns DEF Flush, Column

\* Rows that agree are equally fresh and equally consistent.
LEMMA AgreeKeeps ==
  ASSUME NEW r, NEW s, Agree(r, s), NEW a, NEW t
  PROVE  /\ Fresh(r, a) <=> Fresh(s, a)
         /\ Consistent(r, t) <=> Consistent(s, t)
BY AgreeColumns DEF Fresh, Consistent

\* The commit of a running task stores what it computed for the rows it picked,
\* and leaves the others alone.
LEMMA CommitStores ==
  ASSUME TypeOK, SnapshotCurrent, NEW w \in Workers, work[w].phase = "running",
         NEW new, DOMAIN new = work[w].picked, row' = FlushedBy(w, new)
  PROVE  /\ \A j \in work[w].picked : Agree(row'[j], new[j])
         /\ \A j \in Jobs \ work[w].picked : row'[j] = row[j]
  <1>1. work[w].picked \subseteq Jobs
    BY DEF TypeOK, WorkState
  <1>2. ASSUME NEW j \in work[w].picked
        PROVE  Agree(row'[j], new[j])
    <2>1. Agree(work[w].loaded[j], row[j])
      BY DEF SnapshotCurrent, Current
    <2>2. row'[j] = Flush(row[j], work[w].loaded[j], new[j])
      BY <1>1 DEF FlushedBy
    <2>3. QED
      BY <2>1, <2>2, FlushCurrent
  <1>3. QED
    BY <1>2 DEF FlushedBy

\* With a single worker, a step after which it is not in a transaction of its own
\* leaves no snapshot to be stale.
LEMMA NoSnapshot ==
  ASSUME SoloWorker, NEW w \in Workers,
         \/ work'[w].phase \in {"idle", "committed", "done"}
         \/ work'[w].phase = "fetching" /\ work'[w].msg.task # "resolve"
  PROVE  SnapshotCurrent'
BY DEF SnapshotCurrent, Current, SoloWorker

--------------------------------------------------------------------------------
(* The tables.                                                             *)

\* What the invariant says of one job's rows.
Sound(r, a, t) ==
  /\ r.pipeline = "ABSENT" => r.resolution = "not_discovery"
  /\ Fresh(r, a)
  /\ Consistent(r, t)

TablesSound == \A j \in Jobs : Sound(row[j], analysis[j], attempts[j])

\* The three table invariants are one, job by job, before and after a step.
LEMMA TablesSplit ==
  /\ TablesSound <=> UnstoredBlank /\ AnalysisFresh /\ ResolvedOnce
  /\ TablesSound' <=> (UnstoredBlank /\ AnalysisFresh /\ ResolvedOnce)'
BY DEF TablesSound, Sound, UnstoredBlank, Unstored, AnalysisFresh, ResolvedOnce

\* Rows that agree with sound ones are sound, and so after one more failed attempt.
LEMMA SoundAgree ==
  ASSUME NEW r, NEW s, NEW a, NEW t, NEW u,
         Sound(r, a, t), Agree(r, s), u.resolved = t.resolved
  PROVE  Sound(s, a, u)
BY AgreeColumns DEF Sound, Fresh, Consistent

\* A step that changes no table keeps them sound.
LEMMA TablesKept ==
  ASSUME TablesSound, UNCHANGED tables
  PROVE  TablesSound'
BY DEF TablesSound, tables

\* A failed attempt changes nothing the invariant speaks of.
LEMMA FailedAttemptSound ==
  ASSUME TypeOK, TablesSound, NEW S, FailedAttempt(S), UNCHANGED <<row, analysis>>
  PROVE  TablesSound'
  <1>1. ASSUME NEW j \in Jobs
        PROVE  attempts'[j].resolved = attempts[j].resolved
    BY DEF FailedAttempt, TypeOK, Attempts
  <1>2. ASSUME NEW j \in Jobs
        PROVE  Agree(row[j], row'[j])
    BY AgreeColumns
  <1>3. QED
    BY <1>1, <1>2, SoundAgree DEF TablesSound

\* What a chain task picked is in the stage it consumes.
LEMMA PickedStage ==
  ASSUME TypeOK, SnapshotCurrent, NEW w \in Workers, NEW t \in ChainTasks,
         Running(w, t), NEW j \in work[w].picked
  PROVE  /\ j \in Jobs
         /\ work[w].loaded[j] \in Row
         /\ row[j].pipeline = InputStage(t)
         /\ Agree(work[w].loaded[j], row[j])
  <1>1. t # "resolve"
    BY DEF ChainTasks
  <1>2. QED
    BY <1>1 DEF SnapshotCurrent, Current, Running, TypeOK, WorkState

\* The analysis columns each stage writes.
LEMMA EditedColumns ==
  ASSUME NEW a \in Analysis, NEW c
  PROVE  /\ WithScore(a, c).score = c
         /\ c \in WithPersona(a, c).persona
         /\ WithPersona(a, c).score = a.score
         /\ WithMatch(a, c).ats = c
         /\ WithMatch(a, c).score = a.score
         /\ WithMatch(a, c).persona = a.persona
         /\ WithSuggestion(a).score = a.score
         /\ WithSuggestion(a).persona = a.persona
         /\ WithSuggestion(a).ats = a.ats
BY DEF Analysis, WithScore, WithPersona, WithMatch, WithSuggestion

\* A chain task's commit keeps the tables sound when each row it stores keeps its
\* text and its resolution and is fresh with the analysis stored with it.
LEMMA StoredSound ==
  ASSUME TypeOK, SnapshotCurrent, TablesSound, NEW w \in Workers, NEW t \in ChainTasks,
         Running(w, t), NEW new, DOMAIN new = work[w].picked,
         row' = FlushedBy(w, new), UNCHANGED attempts,
         \A j \in Jobs \ work[w].picked : analysis'[j] = analysis[j],
         \A j \in work[w].picked : /\ new[j].pipeline # "ABSENT"
                                   /\ new[j].content = row[j].content
                                   /\ new[j].resolution = row[j].resolution
                                   /\ Fresh(new[j], analysis'[j])
  PROVE  TablesSound'
  <1>1. /\ \A j \in work[w].picked : Agree(row'[j], new[j])
        /\ \A j \in Jobs \ work[w].picked : row'[j] = row[j]
    BY CommitStores DEF Running
  <1>2. ASSUME NEW j \in work[w].picked
        PROVE  Sound(row'[j], analysis'[j], attempts'[j])
    <2>1. j \in Jobs
      BY PickedStage
    <2>2. Consistent(row[j], attempts[j])
      BY <2>1 DEF TablesSound, Sound
    <2>3. Consistent(new[j], attempts'[j])
      BY <2>2 DEF Consistent
    <2>4. Sound(new[j], analysis'[j], attempts'[j])
      BY <2>3 DEF Sound
    <2>5. Agree(new[j], row'[j])
      BY <1>1, AgreeColumns
    <2>6. QED
      BY <2>4, <2>5, SoundAgree
  <1>3. ASSUME NEW j \in Jobs \ work[w].picked
        PROVE  Sound(row'[j], analysis'[j], attempts'[j])
    BY <1>1 DEF TablesSound
  <1>4. QED
    BY <1>2, <1>3 DEF TablesSound

\* What a chain task knows of a job it picked: the text it loaded is the row's,
\* and the analysis is fresh for the stage the job is in.
LEMMA PickedJob ==
  ASSUME TypeOK, SnapshotCurrent, TablesSound, NEW w \in Workers, NEW t \in ChainTasks,
         Running(w, t), NEW j \in work[w].picked
  PROVE  /\ j \in Jobs /\ analysis[j] \in Analysis /\ work[w].loaded[j] \in Row
         /\ work[w].loaded[j].pipeline = InputStage(t)
         /\ work[w].loaded[j].content = row[j].content
         /\ work[w].loaded[j].resolution = row[j].resolution
         /\ Fresh(work[w].loaded[j], analysis[j])
  <1>1. /\ j \in Jobs /\ work[w].loaded[j] \in Row
        /\ row[j].pipeline = InputStage(t)
        /\ Agree(work[w].loaded[j], row[j])
    BY PickedStage
  <1>2. Fresh(row[j], analysis[j])
    BY <1>1 DEF TablesSound, Sound
  <1>3. QED
    BY <1>1, <1>2, AgreeColumns, AgreeKeeps DEF TypeOK

\* The commit of score_jobs keeps the tables sound.
LEMMA ScoreSound ==
  ASSUME TypeOK, SnapshotCurrent, TablesSound, NEW w \in Workers, ScoreCommit(w)
  PROVE  TablesSound'
  <1>1. PICK stage \in [work[w].picked -> {"SCORED", "REJECTED"}] :
          row' = FlushedBy(w, AllMoved(w, stage))
    BY DEF ScoreCommit
  <1>2. Running(w, "score") /\ "score" \in ChainTasks
    BY DEF ScoreCommit, ChainTasks
  <1> DEFINE new == AllMoved(w, stage)
  <1>3. DOMAIN new = work[w].picked
    BY DEF AllMoved
  <1>4. ASSUME NEW j \in work[w].picked
        PROVE  /\ new[j].pipeline # "ABSENT"
               /\ new[j].content = row[j].content
               /\ new[j].resolution = row[j].resolution
               /\ Fresh(new[j], analysis'[j])
    <2>1. /\ j \in Jobs /\ analysis[j] \in Analysis /\ work[w].loaded[j] \in Row
          /\ work[w].loaded[j].content = row[j].content
          /\ work[w].loaded[j].resolution = row[j].resolution
      BY <1>2, PickedJob
    <2>2. analysis'[j] = WithScore(analysis[j], work[w].loaded[j].content)
      BY <2>1 DEF ScoreCommit, Upserted
    <2>3. analysis'[j].score = row[j].content
      BY <2>1, <2>2, EditedColumns
    <2>4. stage[j] \in {"SCORED", "REJECTED"} /\ stage[j] \in PipelineStatus
      BY DEF PipelineStatus
    <2>5. new[j] = Moved(work[w].loaded[j], stage[j])
      BY DEF AllMoved
    <2>6. /\ new[j].pipeline = stage[j]
          /\ new[j].content = row[j].content
          /\ new[j].resolution = row[j].resolution
      BY <2>1, <2>4, <2>5, MovedType
    <2>7. QED
      BY <2>3, <2>4, <2>6 DEF Fresh
  <1>5. ASSUME NEW j \in Jobs \ work[w].picked
        PROVE  analysis'[j] = analysis[j]
    BY DEF ScoreCommit, Upserted
  <1>6. UNCHANGED attempts
    BY DEF ScoreCommit
  <1> HIDE DEF new
  <1>7. QED
    BY <1>1, <1>2, <1>3, <1>4, <1>5, <1>6, StoredSound DEF new

\* The commit of classify_jobs keeps the tables sound.
LEMMA ClassifySound ==
  ASSUME TypeOK, SnapshotCurrent, TablesSound, NEW w \in Workers, ClassifyCommit(w)
  PROVE  TablesSound'
  <1> DEFINE new == AllMoved(w, [j \in work[w].picked |-> "CLASSIFIED"])
  <1>1. Running(w, "classify") /\ "classify" \in ChainTasks
    BY DEF ClassifyCommit, ChainTasks
  <1>2. row' = FlushedBy(w, new) /\ UNCHANGED attempts
    BY DEF ClassifyCommit, AllTo
  <1>3. DOMAIN new = work[w].picked
    BY DEF AllMoved
  <1>4. ASSUME NEW j \in work[w].picked
        PROVE  /\ new[j].pipeline # "ABSENT"
               /\ new[j].content = row[j].content
               /\ new[j].resolution = row[j].resolution
               /\ Fresh(new[j], analysis'[j])
    <2>1. /\ j \in Jobs /\ analysis[j] \in Analysis /\ work[w].loaded[j] \in Row
          /\ work[w].loaded[j].pipeline = "SCORED"
          /\ work[w].loaded[j].content = row[j].content
          /\ work[w].loaded[j].resolution = row[j].resolution
          /\ Fresh(work[w].loaded[j], analysis[j])
      BY <1>1, PickedJob DEF InputStage
    <2>2. analysis'[j] = WithPersona(analysis[j], work[w].loaded[j].content)
      BY <2>1 DEF ClassifyCommit, Upserted
    <2>3. /\ analysis'[j].score = row[j].content
          /\ row[j].content \in analysis'[j].persona
      BY <2>1, <2>2, EditedColumns DEF Fresh, Scored
    <2>4. new[j] = Moved(work[w].loaded[j], "CLASSIFIED")
      BY DEF AllMoved
    <2>5. /\ new[j].pipeline = "CLASSIFIED"
          /\ new[j].content = row[j].content
          /\ new[j].resolution = row[j].resolution
      BY <2>1, <2>4, MovedType DEF PipelineStatus
    <2>6. QED
      BY <2>3, <2>5 DEF Fresh
  <1>5. ASSUME NEW j \in Jobs \ work[w].picked
        PROVE  analysis'[j] = analysis[j]
    BY DEF ClassifyCommit, Upserted
  <1> HIDE DEF new
  <1>6. QED
    BY <1>1, <1>2, <1>3, <1>4, <1>5, StoredSound

\* The commit of ats_match_resume keeps the tables sound.
LEMMA AtsSound ==
  ASSUME TypeOK, SnapshotCurrent, TablesSound, NEW w \in Workers, AtsCommit(w)
  PROVE  TablesSound'
  <1> DEFINE new == AllMoved(w, [j \in work[w].picked |-> "ATS_ANALYZED"])
  <1>1. Running(w, "ats_match") /\ "ats_match" \in ChainTasks
    BY DEF AtsCommit, ChainTasks
  <1>2. row' = FlushedBy(w, new) /\ UNCHANGED attempts
    BY DEF AtsCommit, AllTo
  <1>3. DOMAIN new = work[w].picked
    BY DEF AllMoved
  <1>4. ASSUME NEW j \in work[w].picked
        PROVE  /\ new[j].pipeline # "ABSENT"
               /\ new[j].content = row[j].content
               /\ new[j].resolution = row[j].resolution
               /\ Fresh(new[j], analysis'[j])
    <2>1. /\ j \in Jobs /\ analysis[j] \in Analysis /\ work[w].loaded[j] \in Row
          /\ work[w].loaded[j].pipeline = "CLASSIFIED"
          /\ work[w].loaded[j].content = row[j].content
          /\ work[w].loaded[j].resolution = row[j].resolution
          /\ Fresh(work[w].loaded[j], analysis[j])
      BY <1>1, PickedJob DEF InputStage
    <2>2. analysis'[j] = WithMatch(analysis[j], work[w].loaded[j].content)
      BY <2>1 DEF AtsCommit, Upserted
    <2>3. /\ analysis'[j].score = row[j].content
          /\ row[j].content \in analysis'[j].persona
          /\ analysis'[j].ats = row[j].content
      BY <2>1, <2>2, EditedColumns DEF Fresh, Scored
    <2>4. new[j] = Moved(work[w].loaded[j], "ATS_ANALYZED")
      BY DEF AllMoved
    <2>5. /\ new[j].pipeline = "ATS_ANALYZED"
          /\ new[j].content = row[j].content
          /\ new[j].resolution = row[j].resolution
      BY <2>1, <2>4, MovedType DEF PipelineStatus
    <2>6. QED
      BY <2>3, <2>5 DEF Fresh
  <1>5. ASSUME NEW j \in Jobs \ work[w].picked
        PROVE  analysis'[j] = analysis[j]
    BY DEF AtsCommit, Upserted
  <1> HIDE DEF new
  <1>6. QED
    BY <1>1, <1>2, <1>3, <1>4, <1>5, StoredSound

\* What the gate and the resolution make of a row.
LEMMA EditedRows ==
  ASSUME NEW r \in Row
  PROVE  /\ Recommended(r).pipeline = "RESUME_READY"
         /\ Recommended(r).content = r.content
         /\ Recommended(r).resolution = r.resolution
         /\ \A d \in BOOLEAN :
              /\ Canonical(r, d).pipeline = "INGESTED"
              /\ Canonical(r, d).content = "canonical"
              /\ Canonical(r, d).resolution = "resolved_canonical"
  <1>1. /\ Moved(r, "RESUME_READY") \in Row
        /\ Moved(r, "RESUME_READY").pipeline = "RESUME_READY"
        /\ Moved(r, "RESUME_READY").content = r.content
        /\ Moved(r, "RESUME_READY").resolution = r.resolution
        /\ Moved(r, "INGESTED") \in Row
        /\ Moved(r, "INGESTED").pipeline = "INGESTED"
    BY MovedType DEF PipelineStatus
  <1>2. ASSUME NEW s \in Row, NEW e
        PROVE  /\ [s EXCEPT !.eligibility = "eligible", !.ready = TRUE].pipeline
                    = s.pipeline
               /\ [s EXCEPT !.eligibility = "eligible", !.ready = TRUE].content
                    = s.content
               /\ [s EXCEPT !.eligibility = "eligible", !.ready = TRUE].resolution
                    = s.resolution
               /\ [s EXCEPT !.content = "canonical",
                            !.resolution = "resolved_canonical",
                            !.described = e].pipeline = s.pipeline
               /\ [s EXCEPT !.content = "canonical",
                            !.resolution = "resolved_canonical",
                            !.described = e].content = "canonical"
               /\ [s EXCEPT !.content = "canonical",
                            !.resolution = "resolved_canonical",
                            !.described = e].resolution = "resolved_canonical"
    BY <1>2 DEF Row
  <1>3. QED
    BY <1>1, <1>2 DEF Recommended, Canonical, Reset

\* The gate's commits keep the tables sound.
LEMMA GateSound ==
  ASSUME TypeOK, SnapshotCurrent, TablesSound, NEW w \in Workers,
         GateRecommend(w) \/ GateDecline(w)
  PROVE  TablesSound'
  <1>1. Running(w, "gate") /\ "gate" \in ChainTasks /\ UNCHANGED attempts
    BY DEF GateRecommend, GateDecline, ChainTasks
  <1>2. ASSUME NEW j \in work[w].picked
        PROVE  /\ j \in Jobs /\ analysis[j] \in Analysis /\ work[w].loaded[j] \in Row
               /\ work[w].loaded[j].pipeline = "ATS_ANALYZED"
               /\ work[w].loaded[j].content = row[j].content
               /\ work[w].loaded[j].resolution = row[j].resolution
               /\ Fresh(work[w].loaded[j], analysis[j])
    BY <1>1, PickedJob DEF InputStage
  <1>3. CASE GateRecommend(w)
    <2> DEFINE new == [j \in work[w].picked |-> Recommended(work[w].loaded[j])]
    <2>1. row' = FlushedBy(w, new) /\ DOMAIN new = work[w].picked
      BY <1>3 DEF GateRecommend
    <2>2. ASSUME NEW j \in work[w].picked
          PROVE  /\ new[j].pipeline = "RESUME_READY"
                 /\ new[j].content = row[j].content
                 /\ new[j].resolution = row[j].resolution
      BY <1>2, EditedRows
    <2>3. ASSUME NEW j \in work[w].picked
          PROVE  Fresh(new[j], analysis'[j])
      <3>1. analysis'[j] = WithSuggestion(analysis[j])
        BY <1>2, <1>3 DEF GateRecommend, Upserted
      <3>2. /\ analysis'[j].score = row[j].content
            /\ row[j].content \in analysis'[j].persona
            /\ analysis'[j].ats = row[j].content
        BY <1>2, <3>1, EditedColumns DEF Fresh, Scored
      <3>3. QED
        BY <2>2, <3>2 DEF Fresh
    <2>4. ASSUME NEW j \in Jobs \ work[w].picked
          PROVE  analysis'[j] = analysis[j]
      BY <1>3 DEF GateRecommend, Upserted
    <2>5. \A j \in work[w].picked : new[j].pipeline # "ABSENT"
      BY <2>2
    <2> HIDE DEF new
    <2>6. QED
      BY <1>1, <2>1, <2>2, <2>3, <2>4, <2>5, StoredSound
  <1>4. CASE GateDecline(w)
    <2> DEFINE new == [j \in work[w].picked |->
                        [work[w].loaded[j] EXCEPT !.eligibility = "ineligible"]]
    <2>1. /\ row' = FlushedBy(w, new) /\ DOMAIN new = work[w].picked
          /\ UNCHANGED analysis
      BY <1>4 DEF GateDecline
    <2>2. ASSUME NEW j \in work[w].picked
          PROVE  /\ new[j].pipeline = "ATS_ANALYZED"
                 /\ new[j].content = row[j].content
                 /\ new[j].resolution = row[j].resolution
      BY <1>2 DEF Row
    <2>3. ASSUME NEW j \in work[w].picked
          PROVE  Fresh(new[j], analysis'[j])
      BY <1>2, <2>1, <2>2 DEF Fresh
    <2>4. \A j \in Jobs : analysis'[j] = analysis[j]
      BY <2>1
    <2>5. \A j \in work[w].picked : new[j].pipeline # "ABSENT"
      BY <2>2
    <2> HIDE DEF new
    <2>6. QED
      BY <1>1, <2>1, <2>2, <2>3, <2>4, <2>5, StoredSound
  <1>5. QED
    BY <1>3, <1>4

\* A row that was just inserted is fresh, and consistent with no resolution.
LEMMA InsertSound ==
  ASSUME TypeOK, TablesSound, NEW S \in SUBSET Unstored, NEW D,
         row' = WithNew(S, D), UNCHANGED <<analysis, attempts>>
  PROVE  TablesSound'
  <1>1. ASSUME NEW j \in S
        PROVE  Sound(row'[j], analysis'[j], attempts'[j])
    <2>1. j \in Jobs /\ row[j].pipeline = "ABSENT"
      BY DEF Unstored
    <2>2. attempts[j].resolved = 0
      BY <2>1 DEF TablesSound, Sound, Consistent
    <2>3. row'[j] = Inserted(j, j \in D)
      BY <2>1 DEF WithNew
    <2>4. /\ row'[j].pipeline = "INGESTED"
          /\ row'[j].content = "listing"
          /\ row'[j].resolution # "resolved_canonical"
      BY <2>3 DEF Inserted, Absent
    <2>5. QED
      BY <2>2, <2>4 DEF Sound, Fresh, Consistent, Scored
  <1>2. ASSUME NEW j \in Jobs \ S
        PROVE  Sound(row'[j], analysis'[j], attempts'[j])
    BY DEF WithNew, TablesSound
  <1>3. QED
    BY <1>1, <1>2 DEF TablesSound

\* The commit of a resolution keeps the tables sound: no verdict is claimed for
\* the new text, and it was the first success.
LEMMA ResolveSound ==
  ASSUME TypeOK, SnapshotCurrent, TablesSound, NEW w \in Workers, ResolveCommit(w)
  PROVE  TablesSound'
  <1>1. PICK described \in BOOLEAN :
          row' = FlushedBy(w, [j \in work[w].picked |->
                                Canonical(work[w].loaded[j], described)])
    BY DEF ResolveCommit
  <1> DEFINE new == [j \in work[w].picked |-> Canonical(work[w].loaded[j], described)]
  <1>2. row' = FlushedBy(w, new) /\ DOMAIN new = work[w].picked
    BY <1>1
  <1>3. ASSUME NEW j \in work[w].picked
        PROVE  /\ j \in Jobs /\ work[w].loaded[j] \in Row
               /\ row[j].resolution = "pending"
    BY DEF SnapshotCurrent, Current, ResolveCommit, Running, ChainTasks,
           NeedsResolution, TypeOK, WorkState
  <1>4. ASSUME NEW j \in work[w].picked
        PROVE  /\ new[j].pipeline = "INGESTED"
               /\ new[j].content = "canonical"
               /\ new[j].resolution = "resolved_canonical"
    BY <1>3, EditedRows
  <1> HIDE DEF new
  <1>5. /\ \A j \in work[w].picked : Agree(row'[j], new[j])
        /\ \A j \in Jobs \ work[w].picked : row'[j] = row[j]
    BY <1>2, CommitStores DEF ResolveCommit, Running
  <1>6. ASSUME NEW j \in work[w].picked
        PROVE  Sound(row'[j], analysis'[j], attempts'[j])
    <2>1. attempts[j].resolved = 0
      BY <1>3 DEF TablesSound, Sound, Consistent
    <2>2. attempts'[j].resolved = 1
      <3>1. attempts[j] \in Attempts
        BY <1>3 DEF TypeOK
      <3>2. attempts'[j] = [attempts[j] EXCEPT !.resolved = @ + 1]
        BY <1>3 DEF ResolveCommit
      <3>3. QED
        BY <2>1, <3>1, <3>2 DEF Attempts
    <2>3. /\ row'[j].pipeline = "INGESTED"
          /\ row'[j].content = "canonical"
          /\ row'[j].resolution = "resolved_canonical"
      BY <1>4, <1>5, AgreeColumns
    <2>4. QED
      BY <2>2, <2>3 DEF Sound, Fresh, Consistent, Scored
  <1>7. ASSUME NEW j \in Jobs \ work[w].picked
        PROVE  Sound(row'[j], analysis'[j], attempts'[j])
    BY <1>5 DEF ResolveCommit, TablesSound
  <1>8. QED
    BY <1>6, <1>7 DEF TablesSound

\* The API's status commit changes only what the user's decision sets.
LEMMA StatusAgrees ==
  ASSUME TypeOK, NEW r \in Requests, StatusCommit(r), NEW j \in Jobs
  PROVE  Agree(row[j], row'[j])
  <1> DEFINE old == api[r].loaded
             new == [old EXCEPT !.user = api[r].user,
                                !.status = LegacyStatus(old.pipeline, api[r].user)]
  <1>1. row'[j] = IF j \in api[r].jobs THEN Flush(row[j], old, new) ELSE row[j]
    BY DEF StatusCommit
  <1>2. old \in Row
    BY DEF TypeOK, RequestState
  <1>3. Agree(old, new)
    BY <1>2, AgreeColumns DEF Row
  <1> HIDE DEF old, new
  <1>4. Agree(row[j], Flush(row[j], old, new))
    BY <1>3, AgreeColumns DEF Flush, Column
  <1>5. QED
    BY <1>1, <1>4, AgreeColumns

--------------------------------------------------------------------------------
(* The steps.                                                              *)

\* What a worker that just took a message, committed or finished is doing.
LEMMA NextPhase ==
  ASSUME TypeOK, NEW w \in Workers
  PROVE  /\ \A S : Committed(w, S) => work'[w].phase = "committed"
         /\ Finished(w) => work'[w].phase = "done"
         /\ \A q, next : Take(w, q, next) => work'[w] = next
  <1>1. ASSUME NEW S, Committed(w, S)
        PROVE  work'[w].phase = "committed"
    BY <1>1 DEF TypeOK, Committed
  <1>2. ASSUME Finished(w)
        PROVE  work'[w].phase = "done"
    BY <1>2 DEF TypeOK, Finished, Idle
  <1>3. ASSUME NEW q, NEW next, Take(w, q, next)
        PROVE  work'[w] = next
    BY <1>3 DEF TypeOK, Take
  <1>4. QED
    BY <1>1, <1>2, <1>3

\* A worker step keeps the tables sound.
LEMMA WorkerTables ==
  ASSUME TypeOK, SnapshotCurrent, TablesSound, NEW w \in Workers, WorkerStep(w)
  PROVE  TablesSound'
  <1>1. CASE ScoreCommit(w) \/ ClassifyCommit(w) \/ AtsCommit(w)
    BY <1>1, ScoreSound, ClassifySound, AtsSound
  <1>2. CASE GateRecommend(w) \/ GateDecline(w)
    BY <1>2, GateSound
  <1>3. CASE SourceCommit(w)
    <2>1. PICK new \in SUBSET Unstored, described \in SUBSET Jobs :
            row' = WithNew(new, described)
      BY <1>3 DEF SourceCommit, Unstored
    <2>2. QED
      BY <1>3, <2>1, InsertSound DEF SourceCommit
  <1>4. CASE ResolveCommit(w)
    BY <1>4, ResolveSound
  <1>5. CASE ResolveFails(w)
    BY <1>5, FailedAttemptSound DEF ResolveFails
  <1>6. CASE ResolveCheck(w)
    <2>1. UNCHANGED <<row, analysis>>
      BY <1>6 DEF ResolveCheck
    <2>2. UNCHANGED attempts \/ \E S : FailedAttempt(S)
      BY <1>6 DEF ResolveCheck
    <2>3. QED
      BY <2>1, <2>2, FailedAttemptSound, TablesKept DEF tables
  <1>7. CASE \/ StartChainTask(w) \/ StartSourceTask(w) \/ StartManualPipeline(w)
             \/ SourceFails(w) \/ ResolveLoad(w) \/ Publish(w) \/ Acknowledge(w)
    <2>1. UNCHANGED tables
      BY <1>7 DEF StartChainTask, StartSourceTask, StartManualPipeline, SourceFails,
                  ResolveLoad, Publish, Acknowledge
    <2>2. QED
      BY <2>1, TablesKept
  <1>8. QED
    BY <1>1, <1>2, <1>3, <1>4, <1>5, <1>6, <1>7 DEF WorkerStep

\* A step of the only worker leaves its snapshot current.
LEMMA WorkerSnapshot ==
  ASSUME SoloWorker, TypeOK, SnapshotCurrent, NEW w \in Workers, WorkerStep(w)
  PROVE  SnapshotCurrent'
  <1>1. CASE StartChainTask(w)
    <2> DEFINE m == Head(queue["default"])
               S == Selected(m)
               next == [phase |-> "running", msg |-> m, picked |-> S,
                        loaded |-> [j \in Jobs |-> IF j \in S THEN row[j] ELSE Absent],
                        out |-> {}]
    <2>1. /\ m.task \in ChainTasks
          /\ Take(w, "default", next)
          /\ UNCHANGED row
      BY <1>1 DEF StartChainTask, tables
    <2>2. work'[w] = next
      BY <2>1, NextPhase
    <2>3. ASSUME NEW j \in S
          PROVE  /\ Agree(next.loaded[j], row'[j])
                 /\ row'[j].pipeline = InputStage(m.task)
      BY <2>1, AgreeColumns DEF Selected
    <2>4. next.phase = "running" /\ next.picked = S /\ next.msg = m
      OBVIOUS
    <2> HIDE DEF S, m, next
    <2>5. Current(w)'
      BY <2>1, <2>2, <2>3, <2>4 DEF Current
    <2>6. QED
      BY <2>5 DEF SnapshotCurrent, SoloWorker
  <1>2. CASE StartSourceTask(w)
    <2>1. PICK q \in {"scrape", "ingestion"} :
            /\ Head(queue[q]).task \in SourceTasks
            /\ Take(w, q, [Idle EXCEPT !.phase = "fetching", !.msg = Head(queue[q])])
      BY <1>2 DEF StartSourceTask
    <2>2. /\ work'[w].phase = "fetching"
          /\ work'[w].msg.task # "resolve"
      BY <2>1, NextPhase DEF Idle, SourceTasks
    <2>3. QED
      BY <2>2, NoSnapshot
  <1>3. CASE StartManualPipeline(w)
    <2>1. work'[w].phase = "committed"
      BY <1>3, NextPhase DEF StartManualPipeline, Idle
    <2>2. QED
      BY <2>1, NoSnapshot
  <1>4. CASE \/ ScoreCommit(w) \/ ClassifyCommit(w) \/ AtsCommit(w) \/ SourceCommit(w)
             \/ GateRecommend(w) \/ GateDecline(w) \/ ResolveCommit(w)
    <2>1. \E S : Committed(w, S)
      BY <1>4 DEF ScoreCommit, ClassifyCommit, AtsCommit, AllTo, GateRecommend,
                  GateDecline, ResolveCommit, SourceCommit
    <2>2. QED
      BY <2>1, NextPhase, NoSnapshot
  <1>5. CASE SourceFails(w) \/ ResolveFails(w) \/ Publish(w)
    BY <1>5, NextPhase, NoSnapshot DEF SourceFails, ResolveFails, Publish
  <1>6. CASE Acknowledge(w)
    <2>1. work'[w].phase = "idle"
      BY <1>6 DEF Acknowledge, TypeOK, Idle
    <2>2. QED
      BY <2>1, NoSnapshot
  <1>7. CASE ResolveCheck(w)
    <2> DEFINE m == Head(queue["default"])
               Become(phase) == Take(w, "default",
                                     [Idle EXCEPT !.phase = phase, !.msg = m])
    <2>1. UNCHANGED row
      BY <1>7 DEF ResolveCheck
    <2>2. CASE Become("done")
      <3>1. work'[w].phase = "done"
        BY <2>2, NextPhase DEF Idle
      <3>2. QED
        BY <3>1, NoSnapshot
    <2>3. CASE Become("fetching") /\ \A j \in m.ids : NeedsResolution(j)
      <3>1. work'[w].phase = "fetching" /\ work'[w].msg = m
        BY <2>3, NextPhase DEF Idle
      <3>2. Current(w)'
        BY <2>1, <2>3, <3>1 DEF Current, NeedsResolution
      <3>3. QED
        BY <3>2 DEF SnapshotCurrent, SoloWorker
    <2>4. QED
      BY <1>7, <2>2, <2>3 DEF ResolveCheck
  <1>8. CASE ResolveLoad(w)
    <2> DEFINE S == work[w].msg.ids
               next == [phase |-> "running", msg |-> work[w].msg, picked |-> S,
                        loaded |-> [j \in Jobs |-> IF j \in S THEN row[j] ELSE Absent],
                        out |-> {}]
    <2>1. /\ work[w].phase = "fetching" /\ work[w].msg.task = "resolve"
          /\ UNCHANGED row
          /\ work'[w] = next
      BY <1>8 DEF ResolveLoad, tables, TypeOK
    <2>2. S \subseteq Jobs
      BY <2>1 DEF TypeOK, WorkState, Message, NoMsg, Msg
    <2>3. \A j \in S : NeedsResolution(j)
      BY <2>1 DEF SnapshotCurrent, Current
    <2>4. ASSUME NEW j \in S
          PROVE  Agree(next.loaded[j], row'[j])
      BY <2>1, <2>2, AgreeColumns
    <2>5. /\ next.phase = "running" /\ next.picked = S
          /\ next.msg.task = "resolve"
      BY <2>1
    <2> HIDE DEF S, next
    <2>6. Current(w)'
      BY <2>1, <2>3, <2>4, <2>5 DEF Current, NeedsResolution
    <2>7. QED
      BY <2>6 DEF SnapshotCurrent, SoloWorker
  <1>9. QED
    BY <1>1, <1>2, <1>3, <1>4, <1>5, <1>6, <1>7, <1>8 DEF WorkerStep

\* When no worker moves, snapshots stay current as long as the rows picked agree
\* with what they were.
LEMMA SnapshotKept ==
  ASSUME TypeOK, SnapshotCurrent, UNCHANGED work,
         \A j \in Jobs \ Unstored : Agree(row[j], row'[j]), UnstoredBlank
  PROVE  SnapshotCurrent'
  <1> SUFFICES ASSUME NEW w \in Workers
               PROVE  Current(w)'
    BY DEF SnapshotCurrent
  <1>1. Current(w)
    BY DEF SnapshotCurrent
  <1>2. ASSUME NEW j \in Jobs, NeedsResolution(j)
        PROVE  NeedsResolution(j)'
    BY <1>2, AgreeColumns DEF NeedsResolution, Unstored, UnstoredBlank
  <1>3. work[w].picked \subseteq Jobs
    BY DEF TypeOK, WorkState
  <1>4. ASSUME work[w].phase = "running", NEW j \in work[w].picked
        PROVE  /\ Agree(work[w].loaded[j], row'[j])
               /\ \/ /\ work[w].msg.task \in ChainTasks
                     /\ row'[j].pipeline = InputStage(work[w].msg.task)
                  \/ work[w].msg.task = "resolve" /\ NeedsResolution(j)'
    <2>1. j \in Jobs \ Unstored
      BY <1>1, <1>3, <1>4
      DEF Current, Unstored, InputStage, NeedsResolution, UnstoredBlank
    <2>2. QED
      BY <1>1, <1>2, <1>4, <2>1, AgreeColumns DEF Current
  <1>5. ASSUME work[w].phase = "fetching", work[w].msg.task = "resolve",
               NEW j \in work[w].msg.ids
        PROVE  NeedsResolution(j)'
    <2>1. j \in Jobs
      BY <1>5 DEF TypeOK, WorkState, Message, NoMsg, Msg
    <2>2. QED
      BY <1>1, <1>2, <1>5, <2>1 DEF Current
  <1>6. QED
    BY <1>4, <1>5 DEF Current

\* A step of the API keeps the tables sound and the snapshots current.
LEMMA ApiSafe ==
  ASSUME TypeOK, SnapshotCurrent, TablesSound, ApiStep
  PROVE  SnapshotCurrent' /\ TablesSound'
  <1>b. UnstoredBlank
    BY TablesSplit
  <1>1. CASE \/ LaunchSource
             \/ \E j \in Jobs : RequestResolve(j)
             \/ \E r \in Requests : ManualEnqueue(r)
             \/ \E r \in Requests, j \in Jobs, u \in Decisions : StatusLoad(r, j, u)
    <2>1. UNCHANGED <<tables, work>>
      BY <1>1 DEF LaunchSource, RequestResolve, Launch, ManualEnqueue, StatusLoad
    <2>2. \A j \in Jobs : Agree(row[j], row'[j])
      BY <2>1, AgreeColumns DEF tables
    <2>3. QED
      BY <1>b, <2>1, <2>2, TablesKept, SnapshotKept
  <1>2. ASSUME NEW r \in Requests, NEW j \in Jobs, ManualInsert(r, j)
        PROVE  SnapshotCurrent' /\ TablesSound'
    <2>1. PICK D : row' = WithNew({j}, D)
      BY <1>2 DEF ManualInsert
    <2>2. {j} \in SUBSET Unstored /\ UNCHANGED <<analysis, attempts, work>>
      BY <1>2 DEF ManualInsert
    <2>3. \A i \in Jobs \ Unstored : Agree(row[i], row'[i])
      BY <2>1, <2>2, AgreeColumns DEF WithNew
    <2>4. QED
      BY <1>b, <2>1, <2>2, <2>3, InsertSound, SnapshotKept
  <1>3. ASSUME NEW r \in Requests, StatusCommit(r)
        PROVE  SnapshotCurrent' /\ TablesSound'
    <2>1. UNCHANGED <<analysis, attempts, work>>
      BY <1>3 DEF StatusCommit
    <2>2. \A j \in Jobs : Agree(row[j], row'[j])
      BY <1>3, StatusAgrees
    <2>3. TablesSound'
      BY <2>1, <2>2, SoundAgree DEF TablesSound
    <2>4. QED
      BY <1>b, <2>1, <2>2, <2>3, SnapshotKept
  <1>4. QED
    BY <1>1, <1>2, <1>3 DEF ApiStep

\* So does a fault.
LEMMA FaultSafe ==
  ASSUME SoloWorker, TypeOK, SnapshotCurrent, TablesSound, Fault
  PROVE  SnapshotCurrent' /\ TablesSound'
  <1>1. UNCHANGED tables
    BY DEF Fault, Crash, TaskFails, RequestDies
  <1>2. ASSUME NEW w \in Workers, Crash(w) \/ TaskFails(w)
        PROVE  SnapshotCurrent'
    <2>1. work'[w].phase \in {"idle", "done"}
      BY <1>2, NextPhase DEF Crash, TaskFails, TypeOK, Idle
    <2>2. QED
      BY <2>1, NoSnapshot
  <1>3. ASSUME NEW r \in Requests, RequestDies(r)
        PROVE  SnapshotCurrent'
    <2>1. UNCHANGED <<row, work>>
      BY <1>3 DEF RequestDies, tables
    <2>2. QED
      BY <2>1, TablesSplit, AgreeColumns, SnapshotKept
  <1>4. QED
    BY <1>1, <1>2, <1>3, TablesKept DEF Fault

\* The invariant holds initially.
LEMMA InitInv ==
  ASSUME Init
  PROVE  IInv
  <1>1. TypeOK
    BY InitType
  <1>2. SnapshotCurrent
    BY DEF Init, SnapshotCurrent, Current, Idle
  <1>3. TablesSound
    BY DEF Init, TablesSound, Sound, Fresh, Consistent, Unloaded, Absent, Scored
  <1>4. QED
    BY <1>1, <1>2, <1>3, TablesSplit DEF IInv

\* Every step keeps the invariant.
LEMMA StepInv ==
  ASSUME SoloWorker, IInv, [Next]_vars
  PROVE  IInv'
  <1> USE DEF IInv
  <1>t. TablesSound
    BY TablesSplit
  <1>1. TypeOK'
    <2>1. CASE Next
      BY <2>1, WorkerStepType, ApiStepType, FaultType DEF Next
    <2>2. CASE UNCHANGED vars
      BY <2>2 DEF vars, TypeOK
    <2>3. QED
      BY <2>1, <2>2
  <1>2. CASE Next
    <2>1. SnapshotCurrent' /\ TablesSound'
      BY <1>2, <1>t, WorkerTables, WorkerSnapshot, ApiSafe, FaultSafe DEF Next
    <2>2. QED
      BY <1>1, <2>1, TablesSplit
  <1>3. CASE UNCHANGED vars
    <2>1. UNCHANGED <<tables, row, work>>
      BY <1>3 DEF vars, tables
    <2>2. TablesSound'
      BY <1>t, <2>1, TablesKept
    <2>3. SnapshotCurrent'
      BY <2>1, AgreeColumns, SnapshotKept
    <2>4. QED
      BY <1>1, <2>2, <2>3, TablesSplit
  <1>4. QED
    BY <1>2, <1>3

--------------------------------------------------------------------------------
(* The theorems.                                                           *)

\* With one worker process, the invariant holds in every reachable state.
THEOREM Invariance ==
  ASSUME SoloWorker
  PROVE  Spec => []IInv
  <1>1. Init => IInv
    BY InitInv
  <1>2. IInv /\ [Next]_vars => IInv'
    BY StepInv
  <1>3. QED
    BY <1>1, <1>2, PTL DEF Spec

\* With one worker process, what a task loaded is current at its commit.
THEOREM SnapshotIsCurrent ==
  ASSUME SoloWorker
  PROVE  Spec => []SnapshotCurrent
  <1>1. IInv => SnapshotCurrent
    BY DEF IInv
  <1>2. QED
    BY <1>1, Invariance, PTL

\* With one worker process, no verdict is shown for a text that did not enter it,
\* whatever is queued or in flight when a job is rewound, and whatever crashes.
THEOREM AnalysisIsFresh ==
  ASSUME SoloWorker
  PROVE  Spec => []AnalysisFresh
  <1>1. IInv => AnalysisFresh
    BY DEF IInv
  <1>2. QED
    BY <1>1, Invariance, PTL

\* With one worker process, a job is resolved at most once, however often its
\* resolution is requested or redelivered.
THEOREM ResolvedAtMostOnce ==
  ASSUME SoloWorker
  PROVE  Spec => []ResolvedOnce
  <1>1. IInv => ResolvedOnce
    BY DEF IInv
  <1>2. QED
    BY <1>1, Invariance, PTL

--------------------------------------------------------------------------------
(* The user's decisions, for any number of workers.                        *)

\* The strengthening: a posting without a row has no decision, and the API works
\* on stored rows only.
UserInv ==
  /\ TypeOK
  /\ \A j \in Unstored : row[j].user = "NEW"
  /\ \A r \in Requests : api[r].op = "status" =>
       \A j \in api[r].jobs : row[j].pipeline # "ABSENT"

\* A step that keeps job j's decision and its row.
Keeps(j) ==
  /\ row'[j].user = row[j].user
  /\ row'[j].pipeline = "ABSENT" => row[j].pipeline = "ABSENT"

\* A commit whose rows hold the decisions loaded writes none, however stale they
\* are.
LEMMA CommitKeeps ==
  ASSUME TypeOK, NEW w \in Workers, NEW new, row' = FlushedBy(w, new),
         \A j \in DOMAIN new : /\ new[j].user = work[w].loaded[j].user
                               /\ \/ new[j].pipeline # "ABSENT"
                                  \/ new[j].pipeline = work[w].loaded[j].pipeline
  PROVE  \A j \in Jobs : Keeps(j)
BY DEF FlushedBy, Flush, Column, Keeps

\* Moving, recommending, declining and rewinding a row keep its decision.
LEMMA EditsKeepUser ==
  ASSUME NEW r \in Row
  PROVE  /\ \A p \in PipelineStatus : Moved(r, p).user = r.user
                                      /\ Moved(r, p).pipeline # "ABSENT"
         /\ Recommended(r).user = r.user
         /\ Recommended(r).pipeline # "ABSENT"
         /\ [r EXCEPT !.eligibility = "ineligible"].user = r.user
         /\ [r EXCEPT !.eligibility = "ineligible"].pipeline = r.pipeline
         /\ \A d \in BOOLEAN : Canonical(r, d).user = r.user
                               /\ Canonical(r, d).pipeline # "ABSENT"
  <1>1. ASSUME NEW p \in PipelineStatus
        PROVE  /\ Moved(r, p) \in Row /\ Moved(r, p).user = r.user
               /\ Moved(r, p).pipeline # "ABSENT"
    BY MovedType DEF PipelineStatus
  <1>2. /\ Moved(r, "RESUME_READY") \in Row /\ Moved(r, "RESUME_READY").user = r.user
        /\ Moved(r, "INGESTED") \in Row /\ Moved(r, "INGESTED").user = r.user
    BY <1>1 DEF PipelineStatus
  <1>3. ASSUME NEW s \in Row, NEW e
        PROVE  /\ [s EXCEPT !.eligibility = "eligible", !.ready = TRUE].user = s.user
               /\ [s EXCEPT !.content = "canonical",
                            !.resolution = "resolved_canonical",
                            !.described = e].user = s.user
               /\ [s EXCEPT !.eligibility = "ineligible"].user = s.user
               /\ [s EXCEPT !.eligibility = "ineligible"].pipeline = s.pipeline
    BY <1>3 DEF Row
  <1>4. Recommended(r).user = r.user
    BY <1>2, <1>3 DEF Recommended
  <1>5. \A d \in BOOLEAN : Canonical(r, d).user = r.user
    BY <1>2, <1>3 DEF Canonical, Reset
  <1>6. QED
    BY <1>1, <1>3, <1>4, <1>5, EditedRows

\* The rows of a stage task keep the decisions loaded.
LEMMA AllMovedKeeps ==
  ASSUME TypeOK, NEW w \in Workers, NEW stage \in [work[w].picked -> PipelineStatus],
         row' = FlushedBy(w, AllMoved(w, stage))
  PROVE  \A j \in Jobs : Keeps(j)
  <1> DEFINE new == AllMoved(w, stage)
  <1>1. DOMAIN new = work[w].picked
    BY DEF AllMoved
  <1>2. ASSUME NEW j \in work[w].picked
        PROVE  /\ new[j].user = work[w].loaded[j].user
               /\ new[j].pipeline # "ABSENT"
    <2>1. new[j] = Moved(work[w].loaded[j], stage[j])
      BY DEF AllMoved
    <2>2. work[w].loaded[j] \in Row /\ stage[j] \in PipelineStatus
      BY DEF TypeOK, WorkState
    <2>3. QED
      BY <2>1, <2>2, EditsKeepUser
  <1> HIDE DEF new
  <1>3. QED
    BY <1>1, <1>2, CommitKeeps DEF new

\* No worker step changes a decision.
LEMMA WorkerKeeps ==
  ASSUME UserInv, NEW w \in Workers, WorkerStep(w)
  PROVE  \A j \in Jobs : Keeps(j)
  <1> USE DEF UserInv
  <1>w. \A j \in work[w].picked : work[w].loaded[j] \in Row
    BY DEF TypeOK, WorkState
  <1>1. CASE ScoreCommit(w)
    <2>1. PICK stage \in [work[w].picked -> {"SCORED", "REJECTED"}] :
            row' = FlushedBy(w, AllMoved(w, stage))
      BY <1>1 DEF ScoreCommit
    <2>2. stage \in [work[w].picked -> PipelineStatus]
      BY DEF PipelineStatus
    <2>3. QED
      BY <2>1, <2>2, AllMovedKeeps
  <1>2. ASSUME NEW p \in PipelineStatus, AllTo(w, p)
        PROVE  \A j \in Jobs : Keeps(j)
    <2> DEFINE stage == [j \in work[w].picked |-> p]
    <2>1. stage \in [work[w].picked -> PipelineStatus]
      OBVIOUS
    <2>2. row' = FlushedBy(w, AllMoved(w, stage))
      BY <1>2 DEF AllTo
    <2> HIDE DEF stage
    <2>3. QED
      BY <2>1, <2>2, AllMovedKeeps
  <1>3. CASE ClassifyCommit(w) \/ AtsCommit(w)
    BY <1>2, <1>3 DEF ClassifyCommit, AtsCommit, PipelineStatus
  <1>4. CASE GateRecommend(w)
    <2> DEFINE new == [j \in work[w].picked |-> Recommended(work[w].loaded[j])]
    <2>1. row' = FlushedBy(w, new)
      BY <1>4 DEF GateRecommend
    <2>2. \A j \in DOMAIN new : /\ new[j].user = work[w].loaded[j].user
                                /\ new[j].pipeline # "ABSENT"
      BY <1>w, EditsKeepUser
    <2> HIDE DEF new
    <2>3. QED
      BY <2>1, <2>2, CommitKeeps
  <1>5. CASE GateDecline(w)
    <2> DEFINE new == [j \in work[w].picked |->
                        [work[w].loaded[j] EXCEPT !.eligibility = "ineligible"]]
    <2>1. row' = FlushedBy(w, new)
      BY <1>5 DEF GateDecline
    <2>2. \A j \in DOMAIN new : /\ new[j].user = work[w].loaded[j].user
                                /\ new[j].pipeline = work[w].loaded[j].pipeline
      BY <1>w, EditsKeepUser
    <2> HIDE DEF new
    <2>3. QED
      BY <2>1, <2>2, CommitKeeps
  <1>6. CASE ResolveCommit(w)
    <2>1. PICK described \in BOOLEAN :
            row' = FlushedBy(w, [j \in work[w].picked |->
                                  Canonical(work[w].loaded[j], described)])
      BY <1>6 DEF ResolveCommit
    <2> DEFINE new == [j \in work[w].picked |-> Canonical(work[w].loaded[j], described)]
    <2>2. \A j \in DOMAIN new : /\ new[j].user = work[w].loaded[j].user
                                /\ new[j].pipeline # "ABSENT"
      BY <1>w, EditsKeepUser
    <2>3. row' = FlushedBy(w, new)
      BY <2>1
    <2> HIDE DEF new
    <2>4. QED
      BY <2>2, <2>3, CommitKeeps
  <1>7. CASE SourceCommit(w)
    <2>1. PICK new \in SUBSET Unstored, D \in SUBSET Jobs : row' = WithNew(new, D)
      BY <1>7 DEF SourceCommit, Unstored
    <2>2. QED
      BY <2>1 DEF WithNew, Inserted, Absent, Unstored, Keeps
  <1>8. CASE \/ StartChainTask(w) \/ StartSourceTask(w) \/ StartManualPipeline(w)
             \/ SourceFails(w) \/ ResolveCheck(w) \/ ResolveFails(w) \/ ResolveLoad(w)
             \/ Publish(w) \/ Acknowledge(w)
    <2>1. UNCHANGED row
      BY <1>8 DEF StartChainTask, StartSourceTask, StartManualPipeline, SourceFails,
              ResolveCheck, ResolveFails, ResolveLoad, Publish, Acknowledge, tables
    <2>2. QED
      BY <2>1 DEF Keeps
  <1>9. QED
    BY <1>1, <1>3, <1>4, <1>5, <1>6, <1>7, <1>8 DEF WorkerStep

\* The API's status commit writes the decision asked for, and no other.
LEMMA StatusWrites ==
  ASSUME UserInv, NEW r \in Requests, StatusCommit(r), NEW j \in Jobs
  PROVE  /\ row'[j].pipeline = row[j].pipeline
         /\ row'[j].user # row[j].user => /\ api[r].op = "status"
                                          /\ j \in api[r].jobs
                                          /\ row'[j].user = api[r].user
  <1> DEFINE old == api[r].loaded
             new == [old EXCEPT !.user = api[r].user,
                                !.status = LegacyStatus(old.pipeline, api[r].user)]
  <1>1. row'[j] = IF j \in api[r].jobs THEN Flush(row[j], old, new) ELSE row[j]
    BY DEF StatusCommit
  <1>2. old \in Row
    BY DEF UserInv, TypeOK, RequestState
  <1>3. new.pipeline = old.pipeline /\ new.user = api[r].user
    BY <1>2 DEF Row
  <1>4. api[r].op = "status"
    BY DEF StatusCommit
  <1> HIDE DEF old, new
  <1>5. QED
    BY <1>1, <1>3, <1>4 DEF Flush, Column

\* What a step does to the decisions, and that it keeps the strengthening.
LEMMA UserStep ==
  ASSUME UserInv, [Next]_vars
  PROVE  /\ UserInv'
         /\ \A j \in Jobs : row'[j].user # row[j].user =>
              \E r \in Requests : /\ api[r].op = "status" /\ j \in api[r].jobs
                                  /\ row'[j].user = api[r].user
  <1> USE DEF UserInv
  <1>t. TypeOK'
    BY WorkerStepType, ApiStepType, FaultType DEF Next, vars, TypeOK
  <1>1. ASSUME \A j \in Jobs : Keeps(j), UNCHANGED api
        PROVE  UserInv'
    <2>1. api' = api /\ api \in [Requests -> RequestState]
      BY <1>1 DEF TypeOK
    <2>2. \A r \in Requests : api[r].jobs \subseteq Jobs
      BY <2>1 DEF RequestState
    <2>3. QED
      BY <1>1, <1>t, <2>1, <2>2 DEF Keeps, Unstored
  <1>2. ASSUME NEW w \in Workers, WorkerStep(w)
        PROVE  \A j \in Jobs : Keeps(j)
    BY <1>2, WorkerKeeps
  <1>3. ASSUME NEW w \in Workers, WorkerStep(w)
        PROVE  UNCHANGED api
    BY <1>3 DEF WorkerStep, StartChainTask, StartSourceTask, StartManualPipeline,
           ScoreCommit, ClassifyCommit, AtsCommit, AllTo, GateRecommend, GateDecline,
           SourceCommit, SourceFails, ResolveCheck, ResolveFails, ResolveLoad,
           ResolveCommit, Publish, Acknowledge
  <1>4. CASE LaunchSource \/ \E j \in Jobs : RequestResolve(j)
    BY <1>1, <1>4 DEF LaunchSource, RequestResolve, Launch, tables, Keeps
  <1>5. ASSUME NEW r \in Requests, NEW j \in Jobs, ManualInsert(r, j)
        PROVE  (\A i \in Jobs : Keeps(i)) /\ UserInv'
    <2>1. PICK D : row' = WithNew({j}, D)
      BY <1>5 DEF ManualInsert
    <2>2. j \in Unstored
      BY <1>5 DEF ManualInsert
    <2>3. \A i \in Jobs : Keeps(i)
      BY <2>1, <2>2 DEF WithNew, Inserted, Absent, Unstored, Keeps
    <2>4. \A i \in Jobs : row'[i].pipeline = "ABSENT" => i \in Unstored
      BY <2>3 DEF Keeps, Unstored
    <2>5. api' = [api EXCEPT ![r] = [NoRequest EXCEPT !.op = "manual", !.jobs = {j}]]
      BY <1>5 DEF ManualInsert
    <2>6. ASSUME NEW q \in Requests, api'[q].op = "status"
          PROVE  api'[q] = api[q]
      BY <2>5, <2>6 DEF TypeOK, NoRequest
    <2>7. \A q \in Requests : api[q].jobs \subseteq Jobs
      BY DEF TypeOK, RequestState
    <2>8. QED
      BY <1>t, <2>3, <2>4, <2>6, <2>7 DEF Keeps, Unstored
  <1>6. ASSUME NEW r \in Requests, NEW j \in Jobs, NEW u \in Decisions,
               StatusLoad(r, j, u)
        PROVE  (\A i \in Jobs : Keeps(i)) /\ UserInv'
    <2>1. /\ row' = row /\ row[j].pipeline # "ABSENT"
          /\ api' = [api EXCEPT ![r] = [op |-> "status", jobs |-> {j}, user |-> u,
                                       loaded |-> row[j]]]
      BY <1>6 DEF StatusLoad, tables
    <2>2. api'[r].jobs = {j} /\ \A q \in Requests \ {r} : api'[q] = api[q]
      BY <2>1 DEF TypeOK
    <2>3. QED
      BY <1>t, <2>1, <2>2 DEF Keeps, Unstored
  <1>7. ASSUME NEW r \in Requests, row' = row, api' = [api EXCEPT ![r] = NoRequest]
        PROVE  (\A i \in Jobs : Keeps(i)) /\ UserInv'
    <2>1. /\ \A q \in Requests \ {r} : api'[q] = api[q]
          /\ api'[r].op # "status"
      BY <1>7 DEF TypeOK, NoRequest
    <2>2. QED
      BY <1>t, <1>7, <2>1 DEF Keeps, Unstored
  <1>8. ASSUME NEW r \in Requests, ManualEnqueue(r) \/ RequestDies(r)
        PROVE  (\A i \in Jobs : Keeps(i)) /\ UserInv'
    BY <1>7, <1>8 DEF ManualEnqueue, RequestDies, tables
  <1>9. ASSUME NEW r \in Requests, StatusCommit(r)
        PROVE  UserInv'
    <2>1. api' = [api EXCEPT ![r] = NoRequest]
      BY <1>9 DEF StatusCommit
    <2>2. /\ \A q \in Requests \ {r} : api'[q] = api[q]
          /\ api'[r].op # "status"
      BY <2>1 DEF TypeOK, NoRequest
    <2>3. \A j \in Jobs : row'[j].pipeline = row[j].pipeline
      BY <1>9, StatusWrites
    <2>4. \A j \in Unstored' : row'[j].user = "NEW"
      <3> SUFFICES ASSUME NEW j \in Unstored'
                   PROVE  row'[j].user = "NEW"
        OBVIOUS
      <3>1. j \in Unstored
        BY <2>3 DEF Unstored
      <3>2. j \in Jobs /\ j \notin api[r].jobs
        BY <1>9, <3>1 DEF StatusCommit, Unstored
      <3>3. QED
        BY <1>9, <3>1, <3>2, StatusWrites
    <2>5. \A q \in Requests : api[q].jobs \subseteq Jobs
      BY DEF TypeOK, RequestState
    <2>6. QED
      BY <1>t, <2>2, <2>3, <2>4, <2>5
  <1>10. ASSUME NEW w \in Workers, Crash(w) \/ TaskFails(w)
         PROVE  (\A i \in Jobs : Keeps(i)) /\ UNCHANGED api
    BY <1>10 DEF Crash, TaskFails, tables, Keeps
  <1>11. CASE UNCHANGED vars
    BY <1>1, <1>11 DEF vars, Keeps
  <1>12. CASE Next
    <2>1. CASE \E w \in Workers : WorkerStep(w)
      BY <2>1, <1>1, <1>2, <1>3 DEF Keeps
    <2>2. CASE ApiStep
      BY <2>2, <1>4, <1>5, <1>6, <1>8, <1>9, StatusWrites DEF ApiStep, Keeps,
         LaunchSource, RequestResolve, Launch, tables
    <2>3. CASE Fault
      BY <2>3, <1>1, <1>8, <1>10 DEF Fault, Keeps
    <2>4. QED
      BY <1>12, <2>1, <2>2, <2>3 DEF Next
  <1>13. QED
    BY <1>11, <1>12 DEF vars

\* With any number of workers, no task commit loses a decision of the user, and
\* none is stored that the user did not ask for.
THEOREM DecisionsAreKept == Spec => UserDecisionKept
  <1>1. Init => UserInv
    BY InitType DEF Init, UserInv, Unstored, Unloaded, Absent, NoRequest
  <1>2. UserInv /\ [Next]_vars => UserInv'
    BY UserStep
  <1>3. UserInv /\ [Next]_vars =>
          [\A j \in Jobs :
             row'[j].user # row[j].user =>
               \E r \in Requests : /\ api[r].op = "status" /\ j \in api[r].jobs
                                   /\ row'[j].user = api[r].user]_vars
    BY UserStep
  <1>4. QED
    BY <1>1, <1>2, <1>3, PTL DEF Spec, UserDecisionKept
================================================================================
