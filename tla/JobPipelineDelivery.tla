-------------------------- MODULE JobPipelineDelivery --------------------------
(***************************************************************************)
(* What the pipeline with one worker process achieves.  It implements the  *)
(* lifecycle; and no job is forgotten: as long as nothing fails, a stored  *)
(* job that waits for a stage is in a message, in the hands of the worker, *)
(* or in those of an API handler.                                          *)
(***************************************************************************)
EXTENDS JobPipelineProofs

--------------------------------------------------------------------------------
(* The pipeline implements the lifecycle.                                  *)

\* Two versions of a row that the lifecycle does not tell apart.
SameStage(j) == row'[j].pipeline = row[j].pipeline /\ row'[j].content = row[j].content

\* The jobs of S, and no other, move from one stage to the next.
Moves(S, from, to) ==
  /\ S \in SUBSET Jobs
  /\ \A j \in S : /\ row[j].pipeline = from /\ row'[j].pipeline = to
                  /\ row'[j].content = row[j].content
  /\ \A j \in Jobs \ S : SameStage(j)

\* Such a step is a step of the lifecycle that advances S.
LEMMA MovesAdvances ==
  ASSUME NEW S, NEW from, NEW to, Moves(S, from, to)
  PROVE  Lifecycle!Advance(S, from, to)
BY DEF Moves, SameStage, Lifecycle!Advance, Lifecycle!Branch

\* A step that moves the jobs of T to rejected, and the others of S to scored, is a
\* step of the lifecycle that scores S.
LEMMA BranchScores ==
  ASSUME NEW S \in SUBSET Jobs, NEW T \in SUBSET S,
         \A j \in S : /\ row[j].pipeline = "INGESTED"
                      /\ row'[j].pipeline = IF j \in T THEN "REJECTED" ELSE "SCORED"
                      /\ row'[j].content = row[j].content,
         \A j \in Jobs \ S : SameStage(j)
  PROVE  Lifecycle!Next
  <1>1. Lifecycle!Score(S, T)
    BY DEF Lifecycle!Score, Lifecycle!Branch, SameStage
  <1>2. QED
    BY <1>1 DEF Lifecycle!Next

\* A step that takes the jobs of S back to the beginning, with a new text, is a step
\* of the lifecycle that resolves S.
LEMMA RewindResolves ==
  ASSUME NEW S \in SUBSET Jobs,
         \A j \in S : /\ row[j].pipeline # "ABSENT" /\ row[j].content = "listing"
                      /\ row'[j].pipeline = "INGESTED"
                      /\ row'[j].content = "canonical",
         \A j \in Jobs \ S : SameStage(j)
  PROVE  Lifecycle!Next
  <1>1. Lifecycle!Resolve(S)
    BY DEF Lifecycle!Resolve, SameStage
  <1>2. QED
    BY <1>1 DEF Lifecycle!Next

\* A step that moves no job is a stutter of the lifecycle.
LEMMA NothingMoves ==
  ASSUME \A j \in Jobs : SameStage(j)
  PROVE  UNCHANGED <<[j \in Jobs |-> row[j].pipeline], [j \in Jobs |-> row[j].content]>>
BY DEF SameStage

\* Agreeing rows are in the same stage with the same text.
LEMMA AgreeSameStage ==
  ASSUME NEW j, Agree(row[j], row'[j])
  PROVE  SameStage(j)
BY AgreeColumns DEF SameStage

\* What a chain task's commit does to the stages: each picked job leaves the stage
\* the task consumes for the one stored, with its text.
LEMMA CommitMoves ==
  ASSUME TypeOK, SnapshotCurrent, NEW w \in Workers, NEW t \in ChainTasks,
         Running(w, t), NEW new, DOMAIN new = work[w].picked,
         row' = FlushedBy(w, new),
         \A j \in work[w].picked : new[j].content = work[w].loaded[j].content
  PROVE  /\ work[w].picked \in SUBSET Jobs
         /\ \A j \in work[w].picked : /\ row[j].pipeline = InputStage(t)
                                      /\ row'[j].pipeline = new[j].pipeline
                                      /\ row'[j].content = row[j].content
         /\ \A j \in Jobs \ work[w].picked : SameStage(j)
  <1>1. /\ \A j \in work[w].picked : Agree(row'[j], new[j])
        /\ \A j \in Jobs \ work[w].picked : row'[j] = row[j]
    BY CommitStores DEF Running
  <1>2. ASSUME NEW j \in work[w].picked
        PROVE  /\ j \in Jobs
               /\ row[j].pipeline = InputStage(t)
               /\ work[w].loaded[j].content = row[j].content
    BY PickedStage, AgreeColumns
  <1>3. QED
    BY <1>1, <1>2, AgreeColumns DEF SameStage

\* The commit of score_jobs is a step that scores the jobs it picked.
LEMMA ScoreScores ==
  ASSUME TypeOK, SnapshotCurrent, NEW w \in Workers, ScoreCommit(w)
  PROVE  Lifecycle!Next
  <1>1. PICK stage \in [work[w].picked -> {"SCORED", "REJECTED"}] :
          row' = FlushedBy(w, AllMoved(w, stage))
    BY DEF ScoreCommit
  <1> DEFINE S == work[w].picked
             T == {j \in S : stage[j] = "REJECTED"}
             new == AllMoved(w, stage)
  <1>2. Running(w, "score") /\ "score" \in ChainTasks
    BY DEF ScoreCommit, ChainTasks
  <1>3. ASSUME NEW j \in S
        PROVE  /\ new[j].pipeline = stage[j]
               /\ new[j].content = work[w].loaded[j].content
    <2>1. work[w].loaded[j] \in Row /\ stage[j] \in PipelineStatus
      BY DEF TypeOK, WorkState, PipelineStatus
    <2>2. new[j] = Moved(work[w].loaded[j], stage[j])
      BY DEF AllMoved
    <2>3. QED
      BY <2>1, <2>2, MovedType
  <1>4. DOMAIN new = S
    BY DEF AllMoved
  <1> HIDE DEF new
  <1>5. /\ S \in SUBSET Jobs
        /\ \A j \in S : /\ row[j].pipeline = "INGESTED"
                        /\ row'[j].pipeline = stage[j]
                        /\ row'[j].content = row[j].content
        /\ \A j \in Jobs \ S : SameStage(j)
    BY <1>1, <1>2, <1>3, <1>4, CommitMoves DEF new, InputStage
  <1>6. \A j \in S : stage[j] = IF j \in T THEN "REJECTED" ELSE "SCORED"
    OBVIOUS
  <1>7. /\ T \in SUBSET S
        /\ \A j \in S : row'[j].pipeline = IF j \in T THEN "REJECTED" ELSE "SCORED"
    BY <1>5, <1>6
  <1> HIDE DEF S, T
  <1>8. QED
    BY <1>5, <1>7, BranchScores

\* The commits of classify_jobs and ats_match_resume advance the jobs they picked.
LEMMA AllToMoves ==
  ASSUME TypeOK, SnapshotCurrent, NEW w \in Workers, NEW t \in ChainTasks,
         Running(w, t), NEW to \in PipelineStatus, AllTo(w, to)
  PROVE  Moves(work[w].picked, InputStage(t), to)
  <1> DEFINE new == AllMoved(w, [j \in work[w].picked |-> to])
  <1>1. row' = FlushedBy(w, new) /\ DOMAIN new = work[w].picked
    BY DEF AllTo, AllMoved
  <1>2. ASSUME NEW j \in work[w].picked
        PROVE  new[j].pipeline = to /\ new[j].content = work[w].loaded[j].content
    <2>1. work[w].loaded[j] \in Row
      BY DEF TypeOK, WorkState
    <2>2. new[j] = Moved(work[w].loaded[j], to)
      BY DEF AllMoved
    <2>3. QED
      BY <2>1, <2>2, MovedType
  <1> HIDE DEF new
  <1>3. QED
    BY <1>1, <1>2, CommitMoves DEF Moves

\* The gate's recommendation advances the jobs it picked.
LEMMA RecommendMoves ==
  ASSUME TypeOK, SnapshotCurrent, NEW w \in Workers, GateRecommend(w)
  PROVE  Moves(work[w].picked, "ATS_ANALYZED", "RESUME_READY")
  <1> DEFINE new == [j \in work[w].picked |-> Recommended(work[w].loaded[j])]
  <1>1. row' = FlushedBy(w, new) /\ DOMAIN new = work[w].picked
    BY DEF GateRecommend
  <1>2. Running(w, "gate") /\ "gate" \in ChainTasks /\ InputStage("gate") = "ATS_ANALYZED"
    BY DEF GateRecommend, ChainTasks, InputStage
  <1>3. ASSUME NEW j \in work[w].picked
        PROVE  /\ new[j].pipeline = "RESUME_READY"
               /\ new[j].content = work[w].loaded[j].content
    BY EditedRows DEF TypeOK, WorkState
  <1> HIDE DEF new
  <1>4. QED
    BY <1>1, <1>2, <1>3, CommitMoves DEF Moves

\* The gate's refusal moves nothing.
LEMMA DeclineMovesNothing ==
  ASSUME TypeOK, SnapshotCurrent, NEW w \in Workers, GateDecline(w)
  PROVE  \A j \in Jobs : SameStage(j)
  <1> DEFINE new == [j \in work[w].picked |->
                      [work[w].loaded[j] EXCEPT !.eligibility = "ineligible"]]
  <1>1. row' = FlushedBy(w, new) /\ DOMAIN new = work[w].picked
    BY DEF GateDecline
  <1>2. Running(w, "gate") /\ "gate" \in ChainTasks /\ InputStage("gate") = "ATS_ANALYZED"
    BY DEF GateDecline, ChainTasks, InputStage
  <1>3. ASSUME NEW j \in work[w].picked
        PROVE  /\ new[j].pipeline = row[j].pipeline
               /\ new[j].content = work[w].loaded[j].content
    <2>1. work[w].loaded[j] \in Row /\ Agree(work[w].loaded[j], row[j])
      BY <1>2, PickedStage
    <2>2. new[j].pipeline = work[w].loaded[j].pipeline
          /\ new[j].content = work[w].loaded[j].content
      BY <2>1 DEF Row
    <2>3. QED
      BY <2>1, <2>2, AgreeColumns
  <1> HIDE DEF new
  <1>4. QED
    BY <1>1, <1>2, <1>3, CommitMoves DEF SameStage

\* Inserting new rows ingests them.
LEMMA InsertMoves ==
  ASSUME TypeOK, TablesSound, NEW S \in SUBSET Unstored, NEW D, row' = WithNew(S, D)
  PROVE  Moves(S, "ABSENT", "INGESTED")
  <1>1. ASSUME NEW j \in S
        PROVE  /\ j \in Jobs /\ row[j].pipeline = "ABSENT"
               /\ row'[j].pipeline = "INGESTED"
               /\ row'[j].content = row[j].content
    <2>1. j \in Jobs /\ row[j].pipeline = "ABSENT" /\ row[j] \in Row
      BY DEF Unstored, TypeOK
    <2>2. row[j].content = "listing"
      BY <2>1 DEF TablesSound, Sound, Consistent, Row, Contents
    <2>3. row'[j] = Inserted(j, j \in D)
      BY <2>1 DEF WithNew
    <2>4. QED
      BY <2>1, <2>2, <2>3 DEF Inserted, Absent
  <1>2. \A j \in Jobs \ S : SameStage(j)
    BY DEF WithNew, SameStage
  <1>3. QED
    BY <1>1, <1>2 DEF Moves

\* The commit of a resolution rewinds the jobs it picked and gives them a new text.
LEMMA ResolveResolves ==
  ASSUME TypeOK, SnapshotCurrent, TablesSound, NEW w \in Workers, ResolveCommit(w)
  PROVE  Lifecycle!Next
  <1>1. PICK described \in BOOLEAN :
          row' = FlushedBy(w, [j \in work[w].picked |->
                                Canonical(work[w].loaded[j], described)])
    BY DEF ResolveCommit
  <1> DEFINE S == work[w].picked
             new == [j \in S |-> Canonical(work[w].loaded[j], described)]
  <1>2. row' = FlushedBy(w, new) /\ DOMAIN new = S
    BY <1>1
  <1>3. ASSUME NEW j \in S
        PROVE  /\ j \in Jobs /\ work[w].loaded[j] \in Row
               /\ row[j].resolution = "pending"
    BY DEF SnapshotCurrent, Current, ResolveCommit, Running, ChainTasks,
           NeedsResolution, TypeOK, WorkState
  <1>4. ASSUME NEW j \in S
        PROVE  row[j].pipeline # "ABSENT" /\ row[j].content = "listing"
    <2>1. Sound(row[j], analysis[j], attempts[j]) /\ row[j] \in Row
      BY <1>3 DEF TablesSound, TypeOK
    <2>2. QED
      BY <1>3, <2>1 DEF Sound, Consistent, Row, Contents
  <1>5. ASSUME NEW j \in S
        PROVE  new[j].pipeline = "INGESTED" /\ new[j].content = "canonical"
    BY <1>3, EditedRows
  <1> HIDE DEF new
  <1>6. /\ \A j \in S : Agree(row'[j], new[j])
        /\ \A j \in Jobs \ S : row'[j] = row[j]
    BY <1>2, CommitStores DEF ResolveCommit, Running
  <1>7. \A j \in S : row'[j].pipeline = "INGESTED" /\ row'[j].content = "canonical"
    BY <1>5, <1>6, AgreeColumns
  <1>8. S \in SUBSET Jobs /\ \A j \in Jobs \ S : SameStage(j)
    BY <1>3, <1>6 DEF SameStage
  <1> HIDE DEF S
  <1>9. QED
    BY <1>4, <1>7, <1>8, RewindResolves

\* Every step of the pipeline is a step of the lifecycle or a stutter.
LEMMA StepRefines ==
  ASSUME IInv, [Next]_vars
  PROVE  Lifecycle!Next \/ \A j \in Jobs : SameStage(j)
  <1> USE DEF IInv
  <1>t. TablesSound
    BY TablesSplit
  <1>1. ASSUME NEW w \in Workers, WorkerStep(w)
        PROVE  Lifecycle!Next \/ \A j \in Jobs : SameStage(j)
    <2>1. CASE ScoreCommit(w)
      BY <2>1, ScoreScores
    <2>2. CASE ClassifyCommit(w)
      <3>1. Moves(work[w].picked, "SCORED", "CLASSIFIED")
        BY <2>2, AllToMoves DEF ClassifyCommit, ChainTasks, InputStage, PipelineStatus
      <3>2. QED
        BY <3>1, MovesAdvances DEF Lifecycle!Next, Lifecycle!Classify, Moves
    <2>3. CASE AtsCommit(w)
      <3>1. Moves(work[w].picked, "CLASSIFIED", "ATS_ANALYZED")
        BY <2>3, AllToMoves DEF AtsCommit, ChainTasks, InputStage, PipelineStatus
      <3>2. QED
        BY <3>1, MovesAdvances DEF Lifecycle!Next, Lifecycle!Analyze, Moves
    <2>4. CASE GateRecommend(w)
      <3>1. Moves(work[w].picked, "ATS_ANALYZED", "RESUME_READY")
        BY <2>4, RecommendMoves
      <3>2. QED
        BY <3>1, MovesAdvances DEF Lifecycle!Next, Lifecycle!Recommend, Moves
    <2>5. CASE GateDecline(w)
      BY <2>5, DeclineMovesNothing
    <2>6. CASE SourceCommit(w)
      <3>1. PICK new \in SUBSET Unstored, D \in SUBSET Jobs : row' = WithNew(new, D)
        BY <2>6 DEF SourceCommit, Unstored
      <3>2. Moves(new, "ABSENT", "INGESTED")
        BY <1>t, <3>1, InsertMoves
      <3>3. QED
        BY <3>2, MovesAdvances DEF Lifecycle!Next, Lifecycle!Ingest, Moves
    <2>7. CASE ResolveCommit(w)
      BY <1>t, <2>7, ResolveResolves
    <2>8. CASE \/ StartChainTask(w) \/ StartSourceTask(w) \/ StartManualPipeline(w)
               \/ SourceFails(w) \/ ResolveCheck(w) \/ ResolveFails(w) \/ ResolveLoad(w)
               \/ Publish(w) \/ Acknowledge(w)
      BY <2>8 DEF StartChainTask, StartSourceTask, StartManualPipeline, SourceFails,
              ResolveCheck, ResolveFails, ResolveLoad, Publish, Acknowledge, tables,
              SameStage
    <2>9. QED
      BY <1>1, <2>1, <2>2, <2>3, <2>4, <2>5, <2>6, <2>7, <2>8 DEF WorkerStep
  <1>2. CASE ApiStep
    <2>1. ASSUME NEW r \in Requests, NEW j \in Jobs, ManualInsert(r, j)
          PROVE  Lifecycle!Next
      <3>1. PICK D : row' = WithNew({j}, D)
        BY <2>1 DEF ManualInsert
      <3>2. {j} \in SUBSET Unstored
        BY <2>1 DEF ManualInsert
      <3>3. Moves({j}, "ABSENT", "INGESTED")
        BY <1>t, <3>1, <3>2, InsertMoves
      <3>4. QED
        BY <3>3, MovesAdvances DEF Lifecycle!Next, Lifecycle!Ingest, Moves
    <2>2. ASSUME NEW r \in Requests, StatusCommit(r)
          PROVE  \A j \in Jobs : SameStage(j)
      BY <2>2, StatusAgrees, AgreeSameStage
    <2>3. CASE \/ LaunchSource
               \/ \E j \in Jobs : RequestResolve(j)
               \/ \E r \in Requests : ManualEnqueue(r)
               \/ \E r \in Requests, j \in Jobs, u \in Decisions : StatusLoad(r, j, u)
      BY <2>3 DEF LaunchSource, RequestResolve, Launch, ManualEnqueue, StatusLoad,
                  tables, SameStage
    <2>4. QED
      BY <1>2, <2>1, <2>2, <2>3 DEF ApiStep
  <1>3. CASE Fault
    BY <1>3 DEF Fault, Crash, TaskFails, RequestDies, tables, SameStage
  <1>4. CASE UNCHANGED vars
    BY <1>4 DEF vars, SameStage
  <1>5. QED
    BY <1>1, <1>2, <1>3, <1>4 DEF Next

\* With one worker process, the pipeline implements the lifecycle: every job goes
\* through the stages in order, a rejection stands, and only its resolution, once,
\* takes a job back.
THEOREM ImplementsLifecycle ==
  ASSUME SoloWorker
  PROVE  Spec => LifecycleImplemented
  <1>1. Init => Lifecycle!Init
    BY DEF Init, Lifecycle!Init, Unloaded, Absent
  <1>2. IInv /\ [Next]_vars =>
          [Lifecycle!Next]_<<[j \in Jobs |-> row[j].pipeline],
                             [j \in Jobs |-> row[j].content]>>
    BY StepRefines, NothingMoves
  <1>3. QED
    BY <1>1, <1>2, Invariance, PTL DEF Spec, LifecycleImplemented, Lifecycle!Spec

--------------------------------------------------------------------------------
(* No job is forgotten.                                                    *)

\* A row that chain task t has still to work on.
Waiting(r, t) ==
  /\ r.pipeline = InputStage(t)
  /\ t = "ats_match" => r.described
  /\ t = "gate" => r.eligibility # "ineligible"

\* Who can have job j for task t: a queue, a worker, a handler.
Queued(j, t) ==
  \E q \in Queues : \E i \in 1..Len(queue[q]) : Brings(queue[q][i], j, t)

AtWork(w, j, t) ==
  \/ Running(w, t) /\ j \in work[w].picked
  \/ /\ work[w].phase = "committed" /\ work[w].msg.task # "gate"
     /\ NextTask(work[w].msg.task) = t /\ j \in work[w].out

Handled(r, j, t) == t = "score" /\ api[r].op = "manual" /\ j \in api[r].jobs

Held(j, t) ==
  \/ Queued(j, t)
  \/ \E w \in Workers : AtWork(w, j, t)
  \/ \E r \in Requests : Handled(r, j, t)

AllHeld == \A j \in Jobs, t \in ChainTasks : Waiting(row[j], t) => Held(j, t)

\* The strengthening of NoJobForgotten.
Delivery == faults = 0 => AllHeld

--------------------------------------------------------------------------------
(* Lemmas about who holds a job.                                           *)

\* The property follows from the strengthening.
LEMMA HeldIsCarried ==
  ASSUME NEW j \in Jobs, \A t \in ChainTasks : Waiting(row[j], t) => Held(j, t)
  PROVE  OnItsWay(j)
  <1>1. \A t \in ChainTasks : Held(j, t) => Carried(j, t)
    BY DEF Held, Queued, AtWork, Handled, Carried
  <1>2. QED
    BY <1>1 DEF OnItsWay, Waiting, InputStage, ChainTasks

\* Only the four chain tasks and the start of a manual ingest bring a job.
LEMMA BringsTasks ==
  ASSUME NEW m, NEW j, NEW t \in ChainTasks, Brings(m, j, t)
  PROVE  /\ m.task \in ChainTasks \cup {"manual"}
         /\ m.task # "manual" => m.task = t /\ (j \in m.ids \/ (m.ids = {} /\ t # "gate"))
         /\ m.task = "manual" => t = "score" /\ j \in m.ids
BY DEF Brings, ChainTasks

\* The tail of a queue holds its messages one place further on.
LEMMA TailAt ==
  ASSUME NEW s \in Seq(Message), NEW i \in 2..Len(s)
  PROVE  i - 1 \in 1..Len(Tail(s)) /\ Tail(s)[i - 1] = s[i]
  <1>1. s # << >>
    OBVIOUS
  <1>2. Len(Tail(s)) = Len(s) - 1 /\ \A k \in 1..Len(Tail(s)) : Tail(s)[k] = s[k + 1]
    BY <1>1
  <1>3. i - 1 \in 1..Len(Tail(s)) /\ (i - 1) + 1 = i
    BY <1>2
  <1>4. QED
    BY <1>2, <1>3

\* A job whose message is taken was in that message or is still queued.
LEMMA TakenOrQueued ==
  ASSUME TypeOK, NEW q \in Queues, queue[q] # << >>,
         queue' = [queue EXCEPT ![q] = Tail(@)],
         NEW j, NEW t, Queued(j, t)
  PROVE  Queued(j, t)' \/ Brings(Head(queue[q]), j, t)
  <1>0. PICK p \in Queues : \E i \in 1..Len(queue[p]) : Brings(queue[p][i], j, t)
    BY DEF Queued
  <1>1. PICK i \in 1..Len(queue[p]) : Brings(queue[p][i], j, t)
    BY <1>0
  <1>2. CASE p # q
    <2>1. queue'[p] = queue[p]
      BY <1>2 DEF TypeOK
    <2>2. QED
      BY <1>1, <2>1 DEF Queued
  <1>3. CASE p = q /\ i = 1
    BY <1>1, <1>3 DEF TypeOK
  <1>4. CASE p = q /\ i # 1
    <2>1. queue[q] \in Seq(Message) /\ i \in 2..Len(queue[q])
      BY <1>4 DEF TypeOK
    <2>2. queue'[q] = Tail(queue[q])
      BY DEF TypeOK
    <2>3. i - 1 \in 1..Len(queue'[q]) /\ queue'[q][i - 1] = queue[q][i]
      BY <2>1, <2>2, TailAt
    <2>4. Brings(queue'[q][i - 1], j, t)
      BY <1>1, <1>4, <2>3
    <2>5. QED
      BY <2>3, <2>4 DEF Queued
  <1>5. QED
    BY <1>2, <1>3, <1>4

\* Sending a message keeps what is queued, and queues what the message brings.
LEMMA SentIsQueued ==
  ASSUME TypeOK, NEW q \in Queues, NEW m \in Message,
         queue' = [queue EXCEPT ![q] = Append(@, m)],
         NEW j, NEW t, Queued(j, t) \/ Brings(m, j, t)
  PROVE  Queued(j, t)'
  <1>1. queue[q] \in Seq(Message) /\ queue'[q] = Append(queue[q], m)
    BY DEF TypeOK
  <1>2. CASE Queued(j, t)
    <2>0. PICK p \in Queues : \E i \in 1..Len(queue[p]) : Brings(queue[p][i], j, t)
      BY <1>2 DEF Queued
    <2>1. PICK i \in 1..Len(queue[p]) : Brings(queue[p][i], j, t)
      BY <2>0
    <2>2. i \in 1..Len(queue'[p]) /\ queue'[p][i] = queue[p][i]
      BY <1>1 DEF TypeOK
    <2>3. QED
      BY <2>1, <2>2 DEF Queued
  <1>3. CASE Brings(m, j, t)
    <2>1. Len(queue'[q]) \in 1..Len(queue'[q]) /\ queue'[q][Len(queue'[q])] = m
      BY <1>1
    <2>2. QED
      BY <1>3, <2>1 DEF Queued
  <1>4. QED
    BY <1>2, <1>3

\* A held job stays held when its queue, and every worker and handler but one that
\* does not hold it, are as before.
LEMMA StillHeld ==
  ASSUME NEW j, NEW t, Held(j, t), Queued(j, t) => Queued(j, t)',
         \A w \in Workers : AtWork(w, j, t) => work'[w] = work[w],
         \A r \in Requests : Handled(r, j, t) => api'[r] = api[r]
  PROVE  Held(j, t)'
BY DEF Held, AtWork, Running, Handled

\* The same when nothing moves but the tables.
LEMMA QueuedSame ==
  ASSUME UNCHANGED queue, NEW j, NEW t, Queued(j, t)
  PROVE  Queued(j, t)'
BY DEF Queued

\* A step of worker w leaves the other workers alone.
LEMMA OthersWork ==
  ASSUME TypeOK, NEW w \in Workers,
         \/ \E q, next : Take(w, q, next)
         \/ Finished(w)
         \/ \E S : Committed(w, S)
         \/ \E next : work' = [work EXCEPT ![w] = next]
  PROVE  \A v \in Workers \ {w} : work'[v] = work[v]
BY DEF TypeOK, Take, Finished, Committed
--------------------------------------------------------------------------------
(* The steps of a worker.                                                  *)

\* An idle, fetching or finished worker holds no job.
LEMMA EmptyHanded ==
  ASSUME NEW w \in Workers, work[w].phase \in {"idle", "fetching", "done"},
         NEW j, NEW t
  PROVE  ~AtWork(w, j, t)
BY DEF AtWork, Running

\* Receiving a message that brings no job for a chain task.
LEMMA TakesNothing ==
  ASSUME TypeOK, AllHeld, NEW w \in Workers, NEW q \in Queues, queue[q] # << >>,
         NEW next, Take(w, q, next), UNCHANGED <<row, api>>,
         \A j \in Jobs, t \in ChainTasks :
           Brings(Head(queue[q]), j, t) /\ Waiting(row[j], t) => AtWork(w, j, t)'
  PROVE  AllHeld'
  <1>1. SUFFICES ASSUME NEW j \in Jobs, NEW t \in ChainTasks, Waiting(row[j], t)
                 PROVE  Held(j, t)'
    BY DEF AllHeld
  <1>2. Held(j, t)
    BY <1>1 DEF AllHeld
  <1>3. Queued(j, t) => Queued(j, t)' \/ AtWork(w, j, t)'
    BY <1>1, TakenOrQueued DEF Take
  <1>4. \A v \in Workers : AtWork(v, j, t) => work'[v] = work[v]
    BY EmptyHanded, OthersWork DEF Take
  <1>5. CASE AtWork(w, j, t)'
    BY <1>5 DEF Held
  <1>6. CASE Queued(j, t) => Queued(j, t)'
    BY <1>2, <1>4, <1>6, StillHeld
  <1>7. QED
    BY <1>3, <1>5, <1>6

\* A chain task takes what its message brings: the job waits in its stage.
LEMMA StartChainHeld ==
  ASSUME TypeOK, AllHeld, NEW w \in Workers, StartChainTask(w)
  PROVE  AllHeld'
  <1> DEFINE m == Head(queue["default"])
             S == Selected(m)
             next == [phase |-> "running", msg |-> m, picked |-> S,
                      loaded |-> [j \in Jobs |-> IF j \in S THEN row[j] ELSE Absent],
                      out |-> {}]
  <1>1. /\ queue["default"] # << >> /\ m.task \in ChainTasks
        /\ Take(w, "default", next) /\ UNCHANGED <<row, api>>
    BY DEF StartChainTask, tables
  <1>2. "default" \in Queues
    BY DEF Queues
  <1>3. work'[w] = next
    BY <1>1, NextPhase
  <1>4. ASSUME NEW j \in Jobs, NEW t \in ChainTasks, Brings(m, j, t), Waiting(row[j], t)
        PROVE  AtWork(w, j, t)'
    <2>1. m.task = t /\ (j \in m.ids \/ (m.ids = {} /\ t # "gate"))
      BY <1>1, <1>4, BringsTasks DEF ChainTasks
    <2>2. j \in S
      BY <1>4, <2>1 DEF Selected, Waiting
    <2>3. /\ work'[w].phase = "running" /\ work'[w].msg.task = t
          /\ j \in work'[w].picked
      BY <1>3, <2>1, <2>2
    <2>4. QED
      BY <2>3 DEF AtWork, Running
  <1> HIDE DEF m, S, next
  <1>5. \A j \in Jobs, t \in ChainTasks :
          Brings(Head(queue["default"]), j, t) /\ Waiting(row[j], t) => AtWork(w, j, t)'
    BY <1>4 DEF m
  <1>6. QED
    BY <1>1, <1>2, <1>5, TakesNothing

\* A source task takes a message that brings no job, the start of a manual ingest
\* one whose jobs it passes on, a resolution one that brings none.
LEMMA StartOtherHeld ==
  ASSUME TypeOK, AllHeld, NEW w \in Workers,
         StartSourceTask(w) \/ StartManualPipeline(w) \/ ResolveCheck(w)
  PROVE  AllHeld'
  <1>1. CASE StartSourceTask(w)
    <2>1. PICK q \in {"scrape", "ingestion"} :
            /\ queue[q] # << >> /\ Head(queue[q]).task \in SourceTasks
            /\ \E next : Take(w, q, next)
            /\ UNCHANGED <<row, api>>
      BY <1>1 DEF StartSourceTask, tables
    <2>2. \A j \in Jobs, t \in ChainTasks : ~Brings(Head(queue[q]), j, t)
      BY <2>1, BringsTasks DEF SourceTasks, ChainTasks
    <2>3. q \in Queues
      BY DEF Queues
    <2>4. QED
      BY <2>1, <2>2, <2>3, TakesNothing
  <1>2. CASE StartManualPipeline(w)
    <2> DEFINE m == Head(queue["ingestion"])
               next == [Idle EXCEPT !.phase = "committed", !.msg = m, !.out = m.ids]
    <2>1. /\ queue["ingestion"] # << >> /\ m.task = "manual"
          /\ Take(w, "ingestion", next) /\ UNCHANGED <<row, api>>
      BY <1>2 DEF StartManualPipeline, tables
    <2>2. work'[w] = next
      BY <2>1, NextPhase
    <2>3. ASSUME NEW j \in Jobs, NEW t \in ChainTasks, Brings(m, j, t)
          PROVE  AtWork(w, j, t)'
      <3>1. t = "score" /\ j \in m.ids
        BY <2>1, <2>3, BringsTasks
      <3>2. work'[w].phase = "committed" /\ work'[w].msg = m /\ work'[w].out = m.ids
        BY <2>2 DEF Idle
      <3>3. QED
        BY <2>1, <3>1, <3>2 DEF AtWork, NextTask
    <2>4. "ingestion" \in Queues
      BY DEF Queues
    <2> HIDE DEF next
    <2>5. QED
      BY <2>1, <2>3, <2>4, TakesNothing
  <1>3. CASE ResolveCheck(w)
    <2>1. /\ queue["default"] # << >> /\ Head(queue["default"]).task = "resolve"
          /\ \E next : Take(w, "default", next)
          /\ UNCHANGED <<row, api>>
      BY <1>3 DEF ResolveCheck
    <2>2. \A j \in Jobs, t \in ChainTasks : ~Brings(Head(queue["default"]), j, t)
      BY <2>1, BringsTasks DEF ChainTasks
    <2>3. "default" \in Queues
      BY DEF Queues
    <2>4. QED
      BY <2>1, <2>2, <2>3, TakesNothing
  <1>4. QED
    BY <1>1, <1>2, <1>3

\* A commit of the rows new and the result out keeps every job held when a job that
\* now waits for a task is in the result and that task is the next of the chain.
LEMMA CommitHeld ==
  ASSUME TypeOK, SnapshotCurrent, AllHeld, NEW w \in Workers,
         work[w].phase = "running", NEW new, DOMAIN new = work[w].picked,
         NEW out, row' = FlushedBy(w, new), Committed(w, out), UNCHANGED <<queue, api>>,
         \A j \in work[w].picked, t \in ChainTasks :
           Waiting(new[j], t) => /\ work[w].msg.task # "gate"
                                 /\ NextTask(work[w].msg.task) = t /\ j \in out
  PROVE  AllHeld'
  <1>1. SUFFICES ASSUME NEW j \in Jobs, NEW t \in ChainTasks, Waiting(row'[j], t)
                 PROVE  Held(j, t)'
    BY DEF AllHeld
  <1>2. /\ \A i \in work[w].picked : Agree(row'[i], new[i])
        /\ \A i \in Jobs \ work[w].picked : row'[i] = row[i]
    BY CommitStores
  <1>3. CASE j \in work[w].picked
    <2>1. Waiting(new[j], t)
      BY <1>1, <1>2, <1>3, AgreeColumns DEF Waiting
    <2>2. /\ work'[w].phase = "committed" /\ work'[w].msg = work[w].msg
          /\ work'[w].out = out
      BY DEF Committed, TypeOK
    <2>3. AtWork(w, j, t)'
      BY <1>3, <2>1, <2>2 DEF AtWork
    <2>4. QED
      BY <2>3 DEF Held
  <1>4. CASE j \notin work[w].picked
    <2>1. Held(j, t)
      BY <1>1, <1>2, <1>4 DEF AllHeld
    <2>2. ~AtWork(w, j, t)
      BY <1>4 DEF AtWork
    <2>3. \A v \in Workers : AtWork(v, j, t) => work'[v] = work[v]
      BY <2>2, OthersWork
    <2>4. QED
      BY <2>1, <2>3, QueuedSame, StillHeld
  <1>5. QED
    BY <1>3, <1>4

\* The commits of score_jobs, classify_jobs and ats_match_resume.
LEMMA StageHeld ==
  ASSUME TypeOK, SnapshotCurrent, AllHeld, NEW w \in Workers,
         ScoreCommit(w) \/ ClassifyCommit(w) \/ AtsCommit(w)
  PROVE  AllHeld'
  <1>1. ASSUME NEW stage \in [work[w].picked -> PipelineStatus], NEW out,
               row' = FlushedBy(w, AllMoved(w, stage)), Committed(w, out),
               UNCHANGED <<queue, api>>, work[w].phase = "running",
               \A j \in work[w].picked, t \in ChainTasks :
                 InputStage(t) = stage[j] => /\ work[w].msg.task # "gate"
                                             /\ NextTask(work[w].msg.task) = t
                                             /\ j \in out
        PROVE  AllHeld'
    <2> DEFINE new == AllMoved(w, stage)
    <2>1. DOMAIN new = work[w].picked
      BY DEF AllMoved
    <2>2. ASSUME NEW j \in work[w].picked
          PROVE  new[j].pipeline = stage[j]
      <3>1. new[j] = Moved(work[w].loaded[j], stage[j])
        BY DEF AllMoved
      <3>2. work[w].loaded[j] \in Row
        BY DEF TypeOK, WorkState
      <3>3. QED
        BY <3>1, <3>2, MovedType
    <2>3. row' = FlushedBy(w, new)
      BY <1>1
    <2>4. \A j \in work[w].picked, t \in ChainTasks :
            Waiting(new[j], t) => /\ work[w].msg.task # "gate"
                                  /\ NextTask(work[w].msg.task) = t /\ j \in out
      BY <1>1, <2>2 DEF Waiting
    <2> HIDE DEF new
    <2>5. QED
      BY <1>1, <2>1, <2>3, <2>4, CommitHeld
  <1>2. CASE ScoreCommit(w)
    <2>1. PICK stage \in [work[w].picked -> {"SCORED", "REJECTED"}] :
            /\ row' = FlushedBy(w, AllMoved(w, stage))
            /\ Committed(w, {j \in work[w].picked : stage[j] = "SCORED"})
      BY <1>2 DEF ScoreCommit
    <2> DEFINE out == {j \in work[w].picked : stage[j] = "SCORED"}
    <2>2. stage \in [work[w].picked -> PipelineStatus]
      BY DEF PipelineStatus
    <2>3. work[w].phase = "running" /\ work[w].msg.task = "score"
      BY <1>2 DEF ScoreCommit, Running
    <2>4. ASSUME NEW j \in work[w].picked, NEW t \in ChainTasks, InputStage(t) = stage[j]
          PROVE  t = "classify" /\ stage[j] = "SCORED"
      BY <2>4 DEF InputStage, ChainTasks
    <2>5. \A j \in work[w].picked, t \in ChainTasks :
            InputStage(t) = stage[j] => /\ work[w].msg.task # "gate"
                                        /\ NextTask(work[w].msg.task) = t
                                        /\ j \in out
      BY <2>3, <2>4 DEF NextTask
    <2>6. UNCHANGED <<queue, api>> /\ Committed(w, out)
      BY <1>2, <2>1 DEF ScoreCommit
    <2> HIDE DEF out
    <2>7. QED
      BY <1>1, <2>1, <2>2, <2>3, <2>5, <2>6
  <1>3. ASSUME NEW p \in {"CLASSIFIED", "ATS_ANALYZED"}, AllTo(w, p),
               work[w].phase = "running",
               \A t \in ChainTasks : InputStage(t) = p => /\ work[w].msg.task # "gate"
                                                          /\ NextTask(work[w].msg.task) = t
        PROVE  AllHeld'
    <2> DEFINE stage == [j \in work[w].picked |-> p]
    <2>1. stage \in [work[w].picked -> PipelineStatus]
      BY DEF PipelineStatus
    <2>2. /\ row' = FlushedBy(w, AllMoved(w, stage)) /\ Committed(w, work[w].picked)
          /\ UNCHANGED <<queue, api>>
      BY <1>3 DEF AllTo
    <2>3. \A j \in work[w].picked : stage[j] = p
      OBVIOUS
    <2> HIDE DEF stage
    <2>4. QED
      BY <1>1, <1>3, <2>1, <2>2, <2>3
  <1>4. CASE ClassifyCommit(w)
    <2>1. /\ AllTo(w, "CLASSIFIED") /\ work[w].phase = "running"
          /\ work[w].msg.task = "classify"
      BY <1>4 DEF ClassifyCommit, Running
    <2>2. QED
      BY <1>3, <2>1 DEF InputStage, NextTask, ChainTasks
  <1>5. CASE AtsCommit(w)
    <2>1. /\ AllTo(w, "ATS_ANALYZED") /\ work[w].phase = "running"
          /\ work[w].msg.task = "ats_match"
      BY <1>5 DEF AtsCommit, Running
    <2>2. QED
      BY <1>3, <2>1 DEF InputStage, NextTask, ChainTasks
  <1>6. QED
    BY <1>2, <1>4, <1>5

\* The gate's commits: the job is ready, or declined.
LEMMA GateHeld ==
  ASSUME TypeOK, SnapshotCurrent, AllHeld, NEW w \in Workers,
         GateRecommend(w) \/ GateDecline(w)
  PROVE  AllHeld'
  <1>1. /\ Running(w, "gate") /\ Committed(w, work[w].picked)
        /\ UNCHANGED <<queue, api>>
    BY DEF GateRecommend, GateDecline
  <1>2. ASSUME NEW j \in work[w].picked
        PROVE  work[w].loaded[j] \in Row /\ work[w].loaded[j].pipeline = "ATS_ANALYZED"
    BY <1>1, PickedStage, AgreeColumns DEF InputStage, ChainTasks
  <1>3. CASE GateRecommend(w)
    <2> DEFINE new == [j \in work[w].picked |-> Recommended(work[w].loaded[j])]
    <2>1. row' = FlushedBy(w, new) /\ DOMAIN new = work[w].picked
      BY <1>3 DEF GateRecommend
    <2>2. \A j \in work[w].picked : new[j].pipeline = "RESUME_READY"
      BY <1>2, EditedRows
    <2>3. \A j \in work[w].picked, t \in ChainTasks : ~Waiting(new[j], t)
      BY <2>2 DEF Waiting, InputStage, ChainTasks
    <2> HIDE DEF new
    <2>4. QED
      BY <1>1, <2>1, <2>3, CommitHeld DEF Running
  <1>4. CASE GateDecline(w)
    <2> DEFINE new == [j \in work[w].picked |->
                        [work[w].loaded[j] EXCEPT !.eligibility = "ineligible"]]
    <2>1. row' = FlushedBy(w, new) /\ DOMAIN new = work[w].picked
      BY <1>4 DEF GateDecline
    <2>2. \A j \in work[w].picked : /\ new[j].pipeline = "ATS_ANALYZED"
                                    /\ new[j].eligibility = "ineligible"
      BY <1>2 DEF Row
    <2>3. ASSUME NEW j \in work[w].picked, NEW t \in ChainTasks, Waiting(new[j], t)
          PROVE  FALSE
      <3>1. /\ new[j].pipeline = InputStage(t)
            /\ t = "gate" => new[j].eligibility # "ineligible"
        BY <2>3 DEF Waiting
      <3>2. InputStage(t) = "ATS_ANALYZED" => t = "gate"
        BY DEF InputStage, ChainTasks
      <3> HIDE DEF new
      <3>3. QED
        BY <2>2, <3>1, <3>2
    <2> HIDE DEF new
    <2>4. QED
      BY <1>1, <2>1, <2>3, CommitHeld DEF Running
  <1>5. QED
    BY <1>3, <1>4

\* A resolution rewinds its job and starts the chain for it.
LEMMA RewindHeld ==
  ASSUME TypeOK, SnapshotCurrent, AllHeld, NEW w \in Workers, ResolveCommit(w)
  PROVE  AllHeld'
  <1>1. /\ work[w].phase = "running" /\ work[w].msg.task = "resolve"
        /\ Committed(w, work[w].picked) /\ UNCHANGED <<queue, api>>
    BY DEF ResolveCommit, Running
  <1>2. PICK described \in BOOLEAN :
          row' = FlushedBy(w, [j \in work[w].picked |->
                                Canonical(work[w].loaded[j], described)])
    BY DEF ResolveCommit
  <1> DEFINE new == [j \in work[w].picked |-> Canonical(work[w].loaded[j], described)]
  <1>3. row' = FlushedBy(w, new) /\ DOMAIN new = work[w].picked
    BY <1>2
  <1>4. \A j \in work[w].picked : new[j].pipeline = "INGESTED"
    BY EditedRows DEF TypeOK, WorkState
  <1>5. \A j \in work[w].picked, t \in ChainTasks :
          Waiting(new[j], t) => t = "score"
    BY <1>4 DEF Waiting, InputStage, ChainTasks
  <1>6. NextTask("resolve") = "score"
    BY DEF NextTask
  <1> HIDE DEF new
  <1>7. QED
    BY <1>1, <1>3, <1>5, <1>6, CommitHeld

\* A source task starts a chain for the rows it inserts.
LEMMA SourceHeld ==
  ASSUME TypeOK, AllHeld, NEW w \in Workers, SourceCommit(w)
  PROVE  AllHeld'
  <1>1. /\ work[w].phase = "fetching" /\ work[w].msg.task \in SourceTasks
        /\ UNCHANGED <<queue, api>>
    BY DEF SourceCommit
  <1>2. PICK new \in SUBSET Unstored, D \in SUBSET Jobs :
          row' = WithNew(new, D) /\ Committed(w, new)
    BY DEF SourceCommit, Unstored
  <1>3. SUFFICES ASSUME NEW j \in Jobs, NEW t \in ChainTasks, Waiting(row'[j], t)
                 PROVE  Held(j, t)'
    BY DEF AllHeld
  <1>4. CASE j \in new
    <2>1. row'[j].pipeline = "INGESTED"
      BY <1>2, <1>4 DEF WithNew, Inserted, Absent
    <2>2. t = "score"
      BY <1>3, <2>1 DEF Waiting, InputStage, ChainTasks
    <2>3. /\ work'[w].phase = "committed" /\ work'[w].msg = work[w].msg
          /\ work'[w].out = new
      BY <1>2 DEF Committed, TypeOK
    <2>4. AtWork(w, j, t)'
      BY <1>1, <1>4, <2>2, <2>3 DEF AtWork, NextTask, SourceTasks
    <2>5. QED
      BY <2>4 DEF Held
  <1>5. CASE j \notin new
    <2>1. row'[j] = row[j]
      BY <1>2, <1>5 DEF WithNew
    <2>2. Held(j, t)
      BY <1>3, <2>1 DEF AllHeld
    <2>3. \A v \in Workers : AtWork(v, j, t) => work'[v] = work[v]
      BY <1>1, <1>2, EmptyHanded, OthersWork
    <2>4. QED
      BY <1>1, <2>2, <2>3, QueuedSame, StillHeld
  <1>6. QED
    BY <1>4, <1>5

\* What a committed worker holds it publishes.
LEMMA OutgoingBrings ==
  ASSUME NEW w \in Workers, NEW j, NEW t \in ChainTasks, AtWork(w, j, t),
         work[w].phase = "committed", NEW m, Outgoing(w) = <<m>> \/ Outgoing(w) = << >>
  PROVE  Outgoing(w) = <<m>> /\ Brings(m, j, t)
  <1> DEFINE u == work[w].msg.task
             next == Msg(NextTask(u), IF u = "scrape" THEN {} ELSE work[w].out)
             ends == \/ u = "gate"
                     \/ u \notin ChainTasks \cup {"scrape"} /\ work[w].out = {}
  <1>1. u # "gate" /\ NextTask(u) = t /\ j \in work[w].out
    BY DEF AtWork, Running
  <1>2. Outgoing(w) = IF ends THEN << >> ELSE <<next>>
    BY DEF Outgoing
  <1>3. ~ends
    BY <1>1
  <1>4. Outgoing(w) = <<next>>
    BY <1>2, <1>3
  <1>5. next.task = t /\ next.ids = IF u = "scrape" THEN {} ELSE work[w].out
    BY <1>1 DEF Msg
  <1>6. u = "scrape" => t = "score"
    BY <1>1 DEF NextTask
  <1>7. Brings(next, j, t)
    BY <1>1, <1>5, <1>6 DEF Brings
  <1> HIDE DEF next, ends, u
  <1>8. QED
    BY <1>4, <1>7

\* Publishing passes a committed worker's jobs to the queue.
LEMMA PublishHeld ==
  ASSUME TypeOK, AllHeld, NEW w \in Workers, Publish(w)
  PROVE  AllHeld'
  <1>1. /\ work[w].phase = "committed" /\ UNCHANGED <<row, api>>
        /\ queue' = [queue EXCEPT !["default"] = @ \o Outgoing(w)]
        /\ Finished(w)
    BY DEF Publish, tables
  <1>2. \A v \in Workers \ {w} : work'[v] = work[v]
    BY <1>1, OthersWork
  <1>3. SUFFICES ASSUME NEW j \in Jobs, NEW t \in ChainTasks, Waiting(row[j], t)
                 PROVE  Held(j, t)'
    BY <1>1 DEF AllHeld
  <1>4. Held(j, t)
    BY <1>3 DEF AllHeld
  <1>5. queue["default"] \in Seq(Message) /\ "default" \in Queues
    BY DEF TypeOK, Queues
  <1> DEFINE u == work[w].msg.task
             m == Msg(NextTask(u), IF u = "scrape" THEN {} ELSE work[w].out)
  <1>6. Outgoing(w) = <<m>> \/ Outgoing(w) = << >>
    BY DEF Outgoing
  <1>7. work[w].msg \in Message \cup {NoMsg} /\ work[w].out \in SUBSET Jobs
    BY DEF TypeOK, WorkState
  <1>8. m \in Message
    BY <1>7 DEF Message, Msg, Tasks, ChainTasks, NextTask
  <1> HIDE DEF m
  <1>9. CASE Outgoing(w) = <<m>>
    <2>1. queue' = [queue EXCEPT !["default"] = Append(@, m)]
      <3>1. \A s \in Seq(Message) : s \o <<m>> = Append(s, m)
        BY <1>8
      <3>2. queue["default"] \o <<m>> = Append(queue["default"], m)
        BY <1>5, <3>1
      <3>3. queue' = [queue EXCEPT !["default"] = queue["default"] \o <<m>>]
        BY <1>1, <1>9
      <3>4. QED
        BY <3>2, <3>3
    <2>2. AtWork(w, j, t) => Brings(m, j, t)
      BY <1>1, <1>9, OutgoingBrings
    <2>3. Queued(j, t) \/ AtWork(w, j, t) => Queued(j, t)'
      BY <1>5, <1>8, <2>1, <2>2, SentIsQueued
    <2>4. CASE AtWork(w, j, t)
      BY <2>3, <2>4 DEF Held
    <2>5. CASE ~AtWork(w, j, t)
      BY <1>1, <1>2, <1>4, <2>3, <2>5, StillHeld
    <2>6. QED
      BY <2>4, <2>5
  <1>10. CASE Outgoing(w) = << >>
    <2>1. ~AtWork(w, j, t)
      <3>1. << >> # <<m>>
        OBVIOUS
      <3>2. QED
        BY <1>1, <1>10, <3>1, OutgoingBrings
    <2>2. queue["default"] \o << >> = queue["default"]
      BY <1>5
    <2>3. queue' = queue
      BY <1>1, <1>5, <1>10, <2>2 DEF TypeOK
    <2>4. QED
      BY <1>1, <1>2, <1>4, <2>1, <2>3, QueuedSame, StillHeld
  <1>11. QED
    BY <1>6, <1>9, <1>10

\* A worker that holds nothing steps without touching a row or a message.
LEMMA EmptyStepHeld ==
  ASSUME TypeOK, AllHeld, NEW w \in Workers,
         SourceFails(w) \/ ResolveFails(w) \/ ResolveLoad(w) \/ Acknowledge(w)
  PROVE  AllHeld'
  <1>1. /\ work[w].phase \in {"fetching", "done"} /\ UNCHANGED <<row, queue, api>>
        /\ Finished(w) \/ \E next : work' = [work EXCEPT ![w] = next]
    BY DEF SourceFails, ResolveFails, ResolveLoad, Acknowledge, tables
  <1>2. SUFFICES ASSUME NEW j \in Jobs, NEW t \in ChainTasks, Waiting(row[j], t)
                 PROVE  Held(j, t)'
    BY <1>1 DEF AllHeld
  <1>3. Held(j, t)
    BY <1>2 DEF AllHeld
  <1>4. \A v \in Workers : AtWork(v, j, t) => work'[v] = work[v]
    BY <1>1, EmptyHanded, OthersWork
  <1>5. QED
    BY <1>1, <1>3, <1>4, QueuedSame, StillHeld

\* Every worker step keeps every waiting job held.
LEMMA WorkerHeld ==
  ASSUME TypeOK, SnapshotCurrent, AllHeld, NEW w \in Workers, WorkerStep(w)
  PROVE  AllHeld'
BY StartChainHeld, StartOtherHeld, StageHeld, GateHeld, RewindHeld, SourceHeld,
   PublishHeld, EmptyStepHeld DEF WorkerStep
--------------------------------------------------------------------------------
(* The steps of the API.                                                   *)

\* A task sent by the API leaves what is held where it is.
LEMMA SendHeld ==
  ASSUME TypeOK, AllHeld, NEW t \in Tasks, NEW S \in SUBSET Jobs, Send(t, S),
         UNCHANGED <<row, work>>,
         \A r \in Requests, j \in Jobs, u \in ChainTasks :
           Handled(r, j, u) => api'[r] = api[r] \/ Brings(Msg(t, S), j, u)
  PROVE  AllHeld'
  <1> DEFINE m == Msg(t, S)
  <1>1. QueueOf(t) \in Queues /\ m \in Message
    BY DEF QueueOf, Queues, Message, Msg
  <1>2. queue' = [queue EXCEPT ![QueueOf(t)] = Append(@, m)]
    BY DEF Send
  <1>3. SUFFICES ASSUME NEW j \in Jobs, NEW u \in ChainTasks, Waiting(row[j], u)
                 PROVE  Held(j, u)'
    BY DEF AllHeld
  <1>4. Held(j, u)
    BY <1>3 DEF AllHeld
  <1>5. Queued(j, u) \/ Brings(m, j, u) => Queued(j, u)'
    BY <1>1, <1>2, SentIsQueued
  <1>6. CASE \E r \in Requests : Handled(r, j, u) /\ api'[r] # api[r]
    <2>1. Brings(m, j, u)
      BY <1>6
    <2>2. QED
      BY <1>5, <2>1 DEF Held
  <1>7. CASE \A r \in Requests : Handled(r, j, u) => api'[r] = api[r]
    BY <1>4, <1>5, <1>7, StillHeld
  <1>8. QED
    BY <1>6, <1>7

\* A handler that replaces what it did by next, and held no job before.
LEMMA HandlerHeld ==
  ASSUME TypeOK, AllHeld, NEW r \in Requests, api[r].op # "manual", NEW next,
         api' = [api EXCEPT ![r] = next], UNCHANGED <<work, queue>>,
         \A j \in Jobs, t \in ChainTasks :
           Waiting(row'[j], t) => Waiting(row[j], t) \/ Handled(r, j, t)'
  PROVE  AllHeld'
  <1>1. SUFFICES ASSUME NEW j \in Jobs, NEW t \in ChainTasks, Waiting(row'[j], t)
                 PROVE  Held(j, t)'
    BY DEF AllHeld
  <1>2. CASE Handled(r, j, t)'
    BY <1>2 DEF Held
  <1>3. CASE Waiting(row[j], t)
    <2>1. Held(j, t)
      BY <1>3 DEF AllHeld
    <2>2. \A q \in Requests : Handled(q, j, t) => api'[q] = api[q]
      BY DEF Handled, TypeOK
    <2>3. QED
      BY <2>1, <2>2, QueuedSame, StillHeld
  <1>4. QED
    BY <1>1, <1>2, <1>3

\* Every API step keeps every waiting job held.
LEMMA ApiHeld ==
  ASSUME TypeOK, AllHeld, ApiStep
  PROVE  AllHeld'
  <1>1. ASSUME NEW t \in Tasks, NEW S \in SUBSET Jobs, Launch(t, S)
        PROVE  AllHeld'
    BY <1>1, SendHeld DEF Launch, tables
  <1>2. CASE LaunchSource \/ \E j \in Jobs : RequestResolve(j)
    BY <1>1, <1>2 DEF LaunchSource, RequestResolve, Tasks, SourceTasks
  <1>3. ASSUME NEW r \in Requests, NEW j \in Jobs, ManualInsert(r, j)
        PROVE  AllHeld'
    <2> DEFINE next == [NoRequest EXCEPT !.op = "manual", !.jobs = {j}]
    <2>1. PICK D : row' = WithNew({j}, D)
      BY <1>3 DEF ManualInsert
    <2>2. /\ api[r].op # "manual" /\ UNCHANGED <<work, queue>>
          /\ api' = [api EXCEPT ![r] = next]
      BY <1>3 DEF ManualInsert
    <2>3. ASSUME NEW i \in Jobs, NEW t \in ChainTasks, Waiting(row'[i], t)
          PROVE  Waiting(row[i], t) \/ Handled(r, i, t)'
      <3>1. CASE i # j
        BY <2>1, <2>3, <3>1 DEF WithNew
      <3>2. CASE i = j
        <4>1. row'[i].pipeline = "INGESTED"
          BY <2>1, <3>2 DEF WithNew, Inserted, Absent
        <4>2. t = "score"
          BY <2>3, <4>1 DEF Waiting, InputStage, ChainTasks
        <4>3. api'[r] = next
          BY <2>2 DEF TypeOK
        <4>4. QED
          BY <3>2, <4>2, <4>3 DEF Handled, NoRequest
      <3>3. QED
        BY <3>1, <3>2
    <2> HIDE DEF next
    <2>4. QED
      BY <2>2, <2>3, HandlerHeld
  <1>4. ASSUME NEW r \in Requests, ManualEnqueue(r)
        PROVE  AllHeld'
    <2>1. /\ Send("manual", api[r].jobs) /\ UNCHANGED <<row, work>>
          /\ api' = [api EXCEPT ![r] = NoRequest]
      BY <1>4 DEF ManualEnqueue, tables
    <2>2. "manual" \in Tasks /\ api[r].jobs \in SUBSET Jobs
      BY DEF Tasks, TypeOK, RequestState
    <2>3. ASSUME NEW q \in Requests, NEW j \in Jobs, NEW u \in ChainTasks,
                 Handled(q, j, u)
          PROVE  api'[q] = api[q] \/ Brings(Msg("manual", api[r].jobs), j, u)
      <3>1. CASE q = r
        BY <2>3, <3>1 DEF Handled, Brings, Msg
      <3>2. CASE q # r
        BY <2>1, <3>2 DEF TypeOK
      <3>3. QED
        BY <3>1, <3>2
    <2>4. QED
      BY <2>1, <2>2, <2>3, SendHeld
  <1>5. ASSUME NEW r \in Requests, NEW j \in Jobs, NEW u \in Decisions,
               StatusLoad(r, j, u)
        PROVE  AllHeld'
    BY <1>5, HandlerHeld DEF StatusLoad, tables
  <1>6. ASSUME NEW r \in Requests, StatusCommit(r)
        PROVE  AllHeld'
    <2>1. \A j \in Jobs, t \in ChainTasks : Waiting(row'[j], t) => Waiting(row[j], t)
      BY <1>6, StatusAgrees, AgreeColumns DEF Waiting
    <2>2. /\ api[r].op # "manual" /\ UNCHANGED <<work, queue>>
          /\ api' = [api EXCEPT ![r] = NoRequest]
      BY <1>6 DEF StatusCommit
    <2>3. QED
      BY <2>1, <2>2, HandlerHeld
  <1>7. QED
    BY <1>2, <1>3, <1>4, <1>5, <1>6 DEF ApiStep

--------------------------------------------------------------------------------
(* The theorem.                                                            *)

\* Every step keeps the strengthening.
LEMMA DeliveryStep ==
  ASSUME TypeOK, SnapshotCurrent, Delivery, [Next]_vars
  PROVE  Delivery'
  <1>1. CASE Next
    <2>1. CASE \E w \in Workers : WorkerStep(w)
      <3>1. UNCHANGED faults
        BY <2>1 DEF WorkerStep, StartChainTask, StartSourceTask, StartManualPipeline,
           ScoreCommit, ClassifyCommit, AtsCommit, AllTo, GateRecommend, GateDecline,
           SourceCommit, SourceFails, ResolveCheck, ResolveFails, ResolveLoad,
           ResolveCommit, Publish, Acknowledge
      <3>2. QED
        BY <2>1, <3>1, WorkerHeld DEF Delivery
    <2>2. CASE ApiStep
      <3>1. UNCHANGED faults
        BY <2>2 DEF ApiStep, LaunchSource, RequestResolve, Launch, ManualInsert,
           ManualEnqueue, StatusLoad, StatusCommit
      <3>2. QED
        BY <2>2, <3>1, ApiHeld DEF Delivery
    <2>3. CASE Fault
      <3>1. faults' = faults + 1
        BY <2>3 DEF Fault, Crash, TaskFails, RequestDies
      <3>2. faults \in 0..MaxFaults
        BY DEF TypeOK
      <3>3. faults' # 0
        BY <3>1, <3>2, PipelineAssumption
      <3>4. QED
        BY <3>3 DEF Delivery
    <2>4. QED
      BY <1>1, <2>1, <2>2, <2>3 DEF Next
  <1>2. CASE UNCHANGED vars
    BY <1>2 DEF vars, Delivery, AllHeld, Held, Queued, AtWork, Running, Handled
  <1>3. QED
    BY <1>1, <1>2

\* With one worker process, and as long as nothing fails, no job is forgotten: a
\* stored job that waits for a stage is in a message, in the worker's hands or in a
\* handler's, however many chains run side by side and whatever they take from each
\* other.
THEOREM NoJobIsForgotten ==
  ASSUME SoloWorker
  PROVE  Spec => []NoJobForgotten
  <1>1. Init => Delivery
    BY DEF Init, Delivery, AllHeld, Waiting, Unloaded, Absent, InputStage, ChainTasks
  <1>2. IInv /\ Delivery /\ [Next]_vars => Delivery'
    BY DeliveryStep DEF IInv
  <1>3. Delivery => NoJobForgotten
    BY HeldIsCarried DEF Delivery, AllHeld, NoJobForgotten
  <1>4. QED
    BY <1>1, <1>2, <1>3, Invariance, PTL DEF Spec
================================================================================
