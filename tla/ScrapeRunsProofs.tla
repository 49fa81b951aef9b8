---------------------------- MODULE ScrapeRunsProofs ----------------------------
(***************************************************************************)
(* Type correctness of ScrapeRuns, and its safety properties for every set *)
(* of runs, postings, workers and handlers.                                *)
(***************************************************************************)
EXTENDS ScrapeRuns, TLAPS

--------------------------------------------------------------------------------
(* Types.                                                                  *)

\* One more message of run r with n retries.
LEMMA PostType ==
  ASSUME TypeOK, NEW r \in Runs, NEW n \in Retries, Post(r, n)
  PROVE  /\ mail' \in [Runs -> [Retries -> Nat]]
         /\ \A q \in Runs, m \in Retries :
              mail'[q][m] = IF q = r /\ m = n THEN mail[q][m] + 1 ELSE mail[q][m]
BY DEF TypeOK, Post

\* One message less.
LEMMA StartMail ==
  ASSUME TypeOK, NEW w \in Workers, NEW r \in Runs, NEW n \in Retries, Start(w, r, n)
  PROVE  /\ mail' \in [Runs -> [Retries -> Nat]]
         /\ \A q \in Runs, m \in Retries :
              mail'[q][m] = IF q = r /\ m = n THEN mail[q][m] - 1 ELSE mail[q][m]
BY DEF TypeOK, Start

\* A message asks for as many retries as the type allows.
LEMMA RetryType ==
  ASSUME NEW source, NEW n \in Retries, n < RetryLimit(source)
  PROVE  n + 1 \in Retries
BY DEF RetryLimit, Retries

\* The tasks retry three times at most.
LEMMA RetryLimits == \A source : RetryLimit(source) \in 0..3
BY DEF RetryLimit

\* A run that is closed or ended is a run.
LEMMA RunType ==
  ASSUME TypeOK, NEW r \in Runs, NEW S \in SUBSET Postings
  PROVE  /\ \A status \in Statuses : Closed(r, status, S) \in Run
         /\ \A partial \in BOOLEAN : Ended(r, S, partial) \in Run
  <1>1. run[r] \in Run
    BY DEF TypeOK
  <1>2. \A status \in Statuses : Closed(r, status, S) \in Run
    BY <1>1 DEF Closed, Run
  <1>3. ASSUME NEW partial \in BOOLEAN
        PROVE  Ended(r, S, partial) \in Run
    <2> DEFINE e == IF run[r].source = "adapter" THEN partial ELSE run[r].error
    <2>1. e \in BOOLEAN
      BY <1>1 DEF Run
    <2>2. S \ (stored \cup Broken) \in SUBSET Postings
      OBVIOUS
    <2>3. (S \cap stored) \ Broken \in SUBSET Postings
      OBVIOUS
    <2>4. S \cap Broken \in SUBSET Postings
      OBVIOUS
    <2>5. "SUCCESS" \in Statuses
      BY DEF Statuses
    <2>6. Ended(r, S, partial) =
            [run[r] EXCEPT !.status = "SUCCESS",
                           !.inserted = S \ (stored \cup Broken),
                           !.duplicates = (S \cap stored) \ Broken,
                           !.skipped = S \cap Broken,
                           !.error = e]
      BY <1>1 DEF Ended, Run
    <2> HIDE DEF e
    <2>7. QED
      BY <1>1, <2>1, <2>2, <2>3, <2>4, <2>5, <2>6 DEF Run
  <1>4. QED
    BY <1>2, <1>3

\* A worker that finished.
LEMMA FinishType ==
  ASSUME TypeOK, NEW w \in Workers, Executing(w)
  PROVE  /\ work[w].run \in Runs
         /\ work[w].retries \in Retries
         /\ [work[w] EXCEPT !.phase = "done"]
              \in [phase : {"idle", "fetching", "done"},
                   run : Runs \cup {"none"}, retries : Retries]
BY DEF TypeOK, Executing

LEMMA InitType == Init => TypeOK
  <1> SUFFICES ASSUME Init PROVE TypeOK
    OBVIOUS
  <1>1. NoRun \in Run
    BY DEF NoRun, Run, Statuses
  <1>2. run \in [Runs -> Run]
    BY <1>1 DEF Init
  <1>3. 0 \in Retries
    BY DEF Retries
  <1>4. QED
    BY <1>2, <1>3, RunsAssumption DEF Init, TypeOK, Idle, NoHandler

\* The work record of a worker after each of its steps.
LEMMA WorkType ==
  ASSUME TypeOK, NEW w \in Workers,
         NEW s \in [phase : {"idle", "fetching", "done"},
                    run : Runs \cup {"none"}, retries : Retries],
         s.phase # "idle" => s.run \in Runs,
         work' = [work EXCEPT ![w] = s]
  PROVE  /\ work' \in [Workers -> [phase : {"idle", "fetching", "done"},
                                   run : Runs \cup {"none"}, retries : Retries]]
         /\ \A v \in Workers : work'[v].phase # "idle" => work'[v].run \in Runs
BY DEF TypeOK

LEMMA StepType == TypeOK /\ [Next]_vars => TypeOK'
  <1> SUFFICES ASSUME TypeOK, [Next]_vars PROVE TypeOK'
    OBVIOUS
  <1> USE RunsAssumption
  <1>0. Idle \in [phase : {"idle", "fetching", "done"},
                  run : Runs \cup {"none"}, retries : Retries]
    BY DEF Idle, Retries
  <1>1. ASSUME NEW h \in Handlers, NEW r \in Runs, NEW s \in Sources, Create(h, r, s)
        PROVE  TypeOK'
    <2>1. [NoRun EXCEPT !.status = "RUNNING", !.source = s] \in Run
      BY DEF NoRun, Run, Statuses
    <2>2. run' \in [Runs -> Run]
      BY <1>1, <2>1 DEF Create, TypeOK
    <2>3. api' \in [Handlers -> Runs \cup {NoHandler}]
      BY <1>1 DEF Create, TypeOK
    <2>4. QED
      BY <1>1, <2>2, <2>3 DEF Create, TypeOK
  <1>2. ASSUME NEW h \in Handlers, Enqueue(h)
        PROVE  TypeOK'
    <2>1. api[h] \in Runs /\ 0 \in Retries
      BY <1>2 DEF Enqueue, TypeOK, Retries
    <2>2. mail' \in [Runs -> [Retries -> Nat]]
      BY <1>2, <2>1, PostType DEF Enqueue
    <2>3. QED
      BY <1>2, <2>2 DEF Enqueue, TypeOK
  <1>3. ASSUME NEW r \in Runs, NEW p \in Postings, ManualRun(r, p)
        PROVE  TypeOK'
    <2>1. [NoRun EXCEPT !.status = "SUCCESS", !.inserted = {p} \ stored,
                        !.duplicates = {p} \cap stored] \in Run
      BY DEF NoRun, Run, Statuses
    <2>2. run' \in [Runs -> Run]
      BY <1>3, <2>1 DEF ManualRun, TypeOK
    <2>3. stored' \in SUBSET Postings
      BY <1>3 DEF ManualRun, TypeOK
    <2>4. QED
      BY <1>3, <2>2, <2>3 DEF ManualRun, TypeOK
  <1>4. ASSUME NEW w \in Workers, NEW r \in Runs, NEW n \in Retries, Start(w, r, n)
        PROVE  TypeOK'
    <2>1. mail' \in [Runs -> [Retries -> Nat]]
      BY <1>4, StartMail
    <2>2. QED
      BY <1>4, <2>1, WorkType DEF Start, TypeOK
  <1>5. ASSUME NEW w \in Workers, Executing(w), NEW status \in Statuses,
               NEW S \in SUBSET Postings, Close(w, status, S), raises' \in 0..MaxRaises
        PROVE  TypeOK'
    <2>1. Closed(work[w].run, status, S) \in Run
      BY <1>5, FinishType, RunType
    <2>2. run' \in [Runs -> Run]
      BY <1>5, <2>1, FinishType DEF Close, TypeOK
    <2>3. QED
      BY <1>5, <2>2, FinishType, WorkType DEF Close, Finish, TypeOK
  <1>6. ASSUME NEW w \in Workers, Raise(w)
        PROVE  TypeOK'
    <2>1. Executing(w)
      BY <1>6 DEF Raise, Fetching
    <2>2. mail' \in [Runs -> [Retries -> Nat]]
      <3>1. CASE work[w].retries < RetryLimit(run[work[w].run].source)
        BY <1>6, <2>1, <3>1, FinishType, RetryType, PostType DEF Raise
      <3>2. CASE ~ work[w].retries < RetryLimit(run[work[w].run].source)
        BY <1>6, <3>2 DEF Raise, TypeOK
      <3>3. QED
        BY <3>1, <3>2
    <2>3. raises' \in 0..MaxRaises
      BY <1>6 DEF Raise, TypeOK
    <2>4. QED
      BY <1>6, <2>1, <2>2, <2>3, FinishType, WorkType DEF Raise, AfterRaise, TypeOK
  <1>7. ASSUME NEW w \in Workers, NEW S \in SUBSET Postings, NEW partial \in BOOLEAN,
               Persist(w, S, partial)
        PROVE  TypeOK'
    <2>1. Executing(w)
      BY <1>7 DEF Persist, Fetching
    <2>2. Ended(work[w].run, S, partial) \in Run
      BY <2>1, FinishType, RunType
    <2>3. run' \in [Runs -> Run]
      BY <1>7, <2>2 DEF Persist, TypeOK
    <2>4. stored' \in SUBSET Postings
      BY <1>7 DEF Persist, TypeOK
    <2>5. QED
      BY <1>7, <2>1, <2>3, <2>4, FinishType, WorkType DEF Persist, Finish, TypeOK
  <1>8. ASSUME NEW w \in Workers, Acknowledge(w)
        PROVE  TypeOK'
    BY <1>0, <1>8, WorkType DEF Acknowledge, TypeOK, Idle
  <1>9. ASSUME NEW w \in Workers, Crash(w)
        PROVE  TypeOK'
    <2>1. work[w].run \in Runs /\ work[w].retries \in Retries
      BY <1>9 DEF Crash, TypeOK
    <2>2. mail' \in [Runs -> [Retries -> Nat]]
      <3>1. CASE AcksLate(run[work[w].run].source)
        BY <1>9, <2>1, <3>1, PostType DEF Crash
      <3>2. CASE ~ AcksLate(run[work[w].run].source)
        BY <1>9, <3>2 DEF Crash, TypeOK
      <3>3. QED
        BY <3>1, <3>2
    <2>3. faults' \in 0..MaxFaults
      BY <1>9 DEF Crash, Faulty, TypeOK
    <2>4. QED
      BY <1>0, <1>9, <2>2, <2>3, WorkType DEF Crash, TypeOK, Idle
  <1>10. ASSUME NEW w \in Workers, PersistFails(w)
         PROVE  TypeOK'
    <2>1. Executing(w)
      BY <1>10 DEF PersistFails, Fetching
    <2>2. faults' \in 0..MaxFaults
      BY <1>10 DEF PersistFails, Faulty, TypeOK
    <2>3. QED
      BY <1>10, <2>1, <2>2, FinishType, WorkType DEF PersistFails, Finish, TypeOK
  <1>11. ASSUME NEW h \in Handlers, HandlerDies(h)
         PROVE  TypeOK'
    <2>1. faults' \in 0..MaxFaults
      BY <1>11 DEF HandlerDies, Faulty, TypeOK
    <2>2. QED
      BY <1>11, <2>1 DEF HandlerDies, TypeOK
  <1>12. ASSUME NEW w \in Workers, Answer(w)
         PROVE  TypeOK'
    <2>1. CASE Skip(w)
      BY <1>5, <2>1 DEF Skip, Statuses, TypeOK
    <2>2. CASE FetchError(w)
      BY <1>5, <2>2 DEF FetchError, Fetching, Statuses, TypeOK
    <2>3. CASE RaiseClosing(w)
      BY <1>5, <2>3 DEF RaiseClosing, Fetching, Statuses, TypeOK
    <2>4. CASE \E p \in Postings : NotFound(w, p)
      <3>1. PICK p \in Postings : NotFound(w, p)
        BY <2>4
      <3>2. {p} \in SUBSET Postings /\ "FAILED" \in Statuses
        BY DEF Statuses
      <3>3. QED
        BY <1>5, <3>1, <3>2 DEF NotFound, Fetching, TypeOK
    <2>5. QED
      BY <1>6, <1>7, <1>12, <2>1, <2>2, <2>3, <2>4 DEF Answer
  <1>13. CASE UNCHANGED vars
    BY <1>13 DEF vars, TypeOK
  <1>14. QED
    BY <1>1, <1>2, <1>3, <1>4, <1>8, <1>9, <1>10, <1>11, <1>12, <1>13
       DEF Next, ApiStep, WorkerStep, Deliver, Fault

\* Every reachable state is typed.
THEOREM RunsTypeCorrect == Spec => []TypeOK
  <1>1. QED
    BY InitType, StepType, PTL DEF Spec

--------------------------------------------------------------------------------
(* Insertions.                                                             *)

\* A run may take over postings nobody has stored.
LEMMA ClaimNew ==
  ASSUME TypeOK, InsertedOnce, NEW r \in Runs, NEW x,
         run' = [run EXCEPT ![r] = x], x.inserted \cap stored = {},
         x.inserted \subseteq stored', stored \subseteq stored'
  PROVE  InsertedOnce'
  <1>1. \A q \in Runs : run'[q] = IF q = r THEN x ELSE run[q]
    BY DEF TypeOK
  <1>2. \A q \in Runs : run[q].inserted \subseteq stored
    BY DEF InsertedOnce
  <1>3. QED
    BY <1>1, <1>2 DEF InsertedOnce

LEMMA InsertedOnceStep == TypeOK /\ InsertedOnce /\ [Next]_vars => InsertedOnce'
  <1> SUFFICES ASSUME TypeOK, InsertedOnce, [Next]_vars PROVE InsertedOnce'
    OBVIOUS
  <1>1. ASSUME UNCHANGED <<run, stored>>
        PROVE  InsertedOnce'
    BY <1>1 DEF InsertedOnce
  <1>2. ASSUME NEW h \in Handlers, NEW r \in Runs, NEW s \in Sources, Create(h, r, s)
        PROVE  InsertedOnce'
    <2>1. [NoRun EXCEPT !.status = "RUNNING", !.source = s].inserted = {}
      BY DEF NoRun
    <2>2. QED
      BY <1>2, <2>1, ClaimNew DEF Create
  <1>3. ASSUME NEW r \in Runs, NEW p \in Postings, ManualRun(r, p)
        PROVE  InsertedOnce'
    <2> DEFINE x == [NoRun EXCEPT !.status = "SUCCESS", !.inserted = {p} \ stored,
                                  !.duplicates = {p} \cap stored]
    <2>1. x.inserted = {p} \ stored
      BY DEF NoRun
    <2>2. run' = [run EXCEPT ![r] = x] /\ stored' = stored \cup {p}
      BY <1>3 DEF ManualRun
    <2> HIDE DEF x
    <2>3. QED
      BY <2>1, <2>2, ClaimNew
  <1>4. ASSUME NEW w \in Workers, Executing(w), NEW status, NEW S, Close(w, status, S)
        PROVE  InsertedOnce'
    <2>1. work[w].run \in Runs /\ run[work[w].run] \in Run
      BY <1>4, FinishType DEF TypeOK
    <2>2. Closed(work[w].run, status, S).inserted = {}
      BY <2>1 DEF Closed, Run
    <2>3. QED
      BY <1>4, <2>1, <2>2, ClaimNew DEF Close
  <1>5. ASSUME NEW w \in Workers, NEW S \in SUBSET Postings, NEW partial \in BOOLEAN,
               Persist(w, S, partial)
        PROVE  InsertedOnce'
    <2>1. work[w].run \in Runs /\ run[work[w].run] \in Run
      BY <1>5, FinishType DEF Persist, Fetching, TypeOK
    <2>2. Ended(work[w].run, S, partial).inserted = S \ (stored \cup Broken)
      BY <2>1 DEF Ended, Run
    <2>3. stored' = stored \cup (S \ Broken)
      BY <1>5 DEF Persist
    <2>4. run' = [run EXCEPT ![work[w].run] = Ended(work[w].run, S, partial)]
      BY <1>5 DEF Persist
    <2>5. QED
      BY <2>1, <2>2, <2>3, <2>4, ClaimNew
  <1>6. ASSUME NEW w \in Workers, Answer(w)
        PROVE  InsertedOnce'
    BY <1>1, <1>4, <1>5, <1>6
       DEF Answer, Skip, FetchError, NotFound, RaiseClosing, Raise, Fetching
  <1>7. QED
    BY <1>1, <1>2, <1>3, <1>6
       DEF Next, ApiStep, WorkerStep, Deliver, Fault, Enqueue, Start, Acknowledge,
           Crash, PersistFails, HandlerDies, vars

\* A posting is reported as inserted by one run at most, and only when it has a
\* row: redeliveries, parallel workers and failures included.
THEOREM InsertedByOneRun == Spec => []InsertedOnce
  <1>1. Init => InsertedOnce
    BY DEF Init, InsertedOnce, NoRun
  <1>2. QED
    BY <1>1, InitType, StepType, InsertedOnceStep, PTL DEF Spec

--------------------------------------------------------------------------------
(* Deliveries.                                                             *)

\* Run r is in one place while it is RUNNING and in none otherwise.
Single(r) == OnePlace(r) /\ (run[r].status # "RUNNING" => ~ Waiting(r))

\* A step that moves another run leaves r where it is.
LEMMA Elsewhere ==
  ASSUME NEW r \in Runs, Single(r), run'[r].status = run[r].status, mail'[r] = mail[r],
         \A h \in Handlers : InApi(h, r)' <=> InApi(h, r),
         \A w \in Workers : InHand(w, r)' <=> InHand(w, r)
  PROVE  Single(r)'
BY DEF Single, OnePlace, Waiting, InMail

\* A RUNNING run that only handler h holds.
LEMMA OnlyInApi ==
  ASSUME NEW r \in Runs, NEW h \in Handlers, run'[r].status = "RUNNING",
         \A n \in Retries : mail'[r][n] = 0,
         \A g \in Handlers : InApi(g, r)' => g = h,
         \A w \in Workers : ~ InHand(w, r)'
  PROVE  Single(r)'
BY DEF Single, OnePlace, InMail

\* A RUNNING run that only one message carries, if any.
LEMMA OnlyInMail ==
  ASSUME NEW r \in Runs, NEW n \in Retries, run'[r].status = "RUNNING",
         \A m \in Retries : mail'[r][m] = IF m = n THEN 1 ELSE 0,
         \A h \in Handlers : ~ InApi(h, r)',
         \A w \in Workers : ~ InHand(w, r)'
  PROVE  Single(r)'
BY DEF Single, OnePlace, InMail

\* A RUNNING run that only worker w executes.
LEMMA OnlyInHand ==
  ASSUME NEW r \in Runs, NEW w \in Workers, run'[r].status = "RUNNING",
         \A m \in Retries : mail'[r][m] = 0,
         \A h \in Handlers : ~ InApi(h, r)',
         \A v \in Workers : InHand(v, r)' => v = w
  PROVE  Single(r)'
BY DEF Single, OnePlace, InMail

\* A run that is nowhere.
LEMMA Nowhere ==
  ASSUME NEW r \in Runs,
         \A m \in Retries : mail'[r][m] = 0,
         \A h \in Handlers : ~ InApi(h, r)',
         \A v \in Workers : ~ InHand(v, r)'
  PROVE  Single(r)'
BY DEF Single, OnePlace, InMail, Waiting

\* A run that is single and held by a handler, a message or a worker is nowhere else.
LEMMA HeldAlone ==
  ASSUME TypeOK, NEW r \in Runs, Single(r)
  PROVE  /\ run[r].status # "RUNNING" =>
              /\ \A n \in Retries : mail[r][n] = 0
              /\ \A h \in Handlers : ~ InApi(h, r)
              /\ \A w \in Workers : ~ InHand(w, r)
         /\ \A h \in Handlers : InApi(h, r) =>
              /\ run[r].status = "RUNNING"
              /\ \A n \in Retries : mail[r][n] = 0
              /\ \A g \in Handlers : InApi(g, r) => g = h
              /\ \A w \in Workers : ~ InHand(w, r)
         /\ \A n \in Retries : mail[r][n] > 0 =>
              /\ run[r].status = "RUNNING"
              /\ \A m \in Retries : mail[r][m] = IF m = n THEN 1 ELSE 0
              /\ \A h \in Handlers : ~ InApi(h, r)
              /\ \A w \in Workers : ~ InHand(w, r)
         /\ \A w \in Workers : InHand(w, r) =>
              /\ run[r].status = "RUNNING"
              /\ \A n \in Retries : mail[r][n] = 0
              /\ \A h \in Handlers : ~ InApi(h, r)
              /\ \A v \in Workers : InHand(v, r) => v = w
  <1>1. \A n \in Retries : mail[r][n] \in Nat
    BY DEF TypeOK
  <1>2. QED
    BY <1>1 DEF Single, OnePlace, Waiting, InMail

\* A step after which nothing has failed yet is no failure itself.
LEMMA FaultsCounted ==
  ASSUME faults \in Nat, [Next]_vars, faults' = 0
  PROVE  faults = 0 /\ ~ Fault
  <1>1. ~ Fault
    BY DEF Fault, Crash, PersistFails, HandlerDies, Faulty
  <1>2. ASSUME NEW w \in Workers, WorkerStep(w)
        PROVE  UNCHANGED faults
    BY <1>2 DEF WorkerStep, Deliver, Start, Acknowledge, Answer, Skip, FetchError,
                NotFound, Raise, RaiseClosing, Persist, Close
  <1>3. ASSUME ApiStep
        PROVE  UNCHANGED faults
    BY <1>3 DEF ApiStep, Create, Enqueue, ManualRun
  <1>4. QED
    BY <1>1, <1>2, <1>3 DEF Next, vars

LEMMA DeliveryStep == TypeOK /\ OneDelivery /\ [Next]_vars => OneDelivery'
  <1> SUFFICES ASSUME TypeOK, [Next]_vars, faults' = 0, OneDelivery,
                      NEW q \in Runs
               PROVE  Single(q)'
    BY DEF OneDelivery, Single
  <1>1. faults \in Nat
    BY RunsAssumption DEF TypeOK
  <1>2. CASE UNCHANGED vars
    <2>1. Single(q)
      BY <1>2 DEF OneDelivery, Single, vars
    <2>2. QED
      BY <1>2, <2>1, Elsewhere DEF vars, InApi, InHand, Executing
  <1>3. CASE ~ UNCHANGED vars
    <2>1. faults = 0 /\ ~ Fault
      BY <1>1, <1>3, FaultsCounted
    <2>2. \A r \in Runs : Single(r)
      BY <2>1 DEF OneDelivery, Single
    <2>3. ASSUME NEW h \in Handlers, NEW r \in Runs, NEW s \in Sources, Create(h, r, s)
          PROVE  Single(q)'
      <3>1. CASE q = r
        <4>1. run'[r].status = "RUNNING"
          BY <2>3 DEF Create, TypeOK, NoRun
        <4>2. run[r].status # "RUNNING"
          BY <2>3 DEF Create
        <4>3. \A g \in Handlers : InApi(g, r)' => g = h
          BY <2>2, <2>3, <4>2, HeldAlone DEF Create, InApi, TypeOK
        <4>4. QED
          BY <2>2, <2>3, <3>1, <4>1, <4>2, <4>3, HeldAlone, OnlyInApi
             DEF Create, InHand, Executing
      <3>2. CASE q # r
        <4>1. \A g \in Handlers : InApi(g, q)' <=> InApi(g, q)
          BY <2>3, <3>2, RunsAssumption DEF Create, InApi, TypeOK, NoHandler
        <4>2. QED
          BY <2>2, <2>3, <3>2, <4>1, Elsewhere DEF Create, TypeOK, InHand, Executing
      <3>3. QED
        BY <3>1, <3>2
    <2>4. ASSUME NEW h \in Handlers, Enqueue(h)
          PROVE  Single(q)'
      <3>1. api[h] \in Runs /\ InApi(h, api[h])
        BY <2>4 DEF Enqueue, TypeOK, InApi
      <3>2. 0 \in Retries
        BY DEF Retries
      <3>3. \A r \in Runs, m \in Retries :
              mail'[r][m] = IF r = api[h] /\ m = 0 THEN mail[r][m] + 1 ELSE mail[r][m]
        BY <2>4, <3>1, <3>2, PostType DEF Enqueue
      <3>4. CASE q = api[h]
        <4>1. \A m \in Retries : mail'[q][m] = IF m = 0 THEN 1 ELSE 0
          BY <2>2, <3>1, <3>2, <3>3, <3>4, HeldAlone
        <4>2. \A g \in Handlers : ~ InApi(g, q)'
          BY <2>2, <2>4, <3>1, <3>4, HeldAlone, RunsAssumption
             DEF Enqueue, InApi, TypeOK, NoHandler
        <4>3. QED
          BY <2>2, <2>4, <3>1, <3>2, <3>4, <4>1, <4>2, HeldAlone, OnlyInMail
             DEF Enqueue, InHand, Executing
      <3>5. CASE q # api[h]
        <4>1. mail'[q] = mail[q]
          BY <2>4, <3>5 DEF Enqueue, Post, TypeOK
        <4>2. \A g \in Handlers : InApi(g, q)' <=> InApi(g, q)
          BY <2>4, <3>5, RunsAssumption DEF Enqueue, InApi, TypeOK, NoHandler
        <4>3. QED
          BY <2>2, <2>4, <4>1, <4>2, Elsewhere DEF Enqueue, InHand, Executing
      <3>6. QED
        BY <3>4, <3>5
    <2>5. ASSUME NEW r \in Runs, NEW p \in Postings, ManualRun(r, p)
          PROVE  Single(q)'
      <3>1. CASE q = r
        BY <2>2, <2>5, <3>1, HeldAlone, Nowhere
           DEF ManualRun, InApi, InHand, Executing
      <3>2. CASE q # r
        BY <2>2, <2>5, <3>2, Elsewhere DEF ManualRun, TypeOK, InApi, InHand, Executing
      <3>3. QED
        BY <3>1, <3>2
    <2>6. ASSUME NEW w \in Workers, NEW r \in Runs, NEW n \in Retries, Start(w, r, n)
          PROVE  Single(q)'
      <3>1. \A s \in Runs, m \in Retries :
              mail'[s][m] = IF s = r /\ m = n THEN mail[s][m] - 1 ELSE mail[s][m]
        BY <2>6, StartMail
      <3>2. work'[w].phase = "fetching" /\ work'[w].run = r /\ ~ Executing(w)
        BY <2>6 DEF Start, TypeOK, Executing
      <3>3. \A v \in Workers : v # w => work'[v] = work[v]
        BY <2>6 DEF Start, TypeOK
      <3>4. CASE q = r
        <4>1. mail[r][n] > 0
          BY <2>6 DEF Start
        <4>2. \A m \in Retries : mail'[r][m] = 0
          BY <2>2, <3>1, <4>1, HeldAlone
        <4>3. \A v \in Workers : InHand(v, r)' => v = w
          BY <2>2, <3>3, <4>1, HeldAlone DEF InHand, Executing
        <4>4. QED
          BY <2>2, <2>6, <3>4, <4>1, <4>2, <4>3, HeldAlone, OnlyInHand
             DEF Start, InApi
      <3>5. CASE q # r
        <4>1. mail'[q] = mail[q]
          BY <2>6, <3>5 DEF Start, TypeOK
        <4>2. \A v \in Workers : InHand(v, q)' <=> InHand(v, q)
          BY <3>2, <3>3, <3>5 DEF InHand, Executing
        <4>3. QED
          BY <2>2, <2>6, <4>1, <4>2, Elsewhere DEF Start, InApi
      <3>6. QED
        BY <3>4, <3>5
    <2>7. ASSUME NEW w \in Workers, Executing(w),
                 work' = [work EXCEPT ![w].phase = "done"],
                 \A r \in Runs \ {work[w].run} : run'[r] = run[r],
                 UNCHANGED <<mail, api>>
          PROVE  Single(q)'
      <3>1. work[w].run \in Runs /\ InHand(w, work[w].run)
        BY <2>7, FinishType DEF InHand
      <3>2. \A v \in Workers : Executing(v)' <=> Executing(v) /\ v # w
        BY <2>7 DEF TypeOK, Executing
      <3>3. \A v \in Workers : work'[v].run = work[v].run
        BY <2>7 DEF TypeOK
      <3>4. CASE q = work[w].run
        BY <2>2, <2>7, <3>1, <3>2, <3>3, <3>4, HeldAlone, Nowhere DEF InHand, InApi
      <3>5. CASE q # work[w].run
        <4>1. \A v \in Workers : InHand(v, q)' <=> InHand(v, q)
          BY <3>2, <3>3, <3>5 DEF InHand
        <4>2. QED
          BY <2>2, <2>7, <3>5, <4>1, Elsewhere DEF InApi
      <3>6. QED
        BY <3>4, <3>5
    <2>8. ASSUME NEW w \in Workers, Raise(w)
          PROVE  Single(q)'
      <3> DEFINE r == work[w].run
                 n == work[w].retries
      <3>1. Executing(w)
        BY <2>8 DEF Raise, Fetching
      <3>2. work' = [work EXCEPT ![w].phase = "done"]
        BY <2>8 DEF Raise, AfterRaise, TypeOK
      <3>3. CASE ~ n < RetryLimit(run[r].source)
        BY <2>7, <2>8, <3>1, <3>2, <3>3 DEF Raise
      <3>4. CASE n < RetryLimit(run[r].source)
        <4>1. r \in Runs /\ n \in Retries /\ n + 1 \in Retries /\ InHand(w, r)
          BY <3>1, <3>4, FinishType, RetryType DEF InHand
        <4>2. \A s \in Runs, m \in Retries :
                mail'[s][m] = IF s = r /\ m = n + 1 THEN mail[s][m] + 1 ELSE mail[s][m]
          BY <2>8, <3>4, <4>1, PostType DEF Raise
        <4>3. \A v \in Workers : Executing(v)' <=> Executing(v) /\ v # w
          BY <3>2 DEF TypeOK, Executing
        <4>4. \A v \in Workers : work'[v].run = work[v].run
          BY <3>2 DEF TypeOK
        <4>5. UNCHANGED <<run, api>>
          BY <2>8 DEF Raise
        <4>6. CASE q = r
          <5>1. \A m \in Retries : mail'[q][m] = IF m = n + 1 THEN 1 ELSE 0
            BY <2>2, <4>1, <4>2, <4>6, HeldAlone
          <5>2. run'[q].status = "RUNNING" /\ \A h \in Handlers : ~ InApi(h, q)'
            BY <2>2, <4>1, <4>5, <4>6, HeldAlone DEF InApi
          <5>3. \A v \in Workers : ~ InHand(v, q)'
            BY <2>2, <4>1, <4>3, <4>4, <4>6, HeldAlone DEF InHand
          <5>4. QED
            BY <4>1, <5>1, <5>2, <5>3, OnlyInMail
        <4>7. CASE q # r
          <5>1. mail'[q] = mail[q]
            BY <2>8, <3>4, <4>7 DEF Raise, Post, TypeOK
          <5>2. \A v \in Workers : InHand(v, q)' <=> InHand(v, q)
            BY <4>3, <4>4, <4>7 DEF InHand
          <5>3. QED
            BY <2>2, <4>5, <5>1, <5>2, Elsewhere DEF InApi
        <4>8. QED
          BY <4>6, <4>7
      <3>5. QED
        BY <3>3, <3>4
    <2>9. ASSUME NEW w \in Workers, Executing(w), NEW status, NEW S, Close(w, status, S)
          PROVE  Single(q)'
      BY <2>7, <2>9 DEF Close, Finish, TypeOK
    <2>10. ASSUME NEW w \in Workers, NEW S, NEW partial, Persist(w, S, partial)
           PROVE  Single(q)'
      BY <2>7, <2>10 DEF Persist, Fetching, Finish, TypeOK
    <2>11. ASSUME NEW w \in Workers, Acknowledge(w)
           PROVE  Single(q)'
      <3>1. \A v \in Workers : InHand(v, q)' <=> InHand(v, q)
        BY <2>11 DEF Acknowledge, InHand, Executing, Idle, TypeOK
      <3>2. QED
        BY <2>2, <2>11, <3>1, Elsewhere DEF Acknowledge, InApi
    <2>12. ASSUME NEW w \in Workers, Answer(w)
           PROVE  Single(q)'
      BY <2>8, <2>9, <2>10, <2>12
         DEF Answer, Skip, FetchError, NotFound, RaiseClosing, Fetching
    <2>13. QED
      BY <1>3, <2>1, <2>3, <2>4, <2>5, <2>6, <2>11, <2>12
         DEF Next, ApiStep, WorkerStep, Deliver
  <1>4. QED
    BY <1>2, <1>3

\* Without failures at most one delivery of a run's task is under way, retries
\* included, and none once the run has ended.
THEOREM DeliveredOnce == Spec => []OneDelivery
  <1>1. Init => OneDelivery
    BY RunsAssumption DEF Init, OneDelivery, OnePlace, Waiting, InApi, InMail, InHand,
           Executing, Idle, NoHandler, NoRun
  <1>2. QED
    BY <1>1, InitType, StepType, DeliveryStep, PTL DEF Spec

--------------------------------------------------------------------------------
(* Results.                                                                *)

\* The step leaves ended runs as they are: only runs that are absent or in the
\* hands of a worker are written.
LEMMA ResultStep ==
  ASSUME TypeOK, OneDelivery, [Next]_vars, faults = 0, NEW q \in Runs, IsEnded(q)
  PROVE  run'[q] = run[q]
  <1>1. Single(q) /\ run[q].status \notin {"absent", "RUNNING"}
    BY DEF OneDelivery, Single, IsEnded
  <1>2. \A w \in Workers : ~ InHand(w, q)
    BY <1>1, HeldAlone
  <1>3. ASSUME NEW w \in Workers, Executing(w), NEW x,
               run' = [run EXCEPT ![work[w].run] = x]
        PROVE  run'[q] = run[q]
    BY <1>2, <1>3 DEF InHand, TypeOK
  <1>4. ASSUME NEW w \in Workers, Answer(w)
        PROVE  run'[q] = run[q]
    BY <1>3, <1>4
       DEF Answer, Skip, FetchError, NotFound, RaiseClosing, Raise, Persist, Close,
           Fetching
  <1>5. ASSUME ApiStep
        PROVE  run'[q] = run[q]
    BY <1>1, <1>5 DEF ApiStep, Create, Enqueue, ManualRun, TypeOK
  <1>6. QED
    BY <1>4, <1>5
       DEF Next, WorkerStep, Deliver, Start, Acknowledge, Fault, Crash, PersistFails,
           HandlerDies, vars

\* Without failures the outcome and the items of an ended run stand.
THEOREM ResultsStand == Spec => ResultStands
  <1>1. TypeOK /\ OneDelivery /\ [Next]_vars
          => [faults = 0 => \A r \in Runs : IsEnded(r) => run'[r] = run[r]]_vars
    BY ResultStep
  <1>2. QED
    BY <1>1, RunsTypeCorrect, DeliveredOnce, PTL DEF Spec, ResultStands

\* Without failures a run that has not ended has reported nothing, and the runs
\* that have ended account for every stored row.
Ledger ==
  faults = 0 => /\ Accounted
                /\ \A r \in Runs : ~ IsEnded(r) => run[r].inserted = {}

LEMMA LedgerStep == TypeOK /\ OneDelivery /\ Ledger /\ [Next]_vars => Ledger'
  <1> SUFFICES ASSUME TypeOK, OneDelivery, Ledger, [Next]_vars, faults' = 0
               PROVE  /\ Accounted'
                      /\ \A r \in Runs : ~ IsEnded(r)' => run'[r].inserted = {}
    BY DEF Ledger
  <1>1. faults \in Nat
    BY RunsAssumption DEF TypeOK
  <1>2. CASE UNCHANGED vars
    BY <1>2 DEF Ledger, Accounted, IsEnded, vars
  <1>3. CASE ~ UNCHANGED vars
    <2>1. faults = 0 /\ ~ Fault
      BY <1>1, <1>3, FaultsCounted
    <2>2. /\ Accounted
          /\ \A r \in Runs : ~ IsEnded(r) => run[r].inserted = {}
          /\ \A r \in Runs : Single(r)
      BY <2>1 DEF Ledger, OneDelivery, Single
    <2>3. ASSUME UNCHANGED <<run, stored>>
          PROVE  /\ Accounted'
                 /\ \A r \in Runs : ~ IsEnded(r)' => run'[r].inserted = {}
      BY <2>2, <2>3 DEF Accounted, IsEnded
    <2>4. ASSUME NEW r \in Runs, ~ IsEnded(r), NEW x,
                 run' = [run EXCEPT ![r] = x], stored' = stored \cup x.inserted,
                 x.status \in {"SUCCESS", "FAILED", "SKIPPED"} \/ x.inserted = {}
          PROVE  /\ Accounted'
                 /\ \A q \in Runs : ~ IsEnded(q)' => run'[q].inserted = {}
      <3>1. \A q \in Runs : run'[q] = IF q = r THEN x ELSE run[q]
        BY <2>4 DEF TypeOK
      <3>2. run[r].inserted = {}
        BY <2>2, <2>4
      <3>3. ASSUME NEW p \in stored'
            PROVE  \E q \in Runs : p \in run'[q].inserted
        <4>1. CASE p \in x.inserted
          BY <3>1, <4>1
        <4>2. CASE p \in stored
          <5>1. PICK q \in Runs : p \in run[q].inserted
            BY <2>2, <4>2 DEF Accounted
          <5>2. QED
            BY <3>1, <3>2, <5>1
        <4>3. QED
          BY <2>4, <4>1, <4>2
      <3>4. QED
        BY <2>2, <2>4, <3>1, <3>3 DEF Accounted, IsEnded
    <2>5. ASSUME NEW h \in Handlers, NEW r \in Runs, NEW s \in Sources, Create(h, r, s)
          PROVE  /\ Accounted'
                 /\ \A q \in Runs : ~ IsEnded(q)' => run'[q].inserted = {}
      <3> DEFINE x == [NoRun EXCEPT !.status = "RUNNING", !.source = s]
      <3>1. x.inserted = {} /\ ~ IsEnded(r)
        BY <2>5 DEF NoRun, Create, IsEnded
      <3>2. run' = [run EXCEPT ![r] = x] /\ stored' = stored
        BY <2>5 DEF Create
      <3> HIDE DEF x
      <3>3. QED
        BY <2>4, <3>1, <3>2
    <2>6. ASSUME NEW r \in Runs, NEW p \in Postings, ManualRun(r, p)
          PROVE  /\ Accounted'
                 /\ \A q \in Runs : ~ IsEnded(q)' => run'[q].inserted = {}
      <3> DEFINE x == [NoRun EXCEPT !.status = "SUCCESS", !.inserted = {p} \ stored,
                                    !.duplicates = {p} \cap stored]
      <3>1. x.inserted = {p} \ stored /\ x.status = "SUCCESS" /\ ~ IsEnded(r)
        BY <2>6 DEF NoRun, ManualRun, IsEnded
      <3>2. run' = [run EXCEPT ![r] = x] /\ stored' = stored \cup {p}
        BY <2>6 DEF ManualRun
      <3> HIDE DEF x
      <3>3. stored' = stored \cup x.inserted
        BY <3>1, <3>2
      <3>4. QED
        BY <2>4, <3>1, <3>2, <3>3
    <2>7. ASSUME NEW w \in Workers, Executing(w)
          PROVE  /\ work[w].run \in Runs /\ run[work[w].run] \in Run
                 /\ ~ IsEnded(work[w].run)
      <3>1. InHand(w, work[w].run) /\ work[w].run \in Runs
        BY <2>7, FinishType DEF InHand
      <3>2. QED
        BY <2>2, <3>1, HeldAlone DEF TypeOK, IsEnded
    <2>8. ASSUME NEW w \in Workers, Executing(w), NEW status, NEW S, Close(w, status, S),
                 status \in {"FAILED", "SKIPPED"}
          PROVE  /\ Accounted'
                 /\ \A q \in Runs : ~ IsEnded(q)' => run'[q].inserted = {}
      <3>1. Closed(work[w].run, status, S).inserted = {}
        BY <2>7, <2>8 DEF Closed, Run
      <3>2. stored' = stored \cup {} /\ stored' = stored
        BY <2>8 DEF Close
      <3>3. QED
        BY <2>4, <2>7, <2>8, <3>1, <3>2 DEF Close
    <2>9. ASSUME NEW w \in Workers, NEW S, NEW partial, Persist(w, S, partial)
          PROVE  /\ Accounted'
                 /\ \A q \in Runs : ~ IsEnded(q)' => run'[q].inserted = {}
      <3>1. Executing(w)
        BY <2>9 DEF Persist, Fetching
      <3>2. /\ Ended(work[w].run, S, partial).inserted = S \ (stored \cup Broken)
            /\ Ended(work[w].run, S, partial).status = "SUCCESS"
        BY <2>7, <3>1 DEF Ended, Run
      <3>3. stored' = stored \cup (S \ (stored \cup Broken))
        BY <2>9 DEF Persist
      <3>4. run' = [run EXCEPT ![work[w].run] = Ended(work[w].run, S, partial)]
        BY <2>9 DEF Persist
      <3>5. QED
        BY <2>4, <2>7, <3>1, <3>2, <3>3, <3>4
    <2>10. ASSUME NEW w \in Workers, Answer(w)
           PROVE  /\ Accounted'
                  /\ \A q \in Runs : ~ IsEnded(q)' => run'[q].inserted = {}
      <3>1. CASE Skip(w)
        BY <2>8, <3>1 DEF Skip
      <3>2. CASE FetchError(w) \/ RaiseClosing(w)
        BY <2>8, <3>2 DEF FetchError, RaiseClosing, Fetching
      <3>3. CASE \E p \in Postings : NotFound(w, p)
        BY <2>8, <3>3 DEF NotFound, Fetching
      <3>4. QED
        BY <2>3, <2>9, <2>10, <3>1, <3>2, <3>3 DEF Answer, Raise
    <2>11. QED
      BY <1>3, <2>1, <2>3, <2>5, <2>6, <2>10
         DEF Next, ApiStep, WorkerStep, Deliver, Enqueue, Start, Acknowledge
  <1>4. QED
    BY <1>2, <1>3

\* Without failures the items of the runs account for every row they stored.
THEOREM RowsAccounted == Spec => []AccountedWithoutFaults
  <1>1. Init => Ledger
    BY DEF Init, Ledger, Accounted, NoRun
  <1>2. Ledger => AccountedWithoutFaults
    BY DEF Ledger, AccountedWithoutFaults
  <1>3. QED
    BY <1>1, <1>2, LedgerStep, RunsTypeCorrect, DeliveredOnce, PTL DEF Spec

--------------------------------------------------------------------------------
(* Stranded runs.                                                          *)

\* A message that was published waits, and so do the others.
LEMMA PostWaits ==
  ASSUME TypeOK, NEW q \in Runs, NEW n \in Retries, Post(q, n)
  PROVE  /\ Waiting(q)'
         /\ \A r \in Runs, m \in Retries : InMail(m, r) => InMail(m, r)'
  <1>1. \A r \in Runs, m \in Retries :
          mail'[r][m] = IF r = q /\ m = n THEN mail[r][m] + 1 ELSE mail[r][m]
    BY PostType
  <1>2. \A r \in Runs, m \in Retries : mail[r][m] \in Nat
    BY DEF TypeOK
  <1>3. InMail(n, q)'
    BY <1>1, <1>2 DEF InMail
  <1>4. QED
    BY <1>1, <1>2, <1>3 DEF InMail, Waiting

\* A worker that ends its task keeps no other run waiting, nor stops one.
LEMMA OtherRuns ==
  ASSUME TypeOK, NEW r \in Runs, NEW w \in Workers, ~ InHand(w, r), Waiting(r),
         \A v \in Workers \ {w} : work'[v] = work[v], api' = api,
         \A m \in Retries : InMail(m, r) => InMail(m, r)'
  PROVE  Waiting(r)'
BY DEF Waiting, InApi, InHand, Executing

\* A step strands no run but in the four ways.
LEMMA StrandedStep ==
  TypeOK /\ [Next]_vars => [\A r \in Runs : ~ Stranded(r) /\ Stranded(r)' => Strands(r)]_vars
  <1> SUFFICES ASSUME TypeOK, Next, NEW r \in Runs, ~ Stranded(r), run'[r].status = "RUNNING"
               PROVE  Waiting(r)' \/ Strands(r)
    BY DEF Stranded
  <1>1. run[r].status = "RUNNING" => Waiting(r)
    BY DEF Stranded
  <1>2. ASSUME NEW h \in Handlers, NEW q \in Runs, NEW s \in Sources, Create(h, q, s)
        PROVE  Waiting(r)'
    <2>1. CASE q = r
      <3>1. InApi(h, r)'
        BY <1>2, <2>1 DEF Create, InApi, TypeOK
      <3>2. QED
        BY <3>1 DEF Waiting
    <2>2. CASE q # r
      <3>1. Waiting(r)
        BY <1>1, <1>2, <2>2 DEF Create, TypeOK
      <3>2. \A g \in Handlers : InApi(g, r) => InApi(g, r)'
        BY <1>2, RunsAssumption DEF Create, InApi, TypeOK, NoHandler
      <3>3. QED
        BY <1>2, <3>1, <3>2 DEF Create, Waiting, InMail, InHand, Executing
    <2>3. QED
      BY <2>1, <2>2
  <1>3. ASSUME NEW h \in Handlers, Enqueue(h)
        PROVE  Waiting(r)'
    <2>1. api[h] \in Runs /\ 0 \in Retries /\ Post(api[h], 0) /\ run' = run /\ work' = work
      BY <1>3 DEF Enqueue, TypeOK, Retries
    <2>2. CASE api[h] = r
      BY <2>1, <2>2, PostWaits
    <2>3. CASE api[h] # r
      <3>1. \A g \in Handlers : InApi(g, r) => InApi(g, r)'
        BY <1>3, <2>3 DEF Enqueue, InApi, TypeOK
      <3>2. \A m \in Retries : InMail(m, r) => InMail(m, r)'
        BY <2>1, PostWaits
      <3>3. QED
        BY <1>1, <2>1, <3>1, <3>2 DEF Waiting, InHand, Executing
    <2>4. QED
      BY <2>2, <2>3
  <1>4. ASSUME NEW q \in Runs, NEW p \in Postings, ManualRun(q, p)
        PROVE  Waiting(r)'
    <2>1. q # r
      BY <1>4 DEF ManualRun, TypeOK, NoRun
    <2>2. Waiting(r)
      BY <1>1, <1>4, <2>1 DEF ManualRun, TypeOK
    <2>3. QED
      BY <1>4, <2>2 DEF ManualRun, Waiting, InApi, InMail, InHand, Executing
  <1>5. ASSUME NEW w \in Workers, NEW q \in Runs, NEW n \in Retries, Start(w, q, n)
        PROVE  Waiting(r)'
    <2>1. Waiting(r) /\ api' = api /\ work[w].phase = "idle"
      BY <1>1, <1>5 DEF Start
    <2>2. work' = [work EXCEPT ![w] = [phase |-> "fetching", run |-> q, retries |-> n]]
      BY <1>5 DEF Start
    <2>3. \A v \in Workers :
            work'[v] = IF v = w THEN [phase |-> "fetching", run |-> q, retries |-> n] ELSE work[v]
      BY <2>2 DEF TypeOK
    <2>4. CASE q = r
      <3>1. InHand(w, r)'
        BY <2>3, <2>4 DEF InHand, Executing
      <3>2. QED
        BY <3>1 DEF Waiting
    <2>5. CASE q # r
      <3>1. ~ InHand(w, r)
        BY <2>1 DEF InHand, Executing
      <3>2. \A m \in Retries : InMail(m, r) => InMail(m, r)'
        BY <1>5, <2>5, StartMail DEF InMail
      <3>3. QED
        BY <2>1, <2>3, <3>1, <3>2, OtherRuns
    <2>6. QED
      BY <2>4, <2>5
  <1>6. ASSUME NEW w \in Workers, Executing(w), NEW x, x.status # "RUNNING", Finish(w),
               run' = [run EXCEPT ![work[w].run] = x], UNCHANGED <<api, mail>>
        PROVE  Waiting(r)'
    <2>1. work[w].run \in Runs
      BY <1>6, FinishType
    <2>2. \A q \in Runs : run'[q] = IF q = work[w].run THEN x ELSE run[q]
      BY <1>6 DEF TypeOK
    <2>3. work[w].run # r /\ Waiting(r)
      BY <1>1, <1>6, <2>2
    <2>4. ~ InHand(w, r) /\ \A m \in Retries : InMail(m, r) => InMail(m, r)'
      BY <1>6, <2>3 DEF InHand, InMail
    <2>5. QED
      BY <1>6, <2>3, <2>4, OtherRuns DEF Finish, TypeOK
  <1>7. ASSUME NEW w \in Workers, Executing(w), NEW status, NEW S, Close(w, status, S),
               status \in {"FAILED", "SKIPPED"}
        PROVE  Waiting(r)'
    <2>1. run[work[w].run] \in Run
      BY <1>7, FinishType DEF TypeOK
    <2>2. Closed(work[w].run, status, S).status = status
      BY <2>1 DEF Closed, Run
    <2>3. QED
      BY <1>6, <1>7, <2>2 DEF Close
  <1>8. ASSUME NEW w \in Workers, NEW S, NEW partial, Persist(w, S, partial)
        PROVE  Waiting(r)'
    <2>1. Executing(w) /\ run[work[w].run] \in Run
      BY <1>8, FinishType DEF Persist, Fetching, TypeOK
    <2>2. Ended(work[w].run, S, partial).status = "SUCCESS"
      BY <2>1 DEF Ended, Run
    <2>3. QED
      BY <1>6, <1>8, <2>1, <2>2 DEF Persist
  <1>9. ASSUME NEW w \in Workers, Raise(w)
        PROVE  Waiting(r)' \/ Strands(r)
    <2>1. /\ Executing(w) /\ raises' = raises + 1 /\ run' = run /\ api' = api
          /\ \A v \in Workers \ {w} : work'[v] = work[v]
      BY <1>9 DEF Raise, Fetching, TypeOK
    <2>2. /\ work[w].run \in Runs /\ work[w].retries \in Retries
          /\ RetryLimit(run[work[w].run].source) \in 0..3
          /\ raises \in Nat
      <3>1. work[w].run \in Runs /\ work[w].retries \in Retries
        BY <2>1, FinishType
      <3>2. RetryLimit(run[work[w].run].source) \in 0..3
        BY RetryLimits
      <3>3. raises \in Nat
        BY RunsAssumption DEF TypeOK
      <3>4. QED
        BY <3>1, <3>2, <3>3
    <2>3. CASE work[w].retries < RetryLimit(run[work[w].run].source)
      <3>1. work[w].retries + 1 \in Retries /\ Post(work[w].run, work[w].retries + 1)
        BY <1>9, <2>2, <2>3, RetryType DEF Raise
      <3>2. work[w].run = r => Waiting(r)'
        BY <2>2, <3>1, PostWaits
      <3>3. \A m \in Retries : InMail(m, r) => InMail(m, r)'
        BY <2>2, <3>1, PostWaits
      <3>4. work[w].run # r => Waiting(r)'
        BY <1>1, <2>1, <3>3, OtherRuns DEF InHand
      <3>5. QED
        BY <3>2, <3>4
    <2>4. CASE ~ work[w].retries < RetryLimit(run[work[w].run].source)
      <3>1. work[w].retries >= RetryLimit(run[work[w].run].source) /\ raises' > raises
        BY <2>1, <2>2, <2>4 DEF Retries
      <3>2. CASE work[w].run = r
        BY <2>1, <3>1, <3>2 DEF Strands, InHand
      <3>3. CASE work[w].run # r
        <4>1. mail' = mail /\ ~ InHand(w, r)
          BY <1>9, <2>4, <3>3 DEF Raise, InHand
        <4>2. QED
          BY <1>1, <2>1, <4>1, OtherRuns DEF InMail
      <3>4. QED
        BY <3>2, <3>3
    <2>5. QED
      BY <2>3, <2>4
  <1>10. ASSUME NEW w \in Workers, Answer(w)
         PROVE  Waiting(r)' \/ Strands(r)
    <2>1. CASE Skip(w)
      BY <1>7, <2>1 DEF Skip
    <2>2. CASE FetchError(w) \/ RaiseClosing(w)
      BY <1>7, <2>2 DEF FetchError, RaiseClosing, Fetching
    <2>3. CASE \E p \in Postings : NotFound(w, p)
      BY <1>7, <2>3 DEF NotFound, Fetching
    <2>4. QED
      BY <1>8, <1>9, <1>10, <2>1, <2>2, <2>3 DEF Answer
  <1>11. ASSUME NEW w \in Workers, Acknowledge(w)
         PROVE  Waiting(r)'
    <2>1. /\ ~ InHand(w, r) /\ api' = api /\ mail' = mail /\ run' = run
          /\ \A v \in Workers \ {w} : work'[v] = work[v]
      BY <1>11 DEF Acknowledge, InHand, Executing, TypeOK
    <2>2. QED
      BY <1>1, <2>1, OtherRuns DEF InMail
  <1>12. ASSUME NEW w \in Workers, Crash(w)
         PROVE  Waiting(r)' \/ Strands(r)
    <2>1. /\ work[w].run \in Runs /\ work[w].retries \in Retries /\ run' = run /\ api' = api
          /\ faults' = faults + 1 /\ faults \in Nat
          /\ \A v \in Workers \ {w} : work'[v] = work[v]
      BY <1>12, RunsAssumption DEF Crash, Faulty, TypeOK
    <2>2. CASE AcksLate(run[work[w].run].source)
      <3>1. Post(work[w].run, work[w].retries)
        BY <1>12, <2>2 DEF Crash
      <3>2. work[w].run = r => Waiting(r)'
        BY <2>1, <3>1, PostWaits
      <3>3. \A m \in Retries : InMail(m, r) => InMail(m, r)'
        BY <2>1, <3>1, PostWaits
      <3>4. work[w].run # r => Waiting(r)'
        BY <1>1, <2>1, <3>3, OtherRuns DEF InHand
      <3>5. QED
        BY <3>2, <3>4
    <2>3. CASE ~ AcksLate(run[work[w].run].source)
      <3>1. run[work[w].run].source = "jobspy" /\ mail' = mail
        BY <1>12, <2>3 DEF Crash, AcksLate
      <3>2. CASE work[w].run = r
        BY <2>1, <3>1, <3>2 DEF Strands
      <3>3. CASE work[w].run # r
        BY <1>1, <2>1, <3>1, <3>3, OtherRuns DEF InHand, InMail
      <3>4. QED
        BY <3>2, <3>3
    <2>4. QED
      BY <2>2, <2>3
  <1>13. ASSUME NEW w \in Workers, PersistFails(w)
         PROVE  Waiting(r)' \/ Strands(r)
    <2>1. /\ Executing(w) /\ run' = run /\ api' = api /\ mail' = mail
          /\ faults' = faults + 1 /\ faults \in Nat /\ work'[w].phase = "done"
          /\ \A v \in Workers \ {w} : work'[v] = work[v]
      BY <1>13, RunsAssumption DEF PersistFails, Fetching, Finish, Faulty, TypeOK
    <2>2. CASE InHand(w, r)
      BY <2>1, <2>2 DEF Strands
    <2>3. CASE ~ InHand(w, r)
      BY <1>1, <2>1, <2>3, OtherRuns DEF InMail
    <2>4. QED
      BY <2>2, <2>3
  <1>14. ASSUME NEW h \in Handlers, HandlerDies(h)
         PROVE  Waiting(r)' \/ Strands(r)
    <2>1. /\ run' = run /\ work' = work /\ mail' = mail /\ faults' = faults + 1 /\ faults \in Nat
          /\ \A g \in Handlers \ {h} : api'[g] = api[g]
      BY <1>14, RunsAssumption DEF HandlerDies, Faulty, TypeOK
    <2>2. CASE InApi(h, r)
      BY <2>1, <2>2 DEF Strands
    <2>3. CASE ~ InApi(h, r)
      BY <1>1, <2>1, <2>3 DEF Waiting, InApi, InMail, InHand, Executing
    <2>4. QED
      BY <2>2, <2>3
  <1>15. QED
    BY <1>2, <1>3, <1>4, <1>5, <1>10, <1>11, <1>12, <1>13, <1>14
       DEF Next, ApiStep, WorkerStep, Deliver, Fault

\* A run that is RUNNING is stranded only where its handler dies before the delay(),
\* a task acknowledged on receipt dies, a persist fails, or the retries are used up
\* (the launch routes of jobs.py, scrape.py and the retrying tasks of ingest.py and
\* discovery.py), for any number of workers, redeliveries and failures.
THEOREM StrandingSteps == Spec => StrandedByFailure
  <1>1. QED
    BY RunsTypeCorrect, StrandedStep, PTL DEF Spec, StrandedByFailure
================================================================================
