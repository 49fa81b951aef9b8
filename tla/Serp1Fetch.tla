------------------------------ MODULE Serp1Fetch -----------------------------
(***************************************************************************)
(* One fetch of the SERP1 discovery connector (DataForSEO Google Jobs): a  *)
(* task is posted, tasks_ready is polled a bounded number of times, the    *)
(* result is read.  The provider finishes the task at any moment; it is    *)
(* external, modelled by the answers the connector tells apart.  Time      *)
(* passes in whole units, during requests and between polls.               *)
(***************************************************************************)
EXTENDS Integers, Sequences, FiniteSetsExt, Selection

CONSTANTS
  Items,            \* well-formed items of a result
  Junk,             \* an item that is no object
  Absent,           \* a missing parameter
  Numbers,          \* values of the polling parameters of a request
  DefaultAttempts, DefaultInterval, DefaultTimeout,
  MinInterval, MinTimeout,   \* 0.1 s and 1 s in the code
  MaxRequestTime    \* how long one HTTP request can take: 30 s in the code

(* What the fetch assumes of its constants.                                 *)
Serp1Constants ==
  /\ {DefaultAttempts, DefaultInterval, DefaultTimeout, MinInterval, MinTimeout}
       \subseteq Nat \ {0}
  /\ Numbers \subseteq Int /\ Absent \notin Int
  /\ Junk \notin Items /\ MaxRequestTime \in Nat

VARIABLES
  asked,     \* the parameters of the fetch
  task,      \* the provider's task: "none", "queued", "ready" or "failed"
  answer,    \* the items of the task's result
  phase,     \* "idle", "submitting", "polling", "reading" or "done"
  attempt,   \* the poll the loop is at
  now,       \* time since the polling began
  lastPoll,  \* what the last poll saw of the task, "none" before it
  items,     \* the raw jobs collected
  failure    \* the FetchResult's error, "none" when there is none

vars ==
  <<asked, task, answer, phase, attempt, now, lastPoll, items, failure>>

Params ==
  [login : BOOLEAN, query : BOOLEAN, location : BOOLEAN, language : BOOLEAN,
   attempts : Numbers \cup {Absent}, interval : Numbers \cup {Absent},
   timeout : Numbers \cup {Absent}]

(* What is required of a call, and what is said when it is missing.        *)
Required == <<"login", "query", "location", "language">>
Refusal  == <<"requires login", "requires query", "requires location",
              "requires language">>

Failures ==
  {Refusal[n] : n \in DOMAIN Refusal} \cup
  {"http", "task_post failed", "readiness timeout", "advanced-get failed",
   "expected items"}

----------------------------------------------------------------------------
(* The parameters: location_name or location_code, language_name or        *)
(* language_code, each from the call or the configuration.                 *)

Missing(a) == {n \in DOMAIN Required : ~a[Required[n]]}

Coerce(value, default) == IF value = Absent THEN default ELSE value

AtLeast(low, value, default) ==
  LET n == Coerce(value, default) IN IF n < low THEN low ELSE n

MaxAttempts == AtLeast(1, asked.attempts, DefaultAttempts)
Interval    == AtLeast(MinInterval, asked.interval, DefaultInterval)
Timeout     == AtLeast(MinTimeout, asked.timeout, DefaultTimeout)

----------------------------------------------------------------------------

NoParams ==
  [login |-> FALSE, query |-> FALSE, location |-> FALSE, language |-> FALSE,
   attempts |-> Absent, interval |-> Absent, timeout |-> Absent]

Init ==
  /\ asked = NoParams
  /\ task = "none" /\ answer = <<>> /\ phase = "idle" /\ attempt = 1 /\ now = 0
  /\ lastPoll = "none" /\ items = <<>> /\ failure = "none"

Fail(f) ==
  phase' = "done" /\ failure' = f /\ UNCHANGED <<asked, items>>

(* The first parameter found missing is the error.                         *)
FetchRawJobs ==
  /\ phase = "idle" /\ asked' \in Params
  /\ IF Missing(asked') = {}
     THEN phase' = "submitting" /\ UNCHANGED failure
     ELSE phase' = "done" /\ failure' = Refusal[Min(Missing(asked'))]
  /\ UNCHANGED <<task, answer, attempt, now, lastPoll, items>>

(* The provider takes the task or refuses it; an answer that is lost or a  *)
(* status error may have left it a task nobody will read.                  *)
TaskTaken ==
  /\ phase = "submitting" /\ task' = "queued" /\ phase' = "polling"
  /\ UNCHANGED <<asked, answer, attempt, now, lastPoll, items, failure>>

TaskRefused ==
  /\ phase = "submitting" /\ Fail("task_post failed")
  /\ UNCHANGED <<task, answer, attempt, now, lastPoll>>

TaskPostLost ==
  /\ phase = "submitting" /\ Fail("http") /\ task' \in {"none", "queued"}
  /\ UNCHANGED <<answer, attempt, now, lastPoll>>

ProviderFinishes ==
  /\ task = "queued" /\ phase # "done"
  /\ \/ task' = "ready" /\ answer' \in {<<>>} \cup {<<i, Junk>> : i \in Items}
     \/ task' = "failed" /\ UNCHANGED answer
  /\ UNCHANGED <<asked, phase, attempt, now, lastPoll, items, failure>>

(* The bound on time is looked at before each request only.                *)
PollOutOfTime ==
  /\ phase = "polling" /\ now > Timeout /\ Fail("readiness timeout")
  /\ UNCHANGED <<task, answer, attempt, now, lastPoll>>

\* Mutant: every attempt is made, whatever the time.
PollingWhatever == phase = "polling"

Polling == phase = "polling" /\ now <= Timeout

\* Mutant: any task of the answer counts, not the one posted.
PollSeesAny ==
  /\ Polling /\ phase' = "reading" /\ lastPoll' = task
  /\ \E t \in 0..MaxRequestTime : now' = now + t
  /\ UNCHANGED <<asked, task, answer, attempt, items, failure>>

(* A failed task may be listed as ready too; a ready one is listed.        *)
PollSeesReady ==
  /\ Polling /\ task \in {"ready", "failed"}
  /\ phase' = "reading" /\ lastPoll' = task
  /\ \E t \in 0..MaxRequestTime : now' = now + t
  /\ UNCHANGED <<asked, task, answer, attempt, items, failure>>

PollSeesNothing ==
  /\ Polling /\ task # "ready" /\ lastPoll' = task
  /\ \E t \in 0..MaxRequestTime :
       IF attempt < MaxAttempts
       THEN now' = now + t + Interval /\ attempt' = attempt + 1
            /\ UNCHANGED <<asked, phase, items, failure>>
       ELSE now' = now + t /\ UNCHANGED attempt /\ Fail("readiness timeout")
  /\ UNCHANGED <<task, answer>>

(* A refused poll is reported as a timeout whatever the task's state.      *)
PollRefused ==
  /\ Polling /\ Fail("readiness timeout") /\ lastPoll' = "refused"
  /\ UNCHANGED <<task, answer, attempt, now>>

RequestBroken ==
  /\ Polling \/ phase = "reading"
  /\ Fail("http")
  /\ UNCHANGED <<task, answer, attempt, now, lastPoll>>

ReadRefused ==
  /\ phase = "reading" /\ Fail("advanced-get failed")
  /\ UNCHANGED <<task, answer, attempt, now, lastPoll>>

(* The first result of a task that succeeded, or an empty one; entries     *)
(* that are no object are passed over.                                     *)
ResultItems ==
  IF task = "ready" THEN Selected(answer, {n \in DOMAIN answer : answer[n] # Junk})
  ELSE <<>>

ReadResult ==
  /\ phase = "reading" /\ phase' = "done" /\ items' = ResultItems
  /\ UNCHANGED <<asked, task, answer, attempt, now, lastPoll, failure>>

(* A result without a list of items.                                       *)
ReadNoList ==
  /\ phase = "reading" /\ Fail("expected items")
  /\ UNCHANGED <<task, answer, attempt, now, lastPoll>>

Next ==
  \/ FetchRawJobs \/ TaskTaken \/ TaskRefused \/ TaskPostLost \/ ProviderFinishes
  \/ PollOutOfTime \/ PollSeesReady \/ PollSeesNothing \/ PollRefused
  \/ RequestBroken \/ ReadRefused \/ ReadResult \/ ReadNoList

Spec == Init /\ [][Next]_vars

----------------------------------------------------------------------------

TypeOK ==
  /\ asked \in Params
  /\ task \in {"none", "queued", "ready", "failed"}
  /\ answer \in Seq(Items \cup {Junk}) /\ items \in Seq(Items)
  /\ phase \in {"idle", "submitting", "polling", "reading", "done"}
  /\ attempt \in 1..MaxAttempts /\ now \in Nat
  /\ lastPoll \in {"none", "refused", "queued", "ready", "failed"}
  /\ failure \in Failures \cup {"none"}

(* The polling is bounded: by the attempts, and in time by the timeout and *)
(* one request and one pause more, since a poll begun in time is awaited.  *)
PollingBounded ==
  /\ attempt <= MaxAttempts
  /\ now <= Timeout + MaxRequestTime + Interval

(* A fetch reports a readiness timeout only when it has used up its        *)
(* attempts or its time, or the provider refused a poll, and never after a *)
(* poll whose answer listed the task.                                      *)
TimeoutIsReal ==
  failure = "readiness timeout" =>
    \/ lastPoll = "refused"
    \/ lastPoll # "ready" /\ (attempt = MaxAttempts \/ now > Timeout)

(* A fetch that succeeds polled until its task was finished and, when the  *)
(* task had succeeded, returns each object of its result.                  *)
SuccessIsTheAnswer ==
  phase = "done" /\ failure = "none" =>
    /\ lastPoll = task /\ task \in {"ready", "failed"}
    /\ task = "ready" => \A i \in Items :
         (\E n \in DOMAIN items : items[n] = i) <=> \E n \in DOMAIN answer : answer[n] = i
=============================================================================
