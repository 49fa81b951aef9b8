---------------------------- MODULE DiscoveryFetch ---------------------------
(***************************************************************************)
(* run_discovery: the connector is chosen by name, its feature flag is     *)
(* looked at, it fetches, and its FetchResult becomes the outcome of the   *)
(* run.  The two connectors are Agg1Fetch and Serp1Fetch.                  *)
(***************************************************************************)
EXTENDS Integers, Sequences, SequencesExt

CONSTANTS
  Postings, Items, Junk, Absent, MaxChanges,
  MaxPerPage, DefaultPerPage, DefaultMaxPages, DefaultMaxResults,
  DefaultAttempts, DefaultInterval, DefaultTimeout, MinInterval, MinTimeout,
  MaxRequestTime,
  PageNumbers, PollNumbers   \* values of the numeric parameters of each

VARIABLES
  connector,   \* the task's argument
  enabled,     \* the connectors whose feature flag is on
  run,         \* status of the run
  fetched,     \* its raw jobs, handed to _run_discovery_persist
  request, listing, atStart, changes, withdrawn, state, page, raw, error,
  asked, task, answer, phase, attempt, now, lastPoll, items, failure

agg1  == <<request, listing, atStart, changes, withdrawn, state, page, raw, error>>
serp1 == <<asked, task, answer, phase, attempt, now, lastPoll, items, failure>>
vars  == <<connector, enabled, run, fetched, agg1, serp1>>

Agg1  == INSTANCE Agg1Fetch WITH Numbers <- PageNumbers
Serp1 == INSTANCE Serp1Fetch WITH Numbers <- PollNumbers

ASSUME DiscoveryAssumption == Agg1!Agg1Constants /\ Serp1!Serp1Constants

Connectors == {"agg1", "serp1", "unknown"}

Init ==
  /\ connector \in Connectors /\ enabled \in SUBSET {"agg1", "serp1"}
  /\ run = "RUNNING" /\ fetched = <<>>
  /\ Agg1!Init /\ Serp1!Init

(* A connector that is switched off skips the run; an unknown one fails it. *)
NotDispatched ==
  /\ run = "RUNNING" /\ connector \notin enabled
  /\ run' = IF connector = "unknown" THEN "FAILED" ELSE "SKIPPED"
  /\ UNCHANGED <<connector, enabled, fetched, agg1, serp1>>

Dispatched(c) == run = "RUNNING" /\ connector = c /\ c \in enabled

Agg1Step ==
  /\ Dispatched("agg1") /\ Agg1!Next
  /\ UNCHANGED <<connector, enabled, run, fetched, serp1>>

Serp1Step ==
  /\ Dispatched("serp1") /\ Serp1!Next
  /\ UNCHANGED <<connector, enabled, run, fetched, agg1>>

Returned ==
  \/ Dispatched("agg1") /\ state = "done"
  \/ Dispatched("serp1") /\ phase = "done"

\* Mutant: whatever was fetched is persisted.
PersistWhatever ==
  /\ Returned
  /\ run' = "SUCCESS"
  /\ fetched' = IF connector = "agg1" THEN raw ELSE items
  /\ UNCHANGED <<connector, enabled, agg1, serp1>>

(* _run_discovery_persist: an error fails the run, whatever was fetched.   *)
Persist ==
  LET failed == IF connector = "agg1" THEN error # "none" ELSE failure # "none"
  IN  /\ Returned
      /\ run' = IF failed THEN "FAILED" ELSE "SUCCESS"
      /\ fetched' = IF failed THEN <<>> ELSE IF connector = "agg1" THEN raw ELSE items
      /\ UNCHANGED <<connector, enabled, agg1, serp1>>

Next == NotDispatched \/ Agg1Step \/ Serp1Step \/ Persist

Spec == Init /\ [][Next]_vars

----------------------------------------------------------------------------

TypeOK ==
  /\ connector \in Connectors /\ enabled \subseteq {"agg1", "serp1"}
  /\ run \in {"RUNNING", "SKIPPED", "FAILED", "SUCCESS"}
  /\ fetched \in Seq(Postings \cup Items)
  /\ Agg1!TypeOK /\ Serp1!TypeOK

(* An AGG-1 posting is skipped only when another was withdrawn meanwhile.  *)
NoPostingSkipped == Agg1!NoPostingSkipped

(* An AGG-1 fetch that ends below its limits collected the whole list.     *)
CompleteBelowLimits == Agg1!CompleteBelowLimits

(* SERP1's polling is bounded in attempts and in time.                     *)
PollingBounded == Serp1!PollingBounded

(* SERP1 reports a readiness timeout for a task that was not ready.        *)
TimeoutIsReal == Serp1!TimeoutIsReal

(* SERP1 succeeds with the result of the task it posted.                   *)
SuccessIsTheAnswer == Serp1!SuccessIsTheAnswer

(* A SUCCESS run that fetched nothing met an empty source: AGG-1 listed    *)
(* nothing that stayed listed, or SERP1's task failed or found nothing; a  *)
(* failed request on the way never ends as an empty success.               *)
EmptySuccess ==
  run = "SUCCESS" /\ fetched = <<>> =>
    IF connector = "agg1" THEN ToSet(atStart) \subseteq withdrawn
    ELSE task = "failed" \/ (task = "ready" /\ \A i \in ToSet(answer) : i = Junk)
=============================================================================
