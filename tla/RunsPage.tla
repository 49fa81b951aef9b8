------------------------------- MODULE RunsPage ------------------------------
(***************************************************************************)
(* The Runs page of the console: its forms create runs, it polls while a   *)
(* run it shows is RUNNING, and the answers of its loads arrive in any     *)
(* order.  The runs end by themselves, as ScrapeRuns has them do; they are *)
(* no more than the 25 that one answer holds.                              *)
(***************************************************************************)
EXTENDS Integers, Sequences, SequencesExt

CONSTANTS
  Runs,         \* runs the page can create
  MaxInFlight,  \* polls are no more once so many loads are out, a bound
  MaxFaults     \* requests that fail, a bound

(* What the page assumes of its constants.                                 *)
RunsPageConstants ==
  /\ MaxInFlight \in Nat \ {0} /\ MaxFaults \in Nat
  /\ Runs \cap {"none", "sent", "loading"} = {}

VARIABLES
  runs,       \* status of each run in the database, "none" before it exists
  displayed,  \* what the page shows of each
  offered,    \* the sources a load has brought: the source form's options
  requests,   \* the request of each form: "none", "sent", a run, "loading"
  calls,      \* loads in flight in the order they were issued
  late,       \* the rows come from a load that a later one had overtaken
  failed,     \* the page shows an error
  faults

vars == <<runs, displayed, offered, requests, calls, late, failed, faults>>

(* The page tells RUNNING from the rest; the JobSpy, discovery and board   *)
(* forms do the same, each with its own state.                             *)
Status == {"none", "RUNNING", "ended"}
Forms  == {"legacy", "source"}

NoAnswer == <<>>
Call(by) == [by |-> by, answer |-> NoAnswer, overtaken |-> FALSE]

Init ==
  /\ runs \in [Runs -> {"none", "RUNNING"} ]
  /\ displayed = [r \in Runs |-> "none"] /\ offered = FALSE
  /\ requests = [f \in Forms |-> "none"]
  /\ calls = <<Call("mount")>> /\ late = FALSE /\ failed = FALSE /\ faults = 0

HasRunning == \E r \in Runs : displayed[r] = "RUNNING"

(* load clears the error and asks for the runs and the sources together.   *)
Load(by) == calls' = Append(calls, Call(by)) /\ failed' = FALSE

\* Mutant: the interval ends with the first load that fails.
PollUntilError ==
  /\ HasRunning /\ ~failed /\ Len(calls) < MaxInFlight /\ Load("interval")
  /\ UNCHANGED <<runs, displayed, offered, requests, late, faults>>

(* Every two seconds, whether the load before has ended or not.            *)
Poll ==
  /\ HasRunning /\ Len(calls) < MaxInFlight /\ Load("interval")
  /\ UNCHANGED <<runs, displayed, offered, requests, late, faults>>

----------------------------------------------------------------------------
(* The forms: each awaits its request and then a load, its button disabled. *)

Launchable(f) == requests[f] = "none" /\ (f = "source" => offered)

Trigger(f) ==
  /\ Launchable(f)
  /\ requests' = [requests EXCEPT ![f] = "sent"] /\ failed' = FALSE
  /\ UNCHANGED <<runs, displayed, offered, calls, late, faults>>

RunCreated(f, r) ==
  /\ requests[f] = "sent" /\ runs[r] = "none"
  /\ runs' = [runs EXCEPT ![r] = "RUNNING"]
  /\ requests' = [requests EXCEPT ![f] = r]
  /\ UNCHANGED <<displayed, offered, calls, late, failed, faults>>

\* Mutant: a request that returned waits for the next poll.
TriggerReturnedNoLoad(f) ==
  /\ requests[f] \in Runs
  /\ requests' = [requests EXCEPT ![f] = "none"]
  /\ UNCHANGED <<runs, displayed, offered, calls, late, failed, faults>>

TriggerReturned(f) ==
  /\ requests[f] \in Runs /\ Load(f)
  /\ requests' = [requests EXCEPT ![f] = "loading"]
  /\ UNCHANGED <<runs, displayed, offered, late, faults>>

Fault == faults < MaxFaults /\ faults' = faults + 1 /\ failed' = TRUE

(* Refused, or its answer lost after the run was created.                  *)
TriggerFailed(f) ==
  /\ requests[f] \in {"sent"} \cup Runs /\ Fault
  /\ requests' = [requests EXCEPT ![f] = "none"]
  /\ UNCHANGED <<runs, displayed, offered, calls, late>>

RunEnds(r) ==
  /\ runs[r] = "RUNNING" /\ runs' = [runs EXCEPT ![r] = "ended"]
  /\ UNCHANGED <<displayed, offered, requests, calls, late, failed, faults>>

----------------------------------------------------------------------------

Answer(i) ==
  /\ calls[i].answer = NoAnswer /\ calls' = [calls EXCEPT ![i].answer = runs]
  /\ UNCHANGED <<runs, displayed, offered, requests, late, failed, faults>>

\* Mutant: a form is not released by the load it awaited.
ReleasedNone(by) == requests

(* A load that ends releases the form that awaited it.                     *)
Released(by) == [f \in Forms |-> IF f = by THEN "none" ELSE requests[f]]

Arrive(i) ==
  /\ calls[i].answer # NoAnswer
  /\ displayed' = calls[i].answer /\ offered' = TRUE /\ late' = calls[i].overtaken
  /\ requests' = Released(calls[i].by)
  /\ calls' = RemoveAt([k \in DOMAIN calls |->
                         [calls[k] EXCEPT !.overtaken = @ \/ k < i]], i)
  /\ UNCHANGED <<runs, failed, faults>>

LoadFails(i) ==
  /\ Fault /\ requests' = Released(calls[i].by) /\ calls' = RemoveAt(calls, i)
  /\ UNCHANGED <<runs, displayed, offered, late>>

Answered == \E i \in DOMAIN calls : Answer(i)
Arrived  == \E i \in DOMAIN calls : Arrive(i)

Next ==
  \/ Poll \/ Answered \/ Arrived
  \/ \E f \in Forms : Trigger(f) \/ TriggerReturned(f) \/ TriggerFailed(f)
  \/ \E f \in Forms, r \in Runs : RunCreated(f, r)
  \/ \E r \in Runs : RunEnds(r)
  \/ \E i \in DOMAIN calls : LoadFails(i)

(* The interval fires, the API answers, and answers reach the page.        *)
Fairness == WF_vars(Poll) /\ WF_vars(Answered) /\ WF_vars(Arrived)

Spec == Init /\ [][Next]_vars /\ Fairness

----------------------------------------------------------------------------

TypeOK ==
  /\ runs \in [Runs -> Status] /\ displayed \in [Runs -> Status]
  /\ offered \in BOOLEAN /\ late \in BOOLEAN /\ failed \in BOOLEAN
  /\ requests \in [Forms -> {"none", "sent", "loading"} \cup Runs]
  /\ \A i \in DOMAIN calls :
       /\ calls[i].by \in Forms \cup {"mount", "interval"}
       /\ calls[i].answer = NoAnswer \/ calls[i].answer \in [Runs -> Status]
  /\ \A f \in Forms :
       requests[f] = "loading" <=> \E i \in DOMAIN calls : calls[i].by = f
  /\ faults \in 0..MaxFaults

(* A run that the page shows as RUNNING and that has ended is not shown as *)
(* RUNNING for ever: the page polls until the end arrives, whatever polls  *)
(* fail and in whatever order their answers come.                          *)
EndShown ==
  \A r \in Runs :
    displayed[r] = "RUNNING" /\ runs[r] = "ended" ~> displayed[r] # "RUNNING"

(* Once the page has stopped polling and nothing is in flight, it shows    *)
(* every run with the status it ended in, the ones it has just created     *)
(* among them, unless a request failed or the rows come from a load that a *)
(* later one had overtaken.                                                *)
RunsCurrent ==
  calls = <<>> /\ ~HasRunning /\ ~late /\ ~failed
    /\ (\A f \in Forms : requests[f] = "none")
  => displayed = runs
=============================================================================
