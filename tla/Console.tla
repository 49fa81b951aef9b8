------------------------------- MODULE Console -------------------------------
(***************************************************************************)
(* The operator console: one page at a time, a list page or the Runs page. *)
(* A page keeps its state to itself and drops it when it is left, so that  *)
(* each is followed from the moment it is opened.                          *)
(***************************************************************************)
EXTENDS Integers, Sequences

CONSTANTS
  Entries, Rank, PerPage, AllPerPage, MaxInputs, MaxFailures,
  Runs, MaxInFlight, MaxFaults

VARIABLES
  route,   \* the page that is open: "list" or "runs"
  screen, store, view, shown, selected, loading, lost, loads, updates, issued,
  inputs, failures,
  runs, displayed, offered, requests, calls, late, failed, faults

list  == <<screen, store, view, shown, selected, loading, lost, loads, updates,
           issued, inputs, failures>>
table == <<runs, displayed, offered, requests, calls, late, failed, faults>>
vars  == <<route, list, table>>

List  == INSTANCE ListPages
Table == INSTANCE RunsPage

ASSUME ConsoleAssumption == List!ListConstants /\ Table!RunsPageConstants

Closed ==
  [list  |-> /\ screen = "run" /\ store = [e \in Entries |-> "inserted"],
   table |-> runs = [r \in Runs |-> "none"]]

(* The page that is not open is left in one of its first states.           *)
Init ==
  /\ route \in {"list", "runs"} /\ List!Init /\ Table!Init
  /\ route = "runs" => Closed.list
  /\ route = "list" => Closed.table

ListStep == route = "list" /\ List!Next /\ UNCHANGED <<route, table>>
RunsStep == route = "runs" /\ Table!Next /\ UNCHANGED <<route, list>>

Next == ListStep \/ RunsStep

Open(A) == route = "runs" /\ A /\ UNCHANGED <<route, list>>

(* On the Runs page the interval fires and answers arrive.                 *)
Fairness ==
  /\ WF_vars(Open(Table!Poll))
  /\ WF_vars(Open(Table!Answered)) /\ WF_vars(Open(Table!Arrived))

Spec == Init /\ [][Next]_vars /\ Fairness

----------------------------------------------------------------------------

TypeOK == route \in {"list", "runs"} /\ List!TypeOK /\ Table!TypeOK

(* A settled list page shows what its endpoint would answer now.           *)
RowsCurrent == List!RowsCurrent

(* A Runs page at rest shows every run with its end.                       *)
RunsCurrent == Table!RunsCurrent

(* A run shown as RUNNING that has ended is not shown so for ever.         *)
EndShown == Table!EndShown
=============================================================================
