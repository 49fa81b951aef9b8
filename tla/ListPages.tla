------------------------------ MODULE ListPages ------------------------------
(***************************************************************************)
(* The three pages of the console that list rows under a filter: All Jobs, *)
(* Ready to Apply and Run Details.  Every change of the parameters issues  *)
(* a load, nothing cancels an earlier one, and answers arrive in any       *)
(* order; an action awaits its request and reloads with the parameters of  *)
(* the moment it was clicked.  Rows change only by the page's own requests. *)
(***************************************************************************)
EXTENDS Integers, Sequences, FiniteSets, SequencesExt

CONSTANTS
  Entries,             \* the jobs, or the items of a run
  Rank,                \* what they are sorted by; equal ranks come in any order
  PerPage, AllPerPage, \* rows of a page, of a request of the expanded list
  MaxInputs,           \* clicks that issue a request, a bound of the model
  MaxFailures          \* requests that fail, a bound of the model

(* What the pages assume of their constants.                               *)
ListConstants ==
  /\ IsFiniteSet(Entries) /\ Rank \in [Entries -> Nat]
  /\ PerPage \in Nat \ {0} /\ AllPerPage \in Nat \ {0}
  /\ MaxInputs \in Nat /\ MaxFailures \in Nat

VARIABLES
  screen,    \* the page: "jobs", "ready" or "run"
  store,     \* user_status of each job, or outcome of each item
  view,      \* the parameters: filter, page, all (the expanded list)
  shown,     \* the rows on the screen, with their total, view and load
  selected,  \* the jobs that are ticked
  loading,   \* a skeleton hides the rows
  lost,      \* since the last load was issued an update was stored whose answer was lost
  loads,     \* loads in flight
  updates,   \* status requests in flight
  issued,    \* loads issued so far
  inputs, failures

vars == <<screen, store, view, shown, selected, loading, lost, loads, updates,
          issued, inputs, failures>>

UserStatus == {"NEW", "SAVED", "APPLIED", "ARCHIVED"}
Outcome    == {"inserted", "duplicate"}
Unknown    == -1

(* The filter stands for every parameter that sends the page back to one:  *)
(* the status on All Jobs, the direction on Ready to Apply, the outcome on *)
(* Run Details, whose items cannot be ticked.                              *)
JobsScreen ==
  [filters |-> {"ALL"} \cup UserStatus, first |-> "ALL", expands |-> TRUE,
   statuses |-> UserStatus, bulk |-> {"SAVED", "ARCHIVED"}]
ReadyScreen ==
  [filters |-> {"desc", "asc"}, first |-> "desc", expands |-> FALSE,
   statuses |-> UserStatus, bulk |-> {"SAVED", "ARCHIVED", "APPLIED"}]
RunScreen ==
  [filters |-> {"ALL"} \cup Outcome, first |-> "ALL", expands |-> FALSE,
   statuses |-> Outcome, bulk |-> {}]

Screens == [jobs |-> JobsScreen, ready |-> ReadyScreen, run |-> RunScreen]

View == [filter : Screens[screen].filters, page : Nat \ {0}, all : BOOLEAN]

----------------------------------------------------------------------------
(* The list endpoints: a filtered, ordered list, cut into pages.           *)

InFilter(v, e) == v.filter \in {"ALL", store[e]}
StillNew(e)    == store[e] = "NEW"

Matches(v, e) == IF screen = "ready" THEN StillNew(e) ELSE InFilter(v, e)

InOrder(v, a, b) == IF v.filter = "asc" THEN Rank[a] <= Rank[b] ELSE Rank[a] >= Rank[b]

(* ORDER BY a column that is not unique.                                   *)
Orders(v) ==
  {o \in SetToSeqs({e \in Entries : Matches(v, e)}) :
    \A i, j \in DOMAIN o : i < j => InOrder(v, o[i], o[j])}

PageSize(v) == IF v.all THEN AllPerPage ELSE PerPage

Least(a, b) == IF a < b THEN a ELSE b

Page(v, n, order) ==
  LET rows == SubSeq(order, (n - 1) * PageSize(v) + 1, Least(n * PageSize(v), Len(order)))
  IN  [i \in DOMAIN rows |-> [entry |-> rows[i], status |-> store[rows[i]]]]

Pages(total, size) == IF total <= size THEN 1 ELSE (total + size - 1) \div size

----------------------------------------------------------------------------
(* load: one request, or for the expanded list a first one that tells the  *)
(* total and then the remaining ones, all at once.                         *)

(* by: an effect of the parameters, or an action that awaited its request. *)
Load(n, v, by) ==
  [serial |-> n, view |-> v, by |-> by, total |-> Unknown, pages |-> <<>>]

Needed(l) == IF l.view.all THEN 1..Pages(l.total, AllPerPage) ELSE {l.view.page}

Complete(l) == l.total # Unknown /\ DOMAIN l.pages = Needed(l)

(* The rows of a load, page after page.                                    *)
Rows(l) ==
  IF l.view.all THEN FlattenSeq([n \in 1..Pages(l.total, AllPerPage) |-> l.pages[n]])
  ELSE l.pages[l.view.page]

(* Loads are issued one after the other, with the views given.             *)
Issue(views, by) ==
  /\ loads' = loads \cup {Load(issued + i, views[i], by) : i \in DOMAIN views}
  /\ issued' = issued + Len(views) /\ loading' = TRUE /\ lost' = FALSE

Init ==
  /\ screen \in DOMAIN Screens
  /\ store \in [Entries -> Screens[screen].statuses]
  /\ view = [filter |-> Screens[screen].first, page |-> 1, all |-> FALSE]
  /\ shown = [rows |-> <<>>, total |-> 0, view |-> view, serial |-> 0, by |-> "effect"]
  /\ selected = {} /\ lost = FALSE /\ loading = TRUE
  /\ loads = {Load(1, view, "effect")} /\ updates = {} /\ issued = 1
  /\ inputs = 0 /\ failures = 0

Replaced(l, m) == loads' = (loads \ {l}) \cup {m}

AnswerFirst(l) ==
  /\ l.total = Unknown
  /\ \E order \in Orders(l.view) :
       LET n == IF l.view.all THEN 1 ELSE l.view.page
       IN  Replaced(l, [l EXCEPT !.total = Len(order),
                                 !.pages = [k \in {n} |-> Page(l.view, n, order)]])
  /\ UNCHANGED <<screen, store, view, shown, selected, loading, lost, updates,
                 issued, inputs, failures>>

AnswerRest(l) ==
  /\ l.total # Unknown
  /\ \E n \in Needed(l) \ DOMAIN l.pages, order \in Orders(l.view) :
       Replaced(l, [l EXCEPT !.pages =
                     [k \in DOMAIN l.pages \cup {n} |->
                       IF k = n THEN Page(l.view, n, order) ELSE l.pages[k]]])
  /\ UNCHANGED <<screen, store, view, shown, selected, loading, lost, updates,
                 issued, inputs, failures>>

(* The skeleton goes with the first load that ends.                        *)
Arrive(l) ==
  /\ Complete(l) /\ loads' = loads \ {l} /\ loading' = FALSE
  /\ shown' = [rows |-> Rows(l), total |-> l.total, view |-> l.view,
                serial |-> l.serial, by |-> l.by]
  /\ UNCHANGED <<screen, store, view, selected, lost, updates, issued, inputs, failures>>

LoadFails(l) ==
  /\ failures < MaxFailures /\ failures' = failures + 1
  /\ loads' = loads \ {l} /\ loading' = FALSE
  /\ UNCHANGED <<screen, store, view, shown, selected, lost, updates, issued, inputs>>

----------------------------------------------------------------------------
(* The operator.                                                           *)

Input == inputs < MaxInputs /\ inputs' = inputs + 1

\* Mutant: the page is kept when a filter changes.
ChangeFilterKeepsPage(f) ==
  /\ Input /\ f # view.filter
  /\ view' = [view EXCEPT !.filter = f, !.page = 1]
  /\ Issue(<<[view EXCEPT !.filter = f]>>, "effect")
  /\ UNCHANGED <<screen, store, shown, selected, updates, failures>>

(* The first effect loads the old page under the new filter, the second    *)
(* one resets the page, which loads again.                                 *)
ChangeFilter(f) ==
  /\ Input /\ f # view.filter
  /\ view' = [view EXCEPT !.filter = f, !.page = 1]
  /\ Issue(IF view.page = 1 THEN <<view'>> ELSE <<[view EXCEPT !.filter = f], view'>>,
           "effect")
  /\ UNCHANGED <<screen, store, shown, selected, updates, failures>>

TurnPage(n) ==
  /\ Input /\ ~view.all /\ n \in 1..Pages(shown.total, PerPage) \cup 1..view.page
  /\ n \in {view.page - 1, view.page + 1}
  /\ view' = [view EXCEPT !.page = n] /\ Issue(<<view'>>, "effect")
  /\ UNCHANGED <<screen, store, shown, selected, updates, failures>>

ToggleExpanded ==
  /\ Input /\ Screens[screen].expands
  /\ view' = [view EXCEPT !.all = ~@, !.page = 1] /\ Issue(<<view'>>, "effect")
  /\ selected' = {} /\ UNCHANGED <<screen, store, shown, updates, failures>>

Listed == {r.entry : r \in ToSet(shown.rows)}

(* The table is on the screen unless a load hides it.                      *)
Ticking(s) ==
  /\ ~loading /\ screen # "run" /\ selected' = s
  /\ UNCHANGED <<screen, store, view, shown, loading, lost, loads, updates,
                 issued, inputs, failures>>

Toggle(e) ==
  /\ e \in Listed
  /\ Ticking(IF e \in selected THEN selected \ {e} ELSE selected \cup {e})

ToggleAll == Ticking(IF Listed \subseteq selected THEN {} ELSE Listed)

Clear ==
  /\ selected # {} /\ selected' = {}
  /\ UNCHANGED <<screen, store, view, shown, loading, lost, loads, updates,
                 issued, inputs, failures>>

Send(ids, status, bulk) ==
  /\ Input
  /\ updates' = updates \cup
       {[click |-> inputs, ids |-> ids, status |-> status, bulk |-> bulk,
         view |-> view, stored |-> FALSE]}
  /\ UNCHANGED <<screen, store, view, shown, selected, loading, lost, loads,
                 issued, failures>>

(* The buttons of a row depend on the status it shows.                     *)
HandleAction(r) ==
  /\ ~loading /\ screen # "run"
  /\ \/ r.status \in {"NEW", "ARCHIVED"} /\ Send({r.entry}, "SAVED", FALSE)
     \/ r.status \in {"NEW", "SAVED"} /\ Send({r.entry}, "ARCHIVED", FALSE)

(* The bulk buttons stay when a load hides the rows.                       *)
HandleBulk(status) ==
  selected # {} /\ status \in Screens[screen].bulk /\ Send(selected, status, TRUE)

UpdateStored(u) ==
  /\ ~u.stored
  /\ store' = [e \in Entries |-> IF e \in u.ids THEN u.status ELSE store[e]]
  /\ updates' = (updates \ {u}) \cup {[u EXCEPT !.stored = TRUE]}
  /\ UNCHANGED <<screen, view, shown, selected, loading, lost, loads, issued,
                 inputs, failures>>

(* Then the page reloads, with the parameters the click was made under.    *)
UpdateReturned(u) ==
  /\ u.stored /\ updates' = updates \ {u}
  /\ selected' = IF u.bulk THEN {} ELSE selected
  /\ Issue(<<u.view>>, "action")
  /\ UNCHANGED <<screen, store, view, shown, inputs, failures>>

(* The request was refused, or its answer lost: an error and no reload.    *)
(* The error is a banner, which the operator can dismiss: no step of the   *)
(* page depends on it, and no property here excuses a page that shows one. *)
UpdateFailed(u) ==
  /\ failures < MaxFailures /\ failures' = failures + 1
  /\ updates' = updates \ {u} /\ lost' = (lost \/ u.stored)
  /\ UNCHANGED <<screen, store, view, shown, selected, loading, loads, issued, inputs>>

Next ==
  \/ \E l \in loads : AnswerFirst(l) \/ AnswerRest(l) \/ Arrive(l) \/ LoadFails(l)
  \/ \E f \in Screens[screen].filters : ChangeFilter(f)
  \/ \E n \in 1..(Cardinality(Entries) + 1) : TurnPage(n)
  \/ ToggleExpanded \/ ToggleAll \/ Clear
  \/ \E e \in Entries : Toggle(e)
  \/ \E r \in ToSet(shown.rows) : HandleAction(r)
  \/ \E s \in UserStatus : HandleBulk(s)
  \/ \E u \in updates : UpdateStored(u) \/ UpdateReturned(u) \/ UpdateFailed(u)

Spec == Init /\ [][Next]_vars

----------------------------------------------------------------------------

Row == [entry : Entries, status : Screens[screen].statuses]

TypeOK ==
  /\ screen \in DOMAIN Screens /\ store \in [Entries -> Screens[screen].statuses]
  /\ view \in View /\ (view.all => view.page = 1)
  /\ shown.rows \in Seq(Row) /\ shown.total \in Nat
  /\ shown.view \in View /\ shown.by \in {"effect", "action"}
  /\ selected \subseteq Entries /\ loading \in BOOLEAN /\ lost \in BOOLEAN
  /\ \A l \in loads : l.serial \in 1..issued /\ l.view \in View
  /\ \A u \in updates : u.ids \subseteq Entries /\ u.status \in UserStatus
  /\ inputs \in 0..MaxInputs /\ failures \in 0..MaxFailures

(* Nothing is in flight, the last load arrived last, the rows are not      *)
(* those an action reloaded that was clicked under other parameters, and   *)
(* no update was stored behind the page's back.                            *)
Settled ==
  /\ loads = {} /\ updates = {} /\ ~lost
  /\ shown.serial = issued /\ (shown.by = "action" => shown.view = view)

(* A settled page shows what the endpoint would answer now, with the       *)
(* statuses of now: every change of a parameter and every update is        *)
(* followed by a load that was answered after it.                          *)
RowsCurrent ==
  Settled =>
    LET now == {e \in Entries : Matches(view, e)}
    IN  /\ \A r \in ToSet(shown.rows) : r.entry \in now /\ r.status = store[r.entry]
        /\ shown.total = Cardinality(now)
        /\ ~view.all => \E order \in Orders(view) : shown.rows = Page(view, view.page, order)
        /\ view.all => Len(shown.rows) = Cardinality(now)
=============================================================================
