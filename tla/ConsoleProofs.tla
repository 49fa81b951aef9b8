----------------------------- MODULE ConsoleProofs -----------------------------
(***************************************************************************)
(* What the console's pages show once nothing is in flight, for any number *)
(* of loads that overtake one another, failed requests, runs and rows.     *)
(***************************************************************************)
EXTENDS Console, TLAPS, NaturalsInduction, WellFoundedInduction, SequenceTheorems,
        FiniteSetTheorems

--------------------------------------------------------------------------------
(* The Runs page.                                                          *)

\* A call of the Runs page.
CallType ==
  [by : Table!Forms \cup {"mount", "interval"},
   answer : {Table!NoAnswer} \cup [Runs -> Table!Status], overtaken : BOOLEAN]

\* The page's variables, and at most one load for each form that awaits one.
TableTyped ==
  /\ runs \in [Runs -> Table!Status] /\ displayed \in [Runs -> Table!Status]
  /\ offered \in BOOLEAN /\ late \in BOOLEAN /\ failed \in BOOLEAN
  /\ requests \in [Table!Forms -> {"none", "sent", "loading"} \cup Runs]
  /\ calls \in Seq(CallType) /\ faults \in 0..MaxFaults
  /\ \A f \in Table!Forms :
       requests[f] = "loading" <=> \E i \in 1..Len(calls) : calls[i].by = f
  /\ \A i, j \in 1..Len(calls) :
       calls[i].by \in Table!Forms /\ calls[i].by = calls[j].by => i = j

\* What an answer tells was so once.
Past(a) ==
  \A r \in Runs : /\ a[r] # "none" => runs[r] # "none"
                  /\ a[r] = "ended" => runs[r] = "ended"

\* What is on the screen and what is on its way to it was so once.
AllPast ==
  /\ Past(displayed)
  /\ \A i \in 1..Len(calls) : calls[i].answer # Table!NoAnswer => Past(calls[i].answer)

\* A call shows a run when its answer, or the one it will get, has the run.
Sees(c, r) == c.answer = Table!NoAnswer \/ c.answer[r] # "none"

\* A run that exists is or will be on the screen: a form has yet to load, a request
\* failed, a load that shows the run was issued after all that do not, or such a load
\* has arrived and the others are overtaken.
Covered(r) ==
  \/ failed
  \/ \E f \in Table!Forms : requests[f] \in {"sent"} \cup Runs
  \/ \E i \in 1..Len(calls) :
       Sees(calls[i], r) /\ \A k \in 1..Len(calls) : ~Sees(calls[k], r) => k < i
  \/ /\ displayed[r] # "none" \/ late
     /\ \A k \in 1..Len(calls) : ~Sees(calls[k], r) => calls[k].overtaken

\* The strengthening for the Runs page.
TableInv ==
  TableTyped /\ AllPast /\ \A r \in Runs : runs[r] # "none" => Covered(r)

--------------------------------------------------------------------------------
(* Sequences of calls.                                                     *)

\* A sequence that loses one entry keeps the others in order.
LEMMA Removed ==
  ASSUME NEW S, NEW l \in Seq(S), NEW n \in 1..Len(l)
  PROVE  /\ Table!RemoveAt(l, n) \in Seq(S)
         /\ Len(Table!RemoveAt(l, n)) = Len(l) - 1
         /\ \A i \in 1..(Len(l) - 1) :
              Table!RemoveAt(l, n)[i] = l[IF i < n THEN i ELSE i + 1]
  <1>1. /\ Len(l) \in Nat /\ n \in Nat /\ n - 1 \in Nat
        /\ n - 1 <= Len(l) /\ n <= Len(l) /\ \A i \in 1..Len(l) : l[i] \in S
    BY ElementOfSeq
  <1> DEFINE a == SubSeq(l, 1, n - 1)
             b == SubSeq(l, n + 1, Len(l))
             u == a \o b
  <1>2. /\ a \in Seq(S) /\ Len(a) = n - 1 /\ \A m \in 1..(n - 1) : a[m] = l[m]
    <2>1. \A i \in 1..(n - 1) : l[i] \in S
      BY <1>1
    <2>2. /\ a \in Seq(S) /\ Len(a) = IF 1 <= n - 1 THEN (n - 1) - 1 + 1 ELSE 0
          /\ \A i \in 1..((n - 1) - 1 + 1) : a[i] = l[1 + i - 1]
      BY <1>1, <2>1, SubSeqProperties
    <2> HIDE DEF a
    <2>3. QED
      BY <1>1, <2>2
  <1>3. /\ b \in Seq(S) /\ Len(b) = Len(l) - n /\ \A m \in 1..Len(b) : b[m] = l[n + m]
    <2>1. \A i \in (n + 1)..Len(l) : l[i] \in S
      BY <1>1
    <2>2. /\ b \in Seq(S) /\ Len(b) = IF n + 1 <= Len(l) THEN Len(l) - (n + 1) + 1 ELSE 0
          /\ \A i \in 1..(Len(l) - (n + 1) + 1) : b[i] = l[(n + 1) + i - 1]
      BY <1>1, <2>1, SubSeqProperties
    <2> HIDE DEF b
    <2>3. Len(b) = Len(l) - n
      BY <1>1, <2>2
    <2>4. ASSUME NEW m \in 1..Len(b)
          PROVE  b[m] = l[n + m]
      <3>1. m \in 1..(Len(l) - (n + 1) + 1) /\ (n + 1) + m - 1 = n + m
        BY <1>1, <2>3
      <3>2. QED
        BY <2>2, <3>1
    <2>5. QED
      BY <2>2, <2>3, <2>4
  <1> HIDE DEF a, b
  <1>4. /\ u \in Seq(S) /\ Len(u) = Len(a) + Len(b)
        /\ \A i \in 1..(Len(a) + Len(b)) :
            u[i] = IF i <= Len(a) THEN a[i] ELSE b[i - Len(a)]
    BY <1>2, <1>3, ConcatProperties
  <1> HIDE DEF u
  <1>5. ASSUME NEW i \in 1..(Len(l) - 1)
        PROVE  u[i] = l[IF i < n THEN i ELSE i + 1]
    <2>1. i \in 1..(Len(a) + Len(b))
      BY <1>1, <1>2, <1>3
    <2>2. CASE i < n
      <3>1. i <= Len(a) /\ i \in 1..(n - 1)
        BY <1>1, <1>2, <2>2
      <3>2. QED
        BY <1>2, <1>4, <2>1, <2>2, <3>1
    <2>3. CASE ~(i < n)
      <3>1. ~(i <= Len(a)) /\ i - Len(a) \in 1..Len(b) /\ n + (i - Len(a)) = i + 1
        BY <1>1, <1>2, <1>3, <2>3
      <3>2. QED
        BY <1>3, <1>4, <2>1, <2>3, <3>1
    <2>4. QED
      BY <2>2, <2>3
  <1>6. Table!RemoveAt(l, n) = u
    BY DEF Table!RemoveAt, u, a, b
  <1>7. QED
    BY <1>1, <1>2, <1>3, <1>4, <1>5, <1>6

\* u has the entries of l but the n-th, in their order.
Without(u, l, n) ==
  /\ \A i \in 1..Len(u) : \E k \in 1..Len(l) \ {n} :
       u[i] = l[k] /\ k = IF i < n THEN i ELSE i + 1
  /\ \A k \in 1..Len(l) \ {n} : \E i \in 1..Len(u) :
       u[i] = l[k] /\ k = IF i < n THEN i ELSE i + 1

\* Where the entries of a sequence are after one was taken away.
LEMMA Moved ==
  ASSUME NEW S, NEW l \in Seq(S), NEW n \in 1..Len(l), NEW u,
         u = Table!RemoveAt(l, n)
  PROVE  u \in Seq(S) /\ Without(u, l, n)
  <1>1. /\ u \in Seq(S) /\ Len(u) = Len(l) - 1 /\ Len(l) \in Nat
        /\ \A i \in 1..(Len(l) - 1) : u[i] = l[IF i < n THEN i ELSE i + 1]
    <2>1. /\ Table!RemoveAt(l, n) \in Seq(S) /\ Len(Table!RemoveAt(l, n)) = Len(l) - 1
          /\ \A i \in 1..(Len(l) - 1) :
               Table!RemoveAt(l, n)[i] = l[IF i < n THEN i ELSE i + 1]
      BY Removed
    <2>2. Len(l) \in Nat
      OBVIOUS
    <2>3. QED
      BY <2>1, <2>2
  <1>2. ASSUME NEW i \in 1..Len(u)
        PROVE  \E k \in 1..Len(l) \ {n} : u[i] = l[k] /\ k = IF i < n THEN i ELSE i + 1
    <2>1. (IF i < n THEN i ELSE i + 1) \in 1..Len(l) \ {n}
      BY <1>1
    <2>2. QED
      BY <1>1, <2>1
  <1>3. ASSUME NEW k \in 1..Len(l) \ {n}
        PROVE  \E i \in 1..Len(u) : u[i] = l[k] /\ k = IF i < n THEN i ELSE i + 1
    <2>1. CASE k < n
      <3>1. k \in 1..Len(u) /\ k = IF k < n THEN k ELSE k + 1
        BY <1>1, <2>1
      <3>2. QED
        BY <1>1, <3>1
    <2>2. CASE k > n
      <3>1. k - 1 \in 1..Len(u) /\ k = IF k - 1 < n THEN k - 1 ELSE (k - 1) + 1
        BY <1>1, <2>2
      <3>2. QED
        BY <1>1, <3>1
    <2>3. QED
      BY <1>3, <2>1, <2>2
  <1>4. QED
    BY <1>1, <1>2, <1>3 DEF Without
--------------------------------------------------------------------------------
(* The steps of the Runs page.                                             *)

\* A step that leaves the calls alone and runs no faster than they may.
LEMMA CallsKept ==
  ASSUME TableInv, UNCHANGED <<displayed, offered, calls, late>>,
         runs' \in [Runs -> Table!Status], failed' \in BOOLEAN, faults' \in 0..MaxFaults,
         requests' \in [Table!Forms -> {"none", "sent", "loading"} \cup Runs],
         \A f \in Table!Forms : requests'[f] = "loading" <=> requests[f] = "loading",
         \A r \in Runs : /\ runs[r] # "none" => runs'[r] # "none"
                         /\ runs[r] = "ended" => runs'[r] = "ended",
         \A r \in Runs : runs'[r] # "none" =>
           \/ runs[r] # "none" /\ (Covered(r) => Covered(r)')
           \/ \E f \in Table!Forms : requests'[f] \in Runs
  PROVE  TableInv'
  <1>1. TableTyped'
    BY DEF TableInv, TableTyped
  <1>2. AllPast'
    BY DEF TableInv, AllPast, Past
  <1>3. \A r \in Runs : runs'[r] # "none" => Covered(r)'
    BY DEF TableInv, Covered
  <1>4. QED
    BY <1>1, <1>2, <1>3 DEF TableInv

\* A load is issued: whatever exists is in its answer to come.
LEMMA LoadIssued ==
  ASSUME TableInv, NEW by \in Table!Forms \cup {"mount", "interval"}, Table!Load(by),
         UNCHANGED <<runs, displayed, offered, late, faults>>,
         requests' = [requests EXCEPT ![by] = "loading"] \/ requests' = requests,
         by \in Table!Forms => /\ requests[by] # "loading"
                               /\ requests' = [requests EXCEPT ![by] = "loading"],
         by \notin Table!Forms => requests' = requests
  PROVE  TableInv'
  <1> DEFINE n == Len(calls) + 1
             c == Table!Call(by)
  <1>1. /\ calls \in Seq(CallType) /\ c \in CallType /\ c.by = by
        /\ c.answer = Table!NoAnswer /\ Len(calls) \in Nat
    BY DEF TableInv, TableTyped, CallType, Table!Call
  <1>2. /\ calls' \in Seq(CallType) /\ Len(calls') = n /\ calls'[n] = c /\ n \in Nat
        /\ \A i \in 1..Len(calls) : calls'[i] = calls[i]
        /\ \A i \in 1..n : i \in 1..Len(calls) \/ i = n
        /\ n \notin 1..Len(calls) /\ failed' = FALSE
    <2>1. calls' = Append(calls, c) /\ failed' = FALSE
      BY DEF Table!Load
    <2> HIDE DEF c
    <2>2. QED
      BY <1>1, <2>1, AppendProperties
  <1> HIDE DEF n, c
  <1>3. requests' \in [Table!Forms -> {"none", "sent", "loading"} \cup Runs]
    BY DEF TableInv, TableTyped
  <1>4. \A f \in Table!Forms :
          requests'[f] = "loading" <=> \E i \in 1..Len(calls') : calls'[i].by = f
    <2>1. SUFFICES ASSUME NEW f \in Table!Forms
                   PROVE  requests'[f] = "loading" <=> \E i \in 1..n : calls'[i].by = f
      BY <1>2
    <2>2. requests[f] = "loading" <=> \E i \in 1..Len(calls) : calls[i].by = f
      BY DEF TableInv, TableTyped
    <2>3. (\E i \in 1..n : calls'[i].by = f)
            <=> (\E i \in 1..Len(calls) : calls[i].by = f) \/ by = f
      <3>1. n \in 1..n /\ 1..Len(calls) \subseteq 1..n
        BY <1>1 DEF n
      <3>2. QED
        BY <1>1, <1>2, <3>1
    <2>4. requests'[f] = "loading" <=> requests[f] = "loading" \/ by = f
      BY DEF TableInv, TableTyped
    <2>5. QED
      BY <2>2, <2>3, <2>4
  <1>5. \A i, j \in 1..Len(calls') :
          calls'[i].by \in Table!Forms /\ calls'[i].by = calls'[j].by => i = j
    <2>1. SUFFICES ASSUME NEW i \in 1..n, NEW j \in 1..n,
                          calls'[i].by \in Table!Forms, calls'[i].by = calls'[j].by
                   PROVE  i = j
      BY <1>2
    <2>2. ASSUME NEW k \in 1..Len(calls), by \in Table!Forms
          PROVE  calls[k].by # by
      BY <2>2 DEF TableInv, TableTyped
    <2>3. QED
      BY <1>1, <1>2, <2>1, <2>2 DEF TableInv, TableTyped
  <1>6. TableTyped'
    BY <1>2, <1>3, <1>4, <1>5 DEF TableInv, TableTyped
  <1>7. AllPast'
    BY <1>1, <1>2 DEF TableInv, AllPast, Past
  <1>8. ASSUME NEW r \in Runs
        PROVE  Covered(r)'
    <2>1. n \in 1..Len(calls') /\ Sees(calls'[n], r)
      BY <1>1, <1>2 DEF Sees, n
    <2>2. ASSUME NEW k \in 1..Len(calls'), ~Sees(calls'[k], r)
          PROVE  k < n
      <3>1. k # n
        BY <2>1, <2>2
      <3>2. k \in 1..n /\ n \in Nat
        BY <1>2
      <3>3. QED
        BY <3>1, <3>2
    <2>3. \E i \in 1..Len(calls') :
            Sees(calls'[i], r) /\ \A k \in 1..Len(calls') : ~Sees(calls'[k], r) => k < i
      BY <2>1, <2>2
    <2>4. QED
      BY <2>3 DEF Covered, Sees
  <1>9. QED
    BY <1>6, <1>7, <1>8 DEF TableInv

\* A load is answered with the runs of now.
LEMMA AnswerStep ==
  ASSUME TableInv, NEW i \in 1..Len(calls), Table!Answer(i)
  PROVE  TableInv'
  <1>1. /\ calls' = [calls EXCEPT ![i].answer = runs] /\ calls[i].answer = Table!NoAnswer
        /\ UNCHANGED <<runs, displayed, offered, requests, late, failed, faults>>
        /\ calls \in Seq(CallType) /\ runs \in [Runs -> Table!Status]
    BY DEF Table!Answer, TableInv, TableTyped
  <1>2. /\ Len(calls') = Len(calls) /\ calls' \in Seq(CallType)
        /\ \A k \in 1..Len(calls) : k # i => calls'[k] = calls[k]
        /\ calls'[i] = [calls[i] EXCEPT !.answer = runs]
    <2>1. calls[i] \in CallType /\ [calls[i] EXCEPT !.answer = runs] \in CallType
      <3> DEFINE c == calls[i]
      <3>1. c \in CallType
        BY <1>1, ElementOfSeq
      <3> HIDE DEF c
      <3>2. [c EXCEPT !.answer = runs] \in CallType
        BY <1>1, <3>1 DEF CallType
      <3>3. QED
        BY <3>1, <3>2 DEF c
    <2>2. QED
      BY <1>1, <2>1, ExceptSeq
  <1>3. \A k \in 1..Len(calls) :
          /\ calls'[k].by = calls[k].by /\ calls'[k].overtaken = calls[k].overtaken
          /\ calls'[k].answer = IF k = i THEN runs ELSE calls[k].answer
    <2>1. calls[i] \in CallType
      BY <1>1, ElementOfSeq
    <2>2. QED
      BY <1>2, <2>1 DEF CallType
  <1>4. TableTyped'
    BY <1>1, <1>2, <1>3 DEF TableInv, TableTyped
  <1>5. AllPast'
    BY <1>1, <1>2, <1>3 DEF TableInv, AllPast, Past
  <1>6. ASSUME NEW r \in Runs, runs[r] # "none"
        PROVE  Covered(r)'
    <2>1. \A k \in 1..Len(calls) : Sees(calls'[k], r) <=> Sees(calls[k], r)
      BY <1>1, <1>3, <1>6 DEF Sees
    <2>2. Covered(r)
      BY <1>6 DEF TableInv
    <2>3. QED
      BY <1>1, <1>2, <1>3, <2>1, <2>2 DEF Covered, Sees
  <1>7. QED
    BY <1>1, <1>4, <1>5, <1>6 DEF TableInv
\* A load has ended: the form that awaited it is released, the other calls are left.
LEMMA LoadGone ==
  ASSUME TableInv, NEW i \in 1..Len(calls), NEW marked \in Seq(CallType),
         Len(marked) = Len(calls),
         \A k \in 1..Len(calls) : /\ marked[k].by = calls[k].by
                                  /\ marked[k].answer = calls[k].answer,
         calls' = Table!RemoveAt(marked, i), requests' = Table!Released(calls[i].by),
         displayed' \in [Runs -> Table!Status], offered' \in BOOLEAN, late' \in BOOLEAN,
         failed' \in BOOLEAN, faults' \in 0..MaxFaults, runs' = runs
  PROVE  /\ TableTyped'
         /\ \A m \in 1..Len(calls') :
             calls'[m].answer # Table!NoAnswer => Past(calls'[m].answer)
         /\ \A f \in Table!Forms :
             requests[f] \in {"sent"} \cup Runs => requests'[f] = requests[f]
         /\ \A m \in 1..Len(calls') : \E k \in 1..Len(calls) \ {i} :
              calls'[m] = marked[k] /\ k = IF m < i THEN m ELSE m + 1
         /\ \A k \in 1..Len(calls) \ {i} : \E m \in 1..Len(calls') :
              calls'[m] = marked[k] /\ k = IF m < i THEN m ELSE m + 1
  <1> DEFINE u == calls'
  <1>1. u = Table!RemoveAt(marked, i) /\ i \in 1..Len(marked) /\ marked \in Seq(CallType)
    OBVIOUS
  <1> HIDE DEF u
  <1>2. u \in Seq(CallType) /\ Without(u, marked, i)
    BY <1>1, Moved
  <1>3. /\ \A m \in 1..Len(u) : \E k \in 1..Len(calls) \ {i} :
             u[m] = marked[k] /\ k = IF m < i THEN m ELSE m + 1
        /\ \A k \in 1..Len(calls) \ {i} : \E m \in 1..Len(u) :
             u[m] = marked[k] /\ k = IF m < i THEN m ELSE m + 1
    BY <1>2 DEF Without
  <1>4. \A f \in Table!Forms :
          requests'[f] = IF f = calls[i].by THEN "none" ELSE requests[f]
    BY DEF Table!Released
  <1>5. requests' \in [Table!Forms -> {"none", "sent", "loading"} \cup Runs]
    BY DEF Table!Released, TableInv, TableTyped
  <1>6. \A f \in Table!Forms : f = calls[i].by => requests[f] = "loading"
    BY DEF TableInv, TableTyped
  <1>7. ASSUME NEW f \in Table!Forms
        PROVE  requests'[f] = "loading" <=> \E m \in 1..Len(u) : u[m].by = f
    <2>1. CASE f = calls[i].by
      <3>1. \A m \in 1..Len(u) : u[m].by # f
        <4>1. SUFFICES ASSUME NEW m \in 1..Len(u), u[m].by = f
                       PROVE  FALSE
          OBVIOUS
        <4>2. PICK k \in 1..Len(calls) \ {i} : u[m] = marked[k]
          BY <1>3
        <4>3. calls[k].by = calls[i].by /\ calls[k].by \in Table!Forms
          BY <2>1, <4>1, <4>2
        <4>4. QED
          BY <4>3 DEF TableInv, TableTyped
      <3>2. QED
        BY <1>4, <2>1, <3>1
    <2>2. CASE f # calls[i].by
      <3>1. requests'[f] = requests[f]
        BY <1>4, <2>2
      <3>2. requests[f] = "loading" <=> \E k \in 1..Len(calls) : calls[k].by = f
        BY DEF TableInv, TableTyped
      <3>3. ASSUME NEW k \in 1..Len(calls), calls[k].by = f
            PROVE  \E m \in 1..Len(u) : u[m].by = f
        <4>1. k \in 1..Len(calls) \ {i}
          BY <2>2, <3>3
        <4>2. PICK m \in 1..Len(u) : u[m] = marked[k]
          BY <1>3, <4>1
        <4>3. QED
          BY <3>3, <4>1, <4>2
      <3>4. ASSUME NEW m \in 1..Len(u), u[m].by = f
            PROVE  \E k \in 1..Len(calls) : calls[k].by = f
        <4>1. PICK k \in 1..Len(calls) \ {i} : u[m] = marked[k]
          BY <1>3
        <4>2. QED
          BY <3>4, <4>1
      <3>5. QED
        BY <3>1, <3>2, <3>3, <3>4
    <2>3. QED
      BY <2>1, <2>2
  <1>8. ASSUME NEW m \in 1..Len(u), NEW n \in 1..Len(u),
               u[m].by \in Table!Forms, u[m].by = u[n].by
        PROVE  m = n
    <2>1. PICK k \in 1..Len(calls) \ {i} : u[m] = marked[k]
          /\ k = IF m < i THEN m ELSE m + 1
      BY <1>3
    <2>2. PICK j \in 1..Len(calls) \ {i} : u[n] = marked[j]
          /\ j = IF n < i THEN n ELSE n + 1
      BY <1>3
    <2>3. calls[k].by \in Table!Forms /\ calls[k].by = calls[j].by
      BY <1>8, <2>1, <2>2
    <2>4. k = j
      BY <2>1, <2>2, <2>3 DEF TableInv, TableTyped
    <2>5. m \in Int /\ n \in Int /\ i \in Int /\ Len(u) \in Nat
      BY <1>2
    <2>6. QED
      BY <2>1, <2>2, <2>4, <2>5
  <1>9. TableTyped'
    BY <1>2, <1>5, <1>7, <1>8 DEF TableInv, TableTyped, u
  <1>10. ASSUME NEW m \in 1..Len(u), u[m].answer # Table!NoAnswer
         PROVE  Past(u[m].answer)
    <2>1. PICK k \in 1..Len(calls) \ {i} : u[m] = marked[k]
      BY <1>3
    <2>2. QED
      BY <1>10, <2>1 DEF TableInv, AllPast
  <1>11. \A f \in Table!Forms :
             requests[f] \in {"sent"} \cup Runs => requests'[f] = requests[f]
    <2>1. "loading" \notin {"sent"} \cup Runs
      BY ConsoleAssumption DEF Table!RunsPageConstants
    <2>2. QED
      BY <1>4, <1>6, <2>1
  <1>12. QED
    BY <1>3, <1>9, <1>10, <1>11 DEF u

\* A load that arrives puts its answer on the screen and overtakes the earlier ones.
LEMMA ArriveStep ==
  ASSUME TableInv, NEW i \in 1..Len(calls), Table!Arrive(i)
  PROVE  TableInv'
  <1> DEFINE marked == [k \in DOMAIN calls |-> [calls[k] EXCEPT !.overtaken = @ \/ k < i]]
  <1>1. /\ calls[i].answer # Table!NoAnswer /\ displayed' = calls[i].answer
        /\ offered' = TRUE /\ late' = calls[i].overtaken
        /\ requests' = Table!Released(calls[i].by) /\ calls' = Table!RemoveAt(marked, i)
        /\ UNCHANGED <<runs, failed, faults>>
    BY DEF Table!Arrive
  <1>2. /\ calls \in Seq(CallType) /\ DOMAIN calls = 1..Len(calls) /\ Len(calls) \in Nat
        /\ \A k \in 1..Len(calls) : calls[k] \in CallType
    BY ElementOfSeq DEF TableInv, TableTyped
  <1>3. ASSUME NEW k \in 1..Len(calls)
        PROVE  /\ marked[k] \in CallType /\ marked[k].by = calls[k].by
               /\ marked[k].answer = calls[k].answer
               /\ marked[k].overtaken <=> calls[k].overtaken \/ k < i
    <2> DEFINE c == calls[k]
               o == c.overtaken \/ k < i
    <2>1. marked[k] = [c EXCEPT !.overtaken = o] /\ c \in CallType /\ o \in BOOLEAN
      BY <1>2
    <2> HIDE DEF c, o
    <2>2. [c EXCEPT !.overtaken = o] \in CallType
          /\ [c EXCEPT !.overtaken = o].overtaken = o
          /\ [c EXCEPT !.overtaken = o].by = c.by
          /\ [c EXCEPT !.overtaken = o].answer = c.answer
      BY <2>1 DEF CallType
    <2> HIDE DEF marked
    <2>3. QED
      BY <2>1, <2>2 DEF c, o
  <1>4. marked \in Seq(CallType) /\ Len(marked) = Len(calls)
    <2>1. marked = [k \in 1..Len(calls) |-> marked[k]]
      BY <1>2
    <2> HIDE DEF marked
    <2>2. QED
      BY <1>2, <1>3, <2>1
  <1> HIDE DEF marked
  <1>5. /\ displayed' \in [Runs -> Table!Status] /\ late' \in BOOLEAN
        /\ offered' \in BOOLEAN
        /\ failed' \in BOOLEAN /\ faults' \in 0..MaxFaults
    BY <1>1, <1>2 DEF TableInv, TableTyped, CallType
  <1>6. /\ TableTyped'
        /\ \A m \in 1..Len(calls') :
             calls'[m].answer # Table!NoAnswer => Past(calls'[m].answer)
        /\ \A f \in Table!Forms :
             requests[f] \in {"sent"} \cup Runs => requests'[f] = requests[f]
        /\ \A m \in 1..Len(calls') : \E k \in 1..Len(calls) \ {i} :
             calls'[m] = marked[k] /\ k = IF m < i THEN m ELSE m + 1
        /\ \A k \in 1..Len(calls) \ {i} : \E m \in 1..Len(calls') :
             calls'[m] = marked[k] /\ k = IF m < i THEN m ELSE m + 1
    <2>1. /\ calls' = Table!RemoveAt(marked, i) /\ requests' = Table!Released(calls[i].by)
          /\ runs' = runs
      BY <1>1
    <2>2. \A k \in 1..Len(calls) : /\ marked[k].by = calls[k].by
                                   /\ marked[k].answer = calls[k].answer
      BY <1>3
    <2>3. TableInv /\ i \in 1..Len(calls)
      OBVIOUS
    <2>4. QED
      BY ONLY <1>4, <1>5, <2>1, <2>2, <2>3, LoadGone
  <1>7. AllPast'
    <2>1. Past(displayed')
      BY <1>1 DEF TableInv, AllPast
    <2>2. QED
      BY <1>1, <1>6, <2>1 DEF AllPast, Past
  <1>8. ASSUME NEW r \in Runs, runs[r] # "none"
        PROVE  Covered(r)'
    <2>1. Covered(r)
      BY <1>8 DEF TableInv
    <2>2. \A k \in 1..Len(calls) : Sees(marked[k], r) <=> Sees(calls[k], r)
      BY <1>3 DEF Sees
    <2>3. Sees(calls[i], r) <=> displayed'[r] # "none"
      BY <1>1 DEF Sees
    <2>4. CASE failed \/ \E f \in Table!Forms : requests[f] \in {"sent"} \cup Runs
      BY <1>1, <1>6, <2>4 DEF Covered
    <2>5. ASSUME NEW j \in 1..Len(calls), Sees(calls[j], r),
                 \A k \in 1..Len(calls) : ~Sees(calls[k], r) => k < j
          PROVE  Covered(r)'
      <3>1. CASE j = i
        <4>1. displayed'[r] # "none"
          BY <2>3, <2>5, <3>1
        <4>2. ASSUME NEW m \in 1..Len(calls'), ~Sees(calls'[m], r)
              PROVE  calls'[m].overtaken
          <5>1. PICK k \in 1..Len(calls) \ {i} : calls'[m] = marked[k]
            BY <1>6
          <5>2. k < i
            BY <2>2, <2>5, <3>1, <4>2, <5>1
          <5>3. QED
            BY <1>3, <5>1, <5>2
        <4>3. QED
          BY <4>1, <4>2 DEF Covered, Sees
      <3>2. CASE j # i
        <4>1. PICK n \in 1..Len(calls') :
                calls'[n] = marked[j] /\ j = IF n < i THEN n ELSE n + 1
          BY <1>6, <3>2
        <4>2. ASSUME NEW m \in 1..Len(calls'), ~Sees(calls'[m], r)
              PROVE  m < n
          <5>1. PICK k \in 1..Len(calls) \ {i} :
                  calls'[m] = marked[k] /\ k = IF m < i THEN m ELSE m + 1
            BY <1>6
          <5>2. k < j
            BY <2>2, <2>5, <4>2, <5>1
          <5>3. m \in Int /\ n \in Int /\ i \in Int
            BY <1>6 DEF TableTyped
          <5>4. QED
            BY <4>1, <5>1, <5>2, <5>3
        <4>3. Sees(calls'[n], r)
          BY <2>2, <2>5, <4>1
        <4>4. \E q \in 1..Len(calls') :
                Sees(calls'[q], r) /\ \A m \in 1..Len(calls') : ~Sees(calls'[m], r) => m < q
          BY <4>2, <4>3
        <4>5. QED
          BY <4>4 DEF Covered, Sees
      <3>3. QED
        BY <3>1, <3>2
    <2>6. CASE \A k \in 1..Len(calls) : ~Sees(calls[k], r) => calls[k].overtaken
      <3>1. displayed'[r] # "none" \/ late'
        BY <1>1, <2>3, <2>6
      <3>2. ASSUME NEW m \in 1..Len(calls'), ~Sees(calls'[m], r)
            PROVE  calls'[m].overtaken
        <4>1. PICK k \in 1..Len(calls) \ {i} : calls'[m] = marked[k]
          BY <1>6
        <4>2. QED
          BY <1>3, <2>2, <2>6, <3>2, <4>1
      <3>3. QED
        BY <3>1, <3>2 DEF Covered, Sees
    <2>7. QED
      BY <2>1, <2>4, <2>5, <2>6 DEF Covered
  <1>9. QED
    BY <1>1, <1>6, <1>7, <1>8 DEF TableInv

\* A load that fails leaves the screen as it is, with an error.
LEMMA LoadFailsStep ==
  ASSUME TableInv, NEW i \in 1..Len(calls), Table!LoadFails(i)
  PROVE  TableInv'
  <1>1. /\ failed' = TRUE /\ faults' \in 0..MaxFaults
        /\ requests' = Table!Released(calls[i].by) /\ calls' = Table!RemoveAt(calls, i)
        /\ UNCHANGED <<runs, displayed, offered, late>>
    <2>1. MaxFaults \in Nat /\ faults \in 0..MaxFaults
      BY ConsoleAssumption DEF Table!RunsPageConstants, TableInv, TableTyped
    <2>2. QED
      BY <2>1 DEF Table!LoadFails, Table!Fault
  <1>2. /\ calls \in Seq(CallType) /\ displayed \in [Runs -> Table!Status]
        /\ late \in BOOLEAN /\ offered \in BOOLEAN
    BY DEF TableInv, TableTyped
  <1>3. /\ TableTyped'
        /\ \A m \in 1..Len(calls') :
             calls'[m].answer # Table!NoAnswer => Past(calls'[m].answer)
    BY <1>1, <1>2, LoadGone
  <1>4. AllPast'
    BY <1>1, <1>3 DEF TableInv, AllPast, Past
  <1>5. \A r \in Runs : Covered(r)'
    BY <1>1 DEF Covered
  <1>6. QED
    BY <1>3, <1>4, <1>5 DEF TableInv

\* A form is submitted, its request creates a run, fails or returns, and a run ends.
LEMMA FormSteps ==
  ASSUME TableInv
  PROVE  /\ Table!Poll => TableInv'
         /\ \A f \in Table!Forms : Table!Trigger(f) => TableInv'
         /\ \A f \in Table!Forms : Table!TriggerReturned(f) => TableInv'
         /\ \A f \in Table!Forms : Table!TriggerFailed(f) => TableInv'
         /\ \A f \in Table!Forms, r \in Runs : Table!RunCreated(f, r) => TableInv'
         /\ \A r \in Runs : Table!RunEnds(r) => TableInv'
  <1> USE DEF TableInv
  <1>1. /\ runs \in [Runs -> Table!Status] /\ faults \in 0..MaxFaults /\ MaxFaults \in Nat
        /\ failed \in BOOLEAN /\ "sent" \notin Runs /\ "loading" \notin Runs
        /\ "none" \notin Runs
        /\ requests \in [Table!Forms -> {"none", "sent", "loading"} \cup Runs]
    BY ConsoleAssumption DEF Table!RunsPageConstants, TableTyped
  <1>2. ASSUME Table!Poll
        PROVE  TableInv'
    <2>1. /\ "interval" \notin Table!Forms /\ Table!Load("interval")
          /\ UNCHANGED <<runs, displayed, offered, requests, late, faults>>
      BY <1>2 DEF Table!Poll, Table!Forms
    <2>2. "interval" \in Table!Forms \cup {"mount", "interval"}
      OBVIOUS
    <2>3. TableInv
      OBVIOUS
    <2>4. QED
      BY ONLY <2>1, <2>2, <2>3, LoadIssued
  <1>3. ASSUME NEW f \in Table!Forms, Table!Trigger(f)
        PROVE  TableInv'
    <2>1. /\ requests[f] = "none" /\ requests' = [requests EXCEPT ![f] = "sent"]
          /\ failed' = FALSE
          /\ UNCHANGED <<runs, displayed, offered, calls, late, faults>>
      BY <1>3 DEF Table!Trigger, Table!Launchable
    <2>2. requests' \in [Table!Forms -> {"none", "sent", "loading"} \cup Runs]
          /\ requests'[f] = "sent"
      BY <1>1, <2>1
    <2>3. TableTyped'
      <3>1. \A g \in Table!Forms : requests'[g] = "loading" <=> requests[g] = "loading"
        BY <1>1, <2>1
      <3>2. QED
        BY <2>1, <2>2, <3>1 DEF TableTyped
    <2>4. AllPast'
      BY <2>1 DEF AllPast, Past
    <2>5. \A r \in Runs : Covered(r)'
      BY <2>2 DEF Covered
    <2>6. QED
      BY <2>3, <2>4, <2>5
  <1>4. ASSUME NEW f \in Table!Forms, Table!TriggerReturned(f)
        PROVE  TableInv'
    <2>1. /\ requests[f] # "loading" /\ Table!Load(f)
          /\ requests' = [requests EXCEPT ![f] = "loading"]
          /\ UNCHANGED <<runs, displayed, offered, late, faults>>
      BY <1>1, <1>4 DEF Table!TriggerReturned
    <2>2. f \in Table!Forms \cup {"mount", "interval"} /\ f \in Table!Forms
      OBVIOUS
    <2>3. TableInv
      OBVIOUS
    <2>4. QED
      BY ONLY <2>1, <2>2, <2>3, LoadIssued
  <1>5. ASSUME NEW f \in Table!Forms, Table!TriggerFailed(f)
        PROVE  TableInv'
    <2>1. /\ requests[f] # "loading" /\ requests' = [requests EXCEPT ![f] = "none"]
          /\ faults' \in 0..MaxFaults /\ failed' = TRUE
          /\ UNCHANGED <<runs, displayed, offered, calls, late>>
      BY <1>1, <1>5 DEF Table!TriggerFailed, Table!Fault
    <2>2. TableTyped'
      BY <1>1, <2>1 DEF TableTyped
    <2>3. AllPast'
      BY <2>1 DEF AllPast, Past
    <2>4. \A r \in Runs : Covered(r)'
      BY <2>1 DEF Covered
    <2>5. QED
      BY <2>2, <2>3, <2>4
  <1>6. ASSUME NEW f \in Table!Forms, NEW r \in Runs, Table!RunCreated(f, r)
        PROVE  TableInv'
    <2>1. /\ requests[f] = "sent" /\ runs[r] = "none"
          /\ runs' = [runs EXCEPT ![r] = "RUNNING"]
          /\ requests' = [requests EXCEPT ![f] = r]
          /\ UNCHANGED <<displayed, offered, calls, late, failed, faults>>
      BY <1>6 DEF Table!RunCreated
    <2>2. /\ requests' \in [Table!Forms -> {"none", "sent", "loading"} \cup Runs]
          /\ runs' \in [Runs -> Table!Status] /\ requests'[f] \in Runs
      BY <1>1, <2>1 DEF Table!Status
    <2>3. TableTyped'
      BY <1>1, <2>1, <2>2 DEF TableTyped
    <2>4. AllPast'
      BY <1>1, <2>1 DEF AllPast, Past
    <2>5. \A q \in Runs : Covered(q)'
      BY <2>2 DEF Covered
    <2>6. QED
      BY <2>3, <2>4, <2>5
  <1>7. ASSUME NEW r \in Runs, Table!RunEnds(r)
        PROVE  TableInv'
    <2>1. /\ runs[r] = "RUNNING" /\ runs' = [runs EXCEPT ![r] = "ended"]
          /\ UNCHANGED <<displayed, offered, requests, calls, late, failed, faults>>
      BY <1>7 DEF Table!RunEnds
    <2>2. runs' \in [Runs -> Table!Status]
      BY <1>1, <2>1 DEF Table!Status
    <2>3. TableTyped'
      BY <1>1, <2>1, <2>2 DEF TableTyped
    <2>4. AllPast'
      BY <1>1, <2>1 DEF AllPast, Past
    <2>5. \A q \in Runs : runs'[q] # "none" => Covered(q)'
      BY <1>1, <2>1 DEF Covered
    <2>6. QED
      BY <2>3, <2>4, <2>5
  <1>8. QED
    BY <1>2, <1>3, <1>4, <1>5, <1>6, <1>7

\* The page as it is opened: its first load will show what there is.
LEMMA TableInit == Table!Init => TableInv
  <1> SUFFICES ASSUME Table!Init
               PROVE  TableInv
    OBVIOUS
  <1> DEFINE c == Table!Call("mount")
  <1>1. /\ c \in CallType /\ c.by = "mount" /\ c.answer = Table!NoAnswer
    BY DEF CallType, Table!Call
  <1>2. /\ runs \in [Runs -> {"none", "RUNNING"}] /\ displayed = [r \in Runs |-> "none"]
        /\ offered = FALSE /\ requests = [f \in Table!Forms |-> "none"]
        /\ calls = <<c>> /\ late = FALSE /\ failed = FALSE /\ faults = 0
    BY DEF Table!Init
  <1> HIDE DEF c
  <1>3. /\ calls \in Seq(CallType) /\ Len(calls) = 1 /\ calls[1] = c
        /\ \A i \in 1..Len(calls) : i = 1
    BY <1>1, <1>2
  <1>4. TableTyped
    <2>1. MaxFaults \in Nat /\ "mount" \notin Table!Forms
      BY ConsoleAssumption DEF Table!RunsPageConstants, Table!Forms
    <2>2. runs \in [Runs -> Table!Status] /\ displayed \in [Runs -> Table!Status]
      BY <1>2 DEF Table!Status
    <2>3. \A f \in Table!Forms :
            requests[f] = "loading" <=> \E i \in 1..Len(calls) : calls[i].by = f
      BY <1>1, <1>2, <1>3, <2>1
    <2>4. \A i, j \in 1..Len(calls) :
            calls[i].by \in Table!Forms /\ calls[i].by = calls[j].by => i = j
      BY <1>3
    <2>5. /\ requests \in [Table!Forms -> {"none", "sent", "loading"} \cup Runs]
          /\ offered \in BOOLEAN /\ late \in BOOLEAN /\ failed \in BOOLEAN
      BY <1>2
    <2>6. faults \in 0..MaxFaults
      BY <1>2, <2>1
    <2>7. QED
      BY <1>3, <2>2, <2>3, <2>4, <2>5, <2>6 DEF TableTyped
  <1>5. AllPast
    BY <1>1, <1>2, <1>3 DEF AllPast, Past
  <1>6. ASSUME NEW r \in Runs
        PROVE  Covered(r)
    BY <1>1, <1>3 DEF Covered, Sees
  <1>7. QED
    BY <1>4, <1>5, <1>6 DEF TableInv

\* Every step of the page.
LEMMA TableNext == TableInv /\ Table!Next => TableInv'
  <1> SUFFICES ASSUME TableInv, Table!Next
               PROVE  TableInv'
    OBVIOUS
  <1>1. DOMAIN calls = 1..Len(calls)
    BY DEF TableInv, TableTyped
  <1>2. CASE Table!Answered
    BY <1>1, <1>2, AnswerStep DEF Table!Answered
  <1>3. CASE Table!Arrived
    BY <1>1, <1>3, ArriveStep DEF Table!Arrived
  <1>4. CASE \E i \in DOMAIN calls : Table!LoadFails(i)
    BY <1>1, <1>4, LoadFailsStep
  <1>5. QED
    BY <1>2, <1>3, <1>4, FormSteps DEF Table!Next

\* At rest, every run that exists is on the screen, with its end.
LEMMA TableFacts ==
  ASSUME TableInv
  PROVE  Table!TypeOK /\ Table!RunsCurrent
  <1>1. Table!TypeOK
    <2>1. DOMAIN calls = 1..Len(calls) /\ \A i \in 1..Len(calls) : calls[i] \in CallType
      BY ElementOfSeq DEF TableInv, TableTyped
    <2>2. QED
      BY <2>1 DEF TableInv, TableTyped, Table!TypeOK, CallType
  <1>2. ASSUME calls = <<>>, ~Table!HasRunning, ~late, ~failed,
               \A f \in Table!Forms : requests[f] = "none"
        PROVE  displayed = runs
    <2>1. \A r \in Runs : Covered(r) => displayed[r] # "none"
      BY <1>2, ConsoleAssumption DEF Covered, Table!RunsPageConstants
    <2>2. ASSUME NEW r \in Runs
          PROVE  displayed[r] = runs[r]
      <3>1. /\ displayed[r] \in {"none", "ended"}
            /\ runs[r] # "none" => displayed[r] # "none"
            /\ displayed[r] # "none" => runs[r] # "none"
            /\ displayed[r] = "ended" => runs[r] = "ended"
        BY <1>2, <2>1
           DEF Table!HasRunning, TableInv, TableTyped, Table!Status, AllPast, Past
      <3>2. QED
        BY <3>1
    <2>3. QED
      BY <2>2 DEF TableInv, TableTyped
  <1>3. QED
    BY <1>1, <1>2 DEF Table!RunsCurrent

--------------------------------------------------------------------------------
(* The list pages.                                                         *)

\* The statuses of a list page's entries.
Statuses == List!Screens[screen].statuses

\* A load of a list page, a record of these fields.
IsLoad(l) ==
  \E n, v, b, t, ps : l = [serial |-> n, view |-> v, by |-> b, total |-> t, pages |-> ps]

LoadTyped(l) ==
  /\ IsLoad(l)
  /\ l.serial \in 1..issued /\ l.view \in List!View /\ l.by \in {"effect", "action"}
  /\ l.total \in Nat \cup {List!Unknown}
  /\ \A n \in DOMAIN l.pages : l.pages[n] \in Seq(List!Row)

\* A status request of a list page.
UpdateType ==
  [click : Nat, ids : SUBSET Entries, status : List!UserStatus, bulk : BOOLEAN,
   view : List!View, stored : BOOLEAN]

\* What is on the screen of a list page.
ShownType ==
  [rows : Seq(List!Row), total : Nat, view : List!View, serial : Nat,
   by : {"effect", "action"}]

\* The list page's variables.
ListTyped ==
  /\ screen \in DOMAIN List!Screens /\ store \in [Entries -> Statuses]
  /\ view \in List!View /\ (view.all => view.page = 1)
  /\ shown \in ShownType /\ selected \subseteq Entries
  /\ loading \in BOOLEAN /\ lost \in BOOLEAN /\ issued \in Nat \ {0}
  /\ \A l \in loads : LoadTyped(l)
  /\ updates \subseteq UpdateType /\ (updates # {} => screen # "run")
  /\ inputs \in 0..MaxInputs /\ failures \in 0..MaxFailures

\* The loads are numbered, and the last one has the parameters of the page, or those
\* of an action.
Numbered ==
  /\ \A l, m \in loads : l.serial = m.serial => l = m
  /\ shown.serial <= issued /\ \A l \in loads : l.serial # shown.serial
  /\ \A l \in loads : l.serial = issued /\ l.by = "effect" => l.view = view
  /\ shown.serial = issued /\ shown.by = "effect" => shown.view = view

\* The entries that a view has and how many they are, the rows that show them, and a
\* page of them as the endpoint answers it now.
Matching(v)   == {e \in Entries : List!Matches(v, e)}
Total(v)      == List!Cardinality(Matching(v))
RowNow(v)     == {x \in List!Row : x.entry \in Matching(v) /\ x.status = store[x.entry]}
Now(v, n, rs) == \E order \in List!Orders(v) : rs = List!Page(v, n, order)

\* What a load has been answered is so now.
AnsweredNow(l) ==
  l.total # List!Unknown =>
    l.total = Total(l.view) /\ \A n \in DOMAIN l.pages : Now(l.view, n, l.pages[n])

\* The rows of a screen are so now.
RowsNow(s) ==
  /\ s.total = Total(s.view) /\ s.rows \in Seq(RowNow(s.view))
  /\ ~s.view.all => Now(s.view, s.view.page, s.rows)
  /\ s.view.all => Len(s.rows) = Total(s.view)

\* The last load, in flight or arrived, tells of the store as it is now, unless an
\* update is on its way back or the answer of one was lost.
Fresh ==
  (\A u \in updates : ~u.stored) /\ ~lost =>
    /\ \A l \in loads : l.serial = issued => AnsweredNow(l)
    /\ \A s \in {shown} : s.serial = issued => RowsNow(s)

\* The strengthening for the list pages.
ListInv == ListTyped /\ Numbered /\ Fresh

--------------------------------------------------------------------------------
(* Induction, and the pages of a list one after the other.                 *)

\* A set of naturals that is not empty has a least element.
LEMMA Least ==
  ASSUME NEW T \in SUBSET Nat, T # {}
  PROVE  \E n \in T : \A m \in T : n <= m
  <1> DEFINE R == {p \in Nat \X Nat : p[1] < p[2]}
  <1>1. IsWellFoundedOn(R, Nat)
    BY NatLessThanWellFounded DEF OpToRel
  <1>2. \A x, y \in Nat : <<y, x>> \in R <=> y < x
    OBVIOUS
  <1> HIDE DEF R
  <1>3. PICK x \in T : \A y \in T : <<y, x>> \notin R
    BY <1>1, WFMin
  <1>4. ASSUME NEW y \in T
        PROVE  x <= y
    <2>1. x \in Nat /\ y \in Nat /\ ~(y < x)
      BY <1>2, <1>3
    <2>2. QED
      BY <2>1
  <1>5. QED
    BY <1>4

\* Induction over the naturals below a bound.
LEMMA Induction ==
  ASSUME NEW S, NEW n \in Nat, 0 \in S, \A k \in 0..(n - 1) : k \in S => k + 1 \in S
  PROVE  \A k \in 0..n : k \in S
  <1>1. SUFFICES ASSUME (0..n) \ S # {}
                 PROVE  FALSE
    OBVIOUS
  <1>2. PICK k \in (0..n) \ S : \A m \in (0..n) \ S : k <= m
    <2>1. (0..n) \ S \in SUBSET Nat
      OBVIOUS
    <2>2. QED
      BY <1>1, <2>1, Least
  <1>3. /\ k # 0 /\ k - 1 \in 0..(n - 1) /\ (k - 1) + 1 = k
        /\ ~(k <= k - 1) /\ k - 1 \in 0..n
    BY <1>2
  <1>4. QED
    BY <1>2, <1>3

\* The function that FlattenSeq computes.
Joined(f, p, n) == f = [i \in 1..n |-> IF i = 1 THEN p[i] ELSE f[i - 1] \o p[i]]

\* There is such a function, and it is the one FlattenSeq takes its value from.
LEMMA FlattenIsJoined ==
  ASSUME NEW A, NEW p \in Seq(A), Len(p) # 0
  PROVE  \E f : Joined(f, p, Len(p)) /\ List!FlattenSeq(p) = f[Len(p)]
  <1> DEFINE N == Len(p)
             D == {k \in Nat : \E f : Joined(f, p, k + 1)}
  <1>1. N \in Nat /\ N - 1 \in Nat /\ (N - 1) + 1 = N
    OBVIOUS
  <1>2. 0 \in D
    <2> DEFINE f == [i \in 1..1 |-> p[i]]
    <2>1. f = [i \in 1..1 |-> IF i = 1 THEN p[i] ELSE f[i - 1] \o p[i]]
      OBVIOUS
    <2>2. Joined(f, p, 0 + 1)
      BY <2>1 DEF Joined
    <2>3. QED
      BY <2>2
  <1>3. ASSUME NEW k \in 0..((N - 1) - 1), k \in D
        PROVE  k + 1 \in D
    <2> DEFINE n == k + 1
    <2>1. PICK f : Joined(f, p, n)
      BY <1>3
    <2> DEFINE new == f[n] \o p[n + 1]
               g == [i \in 1..(n + 1) |-> IF i = n + 1 THEN new ELSE f[i]]
    <2>2. n \in Nat /\ n # 0 /\ \A i \in 1..(n + 1) :
            (i # n + 1 => i \in 1..n) /\ (i # 1 => i - 1 \in 1..n)
      BY <1>1, <1>3
    <2>3. ASSUME NEW i \in 1..(n + 1)
          PROVE  g[i] = IF i = 1 THEN p[i] ELSE g[i - 1] \o p[i]
      <3>1. CASE i = n + 1
        <4>1. i # 1 /\ i - 1 = n /\ n # n + 1 /\ n \in 1..(n + 1)
          BY <2>2, <3>1
        <4>2. g[i] = new /\ g[n] = f[n]
          <5> HIDE DEF n, new
          <5>1. QED
            BY <3>1, <4>1
        <4>3. QED
          BY <3>1, <4>1, <4>2
      <3>2. CASE i # n + 1
        <4>1. g[i] = f[i] /\ i \in 1..n /\ (i # 1 => i - 1 \in 1..n /\ g[i - 1] = f[i - 1])
          BY <2>2, <3>2
        <4>2. f[i] = IF i = 1 THEN p[i] ELSE f[i - 1] \o p[i]
          BY <2>1, <4>1 DEF Joined
        <4>3. QED
          BY <4>1, <4>2
      <3>3. QED
        BY <3>1, <3>2
    <2>4. Joined(g, p, (k + 1) + 1)
      BY <2>3 DEF Joined
    <2>5. QED
      BY <2>2, <2>4
  <1>4. N - 1 \in D
    <2> DEFINE M == N - 1
    <2>1. M \in Nat /\ \A k \in 0..(M - 1) : k \in D => k + 1 \in D
      BY <1>1, <1>3
    <2> HIDE DEF D, N, M
    <2>2. \A k \in 0..M : k \in D
      BY <1>2, <2>1, Induction
    <2>3. M \in D
      BY <2>1, <2>2
    <2>4. QED
      BY <2>3 DEF M
  <1>5. PICK h : Joined(h, p, N)
    BY <1>1, <1>4
  <1> DEFINE F == CHOOSE f : Joined(f, p, N)
  <1>6. Joined(F, p, N)
    BY <1>5
  <1>7. List!FlattenSeq(p) = F[N]
    BY DEF List!FlattenSeq, Joined
  <1>8. QED
    BY <1>6, <1>7

\* The rows of page n of a list of t rows, s to a page.
OnPage(n, s, t) == IF (n - 1) * s + 1 <= List!Least(n * s, t)
                   THEN List!Least(n * s, t) - (n - 1) * s ELSE 0

\* The pages of a list in order have all its rows, and no others.
LEMMA Flattened ==
  ASSUME NEW A, NEW p \in Seq(Seq(A)), Len(p) # 0, NEW s \in Nat, NEW t \in Nat
  PROVE  /\ List!FlattenSeq(p) \in Seq(A)
         /\ (\A n \in 1..Len(p) : Len(p[n]) = OnPage(n, s, t))
              => Len(List!FlattenSeq(p)) = List!Least(Len(p) * s, t)
  <1> DEFINE N == Len(p)
             Whole == \A n \in 1..N : Len(p[n]) = OnPage(n, s, t)
  <1>1. PICK f : Joined(f, p, N) /\ List!FlattenSeq(p) = f[N]
    BY FlattenIsJoined
  <1>2. N \in Nat /\ N - 1 \in Nat /\ (N - 1) + 1 = N
    OBVIOUS
  <1> DEFINE Good(n) == f[n] \in Seq(A) /\ (Whole => Len(f[n]) = List!Least(n * s, t))
             D == {k \in Nat : Good(k + 1)}
  <1>3. 0 \in D
    <2>1. f[1] = p[1] /\ p[1] \in Seq(A) /\ 1 \in 1..N
      BY <1>1, <1>2 DEF Joined
    <2>2. OnPage(1, s, t) = List!Least(1 * s, t)
      BY DEF OnPage, List!Least
    <2>3. Good(0 + 1)
      BY <2>1, <2>2
    <2>4. QED
      BY <2>3
  <1>4. ASSUME NEW k \in 0..((N - 1) - 1), k \in D
        PROVE  k + 1 \in D
    <2> DEFINE n == k + 1
               a == n * s
    <2>1. n \in Nat /\ n + 1 \in 1..N /\ n + 1 # 1 /\ (n + 1) - 1 = n /\ Good(n)
      BY <1>2, <1>4
    <2>2. f[n + 1] = f[n] \o p[n + 1]
      BY <1>1, <2>1 DEF Joined
    <2>3. f[n] \in Seq(A) /\ p[n + 1] \in Seq(A)
      BY <2>1
    <2>4. f[n + 1] \in Seq(A) /\ Len(f[n + 1]) = Len(f[n]) + Len(p[n + 1])
      BY <2>2, <2>3, ConcatProperties
    <2>5. ASSUME Whole
          PROVE  Len(f[n + 1]) = List!Least((n + 1) * s, t)
      <3>1. Len(f[n]) = List!Least(a, t) /\ Len(p[n + 1]) = OnPage(n + 1, s, t)
        BY <2>1, <2>5
      <3>2. a \in Nat /\ (n + 1) * s = a + s /\ ((n + 1) - 1) * s = a
        BY <2>1
      <3>3. OnPage(n + 1, s, t) = IF a + 1 <= List!Least(a + s, t)
                                  THEN List!Least(a + s, t) - a ELSE 0
        BY <3>2 DEF OnPage
      <3> HIDE DEF a, n
      <3>4. QED
        BY <2>4, <3>1, <3>2, <3>3 DEF List!Least
    <2>6. Good((k + 1) + 1)
      BY <2>4, <2>5
    <2>7. QED
      BY <2>1, <2>6
  <1>5. N - 1 \in D
    <2> DEFINE M == N - 1
    <2>1. M \in Nat /\ \A k \in 0..(M - 1) : k \in D => k + 1 \in D
      BY <1>2, <1>4
    <2> HIDE DEF D, N, M
    <2>2. \A k \in 0..M : k \in D
      BY <1>3, <2>1, Induction
    <2>3. M \in D
      BY <2>1, <2>2
    <2>4. QED
      BY <2>3 DEF M
  <1>6. Good(N)
    BY <1>2, <1>5
  <1>7. QED
    BY <1>1, <1>6

\* The pages of a list hold it.
LEMMA PagesHold ==
  ASSUME NEW t \in Nat, NEW s \in Nat \ {0}
  PROVE  /\ List!Pages(t, s) \in Nat \ {0}
         /\ List!Least(List!Pages(t, s) * s, t) = t
  <1>1. CASE t <= s
    BY <1>1 DEF List!Pages, List!Least
  <1>2. CASE ~(t <= s)
    <2> DEFINE x == t + s - 1
               q == x \div s
    <2>1. x \in Nat /\ q \in Int /\ x = s * q + (x % s) /\ x % s \in 0..(s - 1)
      OBVIOUS
    <2>2. s * q > t - 1 /\ s * q \in Int /\ s * q = q * s
      <3> DEFINE y == s * q
                 r == x % s
      <3>1. y \in Int /\ r \in Int /\ x = y + r /\ r <= s - 1
        BY <2>1
      <3>2. y > t - 1
        <4> HIDE DEF y, r
        <4>1. QED
          BY <3>1
      <3>3. y = q * s
        BY <2>1
      <3>4. QED
        BY <3>1, <3>2, <3>3
    <2>3. q > 0
      BY <1>2, <2>1, <2>2
    <2>4. List!Pages(t, s) = q
      BY <1>2 DEF List!Pages
    <2> HIDE DEF q
    <2>5. QED
      BY <2>1, <2>2, <2>3, <2>4 DEF List!Least
  <1>3. QED
    BY <1>1, <1>2

--------------------------------------------------------------------------------
(* Pages and loads.                                                        *)

\* A page of a list: so many rows of the entries a view has, with their status of now.
LEMMA PageProperties ==
  ASSUME ListTyped, NEW v \in List!View, NEW n \in Nat \ {0}, NEW order \in List!Orders(v)
  PROVE  /\ Len(order) = Total(v) /\ Total(v) \in Nat
         /\ List!Page(v, n, order) \in Seq(RowNow(v))
         /\ Len(List!Page(v, n, order)) = OnPage(n, List!PageSize(v), Total(v))
  <1> DEFINE S == Matching(v)
             T == Total(v)
             s == List!PageSize(v)
             a == (n - 1) * s
             b == List!Least(n * s, T)
             rows == SubSeq(order, a + 1, b)
             page == List!Page(v, n, order)
  <1>1. T \in Nat
    <2>1. IsFiniteSet(Entries)
      BY ConsoleAssumption DEF List!ListConstants, List!IsFiniteSet, IsFiniteSet
    <2>2. S \in SUBSET Entries
      BY DEF Matching
    <2> HIDE DEF S
    <2>3. Cardinality(S) \in Nat
      BY <2>1, <2>2, FS_Subset, FS_CardinalityType
    <2>4. List!Cardinality(S) = Cardinality(S)
      BY DEF List!Cardinality, Cardinality
    <2>5. QED
      BY <2>3, <2>4 DEF Total, S
  <1>2. order \in Seq(S) /\ Len(order) = T
    <2>1. order \in List!SetToSeqs(S)
      BY DEF List!Orders, Matching
    <2>2. order \in [1..T -> S]
      BY <2>1 DEF List!SetToSeqs, Total
    <2>3. QED
      BY <1>1, <2>2
  <1>3. s \in Nat /\ n \in Nat /\ n - 1 \in Nat
    BY ConsoleAssumption DEF List!ListConstants, List!PageSize
  <1>4. a \in Nat /\ n * s \in Nat /\ n * s = a + s
    BY <1>3
  <1>5. b \in Nat /\ b <= T
    BY <1>1, <1>4 DEF List!Least
  <1>6. /\ rows \in Seq(S) /\ Len(rows) = OnPage(n, s, T)
    <2> HIDE DEF a, b, s, T, S
    <2>1. \A i \in (a + 1)..b : order[i] \in S
      <3>1. SUFFICES ASSUME NEW i \in (a + 1)..b
                     PROVE  order[i] \in S
        OBVIOUS
      <3>2. i \in 1..Len(order)
        BY <1>1, <1>2, <1>4, <1>5
      <3>3. QED
        BY <1>2, <3>2, ElementOfSeq
    <2>2. a + 1 \in Int /\ b \in Int
      BY <1>4, <1>5
    <2>3. rows \in Seq(S) /\ Len(rows) = IF a + 1 <= b THEN b - (a + 1) + 1 ELSE 0
      BY <2>1, <2>2, SubSeqProperties
    <2>4. OnPage(n, s, T) = IF a + 1 <= b THEN b - a ELSE 0
      BY DEF OnPage, a, b
    <2> HIDE DEF rows
    <2>5. QED
      BY <1>4, <1>5, <2>3, <2>4
  <1>7. page = [i \in DOMAIN rows |-> [entry |-> rows[i], status |-> store[rows[i]]]]
    BY <1>2 DEF List!Page
  <1> HIDE DEF rows, page, S, T, s
  <1>8. /\ DOMAIN rows = 1..Len(rows) /\ Len(rows) \in Nat
        /\ \A i \in 1..Len(rows) : rows[i] \in S
    BY <1>6, ElementOfSeq
  <1>9. ASSUME NEW e \in S
        PROVE  [entry |-> e, status |-> store[e]] \in RowNow(v)
    <2>1. e \in Entries /\ store[e] \in Statuses
      BY DEF S, Matching, ListTyped
    <2>2. QED
      BY <1>9, <2>1 DEF RowNow, List!Row, Statuses, S
  <1>10. page \in [1..Len(rows) -> RowNow(v)]
    BY <1>7, <1>8, <1>9
  <1>11. page \in Seq(RowNow(v)) /\ Len(page) = Len(rows)
    BY <1>8, <1>10
  <1>12. QED
    BY <1>1, <1>2, <1>6, <1>11 DEF page, s, T

\* The rows of now are rows.
LEMMA RowNowIsRow == ASSUME NEW v PROVE RowNow(v) \subseteq List!Row
BY DEF RowNow

\* The rows of a load that is complete, one page or all pages joined.
LEMMA RowsOfLoad ==
  ASSUME ListTyped, NEW l \in loads, List!Complete(l)
  PROVE  /\ List!Rows(l) \in Seq(List!Row)
         /\ AnsweredNow(l) =>
              /\ List!Rows(l) \in Seq(RowNow(l.view))
              /\ ~l.view.all => Now(l.view, l.view.page, List!Rows(l))
              /\ l.view.all => Len(List!Rows(l)) = Total(l.view)
  <1> DEFINE v == l.view
  <1>1. /\ LoadTyped(l) /\ v \in List!View /\ l.total \in Nat
        /\ DOMAIN l.pages = List!Needed(l) /\ v.all \in BOOLEAN /\ v.page \in Nat \ {0}
        /\ l.total # List!Unknown
    BY DEF ListTyped, LoadTyped, List!Complete, List!View
  <1>2. \A n \in DOMAIN l.pages : l.pages[n] \in Seq(List!Row)
    BY <1>1 DEF LoadTyped
  <1>3. ASSUME AnsweredNow(l), NEW n \in DOMAIN l.pages, n \in Nat \ {0}
        PROVE  /\ l.pages[n] \in Seq(RowNow(v))
               /\ Len(l.pages[n]) = OnPage(n, List!PageSize(v), Total(v))
    <2>1. PICK order \in List!Orders(v) : l.pages[n] = List!Page(v, n, order)
      BY <1>1, <1>3 DEF AnsweredNow, Now
    <2>2. QED
      BY <1>1, <1>3, <2>1, PageProperties
  <1>4. CASE ~v.all
    <2>1. List!Rows(l) = l.pages[v.page] /\ v.page \in DOMAIN l.pages
      BY <1>1, <1>4 DEF List!Rows, List!Needed
    <2>2. QED
      BY <1>1, <1>2, <1>3, <1>4, <2>1 DEF AnsweredNow
  <1>5. CASE v.all
    <2> DEFINE P == List!Pages(l.total, AllPerPage)
               p == [n \in 1..P |-> l.pages[n]]
    <2>1. /\ List!Rows(l) = List!FlattenSeq(p) /\ DOMAIN l.pages = 1..P
          /\ AllPerPage \in Nat \ {0} /\ List!PageSize(v) = AllPerPage
      BY <1>1, <1>5, ConsoleAssumption
         DEF List!Rows, List!Needed, List!ListConstants, List!PageSize
    <2>2. P \in Nat \ {0} /\ List!Least(P * AllPerPage, l.total) = l.total
      BY <1>1, <2>1, PagesHold
    <2> HIDE DEF P
    <2>3. p \in [1..P -> Seq(List!Row)]
      BY <1>2, <2>1
    <2>4. p \in Seq(Seq(List!Row)) /\ Len(p) = P
      BY <2>2, <2>3
    <2>5. List!FlattenSeq(p) \in Seq(List!Row)
      <3> HIDE DEF p
      <3>1. 0 \in Nat /\ Len(p) # 0
        BY <2>2, <2>4
      <3>2. QED
        BY <2>4, <3>1, Flattened
    <2>6. ASSUME AnsweredNow(l)
          PROVE  /\ List!FlattenSeq(p) \in Seq(RowNow(v))
                 /\ Len(List!FlattenSeq(p)) = Total(v)
      <3>1. l.total = Total(v)
        BY <1>1, <2>6 DEF AnsweredNow
      <3>2. \A n \in 1..P : /\ p[n] \in Seq(RowNow(v))
                            /\ Len(p[n]) = OnPage(n, AllPerPage, Total(v))
        BY <1>3, <2>1, <2>2, <2>6
      <3>3. p \in [1..P -> Seq(RowNow(v))]
        BY <3>2
      <3>4. p \in Seq(Seq(RowNow(v)))
        BY <2>2, <3>3
      <3> HIDE DEF p, v
      <3> DEFINE A == RowNow(v)
                 T == Total(v)
      <3>5. p \in Seq(Seq(A)) /\ Len(p) # 0 /\ AllPerPage \in Nat /\ T \in Nat
            /\ \A n \in 1..Len(p) : Len(p[n]) = OnPage(n, AllPerPage, T)
        BY <1>1, <2>1, <2>2, <2>4, <3>1, <3>2, <3>4
      <3> HIDE DEF A, T
      <3>6. /\ List!FlattenSeq(p) \in Seq(A)
            /\ Len(List!FlattenSeq(p)) = List!Least(Len(p) * AllPerPage, T)
        BY <3>5, Flattened
      <3>7. QED
        BY <2>2, <2>4, <3>1, <3>6 DEF A, T
    <2>7. QED
      BY <1>1, <1>5, <2>1, <2>5, <2>6
  <1>6. QED
    BY <1>1, <1>4, <1>5

--------------------------------------------------------------------------------
(* The steps of the list pages.                                            *)

\* Loads are issued: the newest has the parameters of the page, and no answer yet.
LEMMA IssueStep ==
  ASSUME ListInv, NEW views \in Seq(List!View), Len(views) # 0,
         NEW by \in {"effect", "action"}, List!Issue(views, by),
         UNCHANGED <<screen, store, shown>>,
         view' \in List!View, view'.all => view'.page = 1,
         by = "effect" => views[Len(views)] = view', selected' \subseteq Entries,
         updates' \subseteq UpdateType, updates' \subseteq updates,
         inputs' \in 0..MaxInputs, failures' \in 0..MaxFailures
  PROVE  ListInv'
  <1> DEFINE k == Len(views)
  <1>1. /\ loads' = loads \cup {List!Load(issued + i, views[i], by) : i \in 1..k}
        /\ issued' = issued + k /\ k \in Nat \ {0} /\ issued \in Nat \ {0}
        /\ loading' \in BOOLEAN /\ lost' \in BOOLEAN
    <2>1. DOMAIN views = 1..k /\ k \in Nat \ {0}
      OBVIOUS
    <2>2. issued \in Nat \ {0}
      BY DEF ListInv, ListTyped
    <2>3. QED
      BY <2>1, <2>2 DEF List!Issue
  <1>2. ASSUME NEW l \in loads
        PROVE  /\ l.serial \in 1..issued /\ l.serial # issued' /\ LoadTyped(l)'
    <2>1. LoadTyped(l)
      BY DEF ListInv, ListTyped
    <2> HIDE DEF k
    <2>2. l.serial \in 1..issued /\ l.serial # issued' /\ l.serial \in 1..issued'
      BY <1>1, <2>1 DEF LoadTyped
    <2>3. QED
      BY <2>1, <2>2 DEF LoadTyped, List!View, List!Row
  <1>3. ASSUME NEW l, NEW i \in 1..k, l = List!Load(issued + i, views[i], by)
        PROVE  /\ l.serial = issued + i /\ l.by = by /\ l.view = views[i]
               /\ l.total = List!Unknown /\ LoadTyped(l)'
    <2>1. /\ l = [serial |-> issued + i, view |-> views[i], by |-> by,
                  total |-> List!Unknown, pages |-> <<>>]
          /\ views[i] \in List!View
      BY <1>3, ElementOfSeq DEF List!Load
    <2> HIDE DEF k
    <2>2. /\ l.serial = issued + i /\ l.view = views[i] /\ l.by = by
          /\ l.total = List!Unknown /\ l.pages = <<>> /\ DOMAIN l.pages = {}
          /\ l.serial \in 1..issued'
      BY <1>1, <2>1
    <2>3. IsLoad(l)
      BY <2>1 DEF IsLoad
    <2>4. LoadTyped(l)'
      BY <2>1, <2>2, <2>3 DEF LoadTyped, List!View, List!Row
    <2>5. QED
      BY <2>2, <2>4
  <1>4. ASSUME NEW l \in loads'
        PROVE  l \in loads \/ \E i \in 1..k : l = List!Load(issued + i, views[i], by)
    BY <1>1
  <1>5. ListTyped'
    <2>1. \A l \in loads' : LoadTyped(l)'
      BY <1>2, <1>3, <1>4
    <2>2. issued' \in Nat \ {0} /\ (updates' # {} => screen' # "run")
      BY <1>1 DEF ListInv, ListTyped
    <2>3. QED
      BY <1>1, <2>1, <2>2
         DEF ListInv, ListTyped, Statuses, List!View, ShownType, List!Row, UpdateType
  <1>6. /\ shown.serial \in Nat /\ shown.serial <= issued /\ shown.serial <= issued'
        /\ shown.serial # issued'
    <2> HIDE DEF k
    <2>1. QED
      BY <1>1 DEF ListInv, ListTyped, ShownType, Numbered
  <1>7. Numbered'
    <2>1. ASSUME NEW l \in loads', NEW m \in loads', l.serial = m.serial
          PROVE  l = m
      <3>1. CASE l \in loads /\ m \in loads
        BY <2>1, <3>1 DEF ListInv, Numbered
      <3>2. ASSUME NEW a \in loads, NEW i \in 1..k
            PROVE  a.serial # issued + i
        <4>1. a.serial \in 1..issued
          BY <1>2
        <4>2. QED
          BY <1>1, <4>1
      <3>3. ASSUME NEW i \in 1..k, NEW j \in 1..k, issued + i = issued + j
            PROVE  i = j
        BY <1>1, <3>3
      <3>4. QED
        BY <1>3, <1>4, <2>1, <3>1, <3>2, <3>3
    <2>2. ASSUME NEW l \in loads'
          PROVE  l.serial # shown.serial
      <3>1. CASE l \in loads
        BY <3>1 DEF ListInv, Numbered
      <3>2. ASSUME NEW i \in 1..k
            PROVE  issued + i # shown.serial
        BY <1>1, <1>6
      <3>3. QED
        BY <1>3, <1>4, <3>1, <3>2
    <2>3. ASSUME NEW l \in loads', l.serial = issued', l.by = "effect"
          PROVE  l.view = view'
      <3>1. PICK i \in 1..k : l = List!Load(issued + i, views[i], by)
        BY <1>2, <1>4, <2>3
      <3>2. issued + i = issued + k
        BY <1>1, <1>3, <2>3, <3>1
      <3>3. i = k
        BY <1>1, <3>2
      <3>4. QED
        BY <1>3, <2>3, <3>1, <3>3
    <2>4. QED
      BY <1>6, <2>1, <2>2, <2>3 DEF Numbered
  <1>8. Fresh'
    <2>1. ASSUME NEW l \in loads', l.serial = issued'
          PROVE  l.total = List!Unknown
      BY <1>2, <1>3, <1>4, <2>1
    <2>2. \A l \in loads' : l.serial = issued' => AnsweredNow(l)'
      BY <2>1 DEF AnsweredNow
    <2>3. QED
      BY <1>6, <2>2 DEF Fresh
  <1>9. QED
    BY <1>5, <1>7, <1>8 DEF ListInv

\* What is so now is so after a step that leaves the store alone.
LEMMA Kept ==
  ASSUME UNCHANGED <<screen, store>>
  PROVE  /\ \A l : AnsweredNow(l)' <=> AnsweredNow(l)
         /\ \A s : RowsNow(s)' <=> RowsNow(s)
  <1>1. \A v : /\ Matching(v)' = Matching(v) /\ List!Orders(v)' = List!Orders(v)
               /\ RowNow(v)' = RowNow(v)
    BY DEF Matching, List!Matches, List!InFilter, List!StillNew, List!Orders,
           List!InOrder, RowNow, List!Row
  <1>2. \A v : Total(v)' = Total(v)
    BY <1>1 DEF Total
  <1>3. \A v, n, o : List!Page(v, n, o)' = List!Page(v, n, o)
    BY DEF List!Page, List!PageSize
  <1>4. \A v, n, rs : Now(v, n, rs)' <=> Now(v, n, rs)
    BY <1>1, <1>3 DEF Now
  <1>5. \A l : AnsweredNow(l)' <=> AnsweredNow(l)
    BY <1>2, <1>4 DEF AnsweredNow
  <1>6. \A s : RowsNow(s)' <=> RowsNow(s)
    BY <1>1, <1>2, <1>4 DEF RowsNow
  <1>7. QED
    BY <1>5, <1>6

\* A step of the operator that issues no load.
LEMMA OperatorStep ==
  ASSUME ListInv, UNCHANGED <<screen, store, view, shown, loads, issued>>,
         loading' \in BOOLEAN, lost' \in BOOLEAN, selected' \subseteq Entries,
         updates' \subseteq UpdateType, updates' # {} => screen # "run",
         inputs' \in 0..MaxInputs, failures' \in 0..MaxFailures,
         ~lost' /\ (\A u \in updates' : ~u.stored)
           => ~lost /\ \A u \in updates : ~u.stored
  PROVE  ListInv'
  <1>1. ListTyped'
    BY DEF ListInv, ListTyped, Statuses, LoadTyped, List!View, ShownType, List!Row,
           UpdateType
  <1>2. Numbered'
    BY DEF ListInv, Numbered
  <1>3. Fresh'
    BY Kept DEF ListInv, Fresh
  <1>4. QED
    BY <1>1, <1>2, <1>3 DEF ListInv

\* A load is answered: what it has been told is so now.
LEMMA LoadAnswered ==
  ASSUME ListInv, NEW l \in loads, NEW m, NEW t \in Nat, NEW pages,
         m = [serial |-> l.serial, view |-> l.view, by |-> l.by, total |-> t, pages |-> pages],
         \A n \in DOMAIN pages : pages[n] \in Seq(List!Row),
         AnsweredNow(l) => AnsweredNow(m), loads' = (loads \ {l}) \cup {m},
         UNCHANGED <<screen, store, view, shown, selected, loading, lost, updates,
                     issued, inputs, failures>>
  PROVE  ListInv'
  <1>1. /\ m.serial = l.serial /\ m.view = l.view /\ m.by = l.by /\ m.total = t
        /\ m.pages = pages /\ LoadTyped(l)
    BY DEF ListInv, ListTyped
  <1>2. LoadTyped(m)
    <2>1. IsLoad(m)
      BY DEF IsLoad
    <2>2. QED
      BY <1>1, <2>1 DEF LoadTyped
  <1>3. \A a \in loads' : LoadTyped(a)
    BY <1>2 DEF ListInv, ListTyped
  <1>4. \A a \in loads' : LoadTyped(a)'
    BY <1>3 DEF LoadTyped, List!View, List!Row
  <1>5. ListTyped'
    BY <1>4 DEF ListInv, ListTyped, Statuses, List!View, ShownType, List!Row, UpdateType
  <1>6. Numbered'
    BY <1>1 DEF ListInv, Numbered
  <1>7. Fresh'
    <2>1. SUFFICES ASSUME \A u \in updates : ~u.stored, ~lost
                   PROVE  /\ \A a \in loads' : a.serial = issued => AnsweredNow(a)
                          /\ \A s \in {shown} : s.serial = issued => RowsNow(s)
      BY Kept DEF Fresh
    <2>2. QED
      BY <1>1, <2>1 DEF ListInv, Fresh
  <1>8. QED
    BY <1>5, <1>6, <1>7 DEF ListInv

\* The first answer of a load tells the total and one page.
LEMMA AnswerFirstStep ==
  ASSUME ListInv, NEW l \in loads, List!AnswerFirst(l)
  PROVE  ListInv'
  <1> DEFINE n == IF l.view.all THEN 1 ELSE l.view.page
  <1>1. /\ ListTyped /\ LoadTyped(l) /\ l.view \in List!View /\ n \in Nat \ {0}
        /\ l.total = List!Unknown
    BY DEF ListInv, ListTyped, LoadTyped, List!View, List!AnswerFirst
  <1>2. PICK order \in List!Orders(l.view) :
          List!Replaced(l, [l EXCEPT !.total = Len(order),
                              !.pages = [k \in {n} |-> List!Page(l.view, n, order)]])
    BY DEF List!AnswerFirst
  <1> DEFINE t == Len(order)
             pages == [k \in {n} |-> List!Page(l.view, n, order)]
             m == [l EXCEPT !.total = t, !.pages = pages]
  <1>3. /\ t = Total(l.view) /\ t \in Nat
        /\ List!Page(l.view, n, order) \in Seq(RowNow(l.view))
    BY <1>1, PageProperties
  <1>4. List!Page(l.view, n, order) \in Seq(List!Row)
    BY <1>3, RowNowIsRow
  <1> HIDE DEF n
  <1>5. /\ DOMAIN pages = {n} /\ pages[n] = List!Page(l.view, n, order)
        /\ \A k \in DOMAIN pages : k = n /\ pages[k] \in Seq(List!Row)
    BY <1>4
  <1>6. /\ loads' = (loads \ {l}) \cup {m}
        /\ UNCHANGED <<screen, store, view, shown, selected, loading, lost, updates,
                       issued, inputs, failures>>
    BY <1>2 DEF List!AnswerFirst, List!Replaced
  <1> HIDE DEF pages, t
  <1>7. m = [serial |-> l.serial, view |-> l.view, by |-> l.by, total |-> t, pages |-> pages]
    <2>1. PICK a, b, c, d, e :
            l = [serial |-> a, view |-> b, by |-> c, total |-> d, pages |-> e]
      BY <1>1 DEF LoadTyped, IsLoad
    <2>2. l.serial = a /\ l.view = b /\ l.by = c
      BY <2>1
    <2> HIDE DEF m
    <2>3. m = [l EXCEPT !.total = t, !.pages = pages]
      BY DEF m
    <2>4. m = [serial |-> a, view |-> b, by |-> c, total |-> t, pages |-> pages]
      BY ONLY <2>1, <2>3
    <2>5. QED
      BY <2>2, <2>4
  <1> HIDE DEF m
  <1>8. AnsweredNow(m)
    BY <1>3, <1>5, <1>7 DEF AnsweredNow, Now
  <1>9. ListInv
    OBVIOUS
  <1>10. QED
    BY ONLY <1>3, <1>5, <1>6, <1>7, <1>8, <1>9, l \in loads, LoadAnswered

\* Each further answer of a load is one more page.
LEMMA AnswerRestStep ==
  ASSUME ListInv, NEW l \in loads, List!AnswerRest(l)
  PROVE  ListInv'
  <1>1. /\ ListTyped /\ LoadTyped(l) /\ l.view \in List!View /\ l.total # List!Unknown
        /\ l.total \in Nat
    BY DEF ListInv, ListTyped, LoadTyped, List!AnswerRest
  <1>2. PICK n \in List!Needed(l) \ DOMAIN l.pages, order \in List!Orders(l.view) :
          List!Replaced(l, [l EXCEPT !.pages =
            [k \in DOMAIN l.pages \cup {n} |->
              IF k = n THEN List!Page(l.view, n, order) ELSE l.pages[k]]])
    BY DEF List!AnswerRest
  <1> DEFINE t == l.total
             pages == [k \in DOMAIN l.pages \cup {n} |->
                        IF k = n THEN List!Page(l.view, n, order) ELSE l.pages[k]]
             m == [l EXCEPT !.pages = pages]
  <1>3. n \in Nat \ {0}
    <2>1. AllPerPage \in Nat \ {0}
      BY ConsoleAssumption DEF List!ListConstants
    <2>2. List!Pages(l.total, AllPerPage) \in Nat \ {0}
      BY <1>1, <2>1, PagesHold
    <2>3. QED
      BY <1>1, <1>2, <2>2 DEF List!Needed, List!View
  <1>4. List!Page(l.view, n, order) \in Seq(RowNow(l.view))
    BY <1>1, <1>3, PageProperties
  <1>5. List!Page(l.view, n, order) \in Seq(List!Row)
    BY <1>4, RowNowIsRow
  <1>6. /\ DOMAIN pages = DOMAIN l.pages \cup {n}
        /\ \A k \in DOMAIN pages :
             /\ pages[k] \in Seq(List!Row)
             /\ pages[k] = IF k = n THEN List!Page(l.view, n, order) ELSE l.pages[k]
    BY <1>1, <1>5 DEF LoadTyped
  <1>7. /\ loads' = (loads \ {l}) \cup {m}
        /\ UNCHANGED <<screen, store, view, shown, selected, loading, lost, updates,
                       issued, inputs, failures>>
    BY <1>2 DEF List!AnswerRest, List!Replaced
  <1> HIDE DEF pages
  <1>8. m = [serial |-> l.serial, view |-> l.view, by |-> l.by, total |-> t, pages |-> pages]
    BY <1>1 DEF LoadTyped, IsLoad
  <1> HIDE DEF m
  <1>9. AnsweredNow(l) => AnsweredNow(m)
    BY <1>1, <1>6, <1>8 DEF AnsweredNow, Now
  <1>10. ListInv /\ t \in Nat /\ \A k \in DOMAIN pages : pages[k] \in Seq(List!Row)
    BY <1>1, <1>6
  <1> HIDE DEF t
  <1>11. QED
    BY ONLY <1>7, <1>8, <1>9, <1>10, l \in loads, LoadAnswered

\* A load that is complete arrives: its rows are those of now when it is the last one.
LEMMA ListArriveStep ==
  ASSUME ListInv, NEW l \in loads, List!Arrive(l)
  PROVE  ListInv'
  <1> DEFINE m == [rows |-> List!Rows(l), total |-> l.total, view |-> l.view,
                   serial |-> l.serial, by |-> l.by]
  <1>1. /\ List!Complete(l) /\ loads' = loads \ {l} /\ loading' = FALSE /\ shown' = m
        /\ UNCHANGED <<screen, store, view, selected, lost, updates, issued, inputs, failures>>
    BY DEF List!Arrive
  <1>2. /\ LoadTyped(l) /\ l.serial \in 1..issued /\ issued \in Nat /\ l.total \in Nat
        /\ l.serial \in Nat
    BY <1>1 DEF ListInv, ListTyped, LoadTyped, List!Complete
  <1>3. /\ List!Rows(l) \in Seq(List!Row)
        /\ AnsweredNow(l) =>
             /\ List!Rows(l) \in Seq(RowNow(l.view))
             /\ ~l.view.all => Now(l.view, l.view.page, List!Rows(l))
             /\ l.view.all => Len(List!Rows(l)) = Total(l.view)
    BY <1>1, RowsOfLoad DEF ListInv
  <1>4. /\ m.rows = List!Rows(l) /\ m.total = l.total /\ m.view = l.view
        /\ m.serial = l.serial /\ m.by = l.by
    OBVIOUS
  <1>5. m \in ShownType
    BY <1>2, <1>3 DEF ShownType, LoadTyped
  <1> HIDE DEF m
  <1>6. ListTyped'
    <2>1. \A a \in loads' : LoadTyped(a)'
      BY <1>1 DEF ListInv, ListTyped, LoadTyped, List!View, List!Row
    <2>2. QED
      BY <1>1, <1>5, <2>1
         DEF ListInv, ListTyped, Statuses, List!View, ShownType, List!Row, UpdateType
  <1>7. Numbered'
    <2>1. l.serial <= issued
      BY <1>2
    <2>2. QED
      BY <1>1, <1>4, <2>1 DEF ListInv, Numbered
  <1>8. Fresh'
    <2>1. SUFFICES ASSUME \A u \in updates : ~u.stored, ~lost
                   PROVE  /\ \A a \in loads' : a.serial = issued => AnsweredNow(a)
                          /\ m.serial = issued => RowsNow(m)
      BY <1>1, Kept DEF Fresh
    <2>2. l.serial = issued => AnsweredNow(l)
      BY <2>1 DEF ListInv, Fresh
    <2>3. AnsweredNow(l) => l.total = Total(l.view)
      BY <1>1 DEF AnsweredNow, List!Complete
    <2>4. m.serial = issued => RowsNow(m)
      BY <1>3, <1>4, <2>2, <2>3 DEF RowsNow
    <2>5. QED
      BY <1>1, <2>1, <2>4 DEF ListInv, Fresh
  <1>9. QED
    BY <1>6, <1>7, <1>8 DEF ListInv

\* A request fails: what is shown is as good as before, unless an update was stored.
LEMMA ListFailSteps ==
  ASSUME ListInv
  PROVE  /\ \A l \in loads : List!LoadFails(l) => ListInv'
         /\ \A u \in updates : List!UpdateFailed(u) => ListInv'
  <1>1. ListTyped /\ MaxFailures \in Nat
    BY ConsoleAssumption DEF ListInv, List!ListConstants
  <1>2. ASSUME NEW l \in loads, List!LoadFails(l)
        PROVE  ListInv'
    <2>1. /\ failures' \in 0..MaxFailures /\ loads' = loads \ {l} /\ loading' = FALSE
          /\ UNCHANGED <<screen, store, view, shown, selected, lost, updates, issued, inputs>>
      BY <1>1, <1>2 DEF List!LoadFails, ListTyped
    <2>2. \A a \in loads' : LoadTyped(a)'
      BY <1>1, <2>1 DEF ListTyped, LoadTyped, List!View, List!Row
    <2>3. ListTyped'
      BY <1>1, <2>1, <2>2
         DEF ListTyped, Statuses, List!View, ShownType, List!Row, UpdateType
    <2>4. Numbered'
      BY <2>1 DEF ListInv, Numbered
    <2>5. Fresh'
      BY <2>1, Kept DEF ListInv, Fresh
    <2>6. QED
      BY <2>3, <2>4, <2>5 DEF ListInv
  <1>3. ASSUME NEW u \in updates, List!UpdateFailed(u)
        PROVE  ListInv'
    <2>1. /\ failures' \in 0..MaxFailures /\ updates' = updates \ {u} /\ lost' = (lost \/ u.stored)
          /\ UNCHANGED <<screen, store, view, shown, selected, loading, loads, issued, inputs>>
      BY <1>1, <1>3 DEF List!UpdateFailed, ListTyped
    <2>2. /\ loading' \in BOOLEAN /\ selected' \subseteq Entries
          /\ updates' \subseteq UpdateType
          /\ (updates' # {} => screen # "run") /\ inputs' \in 0..MaxInputs
      BY <1>1, <2>1 DEF ListTyped
    <2>3. QED
      BY <2>1, <2>2, OperatorStep
  <1>4. QED
    BY <1>2, <1>3

\* A view is a record of a filter, a page and whether the list is expanded.
LEMMA ViewParts ==
  /\ \A f \in List!Screens[screen].filters, n \in Nat \ {0}, b \in BOOLEAN :
       [filter |-> f, page |-> n, all |-> b] \in List!View
  /\ \A v \in List!View :
       \E f \in List!Screens[screen].filters, n \in Nat \ {0}, b \in BOOLEAN :
         v = [filter |-> f, page |-> n, all |-> b]
  <1> DEFINE F == List!Screens[screen].filters
             P == Nat \ {0}
  <1>1. List!View = [filter : F, page : P, all : BOOLEAN]
    BY DEF List!View
  <1> HIDE DEF F, P
  <1>2. /\ \A f \in F, n \in P, b \in BOOLEAN :
            [filter |-> f, page |-> n, all |-> b] \in List!View
        /\ \A v \in List!View : \E f \in F, n \in P, b \in BOOLEAN :
             v = [filter |-> f, page |-> n, all |-> b]
    BY <1>1
  <1>3. QED
    BY <1>2 DEF F, P

\* A parameter changes: the last load that the change issues has the new ones.
LEMMA ParameterSteps ==
  ASSUME ListInv
  PROVE  /\ \A f \in List!Screens[screen].filters : List!ChangeFilter(f) => ListInv'
         /\ \A n : List!TurnPage(n) => ListInv'
         /\ List!ToggleExpanded => ListInv'
  <1>1. /\ ListTyped /\ view \in List!View /\ MaxInputs \in Nat /\ inputs \in 0..MaxInputs
        /\ selected \subseteq Entries /\ updates \subseteq UpdateType
        /\ failures \in 0..MaxFailures /\ shown.total \in Nat /\ PerPage \in Nat \ {0}
        /\ (view.all => view.page = 1)
    BY ConsoleAssumption DEF ListInv, ListTyped, ShownType, List!ListConstants
  <1>2. List!Input => inputs' \in 0..MaxInputs
    BY <1>1 DEF List!Input
  <1>3. ASSUME NEW f \in List!Screens[screen].filters, List!ChangeFilter(f)
        PROVE  ListInv'
    <2> DEFINE old == [view EXCEPT !.filter = f]
               views == IF view.page = 1 THEN <<view'>> ELSE <<old, view'>>
    <2>1. /\ view' = [view EXCEPT !.filter = f, !.page = 1] /\ List!Issue(views, "effect")
          /\ inputs' \in 0..MaxInputs
          /\ UNCHANGED <<screen, store, shown, selected, updates, failures>>
      BY <1>2, <1>3 DEF List!ChangeFilter
    <2>2. old \in List!View /\ view' \in List!View /\ view'.page = 1
      <3> DEFINE w == view'
      <3>1. w = [view EXCEPT !.filter = f, !.page = 1] /\ old = [view EXCEPT !.filter = f]
        BY <2>1
      <3>2. PICK a \in List!Screens[screen].filters, n \in Nat \ {0}, b \in BOOLEAN :
              view = [filter |-> a, page |-> n, all |-> b]
        BY <1>1, ViewParts
      <3> HIDE DEF old, w
      <3>3. w = [filter |-> f, page |-> 1, all |-> b]
        BY ONLY <3>1, <3>2
      <3>4. old = [filter |-> f, page |-> n, all |-> b]
        BY ONLY <3>1, <3>2
      <3>5. w \in List!View /\ w.page = 1 /\ old \in List!View
        BY <3>3, <3>4, ViewParts
      <3>6. QED
        BY <3>5 DEF w
    <2> HIDE DEF old
    <2> DEFINE new == view'
    <2>3. new \in List!View
      BY <2>2
    <2>4. views \in Seq(List!View) /\ Len(views) # 0 /\ views[Len(views)] = new
      <3> HIDE DEF new
      <3>1. <<new>> \in Seq(List!View) /\ Len(<<new>>) = 1 /\ <<new>>[1] = new
        BY <2>3
      <3>2. <<old, new>> \in Seq(List!View) /\ Len(<<old, new>>) = 2
            /\ <<old, new>>[2] = new
        BY <2>2, <2>3
      <3>3. views = IF view.page = 1 THEN <<new>> ELSE <<old, new>>
        BY DEF new
      <3> HIDE DEF views
      <3>4. CASE view.page = 1
        BY <3>1, <3>3, <3>4
      <3>5. CASE view.page # 1
        BY <3>2, <3>3, <3>5
      <3>6. QED
        BY <3>4, <3>5
    <2> HIDE DEF views
    <2>5. selected' \subseteq Entries /\ updates' \subseteq UpdateType
          /\ updates' \subseteq updates
          /\ failures' \in 0..MaxFailures /\ ListInv
      BY <1>1, <2>1
    <2>6. QED
      BY <2>1, <2>2, <2>4, <2>5, IssueStep
  <1>4. ASSUME NEW n, List!TurnPage(n)
        PROVE  ListInv'
    <2>1. /\ view' = [view EXCEPT !.page = n] /\ List!Issue(<<view'>>, "effect")
          /\ inputs' \in 0..MaxInputs /\ ~view.all
          /\ n \in 1..List!Pages(shown.total, PerPage) \cup 1..view.page
          /\ UNCHANGED <<screen, store, shown, selected, updates, failures>>
      BY <1>2, <1>4 DEF List!TurnPage
    <2>2. n \in Nat \ {0}
      <3>1. view.page \in Nat
        BY <1>1 DEF List!View
      <3>2. List!Pages(shown.total, PerPage) \in Nat
        BY <1>1, PagesHold
      <3>3. QED
        BY <2>1, <3>1, <3>2
    <2>3. view' \in List!View /\ view'.all = FALSE
      BY <1>1, <2>1, <2>2 DEF List!View
    <2> DEFINE new == view'
               views == <<new>>
    <2>4. views \in Seq(List!View) /\ Len(views) # 0 /\ views[Len(views)] = new
      BY <2>3
    <2>5. List!Issue(views, "effect")
      BY <2>1
    <2> HIDE DEF views
    <2>6. selected' \subseteq Entries /\ updates' \subseteq UpdateType
          /\ updates' \subseteq updates
          /\ failures' \in 0..MaxFailures /\ ListInv
      BY <1>1, <2>1
    <2>7. QED
      BY <2>1, <2>3, <2>4, <2>5, <2>6, IssueStep
  <1>5. ASSUME List!ToggleExpanded
        PROVE  ListInv'
    <2>1. /\ view' = [view EXCEPT !.all = ~@, !.page = 1] /\ List!Issue(<<view'>>, "effect")
          /\ inputs' \in 0..MaxInputs /\ selected' = {}
          /\ UNCHANGED <<screen, store, shown, updates, failures>>
      BY <1>2, <1>5 DEF List!ToggleExpanded
    <2>2. view' \in List!View /\ view'.page = 1
      <3> DEFINE w == view'
      <3>1. w = [view EXCEPT !.all = ~@, !.page = 1]
        BY <2>1
      <3>2. PICK a \in List!Screens[screen].filters, n \in Nat \ {0}, b \in BOOLEAN :
              view = [filter |-> a, page |-> n, all |-> b]
        BY <1>1, ViewParts
      <3> HIDE DEF w
      <3> DEFINE c == ~b
      <3>3. w = [filter |-> a, page |-> 1, all |-> c]
        BY ONLY <3>1, <3>2
      <3> HIDE DEF c
      <3>4. w \in List!View /\ w.page = 1
        <4>1. c \in BOOLEAN /\ 1 \in Nat \ {0}
          BY DEF c
        <4>2. w \in List!View
          BY <3>3, <4>1, ViewParts, Zenon
        <4>3. w.page = 1
          BY ONLY <3>3
        <4>4. QED
          BY <4>2, <4>3
      <3>5. QED
        BY <3>4 DEF w
    <2> DEFINE new == view'
               views == <<new>>
    <2>3. views \in Seq(List!View) /\ Len(views) # 0 /\ views[Len(views)] = new
      BY <2>2
    <2>4. List!Issue(views, "effect")
      BY <2>1
    <2> HIDE DEF views
    <2>5. selected' \subseteq Entries /\ updates' \subseteq UpdateType
          /\ updates' \subseteq updates
          /\ failures' \in 0..MaxFailures /\ ListInv
      BY <1>1, <2>1
    <2>6. QED
      BY <2>1, <2>2, <2>3, <2>4, <2>5, IssueStep
  <1>6. QED
    BY <1>3, <1>4, <1>5

\* A status request is stored, which makes every row stale, and returns, which reloads.
LEMMA UpdateSteps ==
  ASSUME ListInv, NEW u \in updates
  PROVE  /\ List!UpdateStored(u) => ListInv'
         /\ List!UpdateReturned(u) => ListInv'
  <1>1. /\ ListTyped /\ u \in UpdateType /\ screen # "run" /\ screen \in DOMAIN List!Screens
        /\ view \in List!View /\ (view.all => view.page = 1)
        /\ updates \subseteq UpdateType /\ selected \subseteq Entries
        /\ inputs \in 0..MaxInputs /\ failures \in 0..MaxFailures
    BY DEF ListInv, ListTyped
  <1>2. ASSUME List!UpdateStored(u)
        PROVE  ListInv'
    <2> DEFINE w == [u EXCEPT !.stored = TRUE]
    <2>1. /\ store' = [e \in Entries |-> IF e \in u.ids THEN u.status ELSE store[e]]
          /\ updates' = (updates \ {u}) \cup {w}
          /\ UNCHANGED <<screen, view, shown, selected, loading, lost, loads, issued,
                         inputs, failures>>
      BY <1>2 DEF List!UpdateStored
    <2>2. w \in UpdateType /\ w.stored
      BY <1>1 DEF UpdateType
    <2> HIDE DEF w
    <2>3. Statuses = List!UserStatus
      BY <1>1 DEF Statuses, List!Screens, List!JobsScreen, List!ReadyScreen
    <2>4. store' \in [Entries -> Statuses]
      <3>1. u.status \in Statuses /\ store \in [Entries -> Statuses]
        BY <1>1, <2>3 DEF UpdateType, ListTyped
      <3>2. QED
        BY <2>1, <3>1
    <2>5. updates' \subseteq UpdateType
      BY <1>1, <2>1, <2>2
    <2>6. \A l \in loads' : LoadTyped(l)'
      BY <1>1, <2>1 DEF ListTyped, LoadTyped, List!View, List!Row
    <2>7. ListTyped'
      BY <1>1, <2>1, <2>4, <2>5, <2>6
         DEF ListTyped, Statuses, List!View, ShownType, List!Row, UpdateType
    <2>8. Numbered'
      BY <2>1 DEF ListInv, Numbered
    <2>9. Fresh'
      BY <2>1, <2>2 DEF Fresh
    <2>10. QED
      BY <2>7, <2>8, <2>9 DEF ListInv
  <1>3. ASSUME List!UpdateReturned(u)
        PROVE  ListInv'
    <2> DEFINE views == <<u.view>>
    <2>1. /\ updates' = updates \ {u} /\ List!Issue(views, "action")
          /\ selected' \in {{}, selected}
          /\ UNCHANGED <<screen, store, view, shown, inputs, failures>>
      BY <1>3 DEF List!UpdateReturned
    <2>2. views \in Seq(List!View) /\ Len(views) # 0
      BY <1>1 DEF UpdateType
    <2> HIDE DEF views
    <2>3. /\ selected' \subseteq Entries /\ updates' \subseteq UpdateType
          /\ updates' \subseteq updates
          /\ inputs' \in 0..MaxInputs /\ failures' \in 0..MaxFailures
          /\ view' \in List!View /\ (view'.all => view'.page = 1) /\ ListInv
      BY <1>1, <2>1
    <2>4. QED
      BY <2>1, <2>2, <2>3, IssueStep
  <1>4. QED
    BY <1>2, <1>3

\* Ticking rows and sending a status request change nothing that is shown or loaded.
LEMMA ClickSteps ==
  ASSUME ListInv
  PROVE  /\ \A e \in Entries : List!Toggle(e) => ListInv'
         /\ List!ToggleAll => ListInv'
         /\ List!Clear => ListInv'
         /\ \A r \in List!ToSet(shown.rows) : List!HandleAction(r) => ListInv'
         /\ \A s \in List!UserStatus : List!HandleBulk(s) => ListInv'
  <1>1. /\ ListTyped /\ view \in List!View /\ MaxInputs \in Nat /\ inputs \in 0..MaxInputs
        /\ selected \subseteq Entries /\ updates \subseteq UpdateType
        /\ failures \in 0..MaxFailures /\ loading \in BOOLEAN /\ lost \in BOOLEAN
        /\ (updates # {} => screen # "run") /\ screen \in DOMAIN List!Screens
    BY ConsoleAssumption DEF ListInv, ListTyped, List!ListConstants
  <1>2. \A r \in List!ToSet(shown.rows) : r \in List!Row /\ r.entry \in Entries
    <2>1. shown.rows \in Seq(List!Row)
      BY <1>1 DEF ListTyped, ShownType
    <2>2. \A i \in DOMAIN shown.rows : shown.rows[i] \in List!Row
      BY <2>1, ElementOfSeq
    <2>3. QED
      BY <2>2 DEF List!ToSet, List!Row
  <1>3. List!Listed \subseteq Entries
    BY <1>2 DEF List!Listed
  <1>4. ASSUME NEW s \in SUBSET Entries, selected' = s,
               UNCHANGED <<screen, store, view, shown, loading, lost, loads, updates,
                           issued, inputs, failures>>
        PROVE  ListInv'
    BY <1>1, <1>4, OperatorStep
  <1>5. ASSUME NEW ids \in SUBSET Entries, NEW s \in List!UserStatus, NEW b \in BOOLEAN,
               screen # "run", List!Send(ids, s, b)
        PROVE  ListInv'
    <2> DEFINE u == [click |-> inputs, ids |-> ids, status |-> s, bulk |-> b,
                     view |-> view, stored |-> FALSE]
    <2>1. /\ updates' = updates \cup {u} /\ inputs' \in 0..MaxInputs
          /\ UNCHANGED <<screen, store, view, shown, selected, loading, lost, loads,
                         issued, failures>>
      BY <1>1, <1>5 DEF List!Send, List!Input
    <2>2. u \in UpdateType /\ ~u.stored
      BY <1>1 DEF UpdateType
    <2> HIDE DEF u
    <2>3. /\ updates' \subseteq UpdateType
          /\ (\A v \in updates' : ~v.stored) => \A v \in updates : ~v.stored
      BY <1>1, <2>1, <2>2
    <2>4. QED
      BY <1>1, <1>5, <2>1, <2>3, OperatorStep
  <1>6. ASSUME NEW e \in Entries, List!Toggle(e)
        PROVE  ListInv'
    <2>1. /\ selected' \in SUBSET Entries
          /\ UNCHANGED <<screen, store, view, shown, loading, lost, loads, updates,
                         issued, inputs, failures>>
      BY <1>1, <1>6 DEF List!Toggle, List!Ticking
    <2>2. QED
      BY <1>4, <2>1
  <1>7. ASSUME List!ToggleAll
        PROVE  ListInv'
    <2>1. /\ selected' \in SUBSET Entries
          /\ UNCHANGED <<screen, store, view, shown, loading, lost, loads, updates,
                         issued, inputs, failures>>
      BY <1>3, <1>7 DEF List!ToggleAll, List!Ticking
    <2>2. QED
      BY <1>4, <2>1
  <1>8. ASSUME List!Clear
        PROVE  ListInv'
    <2>1. /\ selected' \in SUBSET Entries
          /\ UNCHANGED <<screen, store, view, shown, loading, lost, loads, updates,
                         issued, inputs, failures>>
      BY <1>8 DEF List!Clear
    <2>2. QED
      BY <1>4, <2>1
  <1>9. ASSUME NEW r \in List!ToSet(shown.rows), List!HandleAction(r)
        PROVE  ListInv'
    <2>1. {r.entry} \in SUBSET Entries /\ screen # "run"
          /\ {"SAVED", "ARCHIVED"} \subseteq List!UserStatus
      BY <1>2, <1>9 DEF List!HandleAction, List!UserStatus
    <2>2. List!Send({r.entry}, "SAVED", FALSE) \/ List!Send({r.entry}, "ARCHIVED", FALSE)
      BY <1>9 DEF List!HandleAction
    <2>3. QED
      BY <1>5, <2>1, <2>2
  <1>10. ASSUME NEW s \in List!UserStatus, List!HandleBulk(s)
         PROVE  ListInv'
    <2>1. screen # "run" /\ List!Send(selected, s, TRUE)
      <3>1. List!Screens["run"].bulk = {}
        BY DEF List!Screens, List!RunScreen
      <3>2. QED
        BY <1>10, <3>1 DEF List!HandleBulk
    <2>2. QED
      BY <1>1, <1>5, <2>1
  <1>11. QED
    BY <1>6, <1>7, <1>8, <1>9, <1>10

--------------------------------------------------------------------------------
(* The theorems.                                                           *)

\* A list page as it is opened.
LEMMA ListInit == List!Init => ListInv
  <1> SUFFICES ASSUME List!Init
               PROVE  ListInv
    OBVIOUS
  <1> DEFINE l == List!Load(1, view, "effect")
  <1>1. /\ screen \in DOMAIN List!Screens /\ store \in [Entries -> Statuses]
        /\ view = [filter |-> List!Screens[screen].first, page |-> 1, all |-> FALSE]
        /\ shown = [rows |-> <<>>, total |-> 0, view |-> view, serial |-> 0, by |-> "effect"]
        /\ selected = {} /\ lost = FALSE /\ loading = TRUE
        /\ loads = {l} /\ updates = {} /\ issued = 1 /\ inputs = 0 /\ failures = 0
    BY DEF List!Init, Statuses
  <1>2. /\ l = [serial |-> 1, view |-> view, by |-> "effect", total |-> List!Unknown,
                pages |-> <<>>]
    BY DEF List!Load
  <1> HIDE DEF l
  <1>3. /\ l.serial = 1 /\ l.view = view /\ l.by = "effect" /\ l.total = List!Unknown
        /\ l.pages = <<>> /\ DOMAIN l.pages = {} /\ IsLoad(l)
    <2>1. IsLoad(l)
      BY ONLY <1>2 DEF IsLoad
    <2>2. /\ l.serial = 1 /\ l.view = view /\ l.by = "effect" /\ l.total = List!Unknown
          /\ l.pages = <<>>
      BY ONLY <1>2
    <2>3. DOMAIN l.pages = {}
      BY ONLY <2>2
    <2>4. QED
      BY <2>1, <2>2, <2>3
  <1>4. view \in List!View /\ view.all = FALSE
    <2>1. List!Screens[screen].first \in List!Screens[screen].filters
      BY <1>1 DEF List!Screens, List!JobsScreen, List!ReadyScreen, List!RunScreen
    <2>2. 1 \in Nat \ {0} /\ FALSE \in BOOLEAN
      OBVIOUS
    <2>3. view \in List!View
      BY <1>1, <2>1, <2>2, ViewParts, Zenon
    <2>4. QED
      BY <1>1, <2>3
  <1>5. /\ shown \in ShownType /\ shown.serial = 0
    <2>1. <<>> \in Seq(List!Row)
      OBVIOUS
    <2>2. QED
      BY <1>1, <1>4, <2>1 DEF ShownType
  <1>6. ListTyped
    <2>1. LoadTyped(l)
      BY <1>1, <1>3, <1>4 DEF LoadTyped
    <2>2. MaxInputs \in Nat /\ MaxFailures \in Nat
      BY ConsoleAssumption DEF List!ListConstants
    <2>3. loading \in BOOLEAN /\ lost \in BOOLEAN
      BY <1>1
    <2>4. inputs \in 0..MaxInputs /\ failures \in 0..MaxFailures /\ issued \in Nat \ {0}
      BY <1>1, <2>2
    <2>5. selected \subseteq Entries /\ updates \subseteq UpdateType /\ updates = {}
      BY <1>1
    <2>6. \A a \in loads : LoadTyped(a)
      BY <1>1, <2>1
    <2>7. QED
      BY <1>1, <1>4, <1>5, <2>3, <2>4, <2>5, <2>6 DEF ListTyped
  <1>7. Numbered
    BY <1>1, <1>3, <1>5 DEF Numbered
  <1>8. Fresh
    BY <1>1, <1>3, <1>5 DEF Fresh, AnsweredNow
  <1>9. QED
    BY <1>6, <1>7, <1>8 DEF ListInv

\* Every step of a list page.
LEMMA ListNext == ListInv /\ List!Next => ListInv'
  <1> SUFFICES ASSUME ListInv, List!Next
               PROVE  ListInv'
    OBVIOUS
  <1>1. CASE \E l \in loads : List!AnswerFirst(l) \/ List!AnswerRest(l)
                              \/ List!Arrive(l) \/ List!LoadFails(l)
    BY <1>1, AnswerFirstStep, AnswerRestStep, ListArriveStep, ListFailSteps
  <1>2. CASE \/ \E f \in List!Screens[screen].filters : List!ChangeFilter(f)
             \/ (\E n : List!TurnPage(n)) \/ List!ToggleExpanded
    BY <1>2, ParameterSteps
  <1>3. CASE \/ List!ToggleAll \/ List!Clear \/ \E e \in Entries : List!Toggle(e)
             \/ \E r \in List!ToSet(shown.rows) : List!HandleAction(r)
             \/ \E s \in List!UserStatus : List!HandleBulk(s)
    <2>1. CASE List!ToggleAll \/ List!Clear \/ \E e \in Entries : List!Toggle(e)
      BY <2>1, ClickSteps
    <2>2. CASE \E r \in List!ToSet(shown.rows) : List!HandleAction(r)
      BY <2>2, ClickSteps
    <2>3. CASE \E s \in List!UserStatus : List!HandleBulk(s)
      BY <2>3, ClickSteps
    <2>4. QED
      BY <1>3, <2>1, <2>2, <2>3
  <1>4. CASE \E u \in updates : List!UpdateStored(u) \/ List!UpdateReturned(u)
                                \/ List!UpdateFailed(u)
    BY <1>4, UpdateSteps, ListFailSteps
  <1>5. QED
    BY <1>1, <1>2, <1>3, <1>4 DEF List!Next

\* A settled page shows what its endpoint would answer now.
LEMMA ListFacts ==
  ASSUME ListInv
  PROVE  List!TypeOK /\ List!RowsCurrent
  <1>1. List!TypeOK
    BY DEF ListInv, ListTyped, List!TypeOK, Statuses, ShownType, LoadTyped, UpdateType
  <1>2. ASSUME List!Settled
        PROVE  RowsNow(shown) /\ shown.view = view
    <2>1. /\ updates = {} /\ ~lost /\ shown.serial = issued
          /\ (shown.by = "action" => shown.view = view)
      BY <1>2 DEF List!Settled
    <2>2. RowsNow(shown)
      BY <2>1 DEF ListInv, Fresh
    <2>3. shown.by \in {"effect", "action"}
      BY DEF ListInv, ListTyped, ShownType
    <2>4. shown.by = "effect" => shown.view = view
      BY <2>1 DEF ListInv, Numbered
    <2>5. QED
      BY <2>1, <2>2, <2>3, <2>4
  <1>3. ASSUME List!Settled
        PROVE  /\ \A r \in List!ToSet(shown.rows) :
                    r.entry \in Matching(view) /\ r.status = store[r.entry]
               /\ shown.total = Total(view)
               /\ ~view.all => \E order \in List!Orders(view) :
                                 shown.rows = List!Page(view, view.page, order)
               /\ view.all => Len(shown.rows) = Total(view)
    <2>1. /\ shown.rows \in Seq(RowNow(view)) /\ shown.total = Total(view)
          /\ ~view.all => Now(view, view.page, shown.rows)
          /\ view.all => Len(shown.rows) = Total(view)
      BY <1>2, <1>3 DEF RowsNow
    <2>2. \A i \in DOMAIN shown.rows : shown.rows[i] \in RowNow(view)
      BY <2>1, ElementOfSeq
    <2>3. \A r \in List!ToSet(shown.rows) : r \in RowNow(view)
      BY <2>2 DEF List!ToSet
    <2>4. QED
      BY <2>1, <2>3 DEF RowNow, Now
  <1>4. List!RowsCurrent
    BY <1>3 DEF List!RowsCurrent, Matching, Total
  <1>5. QED
    BY <1>1, <1>4

\* Both pages keep their invariants, each while the other is closed.
ConsoleInv == route \in {"list", "runs"} /\ ListInv /\ TableInv

\* A page that is closed keeps its invariant.
LEMMA ClosedPages ==
  /\ ListInv /\ UNCHANGED list => ListInv'
  /\ TableInv /\ UNCHANGED table => TableInv'
  <1>1. ASSUME ListInv, UNCHANGED list
        PROVE  ListInv'
    <2>1. UNCHANGED <<screen, store, view, shown, selected, loading, lost, loads, updates,
                      issued, inputs, failures>>
      BY <1>1 DEF list
    <2>2. /\ loading' \in BOOLEAN /\ lost' \in BOOLEAN /\ selected' \subseteq Entries
          /\ updates' \subseteq UpdateType /\ (updates' # {} => screen # "run")
          /\ inputs' \in 0..MaxInputs /\ failures' \in 0..MaxFailures
          /\ (~lost' /\ (\A u \in updates' : ~u.stored)
                => ~lost /\ \A u \in updates : ~u.stored)
      BY <1>1, <2>1 DEF ListInv, ListTyped
    <2>3. QED
      BY <1>1, <2>1, <2>2, OperatorStep
  <1>2. ASSUME TableInv, UNCHANGED table
        PROVE  TableInv'
    <2>1. UNCHANGED <<runs, displayed, offered, requests, calls, late, failed, faults>>
      BY <1>2 DEF table
    <2>2. TableTyped' /\ AllPast'
      BY <1>2, <2>1 DEF TableInv, TableTyped, AllPast, Past
    <2>3. \A r \in Runs : Covered(r) => Covered(r)'
      BY <2>1 DEF Covered
    <2>4. QED
      BY <1>2, <2>1, <2>2, <2>3 DEF TableInv
  <1>3. QED
    BY <1>1, <1>2

\* The pages' invariants hold in every state of the console.
LEMMA ConsoleInvariance == Spec => []ConsoleInv
  <1>1. Init => ConsoleInv
    BY ListInit, TableInit DEF Init, ConsoleInv
  <1>2. ConsoleInv /\ [Next]_vars => ConsoleInv'
    <2> SUFFICES ASSUME ConsoleInv, [Next]_vars
                 PROVE  ConsoleInv'
      OBVIOUS
    <2>1. CASE ListStep
      BY <2>1, ListNext, ClosedPages DEF ConsoleInv, ListStep
    <2>2. CASE RunsStep
      BY <2>2, TableNext, ClosedPages DEF ConsoleInv, RunsStep
    <2>3. CASE UNCHANGED vars
      BY <2>3, ClosedPages DEF ConsoleInv, vars
    <2>4. QED
      BY <2>1, <2>2, <2>3 DEF Next
  <1>3. QED
    BY <1>1, <1>2, PTL DEF Spec

\* The pages' variables have their types, whatever overtakes what: ListPages and
\* RunsPage hold one load for each form that awaits one (useEffect, load and the
\* handlers of JobsPage.tsx, ReadyToApplyPage.tsx, RunItemsPage.tsx and RunsPage.tsx).
THEOREM ConsoleTypes == Spec => []TypeOK
  <1>1. ConsoleInv => TypeOK
    BY ListFacts, TableFacts DEF ConsoleInv, TypeOK
  <1>2. QED
    BY <1>1, ConsoleInvariance, PTL

\* A list page at rest shows the rows that its endpoint would answer now: every change
\* of a parameter and every status request is followed by a load that was answered
\* after it (the useEffect chain and the reloads of JobsPage.tsx, ReadyToApplyPage.tsx
\* and RunItemsPage.tsx).
THEOREM RowsAreCurrent == Spec => []RowsCurrent
  <1>1. ConsoleInv => RowsCurrent
    BY ListFacts DEF ConsoleInv, RowsCurrent
  <1>2. QED
    BY <1>1, ConsoleInvariance, PTL

\* The Runs page at rest shows every run with the status it ended in, those its forms
\* have just created among them (load, the forms' handlers and the interval of
\* RunsPage.tsx).
THEOREM RunsAreCurrent == Spec => []RunsCurrent
  <1>1. ConsoleInv => RunsCurrent
    BY TableFacts DEF ConsoleInv, RunsCurrent
  <1>2. QED
    BY <1>1, ConsoleInvariance, PTL
================================================================================
