------------------------- MODULE BoardAcquisitionProofs ------------------------
(***************************************************************************)
(* What an acquired batch promises, for every site, listing, limit and     *)
(* choice of failing fetches: an error means that nothing came, and the    *)
(* key of a posting changes between two acquisitions only where a board    *)
(* has it on the detail page alone; every URL asked for is answered once,  *)
(* and every candidate has its record.                                     *)
(***************************************************************************)
EXTENDS BoardAcquisition, TLAPS, NaturalsInduction, WellFoundedInduction, SequenceTheorems

\* The apply URL of a record, by whether its detail page came and showed a link.
ApplyOf(r) ==
  IF r.detail /\ Boards[adapter].detailed = "own" THEN "own"
  ELSE IF r.link THEN "ats" ELSE ListedApply(r.posting)

\* A record is a supported board's, with its apply URL; a link read was there to read.
RecordFits(r) ==
  /\ adapter \in Supported /\ r.detail \in BOOLEAN /\ r.link \in BOOLEAN
  /\ r.link => r.detail /\ site[r.posting].link
  /\ r.apply = ApplyOf(r)

RecordsFit(batch) == \A i \in DOMAIN batch.records : RecordFits(batch.records[i])

\* Only a supported board fetches, and nothing is left to fetch when it is not fetching.
Fetching ==
  /\ stage \in {"listing", "details"} => adapter \in Supported
  /\ queue # << >> => stage \in {"listing", "details"}

\* The strengthening.
BInv == Fetching /\ RecordsFit(result) /\ RecordsFit(previous) /\ ErrorMeansNothing

--------------------------------------------------------------------------------
(* Facts about the boards.                                                 *)

\* No adapter is both supported and not.
LEMMA NotBoth == Supported \cap Unsupported = {}
BY DEF Supported, Unsupported, Boards

\* What the boards have in common: where the apply URL may come from.
LEMMA ApplyTraits ==
  ASSUME NEW a \in Supported
  PROVE  /\ Boards[a].listed \in {"none", "link"}
         /\ Boards[a].detailed \in {"own", "link"}
         /\ a = "welcome_to_the_jungle" <=> Boards[a].detailed = "own"
         /\ Boards[a].detailed = "own" => Boards[a].listed = "none"
BY DEF Supported, Boards, StartupJobsNYC, BuiltInNYC, WelcomeToTheJungle, GetroLike,
   GetroLikeLinks, USV, LinkedInJobs, Wellfound, YCJobs

\* Two records of a posting have different keys only when one of them has a link read
\* from the detail page and the board has the apply URL nowhere else.
LEMMA KeysDiffer ==
  ASSUME NEW a, NEW b, RecordFits(a), RecordFits(b), a.posting = b.posting, Key(a) # Key(b)
  PROVE  /\ a.link # b.link
         /\ Boards[adapter].listed = "none" /\ adapter # "welcome_to_the_jungle"
  <1>1. /\ a.apply = ApplyOf(a) /\ b.apply = ApplyOf(b) /\ adapter \in Supported
        /\ a.link \in BOOLEAN /\ b.link \in BOOLEAN
        /\ a.link => a.detail /\ site[a.posting].link
        /\ b.link => b.detail /\ site[b.posting].link
    BY DEF RecordFits
  <1>2. /\ Boards[adapter].listed \in {"none", "link"}
        /\ adapter = "welcome_to_the_jungle" <=> Boards[adapter].detailed = "own"
        /\ Boards[adapter].detailed = "own" => Boards[adapter].listed = "none"
    BY <1>1, ApplyTraits
  <1>3. ASSUME Boards[adapter].detailed = "own"
        PROVE  FALSE
    <2>1. ListedApply(a.posting) = "none" /\ ListedApply(b.posting) = "none"
      BY <1>2, <1>3 DEF ListedApply
    <2>2. {a.apply, b.apply} \subseteq {"own", "none"}
      BY <1>1, <1>3, <2>1 DEF ApplyOf
    <2>3. QED
      BY <2>2 DEF Key
  <1>4. /\ a.apply = IF a.link THEN "ats" ELSE ListedApply(a.posting)
        /\ b.apply = IF b.link THEN "ats" ELSE ListedApply(a.posting)
    BY <1>1, <1>3 DEF ApplyOf
  <1>5. a.link # b.link
    <2>1. a.apply # b.apply
      BY DEF Key
    <2>2. QED
      BY <1>4, <2>1
  <1>6. ASSUME Boards[adapter].listed = "link"
        PROVE  FALSE
    <2>1. site[a.posting].link
      BY <1>1, <1>5
    <2>2. ListedApply(a.posting) = "ats"
      BY <1>6, <2>1 DEF ListedApply
    <2>3. QED
      BY <1>4, <2>2 DEF Key
  <1>7. QED
    BY <1>2, <1>3, <1>5, <1>6

--------------------------------------------------------------------------------
(* The invariant.                                                          *)

\* A step of a fetch in the middle of an acquisition changes no batch.
LEMMA FetchingStep ==
  ASSUME BInv, queue # << >>,
         UNCHANGED <<source, stage, result, previous>>
  PROVE  BInv'
  <1>1. stage \in {"listing", "details"} /\ adapter \in Supported
    BY DEF BInv, Fetching
  <1>2. Fetching'
    BY <1>1 DEF Fetching, source
  <1>3. RecordsFit(result)' /\ RecordsFit(previous)'
    BY DEF BInv, RecordsFit, RecordFits, ApplyOf, ListedApply, source
  <1>4. ErrorMeansNothing'
    BY <1>1 DEF ErrorMeansNothing
  <1>5. QED
    BY <1>2, <1>3, <1>4 DEF BInv

\* A record made with what its detail page tells.
LEMMA RecordsMade ==
  ASSUME adapter \in Supported, NEW urls, NEW told \in DetailContents(urls),
         NEW i \in DOMAIN candidates
  PROVE  RecordFits(Records(told)[i])
  <1> DEFINE p == candidates[i]
             found == IF p \in DOMAIN told THEN told[p] ELSE {}
             d == p \in DOMAIN told
             l == "link" \in found
             m == site[p].named = "listing" \/ "name" \in found
             r == Records(told)[i]
  <1>1. r = [posting |-> p, detail |-> d, named |-> m, link |-> l,
             apply |-> IF d THEN DetailApply(p, found) ELSE ListedApply(p)]
    BY DEF Records
  <1>2. l => d /\ site[p].link
    <2>1. ASSUME l
          PROVE  d /\ "link" \in told[p]
      BY <2>1
    <2>2. ASSUME d, "link" \in told[p]
          PROVE  site[p].link
      <3>1. told[p] \subseteq OnPage(p)
        BY <2>2 DEF DetailContents
      <3>2. QED
        BY <2>2, <3>1 DEF OnPage
    <2>3. QED
      BY <2>1, <2>2
  <1>3. d \in BOOLEAN /\ l \in BOOLEAN
    OBVIOUS
  <1>4. DetailApply(p, found) = IF Boards[adapter].detailed = "own" THEN "own"
                                ELSE IF l THEN "ats" ELSE ListedApply(p)
    BY DEF DetailApply
  <1> HIDE DEF d, l, m, found, p, r
  <1>5. r.posting = p /\ r.detail = d /\ r.link = l
        /\ r.apply = IF d THEN DetailApply(p, found) ELSE ListedApply(p)
    BY <1>1
  <1>6. r.apply = ApplyOf(r)
    <2>1. CASE d
      BY <1>4, <1>5, <2>1 DEF ApplyOf
    <2>2. CASE ~d
      BY <1>2, <1>5, <2>2 DEF ApplyOf
    <2>3. QED
      BY <2>1, <2>2
  <1>7. RecordFits(r)
    BY <1>2, <1>3, <1>5, <1>6 DEF RecordFits
  <1>8. QED
    BY <1>7 DEF r

\* A batch of records made from the pages captured.
LEMMA BatchReturned ==
  ASSUME BInv, NEW records,
         \/ records = << >>
         \/ \E urls : \E told \in DetailContents(urls) : records = Records(told),
         stage \in {"listing", "details"}, queue = << >>, stage' = "done",
         result' = Batch(records),
         UNCHANGED <<source, queue, failures, previous>>
  PROVE  BInv'
  <1>1. adapter \in Supported /\ adapter \notin Unsupported /\ adapter' = adapter
    BY NotBoth DEF BInv, Fetching, source
  <1>2. \A i \in DOMAIN records : RecordFits(records[i])
    <2>1. CASE records = << >>
      BY <2>1
    <2>2. ASSUME NEW urls, NEW told \in DetailContents(urls), records = Records(told)
          PROVE  \A i \in DOMAIN records : RecordFits(records[i])
      <3>1. DOMAIN records = DOMAIN candidates
        BY <2>2 DEF Records
      <3>2. QED
        BY <1>1, <2>2, <3>1, RecordsMade
    <2>3. QED
      BY <2>1, <2>2
  <1>3. result'.records = records /\ result'.error = (failures # {} /\ records = << >>)
    BY DEF Batch
  <1>4. RecordsFit(result)'
    BY <1>1, <1>2, <1>3 DEF RecordsFit, RecordFits, ApplyOf, ListedApply, source
  <1>5. RecordsFit(previous)'
    BY DEF BInv, RecordsFit, RecordFits, ApplyOf, ListedApply, source
  <1>6. Fetching' /\ ErrorMeansNothing'
    BY <1>1, <1>3 DEF Fetching, ErrorMeansNothing
  <1>7. QED
    BY <1>4, <1>5, <1>6 DEF BInv

\* The strengthening is an invariant.
LEMMA BoardInvariance == Spec => []BInv
  <1>1. Init => BInv
    BY DEF Init, BInv, Fetching, RecordsFit, NoBatch, ErrorMeansNothing
  <1>2. BInv /\ [Next]_vars => BInv'
    <2>1. SUFFICES ASSUME BInv, [Next]_vars
                   PROVE  BInv'
      OBVIOUS
    <2>2. CASE SkipRun \/ AcquireListing
      <3>1. /\ stage' \in {"skipped", "listing"} /\ UNCHANGED <<source, result, previous>>
            /\ stage' = "listing" => adapter \in Supported
            /\ stage' # "listing" => queue' = queue /\ queue = << >>
        BY <2>1, <2>2 DEF SkipRun, AcquireListing, BInv, Fetching
      <3>2. RecordsFit(result)' /\ RecordsFit(previous)'
        BY <2>1, <3>1 DEF BInv, RecordsFit, RecordFits, ApplyOf, ListedApply, source
      <3>3. Fetching' /\ ErrorMeansNothing'
        BY <3>1 DEF Fetching, ErrorMeansNothing, source
      <3>4. QED
        BY <3>2, <3>3 DEF BInv
    <2>3. CASE AcquireUnsupported
      <3>1. /\ stage' = "done" /\ queue' = << >> /\ adapter' \in Unsupported
            /\ result'.records = << >> /\ result'.error = TRUE
            /\ UNCHANGED <<source, previous>>
        BY <2>1, <2>3 DEF AcquireUnsupported, BInv, Fetching, source
      <3>2. RecordsFit(result)'
        BY <3>1 DEF RecordsFit
      <3>3. RecordsFit(previous)'
        BY <2>1, <3>1 DEF BInv, RecordsFit, RecordFits, ApplyOf, ListedApply, source
      <3>4. Fetching' /\ ErrorMeansNothing'
        BY <3>1 DEF Fetching, ErrorMeansNothing
      <3>5. QED
        BY <3>2, <3>3, <3>4 DEF BInv
    <2>4. CASE ScraplingCaptures \/ BbBrowserCaptures
      BY <2>1, <2>4, FetchingStep DEF ScraplingCaptures, BbBrowserCaptures, CapturedBy
    <2>5. CASE ScraplingModeFails
      BY <2>1, <2>5, FetchingStep DEF ScraplingModeFails
    <2>6. CASE ScraplingGivesUp \/ BbBrowserFails
      BY <2>1, <2>6, FetchingStep DEF ScraplingGivesUp, BbBrowserFails, GivenUp
    <2>7. CASE ListingRead
      <3>1. /\ stage = "listing" /\ stage' = "details"
            /\ UNCHANGED <<source, result, previous>>
        BY <2>7 DEF ListingRead
      <3>2. RecordsFit(result)' /\ RecordsFit(previous)'
        BY <2>1, <3>1 DEF BInv, RecordsFit, RecordFits, ApplyOf, ListedApply, source
      <3>3. Fetching' /\ ErrorMeansNothing'
        BY <2>1, <3>1 DEF BInv, Fetching, ErrorMeansNothing, source
      <3>4. QED
        BY <3>2, <3>3 DEF BInv
    <2>8. CASE ListingFailed
      BY <2>1, <2>8, BatchReturned DEF ListingFailed
    <2>9. CASE AcquireReturns
      BY <2>1, <2>9, BatchReturned DEF AcquireReturns
    <2>10. CASE SecondRun
      <3>1. /\ stage' = "idle" /\ queue' = << >> /\ source' = source
            /\ previous' = result /\ result'.records = << >>
        BY <2>10 DEF SecondRun, NoBatch
      <3>2. RecordsFit(result)'
        BY <3>1 DEF RecordsFit
      <3>3. RecordsFit(previous)'
        BY <2>1, <3>1 DEF BInv, RecordsFit, RecordFits, ApplyOf, ListedApply, source
      <3>4. Fetching' /\ ErrorMeansNothing'
        BY <3>1 DEF Fetching, ErrorMeansNothing
      <3>5. QED
        BY <3>2, <3>3, <3>4 DEF BInv
    <2>11. CASE UNCHANGED vars
      <3>1. UNCHANGED <<source, stage, queue, failures, result, previous>>
        BY <2>11 DEF vars, source
      <3>2. RecordsFit(result)' /\ RecordsFit(previous)'
        BY <2>1, <3>1 DEF BInv, RecordsFit, RecordFits, ApplyOf, ListedApply, source
      <3>3. Fetching' /\ ErrorMeansNothing'
        BY <2>1, <3>1 DEF BInv, Fetching, ErrorMeansNothing, source
      <3>4. QED
        BY <3>2, <3>3 DEF BInv
    <2>12. QED
      BY <2>1, <2>2, <2>3, <2>4, <2>5, <2>6, <2>7, <2>8, <2>9, <2>10, <2>11 DEF Next
  <1>3. QED
    BY <1>1, <1>2, PTL DEF Spec

\* A batch carries an error only when it carries no record, and then some fetch
\* failed or the source is unsupported.
THEOREM ErrorsMeanNothing == Spec => []ErrorMeansNothing
  <1>1. BInv => ErrorMeansNothing
    BY DEF BInv
  <1>2. QED
    BY <1>1, BoardInvariance, PTL

\* The URL that keys a posting's row is the same in both acquisitions of an
\* unchanged site, whatever each captured page tells, but for the boards that take
\* it from the detail page alone, where only one of the two read the link.
THEOREM KeysAreStable == Spec => []KeyStable
  <1>1. BInv => KeyStable
    <2>1. SUFFICES ASSUME BInv, NEW a \in Accepted(previous), NEW b \in Accepted(result),
                          a.posting = b.posting, Key(a) # Key(b)
                   PROVE  /\ a.link # b.link
                          /\ Boards[adapter].listed = "none"
                          /\ adapter # "welcome_to_the_jungle"
      BY DEF KeyStable
    <2>2. RecordFits(a) /\ RecordFits(b)
      BY <2>1 DEF BInv, RecordsFit, Accepted, ToSet
    <2>3. QED
      BY <2>1, <2>2, KeysDiffer
  <1>2. QED
    BY <1>1, BoardInvariance, PTL

--------------------------------------------------------------------------------
(* Induction, and what is selected from a sequence.                        *)

\* A set of naturals that is not empty has a least element.
LEMMA Least ==
  ASSUME NEW T \in SUBSET Nat, T # {}
  PROVE  \E n \in T : \A m \in T : n <= m
  <1> DEFINE R == {p \in Nat \X Nat : p[1] < p[2]}
  <1>1. IsWellFoundedOn(R, Nat)
    BY NatLessThanWellFounded DEF OpToRel
  <1>2. \A x, y \in Nat : <<y, x>> \in R <=> y < x
    OBVIOUS
  <1> HIDE DEF R
  <1>3. PICK x \in T : \A y \in T : <<y, x>> \notin R
    BY <1>1, WFMin
  <1>4. ASSUME NEW y \in T
        PROVE  x <= y
    <2>1. x \in Nat /\ y \in Nat /\ ~(y < x)
      BY <1>2, <1>3
    <2>2. QED
      BY <2>1
  <1>5. QED
    BY <1>4

\* Induction over the naturals below a bound.
LEMMA Induction ==
  ASSUME NEW S, NEW n \in Nat, 0 \in S, \A k \in 0..(n - 1) : k \in S => k + 1 \in S
  PROVE  \A k \in 0..n : k \in S
  <1>1. SUFFICES ASSUME (0..n) \ S # {}
                 PROVE  FALSE
    OBVIOUS
  <1>2. PICK k \in (0..n) \ S : \A m \in (0..n) \ S : k <= m
    <2>1. (0..n) \ S \in SUBSET Nat
      OBVIOUS
    <2>2. QED
      BY <1>1, <2>1, Least
  <1>3. /\ k # 0 /\ k - 1 \in 0..(n - 1) /\ (k - 1) + 1 = k
        /\ ~(k <= k - 1) /\ k - 1 \in 0..n
    BY <1>2
  <1>4. QED
    BY <1>2, <1>3

\* The function that Selected computes.
UpTo(f, s, P, n) ==
  f = [k \in 0..n |->
        IF k = 0 THEN << >>
        ELSE IF k \in P THEN Append(f[k - 1], s[k]) ELSE f[k - 1]]

\* There is such a function, and it is the one Selected takes its value from.
LEMMA SelectedIsUpTo ==
  ASSUME NEW A, NEW s \in Seq(A), NEW P
  PROVE  \E f : UpTo(f, s, P, Len(s)) /\ Selected(s, P) = f[Len(s)]
  <1> DEFINE N == Len(s)
             D == {n \in Nat : \E f : UpTo(f, s, P, n)}
  <1>1. N \in Nat
    OBVIOUS
  <1>2. 0 \in D
    <2>1. UpTo([k \in 0..0 |-> << >>], s, P, 0)
      BY DEF UpTo
    <2>2. QED
      BY <2>1
  <1>3. ASSUME NEW n \in 0..(N - 1), n \in D
        PROVE  n + 1 \in D
    <2>1. PICK f : UpTo(f, s, P, n)
      BY <1>3
    <2> DEFINE new == IF n + 1 \in P THEN Append(f[n], s[n + 1]) ELSE f[n]
               g == [k \in 0..(n + 1) |-> IF k = n + 1 THEN new ELSE f[k]]
    <2>2. n \in Nat /\ n + 1 \in Nat /\ \A k \in 0..(n + 1) : k # n + 1 => k \in 0..n
          /\ (k # 0 => k - 1 \in 0..n)
      BY <1>1, <1>3
    <2>3. ASSUME NEW k \in 0..(n + 1)
          PROVE  g[k] = IF k = 0 THEN << >>
                        ELSE IF k \in P THEN Append(g[k - 1], s[k]) ELSE g[k - 1]
      <3>1. CASE k = n + 1
        <4>1. g[k] = new /\ k # 0 /\ k - 1 = n /\ g[n] = f[n]
          BY <2>2, <3>1
        <4>2. QED
          BY <3>1, <4>1
      <3>2. CASE k # n + 1
        <4>1. g[k] = f[k] /\ k \in 0..n /\ (k # 0 => k - 1 \in 0..n /\ g[k - 1] = f[k - 1])
          BY <2>2, <3>2
        <4>2. f[k] = IF k = 0 THEN << >>
                     ELSE IF k \in P THEN Append(f[k - 1], s[k]) ELSE f[k - 1]
          BY <2>1, <4>1 DEF UpTo
        <4>3. QED
          BY <4>1, <4>2
      <3>3. QED
        BY <3>1, <3>2
    <2>4. UpTo(g, s, P, n + 1)
      BY <2>3 DEF UpTo
    <2>5. QED
      BY <2>2, <2>4
  <1>4. N \in D
    <2> HIDE DEF D, N
    <2>1. \A k \in 0..N : k \in D
      BY <1>1, <1>2, <1>3, Induction
    <2>2. QED
      BY <1>1, <2>1
  <1>5. PICK h : UpTo(h, s, P, N)
    BY <1>4
  <1> DEFINE F == CHOOSE f : UpTo(f, s, P, N)
  <1>6. UpTo(F, s, P, N)
    BY <1>5
  <1>7. Selected(s, P) = F[N]
    BY DEF Selected, UpTo
  <1>8. QED
    BY <1>6, <1>7

\* What is selected comes from the sequence, is no longer than it, and has no
\* entry twice when the selected positions have none.
LEMMA SelectedProperties ==
  ASSUME NEW A, NEW s \in Seq(A), NEW P
  PROVE  /\ Selected(s, P) \in Seq(A) /\ Len(Selected(s, P)) <= Len(s)
         /\ \A k \in 1..Len(Selected(s, P)) :
              \E j \in (1..Len(s)) \cap P : Selected(s, P)[k] = s[j]
         /\ (\A i, j \in (1..Len(s)) \cap P : i # j => s[i] # s[j])
              => \A k, l \in 1..Len(Selected(s, P)) :
                   k # l => Selected(s, P)[k] # Selected(s, P)[l]
  <1> DEFINE N == Len(s)
             Apart == \A i, j \in (1..N) \cap P : i # j => s[i] # s[j]
  <1>1. PICK f : UpTo(f, s, P, N) /\ Selected(s, P) = f[N]
    BY SelectedIsUpTo
  <1>2. N \in Nat
    OBVIOUS
  <1> DEFINE Good(n) ==
        /\ f[n] \in Seq(A) /\ Len(f[n]) <= n
        /\ \A k \in 1..Len(f[n]) : \E j \in (1..n) \cap P : f[n][k] = s[j]
        /\ Apart => \A k, l \in 1..Len(f[n]) : k # l => f[n][k] # f[n][l]
             D == {n \in 0..N : Good(n)}
  <1>3. 0 \in D
    <2>1. f[0] = << >>
      BY <1>1, <1>2 DEF UpTo
    <2>2. f[0] \in Seq(A) /\ Len(f[0]) = 0 /\ 0 \in 0..N
      BY <1>2, <2>1
    <2>3. 1..Len(f[0]) = {}
      BY <2>2
    <2>4. Good(0)
      BY <2>2, <2>3
    <2>5. QED
      BY <2>2, <2>4
  <1>4. ASSUME NEW n \in 0..(N - 1), n \in D
        PROVE  n + 1 \in D
    <2>1. n \in Nat /\ n + 1 \in 1..N /\ n + 1 # 0 /\ (n + 1) - 1 = n
      BY <1>2, <1>4
    <2>2. f[n + 1] = IF n + 1 \in P THEN Append(f[n], s[n + 1]) ELSE f[n]
      <3>1. n + 1 \in 0..N
        BY <2>1
      <3>2. f[n + 1] = IF n + 1 = 0 THEN << >>
                       ELSE IF n + 1 \in P THEN Append(f[(n + 1) - 1], s[n + 1])
                            ELSE f[(n + 1) - 1]
        BY <1>1, <3>1 DEF UpTo
      <3>3. QED
        BY <2>1, <3>2
    <2>3. Good(n)
      BY <1>4
    <2>4. CASE n + 1 \notin P
      <3>1. f[n + 1] = f[n] /\ Len(f[n]) <= n + 1 /\ 1..n \subseteq 1..(n + 1)
        BY <2>1, <2>2, <2>3, <2>4
      <3>2. QED
        BY <2>1, <2>3, <3>1
    <2>5. CASE n + 1 \in P
      <3>1. f[n + 1] = Append(f[n], s[n + 1]) /\ s[n + 1] \in A
        BY <2>1, <2>2, <2>5
      <3>2. /\ f[n + 1] \in Seq(A) /\ Len(f[n + 1]) = Len(f[n]) + 1
            /\ f[n + 1][Len(f[n]) + 1] = s[n + 1]
            /\ \A k \in 1..Len(f[n]) : f[n + 1][k] = f[n][k]
            /\ Len(f[n]) \in Nat
        BY <2>3, <3>1, AppendProperties
      <3> DEFINE m == Len(f[n])
      <3>3. \A k \in 1..(m + 1) : k \in 1..m \/ k = m + 1
        BY <3>2
      <3>4. ASSUME NEW k \in 1..(m + 1)
            PROVE  \E j \in (1..(n + 1)) \cap P : f[n + 1][k] = s[j]
        <4>1. CASE k = m + 1
          BY <2>1, <2>5, <3>2, <4>1
        <4>2. CASE k \in 1..m
          <5>1. PICK j \in (1..n) \cap P : f[n][k] = s[j]
            BY <2>3, <4>2
          <5>2. j \in (1..(n + 1)) \cap P
            BY <2>1
          <5>3. QED
            BY <3>2, <4>2, <5>1, <5>2
        <4>3. QED
          BY <3>3, <4>1, <4>2
      <3>5. ASSUME Apart, NEW k \in 1..m
            PROVE  f[n + 1][k] # f[n + 1][m + 1]
        <4>1. PICK j \in (1..n) \cap P : f[n][k] = s[j]
          BY <2>3
        <4>2. j # n + 1 /\ j \in (1..N) \cap P /\ n + 1 \in (1..N) \cap P
          BY <1>2, <2>1, <2>5
        <4>3. s[j] # s[n + 1]
          BY <3>5, <4>2
        <4>4. QED
          BY <3>2, <4>1, <4>3
      <3>6. ASSUME Apart, NEW k \in 1..(m + 1), NEW l \in 1..(m + 1), k # l
            PROVE  f[n + 1][k] # f[n + 1][l]
        <4>1. CASE k \in 1..m /\ l \in 1..m
          BY <2>3, <3>2, <3>6, <4>1
        <4>2. CASE k = m + 1 /\ l \in 1..m
          BY <3>5, <3>6, <4>2
        <4>3. CASE k \in 1..m /\ l = m + 1
          BY <3>5, <3>6, <4>3
        <4>4. QED
          BY <3>3, <3>6, <4>1, <4>2, <4>3
      <3>7. Len(f[n + 1]) = m + 1 /\ m + 1 <= n + 1
        BY <2>1, <2>3, <3>2
      <3>8. QED
        BY <2>1, <3>2, <3>4, <3>6, <3>7
    <2>6. QED
      BY <2>4, <2>5
  <1>5. N \in D
    <2> HIDE DEF D, N
    <2>1. \A n \in 0..N : n \in D
      BY <1>2, <1>3, <1>4, Induction
    <2>2. QED
      BY <1>2, <2>1
  <1>6. Good(N)
    BY <1>5
  <1>7. QED
    BY <1>1, <1>6

\* What can be made a candidate of is a posting.
LEMMA ValidIsTyped ==
  ASSUME NEW s \in Seq(Postings \cup {Junk})
  PROVE  Valid(s) \in Seq(Postings) /\ Len(Valid(s)) <= Len(s)
  <1> DEFINE A == Postings \cup {Junk}
             P == {i \in DOMAIN s : s[i] # Junk}
  <1>1. Valid(s) = Selected(s, P)
    BY DEF Valid
  <1>2. s \in Seq(A)
    OBVIOUS
  <1>3. \A j \in (1..Len(s)) \cap P : s[j] \in Postings
    BY ElementOfSeq
  <1> HIDE DEF A, P
  <1>4. /\ Selected(s, P) \in Seq(A) /\ Len(Selected(s, P)) <= Len(s)
        /\ \A k \in 1..Len(Selected(s, P)) :
             \E j \in (1..Len(s)) \cap P : Selected(s, P)[k] = s[j]
    BY <1>2, SelectedProperties
  <1>5. \A k \in 1..Len(Selected(s, P)) : Selected(s, P)[k] \in Postings
    BY <1>3, <1>4
  <1>6. QED
    BY <1>1, <1>4, <1>5

\* What is distinct comes from the sequence, each entry once.
LEMMA DistinctIsTyped ==
  ASSUME NEW A, NEW s \in Seq(A)
  PROVE  /\ Distinct(s) \in Seq(A) /\ Len(Distinct(s)) <= Len(s)
         /\ \A k, l \in 1..Len(Distinct(s)) : k # l => Distinct(s)[k] # Distinct(s)[l]
  <1> DEFINE P == {i \in DOMAIN s : \A k \in 1..(i - 1) : s[k] # s[i]}
  <1>1. ASSUME NEW i \in (1..Len(s)) \cap P, NEW j \in (1..Len(s)) \cap P, i # j
        PROVE  s[i] # s[j]
    <2>1. i \in 1..(j - 1) \/ j \in 1..(i - 1)
      BY <1>1
    <2>2. QED
      BY <2>1
  <1>2. Distinct(s) = Selected(s, P)
    BY DEF Distinct
  <1> HIDE DEF P
  <1>3. /\ Selected(s, P) \in Seq(A) /\ Len(Selected(s, P)) <= Len(s)
        /\ \A k, l \in 1..Len(Selected(s, P)) :
             k # l => Selected(s, P)[k] # Selected(s, P)[l]
    BY <1>1, SelectedProperties
  <1>4. QED
    BY <1>2, <1>3

\* max_results is a number, and not zero.
LEMMA Limited == limit \in Limits => MaxResults \in Nat \ {0}
BY BoardAssumption DEF MaxResults

\* A cut comes from its sequence and has max_results entries at most.
LEMMA CutIsTyped ==
  ASSUME NEW A, NEW s \in Seq(A), MaxResults \in Nat
  PROVE  Cut(s) \in Seq(A) /\ Len(Cut(s)) <= MaxResults
  <1> DEFINE n == Shorter(MaxResults, s)
  <1>1. Len(s) \in Nat
    OBVIOUS
  <1>2. n \in Nat /\ n <= Len(s) /\ n <= MaxResults
    BY <1>1 DEF Shorter
  <1>3. SubSeq(s, 1, n) \in Seq(A) /\ Len(SubSeq(s, 1, n)) = n
    BY <1>1, <1>2
  <1>4. QED
    BY <1>2, <1>3 DEF Cut

\* What is extracted are postings, max_results of them at most.
LEMMA ExtractIsTyped ==
  ASSUME NEW s \in Seq(Postings \cup {Junk}), adapter \in Supported, limit \in Limits
  PROVE  Extract(s) \in Seq(Postings) /\ Len(Extract(s)) <= MaxResults
  <1>1. MaxResults \in Nat
    BY Limited
  <1>2. CASE Boards[adapter].slices
    <2>1. Cut(s) \in Seq(Postings \cup {Junk}) /\ Len(Cut(s)) <= MaxResults
      BY <1>1, CutIsTyped
    <2>2. Valid(Cut(s)) \in Seq(Postings) /\ Len(Valid(Cut(s))) <= Len(Cut(s))
      BY <2>1, ValidIsTyped
    <2>3. Len(Valid(Cut(s))) \in Nat /\ Len(Cut(s)) \in Nat
      BY <2>1, <2>2
    <2>4. Len(Valid(Cut(s))) <= MaxResults
      BY <1>1, <2>1, <2>2, <2>3
    <2>5. QED
      BY <1>2, <2>2, <2>4 DEF Extract
  <1>3. CASE ~Boards[adapter].slices
    <2> DEFINE links == IF Boards[adapter].repeats THEN Valid(s) ELSE Distinct(Valid(s))
    <2>1. links \in Seq(Postings)
      BY ValidIsTyped, DistinctIsTyped
    <2>2. Extract(s) = Cut(links)
      BY <1>3 DEF Extract
    <2> HIDE DEF links
    <2>3. QED
      BY <1>1, <2>1, <2>2, CutIsTyped
  <1>4. QED
    BY <1>2, <1>3

\* Each detail page is asked for once.
LEMMA DetailUrlsAreDistinct ==
  ASSUME NEW s \in Seq(Postings)
  PROVE  /\ DetailUrls(s) \in Seq(Postings)
         /\ \A k, l \in 1..Len(DetailUrls(s)) : k # l => DetailUrls(s)[k] # DetailUrls(s)[l]
         /\ s = << >> => DetailUrls(s) = << >>
  <1>1. /\ Distinct(s) \in Seq(Postings) /\ Len(Distinct(s)) <= Len(s)
        /\ \A k, l \in 1..Len(Distinct(s)) : k # l => Distinct(s)[k] # Distinct(s)[l]
    BY DistinctIsTyped
  <1>2. s = << >> => Distinct(s) = << >>
    BY <1>1
  <1>3. QED
    BY <1>1, <1>2 DEF DetailUrls

--------------------------------------------------------------------------------
(* Types.                                                                  *)

\* The modes tried for a URL are the first of those it may be asked in.
ModesTried == {<< >>, <<"simple">>, <<"simple", "dynamic">>}

Typed == TypeOK /\ tried \in ModesTried

\* A second entry makes a pair.
LEMMA AppendPair ==
  ASSUME NEW a, NEW b
  PROVE  Append(<<a>>, b) = <<a, b>>
  <1> DEFINE s == Append(<<a>>, b)
             t == <<a, b>>
  <1>1. t \in Seq({a, b}) /\ Len(t) = 2 /\ t[1] = a /\ t[2] = b
    OBVIOUS
  <1>2. s \in Seq({a, b}) /\ Len(s) = 2 /\ s[2] = b /\ s[1] = a
    <2>1. <<a>> \in Seq({a, b}) /\ b \in {a, b} /\ Len(<<a>>) = 1
      OBVIOUS
    <2>2. QED
      BY <2>1, AppendProperties
  <1> HIDE DEF s, t
  <1>3. \A i \in 1..Len(s) : s[i] = t[i]
    BY <1>1, <1>2
  <1>4. s = t
    BY <1>1, <1>2, <1>3, SeqEqual
  <1>5. QED
    BY <1>4 DEF s, t

\* What a mode is tried after.
LEMMA NextMode ==
  ASSUME fallback \in Fallbacks, tried \in ModesTried, ModesLeft
  PROVE  /\ Append(tried, AttemptedModes[Len(tried) + 1]) \in ModesTried \ {<< >>}
         /\ ModesTried \ {<< >>} \subseteq Modes
  <1>1. fallback \in {"simple", "dynamic", "none"}
    BY BoardAssumption
  <1>2. AttemptedModes \in {<<"simple">>, <<"simple", "dynamic">>}
    BY <1>1 DEF AttemptedModes, PublicBoardMode
  <1>3. CASE tried = << >>
    <2>1. Len(tried) + 1 = 1 /\ AttemptedModes[1] = "simple"
      BY <1>2, <1>3
    <2>2. Append(tried, AttemptedModes[Len(tried) + 1]) = <<"simple">>
      BY <1>3, <2>1
    <2>3. QED
      BY <2>2 DEF ModesTried, Modes
  <1>4. CASE tried = <<"simple">>
    <2>1. Len(tried) = 1 /\ AttemptedModes = <<"simple", "dynamic">>
      BY <1>2, <1>4 DEF ModesLeft
    <2>2. AttemptedModes[Len(tried) + 1] = "dynamic"
      BY <2>1
    <2>3. Append(<<"simple">>, "dynamic") = <<"simple", "dynamic">>
      BY AppendPair
    <2>4. Append(tried, AttemptedModes[Len(tried) + 1]) = <<"simple", "dynamic">>
      BY <1>4, <2>2, <2>3
    <2>5. QED
      BY <2>4 DEF ModesTried, Modes
  <1>5. CASE tried = <<"simple", "dynamic">>
    BY <1>2, <1>5 DEF ModesLeft
  <1>6. QED
    BY <1>3, <1>4, <1>5 DEF ModesTried

\* A list of records is one of the candidates, whatever the pages told.
LEMMA RecordsTyped ==
  ASSUME TypeOK, adapter \in Supported, NEW told
  PROVE  Records(told) \in Seq(Record)
  <1>1. candidates \in Seq(Postings) /\ DOMAIN candidates = 1..Len(candidates)
        /\ Len(candidates) \in Nat
    BY DEF TypeOK
  <1>2. ASSUME NEW p \in Postings, NEW found
        PROVE  DetailApply(p, found) \in {"none", "own", "ats"}
               /\ ListedApply(p) \in {"none", "own", "ats"}
    BY DEF DetailApply, ListedApply
  <1>3. ASSUME NEW i \in 1..Len(candidates)
        PROVE  Records(told)[i] \in Record
    <2> DEFINE p == candidates[i]
               found == IF p \in DOMAIN told THEN told[p] ELSE {}
               d == p \in DOMAIN told
               m == site[p].named = "listing" \/ "name" \in found
               l == "link" \in found
               y == IF d THEN DetailApply(p, found) ELSE ListedApply(p)
    <2>1. p \in Postings
      BY <1>1
    <2>2. d \in BOOLEAN /\ m \in BOOLEAN /\ l \in BOOLEAN
      OBVIOUS
    <2>3. Records(told)[i] = [posting |-> p, detail |-> d, named |-> m, link |-> l, apply |-> y]
      BY <1>1 DEF Records
    <2>4. y \in {"none", "own", "ats"}
      BY <1>2, <2>1
    <2> HIDE DEF d, m, l, y, found, p
    <2>5. QED
      BY <2>1, <2>2, <2>3, <2>4 DEF Record
  <1>4. Records(told) = [i \in 1..Len(candidates) |-> Records(told)[i]]
    BY <1>1 DEF Records
  <1>5. QED
    BY <1>1, <1>3, <1>4

\* The types hold after a URL is answered, whatever the answer.
LEMMA AnsweredTyped ==
  ASSUME Typed, queue # << >>, queue' = Tail(queue), tried' = << >>,
         \/ \E modes \in Modes : captured' = captured \cup {<<Head(queue), modes>>}
         \/ captured' = captured,
         failures' \in {failures, failures \cup {Head(queue)}},
         UNCHANGED <<source, round, stage, candidates, result, previous>>
  PROVE  Typed'
  <1>1. Head(queue) \in Urls /\ Tail(queue) \in Seq(Urls)
    BY DEF Typed, TypeOK
  <1>2. captured' \subseteq Urls \X Modes /\ failures' \subseteq Urls
    BY <1>1 DEF Typed, TypeOK
  <1>3. tried' \in ModesTried /\ tried' \in Seq({"simple", "dynamic"})
    BY DEF ModesTried
  <1>4. BatchType(result)' /\ BatchType(previous)'
    BY DEF Typed, TypeOK, BatchType
  <1>5. QED
    BY <1>1, <1>2, <1>3, <1>4 DEF Typed, TypeOK, source

\* A batch is typed when its records are.
LEMMA BatchTyped ==
  ASSUME NEW records \in Seq(Record)
  PROVE  BatchType(Batch(records))
  <1>1. (failures # {} /\ records = << >>) \in BOOLEAN
    OBVIOUS
  <1>2. QED
    BY <1>1 DEF BatchType, Batch

\* Every step keeps the types.
LEMMA TypedStep == Fetching /\ Typed /\ [Next]_vars => Typed'
  <1>1. SUFFICES ASSUME Fetching, Typed, [Next]_vars
                 PROVE  Typed'
    OBVIOUS
  <1>2. ASSUME UNCHANGED <<source, queue, tried, captured, failures, candidates, round,
                           previous>>,
               stage' \in {"idle", "skipped", "listing", "details", "done"},
               BatchType(result')
        PROVE  Typed'
    <2>1. BatchType(previous)'
      BY <1>1, <1>2 DEF Typed, TypeOK, BatchType
    <2>2. BatchType(result)'
      BY <1>2 DEF BatchType
    <2>3. QED
      BY <1>1, <1>2, <2>1, <2>2 DEF Typed, TypeOK, source
  <1>3. CASE SkipRun
    BY <1>1, <1>2, <1>3 DEF SkipRun, Typed, TypeOK, BatchType
  <1>4. CASE AcquireUnsupported
    <2>1. BatchType(result')
      BY <1>4 DEF AcquireUnsupported, BatchType
    <2>2. QED
      BY <1>2, <1>4, <2>1 DEF AcquireUnsupported
  <1>5. CASE AcquireListing
    <2>1. <<Listing>> \in Seq(Urls)
      BY DEF Urls
    <2>2. BatchType(result)' /\ BatchType(previous)'
      BY <1>1, <1>5 DEF AcquireListing, Typed, TypeOK, BatchType
    <2>3. QED
      BY <1>1, <1>5, <2>1, <2>2 DEF AcquireListing, Typed, TypeOK, source
  <1>6. CASE ScraplingCaptures
    <2>1. Append(tried, AttemptedModes[Len(tried) + 1]) \in Modes
      BY <1>1, <1>6, NextMode DEF ScraplingCaptures, Typed, TypeOK
    <2>2. QED
      BY <1>1, <1>6, <2>1, AnsweredTyped DEF ScraplingCaptures, CapturedBy
  <1>7. CASE BbBrowserCaptures
    <2>1. <<AuthBoardMode>> \in Modes
      BY DEF AuthBoardMode, Modes
    <2>2. QED
      BY <1>1, <1>7, <2>1, AnsweredTyped DEF BbBrowserCaptures, CapturedBy
  <1>8. CASE ScraplingModeFails
    <2>1. tried' \in ModesTried
      BY <1>1, <1>8, NextMode DEF ScraplingModeFails, Typed, TypeOK
    <2>2. tried' \in Seq({"simple", "dynamic"})
      <3>1. /\ << >> \in Seq({"simple", "dynamic"})
            /\ <<"simple">> \in Seq({"simple", "dynamic"})
            /\ <<"simple", "dynamic">> \in Seq({"simple", "dynamic"})
        OBVIOUS
      <3>2. QED
        BY <2>1, <3>1 DEF ModesTried
    <2>3. BatchType(result)' /\ BatchType(previous)'
      BY <1>1, <1>8 DEF ScraplingModeFails, Typed, TypeOK, BatchType
    <2>4. QED
      BY <1>1, <1>8, <2>1, <2>2, <2>3 DEF ScraplingModeFails, Typed, TypeOK, source
  <1>9. CASE ScraplingGivesUp \/ BbBrowserFails
    BY <1>1, <1>9, AnsweredTyped DEF ScraplingGivesUp, BbBrowserFails, GivenUp
  <1>10. CASE ListingRead
    <2>1. PICK content \in Seq(Postings \cup {Junk}) :
            candidates' = Extract(content) /\ queue' = DetailUrls(Extract(content))
      <3>1. {listing, << >>} \subseteq Seq(Postings \cup {Junk})
        BY <1>1 DEF Typed, TypeOK
      <3>2. \E content \in {listing, << >>} :
              candidates' = Extract(content) /\ queue' = DetailUrls(Extract(content))
        BY <1>10 DEF ListingRead, BbBrowserContents, ScraplingContents
      <3>3. QED
        BY <3>1, <3>2
    <2>2. adapter \in Supported
      BY <1>1, <1>10 DEF ListingRead, Fetching
    <2>3. candidates' \in Seq(Postings)
      BY <1>1, <2>1, <2>2, ExtractIsTyped DEF Typed, TypeOK
    <2>4. queue' \in Seq(Urls)
      BY <2>1, <2>3, DetailUrlsAreDistinct DEF Urls
    <2>5. BatchType(result)' /\ BatchType(previous)'
      BY <1>1, <1>10 DEF ListingRead, Typed, TypeOK, BatchType
    <2>6. QED
      BY <1>1, <1>10, <2>3, <2>4, <2>5 DEF ListingRead, Typed, TypeOK, source
  <1>11. CASE ListingFailed
    <2>0. << >> \in Seq(Record)
      OBVIOUS
    <2>1. BatchType(Batch(<< >>))
      BY <2>0, BatchTyped
    <2>2. QED
      BY <1>2, <1>11, <2>1 DEF ListingFailed
  <1>12. CASE AcquireReturns
    <2>1. PICK told \in DetailContents(CapturedUrls \ {Listing}) :
            result' = Batch(Records(told))
      BY <1>12 DEF AcquireReturns
    <2>2. Records(told) \in Seq(Record)
      BY <1>1, <1>12, RecordsTyped DEF AcquireReturns, Fetching, Typed
    <2>3. BatchType(result')
      BY <2>1, <2>2, BatchTyped
    <2>4. QED
      BY <1>2, <1>12, <2>3 DEF AcquireReturns
  <1>13. CASE SecondRun
    <2>1. BatchType(result)' /\ BatchType(previous)'
      BY <1>1, <1>13 DEF SecondRun, NoBatch, Typed, TypeOK, BatchType
    <2>2. QED
      BY <1>1, <1>13, <2>1 DEF SecondRun, Typed, TypeOK, ModesTried, source
  <1>14. CASE UNCHANGED vars
    <2>1. BatchType(result)' /\ BatchType(previous)'
      BY <1>1, <1>14 DEF vars, Typed, TypeOK, BatchType
    <2>2. QED
      BY <1>1, <1>14, <2>1 DEF vars, Typed, TypeOK
  <1>15. QED
    BY <1>1, <1>3, <1>4, <1>5, <1>6, <1>7, <1>8, <1>9, <1>10, <1>11, <1>12, <1>13,
       <1>14 DEF Next

--------------------------------------------------------------------------------
(* The answers.                                                            *)

Queued == {queue[k] : k \in 1..Len(queue)}

\* The URLs of the current requests.
AskedFor ==
  CASE stage \in {"idle", "skipped"} -> {}
    [] stage = "listing" -> {Listing}
    [] stage \in {"details", "done"} -> {Listing} \cup ToSet(DetailUrls(candidates))

\* Each URL asked for is in the queue, captured or given up.
Accounted ==
  /\ \A k, l \in 1..Len(queue) : k # l => queue[k] # queue[l]
  /\ failures \cap CapturedUrls = {} /\ Queued \cap (failures \cup CapturedUrls) = {}
  /\ adapter \in Supported => Queued \cup failures \cup CapturedUrls = AskedFor

\* The detail pages captured.
Details == CapturedUrls \ {Listing}

\* A batch is made from the candidates, which come from the listing.
Made ==
  /\ Len(candidates) <= MaxResults
  /\ stage = "details" => Listing \in CapturedUrls
  /\ stage \in {"idle", "skipped", "listing"} => candidates = << >>
  /\ stage \in {"idle", "skipped"} => CapturedUrls = {}
  /\ stage = "done" /\ adapter \in Unsupported => Listing \notin CapturedUrls
  /\ stage = "done" /\ Listing \in CapturedUrls =>
       \E told \in DetailContents(Details) : result.records = Records(told)
  /\ stage = "done" /\ Listing \notin CapturedUrls => candidates = << >>

\* The strengthening for the answers.
AInv == Fetching /\ Typed /\ Accounted /\ Made

\* In the invariant every URL of a returned batch was answered.
LEMMA AnsweredInAInv == AInv => EveryUrlAnswered
  <1>1. SUFFICES ASSUME AInv, stage = "done", adapter \in Supported
                 PROVE  /\ failures \cap CapturedUrls = {}
                        /\ failures \cup CapturedUrls
                             = {Listing} \cup ToSet(DetailUrls(candidates))
    BY DEF EveryUrlAnswered
  <1>2. Queued = {}
    BY <1>1 DEF AInv, Fetching, Queued
  <1>3. QED
    BY <1>1, <1>2 DEF AInv, Accounted, AskedFor

\* In the invariant a returned batch holds every candidate.
LEMMA KeptInAInv == AInv => NoCandidateLost
  <1>1. SUFFICES ASSUME AInv, stage = "done", Listing \in CapturedUrls
                 PROVE  /\ [i \in DOMAIN result.records |-> result.records[i].posting]
                              = candidates
                        /\ \A r \in ToSet(result.records) :
                            r.detail = (r.posting \in CapturedUrls)
                        /\ Len(result.records) <= MaxResults
    BY DEF NoCandidateLost
  <1>2. candidates \in Seq(Postings) /\ Len(candidates) <= MaxResults
    BY <1>1 DEF AInv, Made, Typed, TypeOK
  <1>3. PICK told \in DetailContents(Details) : result.records = Records(told)
    BY <1>1 DEF AInv, Made
  <1>4. DOMAIN told = Details
    BY DEF DetailContents
  <1> DEFINE records == Records(told)
  <1>5. /\ DOMAIN records = DOMAIN candidates
        /\ \A i \in DOMAIN candidates : /\ records[i].posting = candidates[i]
                                        /\ records[i].detail = (candidates[i] \in DOMAIN told)
    BY DEF Records
  <1>6. DOMAIN candidates = 1..Len(candidates) /\ Len(candidates) \in Nat
    BY <1>2
  <1>7. Len(records) = Len(candidates)
    BY <1>5, <1>6
  <1> HIDE DEF records
  <1>8. [i \in DOMAIN records |-> records[i].posting] = candidates
    BY <1>2, <1>5
  <1>9. \A i \in DOMAIN candidates :
          candidates[i] \in DOMAIN told <=> candidates[i] \in CapturedUrls
    BY <1>2, <1>4, <1>6, BoardAssumption DEF Details
  <1>10. \A r \in ToSet(records) : r.detail = (r.posting \in CapturedUrls)
    BY <1>5, <1>9 DEF ToSet
  <1>11. QED
    BY <1>2, <1>3, <1>7, <1>8, <1>10 DEF records

\* A queue without its first URL.
LEMMA QueueAnswered ==
  ASSUME NEW A, NEW q \in Seq(A), q # << >>,
         \A k, l \in 1..Len(q) : k # l => q[k] # q[l]
  PROVE  /\ \A k, l \in 1..Len(Tail(q)) : k # l => Tail(q)[k] # Tail(q)[l]
         /\ Head(q) \in {q[k] : k \in 1..Len(q)}
         /\ {Tail(q)[k] : k \in 1..Len(Tail(q))} = {q[k] : k \in 1..Len(q)} \ {Head(q)}
  <1>1. /\ Len(q) \in Nat /\ Len(q) >= 1 /\ Head(q) = q[1] /\ Len(Tail(q)) = Len(q) - 1
        /\ \A k \in 1..(Len(q) - 1) : Tail(q)[k] = q[k + 1]
    OBVIOUS
  <1> DEFINE n == Len(q) - 1
             t == Tail(q)
  <1>2. n \in Nat /\ Len(t) = n /\ Len(q) = n + 1 /\ Head(q) = q[1]
        /\ \A k \in 1..n : t[k] = q[k + 1]
    BY <1>1
  <1> HIDE DEF n, t
  <1>3. \A k, l \in 1..Len(t) : k # l => t[k] # t[l]
    BY <1>2
  <1>4. ASSUME NEW k \in 1..Len(t)
        PROVE  t[k] \in {q[m] : m \in 1..Len(q)} \ {Head(q)}
    BY <1>2
  <1>5. ASSUME NEW m \in 1..Len(q), q[m] # Head(q)
        PROVE  q[m] \in {t[k] : k \in 1..Len(t)}
    <2>1. m - 1 \in 1..n /\ (m - 1) + 1 = m
      BY <1>2, <1>5
    <2>2. t[m - 1] = q[m]
      BY <1>2, <2>1
    <2>3. QED
      BY <1>2, <2>1, <2>2
  <1>6. {t[k] : k \in 1..Len(t)} = {q[m] : m \in 1..Len(q)} \ {Head(q)}
    BY <1>4, <1>5
  <1>7. Head(q) \in {q[k] : k \in 1..Len(q)}
    BY <1>2
  <1>8. QED
    BY <1>3, <1>6, <1>7 DEF t

\* A URL answered leaves the queue for one of the two sets of answers.
LEMMA AnsweredAccounted ==
  ASSUME AInv, queue # << >>, queue' = Tail(queue),
         \/ /\ \E modes : captured' = captured \cup {<<Head(queue), modes>>}
            /\ failures' = failures
         \/ captured' = captured /\ failures' = failures \cup {Head(queue)},
         UNCHANGED <<source, stage, candidates, result>>
  PROVE  Fetching' /\ Accounted' /\ Made'
  <1>1. stage \in {"listing", "details"} /\ adapter \in Supported
    BY DEF AInv, Fetching
  <1>2. Fetching'
    BY <1>1 DEF Fetching, source
  <1>3. \/ CapturedUrls' = CapturedUrls \cup {Head(queue)} /\ failures' = failures
        \/ CapturedUrls' = CapturedUrls /\ failures' = failures \cup {Head(queue)}
    <2>1. CASE captured' = captured
      BY <2>1 DEF CapturedUrls
    <2>2. ASSUME NEW modes, captured' = captured \cup {<<Head(queue), modes>>}
          PROVE  CapturedUrls' = CapturedUrls \cup {Head(queue)}
      <3>1. <<Head(queue), modes>>[1] = Head(queue)
        OBVIOUS
      <3>2. QED
        BY <2>2, <3>1 DEF CapturedUrls
    <2>3. QED
      BY <2>1, <2>2
  <1>4. /\ (\A k, l \in 1..Len(queue) : k # l => queue[k] # queue[l])'
        /\ Head(queue) \in Queued /\ Queued' = Queued \ {Head(queue)}
    <2>1. queue \in Seq(Urls) /\ \A k, l \in 1..Len(queue) : k # l => queue[k] # queue[l]
      BY DEF AInv, Typed, TypeOK, Accounted
    <2>2. QED
      BY <2>1, QueueAnswered DEF Queued
  <1>5. AskedFor' = AskedFor
    BY <1>1 DEF AskedFor, DetailUrls, Distinct, source
  <1>6. Accounted'
    BY <1>1, <1>3, <1>4, <1>5 DEF AInv, Accounted, source
  <1>7. Made'
    <2>1. MaxResults' = MaxResults
          /\ (Listing \in CapturedUrls => Listing \in CapturedUrls')
      BY <1>3 DEF MaxResults, source
    <2>2. QED
      BY <1>1, <2>1 DEF AInv, Made
  <1>8. QED
    BY <1>2, <1>6, <1>7

\* Nothing is asked for or answered when a run starts.
LEMMA NothingAsked ==
  ASSUME stage \in {"idle", "skipped"}, queue = << >>, captured = {}, failures = {},
         candidates = << >>, MaxResults \in Nat
  PROVE  Accounted /\ Made
  <1>1. Queued = {} /\ CapturedUrls = {} /\ AskedFor = {} /\ Len(queue) = 0
    BY DEF Queued, CapturedUrls, AskedFor
  <1>2. Accounted
    BY <1>1 DEF Accounted
  <1>3. Made
    BY <1>1 DEF Made
  <1>4. QED
    BY <1>2, <1>3

\* The invariant holds at first.
LEMMA InitAInv == Init => AInv
  <1>1. SUFFICES ASSUME Init PROVE AInv
    OBVIOUS
  <1>2. listing \in Seq(Postings \cup {Junk})
    BY <1>1, BoardAssumption DEF Init, BoundedSeq, SeqOf
  <1>3. /\ queue \in Seq(Urls) /\ tried \in Seq({"simple", "dynamic"})
        /\ candidates \in Seq(Postings) /\ tried \in ModesTried
    BY <1>1 DEF Init, ModesTried
  <1>4. BatchType(result) /\ BatchType(previous)
    <2>1. << >> \in Seq(Record)
      OBVIOUS
    <2>2. QED
      BY <1>1, <2>1 DEF Init, NoBatch, BatchType
  <1>5. Typed
    BY <1>1, <1>2, <1>3, <1>4 DEF Init, Typed, TypeOK
  <1>6. Fetching
    BY <1>1 DEF Init, Fetching
  <1>7. MaxResults \in Nat
    BY <1>1, Limited DEF Init
  <1>8. QED
    BY <1>1, <1>5, <1>6, <1>7, NothingAsked DEF Init, AInv

\* Every step keeps the invariant.
LEMMA AInvStep == AInv /\ [Next]_vars => AInv'
  <1>1. SUFFICES ASSUME AInv, [Next]_vars PROVE Fetching' /\ Accounted' /\ Made'
    BY TypedStep DEF AInv
  <1>2. TypeOK' /\ MaxResults \in Nat /\ (MaxResults \in Nat)'
    <2>1. TypeOK /\ TypeOK'
      BY <1>1, TypedStep DEF AInv, Typed
    <2>2. limit \in Limits /\ limit' \in Limits
      BY <2>1 DEF TypeOK
    <2>3. MaxResults \in Nat /\ MaxResults' \in Nat
      BY <2>2, BoardAssumption DEF MaxResults
    <2>4. QED
      BY <2>1, <2>3
  <1>3. CASE SkipRun
    <2>1. /\ queue = << >> /\ candidates = << >> /\ stage = "idle" /\ stage' = "skipped"
          /\ queue' = queue /\ captured' = captured /\ failures' = failures
          /\ candidates' = candidates /\ adapter' = adapter
      BY <1>1, <1>3 DEF SkipRun, AInv, Fetching, Made, source
    <2>2. AskedFor = {} /\ AskedFor' = {} /\ Queued' = Queued
          /\ CapturedUrls' = CapturedUrls
      BY <2>1 DEF AskedFor, Queued, CapturedUrls
    <2>3. Accounted'
      BY <1>1, <2>1, <2>2 DEF AInv, Accounted
    <2>4. Made' /\ Fetching'
      BY <1>1, <1>2, <2>1, <2>2 DEF AInv, Made, Fetching
    <2>5. QED
      BY <2>3, <2>4
  <1>4. CASE AcquireUnsupported
    <2>1. /\ queue = << >> /\ candidates = << >> /\ stage = "idle" /\ stage' = "done"
          /\ queue' = queue /\ captured' = captured /\ failures' = failures
          /\ candidates' = candidates /\ adapter' = adapter /\ adapter \in Unsupported
      BY <1>1, <1>4 DEF AcquireUnsupported, AInv, Fetching, Made, source
    <2>2. Queued' = Queued /\ CapturedUrls' = CapturedUrls /\ adapter \notin Supported
      BY <2>1, NotBoth DEF Queued, CapturedUrls
    <2>3. Accounted'
      BY <1>1, <2>1, <2>2 DEF AInv, Accounted
    <2>4. CapturedUrls = {}
      BY <1>1, <2>1 DEF AInv, Made
    <2>5. Made' /\ Fetching'
      BY <1>2, <2>1, <2>2, <2>4 DEF Made, Fetching
    <2>6. QED
      BY <2>3, <2>5
  <1>5. CASE AcquireListing
    <2>1. /\ queue = << >> /\ candidates = << >> /\ stage = "idle" /\ stage' = "listing"
          /\ queue' = <<Listing>> /\ captured' = captured /\ failures' = failures
          /\ candidates' = candidates /\ adapter' = adapter /\ adapter \in Supported
      BY <1>1, <1>5 DEF AcquireListing, AInv, Fetching, Made, source
    <2>2. /\ Queued = {} /\ Queued' = {Listing} /\ CapturedUrls' = CapturedUrls
          /\ AskedFor = {} /\ AskedFor' = {Listing}
      BY <2>1 DEF Queued, CapturedUrls, AskedFor
    <2>3. failures = {} /\ CapturedUrls = {}
      BY <1>1, <2>1, <2>2 DEF AInv, Accounted
    <2>4. Accounted'
      BY <2>1, <2>2, <2>3 DEF Accounted
    <2>5. Made' /\ Fetching'
      BY <1>2, <2>1 DEF Made, Fetching
    <2>6. QED
      BY <2>4, <2>5
  <1>6. CASE ScraplingCaptures \/ BbBrowserCaptures
    BY <1>1, <1>6, AnsweredAccounted DEF ScraplingCaptures, BbBrowserCaptures, CapturedBy
  <1>7. CASE ScraplingModeFails
    <2>1. /\ queue # << >>
          /\ UNCHANGED <<adapter, limit, site, stage, queue, captured, failures, candidates,
                         result>>
      BY <1>7 DEF ScraplingModeFails, source
    <2>2. /\ Queued' = Queued /\ CapturedUrls' = CapturedUrls /\ AskedFor' = AskedFor
          /\ MaxResults' = MaxResults
      BY <2>1 DEF Queued, CapturedUrls, AskedFor, MaxResults, DetailUrls, Distinct
    <2>3. stage # "done"
      BY <1>1, <2>1 DEF AInv, Fetching
    <2>4. QED
      BY <1>1, <2>1, <2>2, <2>3 DEF AInv, Accounted, Made, Fetching
  <1>8. CASE ScraplingGivesUp \/ BbBrowserFails
    BY <1>1, <1>8, AnsweredAccounted DEF ScraplingGivesUp, BbBrowserFails, GivenUp
  <1>9. CASE ListingRead
    <2>1. /\ stage = "listing" /\ queue = << >> /\ Listing \in CapturedUrls
          /\ stage' = "details"
          /\ UNCHANGED <<adapter, limit, captured, failures, result>>
          /\ adapter \in Supported
      BY <1>1, <1>9 DEF ListingRead, source, AInv, Fetching
    <2>2. PICK content \in Seq(Postings \cup {Junk}) :
            candidates' = Extract(content) /\ queue' = DetailUrls(Extract(content))
      <3>1. {listing, << >>} \subseteq Seq(Postings \cup {Junk})
        BY <1>1 DEF AInv, Typed, TypeOK
      <3>2. \E content \in {listing, << >>} :
              candidates' = Extract(content) /\ queue' = DetailUrls(Extract(content))
        BY <1>9 DEF ListingRead, BbBrowserContents, ScraplingContents
      <3>3. QED
        BY <3>1, <3>2
    <2>3. limit \in Limits /\ MaxResults' = MaxResults
      BY <1>1, <2>1 DEF AInv, Typed, TypeOK, MaxResults
    <2>4. candidates' \in Seq(Postings) /\ Len(candidates') <= MaxResults
      BY <2>1, <2>2, <2>3, ExtractIsTyped
    <2>5. /\ queue' \in Seq(Postings) /\ queue' = DetailUrls(candidates')
          /\ \A k, l \in 1..Len(queue') : k # l => queue'[k] # queue'[l]
      BY <2>2, <2>4, DetailUrlsAreDistinct
    <2>6. DetailUrls(candidates)' = queue'
      BY <2>1, <2>5 DEF DetailUrls, Distinct
    <2>7. /\ Queued = {} /\ Queued' \subseteq Postings /\ Queued' = ToSet(queue')
          /\ CapturedUrls' = CapturedUrls
          /\ AskedFor = {Listing} /\ AskedFor' = {Listing} \cup ToSet(queue')
      BY <2>1, <2>5, <2>6 DEF Queued, CapturedUrls, AskedFor, ToSet
    <2>8. /\ failures \cup CapturedUrls = {Listing} /\ failures \cap CapturedUrls = {}
      BY <1>1, <2>1, <2>7 DEF AInv, Accounted
    <2>9. Listing \notin Queued'
      BY <2>7, BoardAssumption
    <2>10. Accounted'
      BY <2>1, <2>5, <2>7, <2>8, <2>9 DEF Accounted
    <2>11. Made' /\ Fetching'
      BY <2>1, <2>3, <2>4, <2>7 DEF Made, Fetching
    <2>12. QED
      BY <2>10, <2>11
  <1>10. CASE ListingFailed
    <2>1. /\ stage = "listing" /\ queue = << >> /\ Listing \notin CapturedUrls
          /\ stage' = "done"
          /\ UNCHANGED <<adapter, limit, queue, captured, failures, candidates>>
          /\ candidates = << >> /\ adapter \in Supported
      BY <1>1, <1>10 DEF ListingFailed, source, AInv, Fetching, Made
    <2>2. DetailUrls(candidates)' = << >>
      <3>1. << >> \in Seq(Postings)
        OBVIOUS
      <3>2. DetailUrls(<< >>) = << >>
        BY <3>1, DetailUrlsAreDistinct
      <3>3. QED
        BY <2>1, <3>2 DEF DetailUrls, Distinct
    <2>3. /\ Queued' = Queued /\ CapturedUrls' = CapturedUrls
          /\ AskedFor = {Listing} /\ AskedFor' = {Listing} /\ MaxResults' = MaxResults
      BY <2>1, <2>2 DEF Queued, CapturedUrls, AskedFor, ToSet, MaxResults
    <2>4. QED
      BY <1>1, <2>1, <2>3 DEF AInv, Accounted, Made, Fetching
  <1>11. CASE AcquireReturns
    <2>1. /\ stage = "details" /\ queue = << >> /\ stage' = "done"
          /\ UNCHANGED <<adapter, limit, site, queue, captured, failures, candidates>>
          /\ adapter \in Supported /\ Listing \in CapturedUrls
      BY <1>1, <1>11 DEF AcquireReturns, source, AInv, Fetching, Made
    <2>2. PICK told \in DetailContents(Details) : result' = Batch(Records(told))
      BY <1>11 DEF AcquireReturns, Details
    <2>3. /\ Queued' = Queued /\ CapturedUrls' = CapturedUrls /\ MaxResults' = MaxResults
          /\ AskedFor' = AskedFor
      BY <2>1 DEF Queued, CapturedUrls, AskedFor, MaxResults, DetailUrls, Distinct
    <2>4. /\ DetailContents(Details)' = DetailContents(Details)
          /\ Records(told)' = Records(told)
      BY <2>1, <2>3 DEF Details, DetailContents, OnPage, Records, DetailApply, ListedApply
    <2>5. (\E t \in DetailContents(Details) : result.records = Records(t))'
      BY <2>2, <2>4 DEF Batch
    <2>6. adapter \notin Unsupported
      BY <2>1, NotBoth
    <2>7. QED
      BY <1>1, <2>1, <2>3, <2>5, <2>6 DEF AInv, Accounted, Made, Fetching
  <1>12. CASE SecondRun
    <2>1. /\ stage' = "idle" /\ queue' = << >> /\ captured' = {} /\ failures' = {}
          /\ candidates' = << >>
      BY <1>12 DEF SecondRun
    <2>2. /\ Queued' = {} /\ CapturedUrls' = {} /\ AskedFor' = {} /\ 1..Len(queue') = {}
      BY <2>1 DEF Queued, CapturedUrls, AskedFor
    <2>3. Accounted' /\ Fetching'
      BY <2>1, <2>2 DEF Accounted, Fetching
    <2>4. Made'
      <3>1. Len(candidates') = 0
        BY <2>1
      <3>2. Len(candidates') <= MaxResults'
        BY <1>2, <3>1
      <3>3. QED
        BY <2>1, <2>2, <3>2 DEF Made
    <2>5. QED
      BY <2>3, <2>4
  <1>13. CASE UNCHANGED vars
    <2>1. /\ Queued' = Queued /\ CapturedUrls' = CapturedUrls /\ MaxResults' = MaxResults
          /\ AskedFor' = AskedFor /\ UNCHANGED vars
      BY <1>13 DEF vars, Queued, CapturedUrls, AskedFor, MaxResults, DetailUrls, Distinct
    <2>2. DetailContents(Details)' = DetailContents(Details)
          /\ \A told : Records(told)' = Records(told)
      BY <2>1 DEF vars, Details, DetailContents, OnPage, Records, DetailApply, ListedApply
    <2>3. Made'
      BY <1>1, <2>1, <2>2 DEF AInv, Made, vars
    <2>4. QED
      BY <1>1, <2>1, <2>3 DEF AInv, Accounted, Fetching, vars
  <1>14. QED
    BY <1>1, <1>3, <1>4, <1>5, <1>6, <1>7, <1>8, <1>9, <1>10, <1>11, <1>12, <1>13 DEF Next

\* The strengthening is an invariant.
LEMMA AnswersInvariance == Spec => []AInv
  <1>1. QED
    BY InitAInv, AInvStep, PTL DEF Spec

\* Every variable has its type, whatever the site lists and the fetches answer.
THEOREM BoardTypes == Spec => []TypeOK
  <1>1. AInv => TypeOK
    BY DEF AInv, Typed
  <1>2. QED
    BY <1>1, AnswersInvariance, PTL

\* When a batch is returned every URL asked for was answered once: a record or a
\* failure and never both.
THEOREM UrlsAreAnswered == Spec => []EveryUrlAnswered
  <1>1. QED
    BY AnsweredInAInv, AnswersInvariance, PTL

\* Failed detail pages cost a posting its detail and never its record, and
\* max_results bounds the records.
THEOREM CandidatesAreKept == Spec => []NoCandidateLost
  <1>1. QED
    BY KeptInAInv, AnswersInvariance, PTL
================================================================================
