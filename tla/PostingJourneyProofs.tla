-------------------------- MODULE PostingJourneyProofs -------------------------
(***************************************************************************)
(* What holds of a posting from its source to its resume, for all boards,  *)
(* feeds, links, skills and catalogs: it is stored once, its persona is    *)
(* that of its text, the scorer and the extraction agree on its keywords,  *)
(* and the order of the catalog decides only between equals.               *)
(***************************************************************************)
EXTENDS PostingJourney, TLAPS, NaturalsInduction, WellFoundedInduction, SequenceTheorems,
        FiniteSetTheorems

--------------------------------------------------------------------------------
(* Induction.                                                              *)

\* A set of naturals that is not empty has a least element.
LEMMA Least ==
  ASSUME NEW T \in SUBSET Nat, T # {}
  PROVE  \E n \in T : \A m \in T : n <= m
  <1> DEFINE R == {p \in Nat \X Nat : p[1] < p[2]}
  <1>1. IsWellFoundedOn(R, Nat)
    BY NatLessThanWellFounded DEF OpToRel
  <1>2. \A x, y \in Nat : <<y, x>> \in R <=> y < x
    OBVIOUS
  <1> HIDE DEF R
  <1>3. PICK x \in T : \A y \in T : <<y, x>> \notin R
    BY <1>1, WFMin
  <1>4. ASSUME NEW y \in T
        PROVE  x <= y
    <2>1. x \in Nat /\ y \in Nat /\ ~(y < x)
      BY <1>2, <1>3
    <2>2. QED
      BY <2>1
  <1>5. QED
    BY <1>4

\* Induction over the naturals below a bound.
LEMMA Induction ==
  ASSUME NEW S, NEW n \in Nat, 0 \in S, \A k \in 0..(n - 1) : k \in S => k + 1 \in S
  PROVE  \A k \in 0..n : k \in S
  <1>1. SUFFICES ASSUME (0..n) \ S # {}
                 PROVE  FALSE
    OBVIOUS
  <1>2. PICK k \in (0..n) \ S : \A m \in (0..n) \ S : k <= m
    <2>1. (0..n) \ S \in SUBSET Nat
      OBVIOUS
    <2>2. QED
      BY <1>1, <2>1, Least
  <1>3. /\ k # 0 /\ k - 1 \in 0..(n - 1) /\ (k - 1) + 1 = k
        /\ ~(k <= k - 1) /\ k - 1 \in 0..n
    BY <1>2
  <1>4. QED
    BY <1>2, <1>3

--------------------------------------------------------------------------------
(* The keywords of the scorer and of the extraction.                       *)

\* The words that a posting can ask for are those of the table, finitely many.
LEMMA AskedIsTech ==
  ASSUME NEW text
  PROVE  TechAsked(text) \subseteq AllTech /\ IsFiniteSet(AllTech)
  <1>1. AllTech = {"python", "c++"} \cup {"react", "postgresql"} \cup {"kubernetes", "kafka"}
    <2>1. DOMAIN TechKeywords = {"languages", "frameworks", "databases", "cloud", "tools"}
      BY DEF TechKeywords
    <2>2. AllTech = {"python", "c++"} \cup {"react"} \cup {"postgresql"}
                      \cup {"kubernetes"} \cup {"kafka"}
      <3>1. AllTech = UNION {TechKeywords[c] :
                      c \in {"languages", "frameworks", "databases", "cloud", "tools"}}
        BY <2>1 DEF AllTech
      <3>2. QED
        BY <3>1 DEF TechKeywords
    <2>3. QED
      BY <2>2
  <1>2. ASSUME NEW a, NEW b
        PROVE  IsFiniteSet({a, b})
    <2>1. IsFiniteSet({a}) /\ {a} \cup {b} = {a, b}
      BY FS_Singleton
    <2>2. IsFiniteSet({a} \cup {b})
      BY ONLY <2>1, FS_AddElement
    <2>3. QED
      BY <2>1, <2>2
  <1>3. IsFiniteSet(AllTech)
    <2>1. IsFiniteSet({"python", "c++"} \cup {"react", "postgresql"})
      BY <1>2, FS_Union
    <2>2. QED
      BY <1>1, <1>2, <2>1, FS_Union
  <1>4. DOMAIN SynonymMap = {"k8s", "postgres"}
        /\ SynonymMap["k8s"] = "kubernetes" /\ SynonymMap["postgres"] = "postgresql"
    BY DEF SynonymMap
  <1>5. QED
    BY <1>1, <1>3, <1>4 DEF TechAsked, KeywordsInText

\* The number of technologies asked for, and of those among some words.
LEMMA AskedIsCounted ==
  ASSUME NEW text, NEW S
  PROVE  /\ IsFiniteSet(TechAsked(text)) /\ Cardinality(TechAsked(text)) \in Nat
         /\ Cardinality(TechAsked(text) \cap S) \in Nat
         /\ Cardinality(TechAsked(text) \cap S) <= Cardinality(TechAsked(text))
         /\ TechAsked(text) # {} => Cardinality(TechAsked(text)) > 0
  <1>1. IsFiniteSet(TechAsked(text))
    BY AskedIsTech, FS_Subset
  <1>2. TechAsked(text) \cap S \subseteq TechAsked(text)
    OBVIOUS
  <1>3. IsFiniteSet(TechAsked(text) \cap S)
        /\ Cardinality(TechAsked(text) \cap S) <= Cardinality(TechAsked(text))
    BY <1>1, <1>2, FS_Subset
  <1>4. Cardinality(TechAsked(text)) \in Nat /\ Cardinality(TechAsked(text) \cap S) \in Nat
    BY <1>1, <1>3, FS_CardinalityType
  <1>5. TechAsked(text) # {} => Cardinality(TechAsked(text)) # 0
    BY <1>1, FS_EmptySet
  <1>6. QED
    BY <1>1, <1>3, <1>4, <1>5

\* Where the skills are spelled canonically, the scorer and the extraction see one share.
LEMMA SharesAgree ==
  ASSUME NEW text, NEW known, \A s \in known : NormalizeKeyword(s) = s,
         AtsSignals(text, known).found \cup AtsSignals(text, known).missing # {}
  PROVE  Round(10 * TechStack(text, known).num, TechStack(text, known).den)
           = AtsSignals(text, known).score
  <1> DEFINE own   == {NormalizeKeyword(s) : s \in known}
             asked == TechAsked(text)
  <1>1. own = known
    OBVIOUS
  <1>2. JdKeywords(text) = asked
    BY DEF JdKeywords, TechAsked
  <1> HIDE DEF asked
  <1>3. /\ AtsSignals(text, known).found = asked \cap known
        /\ AtsSignals(text, known).missing = asked \ known
        /\ AtsSignals(text, known).score =
             IF asked = {} THEN 0
             ELSE Round(1000 * Cardinality(asked \cap known), Cardinality(asked))
    BY <1>1, <1>2 DEF AtsSignals
  <1>4. asked # {}
    BY <1>3
  <1>5. TechStack(text, known) =
          [num |-> 100 * Cardinality(asked \cap known), den |-> Cardinality(asked)]
    BY <1>4 DEF TechStack, asked
  <1>6. Cardinality(asked \cap known) \in Nat
    BY AskedIsCounted DEF asked
  <1>7. 10 * (100 * Cardinality(asked \cap known)) = 1000 * Cardinality(asked \cap known)
    BY <1>6
  <1>8. QED
    BY <1>3, <1>4, <1>5, <1>7

\* The share of the asked technologies that the scorer credits the user with lies
\* between none and all of them (scorer.py:101), for every text and skills file.
THEOREM SharesAreBounded ==
  ASSUME NEW text, NEW known
  PROVE  /\ TechStack(text, known).num \in Nat /\ TechStack(text, known).den \in Nat
         /\ TechStack(text, known).den > 0
         /\ TechStack(text, known).num <= 100 * TechStack(text, known).den
  <1>1. CASE TechAsked(text) = {}
    BY <1>1 DEF TechStack, Neutral
  <1>2. CASE TechAsked(text) # {}
    <2> DEFINE c == Cardinality(TechAsked(text) \cap known)
               d == Cardinality(TechAsked(text))
    <2>1. c \in Nat /\ d \in Nat /\ c <= d /\ d > 0
      BY <1>2, AskedIsCounted
    <2>2. TechStack(text, known) = [num |-> 100 * c, den |-> d]
      BY <1>2 DEF TechStack
    <2> HIDE DEF c, d
    <2>3. QED
      BY <2>1, <2>2
  <1>3. QED
    BY <1>1, <1>2

--------------------------------------------------------------------------------
(* The ranking of the resumes.                                             *)

\* What the order of two suggestions looks at.
Ranked(s) ==
  /\ s.num \in Nat /\ s.den \in Nat /\ s.den > 0
  /\ s.persona \in {0, 1} /\ s.matched \in Nat

\* The largest of two numbers.
LEMMA MaxOfTwo ==
  ASSUME NEW n \in Int
  PROVE  Max({n, 1}) \in Nat /\ Max({n, 1}) >= 1 /\ Max({n, 1}) >= n
  <1>1. CASE n >= 1
    <2>1. \A x \in {n, 1} : (\A y \in {n, 1} : x >= y) <=> x = n
      BY <1>1
    <2>2. Max({n, 1}) = n
      BY <1>1, <2>1 DEF Max
    <2>3. QED
      BY <1>1, <2>2
  <1>2. CASE ~(n >= 1)
    <2>1. \A x \in {n, 1} : (\A y \in {n, 1} : x >= y) <=> x = 1
      BY <1>2
    <2>2. Max({n, 1}) = 1
      BY <1>2, <2>1 DEF Max
    <2>3. QED
      BY <1>2, <2>2
  <1>3. QED
    BY <1>1, <1>2

\* The years a text asks for.
LEMMA YearsAreCounted ==
  ASSUME NEW text
  PROVE  YearsRequired(text) \in {Unstated, 3, 8}
  <1> DEFINE stated == {YearPhrases[y] : y \in text \cap DOMAIN YearPhrases}
  <1>1. stated \subseteq {3, 8}
    BY DEF YearPhrases
  <1>2. YearsRequired(text) = IF stated = {} THEN Unstated ELSE Max(stated)
    BY DEF YearsRequired
  <1> HIDE DEF stated
  <1>3. CASE stated # {}
    <2>1. \E x \in stated : \A y \in stated : x >= y
      <3>1. CASE 8 \in stated
        BY <1>1, <3>1
      <3>2. CASE 8 \notin stated
        <4>1. stated = {3}
          BY <1>1, <1>3, <3>2
        <4>2. QED
          BY <4>1
      <3>3. QED
        BY <3>1, <3>2
    <2>2. Max(stated) \in stated
      BY <2>1 DEF Max
    <2>3. QED
      BY <1>1, <1>2, <1>3, <2>2
  <1>4. QED
    BY <1>2, <1>3

\* How the years of a resume fit, as a fraction.
LEMMA FitIsFraction ==
  ASSUME NEW own \in Nat \cup {Unstated}, NEW required \in {Unstated, 3, 8}
  PROVE  /\ YearsFit(own, required).num \in Nat /\ YearsFit(own, required).den \in Nat
         /\ YearsFit(own, required).den > 0
  <1>1. CASE required = Unstated
    BY <1>1 DEF YearsFit
  <1>2. CASE required # Unstated /\ own = Unstated
    BY <1>2 DEF YearsFit
  <1>3. CASE required # Unstated /\ own # Unstated
    <2>1. required \in Nat /\ own \in Nat /\ required >= 3
      BY <1>3
    <2>2. Max({required, 1}) \in Nat /\ Max({required, 1}) > 0
      BY <2>1, MaxOfTwo
    <2>3. CASE own >= required
      BY <1>3, <2>1, <2>3 DEF YearsFit
    <2>4. CASE ~(own >= required)
      <3>1. YearsFit(own, required) = [num |-> own, den |-> Max({required, 1})]
        BY <1>3, <2>1, <2>4 DEF YearsFit
      <3>2. QED
        BY <2>1, <2>2, <3>1
    <2>5. QED
      BY <2>3, <2>4
  <1>4. QED
    BY <1>1, <1>2, <1>3

\* Every resume of a catalog has its place in the order.
LEMMA SuggestionIsRanked ==
  ASSUME NEW resume, IsFiniteSet(resume.skills), resume.years \in Nat \cup {Unstated},
         NEW text, NEW persona
  PROVE  Ranked(Suggestion(resume, text, persona))
  <1> DEFINE matched == KeywordsInText(text, resume.skills)
             m       == Cardinality(matched)
             size    == Max({Cardinality(resume.skills), 1})
             fits    == persona # NotSet /\ resume.persona = persona
             years   == YearsFit(resume.years, YearsRequired(text))
             bonus   == IF fits THEN 3 * size * years.den ELSE 0
  <1>1. matched \subseteq resume.skills
    BY DEF KeywordsInText
  <1>2. m \in Nat /\ Cardinality(resume.skills) \in Nat
    BY <1>1, FS_Subset, FS_CardinalityType
  <1>3. size \in Nat /\ size >= 1
    BY <1>2, MaxOfTwo
  <1>4. years.num \in Nat /\ years.den \in Nat /\ years.den > 0
    BY YearsAreCounted, FitIsFraction
  <1>5. /\ Suggestion(resume, text, persona).num =
             5 * m * years.den + bonus + 2 * years.num * size
        /\ Suggestion(resume, text, persona).den = 10 * size * years.den
        /\ Suggestion(resume, text, persona).persona \in {0, 1}
        /\ Suggestion(resume, text, persona).matched = m
    BY DEF Suggestion
  <1> HIDE DEF m, size, years, fits
  <1>6. ASSUME NEW a \in Nat, NEW b \in Nat
        PROVE  a * b \in Nat /\ (a > 0 /\ b > 0 => a * b > 0)
    OBVIOUS
  <1>7. 3 * size * years.den \in Nat
    BY <1>3, <1>4, <1>6
  <1>8. bonus \in Nat
    BY <1>7
  <1> HIDE DEF bonus
  <1>9. 5 * m * years.den \in Nat /\ 2 * years.num * size \in Nat
    BY <1>2, <1>3, <1>4, <1>6
  <1>10. 10 * size \in Nat /\ 10 * size > 0
    BY <1>3
  <1>11. 10 * size * years.den \in Nat /\ 10 * size * years.den > 0
    BY <1>4, <1>6, <1>10
  <1>12. QED
    BY <1>2, <1>5, <1>8, <1>9, <1>11 DEF Ranked

\* Fractions compare by cross-multiplication: larger than and equal to one is
\* larger than the other.
LEMMA FractionsCompare ==
  ASSUME NEW a \in Nat, NEW b \in Nat, NEW c \in Nat, NEW d \in Nat, NEW e \in Nat,
         NEW f \in Nat, b > 0, d > 0, f > 0
  PROVE  /\ a * d > c * b /\ c * f >= e * d => a * f > e * b
         /\ a * d >= c * b /\ c * f > e * d => a * f > e * b
         /\ a * d = c * b /\ c * f = e * d => a * f = e * b
  <1>1. ASSUME NEW x \in Nat, NEW y \in Nat, NEW z \in Nat, z > 0
        PROVE  /\ x > y <=> x * z > y * z
               /\ x = y <=> x * z = y * z
               /\ x >= y <=> x * z >= y * z
    <2>1. ASSUME NEW p \in Nat, NEW q \in Nat, p > q
          PROVE  p * z > q * z
      <3>1. (p - q) * z > 0 /\ p - q \in Nat
        <4>1. ASSUME NEW k \in Nat, k > 0
              PROVE  k * z > 0
          <5>1. z \in Nat /\ z > 0 /\ k \in Nat /\ k > 0
            BY <1>1, <4>1
          <5>2. QED
            BY ONLY <5>1
        <4>2. p - q \in Nat /\ p - q > 0
          BY <2>1
        <4>3. QED
          BY <4>1, <4>2
      <3>2. (p - q) * z = p * z - q * z
        OBVIOUS
      <3>3. QED
        BY <3>1, <3>2
    <2>2. x * z \in Nat /\ y * z \in Nat
      OBVIOUS
    <2>3. x > y => x * z > y * z
      BY <2>1
    <2>4. y > x => y * z > x * z
      BY <2>1
    <2>5. x > y \/ x = y \/ y > x
      OBVIOUS
    <2>6. QED
      BY <2>2, <2>3, <2>4, <2>5
  <1>2. /\ (a * d) * f = (a * f) * d /\ (c * b) * f = (c * f) * b
        /\ (e * d) * b = (e * b) * d
    OBVIOUS
  <1>3. /\ a * d \in Nat /\ c * b \in Nat /\ c * f \in Nat /\ e * d \in Nat
        /\ a * f \in Nat /\ e * b \in Nat
    OBVIOUS
  <1>4. /\ a * d > c * b <=> (a * f) * d > (c * f) * b
        /\ a * d >= c * b <=> (a * f) * d >= (c * f) * b
        /\ a * d = c * b <=> (a * f) * d = (c * f) * b
    BY <1>1, <1>2, <1>3
  <1>5. /\ c * f > e * d <=> (c * f) * b > (e * b) * d
        /\ c * f >= e * d <=> (c * f) * b >= (e * b) * d
        /\ c * f = e * d <=> (c * f) * b = (e * b) * d
    BY <1>1, <1>2, <1>3
  <1>6. /\ a * f > e * b <=> (a * f) * d > (e * b) * d
        /\ a * f = e * b <=> (a * f) * d = (e * b) * d
    BY <1>1, <1>3
  <1>7. (a * f) * d \in Nat /\ (c * f) * b \in Nat /\ (e * b) * d \in Nat
    BY <1>3
  <1>8. QED
    BY <1>4, <1>5, <1>6, <1>7

\* Two suggestions of which neither is better have the same key.
LEMMA NeitherBetter ==
  ASSUME NEW s, NEW t, Ranked(s), Ranked(t), ~Better(s, t), ~Better(t, s)
  PROVE  s.num * t.den = t.num * s.den /\ s.persona = t.persona /\ s.matched = t.matched
  <1>1. s.num * t.den \in Nat /\ t.num * s.den \in Nat
    BY DEF Ranked
  <1>2. s.num * t.den = t.num * s.den
    BY <1>1 DEF Better
  <1>3. QED
    BY <1>2 DEF Better, Ranked

\* What is better than a suggestion is better than every one with its key, or worse.
LEMMA BetterThanAll ==
  ASSUME NEW s, NEW t, NEW u, Ranked(s), Ranked(t), Ranked(u), Better(s, t),
         ~Better(u, t)
  PROVE  Better(s, u)
  <1>1. /\ s.num * t.den \in Nat /\ t.num * s.den \in Nat /\ s.num * u.den \in Nat
        /\ u.num * s.den \in Nat /\ t.num * u.den \in Nat /\ u.num * t.den \in Nat
    BY DEF Ranked
  <1>2. /\ s.num * t.den > t.num * s.den /\ t.num * u.den >= u.num * t.den
             => s.num * u.den > u.num * s.den
        /\ s.num * t.den >= t.num * s.den /\ t.num * u.den > u.num * t.den
             => s.num * u.den > u.num * s.den
        /\ s.num * t.den = t.num * s.den /\ t.num * u.den = u.num * t.den
             => s.num * u.den = u.num * s.den
    <2>1. /\ s.num \in Nat /\ s.den \in Nat /\ s.den > 0
          /\ t.num \in Nat /\ t.den \in Nat /\ t.den > 0
          /\ u.num \in Nat /\ u.den \in Nat /\ u.den > 0
      BY DEF Ranked
    <2> DEFINE a == s.num
               b == s.den
               c == t.num
               d == t.den
               e == u.num
               f == u.den
    <2> HIDE DEF a, b, c, d, e, f
    <2>2. /\ a \in Nat /\ b \in Nat /\ c \in Nat /\ d \in Nat /\ e \in Nat /\ f \in Nat
          /\ b > 0 /\ d > 0 /\ f > 0
      BY <2>1 DEF a, b, c, d, e, f
    <2>3. /\ a * d > c * b /\ c * f >= e * d => a * f > e * b
          /\ a * d >= c * b /\ c * f > e * d => a * f > e * b
          /\ a * d = c * b /\ c * f = e * d => a * f = e * b
      BY ONLY <2>2, FractionsCompare
    <2>4. QED
      BY <2>3 DEF a, b, c, d, e, f
  <1>3. CASE s.num * t.den > t.num * s.den
    <2>1. t.num * u.den >= u.num * t.den
      BY <1>1 DEF Better
    <2>2. QED
      BY <1>2, <1>3, <2>1 DEF Better
  <1>4. CASE s.num * t.den = t.num * s.den /\ t.num * u.den > u.num * t.den
    BY <1>1, <1>2, <1>4 DEF Better
  <1>5. CASE s.num * t.den = t.num * s.den /\ t.num * u.den = u.num * t.den
    <2>1. s.num * u.den = u.num * s.den
      BY <1>2, <1>5
    <2>2. /\ s.persona \in {0, 1} /\ t.persona \in {0, 1} /\ u.persona \in {0, 1}
          /\ s.matched \in Nat /\ t.matched \in Nat /\ u.matched \in Nat
      BY DEF Ranked
    <2>3. s.persona > t.persona \/ (s.persona = t.persona /\ s.matched > t.matched)
      BY <1>1, <1>5 DEF Better
    <2>4. ~(u.persona > t.persona) /\ ~(u.persona = t.persona /\ u.matched > t.matched)
      BY <1>5 DEF Better
    <2>5. s.persona > u.persona \/ (s.persona = u.persona /\ s.matched > u.matched)
      BY <2>2, <2>3, <2>4
    <2>6. QED
      BY <2>1, <2>5 DEF Better
  <1>6. t.num * u.den >= u.num * t.den /\ s.num * t.den >= t.num * s.den
    BY <1>1 DEF Better
  <1>7. QED
    BY <1>1, <1>3, <1>4, <1>5, <1>6

\* Nothing is better than itself.
LEMMA NotBetterThanItself ==
  ASSUME NEW s, Ranked(s)
  PROVE  ~Better(s, s)
  <1>1. s.num * s.den \in Nat
    BY DEF Ranked
  <1>2. QED
    BY <1>1 DEF Better, Ranked

\* Of two suggestions at most one is better.
LEMMA BetterIsOneSided ==
  ASSUME NEW s, NEW t, Ranked(s), Ranked(t), Better(s, t)
  PROVE  ~Better(t, s)
  <1>1. s.num * t.den \in Nat /\ t.num * s.den \in Nat
    BY DEF Ranked
  <1>2. QED
    BY <1>1 DEF Better, Ranked

\* A suggestion that no other is better than.
Best(all, i) == i \in DOMAIN all /\ \A k \in DOMAIN all : ~Better(all[k], all[i])

\* Some suggestion is the best.
LEMMA BestExists ==
  ASSUME NEW n \in Nat, n > 0, NEW all, DOMAIN all = 1..n, \A i \in 1..n : Ranked(all[i])
  PROVE  \E i \in 1..n : Best(all, i)
  <1> DEFINE D == {m \in Nat : m + 1 <= n =>
                     \E i \in 1..(m + 1) : \A k \in 1..(m + 1) : ~Better(all[k], all[i])}
  <1>1. 0 \in D
    <2>1. \A k \in 1..(0 + 1) : k = 1
      OBVIOUS
    <2>2. ~Better(all[1], all[1])
      BY NotBetterThanItself
    <2>3. QED
      BY <2>1, <2>2
  <1>2. ASSUME NEW m \in 0..((n - 1) - 1), m \in D
        PROVE  m + 1 \in D
    <2>1. m \in Nat /\ m + 1 <= n /\ m + 2 \in 1..n /\ (m + 1) + 1 = m + 2
      BY <1>2
    <2>2. PICK i \in 1..(m + 1) : \A k \in 1..(m + 1) : ~Better(all[k], all[i])
      BY <1>2, <2>1
    <2>3. /\ i \in 1..n /\ i \in 1..(m + 2)
          /\ \A k \in 1..(m + 2) : k \in 1..n /\ (k = m + 2 \/ k \in 1..(m + 1))
      BY <2>1, <2>2
    <2>4. CASE Better(all[m + 2], all[i])
      <3>1. ASSUME NEW k \in 1..(m + 1)
            PROVE  Better(all[m + 2], all[k])
        <4>1. Ranked(all[m + 2]) /\ Ranked(all[i]) /\ Ranked(all[k]) /\ ~Better(all[k], all[i])
          BY <2>1, <2>2, <2>3
        <4>2. QED
          BY <2>4, <4>1, BetterThanAll
      <3>2. ASSUME NEW k \in 1..(m + 1)
            PROVE  ~Better(all[k], all[m + 2])
        <4>1. Ranked(all[m + 2]) /\ Ranked(all[k]) /\ Better(all[m + 2], all[k])
          BY <2>1, <2>3, <3>1
        <4>2. QED
          BY <4>1, BetterIsOneSided
      <3>3. ~Better(all[m + 2], all[m + 2])
        BY <2>1, NotBetterThanItself
      <3>4. \A k \in 1..(m + 2) : ~Better(all[k], all[m + 2])
        BY <2>3, <3>2, <3>3
      <3>5. QED
        BY <2>1, <3>4
    <2>5. CASE ~Better(all[m + 2], all[i])
      <3>1. \A k \in 1..(m + 2) : ~Better(all[k], all[i])
        BY <2>2, <2>3, <2>5
      <3>2. QED
        BY <2>1, <2>3, <3>1
    <2>6. QED
      BY <2>4, <2>5
  <1>3. n - 1 \in D
    <2> DEFINE last == n - 1
    <2>1. last \in Nat
      OBVIOUS
    <2> HIDE DEF D, last
    <2>2. \A m \in 0..(last - 1) : m \in D => m + 1 \in D
      BY <1>2 DEF last
    <2>3. \A m \in 0..last : m \in D
      BY <1>1, <2>1, <2>2, Induction
    <2>4. QED
      BY <2>1, <2>3 DEF last
  <1>4. (n - 1) + 1 = n
    OBVIOUS
  <1>5. QED
    BY <1>3, <1>4 DEF Best

\* The index that the ranking picks: the best suggestion that comes first.
Picked(all) ==
  CHOOSE i \in DOMAIN all :
    /\ \A k \in DOMAIN all : ~Better(all[k], all[i])
    /\ \A k \in 1..(i - 1) : Better(all[i], all[k])

\* What is picked is the best.
LEMMA PickedIsBest ==
  ASSUME NEW n \in Nat, n > 0, NEW all, DOMAIN all = 1..n, \A i \in 1..n : Ranked(all[i])
  PROVE  Best(all, Picked(all))
  <1> DEFINE T == {i \in 1..n : Best(all, i)}
  <1>1. T \in SUBSET Nat /\ T # {}
    BY BestExists
  <1>2. PICK i \in T : \A m \in T : i <= m
    BY <1>1, Least
  <1>3. i \in 1..n /\ \A k \in 1..n : ~Better(all[k], all[i])
    BY <1>2 DEF Best
  <1>4. ASSUME NEW k \in 1..(i - 1)
        PROVE  Better(all[i], all[k])
    <2>1. k \in 1..n /\ ~(i <= k) /\ k \notin T
      BY <1>2, <1>3
    <2>2. PICK j \in 1..n : Better(all[j], all[k])
      BY <2>1 DEF Best
    <2>3. CASE ~Better(all[i], all[k])
      <3>1. Ranked(all[i]) /\ Ranked(all[j]) /\ Ranked(all[k])
        BY <1>3, <2>1
      <3>2. Better(all[j], all[i])
        BY <2>2, <2>3, <3>1, BetterThanAll
      <3>3. QED
        BY <1>3, <3>2
    <2>4. QED
      BY <2>3
  <1>5. Picked(all) \in DOMAIN all /\ \A k \in DOMAIN all : ~Better(all[k], all[Picked(all)])
    <2> DEFINE Leads(x) == /\ \A y \in DOMAIN all : ~Better(all[y], all[x])
                           /\ \A y \in 1..(x - 1) : Better(all[x], all[y])
    <2>1. i \in DOMAIN all /\ Leads(i)
      BY <1>3, <1>4
    <2>2. Picked(all) = CHOOSE x \in DOMAIN all : Leads(x)
      BY DEF Picked
    <2> HIDE DEF Leads
    <2>3. Picked(all) \in DOMAIN all /\ Leads(Picked(all))
      BY <2>1, <2>2
    <2>4. QED
      BY <2>3 DEF Leads
  <1>6. QED
    BY <1>5 DEF Best

\* The suggestions for a catalog, each with its place in the order.
LEMMA SuggestionsAreRanked ==
  ASSUME NEW c \in Catalogs, c # << >>, NEW text, NEW persona
  PROVE  /\ Len(c) \in Nat /\ Len(c) > 0
         /\ DOMAIN Suggestions(c, text, persona) = 1..Len(c)
         /\ \A i \in 1..Len(c) :
              /\ Suggestions(c, text, persona)[i] = Suggestion(c[i], text, persona)
              /\ Ranked(Suggestions(c, text, persona)[i])
  <1>1. c \in Seq(ToSet(c))
    BY CatalogsAssumption
  <1>2. Len(c) \in Nat /\ Len(c) > 0 /\ DOMAIN c = 1..Len(c)
    BY <1>1
  <1>3. ASSUME NEW i \in 1..Len(c)
        PROVE  IsFiniteSet(c[i].skills) /\ c[i].years \in Nat \cup {Unstated}
    BY <1>2, CatalogsAssumption DEF ToSet
  <1>4. QED
    BY <1>2, <1>3, SuggestionIsRanked DEF Suggestions

\* Turning a catalog round turns its suggestions round.
LEMMA ReversedSuggestions ==
  ASSUME NEW c \in Catalogs, c # << >>, NEW text, NEW persona
  PROVE  /\ DOMAIN Suggestions(Reverse(c), text, persona) = 1..Len(c)
         /\ \A i \in 1..Len(c) :
              /\ Len(c) + 1 - i \in 1..Len(c)
              /\ Suggestions(Reverse(c), text, persona)[i]
                   = Suggestions(c, text, persona)[Len(c) + 1 - i]
  <1>1. Len(c) \in Nat /\ DOMAIN Suggestions(c, text, persona) = 1..Len(c)
        /\ \A i \in 1..Len(c) :
             Suggestions(c, text, persona)[i] = Suggestion(c[i], text, persona)
    BY SuggestionsAreRanked
  <1>2. Reverse(c) = [i \in 1..Len(c) |-> c[(Len(c) - i) + 1]]
    BY DEF Reverse
  <1>3. DOMAIN Reverse(c) = 1..Len(c)
    BY <1>2
  <1>4. ASSUME NEW i \in 1..Len(c)
        PROVE  /\ Len(c) + 1 - i \in 1..Len(c)
               /\ Reverse(c)[i] = c[Len(c) + 1 - i]
    <2>1. (Len(c) - i) + 1 = Len(c) + 1 - i
      BY <1>1
    <2>2. QED
      BY <1>1, <1>2, <2>1
  <1>5. QED
    BY <1>1, <1>3, <1>4 DEF Suggestions

\* Where no two best suggestions have one key, the order of the catalog decides nothing.
LEMMA OrderDecidesNothing ==
  ASSUME NEW c \in Catalogs, c # << >>, NEW text, NEW persona, ~Tied(c, text, persona)
  PROVE  Suggest(Reverse(c), text, persona) = Suggest(c, text, persona)
  <1> DEFINE all  == Suggestions(c, text, persona)
             back == Suggestions(Reverse(c), text, persona)
             n    == Len(c)
             flip(i) == n + 1 - i
  <1>1. n \in Nat /\ n > 0 /\ DOMAIN all = 1..n /\ \A i \in 1..n : Ranked(all[i])
    BY SuggestionsAreRanked
  <1>2. DOMAIN back = 1..n /\ \A i \in 1..n : flip(i) \in 1..n /\ back[i] = all[flip(i)]
    BY ReversedSuggestions
  <1>3. \A i \in 1..n : Ranked(back[i])
    BY <1>1, <1>2
  <1>4. Suggest(c, text, persona) = all[Picked(all)]
        /\ Suggest(Reverse(c), text, persona) = back[Picked(back)]
    BY DEF Suggest, Picked
  <1>5. ~\E i, k \in DOMAIN all :
           /\ i # k
           /\ \A j \in DOMAIN all : ~Better(all[j], all[i])
           /\ all[i].num * all[k].den = all[k].num * all[i].den
           /\ all[i].persona = all[k].persona /\ all[i].matched = all[k].matched
    BY DEF Tied
  <1> HIDE DEF all, back, n
  <1>6. Best(all, Picked(all)) /\ Best(back, Picked(back))
    BY <1>1, <1>2, <1>3, PickedIsBest
  <1> DEFINE b == Picked(all)
             r == flip(Picked(back))
  <1>7. b \in 1..n /\ \A k \in 1..n : ~Better(all[k], all[b])
    BY <1>1, <1>6 DEF Best
  <1>8. r \in 1..n /\ \A k \in 1..n : ~Better(all[k], all[r])
    <2>1. Picked(back) \in 1..n /\ back[Picked(back)] = all[r] /\ r \in 1..n
      BY <1>2, <1>6 DEF Best
    <2>2. ASSUME NEW k \in 1..n
          PROVE  ~Better(all[k], all[r])
      <3>1. flip(k) \in 1..n /\ flip(flip(k)) = k
        BY <1>1
      <3>2. back[flip(k)] = all[k]
        BY <1>2, <3>1
      <3>3. ~Better(back[flip(k)], back[Picked(back)])
        BY <1>2, <1>6, <3>1 DEF Best
      <3>4. QED
        BY <2>1, <3>2, <3>3
    <2>3. QED
      BY <2>1, <2>2
  <1>9. b = r
    <2>1. /\ Ranked(all[b]) /\ Ranked(all[r])
          /\ ~Better(all[b], all[r]) /\ ~Better(all[r], all[b])
      BY <1>1, <1>7, <1>8
    <2>2. /\ all[b].num * all[r].den = all[r].num * all[b].den
          /\ all[b].persona = all[r].persona /\ all[b].matched = all[r].matched
      BY <2>1, NeitherBetter
    <2> HIDE DEF b, r
    <2>3. QED
      BY <1>1, <1>5, <1>7, <1>8, <2>2
  <1>10. back[Picked(back)] = all[r]
    BY <1>2, <1>6 DEF Best
  <1>11. QED
    BY <1>4, <1>9, <1>10

--------------------------------------------------------------------------------
(* The rows and their verdicts.                                            *)

Columns ==
  {"source", "external", "role", "canonical", "company", "title", "scored", "location",
   "description", "remote", "apply", "url", "pipeline", "analysis", "former", "requested"}

Shaped(r) ==
  DOMAIN r = Columns /\ DOMAIN r.analysis = {"score", "persona", "ats", "resume"}

\* A row that no earlier pass has searched for keywords has none until they are
\* extracted, and a persona of its text.
PersonaFits(r) ==
  r.former = NoAts =>
    /\ r.pipeline \in {"INGESTED", "SCORED"} => r.analysis.ats = NoAts
    /\ r.pipeline \in {"CLASSIFIED", "ATS_ANALYZED", "RESUME_READY"}
         => r.analysis.persona = Persona(r.scored, r.description, NoAts)

\* The score and the keywords are those of the row's description.
TechFits(r, known) ==
  /\ r.pipeline \in {"SCORED", "CLASSIFIED", "ATS_ANALYZED", "RESUME_READY"}
       => r.analysis.score.tech = Round(10 * TechStack(r.description, known).num,
                                        TechStack(r.description, known).den)
  /\ r.pipeline \in {"ATS_ANALYZED", "RESUME_READY"}
       => r.analysis.ats = AtsSignals(r.description, known)

\* The resume is the one that the catalog ranks first for the row.
ResumeFits(r, resumes) ==
  r.pipeline = "RESUME_READY" =>
    /\ resumes # << >>
    /\ r.analysis.resume =
         Suggest(resumes, r.title \cup r.description, r.analysis.persona).resume

RowFits(r, known, resumes) ==
  Shaped(r) /\ PersonaFits(r) /\ TechFits(r, known) /\ ResumeFits(r, resumes)

\* A new row has no verdicts.
LEMMA NewRowFits ==
  ASSUME NEW p, NEW role, NEW requested, NEW known, NEW resumes
  PROVE  RowFits(Row(p, role, requested), known, resumes)
  <1> DEFINE r == Row(p, role, requested)
  <1>1. Shaped(r)
    BY DEF Shaped, Row, Columns, NoAnalysis
  <1>2. r.pipeline = "INGESTED" /\ r.analysis = NoAnalysis
    BY DEF Row
  <1>3. r.analysis.ats = NoAts
    BY <1>2 DEF NoAnalysis
  <1> HIDE DEF r
  <1>4. RowFits(r, known, resumes)
    BY <1>1, <1>2, <1>3 DEF RowFits, PersonaFits, TechFits, ResumeFits
  <1>5. QED
    BY <1>4 DEF r

\* No verdict depends on the links.
LEMMA FilledRowFits ==
  ASSUME NEW r, NEW link, NEW known, NEW resumes, RowFits(r, known, resumes)
  PROVE  RowFits([r EXCEPT !.apply = link], known, resumes)
  <1> DEFINE w == [r EXCEPT !.apply = link]
  <1>1. DOMAIN r = Columns
    BY DEF RowFits, Shaped
  <1>2. /\ DOMAIN w = Columns /\ w.analysis = r.analysis /\ w.pipeline = r.pipeline
        /\ w.former = r.former /\ w.scored = r.scored /\ w.title = r.title
        /\ w.description = r.description
    BY <1>1 DEF Columns
  <1> HIDE DEF w
  <1>3. RowFits(w, known, resumes)
    BY <1>2 DEF RowFits, Shaped, PersonaFits, TechFits, ResumeFits
  <1>4. QED
    BY <1>3 DEF w

\* A resolution starts the row over.
LEMMA EnrichedRowFits ==
  ASSUME NEW r, NEW p, NEW known, NEW resumes, RowFits(r, known, resumes)
  PROVE  RowFits(Enriched(r, p), known, resumes)
  <1> DEFINE u == EnrichedInPlace(r, p)
             w == Enriched(r, p)
  <1>1. DOMAIN r = Columns
    BY DEF RowFits, Shaped
  <1>2. /\ DOMAIN u = Columns /\ u.analysis = r.analysis /\ u.pipeline = "INGESTED"
        /\ u.former = r.analysis.ats
    BY <1>1 DEF Columns, EnrichedInPlace
  <1>3. /\ DOMAIN w = Columns /\ w.analysis = r.analysis /\ w.pipeline = "INGESTED"
        /\ w.former = r.analysis.ats
    BY <1>2 DEF Enriched, Columns
  <1> HIDE DEF u, w
  <1>4. RowFits(w, known, resumes)
    BY <1>3 DEF RowFits, Shaped, PersonaFits, TechFits, ResumeFits
  <1>5. QED
    BY <1>4 DEF w

--------------------------------------------------------------------------------
(* Storing a batch.                                                        *)

RowsFit(rows, known, resumes) == \A h \in DOMAIN rows : RowFits(rows[h], known, resumes)

\* Storing one record.
LEMMA StoredRowsFit ==
  ASSUME NEW rows, NEW p, NEW role, NEW requested, NEW known, NEW resumes,
         RowsFit(rows, known, resumes)
  PROVE  RowsFit(Store(rows, p, role, requested), known, resumes)
  <1>1. ASSUME NEW by, NEW link
        PROVE  RowsFit(Insert(rows, p, by, link), known, resumes)
    <2> DEFINE new == Insert(rows, p, by, link)
    <2>1. DOMAIN new = DOMAIN rows \cup {DedupHash(p)}
      BY DEF Insert
    <2>2. \A h \in DOMAIN new :
            new[h] = IF h = DedupHash(p) THEN Row(p, by, link) ELSE rows[h]
      BY DEF Insert
    <2> HIDE DEF new
    <2>3. RowsFit(new, known, resumes)
      BY <2>1, <2>2, NewRowFits DEF RowsFit
    <2>4. QED
      BY <2>3 DEF new
  <1>2. RowsFit(StoreMapped(rows, p, role, requested), known, resumes)
    BY <1>1 DEF StoreMapped
  <1>3. RowsFit(StoreUnmapped(rows, p), known, resumes)
    <2> DEFINE h == DedupHash(p)
               new == [rows EXCEPT ![h].apply = FirstLink(@, p.apply)]
    <2>1. CASE h \in DOMAIN rows
      <3>1. StoreUnmapped(rows, p) = new
        BY <2>1 DEF StoreUnmapped
      <3>2. DOMAIN new = DOMAIN rows
            /\ \A g \in DOMAIN rows :
                 new[g] = IF g = h
                          THEN [rows[h] EXCEPT !.apply = FirstLink(rows[h].apply, p.apply)]
                          ELSE rows[g]
        BY <2>1
      <3> HIDE DEF new, h
      <3>3. RowFits([rows[h] EXCEPT !.apply = FirstLink(rows[h].apply, p.apply)],
                    known, resumes)
        BY <2>1, FilledRowFits DEF RowsFit
      <3>4. QED
        BY <3>1, <3>2, <3>3 DEF RowsFit
    <2>2. CASE h \notin DOMAIN rows
      BY <1>1, <2>2 DEF StoreUnmapped
    <2>3. QED
      BY <2>1, <2>2
  <1>4. QED
    BY <1>2, <1>3 DEF Store

\* The tables that StoreAll goes through, from the one at hand to its result.
Fills(f, source, batch, configured, role, requested) ==
  /\ f[0] = jobs
  /\ \A k \in 1..Len(batch) :
       f[k] = Store(f[k - 1], Normalize(source, batch[k], configured), role, requested)
  /\ StoreAll(source, batch, configured, role, requested) = f[Len(batch)]

\* There are such tables: StoreAll is defined by recursion over the batch.
LEMMA StoreAllFills ==
  ASSUME NEW source, NEW batch, Len(batch) \in Nat, NEW configured, NEW role, NEW requested
  PROVE  \E f : Fills(f, source, batch, configured, role, requested)
  <1> DEFINE N == Len(batch)
             Added(rows, k) == Store(rows, Normalize(source, batch[k], configured),
                                     role, requested)
             Has(f, n) == f = [k \in 0..n |-> IF k = 0 THEN jobs ELSE Added(f[k - 1], k)]
             D == {n \in Nat : \E f : Has(f, n)}
  <1> HIDE DEF Added
  <1>1. N \in Nat
    OBVIOUS
  <1>2. 0 \in D
    <2>1. Has([k \in 0..0 |-> jobs], 0)
      OBVIOUS
    <2>2. QED
      BY <2>1
  <1>3. ASSUME NEW n \in 0..(N - 1), n \in D
        PROVE  n + 1 \in D
    <2>1. PICK f : Has(f, n)
      BY <1>3
    <2> DEFINE new == Added(f[n], n + 1)
               g == [k \in 0..(n + 1) |-> IF k = n + 1 THEN new ELSE f[k]]
    <2>2. n \in Nat /\ n + 1 \in Nat /\ \A k \in 0..(n + 1) : k # n + 1 => k \in 0..n
          /\ (k # 0 => k - 1 \in 0..n)
      BY <1>1, <1>3
    <2>3. ASSUME NEW k \in 0..(n + 1)
          PROVE  g[k] = IF k = 0 THEN jobs ELSE Added(g[k - 1], k)
      <3>1. CASE k = n + 1
        <4>1. g[k] = new /\ k # 0 /\ k - 1 = n /\ g[n] = f[n]
          BY <2>2, <3>1
        <4>2. QED
          BY <3>1, <4>1
      <3>2. CASE k # n + 1
        <4>1. g[k] = f[k] /\ k \in 0..n /\ (k # 0 => k - 1 \in 0..n /\ g[k - 1] = f[k - 1])
          BY <2>2, <3>2
        <4>2. f[k] = IF k = 0 THEN jobs ELSE Added(f[k - 1], k)
          BY <2>1, <4>1
        <4>3. QED
          BY <4>1, <4>2
      <3>3. QED
        BY <3>1, <3>2
    <2>4. Has(g, n + 1)
      BY <2>3
    <2>5. QED
      BY <2>2, <2>4
  <1>4. N \in D
    <2> HIDE DEF D, N
    <2>1. \A k \in 0..N : k \in D
      BY <1>1, <1>2, <1>3, Induction
    <2>2. QED
      BY <1>1, <2>1
  <1>5. PICK h : Has(h, N)
    BY <1>4
  <1> DEFINE F == CHOOSE f : Has(f, N)
  <1>6. Has(F, N)
    BY <1>5
  <1>7. StoreAll(source, batch, configured, role, requested) = F[N]
    BY DEF StoreAll, Added
  <1>8. QED
    <2> HIDE DEF F
    <2>1. F[0] = jobs /\ \A k \in 1..N : F[k] = Added(F[k - 1], k)
      <3>1. \A k \in 0..N : F[k] = IF k = 0 THEN jobs ELSE Added(F[k - 1], k)
        BY <1>6
      <3>2. 0 \in 0..N /\ \A k \in 1..N : k \in 0..N /\ k # 0
        BY <1>1
      <3>3. QED
        BY <3>1, <3>2
    <2>2. QED
      BY <1>7, <2>1 DEF Added, Fills

\* Storing a batch.
LEMMA BatchFits ==
  ASSUME NEW source, NEW batch, Len(batch) \in Nat, NEW configured, NEW role, NEW requested,
         NEW known, NEW resumes, RowsFit(jobs, known, resumes)
  PROVE  RowsFit(StoreAll(source, batch, configured, role, requested), known, resumes)
  <1> DEFINE N == Len(batch)
  <1>1. PICK f : Fills(f, source, batch, configured, role, requested)
    BY StoreAllFills
  <1> DEFINE D == {k \in 0..N : RowsFit(f[k], known, resumes)}
  <1>2. N \in Nat /\ 0 \in D
    BY <1>1 DEF Fills
  <1>3. ASSUME NEW k \in 0..(N - 1), k \in D
        PROVE  k + 1 \in D
    <2>1. k + 1 \in 1..N /\ (k + 1) - 1 = k /\ k + 1 \in 0..N
      BY <1>2, <1>3
    <2>2. f[k + 1] = Store(f[k], Normalize(source, batch[k + 1], configured),
                           role, requested)
      BY <1>1, <2>1 DEF Fills
    <2>3. QED
      BY <1>3, <2>1, <2>2, StoredRowsFit
  <1>4. N \in D
    <2> HIDE DEF D, N
    <2>1. \A k \in 0..N : k \in D
      BY <1>2, <1>3, Induction
    <2>2. QED
      BY <1>2, <2>1
  <1>5. QED
    BY <1>1, <1>4 DEF Fills

--------------------------------------------------------------------------------
(* The verdicts.                                                           *)

\* The strengthening for the verdicts.
VerdictInv == catalog \in Catalogs /\ RowsFit(jobs, skills, catalog)

\* A step that gives one row another version of itself.
LEMMA RowReplaced ==
  ASSUME VerdictInv, NEW h \in DOMAIN jobs, NEW new, RowFits(new, skills, catalog),
         jobs' = [jobs EXCEPT ![h] = new], UNCHANGED <<skills, catalog>>
  PROVE  VerdictInv'
  <1>1. DOMAIN jobs' = DOMAIN jobs
        /\ \A g \in DOMAIN jobs : jobs'[g] = IF g = h THEN new ELSE jobs[g]
    OBVIOUS
  <1>2. \A g \in DOMAIN jobs' : RowFits(jobs'[g], skills, catalog)
    BY <1>1 DEF VerdictInv, RowsFit
  <1>3. skills' = skills /\ catalog' = catalog
    OBVIOUS
  <1>4. RowsFit(jobs', skills', catalog')
    BY <1>2, <1>3 DEF RowsFit
  <1>5. QED
    BY <1>3, <1>4 DEF VerdictInv

\* A step that stores a batch.
LEMMA BatchStored ==
  ASSUME VerdictInv, NEW source, NEW batch, Len(batch) \in Nat, NEW configured, NEW role,
         NEW requested, Run(source, batch, configured, role, requested)
  PROVE  VerdictInv'
  <1>1. /\ jobs' = StoreAll(source, batch, configured, role, requested)
        /\ skills' = skills /\ catalog' = catalog
    BY DEF Run
  <1>2. RowsFit(jobs', skills, catalog)
    BY <1>1, BatchFits DEF VerdictInv
  <1>3. RowsFit(jobs', skills', catalog')
    BY <1>1, <1>2
  <1>4. QED
    BY <1>1, <1>3 DEF VerdictInv

\* A link of the chain.
LEMMA RowStaged ==
  ASSUME VerdictInv, NEW h \in DOMAIN jobs, NEW from, NEW new, Stage(h, from, new),
         RowFits(new, skills, catalog)
  PROVE  VerdictInv'
BY RowReplaced DEF Stage

\* Scoring a row.
LEMMA ScoringFits ==
  ASSUME VerdictInv, NEW h \in DOMAIN jobs, ScoreJob(h)
  PROVE  VerdictInv'
  <1> DEFINE r == jobs[h]
             score == Score(r.scored, NormalLocation(r.location), r.remote, r.description,
                            skills)
             stage == IF score.total < Threshold THEN "REJECTED" ELSE "SCORED"
             w == [r EXCEPT !.analysis.score = score, !.pipeline = stage]
  <1>1. Stage(h, "INGESTED", w)
    BY DEF ScoreJob
  <1>2. r.pipeline = "INGESTED"
    BY <1>1 DEF Stage
  <1>3. RowFits(r, skills, catalog)
    BY DEF VerdictInv, RowsFit
  <1>4. score.tech = Round(10 * TechStack(r.description, skills).num,
                           TechStack(r.description, skills).den)
    BY DEF Score
  <1>5. stage \in {"REJECTED", "SCORED"}
    OBVIOUS
  <1> HIDE DEF score, stage, r
  <1>6. DOMAIN r = Columns /\ DOMAIN r.analysis = {"score", "persona", "ats", "resume"}
    BY <1>3 DEF RowFits, Shaped
  <1>7. /\ DOMAIN w = Columns /\ w.pipeline = stage /\ w.former = r.former
        /\ w.description = r.description
        /\ DOMAIN w.analysis = DOMAIN r.analysis
        /\ w.analysis.score = score /\ w.analysis.ats = r.analysis.ats
    BY <1>6 DEF Columns
  <1> HIDE DEF w
  <1>8. RowFits(w, skills, catalog)
    BY <1>2, <1>3, <1>4, <1>5, <1>6, <1>7
       DEF RowFits, Shaped, PersonaFits, TechFits, ResumeFits
  <1>9. QED
    BY <1>1, <1>8, RowStaged

\* Classifying a row: the keywords read are those of an earlier text, or none.
LEMMA ClassifyingFits ==
  ASSUME VerdictInv, NEW h \in DOMAIN jobs, Classify(h)
  PROVE  VerdictInv'
  <1> DEFINE r == jobs[h]
             persona == Persona(r.scored, r.description, r.analysis.ats)
             w == [r EXCEPT !.analysis.persona = persona, !.pipeline = "CLASSIFIED"]
  <1>1. Stage(h, r.pipeline, w) /\ r.pipeline = "SCORED"
    BY DEF Classify, Classifiable
  <1>2. RowFits(r, skills, catalog)
    BY DEF VerdictInv, RowsFit
  <1>3. r.analysis.ats = NoAts => persona = Persona(r.scored, r.description, NoAts)
    OBVIOUS
  <1> HIDE DEF persona, r
  <1>4. DOMAIN r = Columns /\ DOMAIN r.analysis = {"score", "persona", "ats", "resume"}
    BY <1>2 DEF RowFits, Shaped
  <1>5. /\ DOMAIN w = Columns /\ w.pipeline = "CLASSIFIED" /\ w.former = r.former
        /\ w.description = r.description /\ w.scored = r.scored
        /\ DOMAIN w.analysis = DOMAIN r.analysis
        /\ w.analysis.score = r.analysis.score /\ w.analysis.persona = persona
    BY <1>4 DEF Columns
  <1> HIDE DEF w
  <1>6. RowFits(w, skills, catalog)
    BY <1>1, <1>2, <1>3, <1>4, <1>5
       DEF RowFits, Shaped, PersonaFits, TechFits, ResumeFits
  <1>7. QED
    BY <1>1, <1>6, RowStaged

\* Extracting the keywords of a row.
LEMMA AtsFits ==
  ASSUME VerdictInv, NEW h \in DOMAIN jobs, AtsMatch(h)
  PROVE  VerdictInv'
  <1> DEFINE r == jobs[h]
             ats == AtsSignals(r.description, skills)
             w == [r EXCEPT !.analysis.ats = ats, !.pipeline = "ATS_ANALYZED"]
  <1>1. Stage(h, "CLASSIFIED", w)
    BY DEF AtsMatch
  <1>2. r.pipeline = "CLASSIFIED"
    BY <1>1 DEF Stage
  <1>3. RowFits(r, skills, catalog)
    BY DEF VerdictInv, RowsFit
  <1> HIDE DEF r
  <1>4. DOMAIN r = Columns /\ DOMAIN r.analysis = {"score", "persona", "ats", "resume"}
    BY <1>3 DEF RowFits, Shaped
  <1> HIDE DEF ats
  <1>5. /\ DOMAIN w = Columns /\ w.pipeline = "ATS_ANALYZED" /\ w.former = r.former
        /\ w.description = r.description /\ w.scored = r.scored
        /\ DOMAIN w.analysis = DOMAIN r.analysis
        /\ w.analysis.score = r.analysis.score /\ w.analysis.persona = r.analysis.persona
        /\ w.analysis.ats = ats
    BY <1>4 DEF Columns
  <1> HIDE DEF w
  <1>6. RowFits(w, skills, catalog)
    BY <1>2, <1>3, <1>4, <1>5
       DEF RowFits, Shaped, PersonaFits, TechFits, ResumeFits, ats
  <1>7. QED
    BY <1>1, <1>6, RowStaged

\* Ranking the catalog for a row.
LEMMA RecommendingFits ==
  ASSUME VerdictInv, NEW h \in DOMAIN jobs, Recommend(h)
  PROVE  VerdictInv'
  <1> DEFINE r == jobs[h]
             resume == Suggest(catalog, r.title \cup r.description, r.analysis.persona).resume
             w == [r EXCEPT !.analysis.resume = resume, !.pipeline = "RESUME_READY"]
  <1>1. Stage(h, "ATS_ANALYZED", w) /\ catalog # << >>
    BY DEF Recommend
  <1>2. r.pipeline = "ATS_ANALYZED"
    BY <1>1 DEF Stage
  <1>3. RowFits(r, skills, catalog)
    BY DEF VerdictInv, RowsFit
  <1> HIDE DEF r
  <1>4. DOMAIN r = Columns /\ DOMAIN r.analysis = {"score", "persona", "ats", "resume"}
    BY <1>3 DEF RowFits, Shaped
  <1> HIDE DEF resume
  <1>5. /\ DOMAIN w = Columns /\ w.pipeline = "RESUME_READY" /\ w.former = r.former
        /\ w.description = r.description /\ w.scored = r.scored /\ w.title = r.title
        /\ DOMAIN w.analysis = DOMAIN r.analysis
        /\ w.analysis.score = r.analysis.score /\ w.analysis.persona = r.analysis.persona
        /\ w.analysis.ats = r.analysis.ats /\ w.analysis.resume = resume
    BY <1>4 DEF Columns
  <1> HIDE DEF w
  <1>6. RowFits(w, skills, catalog)
    BY <1>1, <1>2, <1>3, <1>4, <1>5
       DEF RowFits, Shaped, PersonaFits, TechFits, ResumeFits, resume
  <1>7. QED
    BY <1>1, <1>6, RowStaged

\* Resolving a row.
LEMMA ResolvingFits ==
  ASSUME VerdictInv, NEW h \in DOMAIN jobs, Resolve(h)
  PROVE  VerdictInv'
  <1>1. PICK p : jobs' = [jobs EXCEPT ![h] = Enriched(jobs[h], p)]
    BY DEF Resolve
  <1>2. UNCHANGED <<skills, catalog>>
    BY DEF Resolve
  <1>3. RowFits(Enriched(jobs[h], p), skills, catalog)
    BY EnrichedRowFits DEF VerdictInv, RowsFit
  <1>4. QED
    BY <1>1, <1>2, <1>3, RowReplaced

\* A batch is a board, a record, or the record that matches a link.
LEMMA BatchesEnd ==
  /\ \A ats \in DOMAIN Boards : Len(Boards[ats]) \in Nat
  /\ \A raw : Len(<<raw>>) \in Nat
  /\ \A board, asked : Len(Matching(board, asked)) \in Nat
  <1>1. \A ats \in DOMAIN Boards : Boards[ats] \in Seq(ToSet(Boards[ats]))
    BY BoardsAssumption
  <1>2. \A board, asked : Len(Matching(board, asked)) \in Nat
    BY DEF Matching
  <1>3. QED
    BY <1>1, <1>2

\* Every step keeps the verdicts in line with the rows.
LEMMA VerdictStep == VerdictInv /\ [Next]_vars => VerdictInv'
  <1> SUFFICES ASSUME VerdictInv, [Next]_vars
               PROVE  VerdictInv'
    OBVIOUS
  <1>1. ASSUME NEW ats \in DOMAIN Boards, RunBoard(ats)
        PROVE  VerdictInv'
    BY <1>1, BatchesEnd, BatchStored DEF RunBoard
  <1>2. ASSUME NEW source \in DOMAIN Feeds, RunFeed(source)
        PROVE  VerdictInv'
    BY <1>2, BatchesEnd, BatchStored DEF RunFeed
  <1>3. ASSUME NEW link \in Submitted, IngestUrl(link)
        PROVE  VerdictInv'
    BY <1>3, BatchesEnd, BatchStored DEF IngestUrl
  <1>4. ASSUME NEW h \in DOMAIN jobs,
               Resolve(h) \/ ScoreJob(h) \/ Classify(h) \/ AtsMatch(h) \/ Recommend(h)
        PROVE  VerdictInv'
    BY <1>4, ResolvingFits, ScoringFits, ClassifyingFits, AtsFits, RecommendingFits
  <1>5. CASE UNCHANGED vars
    BY <1>5 DEF vars, VerdictInv
  <1>6. QED
    BY <1>1, <1>2, <1>3, <1>4, <1>5 DEF Next

\* The strengthening holds of every reachable state.
LEMMA VerdictInvariance == Spec => []VerdictInv
  <1>1. Init => VerdictInv
    <2>1. ASSUME Init
          PROVE  DOMAIN jobs = {} /\ catalog \in Catalogs
      BY <2>1 DEF Init
    <2>2. QED
      BY <2>1 DEF VerdictInv, RowsFit
  <1>2. QED
    BY <1>1, VerdictStep, PTL DEF Spec

\* The persona of a row is that of its text, unless an earlier text had been searched
\* for keywords (classify.py:76), whatever the sources, the skills and the catalog.
THEOREM PersonasFitTheText == Spec => []PersonaOfOwnText
  <1>1. VerdictInv => PersonaOfOwnText
    BY DEF VerdictInv, RowsFit, RowFits, PersonaFits, PersonaOfOwnText
  <1>2. QED
    BY <1>1, VerdictInvariance, PTL

\* With a skills file of canonical names the scorer and the keyword extraction find the
\* same share of the asked technologies, for every description and every skills file.
THEOREM ScoresAndKeywordsAgree == Spec => []TechAgreesWithAts
  <1>1. ASSUME VerdictInv, NEW h \in DOMAIN jobs,
               jobs[h].pipeline \in {"ATS_ANALYZED", "RESUME_READY"},
               \A s \in skills : NormalizeKeyword(s) = s,
               jobs[h].analysis.ats.found \cup jobs[h].analysis.ats.missing # {}
        PROVE  jobs[h].analysis.score.tech = jobs[h].analysis.ats.score
    <2> DEFINE text == jobs[h].description
    <2>1. TechFits(jobs[h], skills)
      BY <1>1 DEF VerdictInv, RowsFit, RowFits
    <2>2. /\ jobs[h].analysis.score.tech = Round(10 * TechStack(text, skills).num,
                                                 TechStack(text, skills).den)
          /\ jobs[h].analysis.ats = AtsSignals(text, skills)
      BY <1>1, <2>1 DEF TechFits
    <2> HIDE DEF text
    <2>3. Round(10 * TechStack(text, skills).num, TechStack(text, skills).den)
            = AtsSignals(text, skills).score
      BY <1>1, <2>2, SharesAgree
    <2>4. QED
      BY <2>2, <2>3
  <1>2. VerdictInv => TechAgreesWithAts
    BY <1>1 DEF TechAgreesWithAts
  <1>3. QED
    BY <1>2, VerdictInvariance, PTL

\* The resume recommended does not depend on the order of the catalog, unless two of
\* the best have the same key: resume_matching.py:130 takes the first of the largest.
THEOREM CatalogsCanBeReordered == Spec => []CatalogOrderIrrelevant
  <1>1. ASSUME VerdictInv, NEW h \in DOMAIN jobs, jobs[h].pipeline = "RESUME_READY",
               ~Tied(catalog, jobs[h].title \cup jobs[h].description,
                     jobs[h].analysis.persona)
        PROVE  jobs[h].analysis.resume =
                 Suggest(Reverse(catalog), jobs[h].title \cup jobs[h].description,
                         jobs[h].analysis.persona).resume
    <2>1. ResumeFits(jobs[h], catalog) /\ catalog \in Catalogs
      BY <1>1 DEF VerdictInv, RowsFit, RowFits
    <2>2. QED
      BY <1>1, <2>1, OrderDecidesNothing DEF ResumeFits
  <1>2. VerdictInv => CatalogOrderIrrelevant
    BY <1>1 DEF CatalogOrderIrrelevant
  <1>3. QED
    BY <1>2, VerdictInvariance, PTL

--------------------------------------------------------------------------------
(* The keys.                                                               *)

\* The board lists a posting under that id, and the link leads to it.
Published(source, external, link) ==
  /\ source \in DOMAIN Boards /\ link # NoLink
  /\ \E raw \in ToSet(Boards[source]) :
       /\ Normalize(source, raw, None) # Reject
       /\ Normalize(source, raw, None).external = external
       /\ CanonicalLink(link) = CanonicalLink(LinkForDedup(Normalize(source, raw, None)))

\* The row of an ATS posting has a link to it, be it from its board or from a resolution.
Keyed(r) ==
  /\ DOMAIN r = Columns
  /\ r.source \in Ats => r.role # "discovery" /\ Published(r.source, r.external, r.apply)
  /\ r.canonical[1] \in Ats => Published(r.canonical[1], r.canonical[2], r.apply)

\* Two links to the posting with one id lead to one page.
LEMMA OneLink ==
  ASSUME NEW source, NEW external, NEW l, NEW m,
         Published(source, external, l), Published(source, external, m)
  PROVE  CanonicalLink(l) = CanonicalLink(m)
  <1>1. PICK raw \in ToSet(Boards[source]) :
          /\ Normalize(source, raw, None) # Reject
          /\ Normalize(source, raw, None).external = external
          /\ CanonicalLink(l) = CanonicalLink(LinkForDedup(Normalize(source, raw, None)))
    BY DEF Published
  <1>2. PICK other \in ToSet(Boards[source]) :
          /\ Normalize(source, other, None) # Reject
          /\ Normalize(source, other, None).external = external
          /\ CanonicalLink(m) = CanonicalLink(LinkForDedup(Normalize(source, other, None)))
    BY DEF Published
  <1>3. source \in DOMAIN Boards
    BY DEF Published
  <1>4. QED
    BY <1>1, <1>2, <1>3, PagesAssumption

\* What an ATS makes of a posting: the configured name changes neither key nor link.
LEMMA AtsPosting ==
  ASSUME NEW ats \in Ats, NEW raw, NEW configured
  PROVE  /\ Normalize(ats, raw, configured) = Reject <=> Normalize(ats, raw, None) = Reject
         /\ Normalize(ats, raw, configured) = Reject
              => Normalize(ats, raw, configured).source = None
         /\ Normalize(ats, raw, configured) # Reject =>
              /\ Normalize(ats, raw, configured).source = ats
              /\ Normalize(ats, raw, configured).external = Normalize(ats, raw, None).external
              /\ LinkForDedup(Normalize(ats, raw, configured))
                   = LinkForDedup(Normalize(ats, raw, None))
              /\ Normalize(ats, raw, configured).apply
                   = LinkForDedup(Normalize(ats, raw, configured))
  <1>1. Reject.source = None /\ None \notin Ats
    BY DEF Reject, None, Ats
  <1>2. ASSUME NEW source, NEW external, NEW company, NEW r, NEW apply, NEW url
        PROVE  /\ Payload(source, external, company, r, apply, url).source = source
               /\ Payload(source, external, company, r, apply, url).external = external
               /\ Payload(source, external, company, r, apply, url).apply = apply
               /\ LinkForDedup(Payload(source, external, company, r, apply, url))
                    = FirstLink(apply, url)
    BY DEF Payload, LinkForDedup
  <1>3. CASE ats = "greenhouse"
    <2>1. \A c : Normalize(ats, raw, c) = Greenhouse(raw, c)
      BY <1>3 DEF Normalize
    <2>2. QED
      BY <1>1, <1>2, <1>3, <2>1 DEF Greenhouse, FirstLink
  <1>4. CASE ats = "lever"
    <2>1. \A c : Normalize(ats, raw, c) = Lever(raw, c)
      BY <1>4 DEF Normalize
    <2>2. QED
      BY <1>1, <1>2, <1>4, <2>1 DEF Lever, FirstLink
  <1>5. CASE ats = "ashby"
    <2>1. \A c : Normalize(ats, raw, c) = Ashby(raw, c)
      BY <1>5 DEF Normalize
    <2> DEFINE external == First(raw.page.slug, raw.id)
               placed == [raw EXCEPT !.place = IF @ = {} /\ raw.remote THEN {"remote"} ELSE @]
    <2>2. \A c : Normalize(ats, raw, c) =
                   IF external = None \/ raw.title = {} THEN Reject
                   ELSE Payload("ashby", <<external>>, CompanyName(raw, c), placed,
                                FirstLink(raw.apply, raw.page), raw.page)
      BY <2>1 DEF Ashby
    <2> HIDE DEF external, placed
    <2>3. QED
      BY <1>1, <1>2, <1>5, <2>2 DEF FirstLink
  <1>6. QED
    BY <1>3, <1>4, <1>5 DEF Ats

\* A discovery source never names an ATS as the source of its rows.
LEMMA FeedPosting ==
  ASSUME NEW source \in {"agg1", "serp1", "jobspy"}, NEW raw, NEW configured
  PROVE  Normalize(source, raw, configured).source \in {None, source}
  <1>1. Reject.source = None
    BY DEF Reject
  <1>2. ASSUME NEW by, NEW external, NEW company, NEW r, NEW apply, NEW url
        PROVE  /\ Payload(by, external, company, r, apply, url).source = by
               /\ [Payload(by, external, company, r, apply, url)
                     EXCEPT !.remote = r.remote].source = by
    BY DEF Payload
  <1>3. CASE source = "agg1"
    BY <1>1, <1>2, <1>3 DEF Normalize, Adzuna
  <1>4. CASE source = "serp1"
    BY <1>1, <1>2, <1>4 DEF Normalize, GoogleJobs
  <1>5. CASE source = "jobspy"
    BY <1>1, <1>2, <1>5 DEF Normalize, JobSpy
  <1>6. QED
    BY <1>3, <1>4, <1>5

\* A posting of a board is published under its key with its link.
LEMMA BoardPosting ==
  ASSUME NEW ats \in DOMAIN Boards, NEW raw \in ToSet(Boards[ats]), NEW configured,
         Normalize(ats, raw, configured) # Reject
  PROVE  LET p == Normalize(ats, raw, configured)
         IN  /\ p.source = ats /\ p.apply # NoLink /\ LinkForDedup(p) = p.apply
             /\ Published(ats, p.external, p.apply)
  <1>1. ats \in Ats
    BY BoardsAssumption
  <1> DEFINE p == Normalize(ats, raw, configured)
             q == Normalize(ats, raw, None)
  <1>2. /\ q # Reject /\ p.source = ats /\ p.external = q.external
        /\ LinkForDedup(p) = LinkForDedup(q) /\ p.apply = LinkForDedup(p)
    BY <1>1, AtsPosting
  <1>3. LinkForDedup(q) # NoLink
    BY <1>2, PagesAssumption
  <1>4. Published(ats, p.external, p.apply)
    <2>1. /\ p.apply # NoLink /\ q.external = p.external
          /\ CanonicalLink(p.apply) = CanonicalLink(LinkForDedup(q))
      BY <1>2, <1>3
    <2> HIDE DEF p
    <2>2. QED
      BY <1>2, <2>1 DEF Published
  <1>5. QED
    BY <1>2, <1>3, <1>4

\* A row whose links and keys stay as they are.
LEMMA KeyedAlike ==
  ASSUME NEW r, NEW w, Keyed(r), DOMAIN w = Columns, w.source = r.source,
         w.external = r.external, w.canonical = r.canonical, w.apply = r.apply,
         w.role = r.role
  PROVE  Keyed(w)
BY DEF Keyed

\* JobSpy fills in a link that is missing, never one of an ATS posting.
LEMMA FilledIsKeyed ==
  ASSUME NEW r, NEW link, Keyed(r)
  PROVE  LET w == [r EXCEPT !.apply = FirstLink(r.apply, link)]
         IN  /\ Keyed(w) /\ w.source = r.source /\ w.external = r.external
             /\ w.canonical = r.canonical /\ (r.apply # NoLink => w.apply = r.apply)
  <1> DEFINE w == [r EXCEPT !.apply = FirstLink(r.apply, link)]
  <1>1. DOMAIN r = Columns
    BY DEF Keyed
  <1>2. /\ DOMAIN w = Columns /\ w.source = r.source /\ w.external = r.external
        /\ w.canonical = r.canonical /\ w.role = r.role
        /\ w.apply = FirstLink(r.apply, link)
    BY <1>1 DEF Columns
  <1>3. r.apply # NoLink => w.apply = r.apply
    BY <1>2 DEF FirstLink
  <1> HIDE DEF w
  <1>4. r.source \in Ats \/ r.canonical[1] \in Ats => r.apply # NoLink
    BY DEF Keyed, Published
  <1>5. CASE r.apply # NoLink
    <2>1. Keyed(w)
      BY <1>2, <1>3, <1>5, KeyedAlike
    <2>2. QED
      BY <1>2, <1>3, <2>1 DEF w
  <1>6. CASE r.apply = NoLink
    <2>1. Keyed(w)
      BY <1>2, <1>4, <1>6 DEF Keyed
    <2>2. QED
      BY <1>2, <1>6, <2>1 DEF w
  <1>7. QED
    BY <1>5, <1>6

--------------------------------------------------------------------------------
(* A batch over the table it was given.                                    *)

\* The rows there were keep their keys and the links they had; a new row of an ATS
\* posting has a key that none of them carries.
Grown(rows) ==
  /\ DOMAIN jobs \subseteq DOMAIN rows
  /\ \A h \in DOMAIN rows : Keyed(rows[h])
  /\ \A h \in DOMAIN jobs :
       jobs[h].apply # NoLink => rows[h].apply = jobs[h].apply
  /\ \A g \in DOMAIN rows \ DOMAIN jobs :
       rows[g].source \in Ats =>
         \A h \in DOMAIN jobs : ~Carries(jobs[h], <<rows[g].source, rows[g].external>>)

KeyInv == \A h \in DOMAIN jobs : Keyed(jobs[h])

\* Whose row carries the key of a posting has its link.
LEMMA CarriersHaveTheLink ==
  ASSUME NEW r, Keyed(r), NEW ats \in Ats, NEW external, Carries(r, <<ats, external>>)
  PROVE  Published(ats, external, r.apply)
  <1>1. CASE <<ats, external>> = <<r.source, r.external>>
    BY <1>1 DEF Keyed
  <1>2. CASE <<ats, external>> = r.canonical
    <2>1. r.canonical[1] = ats /\ r.canonical[2] = external
      BY <1>2
    <2>2. QED
      BY <2>1 DEF Keyed
  <1>3. QED
    BY <1>1, <1>2 DEF Carries

\* A row of a new posting.
LEMMA NewRowIsKeyed ==
  ASSUME NEW p, NEW role, NEW requested,
         p.source \in Ats => role # "discovery" /\ Published(p.source, p.external, p.apply)
  PROVE  LET r == Row(p, role, requested)
         IN  Keyed(r) /\ r.source = p.source /\ r.external = p.external
  <1> DEFINE r == Row(p, role, requested)
  <1>1. /\ DOMAIN r = Columns /\ r.source = p.source /\ r.external = p.external
        /\ r.canonical = <<None, << >>>> /\ r.apply = p.apply /\ r.role = role
    BY DEF Row, Columns
  <1> HIDE DEF r
  <1>2. r.canonical[1] \notin Ats
    BY <1>1 DEF None, Ats
  <1>3. Keyed(r) /\ r.source = p.source /\ r.external = p.external
    BY <1>1, <1>2 DEF Keyed
  <1>4. QED
    BY <1>3 DEF r

\* A row is added to a table that has grown out of the one at hand.
LEMMA GrownByRow ==
  ASSUME NEW rows, Grown(rows), NEW p, NEW role, NEW requested,
         DedupHash(p) \notin DOMAIN rows,
         p.source \in Ats =>
           /\ role # "discovery" /\ Published(p.source, p.external, p.apply)
           /\ \A h \in DOMAIN jobs : ~Carries(jobs[h], <<p.source, p.external>>)
  PROVE  Grown(Insert(rows, p, role, requested))
  <1> DEFINE new == Insert(rows, p, role, requested)
             hash == DedupHash(p)
  <1>1. /\ DOMAIN new = DOMAIN rows \cup {hash}
        /\ new[hash] = Row(p, role, requested)
        /\ \A h \in DOMAIN rows : new[h] = rows[h]
    BY DEF Insert
  <1>2. Keyed(new[hash]) /\ new[hash].source = p.source /\ new[hash].external = p.external
    BY <1>1, NewRowIsKeyed
  <1>3. hash \notin DOMAIN rows
    OBVIOUS
  <1> HIDE DEF new, hash
  <1>4. Grown(new)
    BY <1>1, <1>2, <1>3 DEF Grown
  <1>5. QED
    BY <1>4 DEF new

\* A record of a discovery source.
LEMMA GrownByFeed ==
  ASSUME NEW rows, Grown(rows), NEW p, p.source \in {None, "agg1", "serp1", "jobspy"},
         NEW role, NEW requested
  PROVE  Grown(Store(rows, p, role, requested))
  <1>1. p.source \notin Ats
    BY DEF None, Ats
  <1>2. Grown(StoreMapped(rows, p, role, requested))
    BY <1>1, GrownByRow DEF StoreMapped
  <1>3. Grown(StoreUnmapped(rows, p))
    <2> DEFINE h == DedupHash(p)
               new == [rows EXCEPT ![h].apply = FirstLink(@, p.apply)]
               w == [rows[h] EXCEPT !.apply = FirstLink(rows[h].apply, p.apply)]
    <2>1. CASE h \in DOMAIN rows
      <3>1. StoreUnmapped(rows, p) = new
        BY <2>1 DEF StoreUnmapped
      <3>2. DOMAIN new = DOMAIN rows
            /\ \A g \in DOMAIN rows : new[g] = IF g = h THEN w ELSE rows[g]
        BY <2>1
      <3>3. /\ Keyed(w) /\ w.source = rows[h].source /\ w.external = rows[h].external
            /\ rows[h].apply # NoLink => w.apply = rows[h].apply
        BY <2>1, FilledIsKeyed DEF Grown
      <3> HIDE DEF new, w, h
      <3>4. Grown(new)
        BY <2>1, <3>2, <3>3 DEF Grown
      <3>5. QED
        BY <3>1, <3>4
    <2>2. CASE h \notin DOMAIN rows
      BY <1>1, <2>2, GrownByRow DEF StoreUnmapped
    <2>3. QED
      BY <2>1, <2>2
  <1>4. QED
    BY <1>2, <1>3 DEF Store

\* A posting of a board.
LEMMA GrownByBoard ==
  ASSUME KeyInv, NEW rows, Grown(rows), NEW ats \in DOMAIN Boards,
         NEW raw \in ToSet(Boards[ats]), NEW configured, NEW role, role # "discovery",
         NEW requested
  PROVE  Grown(Store(rows, Normalize(ats, raw, configured), role, requested))
  <1> DEFINE p == Normalize(ats, raw, configured)
  <1>1. ats \in Ats
    BY BoardsAssumption
  <1>2. CASE p = Reject
    <2>1. p.source = None
      BY <1>1, <1>2, AtsPosting
    <2>2. QED
      BY <2>1 DEF Store
  <1>3. CASE p # Reject
    <2>1. /\ p.source = ats /\ p.apply # NoLink /\ LinkForDedup(p) = p.apply
          /\ Published(ats, p.external, p.apply)
      BY <1>3, BoardPosting
    <2> HIDE DEF p
    <2>2. Store(rows, p, role, requested) = StoreMapped(rows, p, role, requested)
      BY <1>1, <2>1 DEF Store, Ats, None, Unmapped
    <2>3. CASE KnownLink(rows, p) \/ DedupHash(p) \in DOMAIN rows
      BY <2>2, <2>3 DEF StoreMapped, p
    <2>4. CASE ~KnownLink(rows, p) /\ DedupHash(p) \notin DOMAIN rows
      <3>1. ASSUME NEW h \in DOMAIN jobs, Carries(jobs[h], <<ats, p.external>>)
            PROVE  FALSE
        <4>1. Keyed(jobs[h])
          BY DEF KeyInv
        <4>2. Published(ats, p.external, jobs[h].apply)
          BY <1>1, <3>1, <4>1, CarriersHaveTheLink
        <4>3. CanonicalLink(jobs[h].apply) = CanonicalLink(p.apply) /\ jobs[h].apply # NoLink
          <5> DEFINE external == p.external
                     kept     == jobs[h].apply
                     link     == p.apply
          <5>1. Published(ats, external, kept) /\ Published(ats, external, link)
            BY <2>1, <4>2
          <5> HIDE DEF external, kept, link
          <5>2. CanonicalLink(kept) = CanonicalLink(link)
            BY ONLY <5>1, OneLink
          <5>3. QED
            BY <5>1, <5>2 DEF Published, kept, link
        <4>4. h \in DOMAIN rows /\ rows[h].apply = jobs[h].apply
          BY <4>3 DEF Grown
        <4>5. QED
          BY <2>1, <2>4, <4>3, <4>4 DEF KnownLink
      <3>2. Grown(Insert(rows, p, role, requested))
        BY <2>1, <2>4, <3>1, GrownByRow
      <3>3. StoreMapped(rows, p, role, requested) = Insert(rows, p, role, requested)
        BY <2>4 DEF StoreMapped
      <3>4. QED
        BY <2>2, <3>2, <3>3 DEF p
    <2>5. QED
      BY <2>3, <2>4
  <1>4. QED
    BY <1>2, <1>3

\* The batches there are: postings of a board, or records of a discovery source.
BatchFrom(source, batch, role) ==
  \/ /\ source \in DOMAIN Boards /\ role # "discovery"
     /\ \A k \in 1..Len(batch) : batch[k] \in ToSet(Boards[source])
  \/ source \in DOMAIN Feeds

\* A batch of a board or of a discovery source.
LEMMA GrownByBatch ==
  ASSUME KeyInv, NEW source, NEW batch, Len(batch) \in Nat, NEW configured, NEW role,
         NEW requested, BatchFrom(source, batch, role)
  PROVE  Grown(StoreAll(source, batch, configured, role, requested))
  <1>1. PICK f : Fills(f, source, batch, configured, role, requested)
    BY StoreAllFills
  <1> DEFINE N == Len(batch)
  <1> DEFINE D == {k \in 0..N : Grown(f[k])}
  <1>2. N \in Nat /\ 0 \in D
    <2>1. Grown(jobs)
      BY DEF Grown, KeyInv
    <2>2. QED
      BY <1>1, <2>1 DEF Fills
  <1>3. ASSUME NEW k \in 0..(N - 1), k \in D
        PROVE  k + 1 \in D
    <2>1. k + 1 \in 1..N /\ (k + 1) - 1 = k /\ k + 1 \in 0..N
      BY <1>2, <1>3
    <2>2. f[k + 1] = Store(f[k], Normalize(source, batch[k + 1], configured),
                           role, requested)
      BY <1>1, <2>1 DEF Fills
    <2>3. Grown(f[k])
      BY <1>3
    <2>4. CASE source \in DOMAIN Feeds
      <3>1. source \in {"agg1", "serp1", "jobspy"}
        BY <2>4, BoardsAssumption
      <3>2. Normalize(source, batch[k + 1], configured).source
              \in {None, "agg1", "serp1", "jobspy"}
        BY <3>1, FeedPosting
      <3>3. QED
        BY <2>1, <2>2, <2>3, <3>2, GrownByFeed
    <2>5. CASE /\ source \in DOMAIN Boards /\ role # "discovery"
               /\ batch[k + 1] \in ToSet(Boards[source])
      <3>1. Grown(Store(f[k], Normalize(source, batch[k + 1], configured), role, requested))
        BY <2>3, <2>5, GrownByBoard
      <3>2. QED
        BY <2>1, <2>2, <3>1
    <2>6. QED
      BY <2>1, <2>4, <2>5 DEF BatchFrom
  <1>4. N \in D
    <2> HIDE DEF D, N
    <2>1. \A k \in 0..N : k \in D
      BY <1>2, <1>3, Induction
    <2>2. QED
      BY <1>2, <2>1
  <1>5. QED
    BY <1>1, <1>4 DEF Fills

\* What matches a link is a posting of the board.
LEMMA MatchingIsListed ==
  ASSUME NEW ats \in DOMAIN Boards, NEW asked
  PROVE  /\ Len(Matching(Boards[ats], asked)) \in Nat
         /\ \A k \in 1..Len(Matching(Boards[ats], asked)) :
              Matching(Boards[ats], asked)[k] \in ToSet(Boards[ats])
         /\ ToSet(Matching(Boards[ats], asked)) \subseteq ToSet(Boards[ats])
  <1> DEFINE board == Boards[ats]
             hits  == {i \in DOMAIN board : Matches(board[i], asked)}
  <1>1. DOMAIN board = 1..Len(board) /\ Len(board) \in Nat
    BY BoardsAssumption
  <1>2. Matching(board, asked) = IF hits = {} THEN << >> ELSE <<board[Min(hits)]>>
    BY DEF Matching
  <1>3. hits \subseteq DOMAIN board /\ hits \in SUBSET Nat
    BY <1>1
  <1> HIDE DEF board, hits
  <1>4. CASE hits = {}
    <2>1. Matching(board, asked) = << >>
      BY <1>2, <1>4
    <2>2. QED
      BY <2>1 DEF ToSet, board
  <1>5. CASE hits # {}
    <2>1. \E x \in hits : \A y \in hits : x <= y
      BY <1>3, <1>5, Least
    <2>2. Min(hits) \in hits
      BY <2>1 DEF Min
    <2>3. board[Min(hits)] \in ToSet(board)
      BY <1>3, <2>2 DEF ToSet
    <2>4. Matching(board, asked) = <<board[Min(hits)]>>
      BY <1>2, <1>5
    <2> DEFINE x == board[Min(hits)]
    <2> HIDE DEF x
    <2>5. Len(<<x>>) = 1 /\ <<x>>[1] = x /\ DOMAIN <<x>> = {1}
      OBVIOUS
    <2>6. QED
      BY <2>3, <2>4, <2>5 DEF ToSet, board, x
  <1>6. QED
    BY <1>4, <1>5

--------------------------------------------------------------------------------
(* Every step.                                                             *)

\* What NotIngestedTwice says of a step.
StoredOnce ==
  \A h \in DOMAIN jobs, g \in DOMAIN jobs' \ DOMAIN jobs :
    jobs'[g].source \in Ats
      => ~Carries(jobs[h], <<jobs'[g].source, jobs'[g].external>>)

\* A run of a source.
LEMMA RunKeepsKeys ==
  ASSUME KeyInv, NEW source, NEW batch, Len(batch) \in Nat, NEW configured, NEW role,
         NEW requested, BatchFrom(source, batch, role),
         Run(source, batch, configured, role, requested)
  PROVE  KeyInv' /\ StoredOnce
  <1> DEFINE rows == StoreAll(source, batch, configured, role, requested)
  <1>1. Grown(rows)
    BY GrownByBatch
  <1>2. jobs' = rows
    BY DEF Run
  <1> HIDE DEF rows
  <1>3. KeyInv'
    BY <1>1, <1>2 DEF KeyInv, Grown
  <1>4. StoredOnce
    BY <1>1, <1>2 DEF StoredOnce, Grown
  <1>5. QED
    BY <1>3, <1>4

\* A step that changes one row stores none.
LEMMA RowKeepsKeys ==
  ASSUME KeyInv, NEW h \in DOMAIN jobs, NEW new, Keyed(new),
         jobs' = [jobs EXCEPT ![h] = new]
  PROVE  KeyInv' /\ StoredOnce
  <1>1. DOMAIN jobs' = DOMAIN jobs
        /\ \A g \in DOMAIN jobs : jobs'[g] = IF g = h THEN new ELSE jobs[g]
    OBVIOUS
  <1>2. QED
    BY <1>1 DEF KeyInv, StoredOnce

\* The links of the chain leave keys and links alone.
LEMMA StageKeepsKeys ==
  ASSUME KeyInv, NEW h \in DOMAIN jobs,
         ScoreJob(h) \/ Classify(h) \/ AtsMatch(h) \/ Recommend(h)
  PROVE  KeyInv' /\ StoredOnce
  <1> DEFINE r == jobs[h]
             Kept(w) == /\ DOMAIN w = Columns /\ w.source = r.source
                        /\ w.external = r.external /\ w.canonical = r.canonical
                        /\ w.apply = r.apply /\ w.role = r.role
  <1>1. Keyed(r) /\ DOMAIN r = Columns
    BY DEF KeyInv, Keyed
  <1>2. \A a, b : /\ Kept([r EXCEPT !.analysis.score = a, !.pipeline = b])
                  /\ Kept([r EXCEPT !.analysis.persona = a, !.pipeline = b])
                  /\ Kept([r EXCEPT !.analysis.ats = a, !.pipeline = b])
                  /\ Kept([r EXCEPT !.analysis.resume = a, !.pipeline = b])
    BY <1>1 DEF Columns
  <1>3. \E w : Kept(w) /\ jobs' = [jobs EXCEPT ![h] = w]
    <2>1. CASE ScoreJob(h)
      <3> DEFINE a == Score(r.scored, NormalLocation(r.location), r.remote, r.description,
                            skills)
                 b == IF a.total < Threshold THEN "REJECTED" ELSE "SCORED"
      <3>1. jobs' = [jobs EXCEPT ![h] = [r EXCEPT !.analysis.score = a, !.pipeline = b]]
        BY <2>1 DEF ScoreJob, Stage
      <3> HIDE DEF a, b
      <3>2. QED
        BY <1>2, <3>1
    <2>2. CASE Classify(h)
      BY <1>2, <2>2 DEF Classify, Stage
    <2>3. CASE AtsMatch(h)
      <3> DEFINE a == AtsSignals(r.description, skills)
      <3>1. jobs' = [jobs EXCEPT ![h] = [r EXCEPT !.analysis.ats = a,
                                                  !.pipeline = "ATS_ANALYZED"]]
        BY <2>3 DEF AtsMatch, Stage
      <3> HIDE DEF a
      <3>2. QED
        BY <1>2, <3>1
    <2>4. CASE Recommend(h)
      BY <1>2, <2>4 DEF Recommend, Stage
    <2>5. QED
      BY <2>1, <2>2, <2>3, <2>4
  <1>4. PICK w : Kept(w) /\ jobs' = [jobs EXCEPT ![h] = w]
    BY <1>3
  <1>5. Keyed(w)
    BY <1>1, <1>4, KeyedAlike
  <1>6. QED
    BY <1>4, <1>5, RowKeepsKeys

\* A resolution gives a discovery row the link of the posting it found.
LEMMA ResolutionKeepsKeys ==
  ASSUME KeyInv, NEW h \in DOMAIN jobs, Resolve(h)
  PROVE  KeyInv' /\ StoredOnce
  <1> DEFINE r     == jobs[h]
             ats   == ParseUrl(FirstLink(r.apply, r.url)).provider
             asked == ParseUrl(FirstLink(r.apply, r.url))
  <1>1. r.role = "discovery" /\ ats \in DOMAIN Boards
    BY DEF Resolve
  <1>2. PICK raw \in ToSet(Matching(Boards[ats], asked)) :
          /\ Normalize(ats, raw, None) # Reject
          /\ jobs' = [jobs EXCEPT ![h] = Enriched(r, Normalize(ats, raw, None))]
    BY DEF Resolve
  <1> DEFINE p == Normalize(ats, raw, None)
             u == EnrichedInPlace(r, p)
             w == Enriched(r, p)
  <1>3. raw \in ToSet(Boards[ats])
    BY <1>1, <1>2, MatchingIsListed
  <1>4. p.source = ats /\ p.apply # NoLink /\ Published(ats, p.external, p.apply)
    BY <1>1, <1>2, <1>3, BoardPosting
  <1>5. Keyed(r) /\ DOMAIN r = Columns
    BY DEF KeyInv, Keyed
  <1> HIDE DEF p, r, ats, asked
  <1>6. /\ DOMAIN u = Columns /\ u.source = r.source /\ u.role = r.role
        /\ u.canonical = <<p.source, p.external>>
    BY <1>5 DEF EnrichedInPlace, Columns
  <1>7. /\ DOMAIN w = Columns /\ w.source = r.source /\ w.role = r.role
        /\ w.canonical = <<p.source, p.external>> /\ w.apply = FirstLink(p.apply, u.apply)
    BY <1>6 DEF Enriched, Columns
  <1> HIDE DEF u, w
  <1>8. w.apply = p.apply /\ w.canonical[1] = ats /\ w.canonical[2] = p.external
    BY <1>4, <1>7 DEF FirstLink
  <1>9. Keyed(w)
    BY <1>1, <1>4, <1>5, <1>7, <1>8 DEF Keyed
  <1>10. QED
    BY <1>2, <1>9, RowKeepsKeys DEF w, p, r

\* Every step keeps the rows keyed and stores no posting a second time.
LEMMA KeyStep == KeyInv /\ [Next]_vars => KeyInv' /\ [StoredOnce]_vars
  <1> SUFFICES ASSUME KeyInv, Next
               PROVE  KeyInv' /\ StoredOnce
    BY DEF KeyInv, vars
  <1>1. ASSUME NEW ats \in DOMAIN Boards, RunBoard(ats)
        PROVE  KeyInv' /\ StoredOnce
    <2>1. PICK configured \in {None, "Acme Inc"} :
            Run(ats, Boards[ats], configured, "canonical", NoLink)
      BY <1>1 DEF RunBoard
    <2>2. Len(Boards[ats]) \in Nat /\ DOMAIN Boards[ats] = 1..Len(Boards[ats])
      <3> DEFINE board == Boards[ats]
                 listed == ToSet(board)
      <3>1. board \in Seq(listed)
        BY BoardsAssumption
      <3> HIDE DEF board, listed
      <3>2. Len(board) \in Nat /\ DOMAIN board = 1..Len(board)
        BY ONLY <3>1, LenProperties
      <3>3. QED
        BY <3>2 DEF board
    <2>3. BatchFrom(ats, Boards[ats], "canonical")
      BY <2>2 DEF BatchFrom, ToSet
    <2>4. QED
      BY <2>1, <2>2, <2>3, RunKeepsKeys
  <1>2. ASSUME NEW source \in DOMAIN Feeds, RunFeed(source)
        PROVE  KeyInv' /\ StoredOnce
    <2>1. PICK raw \in Feeds[source] : Run(source, <<raw>>, None, "discovery", NoLink)
      BY <1>2 DEF RunFeed
    <2>2. Len(<<raw>>) \in Nat /\ BatchFrom(source, <<raw>>, "discovery")
      BY DEF BatchFrom
    <2>3. QED
      BY <2>1, <2>2, RunKeepsKeys
  <1>3. ASSUME NEW link \in Submitted, IngestUrl(link)
        PROVE  KeyInv' /\ StoredOnce
    <2> DEFINE asked == ParseUrl(link)
               batch == Matching(Boards[asked.provider], asked)
    <2>1. /\ asked.provider \in DOMAIN Boards
          /\ Run(asked.provider, batch, None, "url_ingest", link)
      BY <1>3 DEF IngestUrl
    <2>2. Len(batch) \in Nat /\ BatchFrom(asked.provider, batch, "url_ingest")
      BY <2>1, MatchingIsListed DEF BatchFrom
    <2>3. QED
      BY <2>1, <2>2, RunKeepsKeys
  <1>4. ASSUME NEW h \in DOMAIN jobs,
               Resolve(h) \/ ScoreJob(h) \/ Classify(h) \/ AtsMatch(h) \/ Recommend(h)
        PROVE  KeyInv' /\ StoredOnce
    BY <1>4, ResolutionKeepsKeys, StageKeepsKeys
  <1>5. QED
    BY <1>1, <1>2, <1>3, <1>4 DEF Next

\* An ATS posting that a row has been filled from is never stored a second time, for all
\* boards whose postings have pages, and one page per id, and for all feeds and links.
THEOREM PostingsAreStoredOnce == Spec => NotIngestedTwice
  <1>1. Init => KeyInv
    <2>1. Init => DOMAIN jobs = {}
      BY DEF Init
    <2>2. QED
      BY <2>1 DEF KeyInv
  <1>2. Spec => [][StoredOnce]_vars
    BY <1>1, KeyStep, PTL DEF Spec
  <1>3. NotIngestedTwice <=> [][StoredOnce]_vars
    BY DEF NotIngestedTwice, StoredOnce
  <1>4. QED
    BY <1>2, <1>3
================================================================================
