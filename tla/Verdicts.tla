------------------------------- MODULE Verdicts --------------------------------
(***************************************************************************)
(* What the stages of the chain decide about a posting: the score of       *)
(* scorer.py, the persona of rules_provider.py, the keywords of            *)
(* extraction.py and the resume of resume_matching.py.                     *)
(*                                                                         *)
(* A text is the set of the tables' words and phrases that occur in it as  *)
(* whole words; one that contains a phrase contains the table words inside *)
(* it.  The tables are cut down to a few entries of every kind, with their *)
(* weights.  Weights of the classifier are in tenths, scores of a job in   *)
(* tenths of a point, and fractions are kept exact where the code has      *)
(* floats.                                                                 *)
(***************************************************************************)
EXTENDS Integers, Sequences, FiniteSets, FiniteSetsExt, TLC

NotSet == "none"

\* A keyword that ends in a symbol needs a letter after it to match: it never does.
SymbolEnded == {"c++"}

KeywordInText(text, k) == k \in text \ SymbolEnded

KeywordsInText(text, S) == {k \in S : KeywordInText(text, k)}

ScoreKeywords(text, weights) ==
  MapThenSumSet(LAMBDA k : weights[k], KeywordsInText(text, DOMAIN weights))

--------------------------------------------------------------------------------
(* The tables.                                                             *)

TechKeywords ==
  [languages |-> {"python", "c++"}, frameworks |-> {"react"},
   databases |-> {"postgresql"}, cloud |-> {"kubernetes"}, tools |-> {"kafka"}]

SynonymMap == [k8s |-> "kubernetes", postgres |-> "postgresql"]

AllTech == UNION {TechKeywords[c] : c \in DOMAIN TechKeywords}

NormalizeKeyword(k) == IF k \in DOMAIN SynonymMap THEN SynonymMap[k] ELSE k

TargetTitles      == {"backend engineer", "platform engineer", "full stack"}
TitleFallbacks    == {"engineer", "developer", "software"}
JuniorSignals     == {"intern", "associate"}
OverSeniorSignals == {"staff"}

DomainKeywords == "fintech" :> 100 @@ "payments" :> 85 @@ "seed" :> 55

LocationSignals == <<<<"remote", 100>>, <<"hybrid", 75>>, <<"nyc", 70>>>>

TitleSignals ==
  [backend |-> {"backend", "backend engineer"}, platform |-> {"platform engineer"},
   hybrid |-> {"full stack"}]

BackendKeywords  == "api" :> 20 @@ "postgresql" :> 15 @@ "python" :> 10
PlatformKeywords == "kubernetes" :> 25 @@ "k8s" :> 25 @@ "terraform" :> 20

YearPhrases == [y \in {"3 years", "8 years"} |-> IF y = "3 years" THEN 3 ELSE 8]

--------------------------------------------------------------------------------
(* The score.                                                              *)

Round(num, den) == (2 * num + den) \div (2 * den)

TitleRelevance(title) ==
  CASE title = {} -> 0
    [] KeywordsInText(title, TargetTitles) # {} -> 100
    [] KeywordsInText(title, TargetTitles) = {} /\ KeywordsInText(title, TitleFallbacks) # {} -> 50
    [] OTHER -> 30

SeniorityFit(title, text) ==
  IF KeywordsInText(title \cup text, JuniorSignals) # {} THEN 20
  ELSE IF KeywordsInText(title \cup text, OverSeniorSignals) # {} THEN 40
  ELSE 100

DomainAlignment(text) ==
  LET total == ScoreKeywords(text, DomainKeywords)
  IN  IF total = 0 THEN 50 ELSE IF total > 100 THEN 100 ELSE total

\* The first signal of the table that occurs, wherever it occurs.
LocationRemote(location, remote, text) ==
  LET hits == {i \in DOMAIN LocationSignals :
                 KeywordInText(location \cup text, LocationSignals[i][1])}
  IN  IF remote THEN 100
      ELSE IF hits = {} THEN 40
      ELSE LocationSignals[CHOOSE i \in hits : \A k \in hits : i <= k][2]

\* Mutant: synonyms are left out.
TechNamed(text) == KeywordsInText(text, AllTech)

TechAsked(text) ==
  KeywordsInText(text, AllTech)
    \cup {SynonymMap[s] : s \in KeywordsInText(text, DOMAIN SynonymMap)}

Neutral == [num |-> 50, den |-> 1]

\* The skills of the file as they are spelled.
TechStack(text, skills) ==
  LET asked == TechAsked(text)
  IN  IF asked = {} THEN Neutral
      ELSE [num |-> 100 * Cardinality(asked \cap skills), den |-> Cardinality(asked)]

Score(title, location, remote, text, skills) ==
  LET tech  == TechStack(text, skills)
      other == 25 * TitleRelevance(title) + 20 * SeniorityFit(title, text)
                 + 20 * DomainAlignment(text) + 20 * LocationRemote(location, remote, text)
  IN  [total |-> Round(other * tech.den + 15 * tech.num, 10 * tech.den),
       tech  |-> Round(10 * tech.num, tech.den)]

--------------------------------------------------------------------------------
(* The keywords.                                                           *)

JdKeywords(text) ==
  KeywordsInText(text, AllTech)
    \cup {SynonymMap[s] : s \in KeywordsInText(text, DOMAIN SynonymMap)}

\* The skills of the file under their canonical names.
AtsSignals(text, skills) ==
  LET jd  == JdKeywords(text)
      own == {NormalizeKeyword(s) : s \in skills}
  IN  [found      |-> jd \cap own,
       missing    |-> jd \ own,
       categories |-> [c \in DOMAIN TechKeywords |-> jd \cap TechKeywords[c]],
       score      |-> IF jd = {} THEN 0
                      ELSE Round(1000 * Cardinality(jd \cap own), Cardinality(jd))]

NoAts ==
  [found |-> {}, missing |-> {}, categories |-> [c \in DOMAIN TechKeywords |-> {}],
   score |-> -1]

--------------------------------------------------------------------------------
(* The persona.                                                            *)

BackendCategories  == {"languages", "frameworks", "databases"}
PlatformCategories == {"cloud", "tools"}

AtsCategories(categories, counted) ==
  MapThenSumSet(LAMBDA c : 5 * Cardinality(categories[c]), counted)

Distance(a, b) == IF a > b THEN a - b ELSE b - a

\* ats is what the job's analysis holds when the classifier reads it.
Persona(title, text, ats) ==
  LET combined == title \cup text \cup ats.found
      backend  == 20 * Cardinality(KeywordsInText(title, TitleSignals.backend))
                    + ScoreKeywords(combined, BackendKeywords)
                    + AtsCategories(ats.categories, BackendCategories)
      platform == 20 * Cardinality(KeywordsInText(title, TitleSignals.platform))
                    + ScoreKeywords(combined, PlatformKeywords)
                    + AtsCategories(ats.categories, PlatformCategories)
      hybrid   == KeywordsInText(title, TitleSignals.hybrid) # {}
  IN  IF hybrid /\ (backend > 0 \/ platform > 0) THEN "HYBRID"
      ELSE IF backend >= 20 /\ platform >= 20 /\ Distance(backend, platform) < 30 THEN "HYBRID"
      ELSE IF backend > platform THEN "BACKEND"
      ELSE IF platform > backend THEN "PLATFORM_INFRA"
      ELSE "HYBRID"

--------------------------------------------------------------------------------
(* The resume.                                                             *)

Unstated == -1

\* The largest number of years the title or the description asks for.
YearsRequired(text) ==
  LET stated == {YearPhrases[y] : y \in text \cap DOMAIN YearPhrases}
  IN  IF stated = {} THEN Unstated ELSE Max(stated)

YearsFit(own, required) ==
  CASE required = Unstated -> [num |-> 3, den |-> 4]
    [] required # Unstated /\ own = Unstated -> [num |-> 0, den |-> 1]
    [] required # Unstated /\ own # Unstated /\ own >= required -> [num |-> 1, den |-> 1]
    [] OTHER -> [num |-> own, den |-> Max({required, 1})]

\* 0.5 skills + 0.3 persona + 0.2 years, as a fraction.
Suggestion(resume, text, persona) ==
  LET matched == KeywordsInText(text, resume.skills)
      skills  == Max({Cardinality(resume.skills), 1})
      fits    == persona # NotSet /\ resume.persona = persona
      years   == YearsFit(resume.years, YearsRequired(text))
  IN  [resume |-> resume.id, persona |-> IF fits THEN 1 ELSE 0,
       matched |-> Cardinality(matched),
       num |-> 5 * Cardinality(matched) * years.den
                 + (IF fits THEN 3 * skills * years.den ELSE 0)
                 + 2 * years.num * skills,
       den |-> 10 * skills * years.den]

\* Mutant: the score alone is the key.
ScoresHigher(s, t) == s.num * t.den > t.num * s.den

\* The order of max(scored, key = (score, persona_match, len(matched_skills))).
Better(s, t) ==
  \/ s.num * t.den > t.num * s.den
  \/ /\ s.num * t.den = t.num * s.den
     /\ \/ s.persona > t.persona
        \/ s.persona = t.persona /\ s.matched > t.matched

Suggestions(catalog, text, persona) ==
  [i \in DOMAIN catalog |-> Suggestion(catalog[i], text, persona)]

\* The first of the best suggestions of a catalog that is not empty.
Suggest(catalog, text, persona) ==
  LET all == Suggestions(catalog, text, persona)
  IN  all[CHOOSE i \in DOMAIN all :
            /\ \A k \in DOMAIN all : ~Better(all[k], all[i])
            /\ \A k \in 1..(i - 1) : Better(all[i], all[k])]

\* Two best resumes that have the same key: their order decides.
Tied(catalog, text, persona) ==
  LET all == Suggestions(catalog, text, persona)
  IN  \E i, k \in DOMAIN all :
        /\ i # k
        /\ \A j \in DOMAIN all : ~Better(all[j], all[i])
        /\ all[i].num * all[k].den = all[k].num * all[i].den
        /\ all[i].persona = all[k].persona /\ all[i].matched = all[k].matched
================================================================================
