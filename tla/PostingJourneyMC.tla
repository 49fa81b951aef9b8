--------------------------- MODULE PostingJourneyMC ----------------------------
(* Small instances of PostingJourney for TLC: a posting on each tracking    *)
(* system, two on Ashby with one address inside the other, and what the     *)
(* discovery sources make of them.                                          *)
EXTENDS PostingJourney

CONSTANTS gh, lv, be, be2, ad

MCSlugs == {gh, lv, be, be2, ad}

MCOccurs == {<<s, s>> : s \in MCSlugs} \cup {<<be, be2>>}

Apart == {<<s, s>> : s \in MCSlugs}

Link(site, slug) == [site |-> site, slug |-> slug, form |-> FALSE, query |-> FALSE]

Form(site, slug) == [Link(site, slug) EXCEPT !.form = TRUE]

Tracked(link) == [link EXCEPT !.query = TRUE]

Raw(id, title, employer, place, page, apply, text) ==
  [id |-> id, title |-> title, employer |-> employer, place |-> place, page |-> page,
   apply |-> apply, text |-> text, remote |-> FALSE, stamp |-> 0]

BackendTitle  == {"backend engineer", "backend", "engineer"}
PlatformTitle == {"platform engineer", "engineer"}
OtherTitle    == {"engineer", "staff"}

GreenhousePosting ==
  Raw(gh, BackendTitle, None, {"nyc"}, Link("greenhouse", gh), NoLink,
      {"postgres", "python", "fintech", "3 years"})

LeverPosting ==
  Raw(lv, PlatformTitle, None, {"hybrid"}, Link("lever", lv), Form("lever", lv),
      {"k8s", "kafka", "react", "8 years"})

AshbyPosting ==
  Raw(None, OtherTitle, "Acme Inc", {"remote"}, Link("ashby", be), Form("ashby", be),
      {"react", "payments"})

AshbyOther ==
  [Raw(None, BackendTitle, "Acme Inc", {}, Link("ashby", be2), NoLink, {"c++"})
     EXCEPT !.remote = TRUE]

MCBoards ==
  [greenhouse |-> <<GreenhousePosting>>, lever |-> <<LeverPosting>>,
   ashby |-> <<AshbyOther, AshbyPosting>>]

MCFeeds ==
  [agg1 |-> {Raw(ad, BackendTitle, "Acme", {"nyc"}, Link("adzuna", ad), NoLink, {})},
   serp1 |->
     {Raw(None, PlatformTitle, "Acme", {"hybrid"}, Tracked(Link("lever", lv)), NoLink,
          {"react", "kafka"}),
      Raw(None, OtherTitle, None, {}, Link("other", be), Tracked(Link("ashby", be)),
          {"python", "react", "c++"})},
   jobspy |->
     {[Raw(ad, OtherTitle, "Acme", {"anywhere"}, Link("other", be), NoLink, {"seed"})
         EXCEPT !.remote = TRUE],
      Raw(ad, BackendTitle, "Acme", {"nyc"}, Link("other", gh), Link("greenhouse", gh),
          {"python", "fintech", "8 years"})}]

MCSubmitted ==
  {Tracked(Link("greenhouse", gh)), Form("lever", lv), Link("ashby", be), Form("ashby", be)}

MCSkills == {{"python", "postgresql", "kubernetes"}, {"postgres", "react"}, {}}

Resume(id, known, persona, years) ==
  [id |-> id, skills |-> known, persona |-> persona, years |-> years]

MCCatalogs ==
  {<<Resume("backend", {"python", "postgres"}, "BACKEND", 5),
     Resume("platform", {"kubernetes", "kafka"}, "PLATFORM_INFRA", 8),
     Resume("hybrid", {"react", "python", "kafka", "c++", "fintech"}, "HYBRID", Unstated)>>,
   <<Resume("broad", {"python", "fintech", "postgres", "kafka", "c++"}, "HYBRID", 5),
     Resume("narrow", {"kubernetes"}, "BACKEND", 5)>>,
   <<Resume("one", {"python"}, "BACKEND", 3), Resume("other", {"python"}, "BACKEND", 3)>>,
   <<>>}
================================================================================
