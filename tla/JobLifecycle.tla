----------------------------- MODULE JobLifecycle ------------------------------
(***************************************************************************)
(* What the pipeline promises of each job, whatever the tasks, queues and  *)
(* crashes underneath: the stages of ARCHITECTURE.md in their order, a     *)
(* rejection that stands, and one way back, the resolution of a discovery  *)
(* listing, at most once and always to the beginning.                      *)
(***************************************************************************)
CONSTANT Jobs

VARIABLES
  stage,     \* where each job is
  content    \* the text the job holds

Stages == {"ABSENT", "INGESTED", "SCORED", "REJECTED", "CLASSIFIED",
           "ATS_ANALYZED", "RESUME_READY"}

TypeOK ==
  /\ stage \in [Jobs -> Stages]
  /\ content \in [Jobs -> {"listing", "canonical"}]

Init ==
  /\ stage = [j \in Jobs |-> "ABSENT"]
  /\ content = [j \in Jobs |-> "listing"]

\* All of S leaves stage from; the jobs of T, a part of S, for stage second, the
\* others for stage first.
Branch(S, from, first, T, second) ==
  /\ \A j \in S : stage[j] = from
  /\ stage' = [j \in Jobs |-> IF j \in T THEN second
                              ELSE IF j \in S THEN first ELSE stage[j]]
  /\ UNCHANGED content

Advance(S, from, to) == Branch(S, from, to, {}, to)

Ingest(S)    == Advance(S, "ABSENT", "INGESTED")
Score(S, T)  == Branch(S, "INGESTED", "SCORED", T, "REJECTED")
Classify(S)  == Advance(S, "SCORED", "CLASSIFIED")
Analyze(S)   == Advance(S, "CLASSIFIED", "ATS_ANALYZED")
Recommend(S) == Advance(S, "ATS_ANALYZED", "RESUME_READY")

Resolve(S) ==
  /\ \A j \in S : stage[j] # "ABSENT" /\ content[j] = "listing"
  /\ content' = [j \in Jobs |-> IF j \in S THEN "canonical" ELSE content[j]]
  /\ stage' = [j \in Jobs |-> IF j \in S THEN "INGESTED" ELSE stage[j]]

Next ==
  \E S \in SUBSET Jobs :
    \/ Ingest(S) \/ Classify(S) \/ Analyze(S) \/ Recommend(S) \/ Resolve(S)
    \/ \E T \in SUBSET S : Score(S, T)

Spec == Init /\ [][Next]_<<stage, content>>
================================================================================
