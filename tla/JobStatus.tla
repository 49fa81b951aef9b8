------------------------------- MODULE JobStatus -------------------------------
(***************************************************************************)
(* The status vocabulary of a job row (core/db/models.py) and the legacy   *)
(* mirror that core/job_status.py derives from the two canonical columns.  *)
(***************************************************************************)

\* Values of jobs.pipeline_status.  DEDUPED and FAILED are declared by the
\* code but assigned nowhere.
PipelineStatus == {"INGESTED", "DEDUPED", "SCORED", "REJECTED", "CLASSIFIED",
                   "ATS_ANALYZED", "RESUME_READY", "FAILED"}

\* Values of jobs.user_status.
UserStatus == {"NEW", "SAVED", "APPLIED", "ARCHIVED"}

\* Values the compatibility mirror jobs.status can be given.
MirrorStatus == {"NEW", "SCORED", "REJECTED", "APPLIED", "ARCHIVED"}

\* The pipeline stages that the mirror shows as SCORED.
Scored == {"SCORED", "CLASSIFIED", "ATS_ANALYZED", "RESUME_READY"}

\* legacy_status_from_canonical: a pipeline rejection wins over the user's
\* decision, which wins over the stage.
LegacyStatus(pipeline, user) ==
  CASE pipeline = "REJECTED"                                   -> "REJECTED"
    [] pipeline # "REJECTED" /\ user \in {"APPLIED", "ARCHIVED"} -> user
    [] pipeline \in Scored /\ user \in {"NEW", "SAVED"}          -> "SCORED"
    [] OTHER                                                   -> "NEW"
================================================================================
