----------------------------- MODULE JobPipelineMC -----------------------------
(* Small instances of JobPipeline for TLC. *)
EXTENDS JobPipeline, TLC

CONSTANTS d1, d2, c1, c2, w1, w2, r1, r2
================================================================================
