------------------------- MODULE BoardAcquisitionMC --------------------------
(* Two postings and a listing of three anchors: repeats, entries that are   *)
(* no posting, and limits below and above what the listing holds.           *)
EXTENDS BoardAcquisition

MCAdapters ==
  {"startupjobs_nyc", "welcome_to_the_jungle", "getro", "getro_links", "usv",
   "linkedin_jobs", "trueup"}

MCLimits == {0, 2}

PostingsAlike == Permutations(Postings)
=============================================================================
