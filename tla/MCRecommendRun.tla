------------------------- MODULE MCRecommendRun -------------------------
(* Two updates that share the provider (lock 1) and the dump (lock 2), and *)
(* a run of the recommendation, which needs the provider alone.            *)
EXTENDS RecommendRun, TLC
CONSTANTS a, b, today
MCRuns == {a, b, today}
MCNeeds == a :> {1, 2} @@ b :> {1, 2} @@ today :> {1}
OneRecommend == {today}
===========================================================================
