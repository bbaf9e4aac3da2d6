--------------------------- MODULE MCDailyUpdate ---------------------------
(* Instances of DailyUpdate.  Lock files 1 and 2 are two providers', 3 is  *)
(* a raw dump's and 4 a registry's.                                        *)
EXTENDS DailyUpdateRefines, TLC
CONSTANTS a, b

\* Two runs of one provider.
PairRuns == {a, b}
PairProviders == {1}
PairProviderOf == a :> 1 @@ b :> 1
PairDumpOf == a :> 3 @@ b :> 3
PairRegistryOf == a :> 4 @@ b :> 4
PairNeeds == [r \in PairRuns |-> {1, 3, 4}]
PairHoley == {a}
PairQuarantine == {b}
PairBackfill == {b}
PairFallible == {a, b}

\* Two providers that share the raw dump and the registry.
SharedRuns == {a, b}
SharedProviders == {1, 2}
SharedProviderOf == a :> 1 @@ b :> 2
SharedDumpOf == a :> 3 @@ b :> 3
SharedRegistryOf == a :> 4 @@ b :> 4
SharedNeeds == a :> {1, 3, 4} @@ b :> {2, 3, 4}
SharedBackfill == {a, b}

\* No overrides, no quarantine.
NoRuns == {}
===========================================================================
