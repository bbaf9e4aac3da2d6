------------------------- MODULE MCDailyUpdateLoss -------------------------
(* Two runs of one provider whose live directory may get lost; one of them *)
(* may also be killed, interrupted, or have its body raise.                *)
EXTENDS DailyUpdateLoss, TLC
CONSTANTS a, b
LossRuns == {a, b}
LossProviders == {1}
LossProviderOf == a :> 1 @@ b :> 1
LossDumpOf == a :> 3 @@ b :> 3
LossRegistryOf == a :> 4 @@ b :> 4
LossNeeds == [r \in LossRuns |-> {1, 3, 4}]
NoRuns == {}
LossFallible == {a}
===========================================================================
