--------------------------- MODULE ServedBundle ---------------------------
(***************************************************************************)
(* What the readers of a provider are promised by bundle_swap.py:9-12 and  *)
(* 109-117, without the directories, the locks or the stages of an update: *)
(* the live path holds one validated generation, or for a moment nothing;  *)
(* a generation is only ever replaced by a newer one.                      *)
(***************************************************************************)
EXTENDS Naturals

CONSTANT Providers

VARIABLES
    shown,    \* the generation at the live path, 0 if there is none
    newest    \* the newest generation the provider ever showed and keeps

served == <<shown, newest>>

ServedInit ==
    /\ shown \in [Providers -> Nat]
    /\ newest = shown

(* The window in which "a reader opening the provider errors rather than   *)
(* reading torn data".                                                     *)
Withdraw(p) ==
    /\ shown[p] # 0
    /\ shown' = [shown EXCEPT ![p] = 0]
    /\ UNCHANGED newest

Publish(p) ==
    /\ shown[p] = 0
    /\ shown'[p] \in Nat /\ shown'[p] > newest[p]
    /\ shown' = [shown EXCEPT ![p] = shown'[p]]
    /\ newest' = [newest EXCEPT ![p] = shown'[p]]

ServedNext == \E p \in Providers : Withdraw(p) \/ Publish(p)

ServedSpec == ServedInit /\ [][ServedNext]_served
===========================================================================
