-------------------------- MODULE DailyUpdateLoss --------------------------
(***************************************************************************)
(* The daily update on a machine whose live bundle can get lost between    *)
(* two runs: an operator or a sync tool deletes the directory.  This is    *)
(* the state check_and_repair's restore branch is written for              *)
(* (bundle_swap.py:67-75); no crash of the updater alone produces it.      *)
(***************************************************************************)
EXTENDS DailyUpdate

VARIABLE lost    \* the providers whose live directory was deleted, once each

lossVars == <<vars, lost>>

LossInit == Init /\ lost = {}

Idle(p) == \A r \in Runs : ProviderOf[r] = p => pc[r] # "inside"

(* Code outside the repository removes the live directory.                 *)
LoseLive(p) ==
    /\ p \notin lost /\ Exists(live[p]) /\ Idle(p)
    /\ live' = [live EXCEPT ![p] = NoDir]
    /\ lost' = lost \cup {p}
    /\ UNCHANGED <<lockVars, new, bak, inputVars, runVars, recordVars>>

LossNext ==
    \/ Next /\ UNCHANGED lost
    \/ \E p \in Providers : LoseLive(p)

LossSpec == LossInit /\ [][LossNext]_lossVars

FairLossSpec == LossSpec /\ Fairness

(* Even after such a loss, the next run that gets through its startup      *)
(* repair has put some bundle back, unless no directory was left at all:   *)
(* the weekend no-op behind it never strands the readers                   *)
(* (daily_update.py:1189-1195).                                            *)
ServiceRestored ==
    [][\A r \in Runs : LET p == ProviderOf[r] IN
        /\ At(r, "repair") /\ Exists(bak[p])
        /\ stage'[r] = "gate"
        => Exists(live[p])']_lossVars

(* bundle_swap.py:15-16 and 58-59: "the backup rename happened, which      *)
(* proves validation had passed".  What the repair promotes to complete an *)
(* interrupted swap is a validated bundle.                                 *)
CompletionProvesValidation ==
    [][\A r \in Runs : LET p == ProviderOf[r] IN
        At(r, "repair") /\ stage'[r] = "gate" /\ CompletesSwap(p) => Servable(live[p])']_lossVars
===========================================================================
