------------------------- MODULE QuarantineRefines -------------------------
(***************************************************************************)
(* The journaled publication implements PublishedHistory.  While a         *)
(* publication is pending and not committed, the history is the one that   *)
(* the recovery will bring back.                                           *)
(***************************************************************************)
EXTENDS QuarantinePublication

Settled == journal = None \/ Committed

PublishedBytes == IF Settled THEN raw ELSE journal.retained

Claimed(m) ==
    IF m = None THEN None ELSE [quarantine |-> m.quarantine, end |-> m.end]

Atomic == INSTANCE PublishedHistory WITH
    history <- PublishedBytes,
    claim <- Claimed(manifest)

(* None is no claim, as it is no manifest.                                 *)
ASSUME ClaimAssumption == None \notin Atomic!Claims

(* Every run of the program, killed anywhere between the two files and     *)
(* recovered any number of times, is a sequence of exchanges of a whole    *)
(* pair (quarantine_transaction.py:1-7).                                   *)
AtomicPublication == Atomic!HistorySpec
===========================================================================
