------------------------- MODULE PublishedHistory -------------------------
(***************************************************************************)
(* What the readers of the suspension history are promised by              *)
(* quarantine_transaction.py:1-7, without the journal, the kills and the   *)
(* runs: the history and what the manifest says of it are one published    *)
(* pair.  A history that lacks approved keys comes with the evidence of    *)
(* what it lacks, in one step, and only a complete one takes that back.    *)
(***************************************************************************)
EXTENDS Naturals

CONSTANTS Policies, MaxDay, None

VARIABLES
    history,    \* the raw file a reader gets, or would get after a recovery
    claim       \* what the manifest says of it, None without a manifest

published == <<history, claim>>

Days == 1..MaxDay
Bytes == [full : BOOLEAN, upTo : Days]
Evidence == [policy : Policies, reference : Bytes, retained : Bytes, candidate : Bytes, end : Days]
Claims == [quarantine : Evidence \cup {None}, end : 0..MaxDay]

Waives(c) == c # None /\ c.quarantine # None

(* A claim that is true of the bytes b.                                    *)
TrueOf(c, b) ==
    IF Waives(c) THEN c.quarantine.candidate = b /\ c.quarantine.reference.full
    ELSE b.full /\ (c # None => b.upTo >= c.end)

HistoryInit ==
    /\ history \in {b \in Bytes : b.full}
    /\ claim = [quarantine |-> None, end |-> history.upTo]

(* A complete history is replaced by a complete one that reaches as far.   *)
Refresh ==
    /\ claim # None /\ ~Waives(claim)
    /\ history' \in Bytes /\ history'.full /\ history'.upTo >= history.upTo
    /\ UNCHANGED claim

(* The evidence names the history it replaces, and leads back to the       *)
(* complete one, under the same policy for as long as keys are missing.    *)
Continues(e) ==
    /\ e.retained = history
    /\ IF Waives(claim)
       THEN e.reference = claim.quarantine.reference /\ e.policy = claim.quarantine.policy
       ELSE e.reference = history

(* History and claim change together.                                      *)
Exchange ==
    /\ claim # None
    /\ history' \in Bytes /\ history'.upTo >= history.upTo
    /\ claim' \in Claims /\ claim'.end = history'.upTo
    /\ TrueOf(claim', history')
    /\ Waives(claim') => Continues(claim'.quarantine)

(* The manifest is rewritten: it covers more, or starts again from nothing,*)
(* and a quarantine stays word for word.                                   *)
Restate ==
    /\ claim' \in Claims /\ TrueOf(claim', history)
    /\ claim # None => claim'.quarantine = claim.quarantine /\ claim'.end >= claim.end
    /\ claim = None => claim'.quarantine = None /\ claim'.end = 0
    /\ UNCHANGED history

(* --reset-manifest.                                                       *)
Forget ==
    /\ ~Waives(claim)
    /\ claim' = None
    /\ UNCHANGED history

HistoryNext == Refresh \/ Exchange \/ Restate \/ Forget

HistorySpec == HistoryInit /\ [][HistoryNext]_published
===========================================================================
