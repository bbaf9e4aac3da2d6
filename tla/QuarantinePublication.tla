----------------------- MODULE QuarantinePublication -----------------------
(***************************************************************************)
(* The one sanctioned hole of the raw dump.  When the vendor's suspension  *)
(* history comes back without the approved keys, a run of 01 replaces      *)
(* suspend_d.parquet and records the omission as quarantine evidence in    *)
(* fetch_manifest.json.  Two files change and the run may be killed        *)
(* between any two steps; a journal tells the next run how far it came.    *)
(* Runs do not overlap (the updater's lock covers the dump).               *)
(*                                                                         *)
(* src/data/tushare/quarantine_transaction.py, suspension_quarantine.py,   *)
(* fetch_manifest.py, fetcher.py, scripts/data_pipeline/01_fetch_tushare.py*)
(***************************************************************************)
EXTENDS Naturals

CONSTANTS
    Policies,   \* the approved exceptions a run may be given
    MaxDay,     \* last day a query may end on
    Stamps,     \* stands for fetched_at, which makes the bytes of every manifest new
    None        \* no policy, no file, no journal, no evidence

Days == 1..MaxDay
NoCoverage == 0                       \* the "" of an endpoint that established nothing

(* A digest is equal exactly when the bytes are: the file is the vendor's  *)
(* answer to a query that ended on upTo, with or without the approved keys.*)
Bytes == [full : BOOLEAN, upTo : Days]
Evidence == [policy : Policies, reference : Bytes, retained : Bytes, candidate : Bytes, end : Days]

(* What fetch_manifest.json says of the endpoint suspend_d.                *)
Manifest == [stamp : Stamps, quarantine : Evidence \cup {None}, hole : BOOLEAN,
             end : Days \cup {NoCoverage}]
Journal == [phase : {"publishing", "retry_required"}, policy : Policies,
            retained : Bytes, candidate : Bytes, before : Stamps,
            after : Stamps \cup {None}, evidence : Evidence \cup {None}, end : Days]

ASSUME PublicationAssumption ==
    /\ MaxDay \in Nat \ {0}
    /\ None \notin Policies \cup Stamps \cup {0, 1, 3}
    /\ None \notin Bytes \cup Evidence \cup Manifest \cup Journal

VARIABLES
    raw,        \* suspend_d.parquet
    kept,       \* the immutable copies in _suspension_quarantine/
    torn,       \* those a killed copy left unfinished under their final name
    manifest,   \* fetch_manifest.json
    journal,    \* _suspension_quarantine_pending.json
    pc,         \* the next step of the run of 01
    run,        \* its arguments and what it has found out
    exit        \* exit code of the last run, None if it was killed or aborted

pubVars == <<raw, kept, torn, manifest, journal, pc, run, exit>>

(* policy, selected (suspend_d is among the endpoints), end: arguments.    *)
(* forced: the file must be fetched again.  got: the prepared candidate.   *)
(* wrote, hole, evidence: the result of the endpoint.  next: the manifest  *)
(* about to be written.                                                    *)
Run == [policy : Policies \cup {None}, selected : BOOLEAN, end : Days, forced : BOOLEAN,
        got : Bytes \cup {None}, wrote : BOOLEAN, hole : BOOLEAN,
        evidence : Evidence \cup {None}, next : Manifest \cup {None}]

NewRun(p, s, e) == [policy |-> p, selected |-> s, end |-> e, forced |-> FALSE, got |-> None,
                    wrote |-> FALSE, hole |-> FALSE, evidence |-> None, next |-> None]
NoRun == NewRun(None, FALSE, MaxDay)

Labels == {"idle", "recover", "rollback", "mark_retry", "preflight", "fetch", "preserve",
           "begin", "replace", "merge", "write", "finish"}

PublicationTypeOK ==
    /\ raw \in Bytes
    /\ kept \in SUBSET Bytes /\ torn \in SUBSET Bytes
    /\ manifest \in Manifest \cup {None}
    /\ journal \in Journal \cup {None}
    /\ pc \in Labels
    /\ run \in Run
    /\ exit \in {0, 1, 3, None}

(* Before the incident: a complete history under a manifest that says so.  *)
PublicationInit ==
    /\ raw \in {b \in Bytes : b.full}
    /\ kept = {} /\ torn = {}
    /\ manifest \in [stamp : Stamps, quarantine : {None}, hole : {FALSE}, end : {raw.upTo}]
    /\ journal = None
    /\ pc = "idle"
    /\ run = NoRun
    /\ exit = None
---------------------------------------------------------------------------
Files == <<raw, kept, torn, manifest, journal>>
Goto(l) == pc' = l
Stop(code) == pc' = "idle" /\ run' = NoRun /\ exit' = code

Max(a, b) == IF a >= b THEN a ELSE b

Quarantined == manifest # None /\ manifest.quarantine # None

Start(p, s, e) ==
    /\ pc = "idle"
    /\ Goto("recover") /\ run' = NewRun(p, s, e) /\ exit' = None
    /\ UNCHANGED Files

(* The replaced file is kept if it is, or was, part of a quarantine.       *)
PreservedCopies == IF Quarantined \/ ~run.got.full THEN {raw} ELSE {}

(* SIGKILL, power loss, or an error nobody catches.  _preserve writes in   *)
(* place, so a copy may be left truncated.                                 *)
Kill ==
    /\ pc # "idle"
    /\ torn' \in {torn} \cup IF pc = "preserve" THEN {torn \cup (PreservedCopies \ kept)} ELSE {}
    /\ Stop(None)
    /\ UNCHANGED <<raw, kept, manifest, journal>>
---------------------------------------------------------------------------
(* recover_quarantine_publication, at the start of every run.              *)
MayRecover ==
    /\ run.selected
    /\ run.policy = journal.policy
    /\ run.end >= journal.end

Committed ==
    /\ journal.phase = "publishing"
    /\ raw = journal.candidate
    /\ journal.after # None /\ manifest # None /\ manifest.stamp = journal.after

RolledBackable ==
    /\ manifest # None /\ manifest.stamp = journal.before
    /\ raw \in {journal.retained, journal.candidate}

Recognised == journal.retained \in kept /\ (Committed \/ RolledBackable)

(* An existing copy must have the bytes of its name.                       *)
Archivable == raw \notin torn
Recoverable == Recognised /\ (Committed \/ raw = journal.retained \/ Archivable)

RecoverNothing ==
    /\ pc = "recover" /\ journal = None
    /\ Goto("preflight")
    /\ UNCHANGED <<run, exit>> /\ UNCHANGED Files

RecoverRefused ==
    /\ pc = "recover" /\ journal # None
    /\ ~(MayRecover /\ Recoverable)
    /\ Stop(1)
    /\ UNCHANGED Files

RecoverCommitted ==
    /\ pc = "recover" /\ journal # None
    /\ MayRecover /\ journal.retained \in kept /\ Committed
    /\ journal' = None
    /\ Goto("preflight") /\ run' = [run EXCEPT !.forced = TRUE]
    /\ UNCHANGED <<raw, kept, torn, manifest, exit>>

RecoverArchives ==
    /\ pc = "recover" /\ journal # None
    /\ MayRecover /\ Recognised /\ ~Committed
    /\ raw # journal.retained /\ Archivable
    /\ kept' = kept \cup {raw}
    /\ Goto("rollback")
    /\ UNCHANGED <<raw, torn, manifest, journal, run, exit>>

RollBack ==
    /\ pc = "rollback"
    /\ raw' = journal.retained
    /\ Goto("mark_retry")
    /\ UNCHANGED <<kept, torn, manifest, journal, run, exit>>

AlreadyRetained ==
    /\ pc = "recover" /\ journal # None
    /\ MayRecover /\ Recognised /\ ~Committed
    /\ raw = journal.retained

MarkRecovered ==                      \* mutant: a phase _validate_journal does not know
    /\ pc = "mark_retry" \/ AlreadyRetained
    /\ journal' = [journal EXCEPT !.phase = "recovered"]
    /\ Goto("preflight") /\ run' = [run EXCEPT !.forced = TRUE]
    /\ UNCHANGED <<raw, kept, torn, manifest, exit>>

MarkNothing ==                        \* mutant: the phase is left at publishing
    /\ pc = "mark_retry" \/ AlreadyRetained
    /\ Goto("preflight") /\ run' = [run EXCEPT !.forced = TRUE]
    /\ UNCHANGED <<raw, kept, torn, manifest, journal, exit>>

(* The marker stays: only a publication that succeeds discharges it.       *)
MarkRetry ==
    /\ pc = "mark_retry" \/ AlreadyRetained
    /\ journal' = [journal EXCEPT !.phase = "retry_required"]
    /\ Goto("preflight") /\ run' = [run EXCEPT !.forced = TRUE]
    /\ UNCHANGED <<raw, kept, torn, manifest, exit>>
---------------------------------------------------------------------------
MayResetAnything == journal = None /\ manifest # None        \* mutant

(* --reset-manifest, refused while something is pending or quarantined.    *)
MayReset == journal = None /\ manifest # None /\ manifest.quarantine = None

ResetManifest ==
    /\ pc = "recover" /\ MayReset
    /\ manifest' = None
    /\ Goto("preflight")
    /\ UNCHANGED <<raw, kept, torn, journal, run, exit>>

ResetRefused ==
    /\ pc = "recover" /\ (journal # None \/ Quarantined)
    /\ Stop(1)
    /\ UNCHANGED Files

(* verify_quarantine_evidence, at every gate: the actual bytes.            *)
Verified(e) == raw = e.candidate /\ {e.reference, e.retained} \subseteq kept

(* _quarantine_preflight, before any endpoint writes.                      *)
Preflight ==
    /\ pc = "preflight"
    /\ Quarantined => manifest.quarantine.policy = run.policy /\ Verified(manifest.quarantine)
    /\ Goto("fetch")
    /\ UNCHANGED <<run, exit>> /\ UNCHANGED Files

PreflightRefuses ==
    /\ pc = "preflight"
    /\ Quarantined
    /\ ~(manifest.quarantine.policy = run.policy /\ Verified(manifest.quarantine))
    /\ Stop(1)
    /\ UNCHANGED Files
---------------------------------------------------------------------------
(* _fetch_single_file_aggregate.  A file may be skipped only when nothing  *)
(* forces it; "refresh" is the --refresh-current argument.                 *)
MayReplace == manifest # None /\ manifest.end # NoCoverage

FetchSkips ==
    /\ pc = "fetch"
    /\ run.selected =>
          /\ ~run.forced
          /\ manifest # None => manifest.quarantine = None /\ ~manifest.hole
    /\ Goto("merge")
    /\ UNCHANGED <<run, exit>> /\ UNCHANGED Files

(* A permission or token error, or a file whose provenance is unknown.     *)
FetchAborts ==
    /\ pc = "fetch"
    /\ Stop(1)
    /\ UNCHANGED Files

(* Retries exhausted, an answer that loses other history, or a range that  *)
(* does not cover what the manifest declares: the file is left alone.      *)
FetchHoles ==
    /\ pc = "fetch" /\ run.selected /\ MayReplace
    /\ run' = [run EXCEPT !.hole = TRUE]
    /\ Goto("merge")
    /\ UNCHANGED exit /\ UNCHANGED Files

Retains(a, b) == a.upTo >= b.upTo /\ (b.full => a.full)

AcceptableByDate(b) == b.upTo >= raw.upTo                   \* mutant

(* require_retained_keys without a policy; with one, _validate_history:    *)
(* only the approved keys may be missing, and the reference must have them.*)
Acceptable(b) ==
    IF run.policy = None THEN Retains(b, raw)
    ELSE IF manifest.quarantine # None THEN
        b.upTo >= manifest.quarantine.reference.upTo /\ b.upTo >= raw.upTo
    ELSE IF b.full THEN Retains(b, raw) ELSE raw.full /\ b.upTo >= raw.upTo

FetchAnswers(b) ==
    /\ pc = "fetch" /\ run.selected /\ MayReplace
    /\ run.end >= manifest.end
    /\ b.upTo = run.end /\ Acceptable(b)
    /\ run' = [run EXCEPT !.got = b]
    /\ Goto(IF run.policy = None THEN "replace" ELSE "preserve")
    /\ UNCHANGED exit /\ UNCHANGED Files

EvidenceAgainstRaw(b) ==              \* mutant: the reference starts again at the last file
    IF b.full THEN None
    ELSE [policy |-> run.policy, reference |-> raw, retained |-> raw, candidate |-> b, end |-> run.end]

(* publish_suspension_candidate.                                           *)
EvidenceFor(b) ==
    IF b.full THEN None
    ELSE [policy |-> run.policy,
          reference |-> IF Quarantined THEN manifest.quarantine.reference ELSE raw,
          retained |-> raw, candidate |-> b, end |-> run.end]

NeedsJournalIfShort == ~run.got.full                        \* mutant

NeedsJournal == ~run.got.full \/ Quarantined \/ journal # None

Preserve ==
    /\ pc = "preserve" /\ PreservedCopies \cap torn = {}
    /\ kept' = kept \cup PreservedCopies
    /\ run' = [run EXCEPT !.evidence = EvidenceFor(run.got)]
    /\ Goto(IF NeedsJournal THEN "begin" ELSE "replace")
    /\ UNCHANGED <<raw, torn, manifest, journal, exit>>

(* _retry_journal: only the exact rolled-back pair may be retried.         *)
RetryReady ==
    /\ journal.phase = "retry_required" /\ journal.policy = run.policy
    /\ run.end >= journal.end
    /\ raw = journal.retained
    /\ manifest.stamp = journal.before

(* begin_quarantine_publication, before the raw file is replaced.          *)
Begin ==
    /\ pc = "begin"
    /\ journal # None => RetryReady
    /\ raw \in kept
    /\ journal' = [phase |-> "publishing", policy |-> run.policy, retained |-> raw,
                   candidate |-> run.got, before |-> manifest.stamp, after |-> None,
                   evidence |-> run.evidence, end |-> run.end]
    /\ Goto("replace")
    /\ UNCHANGED <<raw, kept, torn, manifest, run, exit>>

Replace ==
    /\ pc = "replace"
    /\ raw' = run.got
    /\ run' = [run EXCEPT !.wrote = TRUE]
    /\ Goto("merge")
    /\ UNCHANGED <<kept, torn, manifest, journal, exit>>

(* An OSError or a refused begin becomes a hole; a journal that was already*)
(* written stays.                                                          *)
PublishFails ==
    /\ pc \in {"preserve", "begin", "replace"} /\ run.policy # None
    /\ run' = [run EXCEPT !.hole = TRUE, !.evidence = None, !.got = None]
    /\ Goto("merge")
    /\ UNCHANGED exit /\ UNCHANGED Files
---------------------------------------------------------------------------
(* build_manifest and merge_manifest, for suspend_d.                       *)
Merged(s) ==
    IF manifest = None THEN
        [stamp |-> s, quarantine |-> None, hole |-> FALSE, end |-> NoCoverage]
    ELSE IF run.wrote THEN
        [stamp |-> s, quarantine |-> run.evidence, hole |-> FALSE, end |-> Max(manifest.end, run.end)]
    ELSE [manifest EXCEPT !.stamp = s, !.hole = @ \/ run.hole]

(* A narrower run did not attempt every hole the manifest carries.         *)
MergeRefused ==
    /\ run.hole /\ (manifest.hole \/ Quarantined)
    /\ run.end < manifest.end

(* prepare_quarantine_manifest_commit: what the journal promised, exactly. *)
Binds(m) ==
    journal # None =>
        /\ journal.phase = "publishing"
        /\ run.wrote
        /\ m.quarantine = journal.evidence /\ ~m.hole /\ m.end = journal.end
        /\ raw = journal.candidate /\ journal.retained \in kept
        /\ manifest.stamp = journal.before

InUse == (IF manifest = None THEN {} ELSE {manifest.stamp})
    \cup (IF journal = None THEN {} ELSE {journal.before, journal.after})

PrepareUnbound(s) ==                  \* mutant: the new bytes are not bound first
    /\ pc = "merge"
    /\ s \notin InUse
    /\ ~MergeRefused /\ Binds(Merged(s))
    /\ run' = [run EXCEPT !.next = Merged(s)]
    /\ Goto("write")
    /\ UNCHANGED <<raw, kept, torn, manifest, journal, exit>>

(* The merge and the preparation: the journal learns the bytes that the    *)
(* manifest is about to have.                                              *)
Prepare(s) ==
    /\ pc = "merge"
    /\ s \notin InUse
    /\ ~MergeRefused /\ Binds(Merged(s))
    /\ journal' = IF journal = None THEN None ELSE [journal EXCEPT !.after = s]
    /\ run' = [run EXCEPT !.next = Merged(s)]
    /\ Goto("write")
    /\ UNCHANGED <<raw, kept, torn, manifest, exit>>

PrepareRefuses ==
    /\ pc = "merge"
    /\ MergeRefused \/ \E s \in Stamps : ~Binds(Merged(s))
    /\ Stop(1)
    /\ UNCHANGED Files

(* os.replace of the manifest.                                             *)
WriteManifest ==
    /\ pc = "write"
    /\ manifest' = run.next
    /\ Goto("finish")
    /\ UNCHANGED <<raw, kept, torn, journal, run, exit>>

FinishOwnHoles ==                     \* mutant: only the holes of this run count
    /\ pc = "finish"
    /\ journal # None => raw = journal.candidate /\ manifest.stamp = journal.after
    /\ journal' = None
    /\ Stop(IF run.hole \/ run.evidence # None THEN 3 ELSE 0)
    /\ UNCHANGED <<raw, kept, torn, manifest>>

(* finish_quarantine_manifest_commit, and the exit code of the run.        *)
Finish ==
    /\ pc = "finish"
    /\ journal # None => raw = journal.candidate /\ manifest.stamp = journal.after
    /\ journal' = None
    /\ Stop(IF run.hole \/ Quarantined THEN 3 ELSE 0)
    /\ UNCHANGED <<raw, kept, torn, manifest>>
---------------------------------------------------------------------------
Recover == RecoverNothing \/ RecoverRefused \/ RecoverCommitted \/ RecoverArchives
    \/ RollBack \/ MarkRetry
Publish == Preserve \/ Begin \/ Replace \/ PublishFails
Commit == (\E s \in Stamps : Prepare(s)) \/ PrepareRefuses \/ WriteManifest \/ Finish

PublicationNext ==
    \/ \E p \in Policies \cup {None}, s \in BOOLEAN, e \in Days : Start(p, s, e)
    \/ Kill
    \/ Recover
    \/ ResetManifest \/ ResetRefused
    \/ Preflight \/ PreflightRefuses
    \/ FetchSkips \/ FetchAborts \/ FetchHoles
    \/ \E b \in Bytes : FetchAnswers(b)
    \/ Publish
    \/ Commit

PublicationSpec == PublicationInit /\ [][PublicationNext]_pubVars
---------------------------------------------------------------------------
(* With no marker the two files are a pair: a manifest without quarantine  *)
(* covers a history that has every approved key up to the day it claims,   *)
(* and one with quarantine describes the very bytes of the raw file, with  *)
(* the complete reference and the replaced file kept as evidence           *)
(* (quarantine_transaction.py:3-6).                                        *)
PublishedPairMatches ==
    journal = None /\ manifest # None =>
        IF manifest.quarantine = None
        THEN manifest.end # NoCoverage => raw.full /\ raw.upTo >= manifest.end
        ELSE Verified(manifest.quarantine) /\ manifest.quarantine.reference.full

(* However often a publication is killed, rolled back and retried, the     *)
(* next matching run can recover it: it recognises the bytes it finds      *)
(* (quarantine_transaction.py:424 refuses "unknown raw/manifest bytes"),   *)
(* and no unfinished copy bars the name it archives them under (:383).     *)
(* (Nothing is said of what is not pending: an unfinished copy of the raw  *)
(* file bars every later publication that has to preserve that file.)      *)
RecoveryKnowsTheBytes == journal # None => Recoverable

(* While the raw file lacks approved keys, a complete history is still     *)
(* among the evidence (suspension_quarantine.py:497-502), whatever was     *)
(* published, killed, retried and rolled back since.                       *)
HistoryIsKept == ~raw.full => \E b \in kept : b.full

(* Exit 0 means that nothing is pending and nothing is quarantined, also   *)
(* for a run that did not touch suspend_d (01_fetch_tushare.py:500-508).   *)
CleanExitIsClean ==
    pc = "idle" /\ exit = 0 => journal = None /\ raw.full /\ ~Quarantined

(* The obligation of a quarantine is only ever discharged by a complete    *)
(* history: not by a reset, a failed refresh, a subset run or a recovery.  *)
QuarantineIsEarned ==
    [][Quarantined /\ ~Quarantined' => raw'.full]_pubVars

(* A run that is neither killed nor failed by the vendor or the disk.  The *)
(* operator answers a pending publication with "an explicit matching       *)
(* non-dry suspend_d refresh" over the full range.                         *)
Refresh ==
    /\ journal # None
    /\ Start(journal.policy, TRUE, MaxDay)

Undisturbed ==
    \/ journal = None /\ PublicationNext
    \/ Refresh
    \/ RecoverCommitted \/ RecoverArchives \/ RollBack \/ MarkRetry \/ RecoverRefused
    \/ Preflight \/ PreflightRefuses
    \/ \E b \in Bytes : FetchAnswers(b)
    \/ Preserve \/ Begin \/ Replace
    \/ Commit

PublicationFairSpec == PublicationSpec /\ WF_pubVars(Undisturbed)

(* Once the refreshes run undisturbed, a pending publication is finished,  *)
(* from whatever point earlier runs were killed at.                        *)
PendingIsDischarged ==
    <>[][Undisturbed]_pubVars => ((journal # None) ~> (journal = None))
===========================================================================
