-------------------- MODULE QuarantinePublication_proofs --------------------
(***************************************************************************)
(* Proofs that the journaled publication keeps the raw file and its        *)
(* manifest a pair, and that recovery always knows the bytes it finds, for *)
(* any policies, days and stamps, and for any number of runs, killed       *)
(* anywhere; and that to its readers each publication is one exchange.     *)
(***************************************************************************)
EXTENDS QuarantineRefines, TLAPS

(* The manifest m tells the truth about a raw file b.                      *)
Pair(m, b) ==
    IF m # None /\ m.quarantine # None
    THEN /\ b = m.quarantine.candidate
         /\ {m.quarantine.reference, m.quarantine.retained} \subseteq kept
         /\ m.quarantine.reference.full
    ELSE b.full /\ (m # None => b.upTo >= m.end)

(* Either the publication was committed, and the two new files are a pair, *)
(* or the old manifest still is one with the file that was replaced.       *)
Paired ==
    IF journal = None THEN Pair(manifest, raw)
    ELSE /\ journal.retained \in kept
         /\ journal.before # journal.after
         /\ \/ Committed /\ Pair(manifest, raw)
            \/ RolledBackable /\ Pair(manifest, journal.retained)

(* A run that got past the recovery is one the pending publication admits. *)
Admitted ==
    /\ pc \notin {"idle", "recover"} /\ journal # None => run.policy = journal.policy
    /\ pc \in {"rollback", "mark_retry"} => journal # None /\ RolledBackable /\ ~Committed
    /\ pc = "mark_retry" => raw = journal.retained
    /\ pc \notin {"merge", "write", "finish"} => ~run.wrote
    /\ pc \notin {"begin", "replace", "merge", "write", "finish"} => run.evidence = None
    /\ pc \in {"fetch", "preserve", "begin", "replace"} /\ Quarantined =>
         manifest.quarantine.policy = run.policy

(* Before it replaces the file, the two on disk are a pair.                *)
Untouched ==
    pc \in {"preflight", "fetch", "preserve", "begin"} =>
        /\ Pair(manifest, raw)
        /\ journal # None => RolledBackable /\ ~Committed

(* The answer it is about to publish.                                      *)
Answered ==
    pc \in {"preserve", "begin", "replace"} =>
        /\ run.got \in Bytes /\ run.got.upTo = run.end
        /\ manifest # None /\ run.end >= manifest.end
        /\ ~run.got.full => manifest.quarantine # None \/ raw.full
        /\ ~run.got.full => run.policy # None
        /\ pc \in {"preserve", "begin"} => run.policy # None

(* The evidence it has prepared describes that answer.                     *)
Describes(e, b) ==
    IF e = None THEN b.full
    ELSE e.candidate = b /\ {e.reference, e.retained} \subseteq kept /\ e.reference.full

Prepared ==
    /\ pc = "begin" => Describes(run.evidence, run.got)
    /\ pc = "replace" =>
         /\ Describes(run.evidence, run.got)
         /\ journal = None => run.evidence = None /\ manifest.quarantine = None
         /\ journal # None => journal.candidate = run.got /\ journal.phase = "publishing"
                              /\ RolledBackable
    /\ pc = "merge" /\ run.wrote =>
         /\ manifest # None /\ run.end >= manifest.end
         /\ raw.upTo = run.end
         /\ Describes(run.evidence, raw)

Promised ==
    pc = "write" =>
        /\ run.next \in Manifest /\ Pair(run.next, raw)
        /\ journal # None => /\ journal.phase = "publishing" /\ raw = journal.candidate
                             /\ journal.after = run.next.stamp

PublicationInv ==
    PublicationTypeOK /\ Paired /\ Admitted /\ Untouched /\ Answered /\ Prepared /\ Promised

(* The types, as the leaves below use them.                                *)
LEMMA Types == Days \subseteq Nat /\ NoCoverage = 0 /\ 0 \notin Days
BY PublicationAssumption DEF Days, NoCoverage

(* Before the incident the two files are a pair and nobody runs.           *)
LEMMA PublicationInitInv == PublicationInit => PublicationInv
<1> SUFFICES ASSUME PublicationInit PROVE PublicationInv
  OBVIOUS
<1>1. PublicationTypeOK
  <2>1. run \in Run
    BY PublicationAssumption DEF PublicationInit, NoRun, NewRun, Run, Days
  <2>2. raw \in Bytes /\ manifest \in Manifest
    BY DEF PublicationInit, Bytes, Manifest
  <2> QED
    BY <2>1, <2>2 DEF PublicationInit, PublicationTypeOK, Labels
<1>2. Paired
  BY PublicationAssumption DEF PublicationInit, Paired, Pair, Bytes, Manifest, Days
<1>3. Admitted /\ Untouched /\ Answered /\ Prepared /\ Promised
  BY DEF PublicationInit, Admitted, Untouched, Answered, Prepared, Promised, NoRun, NewRun
<1> QED
  BY <1>1, <1>2, <1>3 DEF PublicationInv

(* What the pair is made of: everything but the unfinished copies.         *)
Published == <<raw, kept, manifest, journal>>

(* A run that stops, for any reason, leaves the pair as it is.             *)
LEMMA StopInv == ASSUME PublicationInv, UNCHANGED Published, torn' \in SUBSET Bytes, NEW code \in {0, 1, 3, None}, Stop(code) PROVE PublicationInv'
<1>1. PublicationTypeOK'
  BY PublicationAssumption DEF PublicationInv, PublicationTypeOK, Stop, Published, NoRun, NewRun, Run,
       Labels, Days
<1>2. Paired'
  BY DEF PublicationInv, Paired, Pair, Committed, RolledBackable, Stop, Published
<1>3. (Admitted /\ Untouched /\ Answered /\ Prepared /\ Promised)'
  BY DEF Admitted, Untouched, Answered, Prepared, Promised, Stop, NoRun, NewRun
<1> QED
  BY <1>1, <1>2, <1>3 DEF PublicationInv

(* A run starts.                                                           *)
LEMMA StartInv == ASSUME PublicationInv, NEW p \in Policies \cup {None}, NEW s \in BOOLEAN, NEW e \in Days, Start(p, s, e) PROVE PublicationInv'
<1>1. PublicationTypeOK'
  BY DEF PublicationInv, PublicationTypeOK, Start, Goto, Files, NewRun, Run, Labels
<1>2. Paired'
  BY DEF PublicationInv, Paired, Pair, Committed, RolledBackable, Start, Files
<1>3. (Admitted /\ Untouched /\ Answered /\ Prepared /\ Promised)'
  BY DEF Admitted, Untouched, Answered, Prepared, Promised, Start, Goto, NewRun
<1> QED
  BY <1>1, <1>2, <1>3 DEF PublicationInv

(* Nothing is pending.                                                     *)
LEMMA RecoverNothingInv == ASSUME PublicationInv, RecoverNothing PROVE PublicationInv'
<1>1. PublicationTypeOK'
  BY DEF PublicationInv, PublicationTypeOK, RecoverNothing, Goto, Files, Labels, Run
<1>2. Paired'
  BY DEF PublicationInv, Paired, Pair, Committed, RolledBackable, RecoverNothing, Files
<1>3. (Admitted /\ Untouched)'
  BY DEF PublicationInv, Paired, Pair, Admitted, Untouched, RecoverNothing, Goto, Files
<1>4. (Answered /\ Prepared /\ Promised)'
  BY DEF Answered, Prepared, Promised, Describes, RecoverNothing, Goto, Files
<1> QED
  BY <1>1, <1>2, <1>3, <1>4 DEF PublicationInv

(* The last publication had got through; its file is checked again.        *)
LEMMA RecoverCommittedInv == ASSUME PublicationInv, RecoverCommitted PROVE PublicationInv'
<1>1. PublicationTypeOK'
  BY DEF PublicationInv, PublicationTypeOK, RecoverCommitted, Goto, Files, Labels, Run
<1>2. Paired'
  BY DEF PublicationInv, Paired, Pair, Committed, RolledBackable, RecoverCommitted, Files
<1>3. (Admitted /\ Untouched)'
  BY DEF PublicationInv, Paired, Pair, Admitted, Untouched, Committed, RolledBackable, RecoverCommitted,
       Goto
<1>4. (Answered /\ Prepared /\ Promised)'
  BY DEF Answered, Prepared, Promised, Describes, Pair, Committed, RolledBackable, RecoverCommitted, Goto,
       Files
<1> QED
  BY <1>1, <1>2, <1>3, <1>4 DEF PublicationInv

(* The new bytes are archived before the old ones come back.               *)
LEMMA RecoverArchivesInv == ASSUME PublicationInv, RecoverArchives PROVE PublicationInv'
<1>1. PublicationTypeOK'
  BY DEF PublicationInv, PublicationTypeOK, RecoverArchives, Goto, Files, Labels, Run
<1>2. Paired'
  BY DEF PublicationInv, Paired, Pair, RolledBackable, RecoverArchives
<1>3. (Admitted /\ Untouched)'
  BY DEF PublicationInv, Paired, Admitted, Untouched, Committed, RolledBackable, RecoverArchives, Goto,
       MayRecover
<1>4. (Answered /\ Prepared /\ Promised)'
  BY DEF PublicationInv, Answered, Prepared, Promised, Describes, Pair, RolledBackable, RecoverArchives,
       Goto, Recognised
<1> QED
  BY <1>1, <1>2, <1>3, <1>4 DEF PublicationInv

(* The replaced file comes back.                                           *)
LEMMA RollBackInv == ASSUME PublicationInv, RollBack PROVE PublicationInv'
<1>1. PublicationTypeOK'
  BY DEF PublicationInv, PublicationTypeOK, RollBack, Goto, Labels, Journal, Admitted
<1>2. Paired'
  BY DEF PublicationInv, Paired, Pair, Committed, RolledBackable, RollBack, Files, Admitted
<1>3. (Admitted /\ Untouched)'
  BY DEF PublicationInv, Admitted, Untouched, Committed, RolledBackable, RollBack, Goto
<1>4. (Answered /\ Prepared /\ Promised)'
  BY DEF Answered, Prepared, Promised, Describes, Pair, Committed, RollBack, Goto
<1> QED
  BY <1>1, <1>2, <1>3, <1>4 DEF PublicationInv

(* The obligation to publish again stays.                                  *)
LEMMA MarkRetryInv == ASSUME PublicationInv, MarkRetry PROVE PublicationInv'
<1>1. PublicationTypeOK'
  BY DEF PublicationInv, PublicationTypeOK, MarkRetry, Goto, Labels, Run, Journal, AlreadyRetained, Admitted
<1>2. Paired'
  BY DEF PublicationInv, Paired, Pair, Committed, RolledBackable, MarkRetry, AlreadyRetained, Admitted,
       Recognised, PublicationTypeOK, Journal
<1>3. (Admitted /\ Untouched)'
  <2>1. /\ pc' = "preflight" /\ journal # None /\ raw = journal.retained
        /\ RolledBackable /\ ~Committed /\ run.policy = journal.policy
        /\ ~run.wrote /\ run.evidence = None
        /\ run' = [run EXCEPT !.forced = TRUE] /\ UNCHANGED <<raw, kept, manifest>>
        /\ journal' = [journal EXCEPT !.phase = "retry_required"]
    BY DEF PublicationInv, Admitted, MarkRetry, AlreadyRetained, MayRecover, Recognised, Goto
  <2>2. /\ journal'.policy = journal.policy /\ journal'.retained = journal.retained
        /\ journal'.candidate = journal.candidate /\ journal'.before = journal.before
        /\ journal'.phase = "retry_required"
        /\ run'.policy = run.policy /\ run'.wrote = run.wrote /\ run'.evidence = run.evidence
    BY <2>1 DEF PublicationInv, PublicationTypeOK, Journal, Run
  <2>3. Pair(manifest, raw)
    BY <2>1 DEF PublicationInv, Paired
  <2>4. RolledBackable' /\ ~Committed' /\ Pair(manifest, raw)'
    BY <2>1, <2>2, <2>3 DEF RolledBackable, Committed, Pair
  <2> QED
    BY <2>1, <2>2, <2>4 DEF Admitted, Untouched
<1>4. (Answered /\ Prepared /\ Promised)'
  BY DEF Answered, Prepared, Promised, MarkRetry, Goto
<1> QED
  BY <1>1, <1>2, <1>3, <1>4 DEF PublicationInv

(* A reset drops a manifest that carries no quarantine.                    *)
LEMMA ResetManifestInv == ASSUME PublicationInv, ResetManifest PROVE PublicationInv'
<1>1. PublicationTypeOK'
  BY DEF PublicationInv, PublicationTypeOK, ResetManifest, Goto, Files, Labels, Run
<1>2. Paired'
  BY DEF PublicationInv, Paired, Pair, Committed, RolledBackable, ResetManifest, Files, MayReset
<1>3. (Admitted /\ Untouched)'
  BY DEF PublicationInv, Paired, Pair, Admitted, Untouched, ResetManifest, Goto, MayReset
<1>4. (Answered /\ Prepared /\ Promised)'
  BY DEF Answered, Prepared, Promised, Describes, ResetManifest, Goto, MayReset
<1> QED
  BY <1>1, <1>2, <1>3, <1>4 DEF PublicationInv

(* The gate before the endpoints.                                          *)
LEMMA PreflightInv == ASSUME PublicationInv, Preflight PROVE PublicationInv'
<1>1. PublicationTypeOK'
  BY DEF PublicationInv, PublicationTypeOK, Preflight, Goto, Files, Labels, Run
<1>2. Paired'
  BY DEF PublicationInv, Paired, Pair, Committed, RolledBackable, Preflight, Files
<1>3. (Admitted /\ Untouched)'
  BY DEF PublicationInv, Pair, Admitted, Untouched, Committed, RolledBackable, Quarantined, Preflight, Goto,
       Files
<1>4. (Answered /\ Prepared /\ Promised)'
  BY DEF Answered, Prepared, Promised, Describes, Pair, Committed, RolledBackable, Preflight, Goto, Files,
       Quarantined
<1> QED
  BY <1>1, <1>2, <1>3, <1>4 DEF PublicationInv

(* The endpoint is skipped or not selected.                                *)
LEMMA FetchSkipsInv == ASSUME PublicationInv, FetchSkips PROVE PublicationInv'
<1>1. PublicationTypeOK'
  BY DEF PublicationInv, PublicationTypeOK, FetchSkips, Goto, Files, Labels, Run
<1>2. Paired'
  BY DEF PublicationInv, Paired, Pair, Committed, RolledBackable, FetchSkips, Files
<1>3. (Admitted /\ Untouched)'
  BY DEF PublicationInv, Admitted, Untouched, FetchSkips, Goto, Files
<1>4. (Answered /\ Prepared /\ Promised)'
  BY DEF PublicationInv, Answered, Prepared, Promised, Describes, Pair, FetchSkips, Goto, Files, Admitted
<1> QED
  BY <1>1, <1>2, <1>3, <1>4 DEF PublicationInv

(* A refused answer becomes a hole.                                        *)
LEMMA FetchHolesInv == ASSUME PublicationInv, FetchHoles PROVE PublicationInv'
<1>1. PublicationTypeOK'
  BY DEF PublicationInv, PublicationTypeOK, FetchHoles, Goto, Files, Labels, Run
<1>2. Paired'
  BY DEF PublicationInv, Paired, Pair, Committed, RolledBackable, FetchHoles, Files
<1>3. (Admitted /\ Untouched)'
  BY DEF PublicationInv, Admitted, Untouched, FetchHoles, Goto, Files
<1>4. (Answered /\ Prepared /\ Promised)'
  BY DEF PublicationInv, Answered, Prepared, Promised, Committed, RolledBackable, FetchHoles, Goto, Admitted,
       PublicationTypeOK, Run
<1> QED
  BY <1>1, <1>2, <1>3, <1>4 DEF PublicationInv

(* The vendor answers.                                                     *)
LEMMA FetchAnswersInv == ASSUME PublicationInv, NEW b \in Bytes, FetchAnswers(b) PROVE PublicationInv'
<1>1. PublicationTypeOK'
  BY DEF PublicationInv, PublicationTypeOK, FetchAnswers, Goto, Files, Labels, Run
<1>2. Paired'
  BY DEF PublicationInv, Paired, Pair, Committed, RolledBackable, FetchAnswers, Files
<1>4. /\ pc = "fetch" /\ pc' \in {"preserve", "replace"} /\ run' = [run EXCEPT !.got = b]
      /\ UNCHANGED Files
      /\ (pc' = "preserve") = (run.policy # None)
  BY DEF FetchAnswers, Goto
<1>5. /\ run'.got = b /\ run'.end = run.end /\ run'.policy = run.policy
      /\ run'.evidence = None /\ run.policy \in Policies \cup {None}
  BY <1>4 DEF PublicationInv, PublicationTypeOK, Run, Admitted
<1>3. (Admitted /\ Untouched)'
  BY <1>4, <1>5 DEF PublicationInv, Admitted, Untouched, Pair, Committed, RolledBackable, Quarantined, Files
<1>6. /\ manifest # None /\ run.end >= manifest.end /\ b.upTo = run.end /\ Acceptable(b)
  BY DEF FetchAnswers, MayReplace
<1>7. run.policy = None => journal = None /\ ~Quarantined
  BY <1>4, PublicationAssumption
     DEF PublicationInv, PublicationTypeOK, Admitted, Quarantined, Manifest, Evidence, Journal
<1>8. ~b.full => run.policy # None /\ (manifest.quarantine # None \/ raw.full)
  BY <1>4, <1>6, <1>7 DEF PublicationInv, Untouched, Pair, Acceptable, Retains, Quarantined
<1>9. Answered'
  BY <1>4, <1>5, <1>6, <1>8 DEF Answered, Files
<1>10. Prepared'
  BY <1>4, <1>5, <1>6, <1>7, <1>8 DEF Prepared, Describes, Files, Quarantined
<1>11. Promised'
  BY <1>4 DEF Promised
<1> QED
  BY <1>1, <1>2, <1>3, <1>9, <1>10, <1>11 DEF PublicationInv

(* The evidence is prepared and the replaced file preserved.               *)
LEMMA PreserveInv == ASSUME PublicationInv, Preserve PROVE PublicationInv'
<1>1. PublicationTypeOK'
  BY DEF PublicationInv, PublicationTypeOK, Preserve, Goto, Labels, Run, EvidenceFor, PreservedCopies,
       Quarantined, Evidence, Manifest, Answered
<1>2. Paired'
  BY DEF PublicationInv, Paired, Pair, Committed, RolledBackable, Preserve, Files, PreservedCopies
<1>3. (Admitted /\ Untouched)'
  BY DEF PublicationInv, Pair, Admitted, Untouched, Committed, RolledBackable, Quarantined, Preserve, Goto
<1>4. /\ pc = "preserve" /\ pc' = IF NeedsJournal THEN "begin" ELSE "replace"
      /\ kept' = kept \cup PreservedCopies /\ UNCHANGED <<raw, manifest, journal>>
      /\ run'.got = run.got /\ run'.end = run.end /\ run'.policy = run.policy
      /\ run'.evidence = EvidenceFor(run.got)
  BY DEF PublicationInv, PublicationTypeOK, Preserve, Goto, Run
<1>5. Answered'
  BY <1>4 DEF PublicationInv, Answered
<1>6. /\ run.got \in Bytes /\ raw \in Bytes /\ manifest # None /\ Pair(manifest, raw)
      /\ run.policy \in Policies /\ run.end \in Days
      /\ ~run.got.full => manifest.quarantine # None \/ raw.full
  BY <1>4 DEF PublicationInv, PublicationTypeOK, Untouched, Answered, Run
<1>7. ASSUME run.got.full PROVE Prepared'
  <2>1. EvidenceFor(run.got) = None
    BY <1>7 DEF EvidenceFor
  <2>2. Describes(run.evidence, run.got)'
    BY <1>4, <1>7, <2>1 DEF Describes
  <2> QED
    BY <1>4, <1>6, <1>7, <2>1, <2>2 DEF Prepared, NeedsJournal, Quarantined
<1>8. ASSUME ~run.got.full PROVE Prepared'
  <2> DEFINE e == EvidenceFor(run.got)
  <2>1. /\ e.candidate = run.got /\ e.retained = raw
        /\ e.reference = IF Quarantined THEN manifest.quarantine.reference ELSE raw
    BY <1>8 DEF EvidenceFor
  <2>2. {raw} \subseteq kept'
    BY <1>4, <1>8 DEF PreservedCopies
  <2>3. e.reference \in kept' /\ e.reference.full
    BY <1>4, <1>6, <1>8, <2>1, <2>2 DEF Pair, Quarantined
  <2>4. Describes(run.evidence, run.got)'
    <3>1. e \in Evidence
      BY <1>4, <1>6, <1>8 DEF EvidenceFor, Evidence, Quarantined, PublicationInv, PublicationTypeOK,
           Manifest
    <3> QED
      BY <1>4, <2>1, <2>2, <2>3, <3>1, PublicationAssumption DEF Describes
  <2> HIDE DEF e
  <2> QED
    BY <1>4, <1>8, <2>4 DEF Prepared, NeedsJournal
<1>9. Promised'
  BY <1>4 DEF Promised
<1> QED
  BY <1>1, <1>2, <1>3, <1>5, <1>7, <1>8, <1>9 DEF PublicationInv

(* The journal is written before the raw file changes.                     *)
LEMMA BeginInv == ASSUME PublicationInv, Begin PROVE PublicationInv'
<1>1. PublicationTypeOK'
  BY DEF PublicationInv, PublicationTypeOK, Begin, Goto, Labels, Run, Journal, Manifest, Answered
<1>2. /\ pc = "begin" /\ manifest # None /\ manifest \in Manifest /\ Pair(manifest, raw)
      /\ UNCHANGED <<raw, kept, manifest, run>>
  BY DEF PublicationInv, PublicationTypeOK, Untouched, Answered, Begin
<1>3. /\ raw \in kept /\ pc' = "replace"
      /\ journal'.phase = "publishing" /\ journal'.policy = run.policy
      /\ journal'.retained = raw /\ journal'.candidate = run.got
      /\ journal'.before = manifest.stamp /\ journal'.after = None
  BY DEF Begin, Goto
<1>4. manifest.stamp # None
  BY <1>2, PublicationAssumption DEF Manifest
<1>5. RolledBackable'
  BY <1>2, <1>3 DEF RolledBackable
<1>6. Pair(manifest, raw)'
  BY <1>2 DEF Pair
<1>7. Paired'
  BY <1>2, <1>3, <1>4, <1>5, <1>6 DEF Paired
<1>8. (Admitted /\ Untouched /\ Promised)'
  BY <1>2, <1>3 DEF PublicationInv, Admitted, Untouched, Promised, Quarantined
<1>9. Answered'
  BY <1>2, <1>3 DEF PublicationInv, Answered
<1>10. Prepared'
  <2>1. Describes(run.evidence, run.got)'
    BY <1>2 DEF PublicationInv, Prepared, Describes
  <2>2. journal' # None
    <3>1. run.got \in Bytes /\ run.policy \in Policies
      BY <1>2 DEF PublicationInv, PublicationTypeOK, Answered, Run
    <3>2. journal' \in Journal
      BY <1>2, <3>1 DEF PublicationInv, PublicationTypeOK, Begin, Journal, Manifest, Run
    <3> QED
      BY <3>2, PublicationAssumption
  <2> QED
    BY <1>2, <1>3, <1>5, <2>1, <2>2 DEF Prepared
<1> QED
  BY <1>1, <1>7, <1>8, <1>9, <1>10 DEF PublicationInv

(* The raw file is replaced.                                               *)
LEMMA ReplaceInv == ASSUME PublicationInv, Replace PROVE PublicationInv'
<1>1. PublicationTypeOK'
  BY DEF PublicationInv, PublicationTypeOK, Replace, Goto, Files, Labels, Run, Answered
<1>2. Paired'
  BY DEF PublicationInv, Paired, Pair, Committed, RolledBackable, Replace, Answered, Prepared, Describes
<1>3. (Admitted /\ Untouched)'
  BY DEF PublicationInv, Run, Paired, Pair, Admitted, Untouched, Committed, Quarantined, Replace, Goto
<1>4. (Answered /\ Prepared /\ Promised)'
  BY DEF PublicationInv, Answered, Prepared, Promised, Describes, Committed, RolledBackable, Replace, Goto
<1> QED
  BY <1>1, <1>2, <1>3, <1>4 DEF PublicationInv

(* A publication that fails leaves whatever it had got to.                 *)
LEMMA PublishFailsInv == ASSUME PublicationInv, PublishFails PROVE PublicationInv'
<1>1. PublicationTypeOK'
  BY DEF PublicationInv, PublicationTypeOK, PublishFails, Goto, Files, Labels, Run
<1>2. Paired'
  BY DEF PublicationInv, Paired, Pair, Committed, RolledBackable, PublishFails, Files
<1>3. (Admitted /\ Untouched)'
  BY DEF PublicationInv, Admitted, Untouched, PublishFails, Goto, Files
<1>4. (Answered /\ Prepared /\ Promised)'
  BY DEF PublicationInv, Answered, Prepared, Promised, Committed, RolledBackable, PublishFails, Goto,
       Admitted, PublicationTypeOK, Run
<1> QED
  BY <1>1, <1>2, <1>3, <1>4 DEF PublicationInv

(* What is about to be written, and its bytes bound to the journal.        *)
LEMMA PrepareInv == ASSUME PublicationInv, NEW s \in Stamps, Prepare(s) PROVE PublicationInv'
<1>1. /\ pc = "merge" /\ pc' = "write" /\ run' = [run EXCEPT !.next = Merged(s)]
      /\ s \notin InUse /\ Binds(Merged(s))
      /\ UNCHANGED <<raw, kept, torn, manifest, exit>>
      /\ journal' = IF journal = None THEN None ELSE [journal EXCEPT !.after = s]
  BY DEF Prepare, Goto
<1>2. /\ raw \in Bytes /\ manifest \in Manifest \cup {None} /\ journal \in Journal \cup {None}
      /\ run \in Run /\ s \in Stamps
  BY DEF PublicationInv, PublicationTypeOK
<1>3. Merged(s) \in Manifest /\ Merged(s).stamp = s
  <2>1. CASE manifest = None
    BY <2>1, Types DEF Merged, Manifest
  <2>2. CASE manifest # None /\ run.wrote
    <3>1. Max(manifest.end, run.end) \in Days \cup {NoCoverage}
      BY <1>2, <2>2 DEF Max, Manifest, Run
    <3> QED
      BY <1>2, <2>2, <3>1 DEF Merged, Manifest, Run
  <2>3. CASE manifest # None /\ ~run.wrote
    BY <1>2, <2>3 DEF Merged, Manifest, Run
  <2> QED
    BY <2>1, <2>2, <2>3
<1>4. run' \in Run /\ run'.next = Merged(s)
  BY <1>1, <1>2, <1>3 DEF Run
<1>5. /\ journal = None => journal' = None
      /\ journal # None =>
           /\ journal' \in Journal /\ journal'.after = s
           /\ journal'.phase = journal.phase /\ journal'.policy = journal.policy
           /\ journal'.retained = journal.retained /\ journal'.candidate = journal.candidate
           /\ journal'.before = journal.before
  BY <1>1, <1>2 DEF Journal
<1>6. PublicationTypeOK'
  BY <1>1, <1>4, <1>5 DEF PublicationInv, PublicationTypeOK, Labels
<1>7. /\ journal # None => /\ journal.phase = "publishing" /\ run.wrote
                           /\ Merged(s).quarantine = journal.evidence
                           /\ raw = journal.candidate /\ manifest.stamp = journal.before
      /\ journal # None => s # journal.before
  BY <1>1 DEF Binds, InUse
<1>8. run.wrote => /\ manifest # None /\ run.end >= manifest.end /\ raw.upTo = run.end
                  /\ Describes(run.evidence, raw)
  BY <1>1 DEF PublicationInv, Prepared
<1>9. ~run.wrote => journal = None /\ Pair(manifest, raw)
  BY <1>7 DEF PublicationInv, Paired
<1>10. Pair(Merged(s), raw)
  <2>1. CASE manifest = None
    BY <2>1, <1>2, <1>8, <1>9, Types DEF Merged, Pair, Bytes
  <2>2. CASE manifest # None /\ run.wrote
    <3>1. manifest.end \in Days \cup {NoCoverage} /\ run.end \in Days
      BY <1>2, <2>2 DEF Manifest, Run
    <3>2. manifest.end \in Nat /\ run.end \in Nat /\ run.end >= manifest.end
      <4>1. run.end >= manifest.end
        BY <1>8, <2>2
      <4>2. run.end \in Nat
        BY <3>1, Types
      <4>3. manifest.end \in Nat
        BY <3>1, PublicationAssumption DEF Days, NoCoverage
      <4> QED
        BY <4>1, <4>2, <4>3
    <3>3. Max(manifest.end, run.end) = run.end
      BY <3>2 DEF Max
    <3>4. /\ Merged(s).quarantine = run.evidence /\ Merged(s).end = run.end
      BY <2>2, <3>3 DEF Merged
    <3>5. raw.upTo >= run.end
      BY <1>8, <2>2, <3>2
    <3> QED
      BY <1>3, <1>8, <2>2, <3>4, <3>5, PublicationAssumption DEF Pair, Describes
  <2>3. CASE manifest # None /\ ~run.wrote
    <3>1. Merged(s).quarantine = manifest.quarantine /\ Merged(s).end = manifest.end
      BY <1>2, <2>3 DEF Merged, Manifest
    <3>2. Merged(s) # None
      BY <1>3, PublicationAssumption
    <3> QED
      BY <1>9, <2>3, <3>1, <3>2 DEF Pair
  <2> QED
    BY <2>1, <2>2, <2>3
<1>11. Paired'
  <2>1. CASE journal = None
    BY <2>1, <1>1, <1>5 DEF PublicationInv, Paired, Pair
  <2>2. CASE journal # None
    <3>1. RolledBackable /\ Pair(manifest, journal.retained) /\ journal.retained \in kept
      BY <2>2, <1>7 DEF PublicationInv, Paired, Committed
    <3>2. journal' # None /\ journal'.before # journal'.after
      BY <2>2, <1>5, <1>7, PublicationAssumption
    <3>3. RolledBackable' /\ Pair(manifest, journal.retained)'
      BY <2>2, <3>1, <1>1, <1>5 DEF RolledBackable, Pair
    <3> QED
      BY <2>2, <3>1, <3>2, <3>3, <1>1, <1>5 DEF Paired
  <2> QED
    BY <2>1, <2>2
<1>12. Promised'
  BY <1>1, <1>3, <1>4, <1>5, <1>7, <1>10 DEF Promised, Pair
<1>13. (Admitted /\ Untouched /\ Answered /\ Prepared)'
  BY <1>1, <1>2, <1>5 DEF PublicationInv, Admitted, Untouched, Answered, Prepared, Run
<1> QED
  BY <1>6, <1>11, <1>12, <1>13 DEF PublicationInv

(* The manifest is replaced.                                               *)
LEMMA WriteManifestInv == ASSUME PublicationInv, WriteManifest PROVE PublicationInv'
<1>1. /\ pc = "write" /\ pc' = "finish" /\ manifest' = run.next
      /\ UNCHANGED <<raw, kept, torn, journal, run, exit>>
      /\ run.next \in Manifest /\ Pair(run.next, raw)
      /\ journal # None => /\ journal.phase = "publishing" /\ raw = journal.candidate
                           /\ journal.after = run.next.stamp
  BY DEF PublicationInv, Promised, WriteManifest, Goto
<1>2. PublicationTypeOK'
  BY <1>1 DEF PublicationInv, PublicationTypeOK, Labels
<1>3. run.next # None /\ run.next.stamp # None
  BY <1>1, PublicationAssumption DEF Manifest
<1>4. Pair(manifest, raw)'
  BY <1>1 DEF Pair
<1>5. journal # None => Committed'
  BY <1>1, <1>3 DEF Committed
<1>6. Paired'
  BY <1>1, <1>4, <1>5 DEF PublicationInv, Paired
<1>7. (Admitted /\ Untouched /\ Answered /\ Prepared /\ Promised)'
  BY <1>1 DEF PublicationInv, Admitted, Untouched, Answered, Prepared, Promised
<1> QED
  BY <1>2, <1>6, <1>7 DEF PublicationInv

(* The journal is removed, and the run ends.                               *)
LEMMA FinishInv == ASSUME PublicationInv, Finish PROVE PublicationInv'
<1>1. PublicationTypeOK'
  BY PublicationAssumption DEF PublicationInv, PublicationTypeOK, Finish, Stop, NoRun, NewRun, Run, Labels,
       Days
<1>2. Paired'
  BY DEF PublicationInv, Paired, Pair, Committed, RolledBackable, Finish
<1>3. (Admitted /\ Untouched /\ Answered /\ Prepared /\ Promised)'
  BY DEF Admitted, Untouched, Answered, Prepared, Promised, Finish, Stop, NoRun, NewRun
<1> QED
  BY <1>1, <1>2, <1>3 DEF PublicationInv

(* Every step of the program keeps the invariant.                          *)
LEMMA PublicationStep == PublicationInv /\ [PublicationNext]_pubVars => PublicationInv'
<1> SUFFICES ASSUME PublicationInv, [PublicationNext]_pubVars PROVE PublicationInv'
  OBVIOUS
<1>1. CASE UNCHANGED pubVars
  BY <1>1 DEF pubVars, PublicationInv, PublicationTypeOK, Paired, Pair, Committed, RolledBackable, Admitted,
       Quarantined, Untouched, Answered, Prepared, Describes, Promised
<1>2. ASSUME NEW p \in Policies \cup {None}, NEW s \in BOOLEAN, NEW e \in Days, Start(p, s, e)
      PROVE  PublicationInv'
  BY <1>2, StartInv
<1>3. CASE Kill \/ RecoverRefused \/ ResetRefused \/ PreflightRefuses \/ FetchAborts \/ PrepareRefuses
  <2>1. UNCHANGED Published /\ \E code \in {0, 1, 3, None} : Stop(code)
    BY <1>3 DEF Published, Files, Kill, RecoverRefused, ResetRefused, PreflightRefuses, FetchAborts,
         PrepareRefuses
  <2>2. raw \in Bytes /\ torn \in SUBSET Bytes
    BY DEF PublicationInv, PublicationTypeOK
  <2>3. torn' \in SUBSET Bytes
    BY <1>3, <2>2 DEF Files, Kill, RecoverRefused, ResetRefused, PreflightRefuses, FetchAborts,
         PrepareRefuses, PreservedCopies
  <2> QED
    BY <2>1, <2>3, StopInv
<1>4. CASE RecoverNothing \/ RecoverCommitted \/ RecoverArchives \/ RollBack \/ MarkRetry
  BY <1>4, RecoverNothingInv, RecoverCommittedInv, RecoverArchivesInv, RollBackInv, MarkRetryInv
<1>5. CASE ResetManifest \/ Preflight \/ FetchSkips \/ FetchHoles
  BY <1>5, ResetManifestInv, PreflightInv, FetchSkipsInv, FetchHolesInv
<1>6. ASSUME NEW b \in Bytes, FetchAnswers(b) PROVE PublicationInv'
  BY <1>6, FetchAnswersInv
<1>7. CASE Publish
  BY <1>7, PreserveInv, BeginInv, ReplaceInv, PublishFailsInv DEF Publish
<1>8. ASSUME NEW s \in Stamps, Prepare(s) PROVE PublicationInv'
  BY <1>8, PrepareInv
<1>9. CASE WriteManifest \/ Finish
  BY <1>9, WriteManifestInv, FinishInv
<1> QED
  BY <1>1, <1>2, <1>3, <1>4, <1>5, <1>6, <1>7, <1>8, <1>9 DEF PublicationNext, Recover, Commit

(* The invariant holds of every run of the program, killed anywhere.       *)
THEOREM PublicationInvariant == PublicationSpec => []PublicationInv
<1> QED
  BY PublicationInitInv, PublicationStep, PTL DEF PublicationSpec

(* Type correctness (QuarantinePublication!PublicationTypeOK).             *)
THEOREM PublicationTypes == PublicationSpec => []PublicationTypeOK
<1>1. PublicationInv => PublicationTypeOK
  BY DEF PublicationInv
<1> QED
  BY <1>1, PublicationInvariant, PTL

(* With no marker the manifest tells the truth about the raw file, for any *)
(* number of publications killed, rolled back and retried.                 *)
THEOREM PairIsPublished == PublicationSpec => []PublishedPairMatches
<1>1. PublicationInv => PublishedPairMatches
  BY DEF PublicationInv, Paired, Pair, PublishedPairMatches, Verified
<1> QED
  BY <1>1, PublicationInvariant, PTL

(* A complete history survives as long as the raw file lacks keys.         *)
THEOREM HistorySurvives == PublicationSpec => []HistoryIsKept
<1>1. ASSUME PublicationInv, ~raw.full PROVE \E b \in kept : b.full
  <2>1. CASE Pair(manifest, raw)
    BY <1>1, <2>1 DEF Pair
  <2>2. CASE journal # None /\ journal.retained \in kept /\ Pair(manifest, journal.retained)
    BY <2>2 DEF Pair
  <2> QED
    BY <1>1, <2>1, <2>2 DEF PublicationInv, Paired
<1> QED
  BY <1>1, PublicationInvariant, PTL DEF HistoryIsKept

(* A run that ends with exit code 0 leaves nothing pending and nothing     *)
(* quarantined.                                                            *)
THEOREM CleanExit == PublicationSpec => []CleanExitIsClean
<1>1. PublicationInit => CleanExitIsClean
  BY PublicationAssumption DEF PublicationInit, CleanExitIsClean
<1>2. PublicationInv' /\ CleanExitIsClean /\ [PublicationNext]_pubVars => CleanExitIsClean'
  <2> SUFFICES ASSUME PublicationInv', CleanExitIsClean, [PublicationNext]_pubVars,
                      pc' = "idle", exit' = 0
               PROVE  journal' = None /\ raw'.full /\ ~Quarantined'
    BY DEF CleanExitIsClean
  <2>1. CASE UNCHANGED pubVars
    BY <2>1 DEF pubVars, CleanExitIsClean, Quarantined
  <2>2. CASE Finish
    <3>1. journal' = None /\ ~Quarantined'
      BY <2>2 DEF Finish, Stop, Quarantined
    <3> QED
      BY <3>1 DEF PublicationInv, Paired, Pair, Quarantined
  <2>3. CASE PublicationNext /\ ~Finish
    BY <2>3, PublicationAssumption
       DEF PublicationNext, Start, Kill, Recover, RecoverNothing, RecoverRefused, RecoverCommitted,
            RecoverArchives, RollBack, MarkRetry, ResetManifest, ResetRefused, Preflight, PreflightRefuses, FetchSkips, FetchAborts,
            FetchHoles, FetchAnswers, Publish, Preserve, Begin, Replace, PublishFails, Commit, Prepare,
            PrepareRefuses, WriteManifest, Goto, Stop
  <2> QED
    BY <2>1, <2>2, <2>3
<1> QED
  BY <1>1, <1>2, PublicationInvariant, PTL DEF PublicationSpec

(* Only a reset and the commit of a run touch the manifest.                *)
LEMMA ManifestSteps ==
    [PublicationNext]_pubVars => UNCHANGED manifest \/ ResetManifest \/ WriteManifest
BY DEF PublicationNext, pubVars, Files, Start, Kill, Recover, RecoverNothing, RecoverRefused,
     RecoverCommitted, RecoverArchives, RollBack, MarkRetry, ResetRefused, Preflight, PreflightRefuses, FetchSkips,
     FetchAborts, FetchHoles, FetchAnswers, Publish, Preserve, Begin, Replace, PublishFails, Commit, Prepare,
     PrepareRefuses, Finish

(* Only a complete history ends a quarantine.                              *)
THEOREM QuarantineEarned == PublicationSpec => QuarantineIsEarned
<1>1. PublicationInv /\ [PublicationNext]_pubVars =>
        [Quarantined /\ ~Quarantined' => raw'.full]_pubVars
  <2> SUFFICES ASSUME PublicationInv, [PublicationNext]_pubVars, Quarantined, ~Quarantined'
               PROVE  raw'.full
    OBVIOUS
  <2>1. CASE WriteManifest
    BY <2>1, PublicationAssumption DEF PublicationInv, Promised, Pair, WriteManifest, Quarantined
  <2>2. ~ResetManifest
    BY DEF ResetManifest, MayReset, Quarantined
  <2>3. ~UNCHANGED manifest
    BY DEF Quarantined
  <2> QED
    BY <2>1, <2>2, <2>3, ManifestSteps
<1> QED
  BY <1>1, PublicationInvariant, PTL DEF PublicationSpec, QuarantineIsEarned
---------------------------------------------------------------------------
(***************************************************************************)
(* The refinement.  What a pending publication will change is fixed when   *)
(* its journal is begun: a history that reaches as far, and evidence that  *)
(* leads back from it to the complete one.                                 *)
(***************************************************************************)
Extends(e, b) ==
    /\ e.retained = b
    /\ IF Quarantined
       THEN e.reference = manifest.quarantine.reference /\ e.policy = manifest.quarantine.policy
       ELSE e.reference = b

(* The answer of this run.                                                 *)
Offered ==
    /\ pc \in {"preserve", "begin", "replace"} => run.got.upTo >= raw.upTo
    /\ pc = "begin" /\ run.evidence # None => Extends(run.evidence, raw)
    /\ pc = "merge" /\ run.wrote /\ journal = None => run.evidence = None /\ ~Quarantined

(* The publication that is pending.                                        *)
Pending ==
    journal # None /\ ~Committed =>
        /\ journal.candidate.upTo >= journal.retained.upTo
        /\ journal.candidate.upTo = journal.end
        /\ journal.evidence # None => Extends(journal.evidence, journal.retained)

(* The manifest about to be written.                                       *)
Drafted ==
    pc = "write" =>
        /\ journal # None => /\ manifest # None /\ ~Committed
                             /\ run.next.quarantine = journal.evidence
                             /\ run.next.end = journal.end
        /\ journal = None /\ manifest # None =>
             run.next.quarantine = manifest.quarantine /\ run.next.end >= manifest.end
        /\ manifest = None => run.next.quarantine = None /\ run.next.end = 0

Lineage == Offered /\ Pending /\ Drafted

(* A step that leaves the pair alone, and goes elsewhere than on to the   *)
(* publication, keeps it.                                                  *)
LEMMA QuietLineage ==
    ASSUME PublicationInv, Lineage, UNCHANGED Published,
           pc' \notin {"preserve", "begin", "replace", "write"}, pc' = "merge" => ~run'.wrote
    PROVE  Lineage'
BY DEF Lineage, Offered, Pending, Drafted, Published, Committed, Extends, Quarantined

(* Every step of the recovery keeps it: the journal stays what it is.      *)
LEMMA RecoverLineage ==
    ASSUME PublicationInv, Lineage, RecoverCommitted \/ RecoverArchives \/ RollBack \/ MarkRetry
    PROVE  Lineage'
<1>1. pc' \in {"preflight", "rollback", "mark_retry"} /\ UNCHANGED manifest
  BY DEF RecoverCommitted, RecoverArchives, RollBack, MarkRetry, Goto
<1>2. Offered' /\ Drafted'
  BY <1>1 DEF Offered, Drafted
<1>3. Pending'
  <2>1. CASE RecoverCommitted
    BY <2>1 DEF RecoverCommitted, Pending
  <2>2. CASE RecoverArchives
    BY <2>2 DEF RecoverArchives, Lineage, Pending, Committed, Extends, Quarantined
  <2>3. CASE RollBack
    BY <2>3 DEF PublicationInv, Admitted, RollBack, Lineage, Pending, Extends, Quarantined
  <2>4. CASE MarkRetry
    <3>1. journal # None /\ ~Committed
      BY <2>4 DEF PublicationInv, Admitted, MarkRetry, AlreadyRetained
    <3>2. /\ journal'.candidate = journal.candidate /\ journal'.retained = journal.retained
          /\ journal'.evidence = journal.evidence /\ journal'.end = journal.end
      BY <2>4, <3>1 DEF PublicationInv, PublicationTypeOK, Journal, MarkRetry
    <3> QED
      BY <1>1, <3>1, <3>2 DEF Lineage, Pending, Extends, Quarantined
  <2> QED
    BY <2>1, <2>2, <2>3, <2>4
<1> QED
  BY <1>2, <1>3 DEF Lineage

(* An accepted answer reaches as far as the file it would replace.         *)
LEMMA AnswerLineage ==
    ASSUME PublicationInv, Lineage, NEW b \in Bytes, FetchAnswers(b)
    PROVE  Lineage'
<1>1. /\ pc = "fetch" /\ pc' \in {"preserve", "replace"} /\ run' = [run EXCEPT !.got = b]
      /\ UNCHANGED Files /\ Acceptable(b)
  BY DEF FetchAnswers, Goto
<1>2. run'.got = b
  BY <1>1 DEF PublicationInv, PublicationTypeOK, Run
<1>3. b.upTo >= raw.upTo
  BY <1>1 DEF Acceptable, Retains
<1> QED
  BY <1>1, <1>2, <1>3 DEF Lineage, Offered, Pending, Drafted, Files, Committed, Extends, Quarantined

(* Preparing the evidence.                                                 *)
LEMMA PreserveLineage ==
    ASSUME PublicationInv, Lineage, Preserve
    PROVE  Lineage'
<1>1. /\ pc = "preserve" /\ pc' \in {"begin", "replace"} /\ UNCHANGED <<raw, manifest, journal>>
      /\ run'.got = run.got /\ run'.evidence = EvidenceFor(run.got)
  BY DEF PublicationInv, PublicationTypeOK, Preserve, Goto, Run
<1>2. run.policy # None /\ (Quarantined => manifest.quarantine.policy = run.policy)
  BY <1>1 DEF PublicationInv, Answered, Admitted
<1>3. EvidenceFor(run.got) # None => Extends(EvidenceFor(run.got), raw)
  BY <1>2 DEF EvidenceFor, Extends
<1>4. run'.evidence # None => Extends(run.evidence, raw)'
  BY <1>1, <1>3 DEF Extends, Quarantined
<1> QED
  BY <1>1, <1>4 DEF Lineage, Offered, Pending, Drafted, Committed, Extends, Quarantined

(* The journal is begun.                                                   *)
LEMMA BeginLineage ==
    ASSUME PublicationInv, Lineage, Begin
    PROVE  Lineage'
<1>1. /\ pc = "begin" /\ pc' = "replace" /\ UNCHANGED <<raw, manifest, run>>
      /\ journal'.candidate = run.got /\ journal'.retained = raw
      /\ journal'.evidence = run.evidence /\ journal'.end = run.end
  BY DEF Begin, Goto
<1>2. run.got.upTo = run.end
  BY <1>1 DEF PublicationInv, Answered
<1> QED
  BY <1>1, <1>2 DEF Lineage, Offered, Pending, Drafted, Extends, Quarantined

(* The file is replaced.                                                   *)
LEMMA ReplaceLineage ==
    ASSUME PublicationInv, Lineage, Replace
    PROVE  Lineage'
<1>1. /\ pc = "replace" /\ pc' = "merge" /\ UNCHANGED <<manifest, journal>>
      /\ run'.evidence = run.evidence
  BY DEF PublicationInv, PublicationTypeOK, Run, Replace, Goto
<1>2. journal = None => run.evidence = None /\ ~Quarantined
  BY <1>1 DEF PublicationInv, Prepared, Quarantined
<1>3. journal # None => ~Committed
  BY <1>1 DEF PublicationInv, Prepared, Paired, Committed, RolledBackable
<1> QED
  BY <1>1, <1>2, <1>3 DEF Lineage, Offered, Pending, Drafted, Extends, Quarantined

(* The draft is what the journal promised, or the claim there is.          *)
LEMMA PrepareLineage ==
    ASSUME PublicationInv, PublicationInv', Lineage, NEW s \in Stamps, Prepare(s)
    PROVE  Lineage'
<1>1. /\ pc = "merge" /\ pc' = "write" /\ UNCHANGED <<raw, manifest>>
      /\ run' = [run EXCEPT !.next = Merged(s)] /\ Binds(Merged(s)) /\ s \notin InUse
      /\ journal' = IF journal = None THEN None ELSE [journal EXCEPT !.after = s]
  BY DEF Prepare, Goto
<1>2. run'.next = Merged(s)
  BY <1>1 DEF PublicationInv, PublicationTypeOK, Run
<1>3. /\ journal' = None <=> journal = None
      /\ journal # None =>
           /\ journal'.candidate = journal.candidate /\ journal'.retained = journal.retained
           /\ journal'.evidence = journal.evidence /\ journal'.end = journal.end
           /\ journal'.before = journal.before /\ journal'.after = s
  <2>1. CASE journal = None
    BY <1>1, <2>1
  <2>2. CASE journal # None
    <3>1. journal \in Journal
      BY <2>2 DEF PublicationInv, PublicationTypeOK
    <3>2. [journal EXCEPT !.after = s] \in Journal
      BY <3>1 DEF Journal
    <3> QED
      BY <1>1, <2>2, <3>1, <3>2, PublicationAssumption DEF Journal
  <2> QED
    BY <2>1, <2>2
<1>4. journal # None =>
        /\ manifest # None /\ ~Committed /\ manifest.stamp = journal.before
        /\ Merged(s).quarantine = journal.evidence /\ Merged(s).end = journal.end
  <2> SUFFICES ASSUME journal # None
               PROVE  /\ manifest # None /\ ~Committed /\ manifest.stamp = journal.before
                      /\ Merged(s).quarantine = journal.evidence /\ Merged(s).end = journal.end
    OBVIOUS
  <2>1. /\ run.wrote /\ manifest.stamp = journal.before
        /\ Merged(s).quarantine = journal.evidence /\ Merged(s).end = journal.end
    BY <1>1 DEF Binds
  <2>2. manifest # None
    BY <1>1, <2>1 DEF PublicationInv, Prepared
  <2>3. ~Committed
    BY <2>1 DEF PublicationInv, Paired, Committed
  <2> QED
    BY <2>1, <2>2, <2>3
<1>5. journal # None => ~Committed'
  BY <1>1, <1>3, <1>4 DEF Committed, InUse
<1>6. ASSUME journal = None, manifest # None
      PROVE  Merged(s).quarantine = manifest.quarantine /\ Merged(s).end >= manifest.end
  <2>0. manifest \in Manifest /\ manifest.end \in Nat
    <3>1. manifest \in Manifest
      BY <1>6 DEF PublicationInv, PublicationTypeOK
    <3>2. manifest.end \in Days \cup {NoCoverage}
      BY <3>1 DEF Manifest
    <3> QED
      BY <3>1, <3>2, PublicationAssumption DEF Days, NoCoverage
  <2>1. CASE run.wrote
    <3>1. /\ Merged(s).quarantine = run.evidence /\ Merged(s).end = Max(manifest.end, run.end)
          /\ run.evidence = None /\ manifest.quarantine = None
      BY <1>1, <1>6, <2>1 DEF Merged, Lineage, Offered, Quarantined
    <3>2. run.end \in Nat
      BY Types DEF PublicationInv, PublicationTypeOK, Run
    <3>3. Max(manifest.end, run.end) >= manifest.end
      BY <2>0, <3>2 DEF Max
    <3> QED
      BY <3>1, <3>3
  <2>2. CASE ~run.wrote
    <3>1. Merged(s).quarantine = manifest.quarantine /\ Merged(s).end = manifest.end
      BY <1>6, <2>0, <2>2 DEF Merged, Manifest
    <3> QED
      BY <2>0, <3>1
  <2> QED
    BY <2>1, <2>2
<1>7. manifest = None => Merged(s).quarantine = None /\ Merged(s).end = 0
  BY DEF Merged, NoCoverage
<1>8. Drafted'
  BY <1>1, <1>2, <1>3, <1>4, <1>5, <1>6, <1>7 DEF Drafted
<1>9. Pending'
  BY <1>1, <1>3, <1>4 DEF Lineage, Pending, Extends, Quarantined
<1> QED
  BY <1>1, <1>8, <1>9 DEF Lineage, Offered

(* Once the manifest is written, nothing is open any more.                 *)
LEMMA ClosingLineage ==
    ASSUME PublicationInv, Lineage, WriteManifest \/ Finish \/ ResetManifest
    PROVE  Lineage'
<1>1. pc' \in {"finish", "idle", "preflight"} /\ UNCHANGED raw
  BY DEF WriteManifest, Finish, ResetManifest, Goto, Stop
<1>2. journal' # None => Committed'
  BY PublicationAssumption
     DEF PublicationInv, Promised, Manifest, WriteManifest, Finish, ResetManifest, MayReset, Committed
<1> QED
  BY <1>1, <1>2 DEF Lineage, Offered, Pending, Drafted

(* The steps that leave the pair alone, except the answer.                 *)
Quiet ==
    \/ \E p \in Policies \cup {None}, s \in BOOLEAN, e \in Days : Start(p, s, e)
    \/ Kill \/ RecoverNothing \/ RecoverRefused \/ ResetRefused \/ Preflight \/ PreflightRefuses
    \/ FetchSkips \/ FetchAborts \/ FetchHoles \/ PublishFails \/ PrepareRefuses

(* What they are.                                                          *)
LEMMA QuietSteps ==
    ASSUME PublicationInv, Quiet
    PROVE  /\ UNCHANGED Published
           /\ pc' \notin {"preserve", "begin", "replace", "write"}
           /\ pc' = "merge" => ~run'.wrote
<1>1. UNCHANGED Published
  BY DEF Published, Files, Quiet, Start, Kill, RecoverNothing, RecoverRefused, ResetRefused, Preflight,
     PreflightRefuses, FetchSkips, FetchAborts, FetchHoles, PublishFails, PrepareRefuses
<1>2. pc' \notin {"preserve", "begin", "replace", "write"}
  BY DEF Quiet, Start, Kill, RecoverNothing, RecoverRefused, ResetRefused, Preflight,
     PreflightRefuses, FetchSkips, FetchAborts, FetchHoles, PublishFails, PrepareRefuses, Goto, Stop
<1>3. pc' = "merge" => FetchSkips \/ FetchHoles \/ PublishFails
  BY DEF Quiet, Start, Kill, RecoverNothing, RecoverRefused, ResetRefused, Preflight,
     PreflightRefuses, FetchAborts, PrepareRefuses, Goto, Stop
<1>4. FetchSkips \/ FetchHoles \/ PublishFails => run'.wrote = run.wrote /\ ~run.wrote
  BY DEF PublicationInv, PublicationTypeOK, Admitted, Run, FetchSkips, FetchHoles, PublishFails
<1> QED
  BY <1>1, <1>2, <1>3, <1>4

(* Every step is one of these.                                             *)
LEMMA StepKinds ==
    ASSUME [PublicationNext]_pubVars
    PROVE  \/ UNCHANGED pubVars \/ Quiet
           \/ RecoverCommitted \/ RecoverArchives \/ RollBack \/ MarkRetry
           \/ \E b \in Bytes : FetchAnswers(b)
           \/ Preserve \/ Begin \/ Replace
           \/ \E s \in Stamps : Prepare(s)
           \/ WriteManifest \/ Finish \/ ResetManifest
BY DEF PublicationNext, Quiet, Recover, Publish, Commit

(* So it is inductive, relative to the invariant.                          *)
LEMMA LineageStep ==
    ASSUME PublicationInv, PublicationInv', Lineage, [PublicationNext]_pubVars
    PROVE  Lineage'
<1>1. CASE UNCHANGED pubVars
  BY <1>1 DEF pubVars, Lineage, Offered, Pending, Drafted, Committed, Extends, Quarantined
<1>2. CASE Quiet
  BY <1>2, QuietSteps, QuietLineage
<1> QED
  BY <1>1, <1>2, StepKinds, RecoverLineage, AnswerLineage, PreserveLineage, BeginLineage,
     ReplaceLineage, PrepareLineage, ClosingLineage

(* From the first state on.                                                *)
THEOREM LineageInvariant == PublicationSpec => [](PublicationInv /\ Lineage)
<1>1. PublicationInit => PublicationInv /\ Lineage
  BY PublicationInitInv DEF PublicationInit, Lineage, Offered, Pending, Drafted
<1>2. (PublicationInv /\ Lineage) /\ [PublicationNext]_pubVars => (PublicationInv /\ Lineage)'
  BY PublicationStep, LineageStep
<1> QED
  BY <1>1, <1>2, PTL DEF PublicationSpec

(***************************************************************************)
(* What the unfinished copies can bar.  The raw file of a publication that *)
(* is pending was preserved before; whatever copy was left unfinished is   *)
(* of a shorter history, and no later file is one again.                   *)
(***************************************************************************)
Unfinished ==
    /\ torn \cap kept = {}
    /\ journal = None => \A b \in torn : b = raw \/ b.upTo < raw.upTo
    /\ journal # None =>
         /\ journal.candidate.upTo >= journal.retained.upTo
         /\ \A b \in torn : b.upTo < journal.retained.upTo
         /\ pc \in {"preflight", "fetch", "preserve", "begin"} => raw = journal.retained

(* All days are numbers.                                                   *)
LEMMA Reach ==
    ASSUME PublicationTypeOK
    PROVE  /\ raw.upTo \in Nat /\ \A b \in torn : b.upTo \in Nat
           /\ journal # None => journal.candidate.upTo \in Nat /\ journal.retained.upTo \in Nat
BY Types DEF PublicationTypeOK, Bytes, Journal

(* A killed copy leaves nothing that was preserved before.                 *)
LEMMA KillUnfinished ==
    ASSUME PublicationInv, Unfinished, Kill
    PROVE  Unfinished'
<1>1. pc' = "idle" /\ UNCHANGED <<raw, kept, manifest, journal>>
  BY DEF Kill, Stop
<1>2. \A b \in torn' : b \in torn \/ (pc = "preserve" /\ b = raw /\ b \notin kept)
  BY DEF Kill, PreservedCopies
<1>3. pc = "preserve" /\ journal # None => raw \in kept
  BY DEF PublicationInv, Paired, Unfinished
<1> QED
  BY <1>1, <1>2, <1>3 DEF Unfinished

(* The recovery.                                                           *)
LEMMA RecoverUnfinished ==
    ASSUME PublicationInv, Unfinished, RecoverCommitted \/ RecoverArchives \/ RollBack \/ MarkRetry
    PROVE  Unfinished'
<1>1. CASE RecoverCommitted
  <2>1. journal # None /\ raw = journal.candidate /\ journal' = None /\ UNCHANGED <<raw, kept, torn>>
    BY <1>1 DEF RecoverCommitted, Committed
  <2> QED
    BY <2>1, Reach DEF PublicationInv, Unfinished
<1>2. CASE RecoverArchives
  BY <1>2 DEF RecoverArchives, Archivable, Unfinished, Goto
<1>3. CASE RollBack
  BY <1>3 DEF RollBack, PublicationInv, Admitted, Unfinished, Goto
<1>4. CASE MarkRetry
  <2>1. journal # None /\ raw = journal.retained /\ UNCHANGED <<raw, kept, torn>>
    BY <1>4 DEF PublicationInv, Admitted, MarkRetry, AlreadyRetained
  <2>2. journal'.candidate = journal.candidate /\ journal'.retained = journal.retained
    BY <1>4, <2>1 DEF PublicationInv, PublicationTypeOK, Journal, MarkRetry
  <2> QED
    BY <2>1, <2>2 DEF Unfinished
<1> QED
  BY <1>1, <1>2, <1>3, <1>4

(* The publication.                                                        *)
LEMMA PublishUnfinished ==
    ASSUME PublicationInv, Lineage, Unfinished, Preserve \/ Begin \/ Replace
    PROVE  Unfinished'
<1>1. CASE Preserve
  BY <1>1 DEF Preserve, Unfinished, Goto
<1>2. CASE Begin
  <2>1. /\ pc = "begin" /\ raw \in kept /\ UNCHANGED <<raw, kept, torn>>
        /\ journal'.retained = raw /\ journal'.candidate = run.got
        /\ run.got.upTo >= raw.upTo
    BY <1>2 DEF Begin, Lineage, Offered
  <2>2. \A b \in torn : b.upTo < raw.upTo
    BY <2>1 DEF Unfinished
  <2>3. journal' # None => journal'.candidate.upTo >= journal'.retained.upTo
    BY <2>1
  <2>4. pc' = "replace"
    BY <1>2 DEF Begin, Goto
  <2> QED
    BY <2>1, <2>2, <2>3, <2>4 DEF Unfinished
<1>3. CASE Replace
  <2>1. pc = "replace" /\ raw' = run.got /\ pc' = "merge" /\ UNCHANGED <<kept, torn, journal>>
    BY <1>3 DEF Replace, Goto
  <2>2. CASE journal # None
    BY <2>1, <2>2 DEF Unfinished
  <2>3. CASE journal = None
    <3>1. /\ run.got \in Bytes /\ run.got.full /\ run.got.upTo >= raw.upTo
          /\ raw \in Bytes /\ raw.full
      BY <2>1, <2>3 DEF PublicationInv, PublicationTypeOK, Paired, Pair, Answered, Prepared, Describes,
           Lineage, Offered
    <3>2. run.got.upTo \in Nat /\ raw.upTo \in Nat /\ \A b \in torn : b.upTo \in Nat
      BY <3>1, Types, Reach DEF PublicationInv, Bytes
    <3>3. run.got.upTo = raw.upTo => run.got = raw
      BY <3>1 DEF Bytes
    <3> QED
      BY <2>1, <2>3, <3>2, <3>1, <3>3 DEF Unfinished
  <2> QED
    BY <2>2, <2>3
<1> QED
  BY <1>1, <1>2, <1>3

(* The commit.                                                             *)
LEMMA CommitUnfinished ==
    ASSUME PublicationInv, Unfinished,
           (\E s \in Stamps : Prepare(s)) \/ WriteManifest \/ Finish \/ ResetManifest
    PROVE  Unfinished'
<1>1. ASSUME NEW s \in Stamps, Prepare(s) PROVE Unfinished'
  <2>1. /\ pc' = "write" /\ UNCHANGED <<raw, kept, torn>>
        /\ journal' = IF journal = None THEN None ELSE [journal EXCEPT !.after = s]
    BY <1>1 DEF Prepare, Goto
  <2>2. journal # None =>
          journal'.candidate = journal.candidate /\ journal'.retained = journal.retained
    BY <2>1 DEF PublicationInv, PublicationTypeOK, Journal
  <2>3. journal # None => journal' # None
    <3>1. journal # None => journal' \in Journal
      BY <2>1 DEF PublicationInv, PublicationTypeOK, Journal
    <3> QED
      BY <3>1, PublicationAssumption
  <2> QED
    BY <2>1, <2>2, <2>3 DEF Unfinished
<1>2. CASE WriteManifest
  BY <1>2 DEF WriteManifest, Unfinished, Goto
<1>3. CASE Finish
  <2>1. /\ journal' = None /\ UNCHANGED <<raw, kept, torn>>
        /\ journal # None => raw = journal.candidate
    BY <1>3 DEF Finish
  <2> QED
    BY <2>1, Reach DEF PublicationInv, Unfinished
<1>4. CASE ResetManifest
  BY <1>4 DEF ResetManifest, MayReset, Unfinished
<1> QED
  BY <1>1, <1>2, <1>3, <1>4

(* The other steps leave all files alone; none of them goes back before    *)
(* the publication, but for those of a run with nothing to recover.        *)
LEMMA QuietUnfinished ==
    ASSUME PublicationInv, Unfinished, Quiet, ~Kill
    PROVE  Unfinished'
<1>1. UNCHANGED Files
  BY DEF Quiet, Start, RecoverNothing, RecoverRefused, ResetRefused, Preflight,
     PreflightRefuses, FetchSkips, FetchAborts, FetchHoles, PublishFails, PrepareRefuses
<1>2. pc' \in {"preflight", "fetch", "preserve", "begin"} /\ journal # None => pc = "preflight"
  BY DEF Quiet, Start, RecoverNothing, RecoverRefused, ResetRefused, Preflight, PreflightRefuses,
     FetchSkips, FetchAborts, FetchHoles, PublishFails, PrepareRefuses, Goto, Stop
<1> QED
  BY <1>1, <1>2 DEF Unfinished, Files

(* So it is inductive.                                                     *)
LEMMA UnfinishedStep ==
    ASSUME PublicationInv, Lineage, Unfinished, [PublicationNext]_pubVars
    PROVE  Unfinished'
<1>1. CASE UNCHANGED pubVars
  BY <1>1 DEF pubVars, Unfinished
<1>2. ASSUME NEW b \in Bytes, FetchAnswers(b) PROVE Unfinished'
  <2>1. pc = "fetch" /\ UNCHANGED Files
    BY <1>2 DEF FetchAnswers
  <2> QED
    BY <2>1 DEF Unfinished, Files
<1> QED
  BY <1>1, <1>2, StepKinds, KillUnfinished, RecoverUnfinished, PublishUnfinished,
     CommitUnfinished, QuietUnfinished

(* A pending publication can always be recovered (recover_quarantine_      *)
(* publication raises on unknown bytes, and on a copy that is not what it  *)
(* is named).                                                              *)
THEOREM RecoveryIsPossible == PublicationSpec => []RecoveryKnowsTheBytes
<1>1. PublicationInit => Unfinished
  BY DEF PublicationInit, Unfinished
<1>2. (PublicationInv /\ Lineage) /\ Unfinished /\ [PublicationNext]_pubVars => Unfinished'
  BY UnfinishedStep
<1>3. PublicationInv /\ Unfinished => RecoveryKnowsTheBytes
  <2> SUFFICES ASSUME PublicationInv, Unfinished, journal # None PROVE Recoverable
    BY DEF RecoveryKnowsTheBytes
  <2>1. Recognised
    BY DEF PublicationInv, Paired, Recognised
  <2>2. raw = journal.candidate => raw \notin torn
    BY Reach DEF PublicationInv, Unfinished
  <2> QED
    BY <2>1, <2>2 DEF Recoverable, Recognised, RolledBackable, Archivable
<1> QED
  BY <1>1, <1>2, <1>3, LineageInvariant, PTL DEF PublicationSpec

(* What the abstract claim says of a manifest.                             *)
LEMMA ClaimOf ==
    ASSUME NEW m \in Manifest
    PROVE  /\ Claimed(m) # None
           /\ Claimed(m).quarantine = m.quarantine /\ Claimed(m).end = m.end
           /\ Claimed(m) \in Atomic!Claims
           /\ Atomic!Waives(Claimed(m)) <=> m.quarantine # None
<1>1. m # None /\ m.quarantine \in Evidence \cup {None} /\ m.end \in 0..MaxDay
  BY PublicationAssumption DEF Manifest, Days, NoCoverage
<1>2. Claimed(m) = [quarantine |-> m.quarantine, end |-> m.end]
  BY <1>1 DEF Claimed
<1>3. Claimed(m) \in Atomic!Claims
  BY <1>1, <1>2 DEF Atomic!Claims, Atomic!Evidence, Atomic!Bytes, Atomic!Days, Evidence, Bytes, Days
<1>4. Claimed(m) # None
  BY <1>3, ClaimAssumption
<1> QED
  BY <1>2, <1>3, <1>4 DEF Atomic!Waives

(* An honest pair is one the abstract specification calls true.            *)
LEMMA PairIsTrue ==
    ASSUME NEW m \in Manifest \cup {None}, NEW b \in Bytes, Pair(m, b)
    PROVE  Atomic!TrueOf(Claimed(m), b)
<1>1. CASE m = None
  BY <1>1 DEF Pair, Claimed, Atomic!TrueOf, Atomic!Waives
<1>2. CASE m # None
  BY <1>2, ClaimOf DEF Pair, Atomic!TrueOf
<1> QED
  BY <1>1, <1>2

(* The first pair.                                                         *)
LEMMA InitIsPublished == PublicationInit => Atomic!HistoryInit
<1> SUFFICES ASSUME PublicationInit PROVE Atomic!HistoryInit
  OBVIOUS
<1>1. PublishedBytes = raw /\ raw.full /\ raw \in Bytes
  BY DEF PublicationInit, PublishedBytes, Settled
<1>2. manifest \in Manifest /\ manifest.quarantine = None /\ manifest.end = raw.upTo
  BY <1>1 DEF PublicationInit, Manifest, Bytes
<1>3. Claimed(manifest) = [quarantine |-> None, end |-> raw.upTo]
  BY <1>2, PublicationAssumption DEF Claimed
<1> QED
  BY <1>1, <1>3 DEF Atomic!HistoryInit, Atomic!Bytes, Atomic!Days, Bytes, Days

SameView == PublishedBytes' = PublishedBytes /\ Claimed(manifest)' = Claimed(manifest)

(* A reader sees nothing of a step that leaves the files alone, of the     *)
(* recovery, or of a publication between its first step and its commit.    *)
LEMMA UnseenSteps ==
    ASSUME PublicationInv, PublicationInv', Lineage,
           \/ UNCHANGED Published
           \/ RecoverCommitted \/ RecoverArchives \/ RollBack \/ MarkRetry
           \/ Preserve \/ Begin \/ Finish
           \/ Replace /\ journal # None
           \/ \E s \in Stamps : Prepare(s)
    PROVE  SameView
<1>1. CASE UNCHANGED Published
  BY <1>1 DEF Published, SameView, PublishedBytes, Settled, Committed, Claimed
<1>2. CASE RecoverCommitted
  BY <1>2 DEF RecoverCommitted, SameView, PublishedBytes, Settled, Claimed
<1>3. CASE RecoverArchives \/ Preserve
  BY <1>3 DEF RecoverArchives, Preserve, SameView, PublishedBytes, Settled, Committed, Claimed
<1>4. CASE RollBack
  <2>1. journal # None /\ ~Committed /\ RolledBackable /\ journal.before # journal.after
    BY <1>4 DEF PublicationInv, Admitted, Paired, RollBack
  <2> QED
    BY <1>4, <2>1 DEF RollBack, SameView, PublishedBytes, Settled, Committed, RolledBackable, Claimed
<1>5. CASE MarkRetry
  <2>1. journal # None /\ ~Committed
    BY <1>5 DEF PublicationInv, Admitted, MarkRetry, AlreadyRetained
  <2>2. /\ journal' = [journal EXCEPT !.phase = "retry_required"] /\ journal \in Journal
        /\ UNCHANGED <<raw, manifest>>
    BY <1>5, <2>1 DEF PublicationInv, PublicationTypeOK, MarkRetry
  <2>3. journal'.retained = journal.retained /\ journal'.phase = "retry_required"
    BY <2>2 DEF Journal
  <2>4. journal' # None
    <3>1. journal' \in Journal
      BY <2>2 DEF Journal
    <3> QED
      BY <3>1, PublicationAssumption
  <2> QED
    BY <2>1, <2>2, <2>3, <2>4 DEF SameView, PublishedBytes, Settled, Committed, Claimed
<1>6. CASE Begin
  <2>1. PublishedBytes = raw
    BY <1>6 DEF Begin, RetryReady, PublishedBytes, Settled
  <2>2. journal'.retained = raw /\ journal'.after = None /\ UNCHANGED <<raw, manifest>>
    BY <1>6 DEF Begin
  <2> QED
    BY <2>1, <2>2 DEF SameView, PublishedBytes, Settled, Committed, Claimed
<1>7. CASE Finish
  <2>1. journal # None => Committed
    BY <1>7, PublicationAssumption
       DEF PublicationInv, Paired, RolledBackable, Finish, Committed
  <2> QED
    BY <1>7, <2>1 DEF Finish, SameView, PublishedBytes, Settled, Claimed
<1>8. CASE Replace /\ journal # None
  <2>1. RolledBackable /\ journal.before # journal.after /\ UNCHANGED <<manifest, journal>>
    BY <1>8 DEF PublicationInv, Prepared, Paired, Replace
  <2> QED
    BY <1>8, <2>1 DEF SameView, PublishedBytes, Settled, Committed, RolledBackable, Claimed
<1>9. ASSUME NEW s \in Stamps, Prepare(s) PROVE SameView
  <2>1. /\ UNCHANGED <<raw, manifest>> /\ Binds(Merged(s)) /\ s \notin InUse
        /\ journal' = IF journal = None THEN None ELSE [journal EXCEPT !.after = s]
    BY <1>9 DEF Prepare
  <2>2. CASE journal = None
    BY <2>1, <2>2 DEF SameView, PublishedBytes, Settled, Claimed
  <2>3. CASE journal # None
    <3>1. journal \in Journal /\ manifest.stamp = journal.before /\ s # journal.before
      BY <2>1, <2>3 DEF PublicationInv, PublicationTypeOK, Binds, InUse
    <3>2. /\ journal'.before = journal.before /\ journal'.after = s
          /\ journal'.retained = journal.retained
      BY <2>1, <2>3, <3>1 DEF Journal
    <3>3. journal' \in Journal
      BY <1>9, <2>1, <2>3, <3>1 DEF Journal
    <3>4. journal' # None
      BY <3>3, PublicationAssumption
    <3>5. ~Committed /\ ~Committed'
      BY <2>1, <2>3, <3>1, <3>2 DEF Committed, PublicationInv, Paired
    <3> QED
      BY <2>1, <2>3, <3>2, <3>4, <3>5 DEF SameView, PublishedBytes, Settled, Claimed
  <2> QED
    BY <2>2, <2>3
<1> QED
  BY <1>1, <1>2, <1>3, <1>4, <1>5, <1>6, <1>7, <1>8, <1>9

(* Without a journal, a complete file replaces a complete one.             *)
LEMMA ReplaceIsRefresh ==
    ASSUME PublicationInv, PublicationInv', Lineage, Replace, journal = None
    PROVE  Atomic!Refresh
<1>1. /\ pc = "replace" /\ raw' = run.got /\ UNCHANGED <<manifest, journal>>
  BY DEF Replace
<1>2. /\ manifest # None /\ manifest.quarantine = None
      /\ run.got \in Bytes /\ run.got.full /\ run.got.upTo >= raw.upTo
  BY <1>1 DEF PublicationInv, Answered, Prepared, Describes, Lineage, Offered
<1>3. manifest \in Manifest
  BY <1>2 DEF PublicationInv, PublicationTypeOK
<1>4. PublishedBytes = raw /\ PublishedBytes' = run.got
  BY <1>1 DEF PublishedBytes, Settled
<1>5. Claimed(manifest)' = Claimed(manifest)
  BY <1>1 DEF Claimed
<1> QED
  BY <1>2, <1>3, <1>4, <1>5, ClaimOf DEF Atomic!Refresh, Atomic!Bytes, Atomic!Days, Bytes, Days

(* With one, the write of the manifest exchanges the pair.                 *)
LEMMA CommitIsExchange ==
    ASSUME PublicationInv, PublicationInv', Lineage, WriteManifest, journal # None
    PROVE  Atomic!Exchange
<1>1. /\ pc = "write" /\ manifest' = run.next /\ UNCHANGED <<raw, journal>>
      /\ run.next \in Manifest /\ Pair(run.next, raw)
      /\ journal.phase = "publishing" /\ raw = journal.candidate
      /\ journal.after = run.next.stamp
  BY DEF WriteManifest, PublicationInv, Promised
<1>2. /\ manifest # None /\ ~Committed /\ run.next.quarantine = journal.evidence
      /\ run.next.end = journal.end
  BY <1>1 DEF Lineage, Drafted
<1>3. /\ raw.upTo >= journal.retained.upTo /\ raw.upTo = journal.end
      /\ journal.evidence # None => Extends(journal.evidence, journal.retained)
  BY <1>1, <1>2 DEF Lineage, Pending
<1>4. manifest \in Manifest /\ raw \in Bytes
  BY <1>2 DEF PublicationInv, PublicationTypeOK
<1>5. PublishedBytes = journal.retained
  BY <1>2 DEF PublishedBytes, Settled
<1>6. PublishedBytes' = raw
  <2>1. run.next # None /\ run.next.stamp # None
    BY <1>1, PublicationAssumption DEF Manifest
  <2>2. Committed'
    BY <1>1, <2>1 DEF Committed
  <2> QED
    BY <1>1, <2>2 DEF PublishedBytes, Settled
<1>7. Claimed(manifest)' = Claimed(run.next)
  BY <1>1 DEF Claimed
<1>8. Atomic!TrueOf(Claimed(run.next), raw)
  BY <1>1, <1>4, PairIsTrue
<1>9. ASSUME run.next.quarantine # None PROVE Atomic!Continues(run.next.quarantine)
  BY <1>2, <1>3, <1>4, <1>5, <1>9, ClaimOf DEF Extends, Quarantined, Atomic!Continues
<1> HIDE DEF Claimed
<1>10. /\ Claimed(run.next) \in Atomic!Claims /\ Claimed(run.next).end = raw.upTo
       /\ Claimed(run.next).quarantine = run.next.quarantine
       /\ Atomic!Waives(Claimed(run.next)) => run.next.quarantine # None
       /\ Claimed(manifest) # None
  BY <1>1, <1>2, <1>3, <1>4, ClaimOf
<1>11. Atomic!TrueOf(Claimed(manifest), PublishedBytes)'
  BY <1>6, <1>7, <1>8 DEF Atomic!TrueOf, Atomic!Waives
<1> QED
  BY <1>3, <1>4, <1>5, <1>6, <1>7, <1>9, <1>10, <1>11
     DEF Atomic!Exchange, Atomic!Bytes, Atomic!Days, Atomic!Waives, Bytes, Days

(* Otherwise the manifest is only restated.                                *)
LEMMA WriteIsRestate ==
    ASSUME PublicationInv, PublicationInv', Lineage, WriteManifest, journal = None
    PROVE  Atomic!Restate
<1>1. /\ pc = "write" /\ manifest' = run.next /\ UNCHANGED <<raw, journal>>
      /\ run.next \in Manifest /\ Pair(run.next, raw)
  BY DEF WriteManifest, PublicationInv, Promised
<1>2. /\ manifest # None => /\ run.next.quarantine = manifest.quarantine
                            /\ run.next.end >= manifest.end
      /\ manifest = None => run.next.quarantine = None /\ run.next.end = 0
  BY <1>1 DEF Lineage, Drafted
<1>3. manifest \in Manifest \cup {None} /\ raw \in Bytes
  BY DEF PublicationInv, PublicationTypeOK
<1>4. PublishedBytes = raw /\ PublishedBytes' = raw
  BY <1>1 DEF PublishedBytes, Settled
<1>5. Claimed(manifest)' = Claimed(run.next)
  BY <1>1 DEF Claimed
<1>6. Atomic!TrueOf(Claimed(run.next), raw)
  BY <1>1, <1>3, PairIsTrue
<1>7. /\ Claimed(run.next) \in Atomic!Claims
      /\ Claimed(run.next).end = run.next.end
      /\ Claimed(run.next).quarantine = run.next.quarantine
  BY <1>1, ClaimOf
<1>8. Claimed(manifest) # None =>
        /\ manifest # None
        /\ Claimed(manifest).end = manifest.end /\ Claimed(manifest).quarantine = manifest.quarantine
  BY <1>3, ClaimOf DEF Claimed
<1>9. Claimed(manifest) = None => manifest = None
  BY <1>3, ClaimOf
<1>10. Atomic!TrueOf(Claimed(manifest)', PublishedBytes)
  BY <1>4, <1>5, <1>6 DEF Atomic!TrueOf, Atomic!Waives
<1> QED
  BY <1>2, <1>4, <1>5, <1>7, <1>8, <1>9, <1>10 DEF Atomic!Restate

(* A reset forgets a claim without a quarantine.                           *)
LEMMA ResetIsForget ==
    ASSUME PublicationInv, ResetManifest
    PROVE  Atomic!Forget
<1>1. /\ journal = None /\ manifest # None /\ manifest.quarantine = None
      /\ manifest' = None /\ UNCHANGED <<raw, journal>>
  BY DEF ResetManifest, MayReset
<1>2. manifest \in Manifest
  BY <1>1 DEF PublicationInv, PublicationTypeOK
<1> QED
  BY <1>1, <1>2, ClaimOf DEF Atomic!Forget, PublishedBytes, Settled, Claimed

(* Every step of the program is a step of the abstract specification.      *)
LEMMA StepIsPublished ==
    ASSUME PublicationInv, PublicationInv', Lineage, [PublicationNext]_pubVars
    PROVE  [Atomic!HistoryNext]_(Atomic!published)
<1>1. SameView => UNCHANGED Atomic!published
  BY DEF SameView, Atomic!published
<1>2. UNCHANGED pubVars => UNCHANGED Published
  BY DEF pubVars, Published
<1>3. ASSUME NEW b \in Bytes, FetchAnswers(b) PROVE UNCHANGED Published
  BY <1>3 DEF FetchAnswers, Files, Published
<1>4. Quiet => UNCHANGED Published
  BY QuietSteps
<1> QED
  BY <1>1, <1>2, <1>3, <1>4, StepKinds, UnseenSteps, ReplaceIsRefresh, CommitIsExchange,
     WriteIsRestate, ResetIsForget DEF Atomic!HistoryNext

(* The journaled publication implements the exchange of a whole pair       *)
(* (quarantine_transaction.py:1-7), for any number of runs killed anywhere.*)
THEOREM PublicationIsAtomic == PublicationSpec => AtomicPublication
<1>1. PublicationInit => Atomic!HistoryInit
  BY InitIsPublished
<1>2. PublicationInv /\ PublicationInv' /\ Lineage /\ [PublicationNext]_pubVars =>
        [Atomic!HistoryNext]_(Atomic!published)
  BY StepIsPublished
<1> QED
  BY <1>1, <1>2, LineageInvariant, PTL DEF PublicationSpec, AtomicPublication, Atomic!HistorySpec
=============================================================================
