------------------------ MODULE FoldResume_proofs ------------------------
(***************************************************************************)
(* Proofs about a walk-forward sweep that is interrupted and run again:    *)
(* for any folds, configurations, commits and generations of the bundle,   *)
(* and for any number of runs, a report mixes nothing and a saved fold is  *)
(* not trained again.                                                      *)
(***************************************************************************)
EXTENDS FoldResume, TLAPS

(* A result at hand is that of the run: its configuration, its code, and   *)
(* nothing read but what was served since the run began.                   *)
OwnResult(s) ==
    /\ s \in Stamp /\ s.cfg = run.print.cfg /\ s.code = run.code
    /\ s.gens # {} /\ \A g \in s.gens : run.print.gen <= g /\ g <= gen

(* The fold at hand: what is known of it at each step.  Only the check     *)
(* after it tells that the bundle was not swapped meanwhile.               *)
AtWork ==
    run # None =>
        /\ run.print.gen <= gen
        /\ run.step # "decide" => run.at \in Folds
        /\ run.step \in {"ensemble", "backtest", "report"} => OwnResult(run.now)
        /\ run.step = "verify" => run.now = Failed \/ OwnResult(run.now)
        /\ run.step = "save" => OwnResult(run.now) /\ run.now.gens = {run.print.gen}
        /\ run.step \in {"report", "verify", "save"} /\ run.now # Failed =>
               run.print.mask \in run.now.masks

(* The folds behind the run are placeholders or honest.                    *)
Behind ==
    run # None =>
        \A i \in Folds : i < run.at =>
            /\ run.folds[i] \in Entry
            /\ run.folds[i].fold # Failed =>
                   /\ run.folds[i].fold \in Stamp
                   /\ run.folds[i].fold.cfg = run.print.cfg
                   /\ run.folds[i].fold.gens = {run.print.gen}
                   /\ run.folds[i].fold.code = run.folds[i].commit
                   /\ Unrefreshed(run.folds[i]) => run.folds[i].fold.masks = {run.print.mask}

(* A manifest says what its fold was made from, and stays.                 *)
Honest(m) ==
    m.fold.cfg = m.print.cfg /\ m.fold.gens = {m.print.gen} /\ m.fold.code = m.commit

Manifests ==
    /\ \A i \in Folds : manifest[i] \in Manifest => Honest(manifest[i])
    /\ run # None => \A i \in run.seen : manifest[i] \in Manifest

(* A fold that was saved is resumable: its manifest is that of the last    *)
(* attempt, its positions are those attested, and a run that has not come  *)
(* to it has discovered it, unless the model is gone.                      *)
Resumable(i) ==
    /\ manifest[i] \in Manifest /\ saved[i] = manifest[i].print
    /\ manifest[i].positions =>
           positions[i] # None /\ manifest[i].digest \in {None, positions[i]}
    /\ run # None /\ run.at <= i /\ model[i] # None => i \in run.seen

Kept ==
    /\ \A i \in Folds : saved[i] # None => Resumable(i)
    /\ run # None /\ run.step # "decide" => saved[run.at] = None
    /\ run # None /\ run.step \in {"report", "verify", "save"} =>
           run.digest \in {None, positions[run.at]}

ResumeInv == ResumeTypeOK /\ AtWork /\ Behind /\ Manifests /\ Kept
---------------------------------------------------------------------------
(* Nothing is there, and nobody runs.                                      *)
LEMMA ResumeInitInv == ResumeInit => ResumeInv
BY ResumeAssumption DEF ResumeInit, ResumeInv, ResumeTypeOK, AtWork, Behind, Manifests, Kept,
   Folds, Gens, Masks, Commits

(* What a run of the engine is, and what a result it may have at hand.     *)
LEMMA RunTyped ==
    ASSUME ResumeInv, run # None
    PROVE  /\ run \in Run
           /\ run.print \in Fingerprint
           /\ run.print.cfg \in Configs /\ run.print.gen \in Gens /\ run.print.mask \in Masks
           /\ run.code \in Commits
           /\ run.from \in Modes /\ run.seen \subseteq Folds /\ run.at \in 1..(LastFold + 1)
           /\ run.folds \in [Folds -> Entry \cup {None}]
           /\ run.now \in Stamp \cup {Failed, None} /\ run.digest \in Stamp \cup {None}
           /\ run.used \subseteq Folds
BY DEF ResumeInv, ResumeTypeOK, Run, Fingerprint

(* A step within a fold: the run keeps its identity, its place and the     *)
(* folds behind it, and touches no artifact of another fold.               *)
SameTask ==
    /\ run'.print = run.print /\ run'.code = run.code
    /\ run'.seen = run.seen /\ run'.at = run.at /\ run'.folds = run.folds

LEMMA WithinFold ==
    ASSUME ResumeInv, run # None, run.at \in Folds,
           run' \in Run, SameTask, run'.step # "decide",
           UNCHANGED <<gen, mask, head, manifest, starts>>,
           model' \in [Folds -> Stamp \cup {None}],
           positions' \in [Folds -> Stamp \cup {None}],
           saved' \in [Folds -> Fingerprint \cup {None}],
           \A i \in Folds : i # run.at =>
               model'[i] = model[i] /\ positions'[i] = positions[i] /\ saved'[i] = saved[i],
           saved'[run.at] = None,
           AtWork',
           run'.step \in {"report", "verify", "save"} =>
               run'.digest \in {None, positions'[run.at]}
    PROVE  ResumeInv'
<1>1. ResumeTypeOK'
  BY DEF ResumeInv, ResumeTypeOK
<1>2. Behind'
  BY DEF ResumeInv, Behind, SameTask, Unrefreshed
<1>3. Manifests'
  BY DEF ResumeInv, Manifests, SameTask, Honest
<1>4. Kept'
  <2>1. ASSUME NEW i \in Folds, saved'[i] # None PROVE Resumable(i)'
    BY <2>1 DEF ResumeInv, Kept, Resumable, SameTask
  <2> QED
    BY <2>1 DEF Kept, SameTask
<1> QED
  BY <1>1, <1>2, <1>3, <1>4 DEF ResumeInv

(* The run moves on to the next fold, with an honest result of this one or *)
(* a placeholder.                                                          *)
HonestEntry(e) ==
    /\ e \in Entry
    /\ e.fold # Failed =>
           /\ e.fold \in Stamp /\ e.fold.cfg = run.print.cfg /\ e.fold.gens = {run.print.gen}
           /\ e.fold.code = e.commit
           /\ Unrefreshed(e) => e.fold.masks = {run.print.mask}

LEMMA EndFoldTyped ==
    ASSUME ResumeInv, run # None, run.at \in Folds, NEW e \in Entry
    PROVE  /\ EndFold(e) \in Run
           /\ EndFold(e).print = run.print /\ EndFold(e).seen = run.seen
           /\ EndFold(e).at = run.at + 1 /\ EndFold(e).step = "decide"
           /\ EndFold(e).folds = [run.folds EXCEPT ![run.at] = e]
<1>1. run.at + 1 \in 1..(LastFold + 1)
  BY ResumeAssumption DEF Folds
<1>2. [run.folds EXCEPT ![run.at] = e] \in [Folds -> Entry \cup {None}]
  BY RunTyped
<1> QED
  BY <1>1, <1>2, RunTyped DEF EndFold, Run

LEMMA NextFold ==
    ASSUME ResumeInv, run # None, run.at \in Folds, NEW e, HonestEntry(e), run' = EndFold(e),
           UNCHANGED <<gen, mask, head, dirVars, starts, saved>>
    PROVE  ResumeInv'
<1>1. e \in Entry
  BY DEF HonestEntry
<1>2. /\ run' \in Run /\ run'.print = run.print /\ run'.seen = run.seen
      /\ run'.at = run.at + 1 /\ run'.step = "decide"
      /\ run'.folds = [run.folds EXCEPT ![run.at] = e]
  BY <1>1, EndFoldTyped
<1>3. ResumeTypeOK'
  BY <1>2 DEF ResumeInv, ResumeTypeOK, dirVars
<1>4. AtWork'
  BY <1>2 DEF ResumeInv, AtWork
<1>5. Behind'
  <2>1. ASSUME NEW i \in Folds, i < run'.at PROVE i = run.at \/ i < run.at
    BY <1>2, <2>1 DEF Folds
  <2> QED
    BY <1>2, <2>1, RunTyped DEF ResumeInv, Behind, HonestEntry, Unrefreshed
<1>6. Manifests'
  BY <1>2 DEF ResumeInv, Manifests, Honest, dirVars
<1>7. Kept'
  <2>1. ASSUME NEW i \in Folds, saved'[i] # None PROVE Resumable(i)'
    <3>1. run'.at <= i => run.at <= i
      BY <1>2 DEF Folds
    <3> QED
      BY <1>2, <2>1, <3>1 DEF ResumeInv, Kept, Resumable, dirVars
  <2> QED
    BY <1>2, <2>1 DEF Kept
<1> QED
  BY <1>3, <1>4, <1>5, <1>6, <1>7 DEF ResumeInv

(* A run that ends, however it ends, leaves everything behind as it is.    *)
LEMMA RunEnds ==
    ASSUME ResumeInv, run' = None, UNCHANGED <<gen, mask, head, dirVars, starts, saved>>
    PROVE  ResumeInv'
BY DEF ResumeInv, ResumeTypeOK, AtWork, Behind, Manifests, Kept, Resumable, Honest, dirVars
---------------------------------------------------------------------------
(* A new run discovers every fold that was saved and has its model.        *)
LEMMA StartStep == ASSUME ResumeInv, NEW c \in Configs, NEW from \in Modes, Start(c, from) PROVE ResumeInv'
<1>1. Discovered \subseteq Folds /\ \A i \in Discovered : manifest[i] \in Manifest
  BY DEF Discovered, ResumeInv, ResumeTypeOK
<1>2. run' \in Run
  BY <1>1, ResumeAssumption DEF Start, Run, Fingerprint, ResumeInv, ResumeTypeOK, Modes, Entry, Folds
<1>3. run'.seen = Discovered /\ run'.at = 1 /\ run'.step = "decide" /\ run'.print.gen = gen
  BY DEF Start
<1>4. starts' \in 0..MaxRuns
  BY ResumeAssumption DEF Start, ResumeInv, ResumeTypeOK
<1>5. ResumeTypeOK'
  BY <1>2, <1>4 DEF Start, ResumeInv, ResumeTypeOK, dirVars
<1>6. AtWork'
  BY <1>3 DEF Start, AtWork, ResumeInv, ResumeTypeOK, Gens
<1>7. Behind'
  BY <1>3 DEF Behind, Folds
<1>8. Manifests'
  BY <1>1, <1>3 DEF Start, Manifests, Honest, ResumeInv, dirVars
<1>9. Kept'
  <2>1. ASSUME NEW i \in Folds, saved[i] # None, model[i] # None PROVE i \in Discovered
    BY <2>1, ResumeAssumption DEF ResumeInv, Kept, Resumable, Discovered, Missing
  <2> QED
    BY <1>3, <2>1 DEF Start, ResumeInv, Kept, Resumable, dirVars
<1> QED
  BY <1>5, <1>6, <1>7, <1>8, <1>9 DEF ResumeInv

(* A fold that is skipped is what its manifest says.                       *)
LEMMA SkipStep == ASSUME ResumeInv, Skip PROVE ResumeInv'
<1> DEFINE m == manifest[run.at]
           e == [fold |-> m.fold, commit |-> m.commit, mask |-> m.print.mask]
<1>1. run # None /\ run.at \in Folds /\ run' = EndFold(e)
  BY DEF Skip, At
<1>2. m \in Manifest /\ Honest(m) /\ m.print = run.print
  BY DEF Skip, At, MayResume, ResumeInv, Manifests
<1>3. m.fold \in Stamp /\ m.commit \in Commits
  BY <1>2 DEF Manifest
<1>4. HonestEntry(e)
  BY <1>2, <1>3, <1>1, RunTyped DEF HonestEntry, Entry, Honest, Unrefreshed
<1> QED
  BY <1>1, <1>4, NextFold DEF Skip

LEMMA BeginFoldStep == ASSUME ResumeInv, BeginFold PROVE ResumeInv'
<1>1. run # None /\ run.at \in Folds /\ run' = [run EXCEPT !.step = "train"]
  BY DEF BeginFold, At
<1>2. run' \in Run /\ SameTask /\ run'.step = "train"
  BY <1>1, RunTyped DEF Run, SameTask
<1>3. /\ saved' \in [Folds -> Fingerprint \cup {None}]
      /\ saved'[run.at] = None /\ \A i \in Folds : i # run.at => saved'[i] = saved[i]
  BY <1>1 DEF BeginFold, ResumeInv, ResumeTypeOK
<1>4. AtWork'
  BY <1>1, <1>2 DEF BeginFold, AtWork, ResumeInv, SameTask
<1> QED
  BY <1>1, <1>2, <1>3, <1>4, WithinFold DEF BeginFold, ResumeInv, ResumeTypeOK, dirVars

(* The fold at hand was not saved, and is one of the folds.                *)
LEMMA InFold ==
    ASSUME ResumeInv, run # None, run.step # "decide"
    PROVE  run.at \in Folds /\ saved[run.at] = None
BY DEF ResumeInv, AtWork, Kept

LEMMA TrainStep == ASSUME ResumeInv, Train PROVE ResumeInv'
<1> DEFINE s == [cfg |-> run.print.cfg, gens |-> {gen}, masks |-> {}, code |-> run.code]
<1>1. /\ run # None /\ run.at \in Folds /\ saved[run.at] = None
      /\ run' = [run EXCEPT !.step = "ensemble", !.now = s]
      /\ model' = [model EXCEPT ![run.at] = s]
  BY InFold DEF Train, At
<1>2. s \in Stamp /\ gen \in Nat /\ run.print.gen <= gen
  BY <1>1, RunTyped DEF Stamp, ResumeInv, ResumeTypeOK, AtWork, Gens
<1>3. run' \in Run /\ SameTask /\ run'.step = "ensemble" /\ run'.now = s
  BY <1>1, <1>2, RunTyped DEF Run, SameTask
<1>4. model' \in [Folds -> Stamp \cup {None}] /\ \A i \in Folds : i # run.at => model'[i] = model[i]
  BY <1>1, <1>2 DEF ResumeInv, ResumeTypeOK
<1>5. AtWork'
  BY <1>1, <1>2, <1>3 DEF Train, AtWork, ResumeInv, SameTask, OwnResult
<1> HIDE DEF s
<1> QED
  BY <1>1, <1>3, <1>4, <1>5, WithinFold DEF Train, ResumeInv, ResumeTypeOK

LEMMA EnsembleStep == ASSUME ResumeInv, Ensemble PROVE ResumeInv'
<1>1. run # None /\ run.step = "ensemble" /\ run.at \in Folds /\ saved[run.at] = None
  BY InFold DEF Ensemble, At
<1>2. PICK used \in SUBSET {j \in Newest : model[j] # None} :
          run' = [run EXCEPT !.step = "backtest", !.used = used]
  BY DEF Ensemble
<1>3. used \subseteq Folds
  <2>1. used \subseteq Priors
    BY DEF Newest
  <2>2. Priors \subseteq 1..(run.at - 1)
    BY DEF Priors
  <2>3. 1..(run.at - 1) \subseteq Folds
    BY <1>1, ResumeAssumption DEF Folds
  <2> QED
    BY <2>1, <2>2, <2>3
<1>4. run' \in Run /\ SameTask /\ run'.step = "backtest" /\ run'.now = run.now
  BY <1>1, <1>2, <1>3, RunTyped DEF Run, SameTask
<1>5. AtWork'
  BY <1>1, <1>4 DEF Ensemble, AtWork, ResumeInv, SameTask, OwnResult
<1> QED
  BY <1>1, <1>4, <1>5, WithinFold DEF Ensemble, ResumeInv, ResumeTypeOK, dirVars

(* The positions are those the result attests, or there is no attestation. *)
LEMMA BacktestStep == ASSUME ResumeInv, Backtest PROVE ResumeInv'
<1> DEFINE s == [run.now EXCEPT !.gens = @ \cup {gen}, !.masks = {run.print.mask, mask}]
<1>1. run # None /\ run.step = "backtest" /\ run.at \in Folds /\ saved[run.at] = None
  BY InFold DEF Backtest, At
<1>2. OwnResult(run.now) /\ gen \in Gens /\ run.print.gen \in Gens /\ run.print.gen <= gen
  BY <1>1, RunTyped DEF ResumeInv, AtWork, ResumeTypeOK
<1>3. /\ s \in Stamp /\ s.cfg = run.print.cfg /\ s.code = run.code
      /\ s.gens = run.now.gens \cup {gen} /\ run.print.mask \in s.masks
  <2>1. run.print.mask \in Masks /\ mask \in Masks
    BY <1>1, RunTyped DEF ResumeInv, ResumeTypeOK
  <2> QED
    BY <1>2, <2>1 DEF OwnResult, Stamp
<1>4. PICK wrote \in BOOLEAN :
          /\ positions' = IF wrote THEN [positions EXCEPT ![run.at] = s] ELSE positions
          /\ run' = [run EXCEPT !.step = "report", !.now = s, !.used = {},
                                !.digest = IF wrote THEN s ELSE None]
  BY DEF Backtest
<1> HIDE DEF s
<1>5. run' \in Run /\ SameTask /\ run'.step = "report" /\ run'.now = s
  BY <1>1, <1>3, <1>4, RunTyped DEF Run, SameTask
<1>6. run'.digest = IF wrote THEN s ELSE None
  BY <1>1, <1>4, RunTyped DEF Run
<1>7. /\ positions' \in [Folds -> Stamp \cup {None}]
      /\ \A i \in Folds : i # run.at => positions'[i] = positions[i]
      /\ wrote => positions'[run.at] = s
  BY <1>1, <1>3, <1>4 DEF ResumeInv, ResumeTypeOK
<1>8. AtWork'
  <2>1. s.gens # {} /\ \A g \in s.gens : run.print.gen <= g /\ g <= gen
    BY <1>2, <1>3 DEF OwnResult, Gens
  <2> QED
    BY <1>1, <1>2, <1>3, <1>5, <2>1 DEF Backtest, AtWork, SameTask, OwnResult
<1> QED
  BY <1>1, <1>5, <1>6, <1>7, <1>8, WithinFold DEF Backtest, ResumeInv, ResumeTypeOK

LEMMA WriteReportStep == ASSUME ResumeInv, WriteReport PROVE ResumeInv'
<1>1. /\ run # None /\ run.step = "report" /\ run.at \in Folds /\ saved[run.at] = None
      /\ run' = [run EXCEPT !.step = "verify"]
  BY InFold DEF WriteReport, At
<1>2. /\ run' \in Run /\ SameTask /\ run'.step = "verify"
      /\ run'.now = run.now /\ run'.digest = run.digest
  BY <1>1, RunTyped DEF Run, SameTask
<1>3. AtWork'
  BY <1>1, <1>2 DEF WriteReport, AtWork, ResumeInv, SameTask, OwnResult
<1>4. run.digest \in {None, positions[run.at]}
  BY <1>1 DEF ResumeInv, Kept
<1> QED
  BY <1>1, <1>2, <1>3, <1>4, WithinFold DEF WriteReport, ResumeInv, ResumeTypeOK, dirVars

LEMMA FoldFailsStep == ASSUME ResumeInv, FoldFails PROVE ResumeInv'
<1>1. /\ run # None /\ run.at \in Folds /\ saved[run.at] = None
      /\ run' = [run EXCEPT !.step = "verify", !.now = Failed, !.digest = None, !.used = {}]
  BY InFold DEF FoldFails, At
<1>2. /\ run' \in Run /\ SameTask /\ run'.step = "verify"
      /\ run'.now = Failed /\ run'.digest = None
  BY <1>1, RunTyped DEF Run, SameTask
<1>3. AtWork'
  BY <1>1, <1>2 DEF FoldFails, AtWork, ResumeInv, SameTask
<1> QED
  BY <1>1, <1>2, <1>3, WithinFold DEF FoldFails, ResumeInv, ResumeTypeOK, dirVars

(* If the bundle is still that of the start, nothing else was read.        *)
LEMMA VerifyStep == ASSUME ResumeInv, Verify PROVE ResumeInv'
<1>1. run # None /\ run.step = "verify" /\ run.at \in Folds /\ saved[run.at] = None
  BY InFold DEF Verify, At
<1>2. CASE run.now = Failed
  <2>1. HonestEntry(OwnEntry)
    BY <1>1, <1>2, RunTyped DEF HonestEntry, Entry, OwnEntry, ResumeInv, ResumeTypeOK
  <2> QED
    BY <1>1, <1>2, <2>1, NextFold DEF Verify, Judge
<1>3. CASE run.now # Failed
  <2>1. run' = [run EXCEPT !.step = "save"]
    BY <1>3 DEF Verify, Judge
  <2>2. /\ run' \in Run /\ SameTask /\ run'.step = "save"
        /\ run'.now = run.now /\ run'.digest = run.digest
    BY <1>1, <2>1, RunTyped DEF Run, SameTask
  <2>3. OwnResult(run.now) /\ run.now.gens = {run.print.gen}
    <3>1. OwnResult(run.now) /\ gen = run.print.gen /\ run.print.gen \in Nat
      BY <1>1, <1>3, RunTyped DEF Verify, SameBundle, ResumeInv, AtWork, Gens
    <3>2. run.now.gens \subseteq Nat
      BY <3>1 DEF OwnResult, Stamp, Gens
    <3>3. \A g \in run.now.gens : g = run.print.gen
      BY <3>1, <3>2 DEF OwnResult
    <3> QED
      BY <3>1, <3>3 DEF OwnResult
  <2>4. AtWork'
    BY <1>1, <2>2, <2>3 DEF Verify, AtWork, ResumeInv, SameTask, OwnResult
  <2>5. run.digest \in {None, positions[run.at]}
    BY <1>1 DEF ResumeInv, Kept
  <2> QED
    BY <1>1, <2>2, <2>4, <2>5, WithinFold DEF Verify, ResumeInv, ResumeTypeOK, dirVars
<1> QED
  BY <1>2, <1>3

(* The result that is saved or only reported.                              *)
LEMMA SavedEntry ==
    ASSUME ResumeInv, At("save")
    PROVE  /\ run.at \in Folds /\ OwnResult(run.now) /\ run.now.gens = {run.print.gen}
           /\ HonestEntry(OwnEntry)
<1>1. run # None /\ run.at \in Folds /\ OwnResult(run.now) /\ run.now.gens = {run.print.gen}
  BY DEF At, ResumeInv, AtWork
<1>2. run.now # Failed => run.print.mask \in run.now.masks
  BY <1>1 DEF At, ResumeInv, AtWork
<1>3. mask \in Masks
  BY DEF ResumeInv, ResumeTypeOK
<1> QED
  BY <1>1, <1>2, <1>3, RunTyped DEF HonestEntry, Entry, OwnResult, OwnEntry, Unrefreshed

LEMMA SaveFailsStep == ASSUME ResumeInv, SaveFails PROVE ResumeInv'
BY SavedEntry, NextFold DEF SaveFails, At

(* The manifest tells what the fold was made from, and what is beside it.  *)
LEMMA SaveManifestStep == ASSUME ResumeInv, SaveManifest PROVE ResumeInv'
<1> DEFINE e == OwnEntry
           m == [print |-> PrintNow, commit |-> run.code, fold |-> run.now,
                 positions |-> positions[run.at] # None, digest |-> run.digest]
<1>1. /\ run # None /\ run.step = "save" /\ run.at \in Folds /\ saved[run.at] = None
      /\ OwnResult(run.now) /\ run.now.gens = {run.print.gen} /\ HonestEntry(e)
  BY InFold, SavedEntry DEF SaveManifest, At
<1>2. m \in Manifest /\ Honest(m)
  <2>1. PrintNow \in Fingerprint /\ PrintNow.cfg = run.print.cfg /\ PrintNow.gen = run.print.gen
    BY <1>1, RunTyped DEF PrintNow, Fingerprint, ResumeInv, ResumeTypeOK
  <2> QED
    BY <1>1, <2>1, RunTyped DEF Manifest, Honest, OwnResult
<1>3. /\ m.print = PrintNow /\ m.digest = run.digest
      /\ m.positions => positions[run.at] # None
  OBVIOUS
<1>4. /\ manifest' = [manifest EXCEPT ![run.at] = m] /\ run' = EndFold(e)
      /\ saved' = [saved EXCEPT ![run.at] = PrintNow]
  BY DEF SaveManifest
<1>5. e \in Entry
  BY <1>1 DEF HonestEntry
<1>6. /\ run' \in Run /\ run'.print = run.print /\ run'.seen = run.seen
      /\ run'.at = run.at + 1 /\ run'.step = "decide"
      /\ run'.folds = [run.folds EXCEPT ![run.at] = e]
  BY <1>1, <1>4, <1>5, EndFoldTyped
<1> HIDE DEF e, m
<1>7. /\ manifest' \in [Folds -> Manifest \cup {None}]
      /\ manifest'[run.at] = m /\ \A i \in Folds : i # run.at => manifest'[i] = manifest[i]
      /\ saved' \in [Folds -> Fingerprint \cup {None}]
      /\ saved'[run.at] = m.print
      /\ \A i \in Folds : i # run.at => saved'[i] = saved[i]
  BY <1>1, <1>2, <1>3, <1>4, RunTyped DEF ResumeInv, ResumeTypeOK, Manifest
<1>8. ResumeTypeOK'
  BY <1>6, <1>7 DEF SaveManifest, ResumeInv, ResumeTypeOK
<1>9. AtWork'
  BY <1>1, <1>6 DEF SaveManifest, ResumeInv, AtWork
<1>10. Behind'
  <2>1. ASSUME NEW i \in Folds, i < run'.at PROVE i = run.at \/ i < run.at
    BY <1>1, <1>6, <2>1 DEF Folds
  <2> QED
    BY <1>1, <1>6, <2>1, RunTyped DEF ResumeInv, Behind, HonestEntry, Unrefreshed
<1>11. Manifests'
  BY <1>1, <1>2, <1>6, <1>7, RunTyped DEF ResumeInv, Manifests, Honest
<1>12. Kept'
  <2>1. ASSUME NEW i \in Folds, i = run.at PROVE Resumable(i)'
    <3>1. run.digest \in {None, positions[run.at]}
      BY <1>1 DEF ResumeInv, Kept
    <3>2. ~(run'.at <= run.at)
      BY <1>1, <1>6 DEF Folds
    <3> QED
      BY <1>1, <1>2, <1>3, <1>7, <2>1, <3>1, <3>2 DEF SaveManifest, Resumable
  <2>2. ASSUME NEW i \in Folds, i # run.at, saved'[i] # None PROVE Resumable(i)'
    <3>1. run'.at <= i => run.at <= i
      BY <1>1, <1>6 DEF Folds
    <3> QED
      BY <1>1, <1>6, <1>7, <2>2, <3>1 DEF SaveManifest, ResumeInv, Kept, Resumable
  <2> QED
    BY <1>6, <2>1, <2>2 DEF Kept
<1> QED
  BY <1>8, <1>9, <1>10, <1>11, <1>12 DEF ResumeInv

(* A swap only adds a newer generation; a model that is gone is no loss to *)
(* what is known.                                                          *)
LEMMA SwapStep == ASSUME ResumeInv, Swap PROVE ResumeInv'
<1>1. gen' \in Gens /\ gen' = gen + 1 /\ gen \in Nat
  BY ResumeAssumption DEF Swap, MayChange, ResumeInv, ResumeTypeOK, Gens, Masks, Commits
<1>2. ResumeTypeOK'
  BY <1>1 DEF Swap, ResumeInv, ResumeTypeOK, dirVars
<1>3. AtWork'
  <2> SUFFICES ASSUME run # None PROVE AtWork'
    BY DEF AtWork, Swap
  <2>1. run.print.gen \in Nat /\ (run.print.gen <= gen => run.print.gen <= gen')
    BY <1>1, RunTyped DEF Gens
  <2>2. OwnResult(run.now) => OwnResult(run.now)'
    <3>1. ASSUME OwnResult(run.now) PROVE \A g \in run.now.gens : g <= gen'
      BY <1>1, <3>1 DEF OwnResult, Stamp, Gens
    <3> QED
      BY <3>1 DEF OwnResult, Swap
  <2> QED
    BY <1>1, <2>1, <2>2 DEF Swap, ResumeInv, AtWork
<1> QED
  BY <1>2, <1>3 DEF Swap, ResumeInv, Behind, Unrefreshed, Manifests, Honest, Kept, Resumable, dirVars

(* What the run has read of the mask files it has read.                    *)
LEMMA RefreshStep == ASSUME ResumeInv, Refresh PROVE ResumeInv'
<1>1. mask' \in Masks
  BY ResumeAssumption DEF Refresh, MayChange, ResumeInv, ResumeTypeOK, Gens, Masks, Commits
<1>2. ResumeTypeOK'
  BY <1>1 DEF Refresh, ResumeInv, ResumeTypeOK, dirVars
<1>3. AtWork'
  BY DEF Refresh, ResumeInv, AtWork, OwnResult
<1> QED
  BY <1>2, <1>3 DEF Refresh, ResumeInv, Behind, Unrefreshed, Manifests, Honest, Kept, Resumable, dirVars

LEMMA CommitStep == ASSUME ResumeInv, Commit PROVE ResumeInv'
<1>1. head' \in Commits
  BY ResumeAssumption DEF Commit, MayChange, ResumeInv, ResumeTypeOK, Gens, Masks, Commits
<1> QED
  BY <1>1 DEF Commit, ResumeInv, ResumeTypeOK, AtWork, Behind, Unrefreshed, OwnResult, Manifests, Honest, Kept, Resumable, dirVars

LEMMA CleanUpStep == ASSUME ResumeInv, NEW i \in Folds, CleanUp(i) PROVE ResumeInv'
BY DEF CleanUp, ResumeInv, ResumeTypeOK, AtWork, Behind, Unrefreshed, OwnResult, Manifests, Honest, Kept, Resumable

LEMMA ResumeNextInv == ResumeInv /\ [ResumeNext]_resumeVars => ResumeInv'
<1> SUFFICES ASSUME ResumeInv, [ResumeNext]_resumeVars PROVE ResumeInv'
  OBVIOUS
<1>1. ASSUME NEW c \in Configs, NEW from \in Modes, Start(c, from) PROVE ResumeInv'
  BY <1>1, StartStep
<1>2. CASE Skip \/ BeginFold \/ Train \/ Ensemble \/ Backtest
  BY <1>2, SkipStep, BeginFoldStep, TrainStep, EnsembleStep, BacktestStep
<1>3. CASE WriteReport \/ FoldFails \/ Verify \/ SaveManifest \/ SaveFails
  BY <1>3, WriteReportStep, FoldFailsStep, VerifyStep, SaveManifestStep, SaveFailsStep
<1>4. CASE Abort \/ Finish \/ Kill
  BY <1>4, RunEnds DEF Abort, Finish, Kill
<1>5. CASE Swap \/ Refresh \/ Commit
  BY <1>5, SwapStep, RefreshStep, CommitStep
<1>6. ASSUME NEW i \in Folds, CleanUp(i) PROVE ResumeInv'
  BY <1>6, CleanUpStep
<1>7. CASE UNCHANGED resumeVars
  BY <1>7 DEF resumeVars, dirVars, ResumeInv, ResumeTypeOK, AtWork, Behind, Manifests, Kept,
              Resumable, Honest, OwnResult, Unrefreshed
<1> QED
  BY <1>1, <1>2, <1>3, <1>4, <1>5, <1>6, <1>7 DEF ResumeNext
---------------------------------------------------------------------------
(* What is known of a sweep holds of every reachable state.                *)
THEOREM ResumeInductive == ResumeSpec => []ResumeInv
BY ResumeInitInv, ResumeNextInv, PTL DEF ResumeSpec

(* The files, the runs and their bookkeeping are well formed.              *)
THEOREM ResumeTypes == ResumeSpec => []ResumeTypeOK
<1>1. ResumeInv => ResumeTypeOK
  BY DEF ResumeInv
<1> QED
  BY <1>1, ResumeInductive, PTL

(* Every fold of a report was made under its configuration and on its      *)
(* bundle, however often the sweep was killed and resumed, and masked by   *)
(* what its run began with unless a mask file was refreshed under it; the  *)
(* commit it names is that of them all (engine.py, git_provenance.py).     *)
THEOREM ReportsMixNothing == ResumeSpec => []ReportMixesNothing
<1>1. ResumeInv => ReportMixesNothing
  <2> SUFFICES ASSUME ResumeInv, Reporting, NEW i \in Folds, run.folds[i].fold # Failed
               PROVE  /\ run.folds[i].fold.cfg = run.print.cfg /\ run.folds[i].fold.gens = {run.print.gen}
                      /\ Resolved \in {None, run.folds[i].fold.code}
                      /\ Unrefreshed(run.folds[i]) => run.folds[i].fold.masks = {run.print.mask}
    BY DEF ReportMixesNothing
  <2>1. run # None /\ run.at = LastFold + 1 /\ 1 \in Folds
    BY RunTyped, ResumeAssumption DEF Reporting, At, Folds
  <2>2. i < run.at
    BY <2>1, ResumeAssumption DEF Folds
  <2>3. /\ run.folds[i].fold.cfg = run.print.cfg /\ run.folds[i].fold.gens = {run.print.gen}
        /\ run.folds[i].fold.code = run.folds[i].commit
        /\ Unrefreshed(run.folds[i]) => run.folds[i].fold.masks = {run.print.mask}
    BY <2>1, <2>2 DEF ResumeInv, Behind
  <2>4. Resolved \in {None, run.folds[i].commit}
    BY <2>1 DEF Resolved
  <2> QED
    BY <2>3, <2>4
<1> QED
  BY <1>1, ResumeInductive, PTL

(* A fold that was saved under the fingerprint of the run is not trained   *)
(* again, unless it was asked for or its model is gone (_resume.py).       *)
THEOREM ProgressKept == ResumeSpec => ProgressIsKept
<1>1. ASSUME ResumeInv, BeginFold, run.at < run.from, saved[run.at] = run.print
      PROVE  model[run.at] = None
  <2>1. run # None /\ run.at \in Folds /\ ~MayResume(run.at)
    BY <1>1 DEF BeginFold, At
  <2>2. saved[run.at] # None
    BY <1>1, <2>1, RunTyped, ResumeAssumption
  <2>3. Resumable(run.at)
    BY <1>1, <2>1, <2>2 DEF ResumeInv, Kept
  <2>4. manifest[run.at].print = run.print
    BY <1>1, <2>3 DEF Resumable
  <2> QED
    BY <1>1, <2>1, <2>3, <2>4 DEF Resumable, MayResume, Folds
<1> QED
  BY <1>1, ResumeInductive, PTL DEF ProgressIsKept
===========================================================================
