---------------------------- MODULE FoldResume ----------------------------
(***************************************************************************)
(* A walk-forward sweep that is interrupted and run again.  Every fold     *)
(* that succeeds leaves a manifest beside its artifacts; the next run in   *)
(* the same directory skips the folds whose manifest bears its own         *)
(* fingerprint of configuration, bundle and mask files, and retrains the   *)
(* others over what lies there.  The run may be killed or a fold fail      *)
(* between any two artifacts; the bundle may be swapped and the mask files *)
(* of the raw dump refreshed while the sweep reads them.  Runs in one      *)
(* directory follow each other (the engine takes no lock).                 *)
(*                                                                         *)
(* src/core/walk_forward/engine.py, _resume.py, ensemble.py,               *)
(* src/core/git_provenance.py                                              *)
(***************************************************************************)
EXTENDS Naturals, FiniteSets

CONSTANTS
    Configs,     \* configurations, the paths of the mask files included
    LastFold,    \* the folds are numbered in the order of the windows
    Window,      \* ensemble_window
    MaxChanges,  \* how often bundle, mask files or commit are exchanged
    MaxRuns,     \* how often the sweep is started
    None,        \* no file, no run, no commit
    Failed       \* the NaN placeholder of a fold that failed

Folds == 1..LastFold
Gens == 1..(MaxChanges + 1)     \* generations of the bundle, each with its identity
Masks == 1..(MaxChanges + 1)    \* contents of the two mask files, counted together
Commits == 1..(MaxChanges + 1)

VARIABLES
    gen,         \* the bundle that is served
    mask,        \* what namechange_path and delisted_registry_path hold
    head,        \* the commit of the checkout
    model,       \* model_fold<i>.pkl
    positions,   \* fold_<i>_positions.json
    manifest,    \* fold_<i>_manifest.json
    run,         \* the run of the engine
    starts,      \* how many there were
    saved        \* history: under which fingerprint the last attempt was saved

dirVars == <<model, positions, manifest>>
resumeVars == <<gen, mask, head, dirVars, run, starts, saved>>

(* What an artifact or a result was made from: the generations of the      *)
(* bundle and the contents of the mask files that were read.  Equal stamps *)
(* make equal bytes.                                                       *)
Stamp == [cfg : Configs, gens : SUBSET Gens, masks : SUBSET Masks, code : Commits]

(* compute_config_fingerprint.                                             *)
Fingerprint == [cfg : Configs, gen : Gens, mask : Masks]
Manifest == [print : Fingerprint, commit : Commits, fold : Stamp,
             positions : BOOLEAN, digest : Stamp \cup {None}]

(* A fold of the report; mask: the contents when it was saved (history).   *)
Entry == [fold : Stamp \cup {Failed}, commit : Commits, mask : Masks]

(* Which folds are run whatever their manifest says: none with AUTO, all   *)
(* with FORCE_RERUN, those from n on with RESUME_FROM_FOLD(n).             *)
Modes == 1..(LastFold + 1)
AUTO == LastFold + 1

(* seen: the discovered manifests.  now, digest, used: the result of the   *)
(* fold at hand, its attestation, and the priors averaged into it.         *)
Run == [print : Fingerprint, code : Commits, from : Modes, seen : SUBSET Folds,
        at : 1..(LastFold + 1),
        step : {"decide", "train", "ensemble", "backtest", "report", "verify", "save"},
        folds : [Folds -> Entry \cup {None}],
        now : Stamp \cup {Failed, None}, digest : Stamp \cup {None}, used : SUBSET Folds]

ASSUME ResumeAssumption ==
    /\ LastFold \in Nat \ {0} /\ Window \in Nat \ {0}
    /\ MaxChanges \in Nat /\ MaxRuns \in Nat
    /\ None \notin Commits \cup Manifest \cup Fingerprint /\ None # Failed

ResumeTypeOK ==
    /\ gen \in Gens /\ mask \in Masks /\ head \in Commits
    /\ model \in [Folds -> Stamp \cup {None}]
    /\ positions \in [Folds -> Stamp \cup {None}]
    /\ manifest \in [Folds -> Manifest \cup {None}]
    /\ run \in Run \cup {None}
    /\ starts \in 0..MaxRuns
    /\ saved \in [Folds -> Fingerprint \cup {None}]

ResumeInit ==
    /\ gen = 1 /\ mask = 1 /\ head = 1
    /\ model = [i \in Folds |-> None]
    /\ positions = [i \in Folds |-> None]
    /\ manifest = [i \in Folds |-> None]
    /\ run = None /\ starts = 0
    /\ saved = [i \in Folds |-> None]
---------------------------------------------------------------------------
(* _missing_required_artifacts, for the files that can be missing or       *)
(* altered here: predictions and report are written by every fold that     *)
(* gets a manifest, and stay.                                              *)
MissingUnlessAttested(i) ==                 \* mutant: positions without a digest do not count
    model[i] = None \/ (manifest[i].positions /\ positions[i] # manifest[i].digest)

Missing(i) ==
    \/ model[i] = None
    \/ /\ manifest[i].positions
       /\ positions[i] = None \/ manifest[i].digest \notin {None, positions[i]}

Discovered == {i \in Folds : manifest[i] # None /\ ~Missing(i)}

(* The identities of the bundle and the commit are captured at the start,  *)
(* the registry is loaded, the fingerprint computed from both mask files.  *)
Start(c, from) ==
    /\ run = None /\ starts < MaxRuns
    /\ starts' = starts + 1
    /\ run' = [print |-> [cfg |-> c, gen |-> gen, mask |-> mask], code |-> head, from |-> from,
               seen |-> Discovered, at |-> 1, step |-> "decide",
               folds |-> [i \in Folds |-> None], now |-> None, digest |-> None, used |-> {}]
    /\ UNCHANGED <<gen, mask, head, dirVars, saved>>

At(s) == run # None /\ run.step = s
SameBundle == gen = run.print.gen             \* _assert_bundle_identities_unchanged

MayResume(i) ==                             \* decide_fold
    /\ i < run.from
    /\ i \in run.seen
    /\ manifest[i].print = run.print

EndFold(e) == [run EXCEPT !.folds[run.at] = e, !.at = @ + 1, !.step = "decide",
                        !.now = None, !.digest = None]

(* A fold that ends here: its result or placeholder, made by this run.     *)
OwnEntry == [fold |-> run.now, commit |-> run.code, mask |-> mask]

Skip ==
    /\ At("decide") /\ run.at \in Folds /\ SameBundle
    /\ MayResume(run.at)
    /\ run' = LET m == manifest[run.at] IN
              EndFold([fold |-> m.fold, commit |-> m.commit, mask |-> m.print.mask])
    /\ UNCHANGED <<gen, mask, head, dirVars, starts, saved>>

BeginFold ==
    /\ At("decide") /\ run.at \in Folds /\ SameBundle
    /\ ~MayResume(run.at)
    /\ run' = [run EXCEPT !.step = "train"]
    /\ saved' = [saved EXCEPT ![run.at] = None]
    /\ UNCHANGED <<gen, mask, head, dirVars, starts>>

(* The features are built from the bundle as it is now; the old model is   *)
(* replaced.                                                               *)
Train ==
    /\ At("train")
    /\ LET s == [cfg |-> run.print.cfg, gens |-> {gen}, masks |-> {}, code |-> run.code] IN
        /\ model' = [model EXCEPT ![run.at] = s]
        /\ run' = [run EXCEPT !.step = "ensemble", !.now = s]
    /\ UNCHANGED <<gen, mask, head, positions, manifest, starts, saved>>

(* apply_ensemble: the newest models of the folds that did not fail; one   *)
(* that is gone, does not load or does not match its sidecar is left out.  *)
Priors == {j \in 1..(run.at - 1) : run.folds[j].fold # Failed}
Newest == {j \in Priors : Cardinality({k \in Priors : k > j}) < Window - 1}

Ensemble ==
    /\ At("ensemble")
    /\ \E used \in SUBSET {j \in Newest : model[j] # None} :
        run' = [run EXCEPT !.step = "backtest", !.used = used]
    /\ UNCHANGED <<gen, mask, head, dirVars, starts, saved>>

(* The backtest reads the bundle again, the name changes as they are now,  *)
(* and the registry the run loaded; positions are written if there are     *)
(* any, otherwise an older file stays.                                     *)
Backtest ==
    /\ At("backtest")
    /\ \E wrote \in BOOLEAN : LET s == [run.now EXCEPT !.gens = @ \cup {gen},
                                                       !.masks = {run.print.mask, mask}] IN
        /\ positions' = IF wrote THEN [positions EXCEPT ![run.at] = s] ELSE positions
        /\ run' = [run EXCEPT !.step = "report", !.now = s, !.used = {},
                              !.digest = IF wrote THEN s ELSE None]
    /\ UNCHANGED <<gen, mask, head, model, manifest, starts, saved>>

(* Attribution and the report of the fold.                                 *)
WriteReport ==
    /\ At("report")
    /\ run' = [run EXCEPT !.step = "verify"]
    /\ UNCHANGED <<gen, mask, head, dirVars, starts, saved>>

(* Any of these may raise; the fold becomes a placeholder.                 *)
FoldFails ==
    /\ \E s \in {"train", "ensemble", "backtest", "report"} : At(s)
    /\ run' = [run EXCEPT !.step = "verify", !.now = Failed, !.digest = None, !.used = {}]
    /\ UNCHANGED <<gen, mask, head, dirVars, starts, saved>>

JudgeNobody ==                              \* mutant: a placeholder is saved like a result
    run' = [run EXCEPT !.step = "save"]

Judge ==
    run' = IF run.now = Failed THEN EndFold(OwnEntry)
                               ELSE [run EXCEPT !.step = "save"]

VerifyNothing ==                            \* mutant: the check before the next fold is enough
    /\ At("verify")
    /\ Judge
    /\ UNCHANGED <<gen, mask, head, dirVars, starts, saved>>

Verify ==
    /\ At("verify") /\ SameBundle
    /\ Judge
    /\ UNCHANGED <<gen, mask, head, dirVars, starts, saved>>

(* "Refusing to mix folds": the run ends without a report.                 *)
Abort ==
    /\ (At("decide") /\ run.at \in Folds) \/ At("verify")
    /\ ~SameBundle
    /\ run' = None
    /\ UNCHANGED <<gen, mask, head, dirVars, starts, saved>>

(* from_fold computes the fingerprint again: the identities of the bundle  *)
(* are those of the start, the mask files are hashed as they are now.      *)
PrintNow == [run.print EXCEPT !.mask = mask]

SaveManifest ==
    /\ At("save")
    /\ manifest' = [manifest EXCEPT ![run.at] =
          [print |-> PrintNow, commit |-> run.code, fold |-> run.now,
           positions |-> positions[run.at] # None, digest |-> run.digest]]
    /\ run' = EndFold(OwnEntry)
    /\ saved' = [saved EXCEPT ![run.at] = PrintNow]
    /\ UNCHANGED <<gen, mask, head, model, positions, starts>>

SaveFails ==
    /\ At("save")
    /\ run' = EndFold(OwnEntry)
    /\ UNCHANGED <<gen, mask, head, dirVars, starts, saved>>

(* resolve_run_git_provenance.                                             *)
Resolved ==
    IF \E c \in Commits : \A i \in Folds : run.folds[i].commit = c
    THEN run.folds[1].commit ELSE None

(* The report is written, for readers only, from the folds and Resolved.   *)
Reporting == At("decide") /\ run.at \notin Folds

Finish ==
    /\ Reporting
    /\ run' = None
    /\ UNCHANGED <<gen, mask, head, dirVars, starts, saved>>

Kill ==
    /\ run # None /\ run' = None
    /\ UNCHANGED <<gen, mask, head, dirVars, starts, saved>>
---------------------------------------------------------------------------
(* The updater swaps the bundle under the sweep, and rewrites the mask     *)
(* files in the raw dump long before, or without a swap if it fails.       *)
(* Between two runs somebody checks out another commit, or cleans up       *)
(* models.                                                                 *)
MayChange == (gen - 1) + (mask - 1) + (head - 1) < MaxChanges

Swap ==
    /\ MayChange /\ gen' = gen + 1
    /\ UNCHANGED <<mask, head, dirVars, run, starts, saved>>

Refresh ==
    /\ MayChange /\ mask' = mask + 1
    /\ UNCHANGED <<gen, head, dirVars, run, starts, saved>>

Commit ==
    /\ run = None /\ MayChange /\ head' = head + 1
    /\ UNCHANGED <<gen, mask, dirVars, run, starts, saved>>

CleanUp(i) ==
    /\ run = None /\ model[i] # None
    /\ model' = [model EXCEPT ![i] = None]
    /\ UNCHANGED <<gen, mask, head, positions, manifest, run, starts, saved>>

ResumeNext ==
    \/ \E c \in Configs, from \in Modes : Start(c, from)
    \/ Skip \/ BeginFold
    \/ Train \/ Ensemble \/ Backtest \/ WriteReport \/ FoldFails
    \/ Verify \/ Abort \/ SaveManifest \/ SaveFails
    \/ Finish \/ Kill
    \/ Swap \/ Refresh \/ Commit \/ \E i \in Folds : CleanUp(i)

ResumeSpec == ResumeInit /\ [][ResumeNext]_resumeVars
---------------------------------------------------------------------------
(* A report mixes nothing (engine.py:248-252, 344-348, git_provenance.py:  *)
(* 71-82): every fold in it was trained and backtested under its           *)
(* configuration, on its bundle only, in this run or in an interrupted one *)
(* before it, and the commit it names, if any, is that of the code of all  *)
(* its folds.  A fold under which no mask file was refreshed was masked by *)
(* what the run began with, so what a fold of an earlier run was masked by *)
(* is never stale (_resume.py:157-159, 170-175); about a fold under which  *)
(* one was refreshed the code guarantees nothing.  (Which priors were      *)
(* averaged in: see PriorsAreOwn.)                                         *)
Unrefreshed(e) == e.fold.masks = {e.mask}

ReportMixesNothing ==
    Reporting =>
        \A i \in Folds : LET e == run.folds[i] IN e.fold # Failed =>
            /\ e.fold.cfg = run.print.cfg /\ e.fold.gens = {run.print.gen}
            /\ Resolved \in {None, e.fold.code}
            /\ Unrefreshed(e) => e.fold.masks = {run.print.mask}

(* "incremental progress across restarts" (_resume.py:5-9): a fold whose   *)
(* last attempt was saved under the fingerprint of the run is not trained  *)
(* again, unless somebody asked for it or its model is gone.               *)
ProgressIsKept ==
    [][BeginFold /\ run.at < run.from /\ saved[run.at] = run.print
         => model[run.at] = None]_resumeVars
---------------------------------------------------------------------------
(* The prior models of a resumed fold are "the same set it would have seen *)
(* on a fresh run": models of this configuration and bundle.               *)
PriorsAreOwn ==
    At("backtest") =>
        \A j \in run.used : model[j].cfg = run.print.cfg /\ model[j].gens = {run.print.gen}
===========================================================================
