---------------------------- MODULE DailyUpdate ----------------------------
(***************************************************************************)
(* The daily data update: scripts/daily_update.py takes the single-flight  *)
(* locks and src/data_pipeline/daily_update.py repairs, fetches, rebuilds  *)
(* into <provider>.new, validates and swaps, keeping a status artifact and *)
(* a run ledger.  Several runs, of the same or of different providers, may *)
(* be started; any of them may be interrupted, hit an OS error or be       *)
(* killed at any step.                                                     *)
(***************************************************************************)
EXTENDS SingleFlight, BundleSwap, Sequences

CONSTANTS
    ProviderOf, DumpOf, RegistryOf,  \* the mutable roots of each run's config
    AllowHoley,    \* the runs given --allow-holey-fetch
    Quarantine,    \* the runs given a suspension-quarantine policy
    Backfill,      \* the runs given an explicit --end-date
    Fallible       \* the runs that may be killed or interrupted, find a lock file unusable,
                   \* or fail to write a record

ASSUME ConfigAssumption ==
    /\ Providers \subseteq Nat /\ 0 \notin Providers
    /\ ProviderOf \in [Runs -> Providers]
    /\ DumpOf \in [Runs -> Nat] /\ RegistryOf \in [Runs -> Nat]
    \* scripts/daily_update.py:129-130, and no path plays two roles
    /\ \A r \in Runs : Needs[r] = {ProviderOf[r], DumpOf[r], RegistryOf[r]}
    /\ \A r, s \in Runs : /\ DumpOf[r] # RegistryOf[s]
                          /\ {DumpOf[r], RegistryOf[r]} \cap Providers = {}
    /\ AllowHoley \subseteq Runs
    /\ Quarantine \subseteq Runs
    /\ Backfill \subseteq Runs
    /\ Fallible \subseteq Runs

Dumps == {DumpOf[r] : r \in Runs}
Registries == {RegistryOf[r] : r \in Runs}

VARIABLES
    dump,        \* raw tushare dump: the update that last fetched, its holes
    registry,    \* delisted registry: the update that last wrote it
    stage,       \* the next thing run r does while it holds its locks
    result,      \* the failed_stage it will report, "ok" or "noop"
    qualified,   \* the fetch of r was accepted under its quarantine policy
    epoch,       \* order in which the runs got the locks
    clock,       \* the last epoch given out
    status,      \* <provider>.daily_update_status.json
    ledger       \* <provider>.daily_update_ledger.jsonl

runVars == <<stage, result, qualified, epoch, clock>>
inputVars == <<dump, registry>>
recordVars == <<status, ledger>>
vars == <<lockVars, dirs, inputVars, runVars, recordVars>>

RebuildStages == {"registry", "bins", "membership", "universe", "benchmark"}
BodyStages ==
    {"repair", "rm_new", "gate", "fetch", "snapshot", "validate", "verify_quarantine",
     "swap", "rm_bak", "rename_live", "rename_new"} \cup RebuildStages
Stages == BodyStages \cup {"out", "begin", "returned", "ledger", "leave"}
Results == {"none", "ok", "noop", "exception", "startup_repair", "fetch", "snapshot",
            "validate", "swap"} \cup RebuildStages

NoStatus == [state |-> "none", epoch |-> 0, result |-> "none"]
Status == [state : {"none", "running", "finished"}, epoch : Nat, result : Results]

TypeOK ==
    /\ LockTypeOK
    /\ DirsTypeOK
    /\ dump \in [Dumps -> [by : Nat, holes : BOOLEAN]]
    /\ registry \in [Registries -> Nat]
    /\ stage \in [Runs -> Stages]
    /\ result \in [Runs -> Results]
    /\ qualified \in [Runs -> BOOLEAN]
    /\ epoch \in [Runs -> Nat]
    /\ clock \in Nat
    /\ status \in [Providers -> Status]
    /\ ledger \in [Providers -> Seq(Nat \X Results)]

Init ==
    /\ LockInit
    /\ DirsInit
    /\ dump = [d \in Dumps |-> [by |-> 2, holes |-> FALSE]]
    /\ registry = [g \in Registries |-> 2]
    /\ stage = [r \in Runs |-> "out"]
    /\ result = [r \in Runs |-> "none"]
    /\ qualified = [r \in Runs |-> FALSE]
    /\ epoch = [r \in Runs |-> 0]
    /\ clock = 2
    /\ status = [p \in Providers |-> NoStatus]
    /\ ledger = [p \in Providers |-> <<>>]
---------------------------------------------------------------------------
(* scripts/daily_update.py main: the `with single_flight(...)` statement.  *)
BodyVars == <<dirs, inputVars, runVars, recordVars>>

LockStep(r) ==
    /\ \/ Start(r) \/ TryLock(r) \/ Refuse(r) \/ Unlock(r) \/ Exit(r)
       \/ r \in Fallible /\ SetupError(r)
    /\ UNCHANGED BodyVars

EnterBody(r) ==
    /\ Enter(r)
    /\ clock' = clock + 1
    /\ epoch' = [epoch EXCEPT ![r] = clock + 1]
    /\ stage' = [stage EXCEPT ![r] = "begin"]
    /\ UNCHANGED <<dirs, inputVars, result, qualified, recordVars>>

LeaveBody(r) ==
    /\ stage[r] = "leave"
    /\ Leave(r)
    /\ stage' = [stage EXCEPT ![r] = "out"]
    /\ UNCHANGED <<dirs, inputVars, result, qualified, epoch, clock, recordVars>>

KillRun(r) ==
    /\ r \in Fallible
    /\ Kill(r)
    /\ stage' = [stage EXCEPT ![r] = "out"]
    /\ UNCHANGED <<dirs, inputVars, result, qualified, epoch, clock, recordVars>>

At(r, s) == pc[r] = "inside" /\ stage[r] = s

Goto(r, s) ==
    /\ stage' = [stage EXCEPT ![r] = s]
    /\ UNCHANGED <<lockVars, result, qualified, epoch, clock, recordVars>>

(* `return EXIT_..., failed_stage, detail` of _execute_daily_update.       *)
Return(r, res) ==
    /\ stage' = [stage EXCEPT ![r] = "returned"]
    /\ result' = [result EXCEPT ![r] = res]
    /\ UNCHANGED <<lockVars, qualified, epoch, clock, recordVars>>
---------------------------------------------------------------------------
(* run_daily_update: the status artifact and the ledger, both best-effort: *)
(* a failed write leaves the previous content and changes nothing else.    *)
(* Mutant: the record does not say how the run ended.                      *)
StatusWithoutResult(r, s) == [state |-> s, epoch |-> epoch[r]]

StatusRecord(r, s) == [state |-> s, epoch |-> epoch[r], result |-> result[r]]

WriteStatus(r, s) ==
    \/ status' = [status EXCEPT ![ProviderOf[r]] = StatusRecord(r, s)]
    \/ r \in Fallible /\ UNCHANGED status

RecordRunning(r) ==
    /\ At(r, "begin")
    /\ WriteStatus(r, "running")
    /\ stage' = [stage EXCEPT ![r] = "repair"]
    /\ UNCHANGED <<lockVars, dirs, inputVars, result, qualified, epoch, clock, ledger>>

RecordTerminal(r) ==
    /\ At(r, "returned")
    /\ WriteStatus(r, "finished")
    /\ stage' = [stage EXCEPT ![r] = "ledger"]
    /\ UNCHANGED <<lockVars, dirs, inputVars, result, qualified, epoch, clock, ledger>>

(* Mutant: the crash path and the normal path both append.                 *)
AppendLedgerTwice(r) ==
    /\ At(r, "ledger")
    /\ ledger' = [ledger EXCEPT ![ProviderOf[r]] =
                    @ \o <<<<epoch[r], result[r]>>, <<epoch[r], result[r]>>>>]
    /\ stage' = [stage EXCEPT ![r] = "leave"]
    /\ UNCHANGED <<lockVars, dirs, inputVars, result, qualified, epoch, clock, status>>

AppendLedger(r) ==
    /\ At(r, "ledger")
    /\ \/ ledger' = [ledger EXCEPT ![ProviderOf[r]] = Append(@, <<epoch[r], result[r]>>)]
       \/ r \in Fallible /\ UNCHANGED ledger
    /\ stage' = [stage EXCEPT ![r] = "leave"]
    /\ UNCHANGED <<lockVars, dirs, inputVars, result, qualified, epoch, clock, status>>

(* `except BaseException` around the body: recorded, then raised again.    *)
BodyRaises(r) ==
    /\ r \in Fallible
    /\ pc[r] = "inside" /\ stage[r] \in BodyStages
    /\ Return(r, "exception")
    /\ UNCHANGED <<dirs, inputVars>>

(* An interrupt outside that try: the process ends without further record. *)
RecordInterrupted(r) ==
    /\ r \in Fallible
    /\ pc[r] = "inside" /\ stage[r] \in {"begin", "returned", "ledger"}
    /\ Goto(r, "leave")
    /\ UNCHANGED <<dirs, inputVars>>
---------------------------------------------------------------------------
(* Stage 0: check_and_repair; an OSError ends the run.                     *)
Repair(r) ==
    LET p == ProviderOf[r] IN
    /\ At(r, "repair")
    /\ \/ (CompleteInterruptedSwap(p) \/ RestoreFromBackup(p)) /\ Goto(r, "gate")
       \/ RemovesStaleNew(p) /\ BeginRmNew(p) /\ Goto(r, "rm_new")
       \/ Healthy(p) /\ UNCHANGED dirs /\ Goto(r, "gate")
    /\ UNCHANGED inputVars

FinishRmNew(r) ==
    /\ At(r, "rm_new")
    /\ EndRmNew(ProviderOf[r])
    /\ Goto(r, "gate")
    /\ UNCHANGED inputVars

RepairFails(r) ==
    /\ At(r, "rm_new") \/ (At(r, "repair") /\ ~Healthy(ProviderOf[r]))
    /\ Return(r, "startup_repair")
    /\ UNCHANGED <<dirs, inputVars>>

(* Mutant: the gate takes the presence of a bundle for granted.            *)
LiveBundleAssumed(p) == TRUE

(* The trading-calendar gate.                                              *)
LiveBundlePresent(p) == live[p].state = "whole"

CalendarGate(r) ==
    /\ At(r, "gate")
    /\ \E closedDay \in BOOLEAN :
        IF closedDay /\ r \notin Backfill /\ LiveBundlePresent(ProviderOf[r])
        THEN Return(r, "noop")
        ELSE Goto(r, "fetch")
    /\ UNCHANGED <<dirs, inputVars>>

(* config.allow_holey_fetch, as the fetch gate and build_plan's --allow-   *)
(* holey-fetch for 05 read it; the mutant lets every run through.          *)
HoleyAlwaysAllowed(r) == TRUE

HoleyAllowed(r) == r \in AllowHoley

(* Stage 1.  rc 0 clean, 3 with holes, anything else a hard failure; the   *)
(* quarantine of a run with a policy is validated on what was fetched.     *)
Fetch(r) ==
    /\ At(r, "fetch")
    /\ \E rc \in {0, 1, 3}, quarantine \in {"none", "qualified", "refused"} :
        /\ quarantine # "none" => r \in Quarantine /\ rc # 1
        /\ quarantine = "qualified" => rc = 3
        /\ dump' = [dump EXCEPT ![DumpOf[r]] = [by |-> epoch[r], holes |-> rc # 0]]
        /\ qualified' = [qualified EXCEPT ![r] = quarantine = "qualified"]
        /\ IF quarantine = "refused" \/ rc = 1
              \/ (rc = 3 /\ ~HoleyAllowed(r) /\ quarantine # "qualified")
           THEN /\ stage' = [stage EXCEPT ![r] = "returned"]
                /\ result' = [result EXCEPT ![r] = "fetch"]
           ELSE /\ stage' = [stage EXCEPT ![r] = "snapshot"]
                /\ UNCHANGED result
    /\ UNCHANGED <<lockVars, dirs, registry, epoch, clock, recordVars>>

(* Mutant: the bins are built before this run's registry.                  *)
SnapshotThenBins(r) ==
    /\ At(r, "snapshot")
    /\ Goto(r, "bins")
    /\ UNCHANGED <<dirs, inputVars>>

(* Stage 2: _verify_snapshot_refreshed.                                    *)
Snapshot(r) ==
    /\ At(r, "snapshot")
    /\ \/ Goto(r, "registry")
       \/ ~HoleyAllowed(r) /\ Return(r, "snapshot")
    /\ UNCHANGED <<dirs, inputVars>>

(* Stage 3: 02, 05, 03, 04, 07.  02 rewrites the registry; 05 replaces the *)
(* staging directory in one rename; 03, 04 and 07 then write into it.      *)
BuildRegistry(r) ==
    /\ At(r, "registry")
    /\ registry' = [registry EXCEPT ![RegistryOf[r]] = epoch[r]]
    /\ Goto(r, "bins")
    /\ UNCHANGED <<dirs, dump>>

Inputs(r) == {dump[DumpOf[r]].by, registry[RegistryOf[r]]}

(* qlib_bin_builder.build refuses a holey dump nobody sanctioned.          *)
BuildBins(r) ==
    /\ At(r, "bins")
    /\ dump[DumpOf[r]].holes => HoleyAllowed(r) \/ qualified[r]
    /\ new' = [new EXCEPT ![ProviderOf[r]] =
                [state |-> "partial", epoch |-> epoch[r], inputs |-> Inputs(r),
                 holes |-> dump[DumpOf[r]].holes, validated |-> FALSE]]
    /\ Goto(r, "membership")
    /\ UNCHANGED <<live, bak, inputVars>>

NextRebuildStage(s) ==
    CASE s = "membership" -> "universe" [] s = "universe" -> "benchmark"

Enrich(r, s) ==
    /\ At(r, s) /\ s \in {"membership", "universe"}
    /\ Exists(new[ProviderOf[r]])
    /\ new' = [new EXCEPT ![ProviderOf[r]].inputs = @ \cup Inputs(r)]
    /\ Goto(r, NextRebuildStage(s))
    /\ UNCHANGED <<live, bak, inputVars>>

IngestBenchmark(r) ==
    /\ At(r, "benchmark")
    /\ Exists(new[ProviderOf[r]])
    /\ new' = [new EXCEPT ![ProviderOf[r]].state = "whole"]
    /\ Goto(r, "validate")
    /\ UNCHANGED <<live, bak, inputVars>>

RebuildFails(r) ==
    /\ pc[r] = "inside" /\ stage[r] \in RebuildStages
    /\ Return(r, stage[r])
    /\ UNCHANGED <<dirs, inputVars>>

(* Stage 4: rc 0 and rc 1 (warnings only) pass.                            *)
Validate(r) ==
    /\ At(r, "validate")
    /\ Exists(new[ProviderOf[r]])
    /\ new' = [new EXCEPT ![ProviderOf[r]].validated = TRUE]
    /\ Goto(r, IF qualified[r] THEN "verify_quarantine" ELSE "swap")
    /\ UNCHANGED <<live, bak, inputVars>>

ValidateFails(r) ==
    /\ At(r, "validate")
    /\ Return(r, "validate")
    /\ UNCHANGED <<dirs, inputVars>>

(* The staged bundle must still carry the holes its quarantine qualified.  *)
VerifyStagedQuarantine(r) ==
    /\ At(r, "verify_quarantine")
    /\ \/ new[ProviderOf[r]].holes /\ Goto(r, "swap")
       \/ Return(r, "validate")
    /\ UNCHANGED <<dirs, inputVars>>

(* Stage 5: swap, one step per directory operation.                        *)
SwapStarts(r) ==
    LET p == ProviderOf[r] IN
    /\ At(r, "swap")
    /\ Exists(new[p])
    /\ IF Exists(bak[p])
       THEN BeginRmBak(p) /\ Goto(r, "rm_bak")
       ELSE UNCHANGED dirs /\ Goto(r, "rename_live")
    /\ UNCHANGED inputVars

FinishRmBak(r) ==
    /\ At(r, "rm_bak")
    /\ EndRmBak(ProviderOf[r])
    /\ Goto(r, "rename_live")
    /\ UNCHANGED inputVars

SwapStage1(r) ==
    /\ At(r, "rename_live")
    /\ RenameLiveToBak(ProviderOf[r])
    /\ Goto(r, "rename_new")
    /\ UNCHANGED inputVars

(* Once the bundle is live, an interrupt can still come before the return. *)
SwapStage2(r) ==
    /\ At(r, "rename_new")
    /\ RenameNewToLive(ProviderOf[r])
    /\ Return(r, "ok") \/ (r \in Fallible /\ Return(r, "exception"))
    /\ UNCHANGED inputVars

(* Mutant: an OSError of the swap is swallowed.                            *)
SwapFailsSilently(r) ==
    /\ pc[r] = "inside" /\ stage[r] \in {"swap", "rm_bak", "rename_live", "rename_new"}
    /\ Return(r, "ok")
    /\ UNCHANGED <<dirs, inputVars>>

(* BundleSwapError (no staging directory) or an OSError of any step.       *)
SwapFails(r) ==
    /\ pc[r] = "inside" /\ stage[r] \in {"swap", "rm_bak", "rename_live", "rename_new"}
    /\ Return(r, "swap")
    /\ UNCHANGED <<dirs, inputVars>>
---------------------------------------------------------------------------
BodyStep(r) ==
    \/ RecordRunning(r) \/ RecordTerminal(r) \/ AppendLedger(r)
    \/ Repair(r) \/ FinishRmNew(r) \/ RepairFails(r)
    \/ CalendarGate(r) \/ Fetch(r) \/ Snapshot(r)
    \/ BuildRegistry(r) \/ BuildBins(r)
    \/ Enrich(r, "membership") \/ Enrich(r, "universe")
    \/ IngestBenchmark(r) \/ RebuildFails(r)
    \/ Validate(r) \/ ValidateFails(r) \/ VerifyStagedQuarantine(r)
    \/ SwapStarts(r) \/ FinishRmBak(r) \/ SwapStage1(r) \/ SwapStage2(r) \/ SwapFails(r)

Next == \E r \in Runs :
    \/ LockStep(r) \/ EnterBody(r) \/ LeaveBody(r) \/ KillRun(r)
    \/ BodyStep(r) \/ BodyRaises(r) \/ RecordInterrupted(r)

Spec == Init /\ [][Next]_vars

(* A scheduled process keeps executing.  Starting a run and every failure  *)
(* are left to chance.  DailyUpdateLoss states the specification with it.  *)
Fairness == \A r \in Runs :
    WF_vars(EnterBody(r) \/ LeaveBody(r) \/ BodyStep(r)
            \/ ((TryLock(r) \/ Refuse(r) \/ Release(r)) /\ UNCHANGED BodyVars))

---------------------------------------------------------------------------
(* "no observer ever sees a half-written bundle" (bundle_swap.py:109-111): *)
(* whatever lies at the live path is complete and was validated, at every  *)
(* moment, through crashes, failed renames and half-done rmtrees.          *)
LiveServable == \A p \in Providers : Exists(live[p]) => Servable(live[p])

(* "every interrupted state is repaired at the next startup"               *)
(* (bundle_swap.py:110-111, 14-19): a run that got past its startup repair *)
(* has a live bundle, or this machine has no bundle of any kind.           *)
RepairedAtGate ==
    \A r \in Runs : LET p == ProviderOf[r] IN
        At(r, "gate") /\ ~Exists(live[p]) => ~Exists(bak[p]) /\ ~Exists(new[p])

(* The backup is "an instant manual rollback" (bundle_swap.py:11-12): a    *)
(* complete backup is a validated generation, older than the live one, or  *)
(* older than the staged one in the window between the two renames.        *)
BackupIsOlder ==
    \A p \in Providers : bak[p].state = "whole" =>
        /\ bak[p].validated
        /\ LET current == IF Exists(live[p]) THEN live[p] ELSE new[p]
           IN  Servable(current) /\ bak[p].epoch < current.epoch

(* Runs of different providers share the dump and the registry             *)
(* (scripts/daily_update.py:122-125): a bundle that goes live was built    *)
(* from what its own run fetched, never from another run's half-time.      *)
BuiltFromOwnInputs ==
    \A p \in Providers : Exists(live[p]) => live[p].inputs = {live[p].epoch}

(* A dump with holes reaches the readers only in a bundle of a run whose   *)
(* operator allowed it or whose quarantine qualified it                    *)
(* (daily_update.py:1251-1283, 1333-1347, qlib_bin_builder.py:350).        *)
HolesAreSanctioned ==
    \A p \in Providers : live[p].holes =>
        \E r \in Runs : /\ epoch[r] = live[p].epoch
                        /\ r \in AllowHoley \/ qualified[r]

(* Exit 0 is never "green but empty" (daily_update.py:1209-1227): a run    *)
(* that reports success leaves readers a bundle, its own one unless the    *)
(* calendar gate made it a no-op.                                          *)
SuccessIsServed ==
    \A r \in Runs : LET p == ProviderOf[r] IN
        pc[r] = "inside" /\ stage[r] \in {"returned", "ledger"} =>
            /\ result[r] = "ok" => Servable(live[p]) /\ live[p].epoch = epoch[r]
            /\ result[r] = "noop" => Servable(live[p])

(* The records never run ahead of the disk (daily_update.py:1122-1141): a  *)
(* success the status artifact or the ledger tells of is on disk, in the   *)
(* live bundle or, inside a swap window, in the backup; later generations  *)
(* may have replaced it, an older one may not.                             *)
NewestKept(p) ==
    IF Exists(live[p]) THEN live[p].epoch ELSE IF Exists(bak[p]) THEN bak[p].epoch ELSE 0

RecordsNotAheadOfDisk ==
    \A p \in Providers :
        /\ status[p].state = "finished" /\ status[p].result = "ok"
             => status[p].epoch <= NewestKept(p)
        /\ \A i \in 1 .. Len(ledger[p]) :
             ledger[p][i][2] = "ok" => ledger[p][i][1] <= NewestKept(p)

(* The ledger is the history of the runs (daily_update.py:1134-1140): at   *)
(* most one line per run, in the order in which the runs had the lock.     *)
LedgerIsHistory ==
    \A p \in Providers : \A i, j \in 1 .. Len(ledger[p]) :
        i < j => ledger[p][i][1] < ledger[p][j][1]

(* No step undoes a promotion (bundle_swap.py:9-12): the newest generation *)
(* a provider keeps never gets older, and never disappears.                *)
NoRegression == [][\A p \in Providers : NewestKept(p) <= NewestKept(p)']_vars

(* Whoever holds the lock of a provider, a dump or a registry is alone     *)
(* with it (single_flight.py:230-247): what it protects, the directories,  *)
(* the records and the inputs, only changes in a step of the run that      *)
(* holds it.  A reader under the same lock sees one bundle throughout.     *)
OfProvider(p) == <<live[p], new[p], bak[p], status[p], ledger[p]>>

HeldInside(x) == \E r \in Runs : pc[r] = "inside" /\ lock[x] = r /\ x \in Needs[r]

FrozenUnderLock ==
    [][/\ \A p \in Providers : OfProvider(p)' # OfProvider(p) => HeldInside(p)
       /\ \A d \in Dumps : dump'[d] # dump[d] => HeldInside(d)
       /\ \A g \in Registries : registry'[g] # registry[g] => HeldInside(g)]_vars

(* Every run that got the locks gives them back.                           *)
EveryRunEnds == \A r \in Runs : pc[r] = "inside" ~> pc[r] = "gone"
===========================================================================
