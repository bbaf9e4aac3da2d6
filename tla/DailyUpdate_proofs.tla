------------------------- MODULE DailyUpdate_proofs -------------------------
(***************************************************************************)
(* Proofs about the daily update: for every set of runs, providers, dumps  *)
(* and registries, through kills, interrupts and OS errors at any step.    *)
(*                                                                         *)
(* The invariant is Inv: types, the lock invariant, what is always true of *)
(* the three directories of a provider (Disk), and what the run inside the *)
(* locks of a provider knows about them at each stage (Body).  On it rest  *)
(* the invariants of what a bundle was built from and of the records, and  *)
(* the refinement of ServedBundle.                                         *)
(***************************************************************************)
EXTENDS DailyUpdateRefines, DailyUpdateLoss, SingleFlight_proofs

(* A crash at any moment leaves the directories like this.                 *)
Disk(p) ==
    /\ live[p].epoch <= clock /\ new[p].epoch <= clock /\ bak[p].epoch <= clock
    /\ Exists(live[p]) => Servable(live[p])
    /\ bak[p].state = "whole" => bak[p].validated
    /\ bak[p].state = "whole" /\ Exists(live[p]) => bak[p].epoch < live[p].epoch
    /\ Exists(bak[p]) /\ ~Exists(live[p]) =>
         /\ bak[p].state = "whole"
         /\ Servable(new[p]) /\ bak[p].epoch < new[p].epoch

Staged == {"membership", "universe", "benchmark", "validate", "verify_quarantine",
           "swap", "rm_bak", "rename_live", "rename_new"}
Accepted == {"verify_quarantine", "swap", "rm_bak", "rename_live", "rename_new"}

(* What a run in the body knows; p is its provider.                        *)
Body(r, p) ==
    /\ epoch[r] <= clock
    /\ stage[r] \in {"begin"} \cup BodyStages =>
         live[p].epoch < epoch[r] /\ bak[p].epoch < epoch[r]
    /\ stage[r] \in {"begin", "repair"} => new[p].epoch < epoch[r]
    /\ stage[r] \in BodyStages \ {"repair", "rename_new"} /\ Exists(bak[p]) => Exists(live[p])
    /\ stage[r] = "gate" /\ ~Exists(live[p]) => ~Exists(new[p])
    /\ stage[r] \in Staged => Exists(new[p]) /\ new[p].epoch = epoch[r]
    /\ stage[r] = "validate" => new[p].state = "whole"
    /\ stage[r] \in Accepted => Servable(new[p])
    /\ stage[r] = "rm_bak" => bak[p].state = "partial"
    /\ stage[r] = "rename_live" => ~Exists(bak[p])
    /\ stage[r] = "rename_new" => ~Exists(live[p])
    /\ stage[r] \in {"returned", "ledger"} =>
         /\ result[r] = "ok" => Servable(live[p]) /\ live[p].epoch = epoch[r]
         /\ result[r] = "noop" => Servable(live[p])

Bodies == \A r \in Runs : pc[r] = "inside" => Body(r, ProviderOf[r])
Disks == \A p \in Providers : Disk(p)
DiskInv == Disks /\ Bodies
Inv == TypeOK /\ LockInv /\ DiskInv
---------------------------------------------------------------------------
(* Types.  OtherTypesOK is TypeOK without the part about the locks.        *)
OtherTypesOK ==
    /\ DirsTypeOK
    /\ dump \in [Dumps -> [by : Nat, holes : BOOLEAN]]
    /\ registry \in [Registries -> Nat]
    /\ stage \in [Runs -> Stages]
    /\ result \in [Runs -> Results]
    /\ qualified \in [Runs -> BOOLEAN]
    /\ epoch \in [Runs -> Nat]
    /\ clock \in Nat
    /\ status \in [Providers -> Status]
    /\ ledger \in [Providers -> Seq(Nat \X Results)]

(* What the assumption on the configuration says of one run.               *)
LEMMA RunConfig ==
    ASSUME NEW r \in Runs
    PROVE  /\ ProviderOf[r] \in Providers /\ ProviderOf[r] \in Needs[r]
           /\ DumpOf[r] \in Dumps /\ DumpOf[r] \in Needs[r]
           /\ RegistryOf[r] \in Registries /\ RegistryOf[r] \in Needs[r]
BY ConfigAssumption DEF Dumps, Registries

(* Every stage name an action assigns is one.                              *)
LEMMA StageNames ==
    /\ BodyStages \subseteq Stages /\ RebuildStages \subseteq BodyStages
    /\ RebuildStages \subseteq Results
    /\ {"out", "begin", "returned", "ledger", "leave"} \subseteq Stages
    /\ {"repair", "rm_new", "gate", "fetch", "snapshot", "registry", "bins", "membership",
        "universe", "benchmark", "validate", "verify_quarantine", "swap", "rm_bak",
        "rename_live", "rename_new"} \subseteq Stages
BY DEF Stages, BodyStages, RebuildStages, Results

(* The initial state is well typed.                                        *)
LEMMA InitTypes == Init => OtherTypesOK
<1> SUFFICES ASSUME Init PROVE OtherTypesOK
  OBVIOUS
<1>1. DirsTypeOK
  <2>1. NoDir \in Dir /\ Bundle(1) \in Dir /\ Bundle(2) \in Dir
    BY DEF Bundle, NoDir, Dir
  <2> QED
    BY <2>1 DEF Init, DirsInit, DirsTypeOK
<1>2. status \in [Providers -> Status]
  BY DEF Init, NoStatus, Status, Results
<1> QED
  BY <1>1, <1>2, StageNames DEF Init, OtherTypesOK, Results

(* The steps of the lock statement, a kill and an interrupt.               *)
LEMMA OuterTypes ==
    ASSUME OtherTypesOK, NEW r \in Runs,
           LockStep(r) \/ EnterBody(r) \/ LeaveBody(r) \/ KillRun(r) \/ RecordInterrupted(r)
    PROVE  OtherTypesOK'
<1>1. CASE LockStep(r)
  BY <1>1 DEF LockStep, BodyVars, dirs, inputVars, runVars, recordVars, OtherTypesOK, DirsTypeOK
<1>2. CASE EnterBody(r)
  BY <1>2, StageNames DEF EnterBody, dirs, inputVars, recordVars, OtherTypesOK, DirsTypeOK
<1>3. CASE LeaveBody(r) \/ KillRun(r)
  BY <1>3, StageNames DEF LeaveBody, KillRun, dirs, inputVars, recordVars, OtherTypesOK, DirsTypeOK
<1>4. CASE RecordInterrupted(r)
  BY <1>4, StageNames DEF RecordInterrupted, Goto, dirs, inputVars, recordVars, OtherTypesOK, DirsTypeOK
<1> QED
  BY <1>1, <1>2, <1>3, <1>4

(* The records.                                                            *)
LEMMA RecordTypes ==
    ASSUME OtherTypesOK, NEW r \in Runs,
           RecordRunning(r) \/ RecordTerminal(r) \/ AppendLedger(r)
    PROVE  OtherTypesOK'
<1>0. epoch[r] \in Nat /\ result[r] \in Results /\ ProviderOf[r] \in Providers
  BY RunConfig DEF OtherTypesOK
<1>1. StatusRecord(r, "running") \in Status /\ StatusRecord(r, "finished") \in Status
  BY <1>0 DEF StatusRecord, Status
<1>2. CASE RecordRunning(r) \/ RecordTerminal(r)
  BY <1>1, <1>2, StageNames DEF RecordRunning, RecordTerminal, WriteStatus, dirs, inputVars,
     OtherTypesOK, DirsTypeOK
<1>3. CASE AppendLedger(r)
  <2>1. <<epoch[r], result[r]>> \in Nat \X Results
    BY <1>0
  <2>2. Append(ledger[ProviderOf[r]], <<epoch[r], result[r]>>) \in Seq(Nat \X Results)
    BY <1>0, <2>1 DEF OtherTypesOK
  <2>3. ledger' \in [Providers -> Seq(Nat \X Results)]
    BY <1>3, <2>2 DEF AppendLedger, OtherTypesOK
  <2> QED
    BY <1>3, <2>3, StageNames DEF AppendLedger, dirs, inputVars, OtherTypesOK, DirsTypeOK
<1> QED
  BY <1>2, <1>3

(* What Goto and Return leave of the types when the step keeps the         *)
(* directories and the inputs typed.                                       *)
LEMMA StageTypes ==
    ASSUME OtherTypesOK, NEW r \in Runs, NEW s \in Stages, NEW res \in Results,
           Goto(r, s) \/ Return(r, res),
           DirsTypeOK', dump' \in [Dumps -> [by : Nat, holes : BOOLEAN]],
           registry' \in [Registries -> Nat]
    PROVE  OtherTypesOK'
BY StageNames DEF Goto, Return, recordVars, OtherTypesOK

(* Every directory operation of the repair and the swap.                   *)
LEMMA DirTypes ==
    ASSUME DirsTypeOK, NEW p \in Providers,
           \/ CompleteInterruptedSwap(p) \/ RestoreFromBackup(p) \/ BeginRmNew(p) \/ EndRmNew(p)
           \/ BeginRmBak(p) \/ EndRmBak(p) \/ RenameLiveToBak(p) \/ RenameNewToLive(p)
           \/ UNCHANGED dirs
    PROVE  DirsTypeOK'
<1>0. NoDir \in Dir /\ live[p] \in Dir /\ new[p] \in Dir /\ bak[p] \in Dir
  BY DEF NoDir, Dir, DirsTypeOK
<1>1. [new[p] EXCEPT !.state = "partial"] \in Dir /\ [bak[p] EXCEPT !.state = "partial"] \in Dir
  BY <1>0 DEF Dir
<1> QED
  BY <1>0, <1>1 DEF DirsTypeOK, dirs, CompleteInterruptedSwap, RestoreFromBackup, BeginRmNew,
     EndRmNew, BeginRmBak, EndRmBak, RenameLiveToBak, RenameNewToLive

(* Repair and swap: a directory operation, then Goto or Return.            *)
LEMMA DirectoryActionTypes ==
    ASSUME OtherTypesOK, NEW r \in Runs,
           \/ Repair(r) \/ FinishRmNew(r) \/ RepairFails(r)
           \/ SwapStarts(r) \/ FinishRmBak(r) \/ SwapStage1(r) \/ SwapStage2(r) \/ SwapFails(r)
    PROVE  OtherTypesOK'
<1>0. ProviderOf[r] \in Providers /\ DirsTypeOK /\ UNCHANGED inputVars
  BY RunConfig DEF OtherTypesOK, Repair, FinishRmNew, RepairFails, SwapStarts, FinishRmBak,
     SwapStage1, SwapStage2, SwapFails
<1>1. DirsTypeOK'
  BY <1>0, DirTypes DEF Repair, FinishRmNew, RepairFails, SwapStarts, FinishRmBak,
     SwapStage1, SwapStage2, SwapFails
<1>2. /\ dump' \in [Dumps -> [by : Nat, holes : BOOLEAN]]
      /\ registry' \in [Registries -> Nat]
  BY <1>0 DEF inputVars, OtherTypesOK
<1>3. \E s \in Stages, res \in Results : Goto(r, s) \/ Return(r, res)
  <2>1. \/ \E s \in {"gate", "rm_new", "rm_bak", "rename_live", "rename_new"} : Goto(r, s)
        \/ \E res \in {"startup_repair", "ok", "exception", "swap"} : Return(r, res)
    BY DEF Repair, FinishRmNew, RepairFails, SwapStarts, FinishRmBak, SwapStage1,
       SwapStage2, SwapFails
  <2> QED
    BY <2>1, StageNames DEF Results
<1> QED
  BY <1>1, <1>2, <1>3, StageTypes

(* The steps that decide without writing a directory or an input.          *)
LEMMA DecisionTypes ==
    ASSUME OtherTypesOK, NEW r \in Runs,
           \/ CalendarGate(r) \/ Snapshot(r) \/ RebuildFails(r) \/ ValidateFails(r)
           \/ VerifyStagedQuarantine(r) \/ BodyRaises(r)
    PROVE  OtherTypesOK'
<1>1. UNCHANGED <<dirs, inputVars>>
  BY DEF CalendarGate, Snapshot, RebuildFails, ValidateFails, VerifyStagedQuarantine, BodyRaises
<1>2. /\ DirsTypeOK' /\ dump' \in [Dumps -> [by : Nat, holes : BOOLEAN]]
      /\ registry' \in [Registries -> Nat]
  BY <1>1 DEF inputVars, dirs, DirsTypeOK, OtherTypesOK
<1>3. \E s \in Stages, res \in Results : Goto(r, s) \/ Return(r, res)
  <2>1. \/ \E s \in {"fetch", "registry", "swap"} : Goto(r, s)
        \/ \E res \in {"noop", "snapshot", "validate", "exception"} \cup RebuildStages :
             Return(r, res)
    BY DEF CalendarGate, Snapshot, RebuildFails, ValidateFails, VerifyStagedQuarantine, BodyRaises
  <2> QED
    BY <2>1, StageNames DEF Results
<1> QED
  BY <1>2, <1>3, StageTypes

(* The staging directory 05 writes, and what 03, 04, 07 and the validator  *)
(* make of it.                                                             *)
LEMMA BuildTypes ==
    ASSUME OtherTypesOK, NEW r \in Runs,
           \/ BuildBins(r) \/ Enrich(r, "membership") \/ Enrich(r, "universe")
           \/ IngestBenchmark(r) \/ Validate(r)
    PROVE  OtherTypesOK'
<1>0. /\ ProviderOf[r] \in Providers /\ DirsTypeOK /\ new[ProviderOf[r]] \in Dir
      /\ dump[DumpOf[r]] \in [by : Nat, holes : BOOLEAN] /\ registry[RegistryOf[r]] \in Nat
      /\ epoch[r] \in Nat
  BY RunConfig DEF OtherTypesOK, DirsTypeOK
<1>1. Inputs(r) \in SUBSET Nat /\ dump[DumpOf[r]].holes \in BOOLEAN
  BY <1>0 DEF Inputs
<1>2. new' \in [Providers -> Dir]
  <2>1. CASE BuildBins(r)
    BY <1>0, <1>1, <2>1 DEF BuildBins, Dir, DirsTypeOK
  <2>2. CASE Enrich(r, "membership") \/ Enrich(r, "universe")
    <3>1. [new[ProviderOf[r]] EXCEPT !.inputs = @ \cup Inputs(r)] \in Dir
      BY <1>0, <1>1 DEF Dir
    <3> QED
      BY <1>0, <2>2, <3>1 DEF Enrich, DirsTypeOK
  <2>3. CASE IngestBenchmark(r) \/ Validate(r)
    <3>1. /\ [new[ProviderOf[r]] EXCEPT !.state = "whole"] \in Dir
          /\ [new[ProviderOf[r]] EXCEPT !.validated = TRUE] \in Dir
      BY <1>0 DEF Dir
    <3> QED
      BY <1>0, <2>3, <3>1 DEF IngestBenchmark, Validate, DirsTypeOK
  <2> QED
    BY <2>1, <2>2, <2>3
<1>3. UNCHANGED <<live, bak, inputVars>>
  BY DEF BuildBins, Enrich, IngestBenchmark, Validate
<1>4. /\ DirsTypeOK' /\ dump' \in [Dumps -> [by : Nat, holes : BOOLEAN]]
      /\ registry' \in [Registries -> Nat]
  BY <1>2, <1>3 DEF inputVars, DirsTypeOK, OtherTypesOK
<1>5. \E s \in {"membership", "universe", "benchmark", "validate", "verify_quarantine", "swap"} :
         Goto(r, s)
  BY DEF BuildBins, Enrich, NextRebuildStage, IngestBenchmark, Validate
<1> QED
  BY <1>4, <1>5, StageTypes, StageNames DEF Results

(* The fetch and the registry write the shared inputs.                     *)
LEMMA InputTypes ==
    ASSUME OtherTypesOK, NEW r \in Runs, Fetch(r) \/ BuildRegistry(r)
    PROVE  OtherTypesOK'
<1>0. DumpOf[r] \in Dumps /\ RegistryOf[r] \in Registries /\ epoch[r] \in Nat
  BY RunConfig DEF OtherTypesOK
<1>1. CASE Fetch(r)
  <2>1. PICK rc \in {0, 1, 3}, quarantine \in {"none", "qualified", "refused"} :
          /\ dump' = [dump EXCEPT ![DumpOf[r]] = [by |-> epoch[r], holes |-> rc # 0]]
          /\ qualified' = [qualified EXCEPT ![r] = quarantine = "qualified"]
          /\ \/ /\ stage' = [stage EXCEPT ![r] = "returned"]
                /\ result' = [result EXCEPT ![r] = "fetch"]
             \/ /\ stage' = [stage EXCEPT ![r] = "snapshot"]
                /\ UNCHANGED result
    BY <1>1, Zenon DEF Fetch
  <2>2. [by |-> epoch[r], holes |-> rc # 0] \in [by : Nat, holes : BOOLEAN]
    BY <1>0
  <2>3. dump' \in [Dumps -> [by : Nat, holes : BOOLEAN]]
    BY <1>0, <2>1, <2>2 DEF OtherTypesOK
  <2>4. qualified' \in [Runs -> BOOLEAN]
    BY <2>1 DEF OtherTypesOK
  <2>5. stage' \in [Runs -> Stages] /\ result' \in [Runs -> Results]
    BY <2>1, StageNames DEF OtherTypesOK, Results
  <2>6. UNCHANGED <<live, new, bak, registry, epoch, clock, status, ledger>>
    BY <1>1 DEF Fetch, dirs, recordVars
  <2> QED
    BY <2>3, <2>4, <2>5, <2>6 DEF OtherTypesOK, DirsTypeOK
<1>2. CASE BuildRegistry(r)
  <2>1. registry' \in [Registries -> Nat] /\ UNCHANGED <<live, new, bak, dump>> /\ Goto(r, "bins")
    BY <1>0, <1>2 DEF BuildRegistry, OtherTypesOK, dirs
  <2> QED
    BY <2>1, StageTypes, StageNames DEF OtherTypesOK, DirsTypeOK, Results
<1> QED
  BY <1>1, <1>2
---------------------------------------------------------------------------
(* The locks.  The body never touches them, so what is proved of           *)
(* SingleFlight alone holds of the whole update.                           *)
LEMMA BodyKeepsLocks ==
    ASSUME NEW r \in Runs, BodyStep(r) \/ BodyRaises(r) \/ RecordInterrupted(r)
    PROVE  pc[r] = "inside" /\ UNCHANGED lockVars
BY DEF BodyStep, BodyRaises, RecordInterrupted, RecordRunning, RecordTerminal, AppendLedger,
   Repair, FinishRmNew, RepairFails, CalendarGate, Fetch, Snapshot, BuildRegistry, BuildBins,
   Enrich, IngestBenchmark, RebuildFails, Validate, ValidateFails, VerifyStagedQuarantine,
   SwapStarts, FinishRmBak, SwapStage1, SwapStage2, SwapFails, At, Goto, Return

(* A step of the update is a step of the locks, or none.                   *)
LEMMA LockLift == ASSUME LockInv, [Next]_vars PROVE LockInv'
<1>1. CASE UNCHANGED vars
  BY <1>1, LockStutterInv DEF vars
<1>2. ASSUME NEW r \in Runs, LockStep(r) \/ EnterBody(r) \/ LeaveBody(r) \/ KillRun(r)
      PROVE  LockInv'
  BY <1>2, StartInv, TryLockInv, RefuseInv, UnlockInv, ExitInv, SetupErrorInv, EnterInv,
     LeaveInv, KillInv DEF LockStep, EnterBody, LeaveBody, KillRun
<1>3. ASSUME NEW r \in Runs, BodyStep(r) \/ BodyRaises(r) \/ RecordInterrupted(r)
      PROVE  LockInv'
  BY <1>3, BodyKeepsLocks, LockStutterInv
<1> QED
  BY <1>1, <1>2, <1>3 DEF Next

(* The run inside the locks of a provider is alone with it.                *)
LEMMA OneInside ==
    ASSUME LockInv, NEW r \in Runs, NEW s \in Runs, pc[r] = "inside", pc[s] = "inside",
           ProviderOf[r] = ProviderOf[s]
    PROVE  r = s
BY InvExcludes, RunConfig DEF MutualExclusion

(* The body of a run, by the lemmas about its actions.                     *)
LEMMA BodyTypes ==
    ASSUME OtherTypesOK, NEW r \in Runs, BodyStep(r)
    PROVE  OtherTypesOK'
BY RecordTypes, DirectoryActionTypes, DecisionTypes, BuildTypes, InputTypes DEF BodyStep

(* Every step keeps the types.                                             *)
LEMMA TypesStep == ASSUME OtherTypesOK, [Next]_vars PROVE OtherTypesOK'
<1>1. CASE UNCHANGED vars
  BY <1>1 DEF vars, dirs, inputVars, runVars, recordVars, OtherTypesOK, DirsTypeOK
<1>2. CASE Next
  BY <1>2, OuterTypes, BodyTypes, DecisionTypes DEF Next
<1> QED
  BY <1>1, <1>2

(* The two parts of the type invariant.                                    *)
LEMMA TypeParts == TypeOK <=> LockTypeOK /\ OtherTypesOK
BY DEF TypeOK, OtherTypesOK

(* Every variable keeps its type.                                          *)
THEOREM UpdateTypes == Spec => []TypeOK
<1>1. Init => LockInv /\ OtherTypesOK
  BY InitTypes, LockInitInv DEF Init
<1>2. LockInv /\ OtherTypesOK /\ [Next]_vars => (LockInv /\ OtherTypesOK)'
  BY LockLift, TypesStep
<1>3. LockInv /\ OtherTypesOK => TypeOK
  BY TypeParts DEF LockInv
<1> QED
  BY <1>1, <1>2, <1>3, PTL DEF Spec

(* The locks exclude in the whole update too: the runs that share a        *)
(* provider, a dump or a registry are never in the body together.          *)
THEOREM UpdateExclusion == Spec => []MutualExclusion
<1>1. Init => LockInv
  BY LockInitInv DEF Init
<1>2. LockInv /\ [Next]_vars => LockInv'
  BY LockLift
<1> QED
  BY <1>1, <1>2, InvExcludes, PTL DEF Spec
---------------------------------------------------------------------------
(* The directories.  A step of the run inside the locks of a provider      *)
(* writes that provider's directories at most.                             *)
OnlyAt(r) ==
    \A q \in Providers : q # ProviderOf[r] =>
        live'[q] = live[q] /\ new'[q] = new[q] /\ bak'[q] = bak[q]

OnlyBy(r) ==
    /\ pc' = pc /\ clock' = clock /\ epoch' = epoch
    /\ \A s \in Runs : s # r => stage'[s] = stage[s] /\ result'[s] = result[s]

(* So a step inside is right when it is right for its own provider.        *)
LEMMA Local ==
    ASSUME Inv, NEW r \in Runs, pc[r] = "inside", OnlyAt(r), OnlyBy(r),
           Disk(ProviderOf[r])', Body(r, ProviderOf[r])'
    PROVE  DiskInv'
<1>1. Disks'
  <2> SUFFICES ASSUME NEW q \in Providers PROVE Disk(q)'
    BY DEF Disks
  <2>1. CASE q = ProviderOf[r]
    BY <2>1
  <2>2. CASE q # ProviderOf[r]
    BY <2>2 DEF OnlyAt, OnlyBy, Disk, Inv, DiskInv, Disks
  <2> QED
    BY <2>1, <2>2
<1>2. Bodies'
  <2> SUFFICES ASSUME NEW s \in Runs, pc'[s] = "inside" PROVE Body(s, ProviderOf[s])'
    BY DEF Bodies
  <2>1. CASE s = r
    BY <2>1
  <2>2. CASE s # r
    <3>1. pc[s] = "inside" /\ Body(s, ProviderOf[s]) /\ ProviderOf[s] \in Providers
      BY RunConfig DEF OnlyBy, Inv, DiskInv, Bodies
    <3>2. ProviderOf[s] # ProviderOf[r]
      BY <2>2, <3>1, OneInside DEF Inv
    <3>3. /\ live'[ProviderOf[s]] = live[ProviderOf[s]]
          /\ new'[ProviderOf[s]] = new[ProviderOf[s]]
          /\ bak'[ProviderOf[s]] = bak[ProviderOf[s]]
      BY <3>1, <3>2 DEF OnlyAt
    <3> QED
      BY <2>2, <3>1, <3>3 DEF OnlyBy, Body
  <2> QED
    BY <2>1, <2>2
<1> QED
  BY <1>1, <1>2 DEF DiskInv

(* What is known where run r stands.                                       *)
LEMMA Here ==
    ASSUME Inv, NEW r \in Runs, pc[r] = "inside"
    PROVE  /\ ProviderOf[r] \in Providers
           /\ Disk(ProviderOf[r]) /\ Body(r, ProviderOf[r])
           /\ live \in [Providers -> Dir] /\ new \in [Providers -> Dir]
           /\ bak \in [Providers -> Dir]
           /\ live[ProviderOf[r]] \in Dir /\ new[ProviderOf[r]] \in Dir
           /\ bak[ProviderOf[r]] \in Dir
           /\ epoch[r] \in Nat /\ clock \in Nat /\ stage \in [Runs -> Stages]
           /\ result \in [Runs -> Results]
BY RunConfig DEF Inv, TypeOK, DirsTypeOK, DiskInv, Disks, Bodies

(* What `Goto` does to the stage and the result of the run.                *)
LEMMA GotoBy ==
    ASSUME Inv, NEW r \in Runs, NEW s, Goto(r, s)
    PROVE  OnlyBy(r) /\ stage'[r] = s /\ result'[r] = result[r]
BY DEF Goto, OnlyBy, lockVars, Inv, TypeOK

(* What `Return` does to them.                                             *)
LEMMA ReturnBy ==
    ASSUME Inv, NEW r \in Runs, NEW res, Return(r, res)
    PROVE  OnlyBy(r) /\ stage'[r] = "returned" /\ result'[r] = res
BY DEF Return, OnlyBy, lockVars, Inv, TypeOK

(* A step that writes no directory and goes where less is required.        *)
LEMMA DirsUnchanged ==
    ASSUME Inv, NEW r \in Runs, pc[r] = "inside", UNCHANGED dirs, OnlyBy(r),
           Body(r, ProviderOf[r])'
    PROVE  DiskInv'
<1>1. OnlyAt(r) /\ Disk(ProviderOf[r])'
  BY Here DEF dirs, OnlyAt, OnlyBy, Disk
<1> QED
  BY <1>1, Local

(* A return other than a success, and the end of the body, claim nothing.  *)
LEMMA GivingUp ==
    ASSUME Inv, NEW r \in Runs, pc[r] = "inside", UNCHANGED dirs,
           \/ Goto(r, "leave")
           \/ \E res \in Results \ {"ok", "noop"} : Return(r, res)
    PROVE  DiskInv'
<1>1. OnlyBy(r) /\ (stage'[r] = "leave" \/ (stage'[r] = "returned" /\ result'[r] \notin {"ok", "noop"}))
  BY GotoBy, ReturnBy
<1>2. Body(r, ProviderOf[r])'
  BY <1>1, Here DEF Body, OnlyBy, dirs, BodyStages, RebuildStages, Staged, Accepted
<1> QED
  BY <1>1, <1>2, DirsUnchanged
---------------------------------------------------------------------------
(* Outside the body, on the way into it and out of it.                     *)
LEMMA OuterDisks ==
    ASSUME Inv, NEW r \in Runs, LockStep(r) \/ EnterBody(r) \/ LeaveBody(r) \/ KillRun(r)
    PROVE  DiskInv'
<1>0. /\ DiskInv /\ clock \in Nat /\ pc \in [Runs -> Phases]
      /\ epoch \in [Runs -> Nat] /\ stage \in [Runs -> Stages]
  BY DEF Inv, TypeOK, LockTypeOK
<1>1. CASE LockStep(r) \/ LeaveBody(r) \/ KillRun(r)
  <2>1. UNCHANGED <<live, new, bak, clock, epoch, result>>
    BY <1>1 DEF LockStep, LeaveBody, KillRun, BodyVars, dirs, runVars
  <2>2. \A s \in Runs : pc'[s] = "inside" => pc[s] = "inside" /\ stage'[s] = stage[s]
    BY <1>0, <1>1 DEF LockStep, LeaveBody, KillRun, BodyVars, runVars, Start, TryLock, Refuse,
       Unlock, Exit, SetupError, Leave, Kill
  <2>3. Disks'
    BY <1>0, <2>1 DEF DiskInv, Disks, Disk
  <2>4. Bodies'
    BY <1>0, <2>1, <2>2 DEF DiskInv, Bodies, Body
  <2> QED
    BY <2>3, <2>4 DEF DiskInv
<1>2. CASE EnterBody(r)
  <2>1. UNCHANGED <<live, new, bak, result>> /\ clock' = clock + 1
    BY <1>2 DEF EnterBody, dirs
  <2>2. /\ \A s \in Runs : s # r =>
             pc'[s] = pc[s] /\ stage'[s] = stage[s] /\ epoch'[s] = epoch[s]
        /\ stage'[r] = "begin" /\ epoch'[r] = clock + 1
    BY <1>0, <1>2 DEF EnterBody, Enter
  <2>3. \A p \in Providers : live[p] \in Dir /\ new[p] \in Dir /\ bak[p] \in Dir
    BY DEF Inv, TypeOK, DirsTypeOK
  <2>4. Disks'
    <3> SUFFICES ASSUME NEW p \in Providers PROVE Disk(p)'
      BY DEF Disks
    <3>1. live[p].epoch \in Nat /\ new[p].epoch \in Nat /\ bak[p].epoch \in Nat
      BY <2>3 DEF Dir
    <3> QED
      BY <1>0, <2>1, <3>1 DEF DiskInv, Disks, Disk
  <2>5. Bodies'
    <3> SUFFICES ASSUME NEW s \in Runs, pc'[s] = "inside" PROVE Body(s, ProviderOf[s])'
      BY DEF Bodies
    <3>1. CASE s # r
      BY <1>0, <2>1, <2>2, <3>1 DEF DiskInv, Bodies, Body
    <3>2. CASE s = r
      <4> DEFINE p == ProviderOf[r]
      <4>1. /\ live[p].epoch \in Nat /\ new[p].epoch \in Nat /\ bak[p].epoch \in Nat
            /\ live[p].epoch <= clock /\ new[p].epoch <= clock /\ bak[p].epoch <= clock
        BY <1>0, <2>3, RunConfig DEF Dir, DiskInv, Disks, Disk
      <4> QED
        BY <1>0, <2>1, <2>2, <3>2, <4>1 DEF Body, BodyStages, RebuildStages, Staged, Accepted
    <3> QED
      BY <3>1, <3>2
  <2> QED
    BY <2>4, <2>5 DEF DiskInv
<1> QED
  BY <1>1, <1>2

(* The records are written from the stages before and after the body.      *)
LEMMA RecordDisks ==
    ASSUME Inv, NEW r \in Runs, RecordRunning(r) \/ RecordTerminal(r) \/ AppendLedger(r)
    PROVE  DiskInv'
<1>1. pc[r] = "inside" /\ UNCHANGED dirs
  BY DEF RecordRunning, RecordTerminal, AppendLedger, At
<1>2. /\ OnlyBy(r) /\ result'[r] = result[r]
      /\ \/ stage[r] = "begin" /\ stage'[r] = "repair"
         \/ stage[r] = "returned" /\ stage'[r] = "ledger"
         \/ stage'[r] = "leave"
  BY Here, <1>1 DEF RecordRunning, RecordTerminal, AppendLedger, At, OnlyBy, lockVars
<1>3. Body(r, ProviderOf[r])'
  BY <1>1, <1>2, Here DEF Body, OnlyBy, dirs, BodyStages, RebuildStages, Staged, Accepted
<1> QED
  BY <1>1, <1>2, <1>3, DirsUnchanged

(* Every failure and interrupt.                                            *)
LEMMA FailureDisks ==
    ASSUME Inv, NEW r \in Runs,
           \/ RepairFails(r) \/ RebuildFails(r) \/ ValidateFails(r) \/ SwapFails(r)
           \/ BodyRaises(r) \/ RecordInterrupted(r)
    PROVE  DiskInv'
<1>1. /\ pc[r] = "inside" /\ UNCHANGED dirs
      /\ \/ Goto(r, "leave")
         \/ \E res \in {"startup_repair", "validate", "swap", "exception"} \cup RebuildStages :
              Return(r, res)
  BY DEF RepairFails, RebuildFails, ValidateFails, SwapFails, BodyRaises, RecordInterrupted, At
<1>2. {"startup_repair", "validate", "swap", "exception"} \cup RebuildStages
        \subseteq Results \ {"ok", "noop"}
  BY DEF Results, RebuildStages
<1> QED
  BY <1>1, <1>2, GivingUp

(* Stage 0.  Both repairs of an interrupted swap put a validated bundle at *)
(* the live path; a stale staging directory is removed in two steps.       *)
LEMMA RepairDisks ==
    ASSUME Inv, NEW r \in Runs, Repair(r) \/ FinishRmNew(r)
    PROVE  DiskInv'
<1> DEFINE p == ProviderOf[r]
<1>0. /\ pc[r] = "inside" /\ Disk(p) /\ Body(r, p) /\ p \in Providers
      /\ stage[r] \in {"repair", "rm_new"} /\ stage[r] \in BodyStages
      /\ live[p].epoch \in Nat /\ new[p].epoch \in Nat /\ bak[p].epoch \in Nat
      /\ epoch[r] \in Nat /\ clock \in Nat
  BY Here DEF Repair, FinishRmNew, At, Dir, BodyStages
<1>1. OnlyBy(r) /\ stage'[r] \in {"gate", "rm_new"}
  BY GotoBy DEF Repair, FinishRmNew
<1>2. CASE stage[r] = "repair" /\ CompleteInterruptedSwap(p) /\ Goto(r, "gate")
  <2>1. /\ OnlyAt(r) /\ live'[p] = new[p] /\ new'[p] = NoDir /\ bak'[p] = bak[p]
        /\ stage'[r] = "gate" /\ ~Exists(live[p]) /\ Exists(bak[p])
    BY <1>0, <1>2, Here, GotoBy DEF CompleteInterruptedSwap, CompletesSwap, OnlyAt
  <2> QED
    BY <1>0, <1>1, <1>2, <2>1, Local DEF OnlyBy, Disk, Body, NoDir, Exists, Servable, BodyStages,
       RebuildStages, Staged, Accepted
<1>3. CASE stage[r] = "repair" /\ RestoreFromBackup(p) /\ Goto(r, "gate")
  <2>1. ~Exists(live[p]) /\ Exists(bak[p]) /\ ~Exists(new[p])
    BY <1>3 DEF RestoreFromBackup, RestoresBackup
  <2> QED
    BY <1>0, <2>1 DEF Disk, Exists, Servable
<1>4. CASE stage[r] = "repair" /\ RemovesStaleNew(p) /\ BeginRmNew(p) /\ Goto(r, "rm_new")
  <2>1. /\ OnlyAt(r) /\ live'[p] = live[p] /\ bak'[p] = bak[p]
        /\ new'[p] = [new[p] EXCEPT !.state = "partial"]
        /\ stage'[r] = "rm_new" /\ (Exists(live[p]) \/ ~Exists(bak[p]))
    BY <1>0, <1>4, Here, GotoBy DEF BeginRmNew, RemovesStaleNew, OnlyAt
  <2>2. new'[p].epoch = new[p].epoch
    BY <2>1, Here DEF Dir
  <2> QED
    BY <1>0, <1>1, <1>4, <2>1, <2>2, Local DEF OnlyBy, Disk, Body, Exists, BodyStages,
       RebuildStages, Staged, Accepted
<1>5. CASE stage[r] = "repair" /\ Healthy(p) /\ UNCHANGED dirs /\ Goto(r, "gate")
  <2>1. stage'[r] = "gate"
    BY <1>5, GotoBy
  <2>2. Body(r, p)'
    BY <1>0, <1>1, <1>5, <2>1 DEF OnlyBy, dirs, Healthy, Body, BodyStages, RebuildStages,
       Staged, Accepted
  <2> QED
    BY <1>0, <1>1, <1>5, <2>2, DirsUnchanged
<1>6. CASE FinishRmNew(r)
  <2>1. /\ OnlyAt(r) /\ live'[p] = live[p] /\ bak'[p] = bak[p] /\ new'[p] = NoDir
        /\ stage'[r] = "gate" /\ stage[r] = "rm_new"
    BY <1>0, <1>6, Here, GotoBy DEF FinishRmNew, EndRmNew, OnlyAt, At
  <2> QED
    BY <1>0, <1>1, <2>1, Local DEF OnlyBy, Disk, Body, NoDir, Exists, BodyStages,
       RebuildStages, Staged, Accepted
<1> QED
  BY <1>2, <1>3, <1>4, <1>5, <1>6 DEF Repair, At

(* The stages that decide or read: a no-op leaves a live bundle served.    *)
LEMMA DecisionDisks ==
    ASSUME Inv, NEW r \in Runs,
           CalendarGate(r) \/ Snapshot(r) \/ VerifyStagedQuarantine(r)
    PROVE  DiskInv'
<1> DEFINE p == ProviderOf[r]
<1>0. /\ pc[r] = "inside" /\ Disk(p) /\ Body(r, p) /\ UNCHANGED dirs
      /\ stage[r] \in {"gate", "snapshot", "verify_quarantine"}
  BY Here DEF CalendarGate, Snapshot, VerifyStagedQuarantine, At
<1>1. OnlyBy(r)
  BY GotoBy, ReturnBy DEF CalendarGate, Snapshot, VerifyStagedQuarantine
<1>2. \/ stage[r] \in {"gate", "snapshot"} /\ stage'[r] \in {"fetch", "registry"}
      \/ stage[r] = "verify_quarantine" /\ stage'[r] = "swap"
      \/ stage'[r] = "returned" /\ result'[r] \in {"snapshot", "validate"}
      \/ /\ stage[r] = "gate" /\ stage'[r] = "returned" /\ result'[r] = "noop"
         /\ live[p].state = "whole"
  BY GotoBy, ReturnBy DEF CalendarGate, Snapshot, VerifyStagedQuarantine, At, LiveBundlePresent
<1>3. Body(r, p)'
  BY <1>0, <1>1, <1>2 DEF OnlyBy, dirs, Disk, Body, Exists, BodyStages, RebuildStages, Staged,
     Accepted
<1> QED
  BY <1>0, <1>1, <1>3, DirsUnchanged

(* The fetch and the registry touch no directory.                          *)
LEMMA InputDisks ==
    ASSUME Inv, NEW r \in Runs, Fetch(r) \/ BuildRegistry(r)
    PROVE  DiskInv'
<1>1. /\ pc[r] = "inside" /\ UNCHANGED dirs /\ OnlyBy(r)
      /\ stage[r] \in {"fetch", "registry"}
      /\ \/ stage'[r] \in {"snapshot", "bins"}
         \/ stage'[r] = "returned" /\ result'[r] = "fetch"
  BY Here, GotoBy DEF Fetch, BuildRegistry, At, OnlyBy, lockVars
<1>2. Body(r, ProviderOf[r])'
  BY <1>1, Here DEF OnlyBy, dirs, Body, BodyStages, RebuildStages, Staged, Accepted
<1> QED
  BY <1>1, <1>2, DirsUnchanged

(* Stages 3 and 4 write the staging directory only; it carries the epoch   *)
(* of the run, and it is whole from the last rebuild step on.              *)
LEMMA BuildDisks ==
    ASSUME Inv, NEW r \in Runs,
           \/ BuildBins(r) \/ Enrich(r, "membership") \/ Enrich(r, "universe")
           \/ IngestBenchmark(r) \/ Validate(r)
    PROVE  DiskInv'
<1> DEFINE p == ProviderOf[r]
<1>0. /\ pc[r] = "inside" /\ Disk(p) /\ Body(r, p) /\ p \in Providers
      /\ live' = live /\ bak' = bak /\ new \in [Providers -> Dir] /\ new[p] \in Dir
      /\ stage[r] \in {"bins", "membership", "universe", "benchmark", "validate"}
      /\ epoch[r] \in Nat /\ clock \in Nat
  BY Here DEF BuildBins, Enrich, IngestBenchmark, Validate, At
<1>1. OnlyBy(r)
  BY GotoBy DEF BuildBins, Enrich, IngestBenchmark, Validate
<1>2. OnlyAt(r)
  BY <1>0 DEF OnlyAt, BuildBins, Enrich, IngestBenchmark, Validate
<1>3. /\ Exists(live[p]) \/ ~Exists(bak[p])
      /\ live[p].epoch < epoch[r] /\ bak[p].epoch < epoch[r] /\ epoch[r] <= clock
  BY <1>0 DEF Body, BodyStages, RebuildStages
<1>4. /\ new'[p].epoch = epoch[r] /\ Exists(new'[p])
      /\ \/ stage'[r] \in {"membership", "universe", "benchmark"}
         \/ stage'[r] = "validate" /\ new'[p].state = "whole"
         \/ stage'[r] \in {"verify_quarantine", "swap"} /\ Servable(new'[p])
  <2>1. CASE BuildBins(r)
    BY <1>0, <2>1, GotoBy DEF BuildBins, Exists
  <2>2. CASE Enrich(r, "membership") \/ Enrich(r, "universe")
    <3>1. new'[p] = [new[p] EXCEPT !.inputs = @ \cup Inputs(r)]
      BY <1>0, <2>2 DEF Enrich
    <3>2. new'[p].epoch = new[p].epoch /\ new'[p].state = new[p].state
      BY <1>0, <3>1 DEF Dir
    <3>3. Exists(new[p]) /\ new[p].epoch = epoch[r] /\ stage'[r] \in {"universe", "benchmark"}
      BY <1>0, <2>2, GotoBy DEF Enrich, NextRebuildStage, At, Body, Staged
    <3> QED
      BY <3>2, <3>3 DEF Exists
  <2>3. CASE IngestBenchmark(r)
    <3>1. new'[p] = [new[p] EXCEPT !.state = "whole"]
      BY <1>0, <2>3 DEF IngestBenchmark
    <3>2. new'[p].epoch = new[p].epoch /\ new'[p].state = "whole"
      BY <1>0, <3>1 DEF Dir
    <3>3. new[p].epoch = epoch[r] /\ stage'[r] = "validate"
      BY <1>0, <2>3, GotoBy DEF IngestBenchmark, At, Body, Staged
    <3> QED
      BY <3>2, <3>3 DEF Exists
  <2>4. CASE Validate(r)
    <3>1. new'[p] = [new[p] EXCEPT !.validated = TRUE]
      BY <1>0, <2>4 DEF Validate
    <3>2. new'[p].epoch = new[p].epoch /\ new'[p].state = new[p].state /\ new'[p].validated
      BY <1>0, <3>1 DEF Dir
    <3>3. /\ new[p].epoch = epoch[r] /\ new[p].state = "whole"
          /\ stage'[r] \in {"verify_quarantine", "swap"}
      BY <1>0, <2>4, GotoBy DEF Validate, At, Body, Staged
    <3> QED
      BY <3>2, <3>3 DEF Exists, Servable
  <2> QED
    BY <2>1, <2>2, <2>3, <2>4
<1>5. Disk(p)'
  BY <1>0, <1>1, <1>3, <1>4 DEF OnlyBy, Disk
<1>6. Body(r, p)'
  BY <1>0, <1>1, <1>3, <1>4 DEF OnlyBy, Body, BodyStages, RebuildStages, Staged, Accepted,
     Servable
<1> QED
  BY <1>0, <1>1, <1>2, <1>5, <1>6, Local

(* Stage 5.  The staged bundle is validated all along, so the window in    *)
(* which nothing is live always has a bundle to complete the swap with.    *)
LEMMA SwapDisks ==
    ASSUME Inv, NEW r \in Runs,
           SwapStarts(r) \/ FinishRmBak(r) \/ SwapStage1(r) \/ SwapStage2(r)
    PROVE  DiskInv'
<1> DEFINE p == ProviderOf[r]
<1>0. /\ pc[r] = "inside" /\ Disk(p) /\ Body(r, p) /\ p \in Providers
      /\ live[p].epoch \in Nat /\ new[p].epoch \in Nat /\ bak[p].epoch \in Nat
      /\ live[p] \in Dir /\ new[p] \in Dir /\ bak[p] \in Dir
      /\ epoch[r] \in Nat /\ clock \in Nat
      /\ stage[r] \in {"swap", "rm_bak", "rename_live", "rename_new"}
  BY Here DEF SwapStarts, FinishRmBak, SwapStage1, SwapStage2, At, Dir
<1>1. OnlyBy(r)
  BY GotoBy, ReturnBy DEF SwapStarts, FinishRmBak, SwapStage1, SwapStage2
<1>2. CASE SwapStarts(r)
  <2>1. CASE Exists(bak[p])
    <3>1. /\ OnlyAt(r) /\ live'[p] = live[p] /\ new'[p] = new[p]
          /\ bak'[p] = [bak[p] EXCEPT !.state = "partial"]
          /\ stage[r] = "swap" /\ stage'[r] = "rm_bak"
      BY <1>0, <1>2, <2>1, Here, GotoBy DEF SwapStarts, BeginRmBak, OnlyAt, At
    <3>2. bak'[p].epoch = bak[p].epoch /\ bak'[p].state = "partial"
      BY <1>0, <3>1 DEF Dir
    <3>3. Exists(live[p])
      BY <1>0, <2>1, <3>1 DEF Body, BodyStages
    <3>4. Disk(p)'
      BY <1>0, <1>1, <3>1, <3>2, <3>3 DEF OnlyBy, Disk, Exists
    <3>5. Body(r, p)'
      BY <1>0, <1>1, <3>1, <3>2, <3>3 DEF OnlyBy, Body, BodyStages, RebuildStages, Staged, Accepted
    <3> QED
      BY <1>0, <1>1, <3>1, <3>4, <3>5, Local
  <2>2. CASE ~Exists(bak[p])
    <3>1. UNCHANGED dirs /\ stage[r] = "swap" /\ stage'[r] = "rename_live"
      BY <1>2, <2>2, GotoBy DEF SwapStarts, At
    <3>2. Body(r, p)'
      BY <1>0, <1>1, <2>2, <3>1 DEF OnlyBy, dirs, Body, BodyStages, RebuildStages, Staged, Accepted
    <3> QED
      BY <1>0, <1>1, <3>1, <3>2, DirsUnchanged
  <2> QED
    BY <2>1, <2>2
<1>3. CASE FinishRmBak(r)
  <2>1. /\ OnlyAt(r) /\ live'[p] = live[p] /\ new'[p] = new[p] /\ bak'[p] = NoDir
        /\ stage[r] = "rm_bak" /\ stage'[r] = "rename_live"
    BY <1>0, <1>3, Here, GotoBy DEF FinishRmBak, EndRmBak, OnlyAt, At
  <2>2. Disk(p)'
    BY <1>0, <1>1, <2>1 DEF OnlyBy, Disk, NoDir, Exists
  <2>3. Body(r, p)'
    BY <1>0, <1>1, <2>1 DEF OnlyBy, Body, NoDir, Exists, BodyStages, RebuildStages, Staged, Accepted
  <2> QED
    BY <1>0, <1>1, <2>1, <2>2, <2>3, Local
<1>4. CASE SwapStage1(r)
  <2>0. stage[r] = "rename_live" /\ stage'[r] = "rename_new"
    BY <1>4, GotoBy DEF SwapStage1, At
  <2>1. CASE Exists(live[p])
    <3>1. OnlyAt(r) /\ live'[p] = NoDir /\ new'[p] = new[p] /\ bak'[p] = live[p]
      BY <1>0, <1>4, <2>1, Here DEF SwapStage1, RenameLiveToBak, OnlyAt
    <3>2. Disk(p)'
      BY <1>0, <1>1, <2>0, <2>1, <3>1 DEF OnlyBy, Disk, Body, NoDir, Exists, Servable, BodyStages,
         Staged, Accepted
    <3>3. Body(r, p)'
      BY <1>0, <1>1, <2>0, <3>1 DEF OnlyBy, Body, NoDir, Exists, BodyStages, RebuildStages,
         Staged, Accepted
    <3> QED
      BY <1>0, <1>1, <3>1, <3>2, <3>3, Local
  <2>2. CASE ~Exists(live[p])
    <3>1. UNCHANGED dirs
      BY <1>4, <2>2 DEF SwapStage1, RenameLiveToBak
    <3>2. Body(r, p)'
      BY <1>0, <1>1, <2>0, <2>2, <3>1 DEF OnlyBy, dirs, Body, BodyStages, RebuildStages, Staged,
         Accepted
    <3> QED
      BY <1>0, <1>1, <3>1, <3>2, DirsUnchanged
  <2> QED
    BY <2>1, <2>2
<1>5. CASE SwapStage2(r)
  <2>1. /\ OnlyAt(r) /\ live'[p] = new[p] /\ new'[p] = NoDir /\ bak'[p] = bak[p]
        /\ stage[r] = "rename_new" /\ stage'[r] = "returned" /\ ~Exists(live[p])
    BY <1>0, <1>5, Here, ReturnBy DEF SwapStage2, RenameNewToLive, OnlyAt, At
  <2>2. result'[r] \in {"ok", "exception"}
    BY <1>5, ReturnBy DEF SwapStage2
  <2>3. Servable(new[p]) /\ new[p].epoch = epoch[r] /\ bak[p].epoch < epoch[r]
    BY <1>0, <2>1 DEF Body, BodyStages, Staged, Accepted
  <2>4. Disk(p)'
    BY <1>0, <1>1, <2>1, <2>3 DEF OnlyBy, Disk, NoDir, Exists, Servable
  <2>5. Body(r, p)'
    BY <1>0, <1>1, <2>1, <2>2, <2>3 DEF OnlyBy, Body, BodyStages, RebuildStages, Staged, Accepted
  <2> QED
    BY <1>0, <1>1, <2>1, <2>4, <2>5, Local
<1> QED
  BY <1>2, <1>3, <1>4, <1>5
---------------------------------------------------------------------------
(* Every initial state satisfies the invariant.                            *)
LEMMA InvInit == Init => Inv
<1> SUFFICES ASSUME Init PROVE Inv
  OBVIOUS
<1>1. TypeOK /\ LockInv
  BY InitTypes, LockInitInv, TypeParts DEF Init, LockInv
<1>2. Disks
  BY DEF Init, DirsInit, Disks, Disk, NoDir, Bundle, Exists, Servable
<1>3. Bodies
  BY DEF Init, LockInit, Bodies
<1> QED
  BY <1>1, <1>2, <1>3 DEF Inv, DiskInv

(* The invariant is inductive.                                             *)
LEMMA InvStep == ASSUME Inv, [Next]_vars PROVE Inv'
<1>1. TypeOK' /\ LockInv'
  <2>1. LockInv' /\ OtherTypesOK'
    BY LockLift, TypesStep, TypeParts DEF Inv
  <2> QED
    BY <2>1 DEF LockInv, TypeOK, OtherTypesOK
<1>2. DiskInv'
  <2>1. CASE UNCHANGED vars
    BY <2>1 DEF vars, dirs, lockVars, runVars, Inv, DiskInv, Disks, Disk, Bodies, Body
  <2>2. CASE Next
    BY <2>2, OuterDisks, RecordDisks, FailureDisks, RepairDisks, DecisionDisks, InputDisks,
       BuildDisks, SwapDisks DEF Next, BodyStep
  <2> QED
    BY <2>1, <2>2
<1> QED
  BY <1>1, <1>2 DEF Inv

(* The inductive invariant of the whole update.                            *)
THEOREM UpdateInvariant == Spec => []Inv
<1>1. Init => Inv
  BY InvInit
<1>2. Inv /\ [Next]_vars => Inv'
  BY InvStep
<1> QED
  BY <1>1, <1>2, PTL DEF Spec

(* Whatever is at the live path is complete and validated, at every        *)
(* moment, through kills, failed renames and half-done removals.           *)
THEOREM LiveIsServable == Spec => []LiveServable
<1>1. Inv => LiveServable
  BY DEF Inv, DiskInv, Disks, Disk, LiveServable
<1> QED
  BY <1>1, UpdateInvariant, PTL

(* A run past its startup repair has a live bundle, unless the machine     *)
(* never built one.                                                        *)
THEOREM GateIsRepaired == Spec => []RepairedAtGate
<1>1. Inv => RepairedAtGate
  BY DEF Inv, DiskInv, Bodies, Body, RepairedAtGate, At, BodyStages
<1> QED
  BY <1>1, UpdateInvariant, PTL

(* The backup is a validated generation, older than the one it backs up.   *)
THEOREM BackupIsRollback == Spec => []BackupIsOlder
<1>1. Inv => BackupIsOlder
  BY DEF Inv, DiskInv, Disks, Disk, BackupIsOlder, Exists
<1> QED
  BY <1>1, UpdateInvariant, PTL

(* A run that reports success leaves readers a bundle; unless it was a     *)
(* no-op, its own.                                                         *)
THEOREM SuccessServes == Spec => []SuccessIsServed
<1>1. Inv => SuccessIsServed
  BY DEF Inv, DiskInv, Bodies, Body, SuccessIsServed
<1> QED
  BY <1>1, UpdateInvariant, PTL
---------------------------------------------------------------------------
(* What a step does to the live bundles and the backups: nothing, or one   *)
(* of the renames or removals of the run's own provider, in its stage.     *)
LiveOrBakStep(r) ==
    LET p == ProviderOf[r] IN
    \/ CompleteInterruptedSwap(p) \/ RestoreFromBackup(p)
    \/ stage[r] = "swap" /\ BeginRmBak(p)
    \/ stage[r] = "rm_bak" /\ EndRmBak(p)
    \/ stage[r] = "rename_live" /\ RenameLiveToBak(p)
    \/ stage[r] = "rename_new" /\ RenameNewToLive(p)

(* No other step touches them.                                             *)
LEMMA LiveOrBakSteps ==
    ASSUME [Next]_vars
    PROVE  UNCHANGED <<live, bak>> \/ \E r \in Runs : pc[r] = "inside" /\ LiveOrBakStep(r)
<1>1. CASE UNCHANGED vars
  BY <1>1 DEF vars, dirs
<1>2. ASSUME NEW r \in Runs, LockStep(r) \/ EnterBody(r) \/ LeaveBody(r) \/ KillRun(r)
      PROVE  UNCHANGED <<live, bak>>
  BY <1>2 DEF LockStep, BodyVars, EnterBody, LeaveBody, KillRun, dirs
<1>3. ASSUME NEW r \in Runs, BodyRaises(r) \/ RecordInterrupted(r)
      PROVE  UNCHANGED <<live, bak>>
  BY <1>3 DEF BodyRaises, RecordInterrupted, dirs
<1>4. ASSUME NEW r \in Runs,
             \/ RecordRunning(r) \/ RecordTerminal(r) \/ AppendLedger(r)
             \/ CalendarGate(r) \/ Fetch(r) \/ Snapshot(r) \/ BuildRegistry(r) \/ BuildBins(r)
             \/ Enrich(r, "membership") \/ Enrich(r, "universe") \/ IngestBenchmark(r)
             \/ RebuildFails(r) \/ Validate(r) \/ ValidateFails(r) \/ VerifyStagedQuarantine(r)
             \/ RepairFails(r) \/ FinishRmNew(r) \/ SwapFails(r)
      PROVE  UNCHANGED <<live, bak>>
  BY <1>4 DEF RecordRunning, RecordTerminal, AppendLedger, CalendarGate, Fetch, Snapshot,
     BuildRegistry, BuildBins, Enrich, IngestBenchmark, RebuildFails, Validate, ValidateFails,
     VerifyStagedQuarantine, RepairFails, FinishRmNew, EndRmNew, SwapFails, dirs
<1>5. ASSUME NEW r \in Runs,
             \/ Repair(r) \/ SwapStarts(r) \/ FinishRmBak(r) \/ SwapStage1(r) \/ SwapStage2(r)
      PROVE  UNCHANGED <<live, bak>> \/ (pc[r] = "inside" /\ LiveOrBakStep(r))
  BY <1>5 DEF Repair, BeginRmNew, SwapStarts, FinishRmBak, SwapStage1, SwapStage2, At, dirs,
     LiveOrBakStep
<1> QED
  BY <1>1, <1>2, <1>3, <1>4, <1>5 DEF Next, BodyStep

(* The newest generation kept never gets older.                            *)
LEMMA KeepsNewest ==
    ASSUME Inv, [Next]_vars, NEW p \in Providers
    PROVE  /\ NewestKept(p) \in Nat /\ NewestKept(p)' \in Nat
           /\ NewestKept(p) <= NewestKept(p)'
<1>0. /\ live \in [Providers -> Dir] /\ bak \in [Providers -> Dir] /\ new \in [Providers -> Dir]
      /\ live'[p].epoch \in Nat /\ bak'[p].epoch \in Nat
  BY InvStep DEF Inv, TypeOK, DirsTypeOK, Dir
<1>1. live[p].epoch \in Nat /\ bak[p].epoch \in Nat /\ new[p].epoch \in Nat
  BY <1>0 DEF Dir
<1>2. NewestKept(p) \in Nat /\ NewestKept(p)' \in Nat
  BY <1>0, <1>1 DEF NewestKept
<1>3. CASE UNCHANGED <<live, bak>>
  BY <1>1, <1>3 DEF NewestKept
<1>4. ASSUME NEW r \in Runs, pc[r] = "inside", LiveOrBakStep(r)
      PROVE  NewestKept(p) <= NewestKept(p)'
  <2>1. CASE p # ProviderOf[r]
    <3>1. live'[p] = live[p] /\ bak'[p] = bak[p]
      BY <1>0, <1>4, <2>1 DEF LiveOrBakStep, CompleteInterruptedSwap, RestoreFromBackup, BeginRmBak,
         EndRmBak, RenameLiveToBak, RenameNewToLive, dirs
    <3> QED
      BY <1>1, <3>1 DEF NewestKept
  <2>2. CASE p = ProviderOf[r]
    <3>0. Disk(p) /\ Body(r, p)
      BY <1>4, <2>2, Here
    <3>1. CASE CompleteInterruptedSwap(p)
      BY <1>0, <1>1, <3>0, <3>1 DEF CompleteInterruptedSwap, CompletesSwap, Disk, NewestKept,
         Exists, Servable
    <3>2. CASE RestoreFromBackup(p)
      BY <1>0, <1>1, <3>0, <3>2 DEF RestoreFromBackup, RestoresBackup, Disk, Exists, Servable
    <3>3. CASE \/ stage[r] = "swap" /\ BeginRmBak(p)
               \/ stage[r] = "rm_bak" /\ EndRmBak(p)
      <4>1. Exists(live[p]) /\ live' = live
        BY <3>0, <3>3 DEF Body, BeginRmBak, EndRmBak, Exists, BodyStages
      <4> QED
        BY <1>1, <4>1 DEF NewestKept
    <3>4. CASE RenameLiveToBak(p)
      <4>1. CASE Exists(live[p])
        <5>1. live'[p] = NoDir /\ bak'[p] = live[p]
          BY <1>0, <3>4, <4>1 DEF RenameLiveToBak
        <5> QED
          BY <1>1, <4>1, <5>1 DEF NewestKept, NoDir, Exists
      <4>2. CASE ~Exists(live[p])
        BY <1>1, <3>4, <4>2 DEF RenameLiveToBak, NewestKept, dirs
      <4> QED
        BY <4>1, <4>2
    <3>5. CASE stage[r] = "rename_new" /\ RenameNewToLive(p)
      <4>1. new[p].epoch = epoch[r] /\ bak[p].epoch < epoch[r]
        BY <3>0, <3>5 DEF Body, Staged, BodyStages
      <4>2. live'[p] = new[p] /\ Exists(new[p]) /\ ~Exists(live[p])
        BY <1>0, <3>5 DEF RenameNewToLive
      <4> QED
        BY <1>1, <4>1, <4>2 DEF NewestKept
    <3> QED
      BY <1>4, <2>2, <3>1, <3>2, <3>3, <3>4, <3>5 DEF LiveOrBakStep
  <2> QED
    BY <2>1, <2>2
<1> QED
  BY <1>2, <1>3, <1>4, LiveOrBakSteps

(* No step undoes a promotion.                                             *)
THEOREM PromotionsStay == Spec => NoRegression
<1>1. Inv /\ [Next]_vars => [\A p \in Providers : NewestKept(p) <= NewestKept(p)']_vars
  BY KeepsNewest
<1> QED
  BY <1>1, UpdateInvariant, PTL DEF Spec, NoRegression
---------------------------------------------------------------------------
(***************************************************************************)
(* What a served bundle was built from: runs of different providers share  *)
(* the raw dump and the delisted registry, yet no bundle mixes the inputs  *)
(* of two runs, and none with holes goes live unless its own run was       *)
(* allowed to.                                                             *)
(***************************************************************************)
Own(d) == d.inputs = {d.epoch}

(* The run of p that built d was allowed to build with holes.              *)
Sanctioned(d, p) ==
    d.holes => \E s \in Runs :
        /\ ProviderOf[s] = p /\ outcome[s] = "entered" /\ epoch[s] = d.epoch
        /\ s \in AllowHoley \/ qualified[s]

(* What is served, or what an interrupted swap is completed with.          *)
Sources(p) ==
    /\ Exists(live[p]) => Own(live[p])
    /\ Sanctioned(live[p], p)
    /\ Exists(bak[p]) /\ ~Exists(live[p]) => Own(new[p]) /\ Sanctioned(new[p], p)

FromDump == {"snapshot"} \cup RebuildStages
FromRegistry == RebuildStages \ {"registry"}

(* What a run inside the locks of p and of its two inputs relies on.       *)
Reads(r, p) ==
    /\ outcome[r] = "entered"
    /\ stage[r] \in FromDump => dump[DumpOf[r]].by = epoch[r]
    /\ stage[r] \in FromRegistry => registry[RegistryOf[r]] = epoch[r]
    /\ stage[r] \in Staged => Own(new[p]) /\ Sanctioned(new[p], p)

SourcesInv ==
    /\ \A p \in Providers : Sources(p)
    /\ \A r \in Runs : pc[r] = "inside" => Reads(r, ProviderOf[r])

ProvenanceInv == Inv /\ SourcesInv

(* Nobody else writes the inputs of a run inside the locks.                *)
InputsOf(r) ==
    /\ \A d \in Dumps : d # DumpOf[r] => dump'[d] = dump[d]
    /\ \A g \in Registries : g # RegistryOf[r] => registry'[g] = registry[g]
    /\ \A s \in Runs : s # r => qualified'[s] = qualified[s]
    /\ UNCHANGED <<pc, outcome>>

(* A run inside is alone with its dump and its registry.                   *)
LEMMA AloneWithInputs ==
    ASSUME LockInv, NEW r \in Runs, NEW s \in Runs, pc[r] = "inside", pc[s] = "inside", r # s
    PROVE  DumpOf[r] # DumpOf[s] /\ RegistryOf[r] # RegistryOf[s] /\ ProviderOf[r] # ProviderOf[s]
BY InvExcludes, RunConfig DEF MutualExclusion

(* So a step inside is right when it is right for its own provider.        *)
LEMMA LocalSources ==
    ASSUME ProvenanceInv, NEW r \in Runs, pc[r] = "inside", OnlyAt(r), OnlyBy(r), InputsOf(r),
           Sources(ProviderOf[r])', Reads(r, ProviderOf[r])'
    PROVE  SourcesInv'
<1>0. Inv /\ LockInv /\ SourcesInv
  BY DEF ProvenanceInv, Inv
<1>1. ASSUME NEW q \in Providers, q # ProviderOf[r], NEW d, Sanctioned(d, q)
      PROVE  d.holes => \E s \in Runs :
               /\ ProviderOf[s] = q /\ outcome'[s] = "entered" /\ epoch'[s] = d.epoch
               /\ s \in AllowHoley \/ qualified'[s]
  BY <1>1 DEF Sanctioned, OnlyBy, InputsOf
<1>2. ASSUME NEW q \in Providers PROVE Sources(q)'
  <2>1. CASE q = ProviderOf[r]
    BY <2>1
  <2>2. CASE q # ProviderOf[r]
    <3>1. live'[q] = live[q] /\ new'[q] = new[q] /\ bak'[q] = bak[q] /\ Sources(q)
      BY <1>0, <2>2 DEF OnlyAt, SourcesInv
    <3>2. Sanctioned(live[q], q)' /\ (Sanctioned(new[q], q) => Sanctioned(new[q], q)')
      BY <1>1, <2>2, <3>1 DEF Sources, Sanctioned
    <3> QED
      BY <3>1, <3>2 DEF Sources, Own
  <2> QED
    BY <2>1, <2>2
<1>3. ASSUME NEW s \in Runs, pc'[s] = "inside" PROVE Reads(s, ProviderOf[s])'
  <2>1. CASE s = r
    BY <2>1
  <2>2. CASE s # r
    <3>1. pc[s] = "inside" /\ Reads(s, ProviderOf[s])
      BY <1>0, <1>3 DEF InputsOf, SourcesInv
    <3>2. /\ DumpOf[s] # DumpOf[r] /\ RegistryOf[s] # RegistryOf[r]
          /\ ProviderOf[s] # ProviderOf[r] /\ ProviderOf[s] \in Providers
          /\ DumpOf[s] \in Dumps /\ RegistryOf[s] \in Registries
      BY <1>0, <2>2, <3>1, AloneWithInputs, RunConfig
    <3>3. /\ new'[ProviderOf[s]] = new[ProviderOf[s]] /\ dump'[DumpOf[s]] = dump[DumpOf[s]]
          /\ registry'[RegistryOf[s]] = registry[RegistryOf[s]]
          /\ stage'[s] = stage[s] /\ epoch'[s] = epoch[s] /\ outcome'[s] = outcome[s]
      BY <2>2, <3>2 DEF OnlyAt, OnlyBy, InputsOf
    <3>4. Sanctioned(new[ProviderOf[s]], ProviderOf[s])
            => Sanctioned(new[ProviderOf[s]], ProviderOf[s])'
      BY <1>1, <3>2, <3>3 DEF Sanctioned
    <3> QED
      BY <3>1, <3>3, <3>4 DEF Reads, Own
  <2> QED
    BY <2>1, <2>2
<1> QED
  BY <1>2, <1>3 DEF SourcesInv

(* What is known of the sources where run r stands.                        *)
LEMMA HereSources ==
    ASSUME ProvenanceInv, NEW r \in Runs, pc[r] = "inside"
    PROVE  Inv /\ Sources(ProviderOf[r]) /\ Reads(r, ProviderOf[r])
BY RunConfig DEF ProvenanceInv, SourcesInv

(* A step that writes no directory, input or qualification keeps them      *)
(* right if it needs no more than the stage before.                        *)
LEMMA MoveOn ==
    ASSUME ProvenanceInv, NEW r \in Runs, pc[r] = "inside", OnlyBy(r),
           UNCHANGED <<lockVars, dirs, inputVars, qualified>>,
           stage'[r] \in FromDump => stage[r] \in FromDump,
           stage'[r] \in FromRegistry => stage[r] \in FromRegistry,
           stage'[r] \in Staged => stage[r] \in Staged
    PROVE  SourcesInv'
<1>1. OnlyAt(r) /\ InputsOf(r)
  BY DEF dirs, inputVars, lockVars, OnlyAt, InputsOf
<1>2. ASSUME NEW d PROVE Sanctioned(d, ProviderOf[r]) =>
        (d.holes => \E s \in Runs :
          /\ ProviderOf[s] = ProviderOf[r] /\ outcome'[s] = "entered" /\ epoch'[s] = d.epoch
          /\ s \in AllowHoley \/ qualified'[s])
  BY DEF lockVars, OnlyBy, Sanctioned
<1>3. live' = live /\ new' = new /\ bak' = bak /\ dump' = dump /\ registry' = registry
      /\ outcome' = outcome /\ epoch' = epoch
  BY DEF dirs, inputVars, lockVars, OnlyBy
<1>4. /\ Sanctioned(live[ProviderOf[r]], ProviderOf[r])
           => Sanctioned(live[ProviderOf[r]], ProviderOf[r])'
      /\ Sanctioned(new[ProviderOf[r]], ProviderOf[r])
           => Sanctioned(new[ProviderOf[r]], ProviderOf[r])'
  BY <1>2, <1>3 DEF Sanctioned
<1>5. Sources(ProviderOf[r])' /\ Reads(r, ProviderOf[r])'
  BY <1>3, <1>4, HereSources DEF Sources, Reads, Own
<1> QED
  BY <1>1, <1>5, LocalSources
---------------------------------------------------------------------------
(* The steps that only move on.                                            *)
LEMMA MovingSources ==
    ASSUME ProvenanceInv, NEW r \in Runs,
           \/ RecordRunning(r) \/ RecordTerminal(r) \/ AppendLedger(r)
           \/ RepairFails(r) \/ CalendarGate(r) \/ Snapshot(r) \/ RebuildFails(r)
           \/ ValidateFails(r) \/ VerifyStagedQuarantine(r) \/ SwapFails(r)
           \/ BodyRaises(r) \/ RecordInterrupted(r)
    PROVE  SourcesInv'
<1>0. Inv /\ stage \in [Runs -> Stages]
  BY DEF ProvenanceInv, Inv, TypeOK
<1>1. CASE RecordRunning(r) \/ RecordTerminal(r) \/ AppendLedger(r)
  <2>1. /\ pc[r] = "inside" /\ OnlyBy(r) /\ stage'[r] \in {"repair", "ledger", "leave"}
        /\ UNCHANGED <<lockVars, dirs, inputVars, qualified>>
    BY <1>0, <1>1 DEF RecordRunning, RecordTerminal, AppendLedger, At, OnlyBy, lockVars
  <2> QED
    BY <2>1, MoveOn DEF FromDump, FromRegistry, RebuildStages, Staged
<1>2. CASE \/ RepairFails(r) \/ RebuildFails(r) \/ ValidateFails(r) \/ SwapFails(r)
           \/ BodyRaises(r) \/ RecordInterrupted(r)
  <2>1. /\ pc[r] = "inside" /\ OnlyBy(r) /\ stage'[r] \in {"returned", "leave"}
        /\ UNCHANGED <<dirs, inputVars>>
    BY <1>0, <1>2, GotoBy, ReturnBy DEF RepairFails, RebuildFails, ValidateFails, SwapFails,
       BodyRaises, RecordInterrupted, At
  <2>2. UNCHANGED <<lockVars, qualified>>
    BY <1>2 DEF RepairFails, RebuildFails, ValidateFails, SwapFails,
       BodyRaises, RecordInterrupted, Goto, Return
  <2> QED
    BY <2>1, <2>2, MoveOn DEF FromDump, FromRegistry, RebuildStages, Staged
<1>3. CASE CalendarGate(r) \/ Snapshot(r) \/ VerifyStagedQuarantine(r)
  <2>1. /\ pc[r] = "inside" /\ OnlyBy(r) /\ UNCHANGED <<dirs, inputVars>>
        /\ \/ stage'[r] \in {"fetch", "returned"}
           \/ stage[r] = "snapshot" /\ stage'[r] = "registry"
           \/ stage[r] = "verify_quarantine" /\ stage'[r] = "swap"
    BY <1>0, <1>3, GotoBy, ReturnBy DEF CalendarGate, Snapshot, VerifyStagedQuarantine, At
  <2>2. UNCHANGED <<lockVars, qualified>>
    BY <1>3 DEF CalendarGate, Snapshot, VerifyStagedQuarantine, Goto, Return
  <2> QED
    BY <2>1, <2>2, MoveOn DEF FromDump, FromRegistry, RebuildStages, Staged
<1> QED
  BY <1>1, <1>2, <1>3

(* Nothing served is of this run yet when it fetches, so what it fetches   *)
(* and qualifies concerns nobody else.                                     *)
LEMMA InputSources ==
    ASSUME ProvenanceInv, NEW r \in Runs, Fetch(r) \/ BuildRegistry(r)
    PROVE  SourcesInv'
<1> DEFINE p == ProviderOf[r]
<1>0. /\ Inv /\ pc[r] = "inside" /\ UNCHANGED dirs /\ UNCHANGED lockVars
      /\ stage[r] \in {"fetch", "registry"}
      /\ dump \in [Dumps -> [by : Nat, holes : BOOLEAN]] /\ registry \in [Registries -> Nat]
      /\ qualified \in [Runs -> BOOLEAN] /\ stage \in [Runs -> Stages]
      /\ result \in [Runs -> Results]
      /\ DumpOf[r] \in Dumps /\ RegistryOf[r] \in Registries
  BY RunConfig DEF ProvenanceInv, Inv, TypeOK, Fetch, BuildRegistry, At, Goto
<1>1. /\ Disk(p) /\ Body(r, p) /\ Sources(p) /\ Reads(r, p) /\ epoch[r] \in Nat
      /\ live[p].epoch \in Nat
  BY <1>0, Here, HereSources DEF Dir
<1>2. live[p].epoch < epoch[r] /\ (Exists(bak[p]) => Exists(live[p]))
  BY <1>0, <1>1 DEF Body, BodyStages, RebuildStages
<1>3. OnlyBy(r) /\ OnlyAt(r) /\ InputsOf(r) /\ UNCHANGED <<epoch, outcome>>
  BY <1>0 DEF Fetch, BuildRegistry, Goto, OnlyBy, OnlyAt, InputsOf, dirs, lockVars
<1>4. \A s \in Runs : s # r => qualified'[s] = qualified[s]
  BY <1>3 DEF InputsOf
<1>5. Sanctioned(live[p], p)'
  BY <1>0, <1>1, <1>2, <1>3, <1>4 DEF Sources, Sanctioned, dirs
<1>6. Sources(p)'
  BY <1>0, <1>1, <1>2, <1>5 DEF Sources, Own, dirs
<1>7. Reads(r, p)'
  <2>1. CASE Fetch(r)
    <3>1. dump'[DumpOf[r]].by = epoch[r] /\ stage'[r] \in {"returned", "snapshot"}
      BY <1>0, <2>1 DEF Fetch
    <3> QED
      BY <1>1, <1>3, <3>1 DEF Reads, FromDump, FromRegistry, RebuildStages, Staged
  <2>2. CASE BuildRegistry(r)
    <3>1. /\ registry'[RegistryOf[r]] = epoch[r] /\ dump' = dump
          /\ stage[r] = "registry" /\ stage'[r] = "bins"
      BY <1>0, <2>2, GotoBy DEF BuildRegistry, At
    <3> QED
      BY <1>1, <1>3, <3>1 DEF Reads, FromDump, FromRegistry, RebuildStages, Staged
  <2> QED
    BY <2>1, <2>2
<1> QED
  BY <1>0, <1>3, <1>6, <1>7, LocalSources

(* A step of the body that leaves the inputs alone judges a directory as   *)
(* before.                                                                 *)
LEMMA StageStep ==
    ASSUME ProvenanceInv, NEW r \in Runs, UNCHANGED inputVars,
           (\E s \in Stages : Goto(r, s)) \/ (\E res \in Results : Return(r, res))
    PROVE  /\ OnlyBy(r) /\ InputsOf(r)
           /\ UNCHANGED <<dump, registry, qualified, epoch, outcome>>
BY GotoBy, ReturnBy DEF ProvenanceInv, Goto, Return, inputVars, lockVars, InputsOf

(* The repair serves the backed-up or the staged generation, whole.        *)
LEMMA RepairSources ==
    ASSUME ProvenanceInv, NEW r \in Runs, Repair(r) \/ FinishRmNew(r)
    PROVE  SourcesInv'
<1> DEFINE p == ProviderOf[r]
<1>0. /\ Inv /\ pc[r] = "inside" /\ p \in Providers /\ UNCHANGED inputVars
      /\ (Goto(r, "gate") \/ Goto(r, "rm_new"))
  BY RunConfig DEF ProvenanceInv, Repair, FinishRmNew, At
<1>1. /\ Disk(p) /\ Body(r, p) /\ Sources(p) /\ Reads(r, p)
      /\ live \in [Providers -> Dir] /\ new \in [Providers -> Dir] /\ bak \in [Providers -> Dir]
  BY <1>0, Here, HereSources
<1>2. OnlyBy(r) /\ InputsOf(r) /\ UNCHANGED <<dump, registry, qualified, epoch, outcome>>
  BY <1>0, StageStep, StageNames
<1>3. Reads(r, p)'
  BY <1>0, <1>1, <1>2, GotoBy DEF Reads, FromDump, FromRegistry, RebuildStages, Staged
<1>4. CASE CompleteInterruptedSwap(p)
  <2>1. OnlyAt(r) /\ live'[p] = new[p] /\ new'[p] = NoDir
    BY <1>0, <1>1, <1>4 DEF CompleteInterruptedSwap, OnlyAt
  <2>2. Exists(new[p]) /\ Own(new[p]) /\ Sanctioned(new[p], p)
    BY <1>1, <1>4 DEF CompleteInterruptedSwap, CompletesSwap, Sources
  <2>3. Sources(p)'
    BY <1>2, <2>1, <2>2 DEF Sources, Sanctioned, Own
  <2> QED
    BY <1>0, <1>2, <1>3, <2>1, <2>3, LocalSources
<1>5. CASE RestoreFromBackup(p)
  BY <1>1, <1>5 DEF RestoreFromBackup, RestoresBackup, Disk, Exists, Servable
<1>6. CASE \/ RemovesStaleNew(p) /\ BeginRmNew(p)
           \/ FinishRmNew(r)
  <2>1. live' = live /\ bak' = bak /\ OnlyAt(r)
    BY <1>0, <1>1, <1>6 DEF BeginRmNew, FinishRmNew, EndRmNew, OnlyAt
  <2>2. Exists(live[p]) \/ ~Exists(bak[p])
    BY <1>1, <1>6 DEF RemovesStaleNew, FinishRmNew, At, Body, BodyStages
  <2>3. Sources(p)'
    BY <1>1, <1>2, <2>1, <2>2 DEF Sources, Sanctioned, Own
  <2> QED
    BY <1>0, <1>2, <1>3, <2>1, <2>3, LocalSources
<1>7. CASE UNCHANGED dirs
  <2>1. Sources(p)' /\ OnlyAt(r)
    BY <1>1, <1>2, <1>7 DEF Sources, Sanctioned, Own, dirs, OnlyAt
  <2> QED
    BY <1>0, <1>2, <1>3, <2>1, LocalSources
<1> QED
  BY <1>4, <1>5, <1>6, <1>7 DEF Repair

(* The staged bundle is built from the run's own dump and registry, with   *)
(* holes only if the run was allowed them.                                 *)
LEMMA BuildSources ==
    ASSUME ProvenanceInv, NEW r \in Runs,
           \/ BuildBins(r) \/ Enrich(r, "membership") \/ Enrich(r, "universe")
           \/ IngestBenchmark(r) \/ Validate(r)
    PROVE  SourcesInv'
<1> DEFINE p == ProviderOf[r]
<1>0. /\ Inv /\ pc[r] = "inside" /\ p \in Providers /\ UNCHANGED inputVars
      /\ live' = live /\ bak' = bak /\ new[p] \in Dir
      /\ new \in [Providers -> Dir] /\ qualified \in [Runs -> BOOLEAN]
      /\ stage[r] \in {"bins", "membership", "universe", "benchmark", "validate"}
      /\ \E s \in {"membership", "universe", "benchmark", "validate", "verify_quarantine", "swap"} :
           Goto(r, s)
  BY RunConfig DEF ProvenanceInv, Inv, TypeOK, DirsTypeOK, BuildBins, Enrich, NextRebuildStage,
     IngestBenchmark, Validate, At
<1>1. Disk(p) /\ Body(r, p) /\ Sources(p) /\ Reads(r, p)
  BY <1>0, Here, HereSources
<1>2. OnlyBy(r) /\ InputsOf(r) /\ UNCHANGED <<dump, registry, qualified, epoch, outcome>>
  BY <1>0, StageStep, StageNames
<1>3. OnlyAt(r)
  BY <1>0 DEF OnlyAt, BuildBins, Enrich, IngestBenchmark, Validate
<1>4. Exists(live[p]) \/ ~Exists(bak[p])
  BY <1>0, <1>1 DEF Body, BodyStages, RebuildStages
<1>5. Sources(p)'
  BY <1>0, <1>1, <1>2, <1>4 DEF Sources, Sanctioned, Own
<1>6. stage[r] # "validate" => Inputs(r) = {epoch[r]}
  BY <1>0, <1>1 DEF Reads, Inputs, FromDump, FromRegistry, RebuildStages
<1>7. /\ new'[p].epoch = epoch[r] /\ new'[p].inputs = {epoch[r]}
      /\ Sanctioned(new'[p], p)
      /\ stage'[r] \in {"membership", "universe", "benchmark"} => stage[r] \in FromRegistry
  <2>1. CASE BuildBins(r)
    <3>1. new'[p] = [state |-> "partial", epoch |-> epoch[r], inputs |-> Inputs(r),
                     holes |-> dump[DumpOf[r]].holes, validated |-> FALSE]
      BY <1>0, <2>1 DEF BuildBins
    <3>2. new'[p].holes => r \in AllowHoley \/ qualified[r]
      BY <2>1, <3>1 DEF BuildBins, HoleyAllowed
    <3>3. stage[r] = "bins" /\ outcome[r] = "entered"
      BY <1>1, <2>1 DEF BuildBins, At, Reads
    <3> QED
      BY <1>6, <3>1, <3>2, <3>3 DEF Sanctioned, FromRegistry, RebuildStages
  <2>2. CASE Enrich(r, "membership") \/ Enrich(r, "universe")
    <3>1. new'[p] = [new[p] EXCEPT !.inputs = @ \cup Inputs(r)]
      BY <1>0, <2>2 DEF Enrich
    <3>2. /\ new'[p].epoch = new[p].epoch /\ new'[p].holes = new[p].holes
          /\ new'[p].inputs = new[p].inputs \cup Inputs(r)
      BY <1>0, <3>1 DEF Dir
    <3>3. stage[r] \in {"membership", "universe"}
      BY <2>2 DEF Enrich, At
    <3> QED
      BY <1>1, <1>6, <3>2, <3>3 DEF Reads, Body, Own, Sanctioned, Staged, FromRegistry, RebuildStages
  <2>3. CASE IngestBenchmark(r) \/ Validate(r)
    <3>1. \/ new'[p] = [new[p] EXCEPT !.state = "whole"]
          \/ new'[p] = [new[p] EXCEPT !.validated = TRUE]
      BY <1>0, <2>3 DEF IngestBenchmark, Validate
    <3>2. /\ new'[p].epoch = new[p].epoch /\ new'[p].holes = new[p].holes
          /\ new'[p].inputs = new[p].inputs
      BY <1>0, <3>1 DEF Dir
    <3>3. /\ stage[r] \in {"benchmark", "validate"}
          /\ stage'[r] \in {"validate", "verify_quarantine", "swap"}
      BY <1>0, <2>3, GotoBy DEF IngestBenchmark, Validate, At
    <3> QED
      BY <1>1, <3>2, <3>3 DEF Reads, Body, Own, Sanctioned, Staged
  <2> QED
    BY <2>1, <2>2, <2>3
<1>8. Sanctioned(new[p], p)'
  BY <1>2, <1>7 DEF Sanctioned
<1>9. stage'[r] \in FromDump => stage[r] \in FromDump
  BY <1>0, <1>7, GotoBy DEF FromDump, FromRegistry, RebuildStages
<1>10. Reads(r, p)'
  BY <1>0, <1>1, <1>2, <1>7, <1>8, <1>9, GotoBy DEF Reads, Own, FromDump, FromRegistry,
     RebuildStages
<1> QED
  BY <1>0, <1>2, <1>3, <1>5, <1>10, LocalSources

(* The swap serves the staged bundle.                                      *)
LEMMA SwapSources ==
    ASSUME ProvenanceInv, NEW r \in Runs,
           SwapStarts(r) \/ FinishRmBak(r) \/ SwapStage1(r) \/ SwapStage2(r)
    PROVE  SourcesInv'
<1> DEFINE p == ProviderOf[r]
<1>0. /\ Inv /\ pc[r] = "inside" /\ p \in Providers /\ UNCHANGED inputVars
      /\ stage[r] \in {"swap", "rm_bak", "rename_live", "rename_new"}
      /\ \/ \E s \in {"rm_bak", "rename_live", "rename_new"} : Goto(r, s)
         \/ \E res \in {"ok", "exception"} : Return(r, res)
  BY RunConfig DEF ProvenanceInv, SwapStarts, FinishRmBak, SwapStage1, SwapStage2, At
<1>1. /\ Disk(p) /\ Body(r, p) /\ Sources(p) /\ Reads(r, p)
      /\ live \in [Providers -> Dir] /\ new \in [Providers -> Dir] /\ bak \in [Providers -> Dir]
  BY <1>0, Here, HereSources
<1>2. OnlyBy(r) /\ InputsOf(r) /\ UNCHANGED <<dump, registry, qualified, epoch, outcome>>
  BY <1>0, StageStep, StageNames DEF Results
<1>3. Own(new[p]) /\ Sanctioned(new[p], p)
  BY <1>0, <1>1 DEF Reads, Staged
<1>4. CASE SwapStage2(r)
  <2>1. /\ OnlyAt(r) /\ live'[p] = new[p] /\ new'[p] = NoDir /\ Exists(new[p])
        /\ stage'[r] = "returned"
    BY <1>0, <1>1, <1>4, ReturnBy DEF SwapStage2, RenameNewToLive, OnlyAt
  <2>2. Sources(p)'
    BY <1>2, <1>3, <2>1 DEF Sources, Sanctioned, Own
  <2>3. Reads(r, p)'
    BY <1>1, <1>2, <2>1 DEF Reads, FromDump, FromRegistry, RebuildStages, Staged
  <2> QED
    BY <1>0, <1>2, <2>1, <2>2, <2>3, LocalSources
<1>5. CASE SwapStarts(r) \/ FinishRmBak(r) \/ SwapStage1(r)
  <2>1. /\ OnlyAt(r) /\ new' = new
        /\ live'[p] = live[p] \/ live'[p] = NoDir
        /\ stage'[r] \in {"rm_bak", "rename_live", "rename_new"}
    BY <1>0, <1>1, <1>5, GotoBy DEF SwapStarts, FinishRmBak, SwapStage1, BeginRmBak, EndRmBak,
       RenameLiveToBak, OnlyAt, dirs
  <2>2. Sanctioned(live[p], p)' /\ Sanctioned(new[p], p)'
    BY <1>1, <1>2, <1>3, <2>1 DEF Sources, Sanctioned, NoDir
  <2>3. Sources(p)'
    BY <1>1, <1>3, <2>1, <2>2 DEF Sources, Own, NoDir, Exists
  <2>4. Reads(r, p)'
    BY <1>1, <1>2, <1>3, <2>1, <2>2 DEF Reads, Own, FromDump, FromRegistry, RebuildStages, Staged
  <2> QED
    BY <1>0, <1>2, <2>1, <2>3, <2>4, LocalSources
<1> QED
  BY <1>4, <1>5

(* Entering the body takes a new epoch, but no run that built anything     *)
(* enters twice; leaving it and being killed take nothing back.            *)
LEMMA OuterSources ==
    ASSUME ProvenanceInv, NEW r \in Runs,
           LockStep(r) \/ EnterBody(r) \/ LeaveBody(r) \/ KillRun(r)
    PROVE  SourcesInv'
<1>0. /\ Inv /\ SourcesInv /\ Refusals
      /\ pc \in [Runs -> Phases] /\ outcome \in [Runs -> Outcomes]
      /\ stage \in [Runs -> Stages] /\ epoch \in [Runs -> Nat]
  BY DEF ProvenanceInv, Inv, LockInv, TypeOK, LockTypeOK
<1>1. /\ UNCHANGED <<live, new, bak, dump, registry, qualified>>
  BY DEF LockStep, EnterBody, LeaveBody, KillRun, BodyVars, dirs, inputVars, runVars
<1>2. \A s \in Runs : outcome[s] = "entered" => outcome'[s] = "entered" /\ epoch'[s] = epoch[s]
  BY <1>0 DEF LockStep, EnterBody, LeaveBody, KillRun, BodyVars, runVars, Start, TryLock,
     Refuse, Unlock, Exit, SetupError, Enter, Leave, Kill, Refusals
<1>3. \A s \in Runs : pc'[s] = "inside" =>
        \/ pc[s] = "inside" /\ stage'[s] = stage[s]
        \/ outcome'[s] = "entered" /\ stage'[s] = "begin"
  BY <1>0 DEF LockStep, EnterBody, LeaveBody, KillRun, BodyVars, runVars, Start, TryLock,
     Refuse, Unlock, Exit, SetupError, Enter, Leave, Kill
<1>4. \A p \in Providers : /\ Sanctioned(live[p], p) => Sanctioned(live[p], p)'
                           /\ Sanctioned(new[p], p) => Sanctioned(new[p], p)'
  BY <1>1, <1>2 DEF Sanctioned
<1>5. \A p \in Providers : Sources(p)'
  BY <1>0, <1>1, <1>4 DEF SourcesInv, Sources, Own
<1>6. ASSUME NEW s \in Runs, pc'[s] = "inside" PROVE Reads(s, ProviderOf[s])'
  <2>1. CASE pc[s] = "inside" /\ stage'[s] = stage[s]
    <3>1. Reads(s, ProviderOf[s]) /\ ProviderOf[s] \in Providers
      BY <1>0, <2>1, RunConfig DEF SourcesInv
    <3>2. outcome'[s] = "entered" /\ epoch'[s] = epoch[s]
      BY <1>2, <3>1 DEF Reads
    <3> QED
      BY <1>1, <1>4, <2>1, <3>1, <3>2 DEF Reads, Own
  <2>2. CASE outcome'[s] = "entered" /\ stage'[s] = "begin"
    BY <2>2 DEF Reads, FromDump, FromRegistry, RebuildStages, Staged
  <2> QED
    BY <1>3, <1>6, <2>1, <2>2
<1> QED
  BY <1>5, <1>6 DEF SourcesInv

(* Every step keeps the sources right.                                     *)
LEMMA SourcesStep == ASSUME ProvenanceInv, [Next]_vars PROVE SourcesInv'
<1>1. CASE UNCHANGED vars
  <2>1. UNCHANGED <<live, new, bak, dump, registry, qualified, epoch, outcome, pc, stage>>
    BY <1>1 DEF vars, dirs, inputVars, runVars, lockVars
  <2>2. \A p \in Providers : /\ Sanctioned(live[p], p)' <=> Sanctioned(live[p], p)
                             /\ Sanctioned(new[p], p)' <=> Sanctioned(new[p], p)
    BY <2>1 DEF Sanctioned
  <2>3. \A p \in Providers : Sources(p)'
    BY <2>1, <2>2 DEF ProvenanceInv, SourcesInv, Sources, Own
  <2>4. \A r \in Runs : pc'[r] = "inside" => Reads(r, ProviderOf[r])'
    BY <2>1, <2>2, RunConfig DEF ProvenanceInv, SourcesInv, Reads, Own
  <2> QED
    BY <2>3, <2>4 DEF SourcesInv
<1>2. CASE Next
  BY <1>2, MovingSources, InputSources, RepairSources, BuildSources, SwapSources, OuterSources
  DEF Next, BodyStep
<1> QED
  BY <1>1, <1>2

(* At the start every bundle is of one update, without holes.              *)
LEMMA SourcesInit == Init => ProvenanceInv
<1> SUFFICES ASSUME Init PROVE ProvenanceInv
  OBVIOUS
<1>1. \A p \in Providers : Sources(p)
  <2> SUFFICES ASSUME NEW p \in Providers PROVE Sources(p)
    OBVIOUS
  <2>1. /\ live[p] = NoDir \/ live[p] = Bundle(2)
        /\ Exists(bak[p]) => Exists(live[p])
    BY DEF Init, DirsInit
  <2> QED
    BY <2>1 DEF Sources, Sanctioned, Own, NoDir, Bundle, Exists
<1>2. \A r \in Runs : pc[r] # "inside"
  BY DEF Init, LockInit
<1> QED
  BY <1>1, <1>2, InvInit DEF ProvenanceInv, SourcesInv

(* The inductive invariant about sources.                                  *)
THEOREM ProvenanceInvariant == Spec => []ProvenanceInv
<1>1. ProvenanceInv /\ [Next]_vars => ProvenanceInv'
  BY InvStep, SourcesStep DEF ProvenanceInv
<1> QED
  BY <1>1, SourcesInit, PTL DEF Spec

(* What is live was built from what its own run fetched and registered,    *)
(* however many providers share the dump and the registry.                 *)
THEOREM OwnInputsOnly == Spec => []BuiltFromOwnInputs
<1>1. ProvenanceInv => BuiltFromOwnInputs
  BY DEF ProvenanceInv, SourcesInv, Sources, Own, BuiltFromOwnInputs
<1> QED
  BY <1>1, ProvenanceInvariant, PTL

(* A bundle with holes is live only if the run that built it was given     *)
(* --allow-holey-fetch or had its quarantine qualified.                    *)
THEOREM HolesSanctioned == Spec => []HolesAreSanctioned
<1>1. ProvenanceInv => HolesAreSanctioned
  BY DEF ProvenanceInv, SourcesInv, Sources, Sanctioned, HolesAreSanctioned
<1> QED
  BY <1>1, ProvenanceInvariant, PTL
---------------------------------------------------------------------------
(***************************************************************************)
(* What the readers may rely on.  The status artifact and the ledger never *)
(* claim more than the disk shows, and the ledger is a history, although   *)
(* every write of them may fail.  Those who open the live path are kept    *)
(* the promise of ServedBundle: initial states map to its initial states,  *)
(* every step to one of its steps or to a stutter.                         *)
(***************************************************************************)
(* A run in the body that has not had its turn at the ledger.              *)
Unrecorded(r) == pc[r] = "inside" /\ stage[r] # "leave"

(* A run that has not yet written its line is newer than every line.       *)
LedgerInv ==
    /\ \A p \in Providers : \A i \in 1 .. Len(ledger[p]) : ledger[p][i][1] <= clock
    /\ \A r \in Runs : Unrecorded(r) =>
         \A i \in 1 .. Len(ledger[ProviderOf[r]]) : ledger[ProviderOf[r]][i][1] < epoch[r]
    /\ LedgerIsHistory

RecordsInv == Inv /\ LedgerInv /\ RecordsNotAheadOfDisk

(* A run has yet to write its line from the moment it entered.             *)
LEMMA UnrecordedSteps ==
    ASSUME Inv, [Next]_vars, NEW s \in Runs, Unrecorded(s)'
    PROVE  \/ Unrecorded(s) /\ epoch'[s] = epoch[s]
           \/ epoch'[s] = clock + 1 /\ clock' = clock + 1
<1>0. /\ epoch \in [Runs -> Nat] /\ stage \in [Runs -> Stages] /\ pc \in [Runs -> Phases]
  BY DEF Inv, TypeOK, LockTypeOK
<1>1. CASE UNCHANGED vars
  BY <1>1 DEF vars, lockVars, runVars, Unrecorded
<1>2. ASSUME NEW r \in Runs, LockStep(r) \/ LeaveBody(r) \/ KillRun(r)
      PROVE  Unrecorded(s) /\ epoch'[s] = epoch[s]
  BY <1>0, <1>2 DEF LockStep, LeaveBody, KillRun, BodyVars, runVars, Start, TryLock, Refuse,
     Unlock, Exit, SetupError, Leave, Kill, Unrecorded
<1>3. ASSUME NEW r \in Runs, EnterBody(r)
      PROVE  \/ Unrecorded(s) /\ epoch'[s] = epoch[s]
             \/ epoch'[s] = clock + 1 /\ clock' = clock + 1
  BY <1>0, <1>3 DEF EnterBody, Enter, Unrecorded
<1>4. ASSUME NEW r \in Runs, BodyStep(r) \/ BodyRaises(r) \/ RecordInterrupted(r)
      PROVE  Unrecorded(s) /\ epoch'[s] = epoch[s]
  <2>1. pc[r] = "inside" /\ pc' = pc
    BY <1>4, BodyKeepsLocks DEF lockVars
  <2>2. stage[r] # "leave"
    BY <1>4 DEF BodyStep, BodyRaises, RecordInterrupted, RecordRunning, RecordTerminal,
       AppendLedger, Repair, FinishRmNew, RepairFails, CalendarGate, Fetch, Snapshot,
       BuildRegistry, BuildBins, Enrich, IngestBenchmark, RebuildFails, Validate, ValidateFails,
       VerifyStagedQuarantine, SwapStarts, FinishRmBak, SwapStage1, SwapStage2, SwapFails, At,
       BodyStages, RebuildStages
  <2>3. epoch' = epoch /\ \A q \in Runs : q # r => stage'[q] = stage[q]
    BY <1>0, <1>4 DEF BodyStep, BodyRaises, RecordInterrupted, RecordRunning, RecordTerminal,
       AppendLedger, Repair, FinishRmNew, RepairFails, CalendarGate, Fetch, Snapshot,
       BuildRegistry, BuildBins, Enrich, IngestBenchmark, RebuildFails, Validate, ValidateFails,
       VerifyStagedQuarantine, SwapStarts, FinishRmBak, SwapStage1, SwapStage2, SwapFails,
       Goto, Return
  <2> QED
    BY <2>1, <2>2, <2>3 DEF Unrecorded
<1> QED
  BY <1>1, <1>2, <1>3, <1>4 DEF Next

(* Who writes the records.                                                 *)
LEMMA RecordSteps ==
    ASSUME Inv, [Next]_vars
    PROVE  /\ clock' \in {clock, clock + 1}
           /\ \/ UNCHANGED ledger
              \/ \E r \in Runs : AppendLedger(r)
           /\ \/ UNCHANGED status
              \/ \E r \in Runs : RecordRunning(r) \/ RecordTerminal(r)
<1>1. CASE UNCHANGED vars
  BY <1>1 DEF vars, runVars, recordVars
<1>2. ASSUME NEW r \in Runs, LockStep(r) \/ LeaveBody(r) \/ KillRun(r) \/ EnterBody(r)
      PROVE  clock' \in {clock, clock + 1} /\ UNCHANGED <<ledger, status>>
  BY <1>2 DEF LockStep, LeaveBody, KillRun, EnterBody, BodyVars, runVars, recordVars
<1>3. ASSUME NEW r \in Runs,
             \/ Repair(r) \/ FinishRmNew(r) \/ RepairFails(r)
             \/ CalendarGate(r) \/ Fetch(r) \/ Snapshot(r) \/ BuildRegistry(r) \/ BuildBins(r)
             \/ Enrich(r, "membership") \/ Enrich(r, "universe") \/ IngestBenchmark(r)
             \/ RebuildFails(r) \/ Validate(r) \/ ValidateFails(r) \/ VerifyStagedQuarantine(r)
             \/ SwapStarts(r) \/ FinishRmBak(r) \/ SwapStage1(r) \/ SwapStage2(r) \/ SwapFails(r)
             \/ BodyRaises(r) \/ RecordInterrupted(r)
      PROVE  UNCHANGED <<clock, ledger, status>>
  BY <1>3 DEF Repair, FinishRmNew, RepairFails, CalendarGate, Fetch, Snapshot, BuildRegistry,
     BuildBins, Enrich, IngestBenchmark, RebuildFails, Validate, ValidateFails,
     VerifyStagedQuarantine, SwapStarts, FinishRmBak, SwapStage1, SwapStage2, SwapFails,
     BodyRaises, RecordInterrupted, Goto, Return, recordVars
<1>4. ASSUME NEW r \in Runs, RecordRunning(r) \/ RecordTerminal(r)
      PROVE  UNCHANGED <<clock, ledger>>
  BY <1>4 DEF RecordRunning, RecordTerminal
<1>5. ASSUME NEW r \in Runs, AppendLedger(r)
      PROVE  UNCHANGED <<clock, status>>
  BY <1>5 DEF AppendLedger
<1> QED
  BY <1>1, <1>2, <1>3, <1>4, <1>5 DEF Next, BodyStep

(* The line of a run, appended to the lines before it.                     *)
LEMMA AppendedLine ==
    ASSUME Inv, NEW r \in Runs, AppendLedger(r)
    PROVE  LET p == ProviderOf[r] IN
           /\ Unrecorded(r) /\ stage[r] = "ledger" /\ stage'[r] = "leave" /\ UNCHANGED <<dirs, epoch>>
           /\ \A q \in Providers : q # p => ledger'[q] = ledger[q]
           /\ \/ UNCHANGED ledger
              \/ /\ Len(ledger'[p]) = Len(ledger[p]) + 1
                 /\ \A i \in 1 .. Len(ledger[p]) : ledger'[p][i] = ledger[p][i]
                 /\ ledger'[p][Len(ledger[p]) + 1] = <<epoch[r], result[r]>>
<1> DEFINE p == ProviderOf[r]
<1>0. /\ ledger \in [Providers -> Seq(Nat \X Results)] /\ p \in Providers
      /\ epoch[r] \in Nat /\ result[r] \in Results /\ stage \in [Runs -> Stages]
  BY RunConfig DEF Inv, TypeOK
<1>1. /\ Unrecorded(r) /\ stage[r] = "ledger" /\ stage'[r] = "leave" /\ UNCHANGED <<dirs, epoch>>
  BY <1>0 DEF AppendLedger, At, Unrecorded
<1>2. CASE UNCHANGED ledger
  BY <1>1, <1>2
<1>3. CASE ledger' = [ledger EXCEPT ![p] = Append(@, <<epoch[r], result[r]>>)]
  <2>1. ledger[p] \in Seq(Nat \X Results) /\ <<epoch[r], result[r]>> \in Nat \X Results
    BY <1>0
  <2>2. ledger'[p] = Append(ledger[p], <<epoch[r], result[r]>>)
    BY <1>0, <1>3
  <2>3. /\ Len(ledger'[p]) = Len(ledger[p]) + 1
        /\ \A i \in 1 .. Len(ledger[p]) : ledger'[p][i] = ledger[p][i]
        /\ ledger'[p][Len(ledger[p]) + 1] = <<epoch[r], result[r]>>
    BY <2>1, <2>2
  <2>4. \A q \in Providers : q # p => ledger'[q] = ledger[q]
    BY <1>0, <1>3
  <2> QED
    BY <1>1, <2>3, <2>4
<1> QED
  BY <1>2, <1>3 DEF AppendLedger

(* The ledger stays a history.                                             *)
LEMMA LedgerStep == ASSUME RecordsInv, [Next]_vars PROVE LedgerInv'
<1>0. /\ \A p \in Providers : ledger[p] \in Seq(Nat \X Results)
      /\ \A p \in Providers : ledger'[p] \in Seq(Nat \X Results)
      /\ clock \in Nat /\ epoch \in [Runs -> Nat] /\ LedgerInv /\ Inv
  BY InvStep DEF RecordsInv, Inv, TypeOK
<1>1. \A p \in Providers : /\ Len(ledger[p]) \in Nat
                           /\ \A i \in 1 .. Len(ledger[p]) : ledger[p][i][1] \in Nat
  BY <1>0
<1>2. CASE UNCHANGED ledger
  <2>1. \A p \in Providers : \A i \in 1 .. Len(ledger'[p]) : ledger'[p][i][1] <= clock'
    BY <1>0, <1>1, <1>2, RecordSteps DEF LedgerInv
  <2>2. ASSUME NEW s \in Runs, Unrecorded(s)'
        PROVE  \A i \in 1 .. Len(ledger'[ProviderOf[s]]) : ledger'[ProviderOf[s]][i][1] < epoch'[s]
    <3>1. ProviderOf[s] \in Providers /\ Len(ledger[ProviderOf[s]]) \in Nat
      BY <1>1, RunConfig
    <3>2. CASE Unrecorded(s) /\ epoch'[s] = epoch[s]
      BY <1>0, <1>2, <3>2 DEF LedgerInv
    <3>3. CASE epoch'[s] = clock + 1
      <4>1. \A i \in 1 .. Len(ledger[ProviderOf[s]]) :
               ledger[ProviderOf[s]][i][1] <= clock /\ ledger[ProviderOf[s]][i][1] \in Nat
        BY <1>0, <1>1, <3>1 DEF LedgerInv
      <4> QED
        BY <1>0, <1>2, <3>3, <4>1
    <3> QED
      BY <1>0, <2>2, <3>2, <3>3, UnrecordedSteps
  <2>3. LedgerIsHistory'
    BY <1>0, <1>2 DEF LedgerInv, LedgerIsHistory
  <2> QED
    BY <2>1, <2>2, <2>3 DEF LedgerInv
<1>3. ASSUME NEW r \in Runs, AppendLedger(r), ~UNCHANGED ledger
      PROVE  LedgerInv'
  <2> DEFINE p == ProviderOf[r]
  <2>0. p \in Providers
    BY RunConfig
  <2>1. /\ Unrecorded(r) /\ stage'[r] = "leave" /\ UNCHANGED epoch
        /\ \A q \in Providers : q # p => ledger'[q] = ledger[q]
        /\ Len(ledger'[p]) = Len(ledger[p]) + 1
        /\ \A i \in 1 .. Len(ledger[p]) : ledger'[p][i] = ledger[p][i]
        /\ ledger'[p][Len(ledger[p]) + 1] = <<epoch[r], result[r]>>
    BY <1>0, <1>3, AppendedLine
  <2>2. epoch[r] <= clock /\ clock' = clock /\ UNCHANGED pc
    BY <1>0, <1>3, <2>1, Here DEF Unrecorded, Body, AppendLedger, lockVars
  <2>3. \A i \in 1 .. Len(ledger[p]) : ledger[p][i][1] < epoch[r]
    BY <1>0, <2>1 DEF LedgerInv
  <2>4. \A q \in Providers : \A i \in 1 .. Len(ledger'[q]) : ledger'[q][i][1] <= clock'
    <3> SUFFICES ASSUME NEW q \in Providers, NEW i \in 1 .. Len(ledger'[q])
                 PROVE  ledger'[q][i][1] <= clock'
      OBVIOUS
    <3>1. CASE q # p
      BY <1>0, <2>1, <2>2, <3>1 DEF LedgerInv
    <3>2. CASE q = p /\ i \in 1 .. Len(ledger[p])
      BY <1>0, <2>0, <2>1, <2>2, <3>2 DEF LedgerInv
    <3>3. CASE q = p /\ i = Len(ledger[p]) + 1
      BY <2>1, <2>2, <3>3
    <3> QED
      BY <1>1, <2>0, <2>1, <3>1, <3>2, <3>3
  <2>5. ASSUME NEW s \in Runs, Unrecorded(s)'
        PROVE  \A i \in 1 .. Len(ledger'[ProviderOf[s]]) : ledger'[ProviderOf[s]][i][1] < epoch'[s]
    <3>1. s # r
      BY <2>1, <2>5 DEF Unrecorded
    <3>2. Unrecorded(s) /\ epoch'[s] = epoch[s]
      BY <1>0, <2>2, <2>5, UnrecordedSteps
    <3>3. ProviderOf[s] # p /\ ProviderOf[s] \in Providers
      BY <1>0, <2>1, <3>1, <3>2, OneInside, RunConfig DEF Unrecorded, Inv
    <3> QED
      BY <1>0, <2>1, <3>2, <3>3 DEF LedgerInv
  <2>6. LedgerIsHistory'
    <3> SUFFICES ASSUME NEW q \in Providers, NEW i \in 1 .. Len(ledger'[q]),
                        NEW j \in 1 .. Len(ledger'[q]), i < j
                 PROVE  ledger'[q][i][1] < ledger'[q][j][1]
      BY DEF LedgerIsHistory
    <3>1. CASE q # p
      BY <1>0, <2>1, <3>1 DEF LedgerInv, LedgerIsHistory
    <3>2. CASE q = p /\ j \in 1 .. Len(ledger[p])
      <4>1. i \in 1 .. Len(ledger[p])
        BY <1>1, <2>0, <3>2
      <4> QED
        BY <1>0, <2>0, <2>1, <3>2, <4>1 DEF LedgerInv, LedgerIsHistory
    <3>3. CASE q = p /\ j = Len(ledger[p]) + 1
      <4>1. i \in 1 .. Len(ledger[p])
        BY <1>1, <2>0, <3>3
      <4> QED
        BY <2>1, <2>3, <3>3, <4>1
    <3> QED
      BY <1>1, <2>0, <2>1, <3>1, <3>2, <3>3
  <2> QED
    BY <2>4, <2>5, <2>6 DEF LedgerInv
<1> QED
  BY <1>0, <1>2, <1>3, RecordSteps

(* A success that is on record was on disk when the record was written,    *)
(* and no later step takes it back.                                        *)
LEMMA RecordsStep == ASSUME RecordsInv, [Next]_vars PROVE RecordsNotAheadOfDisk'
<1>0. /\ Inv /\ Inv' /\ RecordsNotAheadOfDisk
      /\ \A p \in Providers : /\ ledger[p] \in Seq(Nat \X Results)
                              /\ status[p] \in Status
                              /\ NewestKept(p) \in Nat /\ NewestKept(p)' \in Nat
                              /\ NewestKept(p) <= NewestKept(p)'
  BY InvStep, KeepsNewest DEF RecordsInv, Inv, TypeOK
<1>1. /\ \A p \in Providers : Len(ledger[p]) \in Nat
      /\ \A p \in Providers : \A i \in 1 .. Len(ledger[p]) : ledger[p][i][1] \in Nat
      /\ \A p \in Providers : status[p].epoch \in Nat
  BY <1>0 DEF Status
<1>2. ASSUME NEW p \in Providers, status'[p] = status[p]
      PROVE  status'[p].state = "finished" /\ status'[p].result = "ok"
               => status'[p].epoch <= NewestKept(p)'
  BY <1>0, <1>1, <1>2 DEF RecordsNotAheadOfDisk
<1>3. ASSUME NEW p \in Providers, ledger'[p] = ledger[p]
      PROVE  \A i \in 1 .. Len(ledger'[p]) : ledger'[p][i][2] = "ok"
               => ledger'[p][i][1] <= NewestKept(p)'
  BY <1>0, <1>1, <1>3 DEF RecordsNotAheadOfDisk
<1>4. ASSUME NEW r \in Runs, pc[r] = "inside", stage[r] \in {"returned", "ledger"},
             UNCHANGED dirs, result[r] = "ok"
      PROVE  NewestKept(ProviderOf[r])' = epoch[r] /\ epoch[r] \in Nat
  BY <1>0, <1>4, Here DEF Body, NewestKept, Exists, Servable, dirs
<1>5. ASSUME NEW p \in Providers
      PROVE  status'[p].state = "finished" /\ status'[p].result = "ok"
               => status'[p].epoch <= NewestKept(p)'
  <2>1. CASE UNCHANGED status
    BY <1>2, <2>1
  <2>2. ASSUME NEW r \in Runs, RecordRunning(r) \/ RecordTerminal(r), status'[p] # status[p]
        PROVE  status'[p].state = "finished" /\ status'[p].result = "ok"
                 => status'[p].epoch <= NewestKept(p)'
    <3>1. p = ProviderOf[r] /\ \E st \in {"running", "finished"} : status'[p] = StatusRecord(r, st)
      BY <1>0, <2>2 DEF RecordRunning, RecordTerminal, WriteStatus, Inv, TypeOK
    <3>2. CASE RecordRunning(r)
      <4>1. status'[p] = StatusRecord(r, "running")
        BY <1>0, <2>2, <3>1, <3>2 DEF RecordRunning, WriteStatus, Inv, TypeOK
      <4> QED
        BY <4>1 DEF StatusRecord
    <3>3. CASE RecordTerminal(r)
      <4>1. status'[p].result = result[r] /\ status'[p].epoch = epoch[r]
        BY <3>1 DEF StatusRecord
      <4>2. pc[r] = "inside" /\ stage[r] = "returned" /\ UNCHANGED dirs
        BY <3>3 DEF RecordTerminal, At
      <4>3. CASE result[r] = "ok"
        <5>1. NewestKept(p)' = epoch[r] /\ epoch[r] \in Nat
          BY <1>4, <3>1, <4>2, <4>3
        <5> QED
          BY <4>1, <5>1
      <4> QED
        BY <4>1, <4>3
    <3> QED
      BY <2>2, <3>2, <3>3
  <2> QED
    BY <1>0, <1>2, <2>1, <2>2, RecordSteps
<1>6. ASSUME NEW p \in Providers
      PROVE  \A i \in 1 .. Len(ledger'[p]) : ledger'[p][i][2] = "ok"
               => ledger'[p][i][1] <= NewestKept(p)'
  <2>1. CASE UNCHANGED ledger
    BY <1>3, <2>1
  <2>2. ASSUME NEW r \in Runs, AppendLedger(r), ~UNCHANGED ledger
        PROVE  \A i \in 1 .. Len(ledger'[p]) : ledger'[p][i][2] = "ok"
                 => ledger'[p][i][1] <= NewestKept(p)'
    <3>1. CASE p # ProviderOf[r]
      <4>1. ledger'[p] = ledger[p]
        BY <1>0, <2>2, <3>1, AppendedLine
      <4> QED
        BY <1>3, <4>1
    <3>2. CASE p = ProviderOf[r]
      <4>1. /\ pc[r] = "inside" /\ stage[r] = "ledger" /\ UNCHANGED dirs
            /\ Len(ledger'[p]) = Len(ledger[p]) + 1
            /\ \A i \in 1 .. Len(ledger[p]) : ledger'[p][i] = ledger[p][i]
            /\ ledger'[p][Len(ledger[p]) + 1] = <<epoch[r], result[r]>>
        BY <1>0, <2>2, <3>2, AppendedLine DEF Unrecorded
      <4>2. ASSUME NEW i \in 1 .. Len(ledger[p]), ledger'[p][i][2] = "ok"
            PROVE  ledger'[p][i][1] <= NewestKept(p)'
        <5>1. ledger'[p][i] = ledger[p][i] /\ ledger[p][i][1] \in Nat
          BY <1>1, <4>1
        <5>2. ledger[p][i][1] <= NewestKept(p)
          BY <1>0, <4>2, <5>1 DEF RecordsNotAheadOfDisk
        <5>3. NewestKept(p) \in Nat /\ NewestKept(p)' \in Nat /\ NewestKept(p) <= NewestKept(p)'
          BY <1>0
        <5> QED
          BY <5>1, <5>2, <5>3
      <4>3. result[r] = "ok" => epoch[r] <= NewestKept(p)'
        <5>1. CASE result[r] = "ok"
          <6>1. NewestKept(p)' = epoch[r] /\ epoch[r] \in Nat
            BY <1>4, <3>2, <4>1, <5>1
          <6> QED
            BY <6>1
        <5> QED
          BY <5>1
      <4> QED
        BY <1>1, <4>1, <4>2, <4>3
    <3> QED
      BY <3>1, <3>2
  <2> QED
    BY <1>0, <2>1, <2>2, RecordSteps
<1> QED
  BY <1>5, <1>6 DEF RecordsNotAheadOfDisk

(* At the start there is no record.                                        *)
LEMMA RecordsInit == Init => RecordsInv
<1> SUFFICES ASSUME Init PROVE RecordsInv
  OBVIOUS
<1>1. LedgerInv
  BY DEF Init, LockInit, LedgerInv, Unrecorded, LedgerIsHistory
<1>2. RecordsNotAheadOfDisk
  BY DEF Init, NoStatus, RecordsNotAheadOfDisk
<1> QED
  BY <1>1, <1>2, InvInit DEF RecordsInv

(* The inductive invariant of the records.                                 *)
THEOREM RecordsInvariant == Spec => []RecordsInv
<1>1. RecordsInv /\ [Next]_vars => RecordsInv'
  BY InvStep, LedgerStep, RecordsStep DEF RecordsInv
<1> QED
  BY <1>1, RecordsInit, PTL DEF Spec

(* Neither the status artifact nor the ledger tells of a success that is   *)
(* not on disk.                                                            *)
THEOREM RecordsTrailDisk == Spec => []RecordsNotAheadOfDisk
<1>1. RecordsInv => RecordsNotAheadOfDisk
  BY DEF RecordsInv
<1> QED
  BY <1>1, RecordsInvariant, PTL

(* The ledger holds at most one line per run, in the order of the runs.    *)
THEOREM LedgerOrder == Spec => []LedgerIsHistory
<1>1. RecordsInv => LedgerIsHistory
  BY DEF RecordsInv, LedgerInv
<1> QED
  BY <1>1, RecordsInvariant, PTL
---------------------------------------------------------------------------
(* The refinement.                                                         *)
shownBar == [p \in Providers |-> Shown(p)]
newestBar == [p \in Providers |-> NewestKept(p)]

(* Nothing torn is ever shown, so a reader sees the live generation.       *)
LEMMA ShownIsLive ==
    ASSUME Inv, NEW p \in Providers
    PROVE  /\ Shown(p) = IF Exists(live[p]) THEN live[p].epoch ELSE 0
           /\ Shown(p) \in Nat
BY DEF Inv, TypeOK, DirsTypeOK, Dir, DiskInv, Disks, Disk, Shown

(* At the start the newest generation a provider keeps is the one shown.   *)
LEMMA InitRefines == Init => Promise!ServedInit
<1> SUFFICES ASSUME Init PROVE Promise!ServedInit
  OBVIOUS
<1>1. Inv
  BY InvInit
<1>2. \A p \in Providers : NewestKept(p) = Shown(p)
  BY <1>1, ShownIsLive DEF NewestKept, Init, DirsInit
<1> QED
  BY <1>1, <1>2, ShownIsLive DEF Promise!ServedInit

(* Only the provider whose directories a step renames may change its view. *)
LEMMA OtherViews ==
    ASSUME Inv, NEW r \in Runs, LiveOrBakStep(r), NEW q \in Providers, q # ProviderOf[r]
    PROVE  live'[q] = live[q] /\ bak'[q] = bak[q]
<1>1. live \in [Providers -> Dir] /\ bak \in [Providers -> Dir]
  BY DEF Inv, TypeOK, DirsTypeOK
<1> QED
  BY <1>1 DEF LiveOrBakStep, CompleteInterruptedSwap, RestoreFromBackup, BeginRmBak, EndRmBak,
     RenameLiveToBak, RenameNewToLive, dirs

(* What the step does to the view of its own provider.                     *)
LEMMA OwnView ==
    ASSUME Inv, Inv', NEW r \in Runs, pc[r] = "inside", LiveOrBakStep(r), NEW p, p = ProviderOf[r]
    PROVE  \/ Shown(p)' = Shown(p) /\ NewestKept(p)' = NewestKept(p)
           \/ /\ Shown(p) # 0 /\ Shown(p)' = 0 /\ NewestKept(p)' = NewestKept(p)
           \/ /\ Shown(p) = 0 /\ Shown(p)' > NewestKept(p) /\ NewestKept(p)' = Shown(p)'
<1>0. /\ live \in [Providers -> Dir] /\ bak \in [Providers -> Dir] /\ new \in [Providers -> Dir]
      /\ p \in Providers /\ Disk(p) /\ Body(r, p)
  BY Here
<1>1. live[p].epoch \in Nat /\ bak[p].epoch \in Nat /\ new[p].epoch \in Nat
  BY <1>0 DEF Dir
<1>2. /\ Shown(p) = IF Exists(live[p]) THEN live[p].epoch ELSE 0
      /\ Shown(p)' = IF Exists(live'[p]) THEN live'[p].epoch ELSE 0
  <2>1. ASSUME Inv PROVE Shown(p) = IF Exists(live[p]) THEN live[p].epoch ELSE 0
    BY <1>0, <2>1, ShownIsLive
  <2>2. Disk(p)'
    BY <1>0 DEF Inv, DiskInv, Disks
  <2> QED
    BY <2>1, <2>2 DEF Shown, Disk
<1>3. CASE CompleteInterruptedSwap(p)
  <2>1. ~Exists(live[p]) /\ Exists(bak[p]) /\ live'[p] = new[p]
    BY <1>0, <1>3 DEF CompleteInterruptedSwap, CompletesSwap
  <2>2. Exists(new[p]) /\ bak[p].epoch < new[p].epoch
    BY <1>0, <2>1 DEF Disk, Exists, Servable
  <2> QED
    BY <1>1, <1>2, <2>1, <2>2 DEF NewestKept
<1>4. CASE RestoreFromBackup(p)
  BY <1>0, <1>4 DEF RestoreFromBackup, RestoresBackup, Disk, Exists, Servable
<1>5. CASE (stage[r] = "swap" /\ BeginRmBak(p)) \/ (stage[r] = "rm_bak" /\ EndRmBak(p))
  <2>1. Exists(live[p]) /\ live' = live
    BY <1>0, <1>5 DEF Body, BeginRmBak, EndRmBak, Exists, BodyStages
  <2> QED
    BY <1>2, <2>1 DEF NewestKept
<1>6. CASE RenameLiveToBak(p)
  <2>1. CASE Exists(live[p])
    <3>1. live'[p] = NoDir /\ bak'[p] = live[p]
      BY <1>0, <1>6, <2>1 DEF RenameLiveToBak
    <3> QED
      BY <1>1, <1>2, <2>1, <3>1 DEF NewestKept, NoDir, Exists
  <2>2. CASE ~Exists(live[p])
    BY <1>2, <1>6, <2>2 DEF RenameLiveToBak, NewestKept, dirs
  <2> QED
    BY <2>1, <2>2
<1>7. CASE stage[r] = "rename_new" /\ RenameNewToLive(p)
  <2>1. new[p].epoch = epoch[r] /\ bak[p].epoch < epoch[r] /\ epoch[r] \in Nat
    BY <1>0, <1>7 DEF Body, Staged, BodyStages, Inv, TypeOK
  <2>2. live'[p] = new[p] /\ Exists(new[p]) /\ ~Exists(live[p])
    BY <1>0, <1>7 DEF RenameNewToLive
  <2> QED
    BY <1>1, <1>2, <2>1, <2>2 DEF NewestKept
<1> QED
  BY <1>3, <1>4, <1>5, <1>6, <1>7 DEF LiveOrBakStep

(* Every step of the update is a step of the promise, or invisible.        *)
LEMMA StepRefines ==
    ASSUME Inv, [Next]_vars
    PROVE  [Promise!ServedNext]_Promise!served
<1>0. Inv'
  BY InvStep
<1>1. CASE UNCHANGED <<live, bak>>
  BY <1>1 DEF Shown, NewestKept, Promise!served
<1>2. ASSUME NEW r \in Runs, pc[r] = "inside", LiveOrBakStep(r)
      PROVE  Promise!ServedNext \/ UNCHANGED Promise!served
  <2> DEFINE p == ProviderOf[r]
  <2>0. p \in Providers
    BY RunConfig
  <2>1. \A q \in Providers : q # p => Shown(q)' = Shown(q) /\ NewestKept(q)' = NewestKept(q)
    BY <1>2, OtherViews DEF Shown, NewestKept
  <2>2. /\ shownBar' = [shownBar EXCEPT ![p] = Shown(p)']
        /\ newestBar' = [newestBar EXCEPT ![p] = NewestKept(p)']
    BY <2>0, <2>1 DEF shownBar, newestBar
  <2>3. CASE Shown(p)' = Shown(p) /\ NewestKept(p)' = NewestKept(p)
    <3>1. shownBar' = shownBar /\ newestBar' = newestBar
      BY <2>0, <2>1, <2>3 DEF shownBar, newestBar
    <3> QED
      BY <3>1 DEF shownBar, newestBar, Promise!served
  <2>4. CASE Shown(p) # 0 /\ Shown(p)' = 0 /\ NewestKept(p)' = NewestKept(p)
    <3>1. newestBar' = newestBar
      BY <2>0, <2>1, <2>4 DEF newestBar
    <3>2. Promise!Withdraw(p)
      BY <2>0, <2>2, <2>4, <3>1 DEF shownBar, newestBar, Promise!Withdraw
    <3> QED
      BY <2>0, <3>2 DEF Promise!ServedNext
  <2>5. CASE Shown(p) = 0 /\ Shown(p)' > NewestKept(p) /\ NewestKept(p)' = Shown(p)'
    <3>1. Shown(p)' \in Nat
      BY <1>0, <2>0, ShownIsLive DEF Shown, Inv, TypeOK, DirsTypeOK, Dir, DiskInv, Disks, Disk
    <3>2. Promise!Publish(p)
      BY <2>0, <2>2, <2>5, <3>1 DEF shownBar, newestBar, Promise!Publish
    <3> QED
      BY <2>0, <3>2 DEF Promise!ServedNext
  <2> QED
    BY <1>0, <1>2, <2>3, <2>4, <2>5, OwnView
<1> QED
  BY <1>1, <1>2, LiveOrBakSteps

(* The updater keeps the promise made to the readers: the live path holds  *)
(* one validated generation or, for a moment, nothing, and a generation is *)
(* only ever replaced by a newer one.                                      *)
THEOREM ReadersPromiseHolds == Spec => ReadersPromise
<1>1. Inv /\ [Next]_vars => [Promise!ServedNext]_Promise!served
  BY StepRefines
<1> QED
  BY <1>1, InitRefines, UpdateInvariant, PTL DEF Spec, ReadersPromise, Promise!ServedSpec
---------------------------------------------------------------------------
(***************************************************************************)
(* A machine that may lose its live bundle between two runs.  Disk no      *)
(* longer holds there, so the startup repair has to rest on itself: on the *)
(* types, the locks, and what the run inside has made sure of by then.     *)
(***************************************************************************)
Restored(r, p) ==
    /\ stage[r] = "rm_new" => Exists(live[p]) \/ ~Exists(bak[p])
    /\ stage[r] = "gate" /\ ~Exists(live[p]) => ~Exists(bak[p]) /\ ~Exists(new[p])

RestoredInv ==
    /\ OtherTypesOK /\ LockInv
    /\ \A r \in Runs : pc[r] = "inside" => Restored(r, ProviderOf[r])

SameDirs(p) == live'[p] = live[p] /\ new'[p] = new[p] /\ bak'[p] = bak[p]

(* The steps outside the body, and how they bring a run into it.           *)
LEMMA OuterStages ==
    ASSUME OtherTypesOK, LockTypeOK, NEW s \in Runs,
           LockStep(s) \/ EnterBody(s) \/ LeaveBody(s) \/ KillRun(s), NEW r \in Runs,
           pc'[r] = "inside", stage'[r] \in {"rm_new", "gate"}
    PROVE  pc[r] = "inside" /\ stage'[r] = stage[r] /\ UNCHANGED dirs
<1>1. CASE LockStep(s)
  BY <1>1 DEF LockStep, BodyVars, runVars, Start, TryLock, Refuse, Unlock, Exit, SetupError,
     LockTypeOK
<1>2. CASE EnterBody(s) \/ LeaveBody(s) \/ KillRun(s)
  BY <1>2 DEF EnterBody, LeaveBody, KillRun, Enter, Leave, Kill, OtherTypesOK, LockTypeOK
<1> QED
  BY <1>1, <1>2

(* A body step moves the stage of its own run, and writes the directories  *)
(* of its own provider at most.                                            *)
LEMMA BodyIsLocal ==
    ASSUME OtherTypesOK, NEW s \in Runs, BodyStep(s) \/ BodyRaises(s) \/ RecordInterrupted(s)
    PROVE  /\ \A r \in Runs : r # s => stage'[r] = stage[r]
           /\ \A p \in Providers : p # ProviderOf[s] => SameDirs(p)
<1>0. /\ live \in [Providers -> Dir] /\ new \in [Providers -> Dir] /\ bak \in [Providers -> Dir]
      /\ stage \in [Runs -> Stages]
  BY DEF OtherTypesOK, DirsTypeOK
<1>1. \A r \in Runs : r # s => stage'[r] = stage[r]
  BY <1>0 DEF BodyStep, BodyRaises, RecordInterrupted, RecordRunning, RecordTerminal, AppendLedger,
     Repair, FinishRmNew, RepairFails, CalendarGate, Fetch, Snapshot, BuildRegistry, BuildBins,
     Enrich, IngestBenchmark, RebuildFails, Validate, ValidateFails, VerifyStagedQuarantine,
     SwapStarts, FinishRmBak, SwapStage1, SwapStage2, SwapFails, Goto, Return
<1>2. ASSUME \/ RecordRunning(s) \/ RecordTerminal(s) \/ AppendLedger(s) \/ RepairFails(s)
             \/ CalendarGate(s) \/ Fetch(s) \/ Snapshot(s) \/ BuildRegistry(s) \/ RebuildFails(s)
             \/ ValidateFails(s) \/ VerifyStagedQuarantine(s) \/ SwapFails(s)
             \/ BodyRaises(s) \/ RecordInterrupted(s)
      PROVE  UNCHANGED dirs
  BY <1>2 DEF RecordRunning, RecordTerminal, AppendLedger, RepairFails, CalendarGate, Fetch,
     Snapshot, BuildRegistry, RebuildFails, ValidateFails, VerifyStagedQuarantine, SwapFails,
     BodyRaises, RecordInterrupted, dirs
<1>3. ASSUME \/ BuildBins(s) \/ Enrich(s, "membership") \/ Enrich(s, "universe")
             \/ IngestBenchmark(s) \/ Validate(s),
             NEW p \in Providers, p # ProviderOf[s]
      PROVE  SameDirs(p)
  BY <1>0, <1>3 DEF BuildBins, Enrich, IngestBenchmark, Validate, SameDirs
<1>4. ASSUME \/ Repair(s) \/ FinishRmNew(s) \/ SwapStarts(s) \/ FinishRmBak(s)
             \/ SwapStage1(s) \/ SwapStage2(s),
             NEW p \in Providers, p # ProviderOf[s]
      PROVE  SameDirs(p)
  BY <1>0, <1>4 DEF Repair, FinishRmNew, SwapStarts, FinishRmBak, SwapStage1, SwapStage2,
     CompleteInterruptedSwap, RestoreFromBackup, BeginRmNew, EndRmNew, BeginRmBak, EndRmBak,
     RenameLiveToBak, RenameNewToLive, dirs, SameDirs
<1>5. UNCHANGED dirs => \A p \in Providers : SameDirs(p)
  BY DEF dirs, SameDirs
<1> QED
  BY <1>1, <1>2, <1>3, <1>4, <1>5 DEF BodyStep

(* A run is at the gate, or removes a staging directory, only through its  *)
(* own repair; its directories wait for it meanwhile.                      *)
LEMMA RepairStages ==
    ASSUME OtherTypesOK, LockInv, [Next]_vars, NEW r \in Runs,
           pc'[r] = "inside", stage'[r] \in {"rm_new", "gate"}
    PROVE  /\ pc[r] = "inside"
           /\ \/ stage'[r] = stage[r] /\ SameDirs(ProviderOf[r])
              \/ Repair(r) \/ FinishRmNew(r)
<1>0. ProviderOf[r] \in Providers /\ stage \in [Runs -> Stages] /\ LockTypeOK
  BY RunConfig DEF OtherTypesOK, LockInv
<1>1. UNCHANGED dirs => SameDirs(ProviderOf[r])
  BY DEF dirs, SameDirs
<1>2. CASE UNCHANGED vars
  BY <1>1, <1>2 DEF vars, lockVars, runVars
<1>3. ASSUME NEW s \in Runs, LockStep(s) \/ EnterBody(s) \/ LeaveBody(s) \/ KillRun(s)
      PROVE  pc[r] = "inside" /\ stage'[r] = stage[r] /\ SameDirs(ProviderOf[r])
  BY <1>0, <1>1, <1>3, OuterStages
<1>4. ASSUME NEW s \in Runs, BodyStep(s) \/ BodyRaises(s) \/ RecordInterrupted(s)
      PROVE  /\ pc[r] = "inside"
             /\ \/ stage'[r] = stage[r] /\ SameDirs(ProviderOf[r])
                \/ Repair(r) \/ FinishRmNew(r)
  <2>1. pc[s] = "inside" /\ pc[r] = "inside"
    BY <1>4, BodyKeepsLocks DEF lockVars
  <2>2. CASE s # r
    <3>1. ProviderOf[s] # ProviderOf[r]
      BY <2>1, <2>2, OneInside
    <3> QED
      BY <1>0, <1>4, <2>1, <2>2, <3>1, BodyIsLocal
  <2>3. CASE s = r
    BY <1>0, <1>4, <2>1, <2>3 DEF BodyStep, BodyRaises, RecordInterrupted, RecordRunning,
       RecordTerminal, AppendLedger, RepairFails, CalendarGate, Fetch, Snapshot, BuildRegistry,
       BuildBins, Enrich, NextRebuildStage, IngestBenchmark, RebuildFails, Validate, ValidateFails,
       VerifyStagedQuarantine, SwapStarts, FinishRmBak, SwapStage1, SwapStage2, SwapFails,
       Goto, Return
  <2> QED
    BY <2>2, <2>3
<1> QED
  BY <1>2, <1>3, <1>4 DEF Next

(* What the two steps of the repair make sure of.                          *)
LEMMA RepairRestores ==
    ASSUME OtherTypesOK, NEW r \in Runs, Repair(r) \/ FinishRmNew(r),
           pc[r] = "inside" => Restored(r, ProviderOf[r])
    PROVE  /\ Restored(r, ProviderOf[r])'
           /\ stage[r] = "repair" /\ stage'[r] = "gate" /\ Exists(bak[ProviderOf[r]])
                => Exists(live'[ProviderOf[r]])
<1> DEFINE p == ProviderOf[r]
<1>0. /\ p \in Providers /\ live \in [Providers -> Dir] /\ new \in [Providers -> Dir]
      /\ bak \in [Providers -> Dir] /\ stage \in [Runs -> Stages] /\ pc[r] = "inside"
  BY RunConfig DEF OtherTypesOK, DirsTypeOK, Repair, FinishRmNew, At
<1>1. CASE Repair(r) /\ CompleteInterruptedSwap(p) /\ Goto(r, "gate")
  BY <1>0, <1>1 DEF CompleteInterruptedSwap, CompletesSwap, Goto, Restored, Exists
<1>2. CASE Repair(r) /\ RestoreFromBackup(p) /\ Goto(r, "gate")
  BY <1>0, <1>2 DEF RestoreFromBackup, RestoresBackup, Goto, Restored, Exists
<1>3. CASE Repair(r) /\ RemovesStaleNew(p) /\ BeginRmNew(p) /\ Goto(r, "rm_new")
  BY <1>0, <1>3 DEF RemovesStaleNew, BeginRmNew, Goto, Restored
<1>4. CASE Repair(r) /\ Healthy(p) /\ UNCHANGED dirs /\ Goto(r, "gate")
  BY <1>0, <1>4 DEF Healthy, dirs, Goto, Restored
<1>5. CASE FinishRmNew(r)
  <2>1. /\ stage[r] = "rm_new" /\ stage'[r] = "gate" /\ live' = live /\ bak' = bak
        /\ new'[p] = NoDir
    BY <1>0, <1>5 DEF FinishRmNew, EndRmNew, At, Goto
  <2> QED
    BY <1>0, <2>1 DEF Restored, NoDir, Exists
<1> QED
  BY <1>1, <1>2, <1>3, <1>4, <1>5 DEF Repair

(* Losing the live bundle of an idle provider changes no lock, no stage,   *)
(* and nothing that a run inside stands on.                                *)
LEMMA LossKeeps ==
    ASSUME RestoredInv, NEW p \in Providers, LoseLive(p)
    PROVE  RestoredInv' /\ UNCHANGED stage
<1>0. /\ live \in [Providers -> Dir] /\ NoDir \in Dir
      /\ UNCHANGED <<new, bak, dump, registry, stage, result, qualified, epoch, clock,
                     status, ledger>>
      /\ UNCHANGED lockVars
  BY DEF RestoredInv, OtherTypesOK, DirsTypeOK, LoseLive, inputVars, runVars, recordVars, NoDir, Dir
<1>1. live' = [live EXCEPT ![p] = NoDir] /\ Idle(p)
  BY DEF LoseLive
<1>2. live' \in [Providers -> Dir]
  BY <1>0, <1>1
<1>3. OtherTypesOK' /\ LockInv'
  <2>1. OtherTypesOK'
    BY <1>0, <1>2 DEF RestoredInv, OtherTypesOK, DirsTypeOK
  <2>2. LockInv'
    BY <1>0, LockStutterInv DEF RestoredInv
  <2> QED
    BY <2>1, <2>2
<1>4. ASSUME NEW r \in Runs, pc'[r] = "inside"
      PROVE  Restored(r, ProviderOf[r])'
  <2>1. pc[r] = "inside" /\ ProviderOf[r] # p /\ ProviderOf[r] \in Providers
    BY <1>0, <1>1, <1>4, RunConfig DEF lockVars, Idle
  <2>2. live'[ProviderOf[r]] = live[ProviderOf[r]]
    BY <1>0, <1>1, <2>1
  <2> QED
    BY <1>0, <2>1, <2>2 DEF RestoredInv, Restored
<1> QED
  BY <1>0, <1>3, <1>4 DEF RestoredInv

(* The invariant of the lossy machine is inductive.                        *)
LEMMA RestoredStep == ASSUME RestoredInv, [LossNext]_lossVars PROVE RestoredInv'
<1>1. ASSUME [Next]_vars PROVE RestoredInv'
  <2>1. OtherTypesOK' /\ LockInv'
    BY <1>1, TypesStep, LockLift DEF RestoredInv
  <2>2. ASSUME NEW r \in Runs, pc'[r] = "inside"
        PROVE  Restored(r, ProviderOf[r])'
    <3>1. CASE stage'[r] \notin {"rm_new", "gate"}
      BY <3>1 DEF Restored
    <3>2. CASE stage'[r] \in {"rm_new", "gate"}
      <4>1. /\ pc[r] = "inside" /\ Restored(r, ProviderOf[r])
            /\ \/ stage'[r] = stage[r] /\ SameDirs(ProviderOf[r])
               \/ Repair(r) \/ FinishRmNew(r)
        BY <1>1, <2>2, <3>2, RepairStages DEF RestoredInv
      <4>2. CASE stage'[r] = stage[r] /\ SameDirs(ProviderOf[r])
        BY <4>1, <4>2 DEF Restored, SameDirs
      <4> QED
        BY <4>1, <4>2, RepairRestores DEF RestoredInv
    <3> QED
      BY <3>1, <3>2
  <2> QED
    BY <2>1, <2>2 DEF RestoredInv
<1>2. [LossNext]_lossVars => [Next]_vars \/ \E p \in Providers : LoseLive(p)
  BY DEF LossNext, lossVars
<1> QED
  BY <1>1, <1>2, LossKeeps

(* It holds from the start, and so throughout.                             *)
THEOREM LossInvariant == LossSpec => []RestoredInv
<1>1. LossInit => RestoredInv
  BY InitTypes, LockInitInv DEF LossInit, Init, LockInit, RestoredInv
<1>2. RestoredInv /\ [LossNext]_lossVars => RestoredInv'
  BY RestoredStep
<1> QED
  BY <1>1, <1>2, PTL DEF LossSpec

(* On such a machine, too, a run behind its startup repair has a live      *)
(* bundle unless no directory was left to make one from.                   *)
THEOREM LossIsRepaired == LossSpec => []RepairedAtGate
<1>1. RestoredInv => RepairedAtGate
  BY DEF RestoredInv, Restored, RepairedAtGate, At
<1> QED
  BY <1>1, LossInvariant, PTL

(* And the repair itself never goes on to the calendar gate with a backup  *)
(* and nothing live.                                                       *)
THEOREM LossIsHealed == LossSpec => ServiceRestored
<1>1. ASSUME RestoredInv, [LossNext]_lossVars, NEW r \in Runs,
             At(r, "repair"), Exists(bak[ProviderOf[r]]), stage'[r] = "gate"
      PROVE  Exists(live[ProviderOf[r]])'
  <2>1. [Next]_vars
    <3>1. [Next]_vars \/ \E p \in Providers : LoseLive(p)
      BY <1>1 DEF LossNext, lossVars
    <3>2. ~ \E p \in Providers : LoseLive(p)
      BY <1>1, LossKeeps DEF At
    <3> QED
      BY <3>1, <3>2
  <2>2. pc'[r] = "inside"
    <3>1. LockTypeOK /\ stage \in [Runs -> Stages]
      BY <1>1 DEF RestoredInv, LockInv, OtherTypesOK
    <3>2. ASSUME NEW s \in Runs, LockStep(s) \/ EnterBody(s) \/ LeaveBody(s) \/ KillRun(s)
          PROVE  FALSE
      BY <1>1, <3>1, <3>2 DEF LockStep, BodyVars, runVars, EnterBody, LeaveBody, KillRun, At
    <3>3. ASSUME NEW s \in Runs, BodyStep(s) \/ BodyRaises(s) \/ RecordInterrupted(s)
          PROVE  pc'[r] = "inside"
      BY <1>1, <3>3, BodyKeepsLocks DEF lockVars, At
    <3>4. ~ UNCHANGED vars
      BY <1>1 DEF vars, runVars, At
    <3> QED
      BY <2>1, <3>2, <3>3, <3>4 DEF Next
  <2>3. Repair(r) \/ FinishRmNew(r)
    BY <1>1, <2>1, <2>2, RepairStages DEF RestoredInv, At
  <2> QED
    BY <1>1, <2>3, RepairRestores DEF RestoredInv, At
<1>2. RestoredInv /\ [LossNext]_lossVars =>
        [\A r \in Runs : LET p == ProviderOf[r] IN
            /\ At(r, "repair") /\ Exists(bak[p])
            /\ stage'[r] = "gate"
            => Exists(live[p])']_lossVars
  BY <1>1
<1> QED
  BY <1>2, LossInvariant, PTL DEF LossSpec, ServiceRestored
---------------------------------------------------------------------------
(***************************************************************************)
(* What a lock protects changes only in a step of the run that holds it.   *)
(***************************************************************************)
SameFiles(p) == SameDirs(p) /\ status'[p] = status[p] /\ ledger'[p] = ledger[p]

(* Outside the body nothing that a lock protects changes.                  *)
LEMMA OuterKeepsFiles ==
    ASSUME NEW s \in Runs,
           \/ LockStep(s) \/ EnterBody(s) \/ LeaveBody(s) \/ KillRun(s)
           \/ BodyRaises(s) \/ RecordInterrupted(s)
    PROVE  UNCHANGED <<dirs, inputVars, recordVars>>
BY DEF LockStep, EnterBody, LeaveBody, KillRun, BodyRaises, RecordInterrupted, Goto, Return,
   BodyVars

(* A body step writes the records of its own provider, its own dump and    *)
(* its own registry.                                                       *)
LEMMA BodyWritesOwn ==
    ASSUME OtherTypesOK, NEW s \in Runs, BodyStep(s)
    PROVE  /\ \A p \in Providers : p # ProviderOf[s] => SameFiles(p)
           /\ \A d \in Dumps : d # DumpOf[s] => dump'[d] = dump[d]
           /\ \A g \in Registries : g # RegistryOf[s] => registry'[g] = registry[g]
<1>0. /\ status \in [Providers -> Status] /\ ledger \in [Providers -> Seq(Nat \X Results)]
      /\ dump \in [Dumps -> [by : Nat, holes : BOOLEAN]] /\ registry \in [Registries -> Nat]
  BY DEF OtherTypesOK
<1>1. \A p \in Providers : p # ProviderOf[s] => SameDirs(p)
  BY BodyIsLocal
<1>2. CASE RecordRunning(s) \/ RecordTerminal(s) \/ AppendLedger(s)
  BY <1>0, <1>1, <1>2 DEF RecordRunning, RecordTerminal, AppendLedger, WriteStatus, inputVars,
     SameFiles
<1>3. CASE Fetch(s)
  <2>1. UNCHANGED <<recordVars, registry>>
    BY <1>3 DEF Fetch
  <2>2. \E h \in BOOLEAN : dump' = [dump EXCEPT ![DumpOf[s]] = [by |-> epoch[s], holes |-> h]]
    BY <1>3 DEF Fetch
  <2> QED
    BY <1>0, <1>1, <2>1, <2>2 DEF recordVars, SameFiles
<1>4. CASE BuildRegistry(s)
  BY <1>0, <1>1, <1>4 DEF BuildRegistry, Goto, recordVars, SameFiles
<1>5. CASE \/ Repair(s) \/ FinishRmNew(s) \/ RepairFails(s) \/ CalendarGate(s) \/ Snapshot(s)
           \/ BuildBins(s) \/ Enrich(s, "membership") \/ Enrich(s, "universe")
           \/ IngestBenchmark(s) \/ RebuildFails(s) \/ Validate(s) \/ ValidateFails(s)
           \/ VerifyStagedQuarantine(s) \/ SwapStarts(s) \/ FinishRmBak(s) \/ SwapStage1(s)
           \/ SwapStage2(s) \/ SwapFails(s)
  <2>1. UNCHANGED <<inputVars, recordVars>>
    BY <1>5 DEF Repair, FinishRmNew, RepairFails, CalendarGate, Snapshot, BuildBins, Enrich,
       IngestBenchmark, RebuildFails, Validate, ValidateFails, VerifyStagedQuarantine,
       SwapStarts, FinishRmBak, SwapStage1, SwapStage2, SwapFails, Goto, Return
  <2> QED
    BY <1>1, <2>1 DEF inputVars, recordVars, SameFiles
<1> QED
  BY <1>2, <1>3, <1>4, <1>5 DEF BodyStep

(* Whoever holds a lock is alone with what it protects.                    *)
THEOREM HoldersAreAlone == Spec => FrozenUnderLock
<1>1. ASSUME Inv, [Next]_vars
      PROVE  /\ \A p \in Providers : OfProvider(p)' # OfProvider(p) => HeldInside(p)
             /\ \A d \in Dumps : dump'[d] # dump[d] => HeldInside(d)
             /\ \A g \in Registries : registry'[g] # registry[g] => HeldInside(g)
  <2>0. OtherTypesOK /\ Owners
    BY <1>1, TypeParts DEF Inv, LockInv
  <2>1. CASE UNCHANGED <<dirs, inputVars, recordVars>>
    BY <2>1 DEF dirs, inputVars, recordVars, OfProvider
  <2>2. ASSUME NEW s \in Runs, BodyStep(s)
        PROVE  /\ \A p \in Providers : OfProvider(p)' # OfProvider(p) => HeldInside(p)
               /\ \A d \in Dumps : dump'[d] # dump[d] => HeldInside(d)
               /\ \A g \in Registries : registry'[g] # registry[g] => HeldInside(g)
    <3>1. \A x \in Needs[s] : HeldInside(x)
      BY <2>0, <2>2, BodyKeepsLocks DEF Owners, HeldInside
    <3>2. HeldInside(ProviderOf[s]) /\ HeldInside(DumpOf[s]) /\ HeldInside(RegistryOf[s])
      BY <3>1, RunConfig
    <3>3. \A p \in Providers : SameFiles(p) => OfProvider(p)' = OfProvider(p)
      BY DEF SameFiles, SameDirs, OfProvider
    <3> QED
      BY <2>0, <2>2, <3>2, <3>3, BodyWritesOwn
  <2>3. UNCHANGED vars => UNCHANGED <<dirs, inputVars, recordVars>>
    BY DEF vars
  <2> QED
    BY <1>1, <2>1, <2>2, <2>3, OuterKeepsFiles DEF Next
<1>2. Inv /\ [Next]_vars =>
        [/\ \A p \in Providers : OfProvider(p)' # OfProvider(p) => HeldInside(p)
         /\ \A d \in Dumps : dump'[d] # dump[d] => HeldInside(d)
         /\ \A g \in Registries : registry'[g] # registry[g] => HeldInside(g)]_vars
  BY <1>1
<1> QED
  BY <1>2, UpdateInvariant, PTL DEF Spec, FrozenUnderLock
===========================================================================
