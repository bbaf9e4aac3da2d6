---------------------------- MODULE BundleSwap ----------------------------
(***************************************************************************)
(* src/data_pipeline/bundle_swap.py: the provider directory and its two    *)
(* siblings <provider>.new and <provider>.bak, and every step the startup  *)
(* repair and the swap make on them.                                       *)
(*                                                                         *)
(* A rename is atomic.  An rmtree is not: it is split at the point where   *)
(* the first file is gone, so a crash can leave a partial directory that   *)
(* still `.exists()`.                                                      *)
(***************************************************************************)
EXTENDS Naturals

CONSTANT Providers

VARIABLES live, new, bak

dirs == <<live, new, bak>>

(* What a directory holds, for the properties: the update that built it    *)
(* (epoch), the updates whose raw dump and registry it was built from      *)
(* (inputs), whether the fetch it was built from had holes, whether every  *)
(* file is there, and whether the validator accepted it.                   *)
Dir == [state : {"absent", "partial", "whole"}, epoch : Nat,
        inputs : SUBSET Nat, holes : BOOLEAN, validated : BOOLEAN]

NoDir == [state |-> "absent", epoch |-> 0,
          inputs |-> {}, holes |-> FALSE, validated |-> FALSE]

Bundle(n) == [state |-> "whole", epoch |-> n,
              inputs |-> {n}, holes |-> FALSE, validated |-> TRUE]

Exists(d) == d.state # "absent"

Servable(d) == d.state = "whole" /\ d.validated

DirsTypeOK ==
    /\ live \in [Providers -> Dir]
    /\ new \in [Providers -> Dir]
    /\ bak \in [Providers -> Dir]

(* A machine that never built a bundle, one with its first bundle, and one *)
(* that has already swapped once.                                          *)
DirsInit ==
    /\ live \in [Providers -> {NoDir, Bundle(2)}]
    /\ bak \in [Providers -> {NoDir, Bundle(1)}]
    /\ \A p \in Providers : Exists(bak[p]) => Exists(live[p])
    /\ new = [p \in Providers |-> NoDir]
---------------------------------------------------------------------------
(* Mutant: a first build's staging directory is promoted as well.          *)
CompletesSwapUnproven(p) == ~Exists(live[p]) /\ Exists(new[p])

(* check_and_repair, live missing, both siblings there: new.rename(live).  *)
CompletesSwap(p) == ~Exists(live[p]) /\ Exists(bak[p]) /\ Exists(new[p])

(* Mutant: the repair copies the backup instead of completing the swap.    *)
CompleteFromBackup(p) ==
    /\ CompletesSwap(p)
    /\ live' = [live EXCEPT ![p] = bak[p]]
    /\ UNCHANGED <<new, bak>>

CompleteInterruptedSwap(p) ==
    /\ CompletesSwap(p)
    /\ live' = [live EXCEPT ![p] = new[p]]
    /\ new' = [new EXCEPT ![p] = NoDir]
    /\ UNCHANGED bak

(* check_and_repair, live missing, only the backup there: bak.rename(live).*)
RestoresBackup(p) == ~Exists(live[p]) /\ Exists(bak[p]) /\ ~Exists(new[p])

RestoreFromBackup(p) ==
    /\ RestoresBackup(p)
    /\ live' = [live EXCEPT ![p] = bak[p]]
    /\ bak' = [bak EXCEPT ![p] = NoDir]
    /\ UNCHANGED new

(* check_and_repair, a staging directory that cannot be proven validated:  *)
(* next to a live bundle, or with neither live nor backup.                 *)
RemovesStaleNew(p) == Exists(new[p]) /\ (Exists(live[p]) \/ ~Exists(bak[p]))

(* Mutant: a missing live bundle always counts as the first run ever.      *)
HealthyIfNoLive(p) == ~Exists(new[p]) \/ ~Exists(live[p])

Healthy(p) == ~Exists(new[p]) /\ (Exists(live[p]) \/ ~Exists(bak[p]))

BeginRmNew(p) ==
    /\ Exists(new[p])
    /\ new' = [new EXCEPT ![p].state = "partial"]
    /\ UNCHANGED <<live, bak>>

EndRmNew(p) ==
    /\ new' = [new EXCEPT ![p] = NoDir]
    /\ UNCHANGED <<live, bak>>

(* swap: `if bak_p.exists(): shutil.rmtree(bak_p)`.                        *)
BeginRmBak(p) ==
    /\ Exists(bak[p])
    /\ bak' = [bak EXCEPT ![p].state = "partial"]
    /\ UNCHANGED <<live, new>>

EndRmBak(p) ==
    /\ bak' = [bak EXCEPT ![p] = NoDir]
    /\ UNCHANGED <<live, new>>

(* Mutant: the live bundle is removed instead of kept as the backup.       *)
RemoveLive(p) ==
    /\ live' = [live EXCEPT ![p] = NoDir]
    /\ UNCHANGED <<new, bak>>

(* swap, stage 1: `if provider_dir.exists(): provider_dir.rename(bak_p)`.  *)
RenameLiveToBak(p) ==
    IF Exists(live[p])
    THEN /\ ~Exists(bak[p])
         /\ bak' = [bak EXCEPT ![p] = live[p]]
         /\ live' = [live EXCEPT ![p] = NoDir]
         /\ UNCHANGED new
    ELSE UNCHANGED dirs

(* swap, stage 2: `new_p.rename(provider_dir)`.                            *)
RenameNewToLive(p) ==
    /\ Exists(new[p]) /\ ~Exists(live[p])
    /\ live' = [live EXCEPT ![p] = new[p]]
    /\ new' = [new EXCEPT ![p] = NoDir]
    /\ UNCHANGED bak
===========================================================================
