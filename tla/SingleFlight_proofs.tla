------------------------ MODULE SingleFlight_proofs ------------------------
(***************************************************************************)
(* Proofs that the single-flight locks exclude, never orphan a lock and    *)
(* never let a contention end with everybody refused, for every set of     *)
(* runs and every assignment of resources to them.                         *)
(***************************************************************************)
EXTENDS SingleFlight, TLAPS

(* A run in the body holds everything it needs; one that is still          *)
(* acquiring holds a prefix of the canonical order.                        *)
Owners ==
    /\ NoOrphanLock
    /\ \A r \in Runs : pc[r] = "inside" => \A x \in Needs[r] : lock[x] = r
    /\ \A r \in Runs : pc[r] = "acquiring" =>
         \A x, y \in Needs[r] : lock[x] = r /\ y < x => lock[y] = r

(* What a refused run may still hold, while it unwinds, comes before the   *)
(* lock it was refused.                                                    *)
Refusals ==
    /\ \A r \in Runs : outcome[r] = "pending" <=> pc[r] \in {"idle", "acquiring"}
    /\ \A r \in Runs : outcome[r] = "refused" =>
         /\ blockedOn[r] \in Needs[r]
         /\ \A x \in Resources : lock[x] = r => x < blockedOn[r]

(* A run that did not refuse and, if it is still acquiring, only misses    *)
(* locks beyond every lock anybody was refused so far.                     *)
Winner(s) ==
    /\ outcome[s] # "refused" /\ pc[s] # "idle"
    /\ outcome[s] = "pending" =>
         \A r \in Runs : outcome[r] = "refused" =>
            \A z \in Needs[s] : lock[z] # s => blockedOn[r] < z

HasWinner == (\E r \in Runs : outcome[r] = "refused") => \E s \in Runs : Winner(s)

LockInv == LockTypeOK /\ Owners /\ Refusals /\ HasWinner

(* What a run needs are resources, and numbers.                           *)
LEMMA NeedsAreResources ==
    \A r \in Runs : Needs[r] \subseteq Resources /\ Needs[r] \subseteq Nat
BY NeedsAssumption DEF Resources

(* Lock files are named by their rank in the canonical order.              *)
LEMMA ResourcesAreNat == Resources \subseteq Nat
BY NeedsAssumption DEF Resources

(* Before anybody starts, every lock is free.                              *)
LEMMA LockInitInv == LockInit => LockInv
<1> SUFFICES ASSUME LockInit PROVE LockInv
  OBVIOUS
<1>1. LockTypeOK
  BY DEF LockInit, LockTypeOK, Phases, Outcomes
<1>2. Owners
  BY NeedsAreResources DEF LockInit, Owners, NoOrphanLock
<1>3. Refusals /\ HasWinner
  BY DEF LockInit, Refusals, HasWinner
<1> QED
  BY <1>1, <1>2, <1>3 DEF LockInv

(* A run starts to acquire. *)
LEMMA StartInv == ASSUME LockInv, NEW r \in Runs, Start(r) PROVE LockInv'
<1>0. LockTypeOK /\ Owners /\ Refusals /\ HasWinner
  BY DEF LockInv
<1>1. LockTypeOK'
  BY <1>0 DEF Start, LockTypeOK, Phases, Outcomes
<1>2. Owners'
  BY <1>0, <1>1, NeedsAreResources, ResourcesAreNat, NeedsAssumption DEF Start, Owners, NoOrphanLock, LockTypeOK
<1>3. Refusals'
  BY <1>0, <1>1, NeedsAreResources, ResourcesAreNat, NeedsAssumption DEF Start, Owners, NoOrphanLock, Refusals, LockTypeOK
<1>4. HasWinner'
  BY <1>0, <1>1, NeedsAreResources, ResourcesAreNat, NeedsAssumption DEF Start, Refusals, HasWinner, Winner, LockTypeOK
<1> QED
  BY <1>1, <1>2, <1>3, <1>4 DEF LockInv

(* A lock is taken in order: the prefix grows, and nobody misses more. *)
LEMMA TryLockInv == ASSUME LockInv, NEW r \in Runs, TryLock(r) PROVE LockInv'
<1>0. LockTypeOK /\ Owners /\ Refusals /\ HasWinner
  BY DEF LockInv
<1>1. LockTypeOK'
  BY <1>0 DEF TryLock, NextLock, Remaining, Held, LockTypeOK, Phases, Outcomes
<1>2. Owners'
  BY <1>0, <1>1, NeedsAreResources, ResourcesAreNat, NeedsAssumption DEF TryLock, NextLock, Remaining, Held, Owners, NoOrphanLock, LockTypeOK
<1>3. Refusals'
  BY <1>0, <1>1, NeedsAreResources, ResourcesAreNat, NeedsAssumption DEF TryLock, NextLock, Remaining, Held, Owners, NoOrphanLock, Refusals, LockTypeOK
<1>4. HasWinner'
  BY <1>0, <1>1, NeedsAreResources, ResourcesAreNat, NeedsAssumption DEF TryLock, NextLock, Remaining, Held, Refusals, HasWinner, Winner, LockTypeOK
<1> QED
  BY <1>1, <1>2, <1>3, <1>4 DEF LockInv

(* A lock file cannot be opened. *)
LEMMA SetupErrorInv == ASSUME LockInv, NEW r \in Runs, SetupError(r) PROVE LockInv'
<1>0. LockTypeOK /\ Owners /\ Refusals /\ HasWinner
  BY DEF LockInv
<1>1. LockTypeOK'
  BY <1>0 DEF SetupError, LockTypeOK, Phases, Outcomes
<1>2. Owners'
  BY <1>0, <1>1, NeedsAreResources, ResourcesAreNat, NeedsAssumption DEF SetupError, Owners, NoOrphanLock, LockTypeOK
<1>3. Refusals'
  BY <1>0, <1>1, NeedsAreResources, ResourcesAreNat, NeedsAssumption DEF SetupError, Owners, NoOrphanLock, Refusals, LockTypeOK
<1>4. HasWinner'
  BY <1>0, <1>1, NeedsAreResources, ResourcesAreNat, NeedsAssumption DEF SetupError, Refusals, HasWinner, Winner, LockTypeOK
<1> QED
  BY <1>1, <1>2, <1>3, <1>4 DEF LockInv

(* Nothing is missing any more. *)
LEMMA EnterInv == ASSUME LockInv, NEW r \in Runs, Enter(r) PROVE LockInv'
<1>0. LockTypeOK /\ Owners /\ Refusals /\ HasWinner
  BY DEF LockInv
<1>1. LockTypeOK'
  BY <1>0 DEF Enter, Remaining, Held, LockTypeOK, Phases, Outcomes
<1>2. Owners'
  BY <1>0, <1>1, NeedsAreResources, ResourcesAreNat, NeedsAssumption DEF Enter, Remaining, Held, Owners, NoOrphanLock, LockTypeOK
<1>3. Refusals'
  BY <1>0, <1>1, NeedsAreResources, ResourcesAreNat, NeedsAssumption DEF Enter, Remaining, Held, Owners, NoOrphanLock, Refusals, LockTypeOK
<1>4. HasWinner'
  BY <1>0, <1>1, NeedsAreResources, ResourcesAreNat, NeedsAssumption DEF Enter, Remaining, Held, Refusals, HasWinner, Winner, LockTypeOK
<1> QED
  BY <1>1, <1>2, <1>3, <1>4 DEF LockInv

(* The body ends. *)
LEMMA LeaveInv == ASSUME LockInv, NEW r \in Runs, Leave(r) PROVE LockInv'
<1>0. LockTypeOK /\ Owners /\ Refusals /\ HasWinner
  BY DEF LockInv
<1>1. LockTypeOK'
  BY <1>0 DEF Leave, LockTypeOK, Phases, Outcomes
<1>2. Owners'
  BY <1>0, <1>1, NeedsAreResources, ResourcesAreNat, NeedsAssumption DEF Leave, Owners, NoOrphanLock, LockTypeOK
<1>3. Refusals'
  BY <1>0, <1>1, NeedsAreResources, ResourcesAreNat, NeedsAssumption DEF Leave, Owners, NoOrphanLock, Refusals, LockTypeOK
<1>4. HasWinner'
  BY <1>0, <1>1, NeedsAreResources, ResourcesAreNat, NeedsAssumption DEF Leave, Refusals, HasWinner, Winner, LockTypeOK
<1> QED
  BY <1>1, <1>2, <1>3, <1>4 DEF LockInv

(* The last acquired lock is dropped. *)
LEMMA UnlockInv == ASSUME LockInv, NEW r \in Runs, Unlock(r) PROVE LockInv'
<1>0. LockTypeOK /\ Owners /\ Refusals /\ HasWinner
  BY DEF LockInv
<1>1. LockTypeOK'
  BY <1>0 DEF Unlock, Held, LockTypeOK, Phases, Outcomes
<1>2. Owners'
  BY <1>0, <1>1, NeedsAreResources, ResourcesAreNat, NeedsAssumption DEF Unlock, Held, Owners, NoOrphanLock, LockTypeOK
<1>3. Refusals'
  BY <1>0, <1>1, NeedsAreResources, ResourcesAreNat, NeedsAssumption DEF Unlock, Held, Owners, NoOrphanLock, Refusals, LockTypeOK
<1>4. HasWinner'
  BY <1>0, <1>1, NeedsAreResources, ResourcesAreNat, NeedsAssumption DEF Unlock, Held, Refusals, HasWinner, Winner, LockTypeOK
<1> QED
  BY <1>1, <1>2, <1>3, <1>4 DEF LockInv

(* Nothing is held any more. *)
LEMMA ExitInv == ASSUME LockInv, NEW r \in Runs, Exit(r) PROVE LockInv'
<1>0. LockTypeOK /\ Owners /\ Refusals /\ HasWinner
  BY DEF LockInv
<1>1. LockTypeOK'
  BY <1>0 DEF Exit, Held, LockTypeOK, Phases, Outcomes
<1>2. Owners'
  BY <1>0, <1>1, NeedsAreResources, ResourcesAreNat, NeedsAssumption DEF Exit, Held, Owners, NoOrphanLock, LockTypeOK
<1>3. Refusals'
  BY <1>0, <1>1, NeedsAreResources, ResourcesAreNat, NeedsAssumption DEF Exit, Held, Owners, NoOrphanLock, Refusals, LockTypeOK
<1>4. HasWinner'
  BY <1>0, <1>1, NeedsAreResources, ResourcesAreNat, NeedsAssumption DEF Exit, Held, Refusals, HasWinner, Winner, LockTypeOK
<1> QED
  BY <1>1, <1>2, <1>3, <1>4 DEF LockInv

(* The kernel drops what a dead process held. *)
LEMMA KillInv == ASSUME LockInv, NEW r \in Runs, Kill(r) PROVE LockInv'
<1>0. LockTypeOK /\ Owners /\ Refusals /\ HasWinner
  BY DEF LockInv
<1>1. LockTypeOK'
  BY <1>0 DEF Kill, LockTypeOK, Phases, Outcomes
<1>2. Owners'
  BY <1>0, <1>1, NeedsAreResources, ResourcesAreNat, NeedsAssumption DEF Kill, Owners, NoOrphanLock, LockTypeOK
<1>3. Refusals'
  BY <1>0, <1>1, NeedsAreResources, ResourcesAreNat, NeedsAssumption DEF Kill, Owners, NoOrphanLock, Refusals, LockTypeOK
<1>4. HasWinner'
  BY <1>0, <1>1, NeedsAreResources, ResourcesAreNat, NeedsAssumption DEF Kill, Refusals, HasWinner, Winner, LockTypeOK
<1> QED
  BY <1>1, <1>2, <1>3, <1>4 DEF LockInv

(* A refusal names a winner: the run y the invariant promises, unless y is *)
(* the one refused or does not get past the same lock; then the holder.    *)
LEMMA RefuseInv == ASSUME LockInv, NEW r \in Runs, Refuse(r) PROVE LockInv'
<1>0. LockTypeOK /\ Owners /\ Refusals /\ HasWinner
  BY DEF LockInv
<1>1. LockTypeOK'
  BY <1>0 DEF Refuse, LockTypeOK, Phases, Outcomes
<1>2. Owners'
  BY <1>0, <1>1, NeedsAreResources, ResourcesAreNat, NeedsAssumption
     DEF Refuse, Owners, NoOrphanLock, LockTypeOK
<1> PICK x \in Resources :
      /\ NextLock(r, x)
      /\ lock[x] # NoRun
      /\ blockedOn' = [blockedOn EXCEPT ![r] = x]
  BY DEF Refuse
<1> PICK h : h = lock[x]
  OBVIOUS
<1>3. /\ pc[r] = "acquiring" /\ outcome[r] = "pending" /\ lock' = lock
      /\ outcome' = [outcome EXCEPT ![r] = "refused"]
      /\ pc' = [pc EXCEPT ![r] = "releasing"]
  BY <1>0 DEF Refuse, Refusals
<1>4. /\ x \in Needs[r] /\ h # r /\ x \in Nat
      /\ \A z \in Needs[r] : lock[z] # r => x <= z
  BY NeedsAreResources, ResourcesAreNat DEF NextLock, Remaining, Held
<1>5. h \in Runs /\ x \in Needs[h] /\ pc[h] \in {"acquiring", "inside", "releasing"}
  BY <1>0 DEF LockTypeOK, Owners, NoOrphanLock
<1>6. \A z \in Resources : lock[z] = r => z < x
  <2> SUFFICES ASSUME NEW z \in Resources, lock[z] = r, ~(z < x) PROVE FALSE
    OBVIOUS
  <2>1. z \in Needs[r] /\ z \in Nat /\ z # x
    BY <1>0, <1>4, NeedsAssumption, ResourcesAreNat DEF Owners, NoOrphanLock
  <2>2. x < z
    BY <2>1, <1>4
  <2> QED
    BY <1>0, <1>3, <1>4, <2>1, <2>2 DEF Owners
<1>7. Refusals'
  BY <1>0, <1>1, <1>3, <1>4, <1>6 DEF Refusals, LockTypeOK
<1>8. HasWinner'
  <2>1. ASSUME outcome[h] # "refused",
               \A s \in Runs : outcome[s] = "refused" => blockedOn[s] < x \/ outcome[h] # "pending"
        PROVE Winner(h)'
    <3>1. \A z \in Needs[h] : outcome[h] = "pending" /\ lock[z] # h => x < z
      BY <1>0, <1>4, <1>5, NeedsAreResources DEF Owners, Refusals
    <3>2. \A z \in Needs[h] : z \in Nat
      BY NeedsAreResources, <1>5
    <3>3. \A s \in Runs : outcome[s] = "refused" => blockedOn[s] \in Nat
      BY <1>0, NeedsAreResources DEF Refusals
    <3> QED
      BY <1>0, <1>3, <1>4, <1>5, <2>1, <3>1, <3>2, <3>3 DEF Winner, LockTypeOK
  <2>2. ASSUME \A s \in Runs : outcome[s] # "refused" PROVE HasWinner'
    <3>1. Winner(h)'
      BY <1>5, <2>1, <2>2
    <3> QED
      BY <3>1, <1>5 DEF HasWinner
  <2>3. ASSUME NEW y \in Runs, Winner(y),
               ~(y # r /\ (outcome[y] = "pending" => \A z \in Needs[y] : lock[z] # y => x < z))
        PROVE Winner(h)'
    <3>1. PICK z \in Needs[y] : z \in Nat /\ z <= x /\ lock[z] # y /\ outcome[y] = "pending"
      <4>1. CASE y = r
        BY <4>1, <1>3, <1>4, <1>5
      <4>2. CASE y # r
        BY <4>2, <2>3, <1>4, NeedsAreResources
      <4> QED
        BY <4>1, <4>2
    <3>2. \A s \in Runs : outcome[s] = "refused" => blockedOn[s] \in Nat /\ blockedOn[s] < x
      BY <1>0, <1>4, <2>3, <3>1, NeedsAreResources DEF Winner, Refusals
    <3>3. outcome[h] # "refused"
      BY <1>0, <1>4, <1>5, <3>2 DEF Refusals
    <3> QED
      BY <2>1, <3>2, <3>3
  <2>4. ASSUME NEW y \in Runs, Winner(y), y # r,
               outcome[y] = "pending" => \A z \in Needs[y] : lock[z] # y => x < z
        PROVE Winner(y)'
    BY <1>0, <1>3, <2>4 DEF Winner, LockTypeOK
  <2>5. CASE \E s \in Runs : outcome[s] = "refused"
    <3> PICK y \in Runs : Winner(y)
      BY <1>0, <2>5 DEF HasWinner
    <3>1. Winner(h)' \/ Winner(y)'
      BY <2>3, <2>4
    <3> QED
      BY <3>1, <1>5 DEF HasWinner
  <2> QED
    BY <2>2, <2>5
<1> QED
  BY <1>1, <1>2, <1>7, <1>8 DEF LockInv

(* A step that leaves the lock statement alone.                            *)
LEMMA LockStutterInv == LockInv /\ UNCHANGED lockVars => LockInv'
BY DEF LockInv, lockVars, LockTypeOK, Owners, NoOrphanLock, Refusals, HasWinner, Winner

(* The inductive invariant of the acquisition, the unwinding and kills.    *)
THEOREM LockInvariant == LockSpec => []LockInv
<1>1. LockInv /\ [LockNext]_lockVars => LockInv'
  BY StartInv, TryLockInv, RefuseInv, EnterInv, SetupErrorInv, LeaveInv, UnlockInv,
     ExitInv, KillInv, LockStutterInv DEF LockNext, Acquisition, Release
<1> QED
  BY <1>1, LockInitInv, PTL DEF LockSpec

(* The consequences of the invariant, also for the modules that extend     *)
(* SingleFlight with what runs do inside the body.                         *)
LEMMA InvExcludes == LockInv => MutualExclusion
BY NeedsAssumption DEF LockInv, Owners, MutualExclusion

(* A winner of the contention is a run that was not refused.               *)
LEMMA InvNoDoubleRefusal == LockInv => NoDoubleRefusal
BY DEF LockInv, HasWinner, Winner, NoDoubleRefusal

(* The locks, phases and outcomes keep their types.                        *)
THEOREM LockTypes == LockSpec => []LockTypeOK
BY LockInvariant, PTL DEF LockInv

(* Runs that share a resource are never in the body together, for any      *)
(* number of runs and any overlap of what they need.                       *)
THEOREM Exclusion == LockSpec => []MutualExclusion
BY LockInvariant, InvExcludes, PTL

(* However many runs contend, and whatever they share, not all refuse.     *)
THEOREM NeverAllRefused == LockSpec => []NoDoubleRefusal
BY LockInvariant, InvNoDoubleRefusal, PTL

(* No lock outlives its owner, not even one that was killed.               *)
THEOREM NoOrphans == LockSpec => []NoOrphanLock
<1>1. LockInv => NoOrphanLock
  BY DEF LockInv, Owners
<1> QED
  BY <1>1, LockInvariant, PTL
===========================================================================
