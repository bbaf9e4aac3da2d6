--------------------------- MODULE SingleFlight ---------------------------
(***************************************************************************)
(* src/data_pipeline/single_flight.py: the process-exclusive advisory      *)
(* locks a daily-update run takes on every mutable root it touches.        *)
(*                                                                         *)
(* A run is one process.  A resource is the rank of its lock file in the   *)
(* canonical (sorted) order, so Needs[r] is the sorted list `paths` of the *)
(* code.  An OS lock belongs to the process: the kernel frees it when the  *)
(* process dies, however it dies.                                          *)
(***************************************************************************)
EXTENDS Naturals

CONSTANTS
    Runs,        \* the processes that may call single_flight
    Needs,       \* Needs[r]: the lock files run r asks for
    NoRun        \* owner of a free lock

ASSUME NeedsAssumption ==
    /\ Needs \in [Runs -> SUBSET (Nat \ {0})]
    /\ \A r \in Runs : Needs[r] # {}
    /\ NoRun \notin Runs

Resources == UNION {Needs[r] : r \in Runs}

VARIABLES
    lock,        \* lock[x]: the process that holds lock file x
    pc,          \* where run r is in the context manager
    outcome,     \* how run r's acquisition ended
    blockedOn    \* the lock a refused run names in its error, 0 if none

lockVars == <<lock, pc, outcome, blockedOn>>

Phases == {"idle", "acquiring", "inside", "releasing", "gone"}
Outcomes == {"pending", "entered", "refused", "setup_error", "killed"}

LockTypeOK ==
    /\ lock \in [Resources -> Runs \cup {NoRun}]
    /\ pc \in [Runs -> Phases]
    /\ outcome \in [Runs -> Outcomes]
    /\ blockedOn \in [Runs -> Resources \cup {0}]

Held(r) == {x \in Resources : lock[x] = r}

(* Mutant: only the first path of the list is locked.                      *)
RemainingFirstOnly(r) == IF Held(r) = {} THEN Needs[r] ELSE {}

Remaining(r) == Needs[r] \ Held(r)

(* Mutant: the paths are not sorted.                                       *)
NextLockUnsorted(r, x) == x \in Needs[r] \ Held(r)

(* The next lock of `for path in paths`: the least one not yet taken. *)
NextLock(r, x) ==
    /\ x \in Remaining(r)
    /\ \A y \in Remaining(r) : x <= y

LockInit ==
    /\ lock = [x \in Resources |-> NoRun]
    /\ pc = [r \in Runs |-> "idle"]
    /\ outcome = [r \in Runs |-> "pending"]
    /\ blockedOn = [r \in Runs |-> 0]

Start(r) ==
    /\ pc[r] = "idle"
    /\ pc' = [pc EXCEPT ![r] = "acquiring"]
    /\ UNCHANGED <<lock, outcome, blockedOn>>

(* Mutant: the result of _try_lock_exclusive is ignored.                   *)
TryLockBlind(r) ==
    /\ pc[r] = "acquiring"
    /\ \E x \in Resources : NextLock(r, x) /\ lock' = [lock EXCEPT ![x] = r]
    /\ UNCHANGED <<pc, outcome, blockedOn>>

(* os.open succeeded and _try_lock_exclusive returned True. *)
TryLock(r) ==
    /\ pc[r] = "acquiring"
    /\ \E x \in Resources :
        /\ NextLock(r, x)
        /\ lock[x] = NoRun
        /\ lock' = [lock EXCEPT ![x] = r]
    /\ UNCHANGED <<pc, outcome, blockedOn>>

(* _try_lock_exclusive returned False: AlreadyRunningError, no waiting. *)
Refuse(r) ==
    /\ pc[r] = "acquiring"
    /\ \E x \in Resources :
        /\ NextLock(r, x)
        /\ lock[x] # NoRun
        /\ blockedOn' = [blockedOn EXCEPT ![r] = x]
    /\ pc' = [pc EXCEPT ![r] = "releasing"]
    /\ outcome' = [outcome EXCEPT ![r] = "refused"]
    /\ UNCHANGED lock

(* Mutant: the error is reported under a name the caller does not know.    *)
SetupErrorUntyped(r) ==
    /\ pc[r] = "acquiring" /\ Remaining(r) # {}
    /\ pc' = [pc EXCEPT ![r] = "releasing"]
    /\ outcome' = [outcome EXCEPT ![r] = "os_error"]
    /\ UNCHANGED <<lock, blockedOn>>

(* os.open of the next lock file failed: SingleFlightSetupError. *)
SetupError(r) ==
    /\ pc[r] = "acquiring"
    /\ Remaining(r) # {}
    /\ pc' = [pc EXCEPT ![r] = "releasing"]
    /\ outcome' = [outcome EXCEPT ![r] = "setup_error"]
    /\ UNCHANGED <<lock, blockedOn>>

(* Every lock is held: the generator yields and the body runs. *)
Enter(r) ==
    /\ pc[r] = "acquiring"
    /\ Remaining(r) = {}
    /\ pc' = [pc EXCEPT ![r] = "inside"]
    /\ outcome' = [outcome EXCEPT ![r] = "entered"]
    /\ UNCHANGED <<lock, blockedOn>>

(* The body returned or raised: the finally clause starts. *)
Leave(r) ==
    /\ pc[r] = "inside"
    /\ pc' = [pc EXCEPT ![r] = "releasing"]
    /\ UNCHANGED <<lock, outcome, blockedOn>>

(* Mutant: an off-by-one leaves the first acquired lock held.              *)
UnlockAllButFirst(r) ==
    /\ pc[r] = "releasing"
    /\ \E x, z \in Held(r) :
        /\ z # x /\ \A y \in Held(r) : y <= x
        /\ lock' = [lock EXCEPT ![x] = NoRun]
    /\ UNCHANGED <<pc, outcome, blockedOn>>

(* `for fd in reversed(held)`: the latest acquired lock first. *)
Unlock(r) ==
    /\ pc[r] = "releasing"
    /\ \E x \in Held(r) :
        /\ \A y \in Held(r) : y <= x
        /\ lock' = [lock EXCEPT ![x] = NoRun]
    /\ UNCHANGED <<pc, outcome, blockedOn>>

Exit(r) ==
    /\ pc[r] = "releasing"
    /\ Held(r) = {}
    /\ pc' = [pc EXCEPT ![r] = "gone"]
    /\ UNCHANGED <<lock, outcome, blockedOn>>

(* Mutant: a lock file whose presence is the lock survives its process.    *)
KillKeepsLocks(r) ==
    /\ pc[r] \notin {"idle", "gone"}
    /\ pc' = [pc EXCEPT ![r] = "gone"]
    /\ outcome' = [outcome EXCEPT ![r] = IF @ = "pending" THEN "killed" ELSE @]
    /\ UNCHANGED <<lock, blockedOn>>

(* SIGKILL, power loss: the kernel drops every lock of the process. *)
Kill(r) ==
    /\ pc[r] \notin {"idle", "gone"}
    /\ pc' = [pc EXCEPT ![r] = "gone"]
    /\ lock' = [x \in Resources |-> IF lock[x] = r THEN NoRun ELSE lock[x]]
    /\ outcome' = [outcome EXCEPT ![r] = IF @ = "pending" THEN "killed" ELSE @]
    /\ UNCHANGED blockedOn

Acquisition(r) == TryLock(r) \/ Refuse(r) \/ Enter(r)

Release(r) == Unlock(r) \/ Exit(r)

LockNext == \E r \in Runs :
    Start(r) \/ Acquisition(r) \/ SetupError(r) \/ Leave(r) \/ Release(r) \/ Kill(r)

LockSpec == LockInit /\ [][LockNext]_lockVars
---------------------------------------------------------------------------
(* Two runs that share any resource are never in the body together         *)
(* (single_flight.py:230-237, scripts/daily_update.py:122-125).            *)
MutualExclusion ==
    \A r, s \in Runs :
        r # s /\ pc[r] = "inside" /\ pc[s] = "inside" => Needs[r] \cap Needs[s] = {}

(* "exactly one wins, the other refuses cleanly (no double-refusal)"       *)
(* (single_flight.py:239-241): whatever the overlap of their resource      *)
(* sets, the contenders cannot all refuse each other.                      *)
NoDoubleRefusal ==
    (\E r \in Runs : outcome[r] = "refused")
        => \E s \in Runs : outcome[s] # "refused" /\ pc[s] # "idle"

(* "nothing wedges the next run" (single_flight.py:241-243): a lock is     *)
(* only ever owned by a living process that is acquiring, in the body or   *)
(* releasing.                                                              *)
NoOrphanLock ==
    \A x \in Resources : lock[x] # NoRun =>
        /\ x \in Needs[lock[x]]
        /\ pc[lock[x]] \in {"acquiring", "inside", "releasing"}

(* Non-blocking locks cannot deadlock: a started run always gets out.      *)
StartedRunEnds == \A r \in Runs : pc[r] = "acquiring" ~> pc[r] = "gone"
===========================================================================
