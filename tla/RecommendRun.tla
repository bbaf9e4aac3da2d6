--------------------------- MODULE RecommendRun ---------------------------
(***************************************************************************)
(* The run of today's recommendation from the operator UI: it takes the    *)
(* updater's own provider lock, lets a child process tree read the bundle, *)
(* kills the tree on a timeout, and once the lock is released publishes    *)
(* the artifacts one by one, with a ledger for rolling them back.  The     *)
(* other runs of SingleFlight are updates, which swap the bundle while     *)
(* they are inside.                                                        *)
(*                                                                         *)
(* web/operator_ui/recommend_runner.py, web/operator_ui/provider_lock.py   *)
(***************************************************************************)
EXTENDS SingleFlight

CONSTANTS
    Recommends,   \* the runs of this runner; the other runs are updates
    LastArtifact, \* the artifacts are numbered in the order of sorted()
    Old, Absent   \* an artifact of an earlier day, no file

Artifacts == 1..LastArtifact
Versions == Recommends \cup {Old, Absent}

ASSUME RecommendAssumption ==
    /\ Recommends \subseteq Runs
    /\ LastArtifact \in Nat
    /\ Old # Absent /\ {Old, Absent} \cap Recommends = {}

VARIABLES
    step,       \* the next step of each run_daily_recommend
    child,      \* its process tree
    note,       \* kill_note: the tree may have survived
    out,        \* OUT_DIR
    staged,     \* the staging directory of each run
    prior,      \* its rollback ledger .prior
    pub,        \* the locals of _publish and _rollback
    result,     \* the kind of the result, with "undone" and "torn" for the two
                \* ways in which a publication ends in run_failed
    was,        \* history: OUT_DIR when the publication began
    crowded     \* history: publications during which another one was going on

readVars == <<step, child, note, result>>
fileVars == <<out, staged, prior, pub, was, crowded>>
recommendVars == <<lockVars, readVars, fileVars>>

Nothing == [a \in Artifacts |-> Absent]
NoPublication == [next |-> 1, published |-> {}, saved |-> {}, residual |-> {}]
Publishing(r) == step[r] \in {"save", "move", "unpublish", "restore"}

RunnerTypeOK ==
    /\ step \in [Recommends -> {"spawn", "wait", "kill", "drain", "judge", "save", "move",
                                "unpublish", "restore", "over", "dead"}]
    /\ child \in [Recommends -> {"none", "reads", "ok", "failed", "killed"}]
    /\ note \in [Recommends -> BOOLEAN]
    /\ result \in [Recommends -> {"none", "launch_failed", "timeout", "incomplete", "failed",
                                  "run_failed", "ok", "undone", "torn"}]
    /\ out \in [Artifacts -> Versions]
    /\ staged \in [Recommends -> [Artifacts -> Versions]]
    /\ prior \in [Recommends -> [Artifacts -> Versions]]
    /\ pub \in [Recommends -> [next : 1..LastArtifact + 1, published : SUBSET Artifacts,
                               saved : SUBSET Artifacts, residual : SUBSET Artifacts]]
    /\ was \in [Recommends -> [Artifacts -> Versions]]
    /\ crowded \subseteq Recommends

RecommendTypeOK == LockTypeOK /\ RunnerTypeOK

RecommendInit ==
    /\ LockInit
    /\ step = [r \in Recommends |-> "spawn"]
    /\ child = [r \in Recommends |-> "none"]
    /\ note = [r \in Recommends |-> FALSE]
    /\ result = [r \in Recommends |-> "none"]
    /\ out \in [Artifacts -> {Old, Absent}]
    /\ staged = [r \in Recommends |-> Nothing]
    /\ prior = [r \in Recommends |-> Nothing]
    /\ pub = [r \in Recommends |-> NoPublication]
    /\ was = [r \in Recommends |-> Nothing]
    /\ crowded = {}
---------------------------------------------------------------------------
Goto(r, s) == step' = [step EXCEPT ![r] = s]
Returns(r, kind) == Goto(r, "over") /\ result' = [result EXCEPT ![r] = kind]

(* Popen, with the provider lock held.                                     *)
Spawn(r) ==
    /\ pc[r] = "inside" /\ step[r] = "spawn"
    /\ child' = [child EXCEPT ![r] = "reads"]
    /\ Goto(r, "wait")
    /\ UNCHANGED <<lockVars, note, result, fileVars>>

SpawnFails(r) ==
    /\ step[r] = "spawn" /\ Leave(r)
    /\ Returns(r, "launch_failed")
    /\ UNCHANGED <<child, note, fileVars>>

(* The tree ends; exit 0 is meant to leave artifacts in the staging.       *)
ChildEnds(r) ==
    /\ child[r] = "reads"
    /\ \/ /\ child' = [child EXCEPT ![r] = "ok"]
          /\ \E wrote \in SUBSET Artifacts :
                staged' = [staged EXCEPT ![r] = [a \in Artifacts |-> IF a \in wrote THEN r ELSE Absent]]
       \/ /\ child' = [child EXCEPT ![r] = "failed"]
          /\ UNCHANGED staged
    /\ UNCHANGED <<lockVars, step, note, result, out, prior, pub, was, crowded>>

(* communicate returns when the tree has closed the pipes, or times out,   *)
(* possibly on a tree that has just ended.                                 *)
WaitReturns(r) ==
    /\ step[r] = "wait" /\ child[r] \in {"ok", "failed"}
    /\ Leave(r)
    /\ Goto(r, "judge")
    /\ UNCHANGED <<child, note, result, fileVars>>

TimesOut(r) ==
    /\ step[r] = "wait" /\ pc[r] = "inside"
    /\ Goto(r, "kill")
    /\ UNCHANGED <<lockVars, child, note, result, fileVars>>

(* _kill_tree: its answer says nothing certain about a tree that is slow   *)
(* to die, and a failed one may have killed it all the same.               *)
KillTree(r) ==
    /\ step[r] = "kill" /\ pc[r] = "inside"
    /\ \E complete \in BOOLEAN : note' = [note EXCEPT ![r] = ~complete]
    /\ child' \in {child, [child EXCEPT ![r] = IF @ = "reads" THEN "killed" ELSE @]}
    /\ Goto(r, "drain")
    /\ UNCHANGED <<lockVars, result, fileVars>>

DrainForever(r) ==                      \* mutant: the drain has no timeout
    /\ step[r] = "drain" /\ child[r] # "reads"
    /\ Leave(r)
    /\ IF note[r] THEN Returns(r, "incomplete") /\ UNCHANGED staged
       ELSE Returns(r, "timeout") /\ staged' = [staged EXCEPT ![r] = Nothing]
    /\ UNCHANGED <<child, note, out, prior, pub, was, crowded>>

DrainTrusted(r) ==                      \* mutant: the drain's timeout is not a note
    /\ step[r] = "drain"
    /\ Leave(r)
    /\ IF note[r] THEN Returns(r, "incomplete") /\ UNCHANGED staged
       ELSE Returns(r, "timeout") /\ staged' = [staged EXCEPT ![r] = Nothing]
    /\ UNCHANGED <<child, note, out, prior, pub, was, crowded>>

(* The drain ends with the pipes of a dead tree, or with the grace; only   *)
(* then is the staging kept.                                               *)
Drain(r) ==
    /\ step[r] = "drain"
    /\ Leave(r)
    /\ IF note[r] \/ child[r] = "reads"
       THEN Returns(r, "incomplete") /\ UNCHANGED staged
       ELSE Returns(r, "timeout") /\ staged' = [staged EXCEPT ![r] = Nothing]
    /\ UNCHANGED <<child, note, out, prior, pub, was, crowded>>
---------------------------------------------------------------------------
(* After the release of the lock: the exit code, and _publish as far as    *)
(* the creation of .prior.                                                 *)
Fails(r) ==
    /\ step[r] = "judge" /\ pc[r] = "gone" /\ child[r] = "failed"
    /\ Returns(r, "failed")
    /\ staged' = [staged EXCEPT ![r] = Nothing]
    /\ UNCHANGED <<lockVars, child, note, out, prior, pub, was, crowded>>

PublishesNothing(r) ==
    /\ step[r] = "judge" /\ pc[r] = "gone" /\ child[r] = "ok"
    /\ Returns(r, "run_failed")
    /\ UNCHANGED <<lockVars, child, note, fileVars>>

BeginPublish(r) ==
    /\ step[r] = "judge" /\ pc[r] = "gone" /\ child[r] = "ok"
    /\ staged[r] # Nothing
    /\ Goto(r, "save")
    /\ was' = [was EXCEPT ![r] = out]
    /\ LET others == {s \in Recommends \ {r} : Publishing(s)} IN
       crowded' = IF others = {} THEN crowded ELSE crowded \cup others \cup {r}
    /\ UNCHANGED <<lockVars, child, note, result, out, staged, prior, pub>>

(* The next file of the loop.                                              *)
NextFile(r, a) == a = pub[r].next /\ a \in Artifacts

SkipUnwritten(r) ==
    /\ step[r] = "save"
    /\ \E a \in Artifacts : NextFile(r, a) /\ staged[r][a] = Absent
    /\ pub' = [pub EXCEPT ![r].next = @ + 1]
    /\ UNCHANGED <<lockVars, readVars, out, staged, prior, was, crowded>>

(* os.replace of the old version into the ledger; no old version is no     *)
(* error.                                                                  *)
SavePrior(r) ==
    /\ step[r] = "save"
    /\ \E a \in Artifacts :
        /\ NextFile(r, a) /\ staged[r][a] # Absent
        /\ IF out[a] = Absent THEN UNCHANGED <<out, prior, pub>>
           ELSE /\ prior' = [prior EXCEPT ![r][a] = out[a]]
                /\ out' = [out EXCEPT ![a] = Absent]
                /\ pub' = [pub EXCEPT ![r].saved = @ \cup {a}]
    /\ Goto(r, "move")
    /\ UNCHANGED <<lockVars, child, note, result, staged, was, crowded>>

(* os.replace of the new version.                                          *)
MoveNew(r) ==
    /\ step[r] = "move"
    /\ \E a \in Artifacts :
        /\ NextFile(r, a)
        /\ out' = [out EXCEPT ![a] = staged[r][a]]
        /\ staged' = [staged EXCEPT ![r][a] = Absent]
        /\ pub' = [pub EXCEPT ![r].published = @ \cup {a}, ![r].next = @ + 1]
    /\ Goto(r, "save")
    /\ UNCHANGED <<lockVars, child, note, result, prior, was, crowded>>

(* Either replace may fail, before it changes anything.                    *)
ReplaceFails(r) ==
    /\ step[r] \in {"save", "move"}
    /\ pub[r].next \in Artifacts /\ staged[r][pub[r].next] # Absent
    /\ Goto(r, "unpublish")
    /\ UNCHANGED <<lockVars, child, note, result, fileVars>>

Published(r) ==
    /\ step[r] = "save" /\ pub[r].next \notin Artifacts
    /\ Returns(r, "ok")
    /\ staged' = [staged EXCEPT ![r] = Nothing]
    /\ prior' = [prior EXCEPT ![r] = Nothing]
    /\ UNCHANGED <<lockVars, child, note, out, pub, was, crowded>>

(* _rollback: first every new file goes back to the staging ...            *)
First(a, S) == a \in S /\ \A b \in S : a <= b

Unpublish(r) ==
    /\ step[r] = "unpublish"
    /\ \E a \in Artifacts :
        /\ First(a, pub[r].published)
        /\ \/ /\ out[a] # Absent
              /\ staged' = [staged EXCEPT ![r][a] = out[a]]
              /\ out' = [out EXCEPT ![a] = Absent]
              /\ pub' = [pub EXCEPT ![r].published = @ \ {a}]
           \/ /\ pub' = [pub EXCEPT ![r].published = @ \ {a}, ![r].residual = @ \cup {a}]
              /\ UNCHANGED <<out, staged>>
    /\ UNCHANGED <<lockVars, readVars, prior, was, crowded>>

AllUnpublished(r) ==
    /\ step[r] = "unpublish" /\ pub[r].published = {}
    /\ Goto(r, "restore")
    /\ UNCHANGED <<lockVars, child, note, result, fileVars>>

RestoreOver(r) ==                       \* mutant: over a new file that is still there
    /\ step[r] = "restore"
    /\ \E a \in Artifacts :
        /\ First(a, pub[r].saved)
        /\ out' = [out EXCEPT ![a] = prior[r][a]]
        /\ prior' = [prior EXCEPT ![r][a] = Absent]
        /\ pub' = [pub EXCEPT ![r].saved = @ \ {a}]
    /\ UNCHANGED <<lockVars, readVars, staged, was, crowded>>

(* ... then every old one back to its place, unless the new one is there.  *)
Restore(r) ==
    /\ step[r] = "restore"
    /\ \E a \in Artifacts :
        /\ First(a, pub[r].saved)
        /\ \/ /\ a \notin pub[r].residual
              /\ out' = [out EXCEPT ![a] = prior[r][a]]
              /\ prior' = [prior EXCEPT ![r][a] = Absent]
              /\ pub' = [pub EXCEPT ![r].saved = @ \ {a}]
           \/ /\ pub' = [pub EXCEPT ![r].saved = @ \ {a}, ![r].residual = @ \cup {a}]
              /\ UNCHANGED <<out, prior>>
    /\ UNCHANGED <<lockVars, readVars, staged, was, crowded>>

RolledBack(r) ==
    /\ step[r] = "restore" /\ pub[r].saved = {}
    /\ Returns(r, IF pub[r].residual = {} THEN "undone" ELSE "torn")
    /\ UNCHANGED <<lockVars, child, note, fileVars>>
---------------------------------------------------------------------------
(* The UI process dies: the kernel frees its lock, the tree lives on in a  *)
(* session of its own.                                                     *)
UiDies(r) ==
    /\ step[r] \notin {"over", "dead"}
    /\ \/ Kill(r)
       \/ pc[r] = "gone" /\ UNCHANGED lockVars
    /\ Goto(r, "dead")
    /\ UNCHANGED <<child, note, result, fileVars>>

Supervise(r) ==
    \/ Spawn(r) \/ SpawnFails(r) \/ WaitReturns(r) \/ TimesOut(r) \/ KillTree(r) \/ Drain(r)

Publish(r) ==
    \/ Fails(r) \/ PublishesNothing(r) \/ BeginPublish(r)
    \/ SkipUnwritten(r) \/ SavePrior(r) \/ MoveNew(r) \/ ReplaceFails(r) \/ Published(r)
    \/ Unpublish(r) \/ AllUnpublished(r) \/ Restore(r) \/ RolledBack(r)

(* What single_flight and hold_update_lock do themselves.                  *)
LockStep(r) == Start(r) \/ Acquisition(r) \/ SetupError(r) \/ Release(r)

RecommendNext ==
    \/ \E r \in Runs : LockStep(r) /\ UNCHANGED <<readVars, fileVars>>
    \/ \E u \in Runs \ Recommends : (Leave(u) \/ Kill(u)) /\ UNCHANGED <<readVars, fileVars>>
    \/ \E r \in Recommends : Supervise(r) \/ ChildEnds(r) \/ Publish(r) \/ UiDies(r)

RecommendSpec == RecommendInit /\ [][RecommendNext]_recommendVars

(* A process that is scheduled goes on; both waits of the runner have a    *)
(* timeout, so nothing is assumed of the tree it supervises.               *)
RecommendFairness ==
    /\ \A r \in Runs : WF_recommendVars((Acquisition(r) \/ Release(r)) /\ UNCHANGED <<readVars, fileVars>>)
    /\ \A u \in Runs \ Recommends : WF_recommendVars(Leave(u) /\ UNCHANGED <<readVars, fileVars>>)
    /\ \A r \in Recommends : WF_recommendVars(Supervise(r))

FairRecommendSpec == RecommendSpec /\ RecommendFairness
---------------------------------------------------------------------------
(* "The CLI's bundle READ must not overlap the updater's swap window"      *)
(* (recommend_runner.py:209-213): a tree that still reads while an update  *)
(* of the same provider is inside was reported as surviving its kill, or   *)
(* the UI that held the lock for it is dead.                               *)
NoSwapUnderReader ==
    \A r \in Recommends, u \in Runs \ Recommends :
        child[r] = "reads" /\ pc[u] = "inside" /\ Needs[r] \cap Needs[u] # {}
            => result[r] = "incomplete" \/ step[r] = "dead"

(* "a sequential publish must never leave a mixed-run artifact set; only   *)
(* an INCOMPLETE rollback is a torn state, and then error names every      *)
(* residual exactly" (recommend_runner.py:84-90): with no other            *)
(* publication going on, whatever replace fails, a run that reports ok has *)
(* published all it wrote, one that reports a rollback has changed nothing,*)
(* and one that reports residuals changed those files only and lost no     *)
(* version, old or new, of any.                                            *)
PublicationIsWhole ==
    [][\A r \in Recommends \ crowded :
        /\ result'[r] = "ok" /\ result[r] # "ok" =>
              \A a \in Artifacts : out'[a] = IF a \in pub[r].published THEN r ELSE was[r][a]
        /\ result'[r] = "undone" /\ result[r] # "undone" => out' = was[r]
        /\ result'[r] = "torn" /\ result[r] # "torn" =>
              \A a \in Artifacts :
                 /\ a \notin pub[r].residual => out'[a] = was[r][a]
                 /\ was[r][a] \in {out'[a], prior'[r][a], Absent}
                 /\ a \in pub[r].residual => r \in {out'[a], staged'[r][a]}]_recommendVars
===========================================================================
