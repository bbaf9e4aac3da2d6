------------------------ MODULE JobLifecycle_proofs ------------------------
(***************************************************************************)
(* Proofs about a training job, for any number of UI sessions that stop,   *)
(* poll and delete it: merges under the lock lose nothing, a compare-and-  *)
(* set never overwrites the end of a run, and success is real.             *)
(***************************************************************************)
EXTENDS JobLifecycle, TLAPS

(* The program points of each process.                                     *)
RoleLabels(q) ==
    IF q = "start" THEN {"pending", "spawn", "started", "done", "dead"}
    ELSE IF q = "runner" THEN
        {"off", "boot", "setup", "early_failed", "running", "spawning", "spawned", "wait",
         "success", "failed", "copy_logs", "run_dir", "exit", "dead"}
    ELSE IF q = "handler" THEN {"off", "terminate", "stopped", "exit"}
    ELSE IF q \in Stops THEN
        {"idle", "done", "no_pid", "probe", "kill", "grace", "cas_gone", "cas_unstopped", "cas_stopped"}
    ELSE IF q \in Polls THEN {"idle", "probe", "cas_zombie", "done"}
    ELSE {"idle", "rm_job", "done"}

Roles == \A q \in Procs : pc[q] \in RoleLabels(q)

(* Whoever has the lock is writing, and what it read still stands unless   *)
(* the job was deleted.                                                    *)
Holding ==
    /\ ~job.exists => job = NoJob
    /\ lock # Nobody => /\ pc[lock] \in WriteLabels
                        /\ seen[lock] = job \/ (job = NoJob /\ seen[lock].exists)
    /\ pc["handler"] = "exit" => lock # "runner"
    /\ pc["handler"] # "off" => pc["runner"] # "off"

(* Nobody probes a runner that start has not spawned.                      *)
NotSpawned ==
    pc["start"] \in {"pending", "spawn"} =>
        /\ pc["runner"] = "off" /\ ~job.pid
        /\ \A q \in Stops \cup Polls : pc[q] \in {"idle", "done", "no_pid"}

BeforeFork == {"off", "boot", "setup", "early_failed", "running", "spawning"}

(* What the runner knows of the training process.                          *)
ChildKnown ==
    /\ pc["runner"] \in BeforeFork => child = "none"
    /\ pc["runner"] \in {"success", "copy_logs", "run_dir"} => child = "ok"
    /\ SuccessIsReal

FoundDead == \A q \in Stops \cup Polls : pc[q] \in {"cas_gone", "cas_zombie"} => ~RunnerAlive

JobInv == JobTypeOK /\ Roles /\ Holding /\ NotSpawned /\ ChildKnown /\ FoundDead

(* The processes are different, and nobody is none of them.                *)
LEMMA Names ==
    /\ {"start", "runner", "handler"} \subseteq Procs /\ Nobody \notin Procs
    /\ \A q \in Stops \cup Polls \cup Deletes : q \in Procs /\ q \notin {"start", "runner", "handler"}
    /\ \A s \in Stops : s \notin Polls \cup Deletes
    /\ \A q \in Polls : q \notin Deletes
BY JobAssumption DEF Procs

(* A program point of a process is one of the labels.                      *)
LEMMA RolesAreLabels == ASSUME NEW q, NEW l \in RoleLabels(q) PROVE l \in Labels
BY DEF RoleLabels, Labels, WriteLabels, Writes

(* The program points at which each process writes.                        *)
LEMMA RolePoints ==
    /\ RoleLabels("start") = {"pending", "spawn", "started", "done", "dead"}
    /\ RoleLabels("runner") =
          {"off", "boot", "setup", "early_failed", "running", "spawning", "spawned", "wait",
           "success", "failed", "copy_logs", "run_dir", "exit", "dead"}
    /\ RoleLabels("handler") = {"off", "terminate", "stopped", "exit"}
    /\ \A s \in Stops : RoleLabels(s) =
          {"idle", "done", "no_pid", "probe", "kill", "grace", "cas_gone", "cas_unstopped", "cas_stopped"}
    /\ \A q \in Polls : RoleLabels(q) = {"idle", "probe", "cas_zombie", "done"}
    /\ \A d \in Deletes : RoleLabels(d) = {"idle", "rm_job", "done"}
BY Names DEF RoleLabels

LEMMA WritePoints ==
    WriteLabels = {"pending", "started", "running", "early_failed", "success", "failed", "run_dir", "stopped",
                   "no_pid", "cas_gone", "cas_unstopped", "cas_stopped", "cas_zombie"}
BY DEF WriteLabels, Writes

(* Nothing has happened yet.                                               *)
LEMMA JobInitInv == JobInit => JobInv
<1> SUFFICES ASSUME JobInit PROVE JobInv
  OBVIOUS
<1>1. JobTypeOK
  BY Names DEF JobInit, JobTypeOK, NoJob, Job, Statuses, Labels, WriteLabels, Writes
<1>2. Roles
  <2> SUFFICES ASSUME NEW q \in Procs PROVE pc[q] \in RoleLabels(q)
    BY DEF Roles
  <2> QED
    BY Names DEF JobInit, RoleLabels
<1>3. Holding /\ NotSpawned /\ ChildKnown /\ FoundDead
  BY Names DEF JobInit, Holding, NotSpawned, ChildKnown, FoundDead, BeforeFork, SuccessIsReal, NoJob
<1> QED
  BY <1>1, <1>2, <1>3 DEF JobInv

(* A process that is not writing moves on.                                 *)
LEMMA Move ==
    ASSUME JobInv, NEW q \in Procs, NEW l \in RoleLabels(q), Goto(q, l),
           UNCHANGED <<posix, job, lock, seen, child>>, signal' \in BOOLEAN,
           pc[q] \notin WriteLabels,
           q # "start",
           q = "runner" => /\ RunnerAlive /\ l # "off"
                           /\ l \in BeforeFork => child = "none"
                           /\ l \in {"success", "copy_logs", "run_dir"} => child = "ok",
           q = "handler" => l # "exit" /\ RunnerAlive,
           q \in Stops \cup Polls => /\ l \in {"idle", "done", "no_pid"} \/ pc["start"] \notin {"pending", "spawn"}
                                     /\ l \in {"cas_gone", "cas_zombie"} => ~RunnerAlive
    PROVE  JobInv'
<1>1. /\ pc \in [Procs -> Labels] /\ l \in Labels
      /\ \A r \in Procs : pc'[r] = IF r = q THEN l ELSE pc[r]
      /\ pc' \in [Procs -> Labels]
  BY RolesAreLabels DEF JobInv, JobTypeOK, Goto
<1>2. JobTypeOK'
  BY <1>1 DEF JobInv, JobTypeOK
<1>3. Roles'
  BY <1>1 DEF JobInv, Roles, RoleLabels
<1>4. Holding'
  BY <1>1, Names DEF JobInv, JobTypeOK, Holding, RunnerAlive
<1>5. pc'["start"] = pc["start"] /\ (RunnerAlive' => RunnerAlive)
  BY <1>1, Names DEF RunnerAlive
<1>6. NotSpawned'
  BY <1>1, <1>5, Names DEF JobInv, NotSpawned, RunnerAlive
<1>7. ChildKnown'
  BY <1>1, Names DEF JobInv, ChildKnown, SuccessIsReal
<1>8. FoundDead'
  BY <1>1, <1>5, Names DEF JobInv, FoundDead
<1> QED
  BY <1>2, <1>3, <1>4, <1>6, <1>7, <1>8 DEF JobInv

(* The lock is taken.                                                      *)
LEMMA AcquireInv == ASSUME JobInv, NEW q \in Procs, Acquire(q) PROVE JobInv'
<1>1. /\ lock' = q /\ pc[q] \in WriteLabels /\ UNCHANGED <<posix, job, pc, child, signal>>
      /\ q = "runner" => pc["handler"] = "off"
      /\ seen' \in [Procs -> Job] /\ seen'[q] = job
  BY DEF JobInv, JobTypeOK, Acquire, Scheduled
<1>2. JobTypeOK' /\ Roles'
  BY <1>1 DEF JobInv, JobTypeOK, Roles, RoleLabels
<1>3. Holding'
  BY <1>1 DEF JobInv, Holding
<1>4. NotSpawned' /\ ChildKnown' /\ FoundDead'
  BY <1>1 DEF JobInv, NotSpawned, ChildKnown, SuccessIsReal, FoundDead, RunnerAlive
<1> QED
  BY <1>2, <1>3, <1>4 DEF JobInv

(* What a writer read is what it overwrites.                               *)
LEMMA WriterIsCurrent ==
    ASSUME JobInv, NEW q \in Procs, lock = q, seen[q].exists => job.exists
    PROVE  seen[q] = job /\ pc[q] \in WriteLabels
BY Names DEF JobInv, Holding, NoJob

(* What the merge of a writer yields.                                      *)
LEMMA MergeFacts ==
    ASSUME NEW j \in Job, NEW w \in WriteLabels
    PROVE  /\ Merge(j, w) \in Job /\ Merge(j, w).exists
           /\ (j.pid => Merge(j, w).pid) /\ (j.runDir => Merge(j, w).runDir)
           /\ Merge(j, w).pid => j.pid \/ w = "started"
           /\ Merge(j, w).status = "success" => j.status = "success" \/ w = "success"
           /\ Merge(j, w).status = "failed" =>
                 j.status = "failed" \/ w \in {"early_failed", "failed", "cas_gone", "cas_zombie"}
<1>1. Writes[w].status \in Statuses /\ (Writes[w].status = "success" => w = "success")
      /\ (Writes[w].status = "failed" => w \in {"early_failed", "failed", "cas_gone", "cas_zombie"})
  BY WritePoints DEF Writes, Statuses
<1> QED
  BY <1>1 DEF Merge, Job

(* Where a writer goes on.                                                 *)
LEMMA AfterFacts ==
    ASSUME JobInv, NEW q \in Procs, pc[q] \in WriteLabels
    PROVE  /\ After(pc[q]) \in RoleLabels(q) /\ pc[q] \in RoleLabels(q)
           /\ q = "start" => /\ pc[q] \in {"pending", "started"}
                             /\ After(pc[q]) = IF pc[q] = "pending" THEN "spawn" ELSE "done"
           /\ q = "runner" => /\ After(pc[q]) = "spawning" => pc[q] = "running"
                              /\ After(pc[q]) \in {"spawning", "copy_logs", "exit"}
                              /\ After(pc[q]) = "copy_logs" => pc[q] = "success"
           /\ q \in Stops \cup Polls => After(pc[q]) = "done"
<1>1. pc[q] \in RoleLabels(q)
  BY DEF JobInv, Roles
<1> QED
  BY <1>1, RolePoints, WritePoints, Names DEF After, Procs

(* The lock is released with the merge.                                    *)
LEMMA CommitInv == ASSUME JobInv, NEW q \in Procs, Commit(q) PROVE JobInv'
<1> DEFINE w == pc[q]
<1> DEFINE l == After(w)
<1>1. /\ lock = q /\ lock' = Nobody /\ Goto(q, l) /\ UNCHANGED <<posix, seen, child, signal>>
      /\ seen[q] = job /\ w \in WriteLabels
      /\ job' = Merge(job, w) \/ job' = job
  BY WriterIsCurrent DEF Commit
<1>2. /\ job \in Job /\ job' \in Job /\ (job'.exists \/ job' = job)
      /\ job'.pid => job.pid \/ w = "started"
      /\ job'.status = "success" => job.status = "success" \/ w = "success"
  BY <1>1, MergeFacts DEF JobInv, JobTypeOK
<1>3. /\ l \in RoleLabels(q) /\ w \in RoleLabels(q)
      /\ q = "start" => w \in {"pending", "started"} /\ l = IF w = "pending" THEN "spawn" ELSE "done"
      /\ q = "runner" => /\ l = "spawning" => w = "running"
                         /\ l \in {"spawning", "copy_logs", "exit"}
                         /\ l = "copy_logs" => w = "success"
      /\ q \in Stops \cup Polls => l = "done"
  BY <1>1, AfterFacts
<1> HIDE DEF l
<1>4. /\ \A r \in Procs : pc'[r] = IF r = q THEN l ELSE pc[r]
      /\ pc' \in [Procs -> Labels]
  BY <1>1, <1>3, RolesAreLabels DEF JobInv, JobTypeOK, Goto
<1>5. JobTypeOK'
  BY <1>1, <1>2, <1>4 DEF JobInv, JobTypeOK
<1>6. Roles'
  BY <1>3, <1>4 DEF JobInv, Roles, RoleLabels
<1>8. w \notin {"off", "dead"} /\ (q = "runner" => l # "off")
  BY <1>1, <1>3, WritePoints
<1>7. Holding'
  BY <1>1, <1>2, <1>4, <1>8, Names DEF JobInv, Holding
<1>9. RunnerAlive' => RunnerAlive
  BY <1>4, <1>8, Names DEF RunnerAlive
<1>10. w \in {"started", "success"} => q = IF w = "started" THEN "start" ELSE "runner"
  BY <1>3, RolePoints, Names DEF Procs
<1>11. NotSpawned'
  BY <1>2, <1>3, <1>4, <1>8, <1>10, Names DEF JobInv, NotSpawned
<1>12. ChildKnown'
  BY <1>1, <1>2, <1>3, <1>4, <1>10, Names DEF JobInv, ChildKnown, BeforeFork, SuccessIsReal
<1>13. FoundDead'
  BY <1>3, <1>4, <1>9, Names DEF JobInv, FoundDead
<1> QED
  BY <1>5, <1>6, <1>7, <1>11, <1>12, <1>13 DEF JobInv

(* The job was deleted under a writer.                                     *)
LEMMA CommitFailsInv == ASSUME JobInv, NEW q \in Procs, CommitFails(q) PROVE JobInv'
<1> DEFINE l == IF q \in {"runner", "handler"} THEN "exit" ELSE "done"
<1>1. /\ lock = q /\ lock' = Nobody /\ Goto(q, l) /\ UNCHANGED <<posix, job, seen, child, signal>>
      /\ pc[q] \in WriteLabels
  BY Names DEF CommitFails, JobInv, Holding
<1>2. pc[q] \in RoleLabels(q)
  BY DEF JobInv, Roles
<1>3. l \in RoleLabels(q)
  BY <1>1, <1>2, RolePoints, WritePoints, Names DEF Procs
<1>4. /\ \A r \in Procs : pc'[r] = IF r = q THEN l ELSE pc[r]
      /\ pc' \in [Procs -> Labels]
  BY <1>1, <1>3, RolesAreLabels DEF JobInv, JobTypeOK, Goto
<1>5. JobTypeOK' /\ Roles'
  BY <1>1, <1>3, <1>4, Names DEF JobInv, JobTypeOK, Roles, RoleLabels
<1>7. pc[q] \notin {"off", "dead"}
  BY <1>1, WritePoints
<1>6. Holding'
  BY <1>1, <1>4, <1>7, Names DEF JobInv, Holding
<1>8. NotSpawned' /\ ChildKnown' /\ FoundDead'
  BY <1>1, <1>4, <1>7, Names DEF JobInv, NotSpawned, ChildKnown, BeforeFork, SuccessIsReal, FoundDead, RunnerAlive
<1> QED
  BY <1>5, <1>6, <1>8 DEF JobInv

(* The runner is spawned.                                                  *)
LEMMA SpawnRunnerInv == ASSUME JobInv, SpawnRunner PROVE JobInv'
<1>1. /\ pc["start"] = "spawn" /\ UNCHANGED <<posix, job, lock, seen, child, signal>>
      /\ \A r \in Procs : pc'[r] = IF r = "start" THEN "started" ELSE IF r = "runner" THEN "boot" ELSE pc[r]
      /\ pc' \in [Procs -> Labels]
  BY Names DEF JobInv, JobTypeOK, SpawnRunner, Labels, WriteLabels, Writes
<1>2. JobTypeOK'
  BY <1>1 DEF JobInv, JobTypeOK
<1>3. Roles'
  BY <1>1, RolePoints DEF JobInv, Roles
<1>4. pc["runner"] = "off" /\ \A q \in Stops \cup Polls : pc[q] \in {"idle", "done", "no_pid"}
  BY <1>1 DEF JobInv, NotSpawned
<1>5. Holding'
  BY <1>1, <1>4, Names, WritePoints DEF JobInv, JobTypeOK, Holding
<1>6. NotSpawned' /\ ChildKnown' /\ FoundDead'
  BY <1>1, <1>4, Names DEF JobInv, NotSpawned, ChildKnown, BeforeFork, SuccessIsReal, FoundDead
<1> QED
  BY <1>2, <1>3, <1>5, <1>6 DEF JobInv

(* The UI dies.                                                            *)
LEMMA LauncherDiesInv == ASSUME JobInv, LauncherDies PROVE JobInv'
<1>1. /\ lock' = (IF lock = "start" THEN Nobody ELSE lock)
      /\ UNCHANGED <<posix, job, seen, child, signal>>
      /\ \A r \in Procs : pc'[r] = IF r = "start" THEN "dead" ELSE pc[r]
      /\ pc' \in [Procs -> Labels]
  BY Names DEF JobInv, JobTypeOK, LauncherDies, Goto, Labels
<1>2. JobTypeOK' /\ Roles'
  BY <1>1, Names, RolePoints DEF JobInv, JobTypeOK, Roles
<1>3. Holding'
  BY <1>1, Names DEF JobInv, JobTypeOK, Holding
<1>4. NotSpawned' /\ ChildKnown' /\ FoundDead'
  BY <1>1, Names DEF JobInv, NotSpawned, ChildKnown, SuccessIsReal, FoundDead, RunnerAlive
<1> QED
  BY <1>2, <1>3, <1>4 DEF JobInv

(* The runner dies: by an accident, or with its handler.                   *)
LEMMA RunnerGone ==
    ASSUME JobInv, UNCHANGED <<posix, job, seen>>, signal' \in BOOLEAN,
           child' = child \/ (child = "alive" /\ child' = "killed"),
           \A r \in Procs : pc'[r] = IF r = "runner" THEN "dead" ELSE IF r = "handler" THEN "off" ELSE pc[r],
           pc' \in [Procs -> Labels],
           lock' = (IF lock \in {"runner", "handler"} THEN Nobody ELSE lock),
           pc["runner"] # "off"
    PROVE  JobInv'
<1>1. JobTypeOK' /\ Roles'
  BY Names, RolePoints DEF JobInv, JobTypeOK, Roles
<1>2. Holding'
  BY Names DEF JobInv, JobTypeOK, Holding
<1>3. NotSpawned' /\ ChildKnown' /\ FoundDead'
  BY Names DEF JobInv, NotSpawned, ChildKnown, BeforeFork, SuccessIsReal, FoundDead, RunnerAlive
<1> QED
  BY <1>1, <1>2, <1>3 DEF JobInv

LEMMA RunnerDiesInv == ASSUME JobInv, RunnerDies PROVE JobInv'
<1>1. /\ \A r \in Procs : pc'[r] = IF r = "runner" THEN "dead" ELSE IF r = "handler" THEN "off" ELSE pc[r]
      /\ pc' \in [Procs -> Labels]
  BY Names DEF JobInv, JobTypeOK, RunnerDies, Labels
<1>2. pc["runner"] # "off" /\ signal' \in BOOLEAN /\ UNCHANGED <<posix, job, seen, child>>
  BY DEF RunnerDies, RunnerAlive
<1> QED
  BY <1>1, <1>2, RunnerGone DEF RunnerDies

(* The handler ends the runner.                                            *)
LEMMA HandlerExitsInv == ASSUME JobInv, HandlerExits PROVE JobInv'
<1>1. /\ \A r \in Procs : pc'[r] = IF r = "runner" THEN "dead" ELSE IF r = "handler" THEN "off" ELSE pc[r]
      /\ pc' \in [Procs -> Labels]
  BY Names DEF JobInv, JobTypeOK, HandlerExits, Labels
<1>2. /\ pc["handler"] = "exit" /\ signal' \in BOOLEAN /\ UNCHANGED <<posix, job, lock, seen, child>>
  BY DEF HandlerExits
<1>3. pc["runner"] # "off" /\ lock \notin {"runner", "handler"}
  BY <1>2, Names, WritePoints DEF JobInv, Holding
<1> QED
  BY <1>1, <1>2, <1>3, RunnerGone

(* The whole tree is killed on Windows.                                    *)
LEMMA TaskkillInv == ASSUME JobInv, NEW s \in Stops, Taskkill(s) PROVE JobInv'
<1>1. /\ pc[s] = "kill" /\ RunnerAlive /\ UNCHANGED <<posix, job, seen, signal>>
      /\ lock' = (IF lock = "runner" THEN Nobody ELSE lock)
      /\ child' = child \/ (child = "alive" /\ child' = "killed")
      /\ \A r \in Procs : pc'[r] = IF r = "runner" THEN "dead" ELSE IF r = s THEN "grace" ELSE pc[r]
      /\ pc' \in [Procs -> Labels]
  BY Names DEF JobInv, JobTypeOK, Taskkill, Labels
<1>2. pc["start"] \notin {"pending", "spawn"}
  BY <1>1 DEF JobInv, NotSpawned
<1>3. JobTypeOK' /\ Roles'
  BY <1>1, Names, RolePoints DEF JobInv, JobTypeOK, Roles
<1>4. Holding'
  BY <1>1, Names, WritePoints DEF JobInv, JobTypeOK, Holding, RunnerAlive
<1>5. NotSpawned' /\ ChildKnown' /\ FoundDead'
  BY <1>1, <1>2, Names DEF JobInv, NotSpawned, ChildKnown, BeforeFork, SuccessIsReal, FoundDead, RunnerAlive
<1> QED
  BY <1>3, <1>4, <1>5 DEF JobInv

(* A step that ends or starts the training process and moves one process   *)
(* on which is not writing.                                                *)
LEMMA ChildStep ==
    ASSUME JobInv, NEW q \in Procs, NEW l \in RoleLabels(q), Goto(q, l), pc[q] \notin WriteLabels,
           UNCHANGED <<posix, job, lock, seen>>, signal' \in BOOLEAN,
           \/ q = "runner" /\ pc[q] = "spawning" /\ l = "spawned" /\ child' = "alive"
           \/ /\ q = "handler" /\ l = "stopped" /\ pc[q] = "terminate"
              /\ child' = child \/ (child = "alive" /\ child' = "killed")
           \/ /\ q \in Stops /\ pc[q] = "kill" /\ l = "grace"
              /\ child' = child \/ (child = "alive" /\ child' = "killed")
    PROVE  JobInv'
<1>1. /\ pc \in [Procs -> Labels] /\ l \in Labels
      /\ \A r \in Procs : pc'[r] = IF r = q THEN l ELSE pc[r]
      /\ pc' \in [Procs -> Labels]
  BY RolesAreLabels DEF JobInv, JobTypeOK, Goto
<1>2. child' \in {"none", "alive", "ok", "bad", "killed"}
  BY DEF JobInv, JobTypeOK
<1>3. JobTypeOK' /\ Roles'
  BY <1>1, <1>2 DEF JobInv, JobTypeOK, Roles, RoleLabels
<1>4. Holding'
  BY <1>1, Names DEF JobInv, JobTypeOK, Holding
<1>5. NotSpawned'
  BY <1>1, Names DEF JobInv, NotSpawned
<1>6. ChildKnown'
  BY <1>1, Names DEF JobInv, ChildKnown, BeforeFork, SuccessIsReal
<1>7. FoundDead'
  BY <1>1, Names DEF JobInv, FoundDead, RunnerAlive
<1> QED
  BY <1>3, <1>4, <1>5, <1>6, <1>7 DEF JobInv

(* The training process ends by itself.                                    *)
LEMMA ChildEndsInv == ASSUME JobInv, ChildEnds PROVE JobInv'
<1>1. child = "alive" /\ child' \in {"ok", "bad"} /\ UNCHANGED <<posix, job, lock, seen, pc, signal>>
  BY DEF ChildEnds
<1>2. JobTypeOK' /\ Roles' /\ Holding' /\ NotSpawned' /\ FoundDead'
  BY <1>1 DEF JobInv, JobTypeOK, Roles, RoleLabels, Holding, NotSpawned, FoundDead, RunnerAlive
<1>3. ChildKnown'
  BY <1>1 DEF JobInv, ChildKnown, BeforeFork, SuccessIsReal
<1> QED
  BY <1>2, <1>3 DEF JobInv

(* The directory of the job is removed.                                    *)
LEMMA DeleteJobDirInv == ASSUME JobInv, NEW d \in Deletes, DeleteJobDir(d) PROVE JobInv'
<1>1. /\ pc[d] = "rm_job" /\ job' = NoJob /\ UNCHANGED <<posix, lock, seen, child, signal>>
      /\ \A r \in Procs : pc'[r] = IF r = d THEN "done" ELSE pc[r]
      /\ pc' \in [Procs -> Labels]
  BY Names DEF JobInv, JobTypeOK, DeleteJobDir, Goto, Labels
<1>2. NoJob \in Job /\ ~NoJob.exists /\ ~NoJob.pid /\ NoJob.status = "none"
  BY DEF NoJob, Job, Statuses
<1>3. JobTypeOK' /\ Roles'
  BY <1>1, <1>2, Names, RolePoints DEF JobInv, JobTypeOK, Roles
<1>4. lock # Nobody => seen[lock] = NoJob \/ seen[lock].exists
  BY <1>2 DEF JobInv, Holding
<1>5. Holding'
  BY <1>1, <1>2, <1>4, Names, WritePoints DEF JobInv, JobTypeOK, Holding
<1>6. NotSpawned' /\ ChildKnown' /\ FoundDead'
  BY <1>1, <1>2, Names DEF JobInv, NotSpawned, ChildKnown, SuccessIsReal, FoundDead, RunnerAlive
<1> QED
  BY <1>3, <1>5, <1>6 DEF JobInv

(* The steps of the runner and of its handler.                             *)
LEMMA RunnerStepInv == ASSUME JobInv, RunnerStep PROVE JobInv'
<1> USE Names, RolePoints, WritePoints
<1>1. CASE InstallHandler \/ CheckSetup \/ KeepHandle \/ WaitReturns \/ CopyLogs \/ RunnerExits \/ SignalKillsBoot
  <2>1. PICK l \in RoleLabels("runner") :
           /\ Goto("runner", l) /\ UNCHANGED <<posix, job, lock, seen, child>> /\ signal' \in BOOLEAN
           /\ \/ pc["runner"] = "boot" /\ l \in {"setup", "dead"}
              \/ pc["runner"] = "setup" /\ l \in {"early_failed", "running"}
              \/ pc["runner"] = "spawned" /\ l = "wait"
              \/ pc["runner"] = "wait" /\ l = IF child = "ok" THEN "success" ELSE "failed"
              \/ pc["runner"] = "copy_logs" /\ l \in {"run_dir", "exit"}
              \/ pc["runner"] = "exit" /\ l = "dead"
    BY <1>1 DEF JobInv, JobTypeOK, InstallHandler, CheckSetup, KeepHandle, WaitReturns, CopyLogs, RunnerExits,
       SignalKillsBoot
  <2>2. /\ RunnerAlive /\ l # "off" /\ pc["runner"] \notin WriteLabels
        /\ l \in BeforeFork => child = "none"
        /\ l \in {"success", "copy_logs", "run_dir"} => child = "ok"
    BY <2>1 DEF JobInv, ChildKnown, BeforeFork, RunnerAlive
  <2> QED
    BY <2>1, <2>2, Move
<1>2. CASE ForkChild
  BY <1>2, ChildStep DEF JobInv, JobTypeOK, ForkChild
<1>3. CASE EnterHandler
  <2>1. /\ "terminate" \in RoleLabels("handler") /\ Goto("handler", "terminate") /\ RunnerAlive
        /\ pc["handler"] \notin WriteLabels /\ signal' \in BOOLEAN
        /\ UNCHANGED <<posix, job, lock, seen, child>>
    BY <1>3 DEF EnterHandler
  <2> QED
    BY <2>1, Move
<1>4. CASE TerminateChild
  <2>1. /\ "stopped" \in RoleLabels("handler") /\ Goto("handler", "stopped") /\ pc["handler"] = "terminate"
        /\ pc["handler"] \notin WriteLabels /\ signal' \in BOOLEAN /\ UNCHANGED <<posix, job, lock, seen>>
        /\ child' = child \/ (child = "alive" /\ child' = "killed")
    BY <1>4 DEF JobInv, JobTypeOK, TerminateChild
  <2> QED
    BY <2>1, ChildStep
<1>5. CASE HandlerExits \/ ChildEnds
  BY <1>5, HandlerExitsInv, ChildEndsInv
<1> QED
  BY <1>1, <1>2, <1>3, <1>4, <1>5 DEF RunnerStep

(* The steps of a stop.                                                    *)
LEMMA StopStepInv == ASSUME JobInv, NEW s \in Stops, StopStep(s) PROVE JobInv'
<1> USE Names, RolePoints, WritePoints
<1>1. CASE StopReads(s) \/ StopProbes(s) \/ KillFindsNobody(s) \/ KillFails(s) \/ GraceOver(s)
  <2>1. PICK l \in RoleLabels(s) :
           /\ Goto(s, l) /\ UNCHANGED <<posix, job, lock, seen, child, signal>>
           /\ \/ pc[s] = "idle" /\ l \in {"done", "no_pid"}
              \/ pc[s] = "idle" /\ l = "probe" /\ job.pid
              \/ pc[s] \in {"probe", "kill"} /\ l = "cas_gone" /\ ~RunnerAlive
              \/ pc[s] \in {"probe", "kill", "grace"} /\ l \in {"kill", "cas_unstopped", "cas_stopped"}
    BY <1>1 DEF StopReads, StopProbes, KillFindsNobody, KillFails, GraceOver
  <2>2. /\ l \in {"idle", "done", "no_pid"} \/ pc["start"] \notin {"pending", "spawn"}
        /\ pc[s] \notin WriteLabels /\ signal' \in BOOLEAN
    BY <2>1 DEF JobInv, JobTypeOK, NotSpawned
  <2> QED
    BY <2>1, <2>2, Move
<1>2. CASE SendSigterm(s)
  <2>1. /\ "grace" \in RoleLabels(s) /\ Goto(s, "grace") /\ pc[s] = "kill"
        /\ pc[s] \notin WriteLabels /\ signal' \in BOOLEAN /\ UNCHANGED <<posix, job, lock, seen>>
        /\ child' = child \/ (child = "alive" /\ child' = "killed")
    BY <1>2 DEF SendSigterm
  <2> QED
    BY <2>1, ChildStep
<1>3. CASE Taskkill(s)
  BY <1>3, TaskkillInv
<1> QED
  BY <1>1, <1>2, <1>3 DEF StopStep

(* The steps of a reconcile.                                               *)
LEMMA PollStepInv == ASSUME JobInv, NEW q \in Polls, PollStep(q) PROVE JobInv'
<1> USE Names, RolePoints, WritePoints
<1>1. PICK l \in RoleLabels(q) :
         /\ Goto(q, l) /\ UNCHANGED <<posix, job, lock, seen, child, signal>>
         /\ \/ l = "idle" /\ pc[q] \in {"idle", "probe", "done"}
            \/ pc[q] = "idle" /\ l = "probe" /\ job.pid
            \/ pc[q] = "probe" /\ l = "cas_zombie" /\ ~RunnerAlive
  BY DEF PollStep, PollReads, PollFindsDead, PollKeepsRunning, PollAgain
<1>2. /\ l \in {"idle", "done", "no_pid"} \/ pc["start"] \notin {"pending", "spawn"}
      /\ pc[q] \notin WriteLabels /\ signal' \in BOOLEAN
  BY <1>1 DEF JobInv, JobTypeOK, NotSpawned
<1> QED
  BY <1>1, <1>2, Move

(* The steps of a delete.                                                  *)
LEMMA DeleteStepInv == ASSUME JobInv, NEW d \in Deletes, DeleteStep(d) PROVE JobInv'
<1> USE Names, RolePoints, WritePoints
<1>1. CASE DeleteReads(d)
  <2>1. PICK l \in RoleLabels(d) :
           /\ Goto(d, l) /\ UNCHANGED <<posix, job, lock, seen, child, signal>> /\ pc[d] = "idle"
    BY <1>1 DEF DeleteReads
  <2>2. pc[d] \notin WriteLabels /\ signal' \in BOOLEAN /\ d \notin Stops \cup Polls
    BY <2>1 DEF JobInv, JobTypeOK
  <2> QED
    BY <2>1, <2>2, Move
<1>2. CASE DeleteJobDir(d)
  BY <1>2, DeleteJobDirInv
<1> QED
  BY <1>1, <1>2 DEF DeleteStep

(* Every step keeps the invariant.                                         *)
LEMMA JobStep == JobInv /\ [JobNext]_jobVars => JobInv'
<1> SUFFICES ASSUME JobInv, [JobNext]_jobVars PROVE JobInv'
  OBVIOUS
<1>1. CASE UNCHANGED jobVars
  BY <1>1 DEF jobVars, JobInv, JobTypeOK, Roles, RoleLabels, Holding, NotSpawned, ChildKnown, SuccessIsReal,
     FoundDead, RunnerAlive
<1>2. ASSUME NEW q \in Procs, Acquire(q) \/ Commit(q) \/ CommitFails(q) PROVE JobInv'
  BY <1>2, AcquireInv, CommitInv, CommitFailsInv
<1>3. CASE SpawnRunner \/ LauncherDies \/ RunnerDies \/ RunnerStep
  BY <1>3, SpawnRunnerInv, LauncherDiesInv, RunnerDiesInv, RunnerStepInv
<1>4. ASSUME NEW s \in Stops, StopStep(s) PROVE JobInv'
  BY <1>4, StopStepInv
<1>5. ASSUME NEW q \in Polls, PollStep(q) PROVE JobInv'
  BY <1>5, PollStepInv
<1>6. ASSUME NEW d \in Deletes, DeleteStep(d) PROVE JobInv'
  BY <1>6, DeleteStepInv
<1> QED
  BY <1>1, <1>2, <1>3, <1>4, <1>5, <1>6 DEF JobNext

(* The invariant of a job, whatever stops, polls, deletes and dies.        *)
THEOREM JobInvariant == JobSpec => []JobInv
<1> QED
  BY JobInitInv, JobStep, PTL DEF JobSpec

(* Type correctness (JobLifecycle!JobTypeOK).                              *)
THEOREM JobTypes == JobSpec => []JobTypeOK
<1>1. JobInv => JobTypeOK
  BY DEF JobInv
<1> QED
  BY <1>1, JobInvariant, PTL

(* A success is only claimed for a training process that ended with exit   *)
(* code 0 (job_runner.py:247-252).                                         *)
THEOREM SuccessIsEarned == JobSpec => []SuccessIsReal
<1>1. JobInv => SuccessIsReal
  BY DEF JobInv, ChildKnown
<1> QED
  BY <1>1, JobInvariant, PTL

(* Only a commit and a delete touch job.json.                              *)
LEMMA JobWrites ==
    [JobNext]_jobVars =>
        \/ UNCHANGED job
        \/ \E q \in Procs : Commit(q)
        \/ \E d \in Deletes : DeleteJobDir(d)
BY DEF JobNext, jobVars, Acquire, CommitFails, SpawnRunner, LauncherDies, RunnerDies, RunnerStep, InstallHandler,
       CheckSetup, ForkChild, KeepHandle, WaitReturns, CopyLogs, RunnerExits, SignalKillsBoot, EnterHandler,
       TerminateChild, HandlerExits, ChildEnds, StopStep, StopReads, StopProbes, SendSigterm, Taskkill,
       KillFindsNobody, KillFails, GraceOver, PollStep, PollReads, PollFindsDead, PollKeepsRunning, PollAgain,
       DeleteStep, DeleteReads

(* A merge loses nothing another process merged (job_io.py:39-66).         *)
THEOREM MergesKeep == JobSpec => NoLostMerge
<1>1. JobInv /\ [JobNext]_jobVars =>
        [job.exists /\ job'.exists => (job.pid => job'.pid) /\ (job.runDir => job'.runDir)]_jobVars
  <2> SUFFICES ASSUME JobInv, [JobNext]_jobVars, job.exists, job'.exists
               PROVE  (job.pid => job'.pid) /\ (job.runDir => job'.runDir)
    OBVIOUS
  <2>1. ASSUME NEW q \in Procs, Commit(q) PROVE (job.pid => job'.pid) /\ (job.runDir => job'.runDir)
    <3>1. seen[q] = job /\ pc[q] \in WriteLabels /\ job \in Job
      BY <2>1, WriterIsCurrent DEF Commit, JobInv, JobTypeOK
    <3>2. job' = Merge(job, pc[q]) \/ job' = job
      BY <2>1, <3>1 DEF Commit
    <3> QED
      BY <3>1, <3>2, MergeFacts
  <2>2. ASSUME NEW d \in Deletes, DeleteJobDir(d) PROVE FALSE
    BY <2>2 DEF DeleteJobDir, NoJob
  <2> QED
    BY <2>1, <2>2, JobWrites
<1> QED
  BY <1>1, JobInvariant, PTL DEF JobSpec, NoLostMerge

(* The compare-and-set of a stop or a reconcile never overwrites the end   *)
(* of a run (job_manager.py:32-43).                                        *)
THEOREM CasIsSafe == JobSpec => CasNeverClobbers
<1>1. JobInv /\ [JobNext]_jobVars =>
        [\A q \in Stops \cup Polls :
            lock = q /\ lock' # q /\ pc[q] \in CasLabels /\ job.status \in Terminal => UNCHANGED job]_jobVars
  <2> SUFFICES ASSUME JobInv, [JobNext]_jobVars, NEW q \in Stops \cup Polls,
                      lock = q, lock' # q, pc[q] \in CasLabels, job.status \in Terminal
               PROVE  UNCHANGED job
    OBVIOUS
  <2>1. ASSUME NEW r \in Procs, Commit(r) PROVE UNCHANGED job
    <3>1. r = q /\ seen[r] = job
      BY <2>1, WriterIsCurrent DEF Commit
    <3>2. job.status \notin Writes[pc[r]].guard
      BY <3>1 DEF CasLabels, Writes, StopWritable, Terminal
    <3> QED
      BY <2>1, <3>1, <3>2 DEF Commit
  <2>2. ASSUME NEW d \in Deletes, DeleteJobDir(d) PROVE FALSE
    BY <2>2 DEF DeleteJobDir
  <2> QED
    BY <2>1, <2>2, JobWrites
<1> QED
  BY <1>1, JobInvariant, PTL DEF JobSpec, CasNeverClobbers

(* While the runner lives nobody else fails its job (job_manager.py:83-88).*)
THEOREM HealthyRunsSurvive == JobSpec => HealthyRunIsNotFailed
<1>1. JobInv /\ [JobNext]_jobVars =>
        [job'.status = "failed" /\ job.status # "failed" /\ lock # "runner" => ~RunnerAlive]_jobVars
  <2> SUFFICES ASSUME JobInv, [JobNext]_jobVars, job'.status = "failed", job.status # "failed", lock # "runner"
               PROVE  ~RunnerAlive
    OBVIOUS
  <2>1. ASSUME NEW q \in Procs, Commit(q) PROVE ~RunnerAlive
    <3>1. seen[q] = job /\ pc[q] \in WriteLabels /\ job \in Job /\ q # "runner" /\ pc[q] \in RoleLabels(q)
      BY <2>1, WriterIsCurrent DEF Commit, JobInv, JobTypeOK, Roles
    <3>2. job' = Merge(job, pc[q]) \/ job' = job
      BY <2>1, <3>1 DEF Commit
    <3>3. pc[q] \in {"early_failed", "failed", "cas_gone", "cas_zombie"}
      BY <3>1, <3>2, MergeFacts
    <3>4. q \in Stops \cup Polls /\ pc[q] \in {"cas_gone", "cas_zombie"}
      BY <3>1, <3>3, RolePoints, Names DEF Procs
    <3> QED
      BY <3>4 DEF JobInv, FoundDead
  <2>2. ASSUME NEW d \in Deletes, DeleteJobDir(d) PROVE FALSE
    BY <2>2 DEF DeleteJobDir, NoJob
  <2> QED
    BY <2>1, <2>2, JobWrites
<1> QED
  BY <1>1, JobInvariant, PTL DEF JobSpec, HealthyRunIsNotFailed
=============================================================================
