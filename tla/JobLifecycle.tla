--------------------------- MODULE JobLifecycle ---------------------------
(***************************************************************************)
(* A training job of the operator UI.  JobManager.start (in the UI) writes *)
(* job.json and spawns job_runner, which spawns the training process and   *)
(* records how it ended; stop, the zombie reconcile of status/list_jobs    *)
(* and delete run in other UI sessions.  All of them merge their updates   *)
(* into job.json through write_job_json, under one file lock.              *)
(*                                                                         *)
(* web/operator_ui/job_io.py, job_runner.py, job_manager.py.               *)
(***************************************************************************)
EXTENDS Naturals

CONSTANTS
    Stops, Polls, Deletes,  \* the calls of stop, status/list_jobs and delete
    Nobody                  \* holder of a free lock

Procs == {"start", "runner", "handler"} \cup Stops \cup Polls \cup Deletes

ASSUME JobAssumption ==
    /\ Stops \cap Polls = {} /\ Stops \cap Deletes = {} /\ Polls \cap Deletes = {}
    /\ (Stops \cup Polls \cup Deletes) \cap {"start", "runner", "handler"} = {}
    /\ Nobody \notin Procs

VARIABLES
    job,      \* job.json
    lock,     \* who holds job.json.lock; the handler has its own descriptor
    seen,     \* what a writer read under the lock
    pc,       \* the next thing each process does
    child,    \* the training process
    signal,   \* SIGTERM was sent to the runner and not handled yet
    posix     \* platform.system(): killpg(SIGTERM), or taskkill /F /T on Windows

jobVars == <<job, lock, seen, pc, child, signal, posix>>

Statuses == {"none", "pending", "running", "success", "failed", "stopped", "stop_failed"}
Terminal == {"success", "failed", "stopped"}                  \* _RUNNER_TERMINAL_STATUSES
StopWritable == {"running", "pending", "stop_failed"}         \* _STOP_WRITABLE_STATUSES

Job == [exists : BOOLEAN, status : Statuses, pid : BOOLEAN, runDir : BOOLEAN]
NoJob == [exists |-> FALSE, status |-> "none", pid |-> FALSE, runDir |-> FALSE]

(* The calls of write_job_json: the status they merge and, for a compare-  *)
(* and-set, the statuses they may replace.                                 *)
Writes == [
    pending       |-> [status |-> "pending",     guard |-> Statuses],
    started       |-> [status |-> "running",     guard |-> Statuses],
    running       |-> [status |-> "running",     guard |-> Statuses],
    early_failed  |-> [status |-> "failed",      guard |-> Statuses],
    success       |-> [status |-> "success",     guard |-> Statuses],
    failed        |-> [status |-> "failed",      guard |-> Statuses],
    run_dir       |-> [status |-> "none",        guard |-> Statuses],
    stopped       |-> [status |-> "stopped",     guard |-> Statuses],
    no_pid        |-> [status |-> "stop_failed", guard |-> Statuses],
    cas_gone      |-> [status |-> "failed",      guard |-> StopWritable],
    cas_unstopped |-> [status |-> "stop_failed", guard |-> StopWritable],
    cas_stopped   |-> [status |-> "stopped",     guard |-> StopWritable],
    cas_zombie    |-> [status |-> "failed",      guard |-> {"running"}]]

WriteLabels == DOMAIN Writes
CasLabels == {"cas_gone", "cas_unstopped", "cas_stopped", "cas_zombie"}

(* Mutants: the whole file is replaced instead of merged; the reason of    *)
(* the update is stored as the status.                                     *)
MergeReplaces(j, w) == [
    exists |-> TRUE,
    status |-> IF w = "run_dir" THEN j.status ELSE Writes[w].status,
    pid    |-> w = "started",
    runDir |-> w = "run_dir"]

MergeReason(j, w) == [exists |-> TRUE, status |-> w, pid |-> j.pid, runDir |-> j.runDir]

Merge(j, w) == [
    exists |-> TRUE,
    status |-> IF w = "run_dir" THEN j.status ELSE Writes[w].status,
    pid    |-> j.pid \/ w = "started",
    runDir |-> j.runDir \/ w = "run_dir"]

(* What a process goes on with after its write.                            *)
After(w) ==
    CASE w = "pending"      -> "spawn"
      [] w = "running"      -> "spawning"
      [] w = "success"      -> "copy_logs"
      [] w \in {"early_failed", "failed", "run_dir", "stopped"} -> "exit"
      [] OTHER -> "done"

Labels == WriteLabels \cup {"off", "idle", "done", "dead", "spawn", "boot", "setup", "spawning",
    "spawned", "wait", "copy_logs", "exit", "terminate", "probe", "kill", "grace", "rm_job"}

JobTypeOK ==
    /\ job \in Job
    /\ lock \in Procs \cup {Nobody}
    /\ seen \in [Procs -> Job]
    /\ pc \in [Procs -> Labels]
    /\ child \in {"none", "alive", "ok", "bad", "killed"}
    /\ signal \in BOOLEAN
    /\ posix \in BOOLEAN

JobInit ==
    /\ job = NoJob
    /\ lock = Nobody
    /\ seen = [q \in Procs |-> NoJob]
    /\ pc = [q \in Procs |->
               IF q = "start" THEN "pending" ELSE IF q \in {"runner", "handler"} THEN "off" ELSE "idle"]
    /\ child = "none"
    /\ signal = FALSE
    /\ posix \in BOOLEAN
---------------------------------------------------------------------------
Goto(q, l) == pc' = [pc EXCEPT ![q] = l]

RunnerAlive == pc["runner"] \notin {"off", "dead"}

(* A signal handler runs on the runner's only thread: while it runs, the   *)
(* main program is suspended where it was interrupted.                     *)
Scheduled(q) == q # "runner" \/ pc["handler"] = "off"

(* _job_lock: flock(LOCK_EX) waits; then read_job_json.                    *)
Acquire(q) ==
    /\ Scheduled(q) /\ pc[q] \in WriteLabels
    /\ lock = Nobody
    /\ lock' = q
    /\ seen' = [seen EXCEPT ![q] = job]
    /\ UNCHANGED <<posix, job, pc, child, signal>>

(* Mutant: only_if_status is not looked at.                                *)
CommitUnguarded(q) ==
    /\ Scheduled(q) /\ lock = q
    /\ seen[q].exists => job.exists
    /\ job' = Merge(seen[q], pc[q])
    /\ lock' = Nobody
    /\ Goto(q, After(pc[q]))
    /\ UNCHANGED <<posix, seen, child, signal>>

(* The merge, os.replace, and the release of the lock.                     *)
Commit(q) ==
    /\ Scheduled(q) /\ lock = q
    /\ seen[q].exists => job.exists
    /\ job' = IF seen[q].status \in Writes[pc[q]].guard THEN Merge(seen[q], pc[q]) ELSE job
    /\ lock' = Nobody
    /\ Goto(q, After(pc[q]))
    /\ UNCHANGED <<posix, seen, child, signal>>

(* The directory was deleted after it was read: the temporary file cannot  *)
(* be written and the OSError ends the call, and with it the process.      *)
CommitFails(q) ==
    /\ Scheduled(q) /\ lock = q
    /\ seen[q].exists /\ ~job.exists
    /\ lock' = Nobody
    /\ Goto(q, IF q \in {"runner", "handler"} THEN "exit" ELSE "done")
    /\ UNCHANGED <<posix, job, seen, child, signal>>
---------------------------------------------------------------------------
(* JobManager.start between its two writes: subprocess.Popen.              *)
SpawnRunner ==
    /\ pc["start"] = "spawn"
    /\ pc' = [pc EXCEPT !["start"] = "started", !["runner"] = "boot"]
    /\ UNCHANGED <<posix, job, lock, seen, child, signal>>

(* The UI process dies; the runner lives on in its own session.            *)
LauncherDies ==
    /\ pc["start"] \notin {"done", "dead"}
    /\ Goto("start", "dead")
    /\ lock' = IF lock = "start" THEN Nobody ELSE lock
    /\ UNCHANGED <<posix, job, seen, child, signal>>

(* job_runner.main: imports are done, the SIGTERM handler is installed.    *)
InstallHandler ==
    /\ pc["runner"] = "boot" /\ ~signal
    /\ Goto("runner", "setup")
    /\ UNCHANGED <<posix, job, lock, seen, child, signal>>

(* config.yaml missing or an unknown mode, else status running.            *)
CheckSetup ==
    /\ Scheduled("runner") /\ pc["runner"] = "setup"
    /\ \E w \in {"early_failed", "running"} : Goto("runner", w)
    /\ UNCHANGED <<posix, job, lock, seen, child, signal>>

(* Popen in two steps: the fork inside the C call, during which a signal   *)
(* stays pending, and the assignment to _ACTIVE_CHILD_PROCESS after it.    *)
ForkChild ==
    /\ Scheduled("runner") /\ pc["runner"] = "spawning"
    /\ child' = "alive"
    /\ Goto("runner", "spawned")
    /\ UNCHANGED <<posix, job, lock, seen, signal>>

KeepHandle ==
    /\ Scheduled("runner") /\ pc["runner"] = "spawned"
    /\ Goto("runner", "wait")
    /\ UNCHANGED <<posix, job, lock, seen, child, signal>>

ChildEnds ==
    /\ child = "alive"
    /\ child' \in {"ok", "bad"}
    /\ UNCHANGED <<posix, job, lock, seen, pc, signal>>

(* Mutant: the return code is not looked at.                               *)
WaitReturnsSuccess ==
    /\ Scheduled("runner") /\ pc["runner"] = "wait"
    /\ child \in {"ok", "bad", "killed"}
    /\ Goto("runner", "success")
    /\ UNCHANGED <<posix, job, lock, seen, child, signal>>

WaitReturns ==
    /\ Scheduled("runner") /\ pc["runner"] = "wait"
    /\ child \in {"ok", "bad", "killed"}
    /\ Goto("runner", IF child = "ok" THEN "success" ELSE "failed")
    /\ UNCHANGED <<posix, job, lock, seen, child, signal>>

(* _find_run_dir and the copy of the logs; without a run directory the     *)
(* runner is through.                                                      *)
CopyLogs ==
    /\ Scheduled("runner") /\ pc["runner"] = "copy_logs"
    /\ \E l \in {"run_dir", "exit"} : Goto("runner", l)
    /\ UNCHANGED <<posix, job, lock, seen, child, signal>>

RunnerExits ==
    /\ Scheduled("runner") /\ pc["runner"] = "exit"
    /\ Goto("runner", "dead")
    /\ UNCHANGED <<posix, job, lock, seen, child, signal>>

(* OOM killer, power button: no status, and the child is on its own.       *)
RunnerDies ==
    /\ RunnerAlive
    /\ pc' = [pc EXCEPT !["runner"] = "dead", !["handler"] = "off"]
    /\ lock' = IF lock \in {"runner", "handler"} THEN Nobody ELSE lock
    /\ signal' = FALSE
    /\ UNCHANGED <<posix, job, seen, child>>

(* SIGTERM before the handler is installed has its default action.         *)
SignalKillsBoot ==
    /\ signal /\ pc["runner"] = "boot"
    /\ Goto("runner", "dead")
    /\ signal' = FALSE
    /\ UNCHANGED <<posix, job, lock, seen, child>>

(* The handler runs at the next bytecode, wherever the main program is.    *)
EnterHandler ==
    /\ signal /\ pc["handler"] = "off"
    /\ RunnerAlive /\ pc["runner"] \notin {"boot", "spawning"}
    /\ Goto("handler", "terminate")
    /\ signal' = FALSE
    /\ UNCHANGED <<posix, job, lock, seen, child>>

(* _terminate_active_child: terminate, wait 5s, kill, wait 5s; it only     *)
(* knows the child once Popen's result was assigned.  Best effort: a wait  *)
(* that times out or an exception leaves the child to itself.              *)
TerminateChild ==
    /\ pc["handler"] = "terminate"
    /\ child' \in {child} \cup IF pc["runner"] = "wait" /\ child = "alive" THEN {"killed"} ELSE {}
    /\ Goto("handler", "stopped")
    /\ UNCHANGED <<posix, job, lock, seen, signal>>

(* SystemExit(128 + signum) unwinds the suspended main program.            *)
HandlerExits ==
    /\ pc["handler"] = "exit"
    /\ pc' = [pc EXCEPT !["runner"] = "dead", !["handler"] = "off"]
    /\ signal' = FALSE
    /\ UNCHANGED <<posix, job, lock, seen, child>>
---------------------------------------------------------------------------
(* JobManager.stop: read job.json, then decide on that snapshot.           *)
StopReads(s) ==
    /\ pc[s] = "idle" /\ job.exists
    /\ IF job.status \in Terminal THEN Goto(s, "done")
       ELSE IF ~job.pid THEN Goto(s, "no_pid")
       ELSE Goto(s, "probe")
    /\ UNCHANGED <<posix, job, lock, seen, child, signal>>

(* _pid_is_alive: an inconclusive probe counts as possibly alive.          *)
StopProbes(s) ==
    /\ pc[s] = "probe"
    /\ \/ ~RunnerAlive /\ Goto(s, "cas_gone")
       \/ Goto(s, "kill")
    /\ UNCHANGED <<posix, job, lock, seen, child, signal>>

(* os.killpg: the signal reaches the runner and whatever it spawned.       *)
SendSigterm(s) ==
    /\ posix /\ pc[s] = "kill"
    /\ RunnerAlive
    /\ signal' = TRUE
    /\ child' \in IF child = "alive" THEN {"alive", "killed"} ELSE {child}
    /\ Goto(s, "grace")
    /\ UNCHANGED <<posix, job, lock, seen>>

(* taskkill /F /T: the whole tree is gone.                                 *)
Taskkill(s) ==
    /\ ~posix /\ pc[s] = "kill"
    /\ RunnerAlive
    /\ pc' = [pc EXCEPT ![s] = "grace", !["runner"] = "dead"]
    /\ lock' = IF lock = "runner" THEN Nobody ELSE lock
    /\ child' = IF child = "alive" THEN "killed" ELSE child
    /\ UNCHANGED <<posix, job, seen, signal>>

(* ProcessLookupError, or taskkill failed and the second probe said dead.  *)
KillFindsNobody(s) ==
    /\ pc[s] = "kill" /\ ~RunnerAlive
    /\ Goto(s, "cas_gone")
    /\ UNCHANGED <<posix, job, lock, seen, child, signal>>

(* Access denied, a taskkill timeout, or an inconclusive second probe.     *)
KillFails(s) ==
    /\ pc[s] = "kill"
    /\ Goto(s, "cas_unstopped")
    /\ UNCHANGED <<posix, job, lock, seen, child, signal>>

(* _wait_for_pid_exit gives up after a second, dead or not.                *)
GraceOver(s) ==
    /\ pc[s] = "grace"
    /\ Goto(s, "cas_stopped")
    /\ UNCHANGED <<posix, job, lock, seen, child, signal>>

(* Mutant: pending jobs are probed instead of running ones.                *)
PollReadsPending(q) ==
    /\ pc[q] = "idle" /\ job.exists
    /\ Goto(q, IF job.status = "pending" /\ job.pid THEN "probe" ELSE "idle")
    /\ UNCHANGED <<posix, job, lock, seen, child, signal>>

(* Mutant: an inconclusive probe counts as dead.                           *)
PollAssumesDead(q) ==
    /\ pc[q] = "probe"
    /\ Goto(q, "cas_zombie")
    /\ UNCHANGED <<posix, job, lock, seen, child, signal>>

(* _reconcile_zombie, in two steps: read and probe, then compare-and-set.  *)
PollReads(q) ==
    /\ pc[q] = "idle" /\ job.exists
    /\ Goto(q, IF job.status = "running" /\ job.pid THEN "probe" ELSE "idle")
    /\ UNCHANGED <<posix, job, lock, seen, child, signal>>

PollFindsDead(q) ==
    /\ pc[q] = "probe"
    /\ ~RunnerAlive
    /\ Goto(q, "cas_zombie")
    /\ UNCHANGED <<posix, job, lock, seen, child, signal>>

(* Alive, or a probe that failed.                                          *)
PollKeepsRunning(q) ==
    /\ pc[q] = "probe"
    /\ Goto(q, "idle")
    /\ UNCHANGED <<posix, job, lock, seen, child, signal>>

(* The UI polls again and again.                                           *)
PollAgain(q) ==
    /\ pc[q] = "done"
    /\ Goto(q, "idle")
    /\ UNCHANGED <<posix, job, lock, seen, child, signal>>

(* JobManager.delete: read, then rmtree of both directories.               *)
DeleteReads(d) ==
    /\ pc[d] = "idle" /\ job.exists
    /\ Goto(d, IF job.status = "running" THEN "done" ELSE "rm_job")
    /\ UNCHANGED <<posix, job, lock, seen, child, signal>>

DeleteJobDir(d) ==
    /\ pc[d] = "rm_job"
    /\ job' = NoJob
    /\ Goto(d, "done")
    /\ UNCHANGED <<posix, lock, seen, child, signal>>
---------------------------------------------------------------------------
RunnerStep ==
    \/ InstallHandler \/ CheckSetup \/ ForkChild \/ KeepHandle \/ WaitReturns
    \/ CopyLogs \/ RunnerExits \/ SignalKillsBoot \/ EnterHandler
    \/ TerminateChild \/ HandlerExits \/ ChildEnds

StopStep(s) ==
    \/ StopReads(s) \/ StopProbes(s) \/ SendSigterm(s) \/ Taskkill(s)
    \/ KillFindsNobody(s) \/ KillFails(s) \/ GraceOver(s)

PollStep(q) == PollReads(q) \/ PollFindsDead(q) \/ PollKeepsRunning(q) \/ PollAgain(q)

DeleteStep(d) == DeleteReads(d) \/ DeleteJobDir(d)

JobNext ==
    \/ \E q \in Procs : Acquire(q) \/ Commit(q) \/ CommitFails(q)
    \/ SpawnRunner \/ LauncherDies \/ RunnerDies \/ RunnerStep
    \/ \E s \in Stops : StopStep(s)
    \/ \E q \in Polls : PollStep(q)
    \/ \E d \in Deletes : DeleteStep(d)

JobSpec == JobInit /\ [][JobNext]_jobVars

(* Processes run; the operator keeps the jobs page open, which polls, and  *)
(* a probe of a dead pid is not inconclusive forever.                      *)
JobFairness ==
    /\ WF_jobVars(RunnerStep)
    /\ \A q \in Procs : SF_jobVars(Acquire(q)) /\ WF_jobVars(Commit(q) \/ CommitFails(q))
    /\ \A q \in Polls : SF_jobVars(PollFindsDead(q)) /\ WF_jobVars(PollStep(q))

FairJobSpec == JobSpec /\ JobFairness
---------------------------------------------------------------------------
(* "the compare-and-set writes never overwrite" a status with which the    *)
(* run ended (job_manager.py:32-43, job_io.py:47-52): no reconcile and no  *)
(* late write of stop changes one, wherever the runner's own write fell    *)
(* between the read, the probe, the kill and the write.                    *)
CasNeverClobbers ==
    [][\A q \in Stops \cup Polls :
        lock = q /\ lock' # q /\ pc[q] \in CasLabels /\ job.status \in Terminal
            => UNCHANGED job]_jobVars

(* Merging under the lock loses nothing another process merged             *)
(* (job_io.py:39-66): as long as the job is there, its recorded pid and    *)
(* run directory stay.                                                     *)
NoLostMerge ==
    [][job.exists /\ job'.exists =>
        (job.pid => job'.pid) /\ (job.runDir => job'.runDir)]_jobVars

(* A success is only ever claimed for a training process that ended with   *)
(* exit code 0 (job_runner.py:247-252), whatever was stopped or deleted.   *)
SuccessIsReal == job.status = "success" => child = "ok"

(* "a transient failure can't permanently mislabel a healthy run"          *)
(* (job_manager.py:83-88, 158-161): while the runner lives, nobody but the *)
(* runner itself turns its job into a failed one.                          *)
HealthyRunIsNotFailed ==
    [][job'.status = "failed" /\ job.status # "failed" /\ lock # "runner"
        => ~RunnerAlive]_jobVars

(* "Detect that and mark it failed so the UI stops showing a perpetual     *)
(* running" (job_manager.py:477-482): a job with a dead runner does not    *)
(* stay running.                                                           *)
ZombieIsReconciled ==
    (job.status = "running" /\ job.pid /\ pc["runner"] = "dead" /\ pc["start"] = "done")
        ~> ~(job.status = "running" /\ job.pid)
---------------------------------------------------------------------------
(* job_manager.py:81-82: "the terminal states are already final".          *)
TerminalIsFinal ==
    [][job.status \in Terminal /\ job'.exists => job'.status \in Terminal]_jobVars
===========================================================================
