--------------------------- MODULE UpdateCancel ---------------------------
(***************************************************************************)
(* The operator's channel to the daily update: a page session launches a   *)
(* detached update, keeps its process handle in memory, cancels it through *)
(* the handle alone, and tells its orphaned running record from a living   *)
(* run by the launch nonce the child writes into its status records.  The  *)
(* scheduler starts runs of its own, which bear no nonce; the single-flight*)
(* lock lets one run at a time into the body.                              *)
(*                                                                         *)
(* web/operator_ui/update_runner.py, web/operator_ui/pages/run_center.py   *)
(***************************************************************************)
EXTENDS Naturals, FiniteSets

CONSTANTS
    UiRuns,      \* runs this page may launch; a launch nonce each
    Scheduled,   \* runs of the scheduler
    None

ASSUME CancelAssumption == None \notin UiRuns \cup Scheduled /\ UiRuns \cap Scheduled = {}

VARIABLES
    proc,        \* how far each update process is
    sent,        \* the signals delivered to it and not yet taken
    cause,       \* how it ended: by itself, or by a signal of the page
    wrote,       \* runs that wrote their terminal record (history)
    lock,        \* the holder of the single-flight lock
    status,      \* the status artifact of the provider
    posix,       \* the platform
    ui,          \* the page session
    outcome      \* the answer to the last cancel, until the next frame

procVars == <<proc, sent, cause, wrote, lock, status>>
cancelVars == <<proc, sent, cause, wrote, lock, status, posix, ui, outcome>>

Runs == UiRuns \cup Scheduled
Alive(r) == proc[r] \notin {"off", "dead"}
NoRecord == [kind |-> "missing", run |-> None]      \* also a file that cannot be read
Record == [kind : {"running", "finished"}, run : Runs] \cup {NoRecord}
Nonce(r) == IF r \in UiRuns THEN r ELSE None

(* The session: the frame's progress; live is the run whose handle it      *)
(* keeps, pending that a cancel of it was sent and has not been settled;   *)
(* evidence is the nonce of a run known to be dead, covered the one that   *)
(* this frame found in the record; the others are locals of cancel_update. *)
FramePoints == {"idle", "frame", "settle", "ready", "cancel", "sigint", "grace", "snapshot",
                "kill", "recheck", "wait", "gate", "adopt"}
Session == [at : FramePoints, live : UiRuns \cup {None}, pending : BOOLEAN,
            evidence : UiRuns \cup {None}, covered : UiRuns \cup {None},
            issued : BOOLEAN, graceful : BOOLEAN, early : BOOLEAN, raised : BOOLEAN]
NewSession == [at |-> "idle", live |-> None, pending |-> FALSE, evidence |-> None,
               covered |-> None, issued |-> FALSE, graceful |-> FALSE, early |-> FALSE,
               raised |-> FALSE]
NoOutcome == [kind |-> "none", run |-> None, recorded |-> FALSE]

CancelTypeOK ==
    /\ proc \in [Runs -> {"off", "boot", "locked", "working", "closing", "dying", "dead"}]
    /\ sent \in [Runs -> SUBSET {"int", "kill"}]
    /\ cause \in [Runs -> {"none", "own", "signal"}]
    /\ wrote \subseteq Runs
    /\ lock \in Runs \cup {None}
    /\ status \in Record
    /\ posix \in BOOLEAN
    /\ ui \in Session
    /\ outcome \in [kind : {"none", "finished", "undecidable", "cancelled", "failed"},
                    run : UiRuns \cup {None}, recorded : BOOLEAN]

CancelInit ==
    /\ proc = [r \in Runs |-> "off"]
    /\ sent = [r \in Runs |-> {}]
    /\ cause = [r \in Runs |-> "none"]
    /\ wrote = {}
    /\ lock = None
    /\ status = NoRecord
    /\ posix \in BOOLEAN
    /\ ui = NewSession
    /\ outcome = NoOutcome
---------------------------------------------------------------------------
(* The update process, as its cancel sees it (DailyUpdate has its stages). *)
Dies(r, why) ==
    /\ proc' = [proc EXCEPT ![r] = "dead"]
    /\ cause' = [cause EXCEPT ![r] = why]
    /\ sent' = [sent EXCEPT ![r] = {}]
    /\ lock' = IF lock = r THEN None ELSE lock

SchedulerStarts(r) ==
    /\ proc[r] = "off"
    /\ proc' = [proc EXCEPT ![r] = "boot"]
    /\ UNCHANGED <<sent, cause, wrote, lock, status>>

TakeLock(r) ==
    /\ proc[r] = "boot" /\ lock = None
    /\ proc' = [proc EXCEPT ![r] = "locked"]
    /\ lock' = r
    /\ UNCHANGED <<sent, cause, wrote, status>>

(* Exit 17 of a run that found the lock taken, an early error, a crash, the*)
(* end of a finished run, or somebody else's kill.                         *)
EndsAlone(r) ==
    /\ Alive(r) /\ proc[r] # "dying"
    /\ Dies(r, "own")
    /\ UNCHANGED <<wrote, status>>

(* A status write may fail, and the run goes on.                           *)
RecordRunning(r) ==
    /\ proc[r] = "locked"
    /\ proc' = [proc EXCEPT ![r] = "working"]
    /\ status' \in {status, [kind |-> "running", run |-> r]}
    /\ UNCHANGED <<sent, cause, wrote, lock>>

RecordTerminal(r, next) ==
    /\ proc[r] = "working"
    /\ proc' = [proc EXCEPT ![r] = next]
    /\ \/ status' = [kind |-> "finished", run |-> r] /\ wrote' = wrote \cup {r}
       \/ UNCHANGED <<status, wrote>>
    /\ UNCHANGED <<cause, lock>>

Finishes(r) == RecordTerminal(r, "closing") /\ UNCHANGED sent

(* SIGINT raises KeyboardInterrupt; only the body has a handler for it,    *)
(* which records the run and raises it again.                              *)
Interrupted(r) ==
    /\ "int" \in sent[r]
    /\ \/ /\ RecordTerminal(r, "dying")
          /\ sent' = [sent EXCEPT ![r] = @ \ {"int"}]
       \/ proc[r] # "working" /\ Dies(r, "signal") /\ UNCHANGED <<wrote, status>>

(* SIGKILL and TerminateProcess take effect some time after the call.      *)
Killed(r) ==
    /\ Alive(r) /\ ("kill" \in sent[r] \/ proc[r] = "dying")
    /\ Dies(r, "signal")
    /\ UNCHANGED <<wrote, status>>

ProcessStep(r) ==
    /\ \/ TakeLock(r) \/ EndsAlone(r) \/ RecordRunning(r) \/ Finishes(r)
       \/ Interrupted(r) \/ Killed(r)
    /\ UNCHANGED <<posix, ui, outcome>>
---------------------------------------------------------------------------
(* record_bears_launch_nonce, evidence_covers_record: a record without a   *)
(* nonce is never claimed, for a launched run always has one.              *)
CoversProvider(nonce, s) == nonce # None /\ s.kind = "running"          \* mutant

Covers(nonce, s) == nonce # None /\ s.kind = "running" /\ Nonce(s.run) = nonce

(* evidence_retires: a conclusive read of another record, never a failed   *)
(* one.                                                                    *)
Retires(nonce, s) == s.kind = "finished" \/ (s.kind = "running" /\ ~Covers(nonce, s))

(* terminal_status_confirms_the_run                                        *)
ConfirmsAny(s, r) == s.kind = "finished"                                \* mutant

Confirms(s, r) == s.kind = "finished" /\ Nonce(s.run) = r

(* A read of the artifact may fail.                                        *)
Seen == {status, NoRecord}

(* What is stored of a dead run: its nonce if the read shows its orphan or *)
(* nothing certain.                                                        *)
AdoptedAny(s, r) == IF s.kind # "finished" THEN s.run ELSE ui.evidence  \* mutant

Adopted(s, r) ==
    IF Covers(r, s) \/ s.kind = "missing" THEN r ELSE ui.evidence

(* The top of a frame: one read of the artifact, then one poll.            *)
FrameReads ==
    /\ ui.at = "idle"
    /\ \E s \in Seen :
        ui' = [ui EXCEPT
                  !.at = "frame",
                  !.covered = IF Covers(ui.evidence, s) THEN ui.evidence ELSE None,
                  !.evidence = IF Retires(@, s) THEN None ELSE @]
    /\ outcome' = NoOutcome
    /\ UNCHANGED <<procVars, posix>>

HandleAlive == ui.live # None /\ Alive(ui.live)
HandleDead == ui.live # None /\ ~Alive(ui.live)

(* A death nobody asked for leaves "interrupted" evidence.                 *)
FramePolls ==
    /\ ui.at = "frame"
    /\ \/ ~HandleDead /\ ui' = [ui EXCEPT !.at = "ready"]
       \/ HandleDead /\ ui.pending /\ ui' = [ui EXCEPT !.at = "settle"]
       \/ /\ HandleDead /\ ~ui.pending
          /\ ui' = [ui EXCEPT !.at = "ready", !.live = None, !.evidence = ui.live]
    /\ UNCHANGED <<procVars, posix, outcome>>

(* settle_late_cancel and the adoption by nonce of what it left behind.    *)
SettleLate ==
    /\ ui.at = "settle"
    /\ \E s \in Seen :
        ui' = [ui EXCEPT !.at = "idle", !.live = None, !.pending = FALSE,
                         !.evidence = Adopted(s, ui.live)]
    /\ outcome' = [kind |-> "cancelled", run |-> ui.live, recorded |-> FALSE]
    /\ UNCHANGED <<procVars, posix>>

FrameEnds ==
    /\ ui.at = "ready"
    /\ ui' = [ui EXCEPT !.at = "idle", !.covered = None]
    /\ UNCHANGED <<procVars, posix, outcome>>

(* launch_daily_update: refused over a fresh running record, except the one*)
(* the session knows to be dead.                                           *)
Blocks(s, fresh) == s.kind = "running" /\ fresh /\ ~Covers(ui.covered, s)

Launch(r) ==
    /\ ui.at = "ready" /\ ~HandleAlive /\ proc[r] = "off"
    /\ \E s \in Seen, fresh \in BOOLEAN : ~Blocks(s, fresh)
    /\ proc' = [proc EXCEPT ![r] = "boot"]
    /\ ui' = [ui EXCEPT !.at = "idle", !.covered = None, !.live = r, !.pending = FALSE]
    /\ UNCHANGED <<sent, cause, wrote, lock, status, posix, outcome>>

(* The page's session is lost with the UI process or the browser tab.      *)
SessionLost ==
    /\ ui # NewSession
    /\ ui' = NewSession /\ outcome' = NoOutcome
    /\ UNCHANGED <<procVars, posix>>
---------------------------------------------------------------------------
(* cancel_update.                                                          *)
Answer(kind, recorded) == outcome' = [kind |-> kind, run |-> ui.live, recorded |-> recorded]

(* The handle is given up with every answer but a failure.                 *)
GivesUp == [NewSession EXCEPT !.evidence = ui.evidence]

Confirm ==
    /\ ui.at = "ready" /\ HandleAlive
    /\ ui' = [ui EXCEPT !.at = "cancel", !.covered = None, !.issued = FALSE,
                        !.graceful = FALSE, !.early = FALSE, !.raised = FALSE]
    /\ UNCHANGED <<procVars, posix, outcome>>

(* already_finished: a retry found the death of the cancel before it, which*)
(* is still to be settled; otherwise nothing was cancelled.                *)
AlreadyFinished(kind) ==
    \/ ui.pending /\ ui' = [ui EXCEPT !.at = "settle"] /\ UNCHANGED outcome
    \/ ~ui.pending /\ ui' = GivesUp /\ Answer(kind, FALSE)

CancelPolls ==
    /\ ui.at = "cancel"
    /\ \/ HandleDead /\ AlreadyFinished("finished")
       \/ /\ HandleAlive /\ UNCHANGED outcome
          /\ ui' = [ui EXCEPT !.at = IF posix THEN "sigint" ELSE "snapshot"]
    /\ UNCHANGED <<procVars, posix>>

Deliver(sig) ==
    sent' = IF Alive(ui.live) THEN [sent EXCEPT ![ui.live] = @ \cup {sig}] ELSE sent

(* The kernel may refuse a signal; to a process that is not yet reaped it  *)
(* succeeds.                                                               *)
SendSigint ==
    /\ ui.at = "sigint"
    /\ \/ Deliver("int") /\ ui' = [ui EXCEPT !.at = "grace", !.issued = TRUE]
       \/ ui' = [ui EXCEPT !.at = "grace"] /\ UNCHANGED sent
    /\ UNCHANGED <<proc, cause, wrote, lock, status, posix, outcome>>

GraceOver ==
    /\ ui.at = "grace"
    /\ \/ HandleDead /\ ui' = [ui EXCEPT !.at = "gate", !.graceful = TRUE] /\ UNCHANGED sent
       \/ Deliver("kill") /\ ui' = [ui EXCEPT !.at = "snapshot", !.issued = TRUE]
       \/ ui' = [ui EXCEPT !.at = "snapshot"] /\ UNCHANGED sent
    /\ UNCHANGED <<proc, cause, wrote, lock, status, posix, outcome>>

(* A last poll, and if the run is alive a look whether it has recorded its *)
(* end already.                                                            *)
SnapshotBeforeKill ==
    /\ ui.at = "snapshot"
    /\ \/ HandleDead /\ ui' = [ui EXCEPT !.at = "gate"]
       \/ /\ HandleAlive
          /\ \E s \in Seen : ui' = [ui EXCEPT !.at = "kill", !.early = Confirms(s, ui.live)]
    /\ UNCHANGED <<procVars, posix, outcome>>

(* Popen.kill polls first, and then returns without sending anything.      *)
Kill ==
    /\ ui.at = "kill"
    /\ \/ HandleDead /\ ui' = [ui EXCEPT !.at = "recheck"] /\ UNCHANGED sent
       \/ HandleAlive /\ Deliver("kill") /\ ui' = [ui EXCEPT !.at = "recheck"]
       \/ ui' = [ui EXCEPT !.at = "recheck", !.raised = TRUE] /\ UNCHANGED sent
    /\ UNCHANGED <<proc, cause, wrote, lock, status, posix, outcome>>

(* cancel_failed keeps the handle, and if a signal got through the cancel  *)
(* stays pending.                                                          *)
Fails(issued) ==
    /\ ui' = [GivesUp EXCEPT !.live = ui.live, !.pending = ui.pending \/ issued]
    /\ Answer("failed", FALSE)

RecheckAlive ==
    /\ ui.at = "recheck" /\ HandleAlive
    /\ \/ ui.raised /\ Fails(ui.issued)
       \/ ~ui.raised /\ ui' = [ui EXCEPT !.at = "wait", !.issued = TRUE] /\ UNCHANGED outcome
    /\ UNCHANGED <<procVars, posix>>

RecheckDead ==
    /\ ui.at = "recheck" /\ HandleDead
    /\ \E s \in Seen :
        \/ /\ ui.raised \/ ui.issued
           /\ ui' = [ui EXCEPT !.at = "gate"] /\ UNCHANGED outcome
        \/ /\ ~ui.raised /\ ~ui.issued /\ ui.early
           /\ AlreadyFinished("undecidable")
        \/ /\ ~ui.raised /\ ~ui.issued /\ ~ui.early /\ Confirms(s, ui.live)
           /\ AlreadyFinished("finished")
        \/ /\ ~ui.raised /\ ~ui.issued /\ ~ui.early /\ ~Confirms(s, ui.live)
           /\ ui' = [ui EXCEPT !.at = "gate", !.issued = TRUE] /\ UNCHANGED outcome
    /\ UNCHANGED <<procVars, posix>>

WaitAfterKill ==
    /\ ui.at = "wait"
    /\ \/ HandleDead /\ ui' = [ui EXCEPT !.at = "gate"] /\ UNCHANGED outcome
       \/ HandleAlive /\ Fails(TRUE)
    /\ UNCHANGED <<procVars, posix>>

(* No signal, no cancel; otherwise a graceful death is asked for its       *)
(* terminal record, and without one the record is read again to be adopted.*)
Gate ==
    /\ ui.at = "gate"
    /\ \/ ~ui.issued /\ AlreadyFinished("finished")
       \/ /\ ui.issued
          /\ \E s \in Seen :
              LET recorded == ui.graceful /\ Confirms(s, ui.live) IN
              /\ Answer("cancelled", recorded)
              /\ ui' = IF recorded THEN GivesUp ELSE [ui EXCEPT !.at = "adopt"]
    /\ UNCHANGED <<procVars, posix>>

Adopt ==
    /\ ui.at = "adopt"
    /\ \E s \in Seen : ui' = [GivesUp EXCEPT !.evidence = Adopted(s, ui.live)]
    /\ UNCHANGED <<procVars, posix, outcome>>

Frame == FrameReads \/ FramePolls \/ SettleLate \/ FrameEnds
CancelUpdate ==
    \/ CancelPolls \/ SendSigint \/ GraceOver \/ SnapshotBeforeKill \/ Kill
    \/ RecheckAlive \/ RecheckDead \/ WaitAfterKill \/ Gate \/ Adopt

PageStep ==
    \/ \E r \in Runs : ProcessStep(r)
    \/ \E r \in Scheduled : SchedulerStarts(r) /\ UNCHANGED <<posix, ui, outcome>>
    \/ \E r \in UiRuns : Launch(r)
    \/ Frame \/ Confirm \/ CancelUpdate

CancelNext == PageStep \/ SessionLost

CancelSpec == CancelInit /\ [][CancelNext]_cancelVars
---------------------------------------------------------------------------
(* The evidence of a cancel never presents a living run as cancelled, nor  *)
(* unlocks the launch over one: a run of the scheduler may take the lock   *)
(* and write its record between any two steps (run_center.py:228-233, "it  *)
(* never covers somebody else's run").                                     *)
EvidenceHidesOnlyTheDead ==
    /\ Covers(ui.evidence, status) => ~Alive(status.run)
    /\ Covers(ui.covered, status) => ~Alive(status.run)

(* The answers can be relied on.  "Finished before it was cancelled" is    *)
(* said only of a run that ended by itself or had written its terminal     *)
(* record, so nothing was cut short; "recorded by the orchestrator" only of*)
(* one that did; and a failure leaves the handle to try again.             *)
AnswersAreEarned ==
    /\ outcome.kind = "finished" => cause[outcome.run] = "own" \/ outcome.run \in wrote
    /\ outcome.kind = "undecidable" => outcome.run \in wrote
    /\ outcome.recorded => outcome.run \in wrote
    /\ outcome.kind = "cancelled" => ~Alive(outcome.run)
    /\ outcome.kind = "failed" => ui.live = outcome.run
===========================================================================
