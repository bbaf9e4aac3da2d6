------------------------ MODULE UpdateCancel_proofs ------------------------
(***************************************************************************)
(* Proofs that what the page tells the operator of a cancel is true, and   *)
(* that the evidence of a cancel only ever covers the record of a dead run,*)
(* for any number of runs of the page and of the scheduler, with signals   *)
(* that arrive late or never and a session lost at any point.              *)
(***************************************************************************)
EXTENDS UpdateCancel, TLAPS

CancelPoints == FramePoints \ {"idle", "frame", "settle", "ready"}

(* No signal of the page has reached this run, or is on its way.           *)
Untouched(r) == sent[r] = {} /\ proc[r] # "dying" /\ cause[r] # "signal"

(* A finished record was written by the run it names.                      *)
Recorded == status.kind = "finished" => status.run \in wrote

(* The handle is of a run that was started, and whoever settles, judges or *)
(* adopts a death has polled it.                                           *)
Handled ==
    /\ ui.live # None => proc[ui.live] # "off"
    /\ ui.at \in CancelPoints => ui.live # None
    /\ ui.at \in {"settle", "gate", "adopt"} => HandleDead

KnownDead ==
    /\ ui.evidence # None => proc[ui.evidence] = "dead"
    /\ ui.covered # None => proc[ui.covered] = "dead"

(* A cancel that has sent nothing, and one that left nothing pending, did  *)
(* not touch the run.                                                      *)
Accounted ==
    /\ \A r \in Runs : proc[r] = "off" => Untouched(r)
    /\ \A r \in Runs : proc[r] = "dead" => sent[r] = {} /\ cause[r] # "none"
    /\ /\ ui.live # None /\ ~ui.pending
       /\ ui.at \in CancelPoints => ~ui.issued /\ (ui.at = "recheck" => ui.raised)
       => Untouched(ui.live)
    /\ ui.at \in {"kill", "recheck"} /\ ui.early => ui.live \in wrote
    /\ ui.at = "cancel" => ~ui.issued
    /\ ui.at \in {"cancel", "sigint", "grace", "snapshot", "kill"} => ~ui.raised

Answered ==
    /\ outcome.kind # "none" => ui.at \in {"idle", "adopt"} /\ outcome.run # None
    /\ outcome.recorded => outcome.kind # "none"
    /\ outcome.kind \in {"finished", "undecidable", "cancelled"} => proc[outcome.run] = "dead"
    /\ outcome.kind = "failed" => ui.at = "idle"
    /\ AnswersAreEarned

CancelInv ==
    CancelTypeOK /\ Recorded /\ Handled /\ KnownDead /\ Accounted /\ Answered

(* Nothing has started: no record, no handle, no answer.                   *)
LEMMA CancelInitInv == CancelInit => CancelInv
<1> SUFFICES ASSUME CancelInit PROVE CancelInv
  OBVIOUS
<1>1. CancelTypeOK
  BY DEF CancelInit, CancelTypeOK, NewSession, Session, FramePoints, NoOutcome, Record
<1>2. Recorded /\ Handled /\ KnownDead /\ Accounted /\ Answered
  BY DEF CancelInit, Recorded, Handled, KnownDead, Accounted, Answered, AnswersAreEarned, Untouched,
       NewSession, CancelPoints, NoOutcome, NoRecord
<1> QED
  BY <1>1, <1>2 DEF CancelInv

(* What the steps of the processes leave true: the dead stay dead as they  *)
(* died, what was written stays written, and only a signal of the page     *)
(* makes a run one that was touched.                                       *)
Progress ==
    /\ \A r \in Runs : proc[r] = "dead" => proc'[r] = "dead" /\ cause'[r] = cause[r]
    /\ \A r \in Runs : proc[r] # "off" => proc'[r] # "off"
    /\ \A r \in Runs : Untouched(r) => Untouched(r)'
    /\ \A r \in Runs : proc'[r] = "off" => proc[r] = "off"
    /\ \A r \in Runs : proc'[r] = "dead" => sent'[r] = {} /\ cause'[r] # "none"
    /\ wrote \subseteq wrote'
    /\ UNCHANGED <<ui, outcome>>

(* A death.                                                                *)
LEMMA Death ==
    ASSUME CancelTypeOK, NEW r \in Runs, NEW why \in {"own", "signal"}, Dies(r, why)
    PROVE  /\ proc' \in [Runs -> {"off", "boot", "locked", "working", "closing", "dying", "dead"}]
           /\ sent' \in [Runs -> SUBSET {"int", "kill"}]
           /\ cause' \in [Runs -> {"none", "own", "signal"}]
           /\ lock' \in Runs \cup {None}
           /\ proc'[r] = "dead" /\ cause'[r] = why /\ sent'[r] = {}
           /\ \A q \in Runs \ {r} : proc'[q] = proc[q] /\ cause'[q] = cause[q] /\ sent'[q] = sent[q]
BY DEF CancelTypeOK, Dies

(* Every step of a process, and the scheduler's start of one, is progress. *)
LEMMA ProcessProgress ==
    ASSUME CancelInv, NEW r \in Runs,
           \/ ProcessStep(r)
           \/ r \in Scheduled /\ SchedulerStarts(r) /\ UNCHANGED <<posix, ui, outcome>>
    PROVE  CancelTypeOK' /\ Recorded' /\ Progress
<1>1. /\ CancelTypeOK /\ Recorded
      /\ \A q \in Runs : proc[q] = "dead" => sent[q] = {} /\ cause[q] # "none"
  BY DEF CancelInv, Accounted
<1>2. CASE /\ TakeLock(r) \/ (SchedulerStarts(r) /\ r \in Scheduled)
           /\ UNCHANGED <<posix, ui, outcome>>
  BY <1>1, <1>2 DEF CancelTypeOK, Recorded, Progress, Untouched, TakeLock, SchedulerStarts
<1>3. CASE EndsAlone(r) /\ UNCHANGED <<posix, ui, outcome>>
  <2>1. Alive(r) /\ Dies(r, "own") /\ UNCHANGED <<wrote, status>>
    BY <1>3 DEF EndsAlone
  <2> QED
    BY <1>1, <1>3, <2>1, Death DEF CancelTypeOK, Recorded, Progress, Untouched, Alive
<1>4. CASE RecordRunning(r) /\ UNCHANGED <<posix, ui, outcome>>
  BY <1>1, <1>4 DEF CancelTypeOK, Recorded, Progress, Untouched, RecordRunning, Record
<1>5. CASE Finishes(r) /\ UNCHANGED <<posix, ui, outcome>>
  BY <1>1, <1>5 DEF CancelTypeOK, Recorded, Progress, Untouched, Finishes, RecordTerminal, Record
<1>6. CASE Interrupted(r) /\ RecordTerminal(r, "dying") /\ sent' = [sent EXCEPT ![r] = @ \ {"int"}]
           /\ UNCHANGED <<posix, ui, outcome>>
  <2>1. ~Untouched(r) /\ proc[r] = "working"
    BY <1>6 DEF Interrupted, Untouched, RecordTerminal
  <2> QED
    BY <1>1, <1>6, <2>1 DEF CancelTypeOK, Recorded, Progress, Untouched, RecordTerminal, Record
<1>7. CASE (Interrupted(r) \/ Killed(r)) /\ Dies(r, "signal") /\ UNCHANGED <<wrote, status, posix, ui, outcome>>
  <2>1. ~Untouched(r) /\ proc[r] # "dead"
    BY <1>1, <1>7 DEF Interrupted, Killed, Untouched, Alive
  <2> QED
    BY <1>1, <1>7, <2>1, Death DEF CancelTypeOK, Recorded, Progress, Untouched
<1> QED
  BY <1>2, <1>3, <1>4, <1>5, <1>6, <1>7 DEF ProcessStep, Interrupted, Killed

(* Progress keeps what the session knows and has said.                     *)
LEMMA ProgressInv == ASSUME CancelInv, CancelTypeOK', Recorded', Progress PROVE CancelInv'
<1>1. /\ ui \in Session /\ UiRuns \subseteq Runs /\ outcome.run \in UiRuns \cup {None}
      /\ UNCHANGED <<ui, outcome>>
  BY DEF CancelInv, CancelTypeOK, Runs, Progress
<1>2. Handled'
  BY <1>1 DEF CancelInv, Handled, HandleDead, Alive, Progress, Session
<1>3. KnownDead'
  BY <1>1 DEF CancelInv, KnownDead, Progress, Session
<1>4. Accounted'
  BY <1>1 DEF CancelInv, Accounted, Progress, Session
<1>5. Answered'
  BY <1>1 DEF CancelInv, Answered, AnswersAreEarned, Alive, Progress
<1> QED
  BY <1>2, <1>3, <1>4, <1>5 DEF CancelInv

(* The top of a frame: evidence is found in the record, or retired.        *)
LEMMA FrameReadsInv == ASSUME CancelInv, FrameReads PROVE CancelInv'
<1>1. CancelTypeOK'
  BY DEF CancelInv, CancelTypeOK, FrameReads, procVars, Session, FramePoints, Seen, NoOutcome
<1>2. Recorded'
  BY DEF CancelInv, Recorded, FrameReads, procVars
<1>3. Handled' /\ KnownDead'
  BY DEF CancelInv, Handled, KnownDead, CancelPoints, FrameReads, procVars
<1>4. Accounted'
  BY DEF CancelInv, Session, Accounted, Untouched, CancelPoints, FrameReads, procVars
<1>5. Answered'
  BY DEF Session, Answered, AnswersAreEarned, CancelPoints, FrameReads, procVars, NoOutcome
<1> QED
  BY <1>1, <1>2, <1>3, <1>4, <1>5 DEF CancelInv

(* A late death is settled and its orphaned record adopted.                *)
LEMMA SettleLateInv == ASSUME CancelInv, SettleLate PROVE CancelInv'
<1>1. CancelTypeOK'
  BY DEF CancelInv, CancelTypeOK, SettleLate, procVars, Session, FramePoints, Adopted
<1>2. Recorded'
  BY DEF CancelInv, Recorded, SettleLate, procVars
<1>3. Handled' /\ KnownDead'
  BY DEF CancelInv, Handled, KnownDead, CancelPoints, SettleLate, procVars, Adopted, HandleDead, Alive
<1>4. Accounted'
  BY DEF CancelInv, Session, Accounted, Untouched, CancelPoints, SettleLate, procVars, Adopted, HandleDead,
       Alive
<1>5. Answered'
  BY DEF CancelInv, Session, Handled, Answered, AnswersAreEarned, SettleLate, procVars, HandleDead, Alive
<1> QED
  BY <1>1, <1>2, <1>3, <1>4, <1>5 DEF CancelInv

(* A frame ends.                                                           *)
LEMMA FrameEndsInv == ASSUME CancelInv, FrameEnds PROVE CancelInv'
<1>1. CancelTypeOK'
  BY DEF CancelInv, CancelTypeOK, FrameEnds, procVars, Session, FramePoints
<1>2. Recorded'
  BY DEF CancelInv, Recorded, FrameEnds, procVars
<1>3. Handled' /\ KnownDead'
  BY DEF CancelInv, Handled, KnownDead, CancelPoints, FrameEnds, procVars
<1>4. Accounted'
  BY DEF CancelInv, Session, Accounted, Untouched, CancelPoints, FrameEnds, procVars
<1>5. Answered'
  BY DEF CancelInv, Session, Answered, AnswersAreEarned, CancelPoints, FrameEnds, procVars
<1> QED
  BY <1>1, <1>2, <1>3, <1>4, <1>5 DEF CancelInv

(* The session is lost with everything it knew.                            *)
LEMMA SessionLostInv == ASSUME CancelInv, SessionLost PROVE CancelInv'
<1>1. CancelTypeOK'
  BY DEF CancelInv, CancelTypeOK, SessionLost, procVars, Session, FramePoints, NewSession, NoOutcome
<1>2. Recorded'
  BY DEF CancelInv, Recorded, SessionLost, procVars
<1>3. Handled' /\ KnownDead'
  BY DEF Handled, KnownDead, CancelPoints, SessionLost, NewSession
<1>4. Accounted'
  BY DEF CancelInv, Accounted, Untouched, CancelPoints, SessionLost, procVars, NewSession
<1>5. Answered'
  BY DEF Session, Answered, AnswersAreEarned, SessionLost, procVars, NewSession, NoOutcome
<1> QED
  BY <1>1, <1>2, <1>3, <1>4, <1>5 DEF CancelInv

(* A cancel begins.                                                        *)
LEMMA ConfirmInv == ASSUME CancelInv, Confirm PROVE CancelInv'
<1>1. CancelTypeOK'
  BY DEF CancelInv, CancelTypeOK, Confirm, procVars, Session, FramePoints, HandleAlive, Alive
<1>2. Recorded'
  BY DEF CancelInv, Recorded, Confirm, procVars
<1>3. Handled' /\ KnownDead'
  BY DEF CancelInv, Handled, KnownDead, Confirm, procVars, HandleAlive
<1>4. Accounted'
  BY DEF CancelInv, Session, Accounted, Untouched, CancelPoints, Confirm, procVars, HandleAlive
<1>5. Answered'
  BY DEF CancelInv, Session, Answered, AnswersAreEarned, CancelPoints, Confirm, procVars
<1> QED
  BY <1>1, <1>2, <1>3, <1>4, <1>5 DEF CancelInv

(* The orphaned record of the cancelled run is adopted.                    *)
LEMMA AdoptInv == ASSUME CancelInv, Adopt PROVE CancelInv'
<1>1. CancelTypeOK'
  BY DEF CancelInv, CancelTypeOK, Adopt, procVars, Session, FramePoints, Adopted, GivesUp, NewSession
<1>2. Recorded'
  BY DEF CancelInv, Recorded, Adopt, procVars
<1>3. Handled' /\ KnownDead'
  BY DEF CancelInv, Handled, KnownDead, CancelPoints, Adopt, procVars, Adopted, HandleDead, Alive, GivesUp,
       NewSession
<1>4. Accounted'
  BY DEF CancelInv, Session, Accounted, Untouched, CancelPoints, Adopt, procVars, Adopted, HandleDead, Alive,
       GivesUp, NewSession
<1>5. Answered'
  BY DEF CancelInv, Session, Answered, AnswersAreEarned, Adopt, procVars, Alive, GivesUp, NewSession
<1> QED
  BY <1>1, <1>2, <1>3, <1>4, <1>5 DEF CancelInv

(* A death nobody asked for leaves evidence; one that was asked for is     *)
(* settled.                                                                *)
LEMMA FramePollsInv == ASSUME CancelInv, FramePolls PROVE CancelInv'
<1>1. /\ ui.at = "frame" /\ ui \in Session /\ outcome.kind = "none" /\ ~outcome.recorded
      /\ UNCHANGED <<proc, sent, cause, wrote, lock, status, posix, outcome>>
  BY DEF CancelInv, CancelTypeOK, Answered, FramePolls, procVars
<1>2. /\ ui' \in Session /\ ui'.at \in {"ready", "settle"}
      /\ ui'.covered = ui.covered /\ ui'.pending = ui.pending
      /\ \/ ui'.live = ui.live /\ ui'.evidence = ui.evidence /\ (ui'.at = "settle" => HandleDead)
         \/ ui'.live = None /\ ui'.evidence = ui.live /\ HandleDead /\ ui'.at = "ready"
  BY <1>1 DEF FramePolls, Session, FramePoints
<1>3. HandleDead => proc[ui.live] = "dead"
  BY DEF CancelInv, Handled, HandleDead, Alive
<1>4. CancelTypeOK' /\ Recorded'
  BY <1>1, <1>2 DEF CancelInv, CancelTypeOK, Recorded
<1>5. Handled' /\ KnownDead'
  BY <1>1, <1>2, <1>3 DEF CancelInv, Handled, KnownDead, HandleDead, Alive, CancelPoints
<1>6. Accounted'
  BY <1>1, <1>2 DEF CancelInv, Accounted, Untouched, CancelPoints
<1>7. Answered'
  BY <1>1, <1>2 DEF CancelInv, Answered, AnswersAreEarned
<1> QED
  BY <1>4, <1>5, <1>6, <1>7 DEF CancelInv

(* A cancel that goes on.                                                  *)
LEMMA Advance ==
    ASSUME CancelInv, UNCHANGED <<proc, sent, cause, wrote, lock, status, posix, outcome>>,
           ui.at \in CancelPoints \ {"adopt"}, ui' \in Session,
           ui'.at \in (CancelPoints \ {"adopt", "cancel"}) \cup {"settle"},
           ui'.live = ui.live, ui'.pending = ui.pending,
           ui'.evidence = ui.evidence, ui'.covered = ui.covered,
           ui'.at \in {"settle", "gate"} => HandleDead,
           ui'.at = "settle" => ui.pending,
           ui'.at \in {"sigint", "grace", "snapshot", "kill"} => ~ui'.raised,
           ~ui'.issued /\ (ui'.at = "recheck" => ui'.raised) => ui.pending \/ Untouched(ui.live),
           ui'.at \in {"kill", "recheck"} /\ ui'.early => ui.live \in wrote
    PROVE  CancelInv'
<1>1. outcome.kind = "none" /\ ~outcome.recorded /\ ui.live # None
  BY DEF CancelInv, Answered, Handled, CancelPoints
<1>2. CancelTypeOK' /\ Recorded'
  BY DEF CancelInv, CancelTypeOK, Recorded
<1>3. Handled' /\ KnownDead'
  BY <1>1 DEF CancelInv, Handled, KnownDead, HandleDead, Alive, CancelPoints
<1>4. Accounted'
  BY <1>1 DEF CancelInv, Accounted, Untouched, CancelPoints
<1>5. Answered'
  BY <1>1 DEF CancelInv, Answered, AnswersAreEarned
<1> QED
  BY <1>2, <1>3, <1>4, <1>5 DEF CancelInv

(* A cancel that gives the handle up with an answer.                       *)
LEMMA GivingUp ==
    ASSUME CancelInv, UNCHANGED <<proc, sent, cause, wrote, lock, status, posix>>,
           NEW kind \in {"finished", "undecidable", "cancelled"}, NEW recorded \in BOOLEAN,
           ui' = GivesUp, Answer(kind, recorded), HandleDead,
           kind = "finished" => cause[ui.live] = "own" \/ ui.live \in wrote,
           kind = "undecidable" \/ recorded => ui.live \in wrote
    PROVE  CancelInv'
<1>1. /\ ui \in Session /\ ui.live # None /\ proc[ui.live] = "dead"
  BY DEF CancelInv, CancelTypeOK, Handled, HandleDead, Alive
<1>2. /\ ui' \in Session /\ ui'.at = "idle" /\ ui'.live = None /\ ui'.evidence = ui.evidence /\ ui'.covered = None
  BY <1>1 DEF GivesUp, NewSession, Session, FramePoints
<1>3. /\ outcome'.kind = kind /\ outcome'.run = ui.live /\ outcome'.recorded = recorded
      /\ outcome' \in [kind : {"none", "finished", "undecidable", "cancelled", "failed"},
                        run : UiRuns \cup {None}, recorded : BOOLEAN]
  BY <1>1 DEF Answer, Session
<1>4. CancelTypeOK' /\ Recorded'
  BY <1>2, <1>3 DEF CancelInv, CancelTypeOK, Recorded
<1>5. Handled' /\ KnownDead' /\ Accounted'
  BY <1>2 DEF CancelInv, Handled, KnownDead, Accounted, Untouched, CancelPoints
<1>6. Answered'
  BY <1>1, <1>2, <1>3 DEF Answered, AnswersAreEarned, Alive
<1> QED
  BY <1>4, <1>5, <1>6 DEF CancelInv

(* A cancel that fails keeps the handle.                                   *)
LEMMA Failing ==
    ASSUME CancelInv, UNCHANGED <<proc, sent, cause, wrote, lock, status, posix>>,
           NEW issued \in BOOLEAN, Fails(issued), HandleAlive,
           ~issued => ui.pending \/ Untouched(ui.live)
    PROVE  CancelInv'
<1>1. /\ ui \in Session /\ ui.live # None /\ proc[ui.live] # "off"
  BY DEF CancelInv, CancelTypeOK, HandleAlive, Alive
<1>2. /\ ui' \in Session /\ ui'.at = "idle" /\ ui'.live = ui.live /\ ui'.pending = (ui.pending \/ issued)
      /\ ui'.evidence = ui.evidence /\ ui'.covered = None
  BY <1>1 DEF Fails, GivesUp, NewSession, Session, FramePoints
<1>3. /\ outcome'.kind = "failed" /\ outcome'.run = ui.live /\ outcome'.recorded = FALSE
      /\ outcome' \in [kind : {"none", "finished", "undecidable", "cancelled", "failed"},
                        run : UiRuns \cup {None}, recorded : BOOLEAN]
  BY <1>1 DEF Fails, Answer, Session
<1>4. CancelTypeOK' /\ Recorded'
  BY <1>2, <1>3 DEF CancelInv, CancelTypeOK, Recorded
<1>5. Handled' /\ KnownDead' /\ Accounted'
  BY <1>1, <1>2 DEF CancelInv, Handled, KnownDead, Accounted, Untouched, CancelPoints
<1>6. Answered'
  BY <1>1, <1>2, <1>3 DEF Answered, AnswersAreEarned
<1> QED
  BY <1>4, <1>5, <1>6 DEF CancelInv

(* What a poll that finds the run dead may conclude.                       *)
LEMMA AlreadyFinishedInv ==
    ASSUME CancelInv, UNCHANGED <<proc, sent, cause, wrote, lock, status, posix>>,
           ui.at \in CancelPoints \ {"adopt"}, HandleDead, NEW kind \in {"finished", "undecidable"},
           AlreadyFinished(kind),
           kind = "finished" => ui.pending \/ Untouched(ui.live) \/ ui.live \in wrote,
           kind = "undecidable" => ui.live \in wrote
    PROVE  CancelInv'
<1>1. ui \in Session
  BY DEF CancelInv, CancelTypeOK
<1>2. CASE ui.pending /\ ui' = [ui EXCEPT !.at = "settle"] /\ UNCHANGED outcome
  <2>1. ui' \in Session /\ ui'.at = "settle" /\ ui'.live = ui.live /\ ui'.pending = ui.pending
        /\ ui'.evidence = ui.evidence /\ ui'.covered = ui.covered
    BY <1>1, <1>2 DEF Session, FramePoints
  <2> QED
    BY <1>2, <2>1, Advance
<1>3. CASE ~ui.pending /\ ui' = GivesUp /\ Answer(kind, FALSE)
  <2>1. ui.live \in Runs /\ proc[ui.live] = "dead"
    BY <1>1 DEF CancelInv, Handled, HandleDead, Alive, Session, Runs
  <2>2. Untouched(ui.live) => cause[ui.live] = "own"
    BY <2>1 DEF CancelInv, CancelTypeOK, Accounted, Untouched
  <2> QED
    BY <1>3, <2>2, GivingUp
<1> QED
  BY <1>2, <1>3 DEF AlreadyFinished

(* Where a cancel stands.                                                  *)
LEMMA InCancel ==
    ASSUME CancelInv, ui.at \in CancelPoints
    PROVE  /\ ui \in Session /\ ui.live # None
           /\ ~ui.issued /\ (ui.at = "recheck" => ui.raised) => ui.pending \/ Untouched(ui.live)
           /\ ui.at \in {"kill", "recheck"} /\ ui.early => ui.live \in wrote
           /\ ui.at = "cancel" => ~ui.issued
           /\ ui.at \in {"cancel", "sigint", "grace", "snapshot", "kill"} => ~ui.raised
           /\ ui.at = "gate" => HandleDead
           /\ \A s \in Seen : Confirms(s, ui.live) => ui.live \in wrote
<1>1. ui \in Session /\ ui.live # None
  BY DEF CancelInv, CancelTypeOK, Handled
<1>2. ASSUME NEW s \in Seen, Confirms(s, ui.live) PROVE ui.live \in wrote
  BY <1>1, <1>2 DEF CancelInv, Recorded, Seen, NoRecord, Confirms, Nonce
<1> QED
  BY <1>1, <1>2 DEF CancelInv, Handled, Accounted

(* The first poll of a cancel.                                             *)
LEMMA CancelPollsInv == ASSUME CancelInv, CancelPolls PROVE CancelInv'
<1>1. /\ ui.at = "cancel" /\ ui.at \in CancelPoints \ {"adopt"}
      /\ UNCHANGED <<proc, sent, cause, wrote, lock, status, posix>>
  BY DEF CancelPolls, procVars, CancelPoints, FramePoints
<1>2. ui \in Session /\ ~ui.issued /\ ~ui.raised /\ (ui.pending \/ Untouched(ui.live))
  BY <1>1, InCancel
<1>3. CASE HandleDead /\ AlreadyFinished("finished")
  BY <1>1, <1>2, <1>3, AlreadyFinishedInv
<1>4. CASE UNCHANGED outcome /\ ui' = [ui EXCEPT !.at = IF posix THEN "sigint" ELSE "snapshot"]
  <2>1. /\ ui' \in Session /\ ui'.at \in {"sigint", "snapshot"} /\ ui'.live = ui.live /\ ~ui'.raised
        /\ ui'.pending = ui.pending /\ ui'.evidence = ui.evidence /\ ui'.covered = ui.covered
    BY <1>2, <1>4 DEF Session, FramePoints
  <2>2. ui'.at \in CancelPoints \ {"adopt", "cancel"}
    BY <2>1 DEF CancelPoints, FramePoints
  <2> QED
    BY <1>1, <1>2, <1>4, <2>1, <2>2, Advance
<1> QED
  BY <1>3, <1>4 DEF CancelPolls

(* The last look before the kill.                                          *)
LEMMA SnapshotBeforeKillInv == ASSUME CancelInv, SnapshotBeforeKill PROVE CancelInv'
<1>1. /\ ui.at = "snapshot" /\ ui.at \in CancelPoints \ {"adopt"}
      /\ UNCHANGED <<proc, sent, cause, wrote, lock, status, posix, outcome>>
  BY DEF SnapshotBeforeKill, procVars, CancelPoints, FramePoints
<1>2. /\ ui \in Session /\ (~ui.issued => ui.pending \/ Untouched(ui.live)) /\ ~ui.raised
      /\ \A s \in Seen : Confirms(s, ui.live) => ui.live \in wrote
  BY <1>1, InCancel
<1>3. CASE HandleDead /\ ui' = [ui EXCEPT !.at = "gate"]
  <2>1. /\ ui' \in Session /\ ui'.at = "gate" /\ ui'.live = ui.live /\ ui'.issued = ui.issued
        /\ ui'.pending = ui.pending /\ ui'.evidence = ui.evidence /\ ui'.covered = ui.covered
    BY <1>2, <1>3 DEF Session, FramePoints
  <2>2. ui'.at \in CancelPoints \ {"adopt", "cancel"}
    BY <2>1 DEF CancelPoints, FramePoints
  <2> QED
    BY <1>1, <1>2, <1>3, <2>1, <2>2, Advance
<1>4. ASSUME NEW s \in Seen, ui' = [ui EXCEPT !.at = "kill", !.early = Confirms(s, ui.live)]
      PROVE  CancelInv'
  <2>1. Confirms(s, ui.live) \in BOOLEAN
    BY DEF Confirms
  <2>2. /\ ui' \in Session /\ ui'.at = "kill" /\ ui'.live = ui.live /\ ui'.issued = ui.issued
        /\ ui'.pending = ui.pending /\ ui'.evidence = ui.evidence /\ ui'.covered = ui.covered
        /\ ui'.early = Confirms(s, ui.live) /\ ui'.raised = ui.raised
    BY <1>2, <1>4, <2>1 DEF Session, FramePoints
  <2>3. ui'.at \in CancelPoints \ {"adopt", "cancel"}
    BY <2>2 DEF CancelPoints, FramePoints
  <2> QED
    BY <1>1, <1>2, <2>2, <2>3, Advance
<1> QED
  BY <1>3, <1>4 DEF SnapshotBeforeKill

(* The kill of a living run: refused, or on its way.                       *)
LEMMA RecheckAliveInv == ASSUME CancelInv, RecheckAlive PROVE CancelInv'
<1>1. /\ ui.at = "recheck" /\ ui.at \in CancelPoints \ {"adopt"} /\ HandleAlive
      /\ UNCHANGED <<proc, sent, cause, wrote, lock, status, posix>>
  BY DEF RecheckAlive, procVars, CancelPoints, FramePoints
<1>2. /\ ui \in Session /\ ui.issued \in BOOLEAN
      /\ ui.raised /\ ~ui.issued => ui.pending \/ Untouched(ui.live)
  BY <1>1, InCancel DEF Session
<1>3. CASE ui.raised /\ Fails(ui.issued)
  BY <1>1, <1>2, <1>3, Failing
<1>4. CASE ui' = [ui EXCEPT !.at = "wait", !.issued = TRUE] /\ UNCHANGED outcome
  <2>1. /\ ui' \in Session /\ ui'.at = "wait" /\ ui'.live = ui.live /\ ui'.issued
        /\ ui'.pending = ui.pending /\ ui'.evidence = ui.evidence /\ ui'.covered = ui.covered
    BY <1>2, <1>4 DEF Session, FramePoints
  <2>2. ui'.at \in CancelPoints \ {"adopt", "cancel"}
    BY <2>1 DEF CancelPoints, FramePoints
  <2> QED
    BY <1>1, <1>2, <1>4, <2>1, <2>2, Advance
<1> QED
  BY <1>3, <1>4 DEF RecheckAlive

(* The run was dead when the kill was tried.                               *)
LEMMA RecheckDeadInv == ASSUME CancelInv, RecheckDead PROVE CancelInv'
<1>1. /\ ui.at = "recheck" /\ ui.at \in CancelPoints \ {"adopt"} /\ HandleDead
      /\ UNCHANGED <<proc, sent, cause, wrote, lock, status, posix>>
  BY DEF RecheckDead, procVars, CancelPoints, FramePoints
<1>2. /\ ui \in Session /\ (ui.raised /\ ~ui.issued => ui.pending \/ Untouched(ui.live))
      /\ ui.early => ui.live \in wrote
      /\ \A s \in Seen : Confirms(s, ui.live) => ui.live \in wrote
  BY <1>1, InCancel
<1>3. CASE ui.early /\ AlreadyFinished("undecidable")
  BY <1>1, <1>2, <1>3, AlreadyFinishedInv
<1>4. ASSUME NEW s \in Seen, Confirms(s, ui.live), AlreadyFinished("finished") PROVE CancelInv'
  BY <1>1, <1>2, <1>4, AlreadyFinishedInv
<1>5. CASE /\ UNCHANGED outcome
           /\ \/ (ui.raised \/ ui.issued) /\ ui' = [ui EXCEPT !.at = "gate"]
              \/ ui' = [ui EXCEPT !.at = "gate", !.issued = TRUE]
  <2>1. /\ ui' \in Session /\ ui'.at = "gate" /\ ui'.live = ui.live
        /\ ui'.issued \/ (ui.raised /\ ~ui.issued)
        /\ ui'.pending = ui.pending /\ ui'.evidence = ui.evidence /\ ui'.covered = ui.covered
    BY <1>2, <1>5 DEF Session, FramePoints
  <2>2. ui'.at \in CancelPoints \ {"adopt", "cancel"}
    BY <2>1 DEF CancelPoints, FramePoints
  <2> QED
    BY <1>1, <1>2, <1>5, <2>1, <2>2, Advance
<1> QED
  BY <1>3, <1>4, <1>5 DEF RecheckDead

(* The bounded wait after a kill.                                          *)
LEMMA WaitAfterKillInv == ASSUME CancelInv, WaitAfterKill PROVE CancelInv'
<1>1. /\ ui.at = "wait" /\ ui.at \in CancelPoints \ {"adopt"}
      /\ UNCHANGED <<proc, sent, cause, wrote, lock, status, posix>>
  BY DEF WaitAfterKill, procVars, CancelPoints, FramePoints
<1>2. ui \in Session /\ (~ui.issued => ui.pending \/ Untouched(ui.live))
  BY <1>1, InCancel
<1>3. CASE HandleDead /\ ui' = [ui EXCEPT !.at = "gate"] /\ UNCHANGED outcome
  <2>1. /\ ui' \in Session /\ ui'.at = "gate" /\ ui'.live = ui.live /\ ui'.issued = ui.issued
        /\ ui'.pending = ui.pending /\ ui'.evidence = ui.evidence /\ ui'.covered = ui.covered
    BY <1>2, <1>3 DEF Session, FramePoints
  <2>2. ui'.at \in CancelPoints \ {"adopt", "cancel"}
    BY <2>1 DEF CancelPoints, FramePoints
  <2> QED
    BY <1>1, <1>2, <1>3, <2>1, <2>2, Advance
<1>4. CASE HandleAlive /\ Fails(TRUE)
  BY <1>1, <1>4, Failing
<1> QED
  BY <1>3, <1>4 DEF WaitAfterKill

(* The cancel is confirmed, or there was none.                             *)
LEMMA GateInv == ASSUME CancelInv, Gate PROVE CancelInv'
<1>1. /\ ui.at = "gate" /\ ui.at \in CancelPoints \ {"adopt"}
      /\ UNCHANGED <<proc, sent, cause, wrote, lock, status, posix>>
  BY DEF Gate, procVars, CancelPoints, FramePoints
<1>2. /\ ui \in Session /\ ui.live # None /\ HandleDead
      /\ ~ui.issued => ui.pending \/ Untouched(ui.live)
      /\ \A s \in Seen : Confirms(s, ui.live) => ui.live \in wrote
  BY <1>1, InCancel
<1>3. CASE ~ui.issued /\ AlreadyFinished("finished")
  BY <1>1, <1>2, <1>3, AlreadyFinishedInv
<1>4. ASSUME ui.issued, NEW s \in Seen, NEW recorded, recorded = (ui.graceful /\ Confirms(s, ui.live)),
             Answer("cancelled", recorded),
             ui' = IF recorded THEN GivesUp ELSE [ui EXCEPT !.at = "adopt"]
      PROVE  CancelInv'
  <2>1. recorded \in BOOLEAN /\ (recorded => ui.live \in wrote)
    BY <1>2, <1>4 DEF Session
  <2>2. CASE recorded
    BY <1>1, <1>2, <1>4, <2>1, <2>2, GivingUp
  <2>3. CASE ~recorded
    <3>1. /\ ui' \in Session /\ ui'.at = "adopt" /\ ui'.live = ui.live /\ ui'.issued
          /\ ui'.pending = ui.pending /\ ui'.evidence = ui.evidence /\ ui'.covered = ui.covered
      BY <1>2, <1>4, <2>3 DEF Session, FramePoints
    <3>2. /\ outcome'.kind = "cancelled" /\ outcome'.run = ui.live /\ ~outcome'.recorded
          /\ outcome' \in [kind : {"none", "finished", "undecidable", "cancelled", "failed"},
                            run : UiRuns \cup {None}, recorded : BOOLEAN]
      BY <1>2, <1>4, <2>1, <2>3 DEF Answer, Session
    <3>3. CancelTypeOK' /\ Recorded'
      BY <1>1, <3>1, <3>2 DEF CancelInv, CancelTypeOK, Recorded
    <3>4. Handled' /\ KnownDead'
      BY <1>1, <1>2, <3>1 DEF CancelInv, Handled, HandleDead, Alive, KnownDead
    <3>6. Accounted'
      BY <1>1, <1>2, <3>1 DEF CancelInv, Accounted, Untouched, CancelPoints, FramePoints
    <3>5. Answered'
      BY <1>1, <1>2, <3>1, <3>2 DEF CancelInv, Handled, Answered, AnswersAreEarned, HandleDead, Alive
    <3> QED
      BY <3>3, <3>4, <3>6, <3>5 DEF CancelInv
  <2> QED
    BY <2>2, <2>3
<1> QED
  BY <1>3, <1>4 DEF Gate

(* A signal is on its way, and whoever sent it will answer for it.         *)
LEMMA Delivering ==
    ASSUME CancelInv, NEW sig \in {"int", "kill"}, Deliver(sig),
           UNCHANGED <<proc, cause, wrote, lock, status, posix, outcome>>,
           ui.at \in CancelPoints \ {"adopt"}, ui' \in Session,
           ui'.at \in CancelPoints \ {"adopt", "cancel", "gate"},
           ui'.live = ui.live, ui'.pending = ui.pending,
           ui'.evidence = ui.evidence, ui'.covered = ui.covered,
           ui'.issued \/ (ui'.at = "recheck" /\ ~ui'.raised),
           ui'.at \in {"sigint", "grace", "snapshot", "kill"} => ~ui'.raised,
           ui'.at \in {"kill", "recheck"} /\ ui'.early => ui.live \in wrote
    PROVE  CancelInv'
<1>1. outcome.kind = "none" /\ ~outcome.recorded /\ ui.live # None /\ ui.live \in Runs
  BY DEF CancelInv, CancelTypeOK, Session, Answered, Handled, CancelPoints, Runs
<1>2. /\ sent' \in [Runs -> SUBSET {"int", "kill"}]
      /\ \A r \in Runs : proc[r] \in {"off", "dead"} => sent'[r] = sent[r]
  BY <1>1 DEF CancelInv, CancelTypeOK, Deliver, Alive
<1>3. CancelTypeOK' /\ Recorded'
  BY <1>2 DEF CancelInv, CancelTypeOK, Recorded
<1>4. Handled' /\ KnownDead'
  BY <1>1 DEF CancelInv, Handled, KnownDead, HandleDead, Alive, CancelPoints, FramePoints
<1>5. Accounted'
  BY <1>1, <1>2 DEF CancelInv, Accounted, Untouched, CancelPoints, FramePoints
<1>6. Answered'
  BY <1>1 DEF CancelInv, Answered, AnswersAreEarned
<1> QED
  BY <1>3, <1>4, <1>5, <1>6 DEF CancelInv

(* SIGINT.                                                                 *)
LEMMA SendSigintInv == ASSUME CancelInv, SendSigint PROVE CancelInv'
<1>1. /\ ui.at = "sigint" /\ ui.at \in CancelPoints \ {"adopt"}
      /\ UNCHANGED <<proc, cause, wrote, lock, status, posix, outcome>>
  BY DEF SendSigint, CancelPoints, FramePoints
<1>2. ui \in Session /\ (~ui.issued => ui.pending \/ Untouched(ui.live)) /\ ~ui.raised
  BY <1>1, InCancel
<1>3. \/ Deliver("int") /\ ui' = [ui EXCEPT !.at = "grace", !.issued = TRUE]
      \/ UNCHANGED sent /\ ui' = [ui EXCEPT !.at = "grace"]
  BY DEF SendSigint
<1>4. /\ ui' \in Session /\ ui'.at = "grace" /\ ui'.live = ui.live /\ ~ui'.raised
      /\ ui'.pending = ui.pending /\ ui'.evidence = ui.evidence /\ ui'.covered = ui.covered
      /\ \/ Deliver("int") /\ ui'.issued
         \/ UNCHANGED sent /\ ui'.issued = ui.issued
  BY <1>2, <1>3 DEF Session, FramePoints
<1>5. ui'.at \in CancelPoints \ {"adopt", "cancel", "gate"}
  BY <1>4 DEF CancelPoints, FramePoints
<1> QED
  BY <1>1, <1>2, <1>4, <1>5, Delivering, Advance

(* The grace ends with the run or without it.                              *)
LEMMA GraceOverInv == ASSUME CancelInv, GraceOver PROVE CancelInv'
<1>1. /\ ui.at = "grace" /\ ui.at \in CancelPoints \ {"adopt"}
      /\ UNCHANGED <<proc, cause, wrote, lock, status, posix, outcome>>
  BY DEF GraceOver, CancelPoints, FramePoints
<1>2. ui \in Session /\ (~ui.issued => ui.pending \/ Untouched(ui.live)) /\ ~ui.raised
  BY <1>1, InCancel
<1>3. CASE HandleDead /\ ui' = [ui EXCEPT !.at = "gate", !.graceful = TRUE] /\ UNCHANGED sent
  <2>1. /\ ui' \in Session /\ ui'.at = "gate" /\ ui'.live = ui.live /\ ui'.issued = ui.issued
        /\ ui'.pending = ui.pending /\ ui'.evidence = ui.evidence /\ ui'.covered = ui.covered
    BY <1>2, <1>3 DEF Session, FramePoints
  <2>2. ui'.at \in CancelPoints \ {"adopt", "cancel"}
    BY <2>1 DEF CancelPoints, FramePoints
  <2> QED
    BY <1>1, <1>2, <1>3, <2>1, <2>2, Advance
<1>4. CASE \/ Deliver("kill") /\ ui' = [ui EXCEPT !.at = "snapshot", !.issued = TRUE]
           \/ UNCHANGED sent /\ ui' = [ui EXCEPT !.at = "snapshot"]
  <2>1. /\ ui' \in Session /\ ui'.at = "snapshot" /\ ui'.live = ui.live /\ ~ui'.raised
        /\ ui'.pending = ui.pending /\ ui'.evidence = ui.evidence /\ ui'.covered = ui.covered
        /\ \/ Deliver("kill") /\ ui'.issued
           \/ UNCHANGED sent /\ ui'.issued = ui.issued
    BY <1>2, <1>4 DEF Session, FramePoints
  <2>2. ui'.at \in CancelPoints \ {"adopt", "cancel", "gate"}
    BY <2>1 DEF CancelPoints, FramePoints
  <2> QED
    BY <1>1, <1>2, <2>1, <2>2, Delivering, Advance
<1> QED
  BY <1>3, <1>4 DEF GraceOver

(* The kill.                                                               *)
LEMMA KillInv == ASSUME CancelInv, Kill PROVE CancelInv'
<1>1. /\ ui.at = "kill" /\ ui.at \in CancelPoints \ {"adopt"}
      /\ UNCHANGED <<proc, cause, wrote, lock, status, posix, outcome>>
  BY DEF Kill, CancelPoints, FramePoints
<1>2. /\ ui \in Session /\ (~ui.issued => ui.pending \/ Untouched(ui.live)) /\ ~ui.raised
      /\ ui.early => ui.live \in wrote
  BY <1>1, InCancel
<1>3. \/ Deliver("kill") /\ ui' = [ui EXCEPT !.at = "recheck"]
      \/ UNCHANGED sent /\ ui' = [ui EXCEPT !.at = "recheck", !.raised = TRUE]
      \/ UNCHANGED sent /\ ui' = [ui EXCEPT !.at = "recheck"]
  BY DEF Kill
<1>4. /\ ui' \in Session /\ ui'.at = "recheck" /\ ui'.live = ui.live /\ ui'.early = ui.early
      /\ ui'.pending = ui.pending /\ ui'.evidence = ui.evidence /\ ui'.covered = ui.covered
      /\ ui'.issued = ui.issued
      /\ (Deliver("kill") /\ ~ui'.raised) \/ UNCHANGED sent
  BY <1>2, <1>3 DEF Session, FramePoints
<1>5. ui'.at \in CancelPoints \ {"adopt", "cancel", "gate"}
  BY <1>4 DEF CancelPoints, FramePoints
<1> QED
  BY <1>1, <1>2, <1>4, <1>5, Delivering, Advance

(* A launch takes a handle nobody had.                                     *)
LEMMA LaunchInv == ASSUME CancelInv, NEW r \in UiRuns, Launch(r) PROVE CancelInv'
<1>1. /\ ui.at = "ready" /\ proc[r] = "off" /\ proc' = [proc EXCEPT ![r] = "boot"]
      /\ ui' = [ui EXCEPT !.at = "idle", !.covered = None, !.live = r, !.pending = FALSE]
      /\ UNCHANGED <<sent, cause, wrote, lock, status, posix, outcome>>
  BY DEF Launch
<1>2. /\ ui \in Session /\ proc \in [Runs -> {"off", "boot", "locked", "working", "closing", "dying", "dead"}]
      /\ r \in Runs /\ UiRuns \subseteq Runs /\ r # None
      /\ outcome.kind = "none" /\ ~outcome.recorded
  BY <1>1, CancelAssumption DEF CancelInv, CancelTypeOK, Runs, Answered
<1>3. /\ ui' \in Session /\ ui'.at = "idle" /\ ui'.live = r /\ ui'.evidence = ui.evidence /\ ui'.covered = None
      /\ \A q \in Runs : proc'[q] = IF q = r THEN "boot" ELSE proc[q]
      /\ proc' \in [Runs -> {"off", "boot", "locked", "working", "closing", "dying", "dead"}]
  BY <1>1, <1>2 DEF Session, FramePoints
<1>4. CancelTypeOK' /\ Recorded'
  BY <1>1, <1>3 DEF CancelInv, CancelTypeOK, Recorded
<1>5. Handled' /\ KnownDead'
  BY <1>1, <1>2, <1>3 DEF CancelInv, Handled, KnownDead, CancelPoints, Session
<1>6. Accounted'
  BY <1>1, <1>2, <1>3 DEF CancelInv, Accounted, Untouched, CancelPoints
<1>7. Answered'
  BY <1>1, <1>2 DEF CancelInv, Answered, AnswersAreEarned
<1> QED
  BY <1>4, <1>5, <1>6, <1>7 DEF CancelInv

(* Every step of the processes and of the page keeps the invariant.        *)
LEMMA CancelStep == CancelInv /\ [CancelNext]_cancelVars => CancelInv'
<1> SUFFICES ASSUME CancelInv, [CancelNext]_cancelVars PROVE CancelInv'
  OBVIOUS
<1>1. CASE UNCHANGED cancelVars
  BY <1>1 DEF cancelVars, CancelInv, CancelTypeOK, Recorded, Handled, HandleDead, Alive, KnownDead,
       Accounted, Untouched, Answered, AnswersAreEarned
<1>2. ASSUME NEW r \in Runs, ProcessStep(r) PROVE CancelInv'
  BY <1>2, ProcessProgress, ProgressInv
<1>3. ASSUME NEW r \in Scheduled, SchedulerStarts(r), UNCHANGED <<posix, ui, outcome>> PROVE CancelInv'
  <2>1. r \in Runs
    BY DEF Runs
  <2> QED
    BY <1>3, <2>1, ProcessProgress, ProgressInv
<1>4. ASSUME NEW r \in UiRuns, Launch(r) PROVE CancelInv'
  BY <1>4, LaunchInv
<1>5. CASE Frame
  BY <1>5, FrameReadsInv, FramePollsInv, SettleLateInv, FrameEndsInv DEF Frame
<1>6. CASE Confirm \/ SessionLost
  BY <1>6, ConfirmInv, SessionLostInv
<1>7. CASE CancelUpdate
  BY <1>7, CancelPollsInv, SendSigintInv, GraceOverInv, SnapshotBeforeKillInv, KillInv, RecheckAliveInv,
     RecheckDeadInv, WaitAfterKillInv, GateInv, AdoptInv DEF CancelUpdate
<1> QED
  BY <1>1, <1>2, <1>3, <1>4, <1>5, <1>6, <1>7 DEF CancelNext, PageStep

(* The invariant holds, whatever the signals and the sessions do.          *)
THEOREM CancelInvariant == CancelSpec => []CancelInv
<1> QED
  BY CancelInitInv, CancelStep, PTL DEF CancelSpec

(* Type correctness (UpdateCancel!CancelTypeOK).                           *)
THEOREM CancelTypes == CancelSpec => []CancelTypeOK
<1>1. CancelInv => CancelTypeOK
  BY DEF CancelInv
<1> QED
  BY <1>1, CancelInvariant, PTL

(* The record that the evidence covers is a dead run's (evidence_covers_   *)
(* record): a living run is neither shown as cancelled nor launched over.  *)
THEOREM EvidenceIsOfTheDead == CancelSpec => []EvidenceHidesOnlyTheDead
<1>1. CancelInv => EvidenceHidesOnlyTheDead
  <2> SUFFICES ASSUME CancelInv, NEW n \in {ui.evidence, ui.covered}, Covers(n, status)
               PROVE  ~Alive(status.run)
    BY DEF EvidenceHidesOnlyTheDead
  <2>1. n # None /\ proc[n] = "dead"
    BY DEF Covers, CancelInv, KnownDead
  <2>2. status.run = n
    BY <2>1 DEF Covers, Nonce
  <2> QED
    BY <2>1, <2>2 DEF Alive
<1> QED
  BY <1>1, CancelInvariant, PTL

(* What cancel_update answers is true of the run it was asked to cancel.   *)
THEOREM AnswersCanBeTrusted == CancelSpec => []AnswersAreEarned
<1>1. CancelInv => AnswersAreEarned
  BY DEF CancelInv, Answered
<1> QED
  BY <1>1, CancelInvariant, PTL
=============================================================================
