------------------------ MODULE RecommendRun_proofs ------------------------
(***************************************************************************)
(* Proofs about the run of the recommendation, for any number of updates,  *)
(* recommendations and artifacts: no update is inside while a tree the     *)
(* runner answers for still reads, and a publication that no other one     *)
(* disturbs is whole, undone, or reported name by name.                    *)
(***************************************************************************)
EXTENDS RecommendRun, SingleFlight_proofs

(* A tree exists from the spawn on, and has ended where its exit is judged.*)
Supervised ==
    \A r \in Recommends :
        /\ step[r] = "spawn" => child[r] = "none"
        /\ step[r] = "judge" => child[r] \in {"ok", "failed"}
        /\ Publishing(r) => child[r] = "ok"
        /\ child[r] = "reads" => pc[r] = "inside" \/ result[r] = "incomplete" \/ step[r] = "dead"

(* Of two publications that go on together, both are crowded; one that has *)
(* not begun has touched nothing; and what an undisturbed run finds in its *)
(* staging is its own.                                                     *)
Separate ==
    /\ \A r, s \in Recommends : r # s /\ Publishing(r) /\ Publishing(s) => r \in crowded
    /\ \A r \in Recommends :
         ~Publishing(r) /\ step[r] \notin {"over", "dead"} => pub[r] = NoPublication
    /\ \A r \in Recommends \ crowded, a \in Artifacts : staged[r][a] \in {r, Absent}

(* Where the versions of an artifact are while its publication is done or  *)
(* undone.                                                                 *)
Traced(r, a) ==
    LET p == pub[r] IN
    /\ a \in p.published =>
         /\ out[a] = r /\ a \notin p.residual
         /\ IF a \in p.saved THEN prior[r][a] = was[r][a] ELSE was[r][a] = Absent
    /\ a \notin p.published /\ a \notin p.residual =>
         IF a \in p.saved THEN out[a] = Absent /\ prior[r][a] = was[r][a] /\ staged[r][a] = r
         ELSE out[a] = was[r][a]
    /\ a \in p.residual =>
         /\ was[r][a] \in {prior[r][a], Absent}
         /\ \/ out[a] = r
            \/ out[a] = Absent /\ staged[r][a] = r /\ a \notin p.saved

(* How far the publication is.                                             *)
Progress(r) ==
    LET p == pub[r] IN
    /\ step[r] \in {"save", "move"} =>
         p.residual = {} /\ \A a \in p.published : a < p.next
    /\ step[r] = "save" => p.saved \subseteq p.published
    /\ step[r] = "move" =>
         /\ p.next \in Artifacts /\ staged[r][p.next] = r
         /\ p.saved \subseteq p.published \cup {p.next}
         /\ p.next \notin p.saved => out[p.next] = Absent
    /\ step[r] = "restore" => p.published = {}

Ledgered ==
    \A r \in Recommends \ crowded : Publishing(r) =>
        Progress(r) /\ \A a \in Artifacts : Traced(r, a)

RecommendInv == LockInv /\ RunnerTypeOK /\ Supervised /\ Separate /\ Ledgered

(* Before anything runs.                                                   *)
LEMMA RecommendInitInv == RecommendInit => RecommendInv
<1> SUFFICES ASSUME RecommendInit PROVE RecommendInv
  OBVIOUS
<1>1. LockInv
  BY LockInitInv DEF RecommendInit
<1>2. RunnerTypeOK
  <2>1. 1 \in 1..LastArtifact + 1
    BY RecommendAssumption
  <2>2. NoPublication \in [next : 1..LastArtifact + 1, published : SUBSET Artifacts,
                           saved : SUBSET Artifacts, residual : SUBSET Artifacts]
    BY <2>1 DEF NoPublication
  <2>3. Nothing \in [Artifacts -> Versions] /\ out \in [Artifacts -> Versions]
    BY DEF Nothing, Versions, RecommendInit
  <2> QED
    BY <2>2, <2>3 DEF RecommendInit, RunnerTypeOK
<1>3. Supervised
  BY DEF RecommendInit, Supervised, Publishing
<1>4. Separate
  BY DEF RecommendInit, Separate, Publishing, Nothing
<1>5. Ledgered
  BY DEF RecommendInit, Ledgered, Publishing
<1> QED
  BY <1>1, <1>2, <1>3, <1>4, <1>5 DEF RecommendInv

(* Whatever a recommendation does to the lock is a step of a run, or none. *)
LEMMA LocksAreSingleFlight == LockInv /\ [RecommendNext]_recommendVars => LockInv'
<1> SUFFICES ASSUME LockInv, [RecommendNext]_recommendVars PROVE LockInv'
  OBVIOUS
<1>1. [LockNext]_lockVars
  <2>1. CASE UNCHANGED recommendVars
    BY <2>1 DEF recommendVars
  <2>2. CASE \E r \in Runs : LockStep(r)
    BY <2>2 DEF LockStep, LockNext
  <2>3. CASE \E u \in Runs \ Recommends : Leave(u) \/ Kill(u)
    BY <2>3 DEF LockNext
  <2>4. ASSUME NEW r \in Recommends, Supervise(r) \/ ChildEnds(r) \/ Publish(r) \/ UiDies(r)
        PROVE  [LockNext]_lockVars
    <3>1. r \in Runs
      BY RecommendAssumption
    <3>2. CASE Supervise(r)
      BY <3>1, <3>2 DEF Supervise, Spawn, SpawnFails, WaitReturns, TimesOut, KillTree, Drain, LockNext
    <3>3. CASE Publish(r) \/ ChildEnds(r)
      BY <3>3 DEF Publish, ChildEnds, Fails, PublishesNothing, BeginPublish, SkipUnwritten, SavePrior,
         MoveNew, ReplaceFails, Published, Unpublish, AllUnpublished, Restore, RolledBack
    <3>4. CASE UiDies(r)
      BY <3>1, <3>4 DEF UiDies, LockNext
    <3> QED
      BY <2>4, <3>2, <3>3, <3>4
  <2> QED
    BY <2>1, <2>2, <2>3, <2>4 DEF RecommendNext
<1> QED
  BY <1>1, StartInv, TryLockInv, RefuseInv, EnterInv, SetupErrorInv, LeaveInv, UnlockInv,
     ExitInv, KillInv, LockStutterInv DEF LockNext, Acquisition, Release

(* A step of the lock that takes nobody out of the body who reads.         *)
LEMMA LockStepInv ==
    ASSUME RecommendInv, UNCHANGED <<readVars, fileVars>>,
           \A r \in Recommends : pc[r] = "inside" => pc'[r] = "inside"
    PROVE  RunnerTypeOK' /\ Supervised' /\ Separate' /\ Ledgered'
BY DEF RecommendInv, readVars, fileVars, RunnerTypeOK, Supervised, Separate, Ledgered, Publishing,
   Progress, Traced

(* A step of a run that publishes nothing, outside its publication.        *)
LEMMA QuietInv ==
    ASSUME RecommendInv, NEW r \in Recommends, ~Publishing(r),
           UNCHANGED <<out, prior, pub, was, crowded>>,
           NEW s \in {"wait", "kill", "drain", "judge", "spawn", "over"},
           step' = [step EXCEPT ![r] = s],
           s # "over" => step[r] \notin {"over", "dead"},
           \A q \in Recommends : q # r => staged'[q] = staged[q] /\ child'[q] = child[q],
           r \notin crowded => \A a \in Artifacts : staged'[r][a] \in {r, Absent}
    PROVE  Separate' /\ Ledgered'
<1>0. RunnerTypeOK /\ Separate /\ Ledgered
  BY DEF RecommendInv
<1>1. \A q \in Recommends : Publishing(q)' <=> Publishing(q)
  BY <1>0 DEF RunnerTypeOK, Publishing
<1>2. Separate'
  BY <1>0, <1>1 DEF RunnerTypeOK, Separate, Publishing
<1>3. Ledgered'
  <2> SUFFICES ASSUME NEW q \in Recommends \ crowded, Publishing(q)
               PROVE  Progress(q)' /\ \A a \in Artifacts : Traced(q, a)'
    BY <1>1 DEF Ledgered
  <2>1. /\ q # r /\ step'[q] = step[q] /\ staged'[q] = staged[q]
        /\ Progress(q) /\ \A a \in Artifacts : Traced(q, a)
    BY <1>0 DEF RunnerTypeOK, Ledgered
  <2> QED
    BY <2>1 DEF Progress, Traced
<1> QED
  BY <1>2, <1>3

(* The child is started, watched, killed and drained, all under the lock.  *)
LEMMA SuperviseInv ==
    ASSUME RecommendInv, NEW r \in Recommends, Supervise(r)
    PROVE  RunnerTypeOK' /\ Supervised' /\ Separate' /\ Ledgered'
<1>0. RunnerTypeOK /\ Supervised /\ Separate /\ r \in Runs
  BY RecommendAssumption DEF RecommendInv
<1>1. /\ UNCHANGED <<out, prior, pub, was, crowded>>
      /\ \A q \in Recommends : q # r => staged'[q] = staged[q] /\ child'[q] = child[q]
      /\ ~Publishing(r) /\ step[r] \notin {"over", "dead"}
      /\ \A q \in Runs : q # r => pc'[q] = pc[q]
      /\ \E s \in {"wait", "kill", "drain", "judge", "spawn", "over"} : step' = [step EXCEPT ![r] = s]
  BY <1>0 DEF Supervise, Spawn, SpawnFails, WaitReturns, TimesOut, KillTree, Drain, Leave, Goto, Returns,
     RunnerTypeOK, Publishing, fileVars, lockVars, RecommendInv, LockInv, LockTypeOK
<1>2. staged' = staged \/ staged' = [staged EXCEPT ![r] = Nothing]
  BY DEF Supervise, Spawn, SpawnFails, WaitReturns, TimesOut, KillTree, Drain, fileVars
<1>3. RunnerTypeOK'
  <2>1. Nothing \in [Artifacts -> Versions]
    BY DEF Nothing, Versions
  <2>2. staged' \in [Recommends -> [Artifacts -> Versions]]
    BY <1>0, <1>2, <2>1 DEF RunnerTypeOK
  <2>3. step' \in [Recommends -> {"spawn", "wait", "kill", "drain", "judge", "save", "move",
                                "unpublish", "restore", "over", "dead"}]
    BY <1>0, <1>1 DEF RunnerTypeOK
  <2>4. child' \in [Recommends -> {"none", "reads", "ok", "failed", "killed"}]
    BY <1>0 DEF RunnerTypeOK, Supervise, Spawn, SpawnFails, WaitReturns, TimesOut, KillTree, Drain
  <2>5. note' \in [Recommends -> BOOLEAN]
    BY <1>0 DEF RunnerTypeOK, Supervise, Spawn, SpawnFails, WaitReturns, TimesOut, KillTree, Drain
  <2>6. result' \in [Recommends -> {"none", "launch_failed", "timeout", "incomplete", "failed",
                                  "run_failed", "ok", "undone", "torn"}]
    BY <1>0 DEF RunnerTypeOK, Supervise, Spawn, SpawnFails, WaitReturns, TimesOut, KillTree, Drain, Returns
  <2> QED
    BY <1>0, <1>1, <2>2, <2>3, <2>4, <2>5, <2>6 DEF RunnerTypeOK
<1>4. Supervised'
  <2> SUFFICES ASSUME NEW q \in Recommends PROVE
        /\ step'[q] = "spawn" => child'[q] = "none"
        /\ step'[q] = "judge" => child'[q] \in {"ok", "failed"}
        /\ Publishing(q)' => child'[q] = "ok"
        /\ child'[q] = "reads" => pc'[q] = "inside" \/ result'[q] = "incomplete" \/ step'[q] = "dead"
    BY DEF Supervised
  <2>1. CASE q # r
    <3>1. step'[q] = step[q] /\ child'[q] = child[q] /\ pc'[q] = pc[q] /\ result'[q] = result[q]
      BY <1>0, <1>1, <2>1, RecommendAssumption DEF RunnerTypeOK, Supervise, Spawn, SpawnFails, WaitReturns,
         TimesOut, KillTree, Drain, Returns
    <3> QED
      BY <1>0, <3>1 DEF Supervised, Publishing
  <2>2. CASE q = r
    <3>1. CASE Spawn(r)
      BY <1>0, <2>2, <3>1 DEF Spawn, Goto, lockVars, RunnerTypeOK, Publishing
    <3>2. CASE SpawnFails(r)
      BY <1>0, <2>2, <3>2 DEF SpawnFails, Goto, Returns, RunnerTypeOK, Publishing, Supervised
    <3>3. CASE WaitReturns(r)
      BY <1>0, <2>2, <3>3 DEF WaitReturns, Goto, RunnerTypeOK, Publishing
    <3>4. CASE TimesOut(r)
      BY <1>0, <2>2, <3>4 DEF TimesOut, Goto, lockVars, RunnerTypeOK, Publishing
    <3>5. CASE KillTree(r)
      BY <1>0, <2>2, <3>5 DEF KillTree, Goto, lockVars, RunnerTypeOK, Publishing
    <3>6. CASE Drain(r)
      BY <1>0, <2>2, <3>6 DEF Drain, Goto, Returns, RunnerTypeOK, Publishing
    <3> QED
      BY <3>1, <3>2, <3>3, <3>4, <3>5, <3>6 DEF Supervise
  <2> QED
    BY <2>1, <2>2
<1>5. r \notin crowded => \A a \in Artifacts : staged'[r][a] \in {r, Absent}
  BY <1>0, <1>2 DEF RunnerTypeOK, Separate, Nothing
<1>6. Separate' /\ Ledgered'
  BY <1>1, <1>5, QuietInv
<1> QED
  BY <1>3, <1>4, <1>6

(* The tree ends, with what it wrote in the staging.                       *)
LEMMA ChildEndsInv ==
    ASSUME RecommendInv, NEW r \in Recommends, ChildEnds(r)
    PROVE  RunnerTypeOK' /\ Supervised' /\ Separate' /\ Ledgered'
<1>0. RunnerTypeOK /\ Supervised /\ Separate /\ Ledgered
  BY DEF RecommendInv
<1>1. /\ child[r] = "reads" /\ UNCHANGED <<pc, step, note, result, out, prior, pub, was, crowded>>
      /\ child' = [child EXCEPT ![r] = "ok"] \/ child' = [child EXCEPT ![r] = "failed"]
  BY DEF ChildEnds, lockVars
<1>2. /\ staged' \in [Recommends -> [Artifacts -> Versions]]
      /\ \A q \in Recommends : q # r => staged'[q] = staged[q]
      /\ r \notin crowded => \A a \in Artifacts : staged'[r][a] \in {r, Absent}
  <2>1. CASE UNCHANGED staged
    BY <1>0, <2>1 DEF RunnerTypeOK, Separate
  <2>2. ASSUME NEW wrote \in SUBSET Artifacts,
               staged' = [staged EXCEPT ![r] = [a \in Artifacts |-> IF a \in wrote THEN r ELSE Absent]]
        PROVE  /\ staged' \in [Recommends -> [Artifacts -> Versions]]
               /\ \A q \in Recommends : q # r => staged'[q] = staged[q]
               /\ r \notin crowded => \A a \in Artifacts : staged'[r][a] \in {r, Absent}
    <3>1. [a \in Artifacts |-> IF a \in wrote THEN r ELSE Absent] \in [Artifacts -> Versions]
      BY DEF Versions
    <3> QED
      BY <1>0, <2>2, <3>1 DEF RunnerTypeOK
  <2> QED
    BY <2>1, <2>2 DEF ChildEnds
<1>3. RunnerTypeOK'
  BY <1>0, <1>1, <1>2 DEF RunnerTypeOK
<1>4. ~Publishing(r) /\ \A q \in Recommends : Publishing(q)' <=> Publishing(q)
  BY <1>0, <1>1 DEF Supervised, Publishing
<1>5. Supervised'
  BY <1>0, <1>1, <1>4 DEF Supervised, RunnerTypeOK
<1>6. Separate'
  BY <1>0, <1>1, <1>2, <1>4 DEF Separate
<1>7. Ledgered'
  <2> SUFFICES ASSUME NEW q \in Recommends \ crowded, Publishing(q)
               PROVE  Progress(q)' /\ \A a \in Artifacts : Traced(q, a)'
    BY <1>1, <1>4 DEF Ledgered
  <2>1. q # r /\ staged'[q] = staged[q] /\ Progress(q) /\ \A a \in Artifacts : Traced(q, a)
    BY <1>0, <1>2, <1>4 DEF Ledgered
  <2> QED
    BY <1>1, <2>1 DEF Progress, Traced
<1> QED
  BY <1>3, <1>5, <1>6, <1>7

(* What is judged after the release: nothing is published.                 *)
LEMMA JudgeInv ==
    ASSUME RecommendInv, NEW r \in Recommends, Fails(r) \/ PublishesNothing(r)
    PROVE  RunnerTypeOK' /\ Supervised' /\ Separate' /\ Ledgered'
<1>0. RunnerTypeOK /\ Supervised /\ Separate
  BY DEF RecommendInv
<1>1. /\ UNCHANGED <<pc, child, note, out, prior, pub, was, crowded>>
      /\ step[r] = "judge" /\ step' = [step EXCEPT ![r] = "over"]
      /\ result' = [result EXCEPT ![r] = "failed"] \/ result' = [result EXCEPT ![r] = "run_failed"]
      /\ staged' = staged \/ staged' = [staged EXCEPT ![r] = Nothing]
  BY DEF Fails, PublishesNothing, Returns, Goto, lockVars, fileVars
<1>2. Nothing \in [Artifacts -> Versions]
  BY DEF Nothing, Versions
<1>3. RunnerTypeOK'
  <2>1. step' \in [Recommends -> {"spawn", "wait", "kill", "drain", "judge", "save", "move",
                                "unpublish", "restore", "over", "dead"}]
    BY <1>0, <1>1 DEF RunnerTypeOK
  <2>2. result' \in [Recommends -> {"none", "launch_failed", "timeout", "incomplete", "failed",
                                  "run_failed", "ok", "undone", "torn"}]
    BY <1>0, <1>1 DEF RunnerTypeOK
  <2>3. staged' \in [Recommends -> [Artifacts -> Versions]]
    BY <1>0, <1>1, <1>2 DEF RunnerTypeOK
  <2> QED
    BY <1>0, <1>1, <2>1, <2>2, <2>3 DEF RunnerTypeOK
<1>4. Supervised'
  BY <1>0, <1>1 DEF RunnerTypeOK, Supervised, Publishing
<1>5. /\ ~Publishing(r)
      /\ \A q \in Recommends : q # r => staged'[q] = staged[q] /\ child'[q] = child[q]
      /\ r \notin crowded => \A a \in Artifacts : staged'[r][a] \in {r, Absent}
  BY <1>0, <1>1 DEF RunnerTypeOK, Separate, Nothing, Publishing
<1>6. Separate' /\ Ledgered'
  BY <1>1, <1>5, QuietInv
<1> QED
  BY <1>3, <1>4, <1>6

(* The publication begins: nobody else's goes on, or it is crowded.        *)
LEMMA BeginPublishInv ==
    ASSUME RecommendInv, NEW r \in Recommends, BeginPublish(r)
    PROVE  RunnerTypeOK' /\ Supervised' /\ Separate' /\ Ledgered'
<1>0. RunnerTypeOK /\ Supervised /\ Separate /\ Ledgered
  BY DEF RecommendInv
<1>1. /\ UNCHANGED <<pc, child, note, result, out, staged, prior, pub>>
      /\ step[r] = "judge" /\ step' = [step EXCEPT ![r] = "save"] /\ child[r] = "ok"
      /\ was' = [was EXCEPT ![r] = out]
  BY DEF BeginPublish, Goto, lockVars
<1>2. /\ crowded \subseteq crowded' /\ crowded' \subseteq Recommends
      /\ \A q \in Recommends \ {r} : Publishing(q) => {q, r} \subseteq crowded'
  BY <1>0 DEF BeginPublish, RunnerTypeOK
<1>3. RunnerTypeOK'
  BY <1>0, <1>1, <1>2 DEF RunnerTypeOK
<1>4. Supervised'
  BY <1>0, <1>1 DEF RunnerTypeOK, Supervised, Publishing
<1>5. /\ ~Publishing(r) /\ Publishing(r)'
      /\ \A q \in Recommends : q # r => (Publishing(q)' <=> Publishing(q)) /\ step'[q] = step[q]
  BY <1>0, <1>1 DEF RunnerTypeOK, Publishing
<1>6. Separate'
  BY <1>0, <1>1, <1>2, <1>5 DEF Separate
<1>7. Ledgered'
  <2> SUFFICES ASSUME NEW q \in Recommends \ crowded', Publishing(q)'
               PROVE  Progress(q)' /\ \A a \in Artifacts : Traced(q, a)'
    BY DEF Ledgered
  <2>1. q = r
    BY <1>2, <1>5
  <2>2. pub'[r] = NoPublication /\ step'[r] = "save" /\ was'[r] = out
    BY <1>0, <1>1, <1>5 DEF RunnerTypeOK, Separate
  <2> QED
    BY <1>1, <2>1, <2>2 DEF Progress, Traced, NoPublication
<1> QED
  BY <1>3, <1>4, <1>6, <1>7

(* A step inside a publication concerns its own run alone: there is no     *)
(* other publication, or this one is crowded.                              *)
LEMMA PublishStepInv ==
    ASSUME RecommendInv, NEW r \in Recommends, Publishing(r), RunnerTypeOK',
           UNCHANGED <<lockVars, child, was, crowded>>,
           \A q \in Recommends : q # r =>
              step'[q] = step[q] /\ staged'[q] = staged[q] /\ pub'[q] = pub[q] /\ result'[q] = result[q],
           step'[r] \in {"save", "move", "unpublish", "restore", "over"},
           r \notin crowded => \A a \in Artifacts : staged'[r][a] \in {r, Absent},
           r \notin crowded /\ Publishing(r)' => Progress(r)' /\ \A a \in Artifacts : Traced(r, a)'
    PROVE  Supervised' /\ Separate' /\ Ledgered'
<1>0. Supervised /\ Separate /\ Ledgered
  BY DEF RecommendInv
<1>1. \A q \in Recommends : q # r => (Publishing(q)' <=> Publishing(q))
  BY DEF Publishing
<1>2. Supervised'
  BY <1>0, <1>1 DEF Supervised, lockVars
<1>3. Separate'
  BY <1>0, <1>1 DEF Separate, Publishing
<1>4. Ledgered'
  BY <1>0, <1>1 DEF Ledgered, Separate
<1> QED
  BY <1>2, <1>3, <1>4

(* The step goes on to another label of the publication and leaves every   *)
(* file alone.                                                             *)
LEMMA TurnInv ==
    ASSUME RecommendInv, NEW r \in Recommends, ReplaceFails(r) \/ AllUnpublished(r) \/ RolledBack(r)
    PROVE  RunnerTypeOK' /\ Supervised' /\ Separate' /\ Ledgered'
<1>0. RunnerTypeOK /\ Separate /\ Ledgered
  BY DEF RecommendInv
<1>1. /\ UNCHANGED <<lockVars, child, note, out, staged, prior, pub, was, crowded>> /\ Publishing(r)
      /\ \E s \in {"unpublish", "restore", "over"} : step' = [step EXCEPT ![r] = s]
      /\ step'[r] = "restore" => pub[r].published = {}
      /\ \/ result' = result
         \/ \E k \in {"undone", "torn"} : result' = [result EXCEPT ![r] = k]
  BY <1>0 DEF ReplaceFails, AllUnpublished, RolledBack, Goto, Returns, fileVars, Publishing, RunnerTypeOK
<1>2. RunnerTypeOK'
  <2>1. step' \in [Recommends -> {"spawn", "wait", "kill", "drain", "judge", "save", "move",
                                "unpublish", "restore", "over", "dead"}]
    BY <1>0, <1>1 DEF RunnerTypeOK
  <2>2. result' \in [Recommends -> {"none", "launch_failed", "timeout", "incomplete", "failed",
                                  "run_failed", "ok", "undone", "torn"}]
    BY <1>0, <1>1 DEF RunnerTypeOK
  <2> QED
    BY <1>0, <1>1, <2>1, <2>2 DEF RunnerTypeOK
<1>3. step'[r] \in {"unpublish", "restore", "over"}
  BY <1>0, <1>1 DEF RunnerTypeOK
<1>4. r \notin crowded /\ Publishing(r)' => Progress(r)' /\ \A a \in Artifacts : Traced(r, a)'
  BY <1>0, <1>1, <1>3 DEF Ledgered, Progress, Traced
<1>5. /\ \A q \in Recommends : q # r =>
            step'[q] = step[q] /\ staged'[q] = staged[q] /\ pub'[q] = pub[q] /\ result'[q] = result[q]
      /\ r \notin crowded => \A a \in Artifacts : staged'[r][a] \in {r, Absent}
  BY <1>0, <1>1 DEF RunnerTypeOK, Separate
<1> QED
  BY <1>1, <1>2, <1>3, <1>4, <1>5, PublishStepInv

(* A publication that succeeded empties its staging and its ledger.        *)
LEMMA PublishedInv ==
    ASSUME RecommendInv, NEW r \in Recommends, Published(r)
    PROVE  RunnerTypeOK' /\ Supervised' /\ Separate' /\ Ledgered'
<1>0. RunnerTypeOK
  BY DEF RecommendInv
<1>1. /\ UNCHANGED <<lockVars, child, note, out, pub, was, crowded>> /\ Publishing(r)
      /\ step' = [step EXCEPT ![r] = "over"] /\ result' = [result EXCEPT ![r] = "ok"]
      /\ staged' = [staged EXCEPT ![r] = Nothing] /\ prior' = [prior EXCEPT ![r] = Nothing]
  BY DEF Published, Returns, Goto, Publishing
<1>2. Nothing \in [Artifacts -> Versions]
  BY DEF Nothing, Versions
<1>3. RunnerTypeOK'
  BY <1>0, <1>1, <1>2 DEF RunnerTypeOK
<1>4. /\ \A q \in Recommends : q # r =>
            step'[q] = step[q] /\ staged'[q] = staged[q] /\ pub'[q] = pub[q] /\ result'[q] = result[q]
      /\ r \notin crowded => \A a \in Artifacts : staged'[r][a] \in {r, Absent}
      /\ step'[r] = "over" /\ ~Publishing(r)'
  BY <1>0, <1>1 DEF RunnerTypeOK, Nothing, Publishing
<1> QED
  BY <1>1, <1>3, <1>4, PublishStepInv

(* A step inside the publication that moves one file, or skips one: the    *)
(* types of what it changes, and the traces of the other files.            *)
LEMMA MovesOne ==
    ASSUME RecommendInv, NEW r \in Recommends, Publishing(r), NEW a \in Artifacts, r \notin crowded,
           was' = was, Traced(r, a)',
           \A b \in Artifacts : b # a =>
             /\ out'[b] = out[b] /\ staged'[r][b] = staged[r][b] /\ prior'[r][b] = prior[r][b]
             /\ b \in pub'[r].published <=> b \in pub[r].published
             /\ b \in pub'[r].saved <=> b \in pub[r].saved
             /\ b \in pub'[r].residual <=> b \in pub[r].residual
    PROVE  \A b \in Artifacts : Traced(r, b)'
<1>1. \A b \in Artifacts : Traced(r, b)
  BY DEF RecommendInv, Ledgered
<1>2. SUFFICES ASSUME NEW b \in Artifacts, b # a PROVE Traced(r, b)'
  OBVIOUS
<1> QED
  BY <1>1, <1>2 DEF Traced

(* The loop skips a file that was not written.                             *)
LEMMA SkipUnwrittenInv ==
    ASSUME RecommendInv, NEW r \in Recommends, SkipUnwritten(r)
    PROVE  RunnerTypeOK' /\ Supervised' /\ Separate' /\ Ledgered'
<1>0. RunnerTypeOK /\ Separate /\ Ledgered /\ LastArtifact \in Nat
  BY RecommendAssumption DEF RecommendInv
<1>1. /\ UNCHANGED <<lockVars, step, child, note, result, out, staged, prior, was, crowded>>
      /\ step[r] = "save" /\ Publishing(r) /\ pub[r].next \in Artifacts
      /\ pub' = [pub EXCEPT ![r].next = @ + 1]
  BY DEF SkipUnwritten, NextFile, Publishing, readVars
<1>2. /\ pub[r] \in [next : 1..LastArtifact + 1, published : SUBSET Artifacts,
                     saved : SUBSET Artifacts, residual : SUBSET Artifacts]
      /\ pub[r].next + 1 \in 1..LastArtifact + 1 /\ pub[r].next \in Nat
  BY <1>0, <1>1 DEF RunnerTypeOK, Artifacts
<1>3. /\ pub'[r].next = pub[r].next + 1 /\ pub'[r].published = pub[r].published
      /\ pub'[r].saved = pub[r].saved /\ pub'[r].residual = pub[r].residual
      /\ pub' \in [Recommends -> [next : 1..LastArtifact + 1, published : SUBSET Artifacts,
                                  saved : SUBSET Artifacts, residual : SUBSET Artifacts]]
      /\ \A q \in Recommends : q # r => pub'[q] = pub[q]
  BY <1>0, <1>1, <1>2 DEF RunnerTypeOK
<1>4. RunnerTypeOK'
  BY <1>0, <1>1, <1>3 DEF RunnerTypeOK
<1>5. ASSUME r \notin crowded PROVE Progress(r)' /\ \A a \in Artifacts : Traced(r, a)'
  <2>1. Progress(r) /\ \A a \in Artifacts : Traced(r, a)
    BY <1>0, <1>1, <1>5 DEF Ledgered
  <2>2. \A a \in pub[r].published : a \in Nat
    BY <1>2 DEF Artifacts
  <2>3. Progress(r)'
    BY <1>1, <1>2, <1>3, <2>1, <2>2 DEF Progress
  <2>4. \A a \in Artifacts : Traced(r, a)'
    BY <1>1, <1>3, <2>1 DEF Traced
  <2> QED
    BY <2>3, <2>4
<1>6. r \notin crowded => \A a \in Artifacts : staged'[r][a] \in {r, Absent}
  BY <1>0, <1>1 DEF Separate
<1> QED
  BY <1>1, <1>3, <1>4, <1>5, <1>6, PublishStepInv

(* The old version goes to the ledger, or there is none.                   *)
LEMMA SavePriorInv ==
    ASSUME RecommendInv, NEW r \in Recommends, SavePrior(r)
    PROVE  RunnerTypeOK' /\ Supervised' /\ Separate' /\ Ledgered'
<1>0. RunnerTypeOK /\ Separate /\ Ledgered /\ Absent \in Versions
  BY DEF RecommendInv, Versions
<1> PICK a \in Artifacts :
      /\ NextFile(r, a) /\ staged[r][a] # Absent
      /\ IF out[a] = Absent THEN UNCHANGED <<out, prior, pub>>
         ELSE /\ prior' = [prior EXCEPT ![r][a] = out[a]]
              /\ out' = [out EXCEPT ![a] = Absent]
              /\ pub' = [pub EXCEPT ![r].saved = @ \cup {a}]
  BY DEF SavePrior
<1>1. /\ UNCHANGED <<lockVars, child, note, result, staged, was, crowded>>
      /\ step[r] = "save" /\ Publishing(r) /\ pub[r].next = a
      /\ step' = [step EXCEPT ![r] = "move"] /\ step'[r] = "move"
  BY <1>0 DEF SavePrior, NextFile, Publishing, Goto, RunnerTypeOK
<1>2. pub[r] \in [next : 1..LastArtifact + 1, published : SUBSET Artifacts,
                  saved : SUBSET Artifacts, residual : SUBSET Artifacts]
  BY <1>0 DEF RunnerTypeOK
<1>3. CASE out[a] = Absent
  <2>1. UNCHANGED <<out, prior, pub>>
    BY <1>3
  <2>2. RunnerTypeOK'
    BY <1>0, <1>1, <2>1 DEF RunnerTypeOK
  <2>3. ASSUME r \notin crowded PROVE Progress(r)' /\ \A b \in Artifacts : Traced(r, b)'
    <3>1. Progress(r) /\ \A b \in Artifacts : Traced(r, b)
      BY <1>0, <1>1, <2>3 DEF Ledgered
    <3>2. staged[r][a] = r
      BY <1>0, <2>3 DEF Separate
    <3> QED
      BY <1>1, <1>3, <2>1, <3>1, <3>2 DEF Progress, Traced
  <2>4. /\ \A q \in Recommends : q # r =>
              step'[q] = step[q] /\ staged'[q] = staged[q] /\ pub'[q] = pub[q] /\ result'[q] = result[q]
        /\ r \notin crowded => \A b \in Artifacts : staged'[r][b] \in {r, Absent}
    BY <1>0, <1>1, <2>1 DEF RunnerTypeOK, Separate
  <2> QED
    BY <1>1, <2>2, <2>3, <2>4, PublishStepInv
<1>4. CASE out[a] # Absent
  <2>1. /\ prior' = [prior EXCEPT ![r][a] = out[a]]
        /\ out' = [out EXCEPT ![a] = Absent]
        /\ pub' = [pub EXCEPT ![r].saved = @ \cup {a}]
    BY <1>4
  <2>2. /\ pub'[r].next = a /\ pub'[r].published = pub[r].published
        /\ pub'[r].saved = pub[r].saved \cup {a} /\ pub'[r].residual = pub[r].residual
        /\ pub' \in [Recommends -> [next : 1..LastArtifact + 1, published : SUBSET Artifacts,
                                    saved : SUBSET Artifacts, residual : SUBSET Artifacts]]
        /\ \A q \in Recommends : q # r => pub'[q] = pub[q]
    BY <1>0, <1>1, <1>2, <2>1 DEF RunnerTypeOK
  <2>3. /\ out'[a] = Absent /\ prior'[r][a] = out[a]
        /\ \A b \in Artifacts : b # a => out'[b] = out[b] /\ prior'[r][b] = prior[r][b]
        /\ out' \in [Artifacts -> Versions] /\ prior' \in [Recommends -> [Artifacts -> Versions]]
    BY <1>0, <2>1 DEF RunnerTypeOK
  <2>4. RunnerTypeOK'
    BY <1>0, <1>1, <2>2, <2>3 DEF RunnerTypeOK
  <2>5. ASSUME r \notin crowded PROVE Progress(r)' /\ \A b \in Artifacts : Traced(r, b)'
    <3>1. Progress(r) /\ Traced(r, a)
      BY <1>0, <1>1, <2>5 DEF Ledgered
    <3>2. staged[r][a] = r
      BY <1>0, <2>5 DEF Separate
    <3>3. a \notin pub[r].published /\ pub[r].residual = {} /\ pub[r].saved \subseteq pub[r].published
      BY <1>1, <3>1 DEF Progress, Artifacts
    <3>4. Traced(r, a)'
      BY <1>1, <2>2, <2>3, <3>1, <3>2, <3>3 DEF Traced
    <3>5. Progress(r)'
      BY <1>1, <2>2, <3>1, <3>2, <3>3 DEF Progress
    <3>6. \A b \in Artifacts : Traced(r, b)'
      BY <1>1, <2>2, <2>3, <2>5, <3>4, MovesOne
    <3> QED
      BY <3>5, <3>6
  <2>6. /\ \A q \in Recommends : q # r =>
              step'[q] = step[q] /\ staged'[q] = staged[q] /\ pub'[q] = pub[q] /\ result'[q] = result[q]
        /\ r \notin crowded => \A b \in Artifacts : staged'[r][b] \in {r, Absent}
    BY <1>0, <1>1, <2>2 DEF RunnerTypeOK, Separate
  <2> QED
    BY <1>1, <2>4, <2>5, <2>6, PublishStepInv
<1> QED
  BY <1>3, <1>4

(* The new version goes to its place.                                      *)
LEMMA MoveNewInv ==
    ASSUME RecommendInv, NEW r \in Recommends, MoveNew(r)
    PROVE  RunnerTypeOK' /\ Supervised' /\ Separate' /\ Ledgered'
<1>0. RunnerTypeOK /\ Separate /\ Ledgered /\ LastArtifact \in Nat /\ Absent \in Versions
  BY RecommendAssumption DEF RecommendInv, Versions
<1> PICK a \in Artifacts :
      /\ NextFile(r, a)
      /\ out' = [out EXCEPT ![a] = staged[r][a]]
      /\ staged' = [staged EXCEPT ![r][a] = Absent]
      /\ pub' = [pub EXCEPT ![r].published = @ \cup {a}, ![r].next = @ + 1]
  BY DEF MoveNew
<1>1. /\ UNCHANGED <<lockVars, child, note, result, prior, was, crowded>>
      /\ step[r] = "move" /\ Publishing(r) /\ pub[r].next = a
      /\ step' = [step EXCEPT ![r] = "save"] /\ step'[r] = "save"
  BY <1>0 DEF MoveNew, NextFile, Publishing, Goto, RunnerTypeOK
<1>2. pub[r] \in [next : 1..LastArtifact + 1, published : SUBSET Artifacts,
                  saved : SUBSET Artifacts, residual : SUBSET Artifacts]
  BY <1>0 DEF RunnerTypeOK
<1>3. a \in Nat /\ a + 1 \in 1..LastArtifact + 1 /\ \A b \in Artifacts : b \in Nat
  BY <1>0 DEF Artifacts
<1>4. /\ pub'[r].next = a + 1 /\ pub'[r].published = pub[r].published \cup {a}
      /\ pub'[r].saved = pub[r].saved /\ pub'[r].residual = pub[r].residual
      /\ pub' \in [Recommends -> [next : 1..LastArtifact + 1, published : SUBSET Artifacts,
                                  saved : SUBSET Artifacts, residual : SUBSET Artifacts]]
      /\ \A q \in Recommends : q # r => pub'[q] = pub[q]
  BY <1>0, <1>1, <1>2, <1>3 DEF RunnerTypeOK
<1>5. /\ out'[a] = staged[r][a] /\ staged'[r][a] = Absent
      /\ \A b \in Artifacts : b # a => out'[b] = out[b] /\ staged'[r][b] = staged[r][b]
      /\ \A q \in Recommends : q # r => staged'[q] = staged[q]
      /\ out' \in [Artifacts -> Versions] /\ staged' \in [Recommends -> [Artifacts -> Versions]]
  BY <1>0 DEF RunnerTypeOK
<1>6. RunnerTypeOK'
  BY <1>0, <1>1, <1>4, <1>5 DEF RunnerTypeOK
<1>7. ASSUME r \notin crowded PROVE Progress(r)' /\ \A b \in Artifacts : Traced(r, b)'
  <2>1. Progress(r) /\ Traced(r, a)
    BY <1>0, <1>1, <1>7 DEF Ledgered
  <2>2. /\ a \notin pub[r].published /\ pub[r].residual = {} /\ staged[r][a] = r
        /\ pub[r].saved \subseteq pub[r].published \cup {a}
        /\ a \notin pub[r].saved => out[a] = Absent
        /\ \A b \in pub[r].published : b < a /\ b \in Nat
    BY <1>1, <1>2, <1>3, <2>1 DEF Progress
  <2>3. Traced(r, a)'
    BY <1>1, <1>4, <1>5, <2>1, <2>2 DEF Traced
  <2>4. Progress(r)'
    BY <1>1, <1>3, <1>4, <2>2 DEF Progress
  <2>5. \A b \in Artifacts : Traced(r, b)'
    BY <1>1, <1>4, <1>5, <1>7, <2>3, MovesOne
  <2> QED
    BY <2>4, <2>5
<1>8. /\ \A q \in Recommends : q # r =>
            step'[q] = step[q] /\ staged'[q] = staged[q] /\ pub'[q] = pub[q] /\ result'[q] = result[q]
      /\ r \notin crowded => \A b \in Artifacts : staged'[r][b] \in {r, Absent}
  BY <1>0, <1>1, <1>4, <1>5 DEF RunnerTypeOK, Separate
<1> QED
  BY <1>1, <1>6, <1>7, <1>8, PublishStepInv

(* A new version goes back to the staging, or stays where it is.           *)
LEMMA UnpublishInv ==
    ASSUME RecommendInv, NEW r \in Recommends, Unpublish(r)
    PROVE  RunnerTypeOK' /\ Supervised' /\ Separate' /\ Ledgered'
<1>0. RunnerTypeOK /\ Separate /\ Ledgered /\ Absent \in Versions
  BY DEF RecommendInv, Versions
<1> PICK a \in Artifacts :
      /\ First(a, pub[r].published)
      /\ \/ /\ out[a] # Absent
            /\ staged' = [staged EXCEPT ![r][a] = out[a]]
            /\ out' = [out EXCEPT ![a] = Absent]
            /\ pub' = [pub EXCEPT ![r].published = @ \ {a}]
         \/ /\ pub' = [pub EXCEPT ![r].published = @ \ {a}, ![r].residual = @ \cup {a}]
            /\ UNCHANGED <<out, staged>>
  BY DEF Unpublish
<1>1. /\ UNCHANGED <<lockVars, step, child, note, result, prior, was, crowded>>
      /\ step[r] = "unpublish" /\ Publishing(r) /\ a \in pub[r].published
  BY DEF Unpublish, First, Publishing, readVars
<1>2. pub[r] \in [next : 1..LastArtifact + 1, published : SUBSET Artifacts,
                  saved : SUBSET Artifacts, residual : SUBSET Artifacts]
  BY <1>0 DEF RunnerTypeOK
<1>3. r \notin crowded => Progress(r) /\ Traced(r, a)
  BY <1>0, <1>1 DEF Ledgered
<1>4. CASE /\ staged' = [staged EXCEPT ![r][a] = out[a]]
           /\ out' = [out EXCEPT ![a] = Absent]
           /\ pub' = [pub EXCEPT ![r].published = @ \ {a}]
  <2>1. /\ pub'[r].published = pub[r].published \ {a} /\ pub'[r].next = pub[r].next
        /\ pub'[r].saved = pub[r].saved /\ pub'[r].residual = pub[r].residual
        /\ pub' \in [Recommends -> [next : 1..LastArtifact + 1, published : SUBSET Artifacts,
                                  saved : SUBSET Artifacts, residual : SUBSET Artifacts]]
        /\ \A q \in Recommends : q # r => pub'[q] = pub[q]
    BY <1>0, <1>2, <1>4 DEF RunnerTypeOK
  <2>2. /\ out'[a] = Absent /\ staged'[r][a] = out[a]
        /\ \A b \in Artifacts : b # a => out'[b] = out[b] /\ staged'[r][b] = staged[r][b]
        /\ \A q \in Recommends : q # r => staged'[q] = staged[q]
        /\ out' \in [Artifacts -> Versions] /\ staged' \in [Recommends -> [Artifacts -> Versions]]
    BY <1>0, <1>4 DEF RunnerTypeOK
  <2>3. RunnerTypeOK'
    BY <1>0, <1>1, <2>1, <2>2 DEF RunnerTypeOK
  <2>4. ASSUME r \notin crowded PROVE Progress(r)' /\ \A b \in Artifacts : Traced(r, b)'
    <3>1. Traced(r, a)'
      BY <1>1, <1>3, <2>1, <2>2, <2>4 DEF Traced
    <3>2. \A b \in Artifacts : Traced(r, b)'
      BY <1>1, <2>1, <2>2, <2>4, <3>1, MovesOne
    <3> QED
      BY <1>1, <3>2 DEF Progress
  <2>5. /\ \A q \in Recommends : q # r =>
              step'[q] = step[q] /\ staged'[q] = staged[q] /\ pub'[q] = pub[q] /\ result'[q] = result[q]
        /\ r \notin crowded => \A b \in Artifacts : staged'[r][b] \in {r, Absent}
    BY <1>0, <1>1, <1>3, <2>1, <2>2 DEF Separate, Traced
  <2> QED
    BY <1>1, <2>3, <2>4, <2>5, PublishStepInv
<1>5. CASE /\ pub' = [pub EXCEPT ![r].published = @ \ {a}, ![r].residual = @ \cup {a}]
           /\ UNCHANGED <<out, staged>>
  <2>1. /\ pub'[r].published = pub[r].published \ {a} /\ pub'[r].next = pub[r].next
        /\ pub'[r].saved = pub[r].saved /\ pub'[r].residual = pub[r].residual \cup {a}
        /\ pub' \in [Recommends -> [next : 1..LastArtifact + 1, published : SUBSET Artifacts,
                                  saved : SUBSET Artifacts, residual : SUBSET Artifacts]]
        /\ \A q \in Recommends : q # r => pub'[q] = pub[q]
    <3> DEFINE p == [pub[r] EXCEPT !.published = @ \ {a}, !.residual = @ \cup {a}]
    <3>1. pub' = [pub EXCEPT ![r] = p]
      BY <1>5
    <3>2. /\ p.next = pub[r].next /\ p.published = pub[r].published \ {a}
          /\ p.saved = pub[r].saved /\ p.residual = pub[r].residual \cup {a}
      BY <1>2
    <3>3. p \in [next : 1..LastArtifact + 1, published : SUBSET Artifacts,
                 saved : SUBSET Artifacts, residual : SUBSET Artifacts]
      BY <1>2
    <3>4. pub'[r] = p /\ \A q \in Recommends : q # r => pub'[q] = pub[q]
      BY <1>0, <3>1 DEF RunnerTypeOK
    <3> QED
      BY <1>0, <3>1, <3>2, <3>3, <3>4 DEF RunnerTypeOK
  <2>2. RunnerTypeOK'
    BY <1>0, <1>1, <1>5, <2>1 DEF RunnerTypeOK
  <2>3. ASSUME r \notin crowded PROVE Progress(r)' /\ \A b \in Artifacts : Traced(r, b)'
    <3>1. Traced(r, a)'
      BY <1>1, <1>3, <1>5, <2>1, <2>3 DEF Traced
    <3>2. \A b \in Artifacts : Traced(r, b)'
      BY <1>1, <1>5, <2>1, <2>3, <3>1, MovesOne
    <3> QED
      BY <1>1, <3>2 DEF Progress
  <2>4. /\ \A q \in Recommends : q # r =>
              step'[q] = step[q] /\ staged'[q] = staged[q] /\ pub'[q] = pub[q] /\ result'[q] = result[q]
        /\ r \notin crowded => \A b \in Artifacts : staged'[r][b] \in {r, Absent}
    BY <1>0, <1>1, <1>5, <2>1 DEF Separate
  <2> QED
    BY <1>1, <2>2, <2>3, <2>4, PublishStepInv
<1> QED
  BY <1>4, <1>5

(* An old version goes back to its place, or stays in the ledger.          *)
LEMMA RestoreInv ==
    ASSUME RecommendInv, NEW r \in Recommends, Restore(r)
    PROVE  RunnerTypeOK' /\ Supervised' /\ Separate' /\ Ledgered'
<1>0. RunnerTypeOK /\ Separate /\ Ledgered /\ Absent \in Versions
  BY DEF RecommendInv, Versions
<1> PICK a \in Artifacts :
      /\ First(a, pub[r].saved)
      /\ \/ /\ a \notin pub[r].residual
            /\ out' = [out EXCEPT ![a] = prior[r][a]]
            /\ prior' = [prior EXCEPT ![r][a] = Absent]
            /\ pub' = [pub EXCEPT ![r].saved = @ \ {a}]
         \/ /\ pub' = [pub EXCEPT ![r].saved = @ \ {a}, ![r].residual = @ \cup {a}]
            /\ UNCHANGED <<out, prior>>
  BY DEF Restore
<1>1. /\ UNCHANGED <<lockVars, step, child, note, result, staged, was, crowded>>
      /\ step[r] = "restore" /\ Publishing(r) /\ a \in pub[r].saved
  BY DEF Restore, First, Publishing, readVars
<1>2. pub[r] \in [next : 1..LastArtifact + 1, published : SUBSET Artifacts,
                  saved : SUBSET Artifacts, residual : SUBSET Artifacts]
  BY <1>0 DEF RunnerTypeOK
<1>3. r \notin crowded => Progress(r) /\ Traced(r, a) /\ a \notin pub[r].published
  BY <1>0, <1>1 DEF Ledgered, Progress
<1>4. /\ \A q \in Recommends : q # r => step'[q] = step[q] /\ staged'[q] = staged[q] /\ result'[q] = result[q]
      /\ r \notin crowded => \A b \in Artifacts : staged'[r][b] \in {r, Absent}
  BY <1>0, <1>1 DEF Separate
<1>5. CASE /\ a \notin pub[r].residual
           /\ out' = [out EXCEPT ![a] = prior[r][a]]
           /\ prior' = [prior EXCEPT ![r][a] = Absent]
           /\ pub' = [pub EXCEPT ![r].saved = @ \ {a}]
  <2>1. /\ pub'[r].published = pub[r].published /\ pub'[r].next = pub[r].next
        /\ pub'[r].saved = pub[r].saved \ {a} /\ pub'[r].residual = pub[r].residual
        /\ pub' \in [Recommends -> [next : 1..LastArtifact + 1, published : SUBSET Artifacts,
                                  saved : SUBSET Artifacts, residual : SUBSET Artifacts]]
        /\ \A q \in Recommends : q # r => pub'[q] = pub[q]
    BY <1>0, <1>2, <1>5 DEF RunnerTypeOK
  <2>2. /\ out'[a] = prior[r][a]
        /\ \A b \in Artifacts : b # a => out'[b] = out[b] /\ prior'[r][b] = prior[r][b]
        /\ out' \in [Artifacts -> Versions] /\ prior' \in [Recommends -> [Artifacts -> Versions]]
    BY <1>0, <1>5 DEF RunnerTypeOK
  <2>3. RunnerTypeOK'
    BY <1>0, <1>1, <2>1, <2>2 DEF RunnerTypeOK
  <2>4. ASSUME r \notin crowded PROVE Progress(r)' /\ \A b \in Artifacts : Traced(r, b)'
    <3>1. Traced(r, a)'
      BY <1>1, <1>3, <1>5, <2>1, <2>2, <2>4 DEF Traced
    <3>2. \A b \in Artifacts : Traced(r, b)'
      BY <1>1, <2>1, <2>2, <2>4, <3>1, MovesOne
    <3> QED
      BY <1>1, <1>3, <2>1, <2>4, <3>2 DEF Progress
  <2> QED
    BY <1>1, <1>4, <2>1, <2>3, <2>4, PublishStepInv
<1>6. CASE /\ pub' = [pub EXCEPT ![r].saved = @ \ {a}, ![r].residual = @ \cup {a}]
           /\ UNCHANGED <<out, prior>>
  <2>1. /\ pub'[r].published = pub[r].published /\ pub'[r].next = pub[r].next
        /\ pub'[r].saved = pub[r].saved \ {a} /\ pub'[r].residual = pub[r].residual \cup {a}
        /\ pub' \in [Recommends -> [next : 1..LastArtifact + 1, published : SUBSET Artifacts,
                                  saved : SUBSET Artifacts, residual : SUBSET Artifacts]]
        /\ \A q \in Recommends : q # r => pub'[q] = pub[q]
    <3> DEFINE p == [pub[r] EXCEPT !.saved = @ \ {a}, !.residual = @ \cup {a}]
    <3>1. pub' = [pub EXCEPT ![r] = p]
      BY <1>6
    <3>2. /\ p.next = pub[r].next /\ p.published = pub[r].published
          /\ p.saved = pub[r].saved \ {a} /\ p.residual = pub[r].residual \cup {a}
      BY <1>2
    <3>3. p \in [next : 1..LastArtifact + 1, published : SUBSET Artifacts,
                 saved : SUBSET Artifacts, residual : SUBSET Artifacts]
      BY <1>2
    <3>4. pub'[r] = p /\ \A q \in Recommends : q # r => pub'[q] = pub[q]
      BY <1>0, <3>1 DEF RunnerTypeOK
    <3> QED
      BY <1>0, <3>1, <3>2, <3>3, <3>4 DEF RunnerTypeOK
  <2>2. RunnerTypeOK'
    BY <1>0, <1>1, <1>6, <2>1 DEF RunnerTypeOK
  <2>3. ASSUME r \notin crowded PROVE Progress(r)' /\ \A b \in Artifacts : Traced(r, b)'
    <3>1. Traced(r, a)'
      BY <1>1, <1>3, <1>6, <2>1, <2>3 DEF Traced
    <3>2. \A b \in Artifacts : Traced(r, b)'
      BY <1>1, <1>6, <2>1, <2>3, <3>1, MovesOne
    <3> QED
      BY <1>1, <1>3, <2>1, <2>3, <3>2 DEF Progress
  <2> QED
    BY <1>1, <1>4, <2>1, <2>2, <2>3, PublishStepInv
<1> QED
  BY <1>5, <1>6

(* The UI dies: nobody answers for the tree, or for the publication.       *)
LEMMA UiDiesInv ==
    ASSUME RecommendInv, NEW r \in Recommends, UiDies(r)
    PROVE  RunnerTypeOK' /\ Supervised' /\ Separate' /\ Ledgered'
<1>0. RunnerTypeOK /\ Supervised /\ Separate /\ Ledgered
  BY DEF RecommendInv
<1>1. /\ UNCHANGED <<child, note, result, out, staged, prior, pub, was, crowded>>
      /\ step' = [step EXCEPT ![r] = "dead"]
      /\ \A q \in Recommends : q # r => pc'[q] = pc[q] /\ step'[q] = step[q]
      /\ step'[r] = "dead"
  BY <1>0, RecommendAssumption DEF UiDies, Kill, Goto, fileVars, lockVars, RunnerTypeOK,
     RecommendInv, LockInv, LockTypeOK
<1>2. RunnerTypeOK'
  BY <1>0, <1>1 DEF RunnerTypeOK
<1>3. \A q \in Recommends : Publishing(q)' <=> Publishing(q) /\ q # r
  BY <1>1 DEF Publishing
<1>4. Supervised'
  BY <1>0, <1>1, <1>3 DEF Supervised
<1>5. Separate'
  BY <1>0, <1>1, <1>3 DEF Separate
<1>6. Ledgered'
  BY <1>0, <1>1, <1>3 DEF Ledgered, Progress, Traced
<1> QED
  BY <1>2, <1>4, <1>5, <1>6

(* Every step of the updates, the recommendations and the trees.           *)
LEMMA RecommendStepInv == RecommendInv /\ [RecommendNext]_recommendVars => RecommendInv'
<1> SUFFICES ASSUME RecommendInv, [RecommendNext]_recommendVars PROVE RecommendInv'
  OBVIOUS
<1>0. LockInv'
  BY LocksAreSingleFlight DEF RecommendInv
<1>1. ASSUME NEW r \in Runs, LockStep(r), UNCHANGED <<readVars, fileVars>>
      PROVE  RunnerTypeOK' /\ Supervised' /\ Separate' /\ Ledgered'
  <2>1. \A q \in Recommends : pc[q] = "inside" => pc'[q] = "inside"
    BY <1>1, RecommendAssumption DEF LockStep, Start, Acquisition, TryLock, Refuse, Enter, SetupError,
       Release, Unlock, Exit, RecommendInv, LockInv, LockTypeOK
  <2> QED
    BY <1>1, <2>1, LockStepInv
<1>2. ASSUME NEW u \in Runs \ Recommends, Leave(u) \/ Kill(u), UNCHANGED <<readVars, fileVars>>
      PROVE  RunnerTypeOK' /\ Supervised' /\ Separate' /\ Ledgered'
  <2>1. \A q \in Recommends : pc[q] = "inside" => pc'[q] = "inside"
    BY <1>2, RecommendAssumption DEF Leave, Kill, RecommendInv, LockInv, LockTypeOK
  <2> QED
    BY <1>2, <2>1, LockStepInv
<1>3. ASSUME NEW r \in Recommends, Supervise(r) \/ ChildEnds(r) \/ Publish(r) \/ UiDies(r)
      PROVE  RunnerTypeOK' /\ Supervised' /\ Separate' /\ Ledgered'
  <2>1. CASE Supervise(r)
    BY <2>1, SuperviseInv
  <2>2. CASE ChildEnds(r)
    BY <2>2, ChildEndsInv
  <2>3. CASE Publish(r)
    BY <2>3, JudgeInv, BeginPublishInv, SkipUnwrittenInv, SavePriorInv, MoveNewInv, TurnInv, PublishedInv,
       UnpublishInv, RestoreInv DEF Publish
  <2>4. CASE UiDies(r)
    BY <2>4, UiDiesInv
  <2> QED
    BY <1>3, <2>1, <2>2, <2>3, <2>4
<1>4. CASE UNCHANGED recommendVars
  <2>1. UNCHANGED <<readVars, fileVars>> /\ UNCHANGED pc
    BY <1>4 DEF recommendVars, lockVars
  <2> QED
    BY <1>0, <2>1, LockStepInv DEF RecommendInv
<1> QED
  BY <1>0, <1>1, <1>2, <1>3, <1>4 DEF RecommendNext, RecommendInv

(* The inductive invariant of the locks, the readers and the publications. *)
THEOREM RecommendInvariant == RecommendSpec => []RecommendInv
BY RecommendInitInv, RecommendStepInv, PTL DEF RecommendSpec

(* The locks, the runs, the trees and the files keep their types.          *)
THEOREM RecommendTypes == RecommendSpec => []RecommendTypeOK
<1>1. RecommendInv => RecommendTypeOK
  BY DEF RecommendInv, LockInv, RecommendTypeOK
<1> QED
  BY <1>1, RecommendInvariant, PTL

(* Only the lock keeps readers and swaps apart: while a tree reads that    *)
(* its runner still answers for, the runner is inside, and so no update of *)
(* the same provider is.                                                   *)
THEOREM ReadersAreSafe == RecommendSpec => []NoSwapUnderReader
<1>1. RecommendInv => NoSwapUnderReader
  <2> SUFFICES ASSUME RecommendInv, NEW r \in Recommends, NEW u \in Runs \ Recommends,
                      child[r] = "reads", pc[u] = "inside", Needs[r] \cap Needs[u] # {}
               PROVE  result[r] = "incomplete" \/ step[r] = "dead"
    BY DEF NoSwapUnderReader
  <2>1. MutualExclusion /\ r \in Runs /\ r # u
    BY InvExcludes, RecommendAssumption DEF RecommendInv
  <2>2. pc[r] # "inside"
    BY <2>1 DEF MutualExclusion
  <2> QED
    BY <2>2 DEF RecommendInv, Supervised
<1> QED
  BY <1>1, RecommendInvariant, PTL

(* What a run that ends its publication reports is what it leaves: all of  *)
(* it, nothing of it, or exactly the files it names, with both versions.   *)
THEOREM PublicationsAreWhole == RecommendSpec => PublicationIsWhole
<1> DEFINE Whole(r) ==
        /\ result'[r] = "ok" /\ result[r] # "ok" =>
              \A a \in Artifacts : out'[a] = IF a \in pub[r].published THEN r ELSE was[r][a]
        /\ result'[r] = "undone" /\ result[r] # "undone" => out' = was[r]
        /\ result'[r] = "torn" /\ result[r] # "torn" =>
              \A a \in Artifacts :
                 /\ a \notin pub[r].residual => out'[a] = was[r][a]
                 /\ was[r][a] \in {out'[a], prior'[r][a], Absent}
                 /\ a \in pub[r].residual => r \in {out'[a], staged'[r][a]}
<1>1. ASSUME RecommendInv, RecommendNext, NEW r \in Recommends \ crowded PROVE Whole(r)
  <2>0. RunnerTypeOK /\ Ledgered
    BY <1>1 DEF RecommendInv
  <2>1. CASE UNCHANGED result
    BY <2>1
  <2>2. ASSUME NEW q \in Recommends, Supervise(q) \/ Fails(q) \/ PublishesNothing(q)
        PROVE  Whole(r)
    <3>1. result'[r] \in {result[r], "launch_failed", "timeout", "incomplete", "failed", "run_failed"}
      BY <2>0, <2>2 DEF RunnerTypeOK, Supervise, Spawn, SpawnFails, WaitReturns, TimesOut, KillTree, Drain,
         Fails, PublishesNothing, Returns
    <3> QED
      BY <3>1
  <2>3. ASSUME NEW q \in Recommends, Published(q) PROVE Whole(r)
    <3>1. CASE q # r
      BY <2>0, <2>3, <3>1 DEF RunnerTypeOK, Published, Returns
    <3>2. CASE q = r
      <4>1. /\ result'[r] = "ok" /\ step[r] = "save" /\ out' = out
        BY <2>0, <2>3, <3>2 DEF RunnerTypeOK, Published, Returns
      <4>2. Progress(r) /\ \A a \in Artifacts : Traced(r, a)
        BY <2>0, <4>1 DEF Ledgered, Publishing
      <4> QED
        BY <4>1, <4>2 DEF Progress, Traced
    <3> QED
      BY <3>1, <3>2
  <2>4. ASSUME NEW q \in Recommends, RolledBack(q) PROVE Whole(r)
    <3>1. CASE q # r
      BY <2>0, <2>4, <3>1 DEF RunnerTypeOK, RolledBack, Returns
    <3>2. CASE q = r
      <4>1. /\ result'[r] = IF pub[r].residual = {} THEN "undone" ELSE "torn"
            /\ step[r] = "restore" /\ pub[r].saved = {} /\ UNCHANGED <<out, prior, staged>>
        BY <2>0, <2>4, <3>2 DEF RunnerTypeOK, RolledBack, Returns, fileVars
      <4>2. pub[r].published = {} /\ \A a \in Artifacts : Traced(r, a)
        BY <2>0, <4>1 DEF Ledgered, Publishing, Progress
      <4>3. \A a \in Artifacts : a \notin pub[r].residual => out[a] = was[r][a]
        BY <4>1, <4>2 DEF Traced
      <4>4. CASE pub[r].residual = {}
        <5>1. out = was[r]
          BY <2>0, <4>3, <4>4 DEF RunnerTypeOK
        <5> QED
          BY <4>1, <4>4, <5>1
      <4>5. CASE pub[r].residual # {}
        BY <4>1, <4>2, <4>3, <4>5 DEF Traced
      <4> QED
        BY <4>4, <4>5
    <3> QED
      BY <3>1, <3>2
  <2>5. ASSUME NEW q \in Recommends,
               \/ ChildEnds(q) \/ UiDies(q) \/ BeginPublish(q) \/ SkipUnwritten(q) \/ SavePrior(q)
               \/ MoveNew(q) \/ ReplaceFails(q) \/ Unpublish(q) \/ AllUnpublished(q) \/ Restore(q)
        PROVE  UNCHANGED result
    BY <2>5 DEF ChildEnds, UiDies, BeginPublish, SkipUnwritten, SavePrior, MoveNew, ReplaceFails,
       Unpublish, AllUnpublished, Restore, readVars
  <2>6. CASE UNCHANGED <<readVars, fileVars>>
    BY <2>1, <2>6 DEF readVars
  <2> HIDE DEF Whole
  <2> QED
    BY <1>1, <2>1, <2>2, <2>3, <2>4, <2>5, <2>6 DEF RecommendNext, Publish
<1>2. RecommendInv /\ [RecommendNext]_recommendVars =>
        [\A r \in Recommends \ crowded : Whole(r)]_recommendVars
  BY <1>1
<1> QED
  BY <1>2, RecommendInvariant, PTL DEF RecommendSpec, PublicationIsWhole
=============================================================================
