------------------------ MODULE SceneQueueSingle_proofs ------------------------
(****************************************************************************)
(* Proofs about SceneQueue for builds in which no two tasks have the same   *)
(* hash, so that nothing is deferred, and in which no task that insists on  *)
(* others has an older stamp: the inductive invariant SingleInv on top of   *)
(* IInv, and from it that a setscene task is decided once, that a task has  *)
(* all its inputs when it runs, that a setscene task has what it insists on *)
(* when it starts, and that nothing is both restored and run.               *)
(****************************************************************************)
EXTENDS SceneQueue_proofs

-----------------------------------------------------------------------------
(* Nothing is deferred *)

\* The end of a task lets nobody go.
LEMMA ReleasesNobody ==
  ASSUME AloneInv, NEW t \in Tasks, ReleaseDeferred(t)
  PROVE  /\ UNCHANGED <<sq_deferred, outrightfail, holdoff_need_update>>
         /\ UNCHANGED <<scenequeue_covered, scenequeue_notcovered, sq_running, sq_buildable>>
<1>1. {d \in SceneTasks : sq_deferred[d] = t} = {}
  BY GraphAssumption DEF AloneInv
<1> QED
  BY <1>1 DEF ReleaseDeferred, queueVars

\* What a task is told is one of its own hashes, and so is what follows.
LEMMA ToldOwn ==
  ASSUME IInv, AloneInv
  PROVE  /\ \A t \in SceneTasks : Told[t] \in Own(t) /\ ToldSiggen[t] \in Own(t)
         /\ \A t \in SceneTasks : Told[t] = unihash[t] \/ \E x \in updated_taskhash_queue : x.task = t
         /\ \A s \in Regenerated : \A t \in SceneTasks : s[t] \in Own(t)
<1>1. ASSUME NEW t \in toprocess
      PROVE  \E x \in updated_taskhash_queue : x.task = t /\ x.hash = (CHOOSE y \in UpdatesOf(t) : TRUE).hash
  <2>1. UpdatesOf(t) # {} /\ t \in SceneTasks
    BY DEF toprocess
  <2>2. PICK x \in UpdatesOf(t) : x = CHOOSE y \in UpdatesOf(t) : TRUE
    BY <2>1
  <2>3. x \in updated_taskhash_queue /\ (x.task = t \/ sq_deferred[t] = x.task)
    BY DEF UpdatesOf, Taken
  <2>4. x.task \in Tasks
    BY <2>3, GraphAssumption, HashAssumption DEF IInv, TypeOK, Report
  <2> QED
    BY <2>1, <2>2, <2>3, <2>4, GraphAssumption DEF AloneInv
<1>2. \A t \in SceneTasks : Told[t] \in Own(t) /\ ToldSiggen[t] \in Own(t)
  BY <1>1 DEF Told, ToldSiggen, AloneInv
<1>3. \A t \in SceneTasks : Told[t] = unihash[t] \/ \E x \in updated_taskhash_queue : x.task = t
  BY <1>1 DEF Told
<1>4. ASSUME NEW s \in Regenerated, NEW t \in SceneTasks PROVE s[t] \in Own(t)
  <2> DEFINE answers(r) == NewHashes[r] \cup {ToldSiggen[r], Told[r]}
  <2>1. PICK h \in [total -> UNION {answers(r) : r \in total}] :
           /\ s = [r \in SceneTasks |-> IF r \in total THEN h[r] ELSE ToldSiggen[r]]
           /\ \A r \in total : h[r] \in answers(r)
    BY DEF Regenerated
  <2>2. s[t] \in answers(t) \cup {ToldSiggen[t]}
    BY <2>1
  <2> QED
    BY <1>2, <2>2 DEF Own
<1> QED
  BY <1>2, <1>3, <1>4

\* No step defers a task, or tells it the hash of another.
LEMMA AloneStep ==
  ASSUME NoTwins, IInv, AloneInv, [Next]_vars
  PROVE  AloneInv'
<1> USE DEF AloneInv
<1>0. TypeOK
  BY DEF IInv
<1>1. ASSUME NEW x \in reports, ReadReport(x) PROVE AloneInv'
  BY <1>1 DEF ReadReport, sceneVars
<1>2. CASE Rehash
  <2>1. /\ UNCHANGED <<sq_deferred, hashes, reports>> /\ siggen' \in Regenerated
        /\ updated_taskhash_queue' \subseteq updated_taskhash_queue
        /\ \A t \in SceneTasks : unihash'[t] = siggen'[t] \/ unihash'[t] = Told[t]
    BY <1>2 DEF Rehash, worldVars
  <2>2. \A t \in SceneTasks : siggen'[t] \in Own(t) /\ unihash'[t] \in Own(t)
    BY <2>1, ToldOwn
  <2> QED
    BY <2>1, <2>2
<1>3. CASE Migrate
  <2>1. UNCHANGED <<hashes, unihash, siggen, reports, updated_taskhash_queue>>
    BY <1>3 DEF Migrate, worldVars
  <2>2. ASSUME DecideAnew(Migrating), NEW t \in SceneTasks PROVE sq_deferred'[t] = NoTask
    <3>1. sq_deferred'[t] = IF t \in Migrating /\ unihash[t] \in DOMAIN hashes
                                /\ hashes[unihash[t]] # t
                            THEN hashes[unihash[t]] ELSE sq_deferred[t]
      BY <2>2 DEF DecideAnew
    <3>2. unihash[t] \in DOMAIN hashes => unihash[t] = Hash[t]
      BY <1>0 DEF TypeOK, NoTwins
    <3> QED
      BY <3>1, <3>2
  <2>3. \A t \in SceneTasks : sq_deferred'[t] = NoTask
    BY <1>3, <2>2, MigrateFacts DEF sceneVars
  <2> QED
    BY <2>1, <2>3
<1>4. ASSUME NEW t \in Reporting, NEW h \in Hashes, TaskReports(t, h) PROVE AloneInv'
  BY <1>4 DEF TaskReports, sceneVars, hashVars, Own
<1>5. ASSUME UNCHANGED <<hashes, unihash, siggen, reports, updated_taskhash_queue>>,
             \/ sq_deferred' = sq_deferred
             \/ \E t \in SceneTasks : Undefer(t)
      PROVE  AloneInv'
  BY <1>0, <1>5 DEF Undefer, TypeOK
<1>6. ASSUME NEW x \in exits, ReadComplete(x) PROVE AloneInv'
  <2>1. x.task \in Tasks
    BY <1>0 DEF TypeOK, ExitCode
  <2> QED
    BY <1>5, <1>6, <2>1, ReleasesNobody DEF ReadComplete, task_completeoutright, hashVars
<1>7. ASSUME NEW t \in Tasks, PassThrough(t) PROVE AloneInv'
  BY <1>5, <1>7, ReleasesNobody DEF PassThrough, task_completeoutright, hashVars, worldVars
<1>8. ASSUME NEW t \in SceneTasks,
             SkipNotNeeded(t) \/ FailUnavailable(t) \/ StartScene(t) \/ ForceDeferred(t)
      PROVE  AloneInv'
  BY <1>5, <1>8 DEF SkipNotNeeded, FailUnavailable, StartScene, ForceDeferred, hashVars, worldVars
<1> QED
  BY <1>1, <1>2, <1>3, <1>4, <1>5, <1>6, <1>7, <1>8
     DEF Next, Execute, Processes, Terminated, vars, sceneVars, hashVars, worldVars, ReadScene,
         ReadFailed, EndRead, WaitForHardDeps, NoScene, FinishScene, RunTask, WaitForTasks,
         Finished, FinishedCleanUp, SceneEnds, TaskEnds

\* What was restored stays so, and an exit code says so.
LEMMA RestoredStep ==
  ASSUME RestoredInv, [Next]_vars
  PROVE  RestoredInv' /\ restored \subseteq restored'
<1>1. ASSUME NEW t \in SceneTasks, NEW ok \in BOOLEAN, SceneEnds(t, ok)
      PROVE  RestoredInv' /\ restored \subseteq restored'
  BY <1>1 DEF SceneEnds, RestoredInv
<1>2. ASSUME NEW t \in Tasks, NEW ok \in BOOLEAN, TaskEnds(t, ok)
      PROVE  RestoredInv' /\ restored \subseteq restored'
  BY <1>2 DEF TaskEnds, RestoredInv
<1>3. ASSUME restored' = restored, exits' \subseteq exits
      PROVE  RestoredInv' /\ restored \subseteq restored'
  BY <1>3 DEF RestoredInv
<1> QED
  BY <1>1, <1>2, <1>3
     DEF Next, Execute, Processes, Terminated, vars, worldVars, ReadScene, ReadComplete, ReadFailed,
         ReadReport, Rehash, Migrate, EndRead, SkipNotNeeded, WaitForHardDeps, FailUnavailable,
         StartScene, ForceDeferred, NoScene, FinishScene, PassThrough, RunTask, WaitForTasks,
         Finished, FinishedCleanUp, TaskReports

-----------------------------------------------------------------------------
(* Decisions are made once *)

\* FailAll leaves alone what is decided and not to fail.
LEMMA FailDecided ==
  ASSUME NEW F \in SUBSET SceneTasks, NEW D
  PROVE  FailAll(F, D) \subseteq F \cup (SceneTasks \ D)
<1>1. PICK L \in SUBSET SceneTasks : L = {}
  OBVIOUS
<1>2. FailAll(F, D) \cap (D \ F) = {}
  BY <1>1, FailSpares
<1> QED
  BY <1>2, FailType

\* What migrates to a hash with a stamp insists on nothing.
LEMMA StampedMigrates ==
  ASSUME NoOlder, IInv, RestoredInv, Disjoint, pc = "migrate", NEW t \in Migrating, StampedNow(t)
  PROVE  HardDeps[t] = {}
<1>1. /\ t \in SceneTasks /\ t \notin sq_live /\ t \notin Surely
  BY MigratingFacts
<1>2. CASE Stamps[t] \subseteq {Hash[t]}
  <2>1. t \in Staged
    BY <1>1, <1>2 DEF StampedNow, Staged
  <2>2. t \in restored \ Surely
    BY <1>1, <2>1 DEF RestoredInv
  <2>3. t \in sq_live
    BY <2>2 DEF IInv, SkippedInv, ExitsInv
  <2> QED
    BY <1>1, <2>3
<1> QED
  BY <1>1, <1>2 DEF NoOlder

\* A migration undecides nothing that is covered; what it covers has a stamp, and
\* what it fails was not covered.
LEMMA AnewFacts ==
  ASSUME NoOlder, IInv, RestoredInv, Disjoint, pc = "migrate", DecideAnew(Migrating)
  PROVE  /\ Disjoint' /\ scenequeue_covered \subseteq scenequeue_covered'
         /\ \A t \in scenequeue_covered' \ scenequeue_covered : t \in Migrating /\ StampedNow(t)
         /\ \A t \in Migrating : StampedNow(t) => t \in scenequeue_covered'
<1> DEFINE S == Migrating
           covered == scenequeue_covered \ S
           notcovered == scenequeue_notcovered \ S
           harddepfail == {t \in S : HardDeps[t] \cap notcovered # {}}
           stamped == {t \in S : unihash[t] \in Stamps[t]}
           D == covered \cup notcovered \cup stamped
           failed == FailAll(harddepfail, D)
<1>1. scenequeue_covered' = covered \cup stamped /\ scenequeue_notcovered' = notcovered \cup failed
  BY DEF DecideAnew
<1>2. S \subseteq SceneTasks /\ S \cap scenequeue_covered = {}
  BY MigratingFacts DEF Surely, Disjoint
<1>3. stamped \cap harddepfail = {}
  BY StampedMigrates DEF StampedNow
<1>4. failed \subseteq harddepfail \cup (SceneTasks \ D)
  BY <1>2, FailDecided
<1>5. failed \cap (covered \cup stamped) = {}
  BY <1>2, <1>3, <1>4
<1>6. \A t : t \in stamped <=> t \in Migrating /\ StampedNow(t)
  BY DEF StampedNow
<1> HIDE DEF failed, stamped
<1> QED
  BY <1>1, <1>2, <1>5, <1>6 DEF Disjoint

\* Why a task becomes covered: it was restored, or it has a stamp, or nothing that
\* is not covered needs it.
Reason(t) ==
    /\ t \in SceneTasks \ runq_running
    /\ \/ t \in restored \/ StampedNow(t)
       \/ t \notin unskippable /\ sq_revdeps[t] \subseteq scenequeue_covered

\* Nothing that is covered ever loses that, and what becomes covered is not failed.
\* Whenever something is decided, what is covered is worked out again.
LEMMA OneWay ==
  ASSUME NoOlder, IInv, SingleInv, [Next]_vars
  PROVE  /\ Disjoint' /\ scenequeue_covered \subseteq scenequeue_covered'
         /\ \A t \in scenequeue_covered' \ scenequeue_covered : Reason(t)
         /\ \/ UNCHANGED <<scenequeue_covered, scenequeue_notcovered>>
            \/ holdoff_need_update' = TRUE /\ UNCHANGED taskVars
<1> DEFINE Grows == /\ Disjoint' /\ scenequeue_covered \subseteq scenequeue_covered'
                    /\ \A t \in scenequeue_covered' \ scenequeue_covered : Reason(t)
                    /\ \/ UNCHANGED <<scenequeue_covered, scenequeue_notcovered>>
                       \/ holdoff_need_update' = TRUE /\ UNCHANGED taskVars
<1>0. Disjoint /\ AloneInv /\ RestoredInv /\ TypeOK
  BY DEF SingleInv, IInv
<1>1. ASSUME NEW t \in SceneTasks, Cover(t), t \notin Decided, Reason(t), UNCHANGED taskVars
      PROVE  Grows
  <2>1. /\ scenequeue_covered' = scenequeue_covered \cup {t}
        /\ scenequeue_notcovered' = scenequeue_notcovered /\ holdoff_need_update' = TRUE
    BY <1>1, CoverFacts
  <2>2. Disjoint'
    BY <1>0, <1>1, <2>1 DEF Disjoint, Decided
  <2>3. \A s \in scenequeue_covered' \ scenequeue_covered : s = t
    BY <2>1
  <2>4. \A s \in scenequeue_covered' \ scenequeue_covered : Reason(s)
    BY <1>1, <2>3, Zenon
  <2> QED
    BY <1>1, <2>1, <2>2, <2>4
<1>2. ASSUME NEW t \in SceneTasks, Uncover(t), t \notin Decided, UNCHANGED taskVars PROVE Grows
  <2>1. FailSet(t) \cap Decided = {}
    BY <1>2, FailFacts
  <2> QED
    BY <1>0, <1>2, <2>1, UncoverFacts DEF Disjoint, Decided
<1>3. ASSUME UNCHANGED <<scenequeue_covered, scenequeue_notcovered>> PROVE Grows
  BY <1>0, <1>3 DEF Disjoint
<1>4. ASSUME NEW t \in SceneTasks \ Decided PROVE t \notin runq_running
  BY DEF IInv, ApartInv, Undecided
<1>5. ASSUME NEW x \in exits, ReadScene(x) PROVE Grows
  <2>1. x.task \in SceneTasks \ Decided
    BY <1>5 DEF ReadScene, IInv, ExitsInv, LiveInv, TypeOK
  <2>2. CASE x.ok
    BY <1>0, <1>1, <1>4, <1>5, <2>1, <2>2 DEF ReadScene, sq_task_complete, RestoredInv, Reason
  <2>3. CASE ~x.ok
    BY <1>2, <1>5, <2>1, <2>3 DEF ReadScene, sq_task_fail
  <2> QED
    BY <2>2, <2>3
<1>6. ASSUME NEW t \in SceneTasks, SkipNotNeeded(t) PROVE Grows
  <2>1. t \notin Decided
    BY <1>6 DEF SkipNotNeeded, PicksScene, Candidates, IInv, LiveInv
  <2> QED
    BY <1>1, <1>4, <1>6, <2>1 DEF SkipNotNeeded, NotNeeded, Reason
<1>7. ASSUME NEW t \in SceneTasks, FailUnavailable(t) PROVE Grows
  <2>1. t \notin Decided
    BY <1>7 DEF FailUnavailable, PicksScene, Candidates, IInv, LiveInv
  <2> QED
    BY <1>2, <1>7, <2>1 DEF FailUnavailable
<1>8. ASSUME Migrate PROVE Grows
  <2>1. pc = "migrate" /\ UNCHANGED taskVars
    BY <1>8, MigrateFacts DEF Migrate, taskVars
  <2>2. ASSUME DecideAnew(Migrating), holdoff_need_update' = TRUE PROVE Grows
    BY <1>0, <2>1, <2>2, AnewFacts, MigratingFacts DEF Reason
  <2> QED
    BY <1>3, <1>8, <2>2, MigrateFacts DEF sceneVars, queueVars
<1>9. ASSUME NEW x \in exits, ReadComplete(x) PROVE Grows
  <2>1. x.task \in Tasks
    BY <1>0 DEF TypeOK, ExitCode
  <2> QED
    BY <1>0, <1>3, <1>9, <2>1, ReleasesNobody DEF ReadComplete, task_completeoutright
<1>10. ASSUME NEW t \in Tasks, PassThrough(t) PROVE Grows
  BY <1>0, <1>3, <1>10, ReleasesNobody DEF PassThrough, task_completeoutright
<1> HIDE DEF Grows
<1>11. Grows
  BY <1>3, <1>5, <1>6, <1>7, <1>8, <1>9, <1>10
     DEF Next, Execute, Processes, Terminated, vars, sceneVars, queueVars, ReadFailed, ReadReport,
         Rehash, EndRead, WaitForHardDeps, StartScene, ForceDeferred, NoScene, FinishScene, RunTask,
         WaitForTasks, Finished, FinishedCleanUp, SceneEnds, TaskEnds, TaskReports
<1> QED
  BY <1>11 DEF Grows

\* The hash of what is covered stays.
LEMMA CoveredHash ==
  ASSUME IInv, SingleInv, [Next]_vars, NEW t \in scenequeue_covered
  PROVE  unihash'[t] = unihash[t]
<1>1. CASE Rehash
  <2>1. t \in SceneTasks /\ t \in Kept
    BY DEF IInv, TypeOK, Decided, Kept
  <2>2. unihash'[t] = Told[t]
    BY <1>1, <2>1 DEF Rehash
  <2> QED
    BY <2>1, <2>2, ToldOwn DEF SingleInv, SkippedRightInv
<1> QED
  BY <1>1, HashStep

\* What was run was so for good.
LEMMA RanStep ==
  ASSUME [Next]_vars
  PROVE  Ran \subseteq Ran'
<1> USE DEF Ran
<1>1. ASSUME NEW x \in exits, ReadComplete(x) PROVE Ran \subseteq Ran'
  BY <1>1 DEF ReadComplete
<1>2. ASSUME NEW x \in exits, ReadScene(x) \/ ReadFailed(x) PROVE Ran \subseteq Ran'
  BY <1>2 DEF ReadScene, ReadFailed, taskVars
<1>3. ASSUME runq_tasksrun \subseteq runq_tasksrun', exits \subseteq exits' PROVE Ran \subseteq Ran'
  BY <1>3
<1> QED
  BY <1>1, <1>2, <1>3
     DEF Next, Execute, Processes, Terminated, vars, taskVars, worldVars, ReadReport, Rehash, Migrate,
         EndRead, SkipNotNeeded, WaitForHardDeps, FailUnavailable, StartScene, ForceDeferred, NoScene,
         FinishScene, PassThrough, RunTask, WaitForTasks, Finished, FinishedCleanUp, SceneEnds,
         TaskEnds, TaskReports

\* What is there to stay stays there.
LEMMA FirmStep ==
  ASSUME NoOlder, IInv, SingleInv, [Next]_vars
  PROVE  Firm \subseteq Firm'
<1>1. restored \subseteq restored' /\ Ran \subseteq Ran'
  BY RestoredStep, RanStep DEF SingleInv
<1>2. ASSUME NEW t \in scenequeue_covered, StampedNow(t)
      PROVE  t \in scenequeue_covered' /\ StampedNow(t)'
  BY <1>2, OneWay, CoveredHash DEF StampedNow
<1> QED
  BY <1>1, <1>2 DEF Firm

-----------------------------------------------------------------------------
(* The parts of the inductive invariant *)

\* update_holdofftasks finds out what is covered and what is not.
LEMMA HoldoffFresh ==
  ASSUME IInv, Disjoint, FreshInv, update_holdofftasks,
         UNCHANGED <<scenequeue_covered, scenequeue_notcovered>>
  PROVE  FreshInv'
<1> USE DEF FreshInv, Uncovering
<1>1. CASE ~holdoff_need_update
  BY <1>1 DEF update_holdofftasks, holdVars
<1>2. CASE holdoff_need_update
  <2> DEFINE below(S) == S \cup UNION {sq_covered_tasks[t] : t \in S}
             direct == cantskip \cup (unskippable \ SceneTasks)
  <2>1. /\ tasks_notcovered' = tasks_scenequeue_done \cap (below(scenequeue_notcovered) \cup direct)
        /\ tasks_covered' = tasks_scenequeue_done \cap (below(scenequeue_covered) \ tasks_notcovered')
    BY <1>2 DEF update_holdofftasks
  <2>2. \A s \in SceneTasks : sq_covered_tasks[s] \cap SceneTasks = {}
    BY DEF sq_covered_tasks, Least, Normal
  <2>3. Decided \subseteq SceneTasks
    BY DEF IInv, TypeOK
  <2>4. direct \subseteq unskippable \ SceneTasks
    BY CantskipUnskippable DEF cantskip
  <2>5. ASSUME NEW t \in tasks_covered'
        PROVE  IF t \in SceneTasks THEN t \in scenequeue_covered ELSE t \notin unskippable
    <3>1. t \in below(scenequeue_covered) /\ t \notin direct
      BY <2>1, <2>5
    <3> QED
      BY <3>1, <2>2, <2>3 DEF Decided
  <2>6. ASSUME NEW t \in tasks_notcovered'
        PROVE  IF t \in SceneTasks THEN t \notin scenequeue_covered
                                   ELSE t \in unskippable \/ Uncovering(t)
    <3>1. t \in below(scenequeue_notcovered) \cup direct
      BY <2>1, <2>6
    <3> QED
      BY <3>1, <2>2, <2>3, <2>4 DEF Decided, Disjoint
  <2> QED
    BY <2>5, <2>6
<1> QED
  BY <1>1, <1>2

\* ... whenever something was decided.
LEMMA FreshStep ==
  ASSUME NoOlder, IInv, SingleInv, [Next]_vars
  PROVE  FreshInv'
<1>0. Disjoint /\ FreshInv /\ AloneInv /\ TypeOK
  BY DEF SingleInv, IInv
<1>1. ASSUME ToSched, UNCHANGED <<scenequeue_covered, scenequeue_notcovered>> PROVE FreshInv'
  BY <1>0, <1>1, HoldoffFresh DEF ToSched
<1>2. ASSUME UNCHANGED <<tasks_covered, tasks_notcovered, holdoff_need_update,
                         scenequeue_covered, scenequeue_notcovered>>
      PROVE  FreshInv'
  BY <1>0, <1>2 DEF FreshInv, Uncovering
<1>3. ASSUME holdoff_need_update' = TRUE PROVE FreshInv'
  BY <1>3 DEF FreshInv
<1>4. ASSUME NEW x \in exits, ReadScene(x) PROVE FreshInv'
  <2>1. x.task \in SceneTasks
    BY <1>0, <1>4 DEF ReadScene, ExitCode, TypeOK
  <2> QED
    BY <1>3, <1>4, <2>1, CoverFacts, UncoverFacts DEF ReadScene, sq_task_complete, sq_task_fail
<1>5. ASSUME NEW x \in exits, ReadComplete(x) PROVE FreshInv'
  <2>1. x.task \in Tasks
    BY <1>0 DEF TypeOK, ExitCode
  <2> QED
    BY <1>0, <1>2, <1>5, <2>1, ReleasesNobody DEF ReadComplete, task_completeoutright
<1>6. ASSUME NEW t \in Tasks, PassThrough(t) PROVE FreshInv'
  BY <1>0, <1>2, <1>6, ReleasesNobody DEF PassThrough, task_completeoutright
<1>7. ASSUME NEW t \in SceneTasks, SkipNotNeeded(t) \/ FailUnavailable(t) PROVE FreshInv'
  BY <1>3, <1>7, CoverFacts, UncoverFacts DEF SkipNotNeeded, FailUnavailable
<1>8. ASSUME NEW t \in SceneTasks, StartScene(t) PROVE FreshInv'
  BY <1>1, <1>2, <1>8 DEF StartScene, holdVars
<1>9. ASSUME Migrate PROVE FreshInv'
  BY <1>2, <1>3, <1>9, MigrateFacts DEF sceneVars, queueVars, holdVars
<1>10. ASSUME Rehash PROVE FreshInv'
  BY <1>2, <1>3, <1>10 DEF Rehash, Relook
<1>11. ASSUME EndRead \/ NoScene PROVE FreshInv'
  BY <1>1, <1>2, <1>11 DEF EndRead, NoScene, sceneVars, queueVars, holdVars
<1> QED
  BY <1>2, <1>4, <1>5, <1>6, <1>7, <1>8, <1>9, <1>10, <1>11
     DEF Next, Execute, Processes, Terminated, vars, sceneVars, queueVars, holdVars, ReadFailed,
         ReadReport, WaitForHardDeps, ForceDeferred, FinishScene, RunTask, WaitForTasks, Finished,
         FinishedCleanUp, SceneEnds, TaskEnds, TaskReports

\* What is picked is covered or not as it was decided.
LEMMA PickFacts ==
  ASSUME IInv, SingleInv, NEW t \in Tasks, Picks(t)
  PROVE  /\ t \in runq_buildable /\ t \notin runq_running /\ t \notin runq_complete
         /\ t \in tasks_covered => IF t \in SceneTasks THEN t \in scenequeue_covered
                                                       ELSE t \notin unskippable
         /\ t \notin tasks_covered => IF t \in SceneTasks THEN t \notin scenequeue_covered
                                                          ELSE t \in unskippable \/ Uncovering(t)
<1>1. /\ pc = "sched" /\ t \in runq_buildable \ runq_running
      /\ t \in tasks_covered \cup tasks_notcovered
  BY DEF Picks, Eligible
<1>2. ~holdoff_need_update /\ runq_complete \subseteq runq_running
  BY <1>1 DEF IInv, HoldInv, ReadyInv
<1> QED
  BY <1>1, <1>2 DEF SingleInv, FreshInv

\* Nothing that is covered is started, and what is covered was not started.
LEMMA SkippedRightStep ==
  ASSUME NoOlder, IInv, SingleInv, [Next]_vars
  PROVE  SkippedRightInv'
<1> DEFINE Started == runq_tasksrun \cup (runq_running \ runq_complete)
<1>0. /\ AloneInv /\ SkippedRightInv /\ runq_tasksrun \subseteq runq_running
      /\ Started \subseteq runq_running
  BY DEF SingleInv, IInv, ReadyInv
<1>1. /\ scenequeue_covered \subseteq scenequeue_covered'
      /\ \A t \in scenequeue_covered' \ scenequeue_covered : t \notin runq_running
  BY OneWay DEF Reason
<1>2. \A x \in updated_taskhash_queue \cup reports :
          x.task \in runq_running /\ x.task \notin scenequeue_covered
  BY <1>0 DEF IInv, ExitsInv, Active, SkippedRightInv
<1>3. ASSUME Started' \subseteq Started,
             runq_complete' \ runq_tasksrun' \subseteq runq_complete \ runq_tasksrun,
             updated_taskhash_queue' \subseteq updated_taskhash_queue \cup reports
      PROVE  SkippedRightInv'
  BY <1>0, <1>1, <1>2, <1>3 DEF SkippedRightInv
<1>4. ASSUME NEW t \in Tasks, RunTask(t) PROVE SkippedRightInv'
  <2>1. /\ Started' \subseteq Started \cup {t} /\ t \notin tasks_covered
        /\ UNCHANGED <<scenequeue_covered, runq_complete, runq_tasksrun, updated_taskhash_queue>>
    BY <1>4 DEF RunTask, sceneVars, queueVars, hashVars
  <2>2. t \notin scenequeue_covered
    BY <1>4, <2>1, PickFacts DEF RunTask, IInv, TypeOK, Decided
  <2> QED
    BY <1>0, <2>1, <2>2 DEF SkippedRightInv
<1>5. ASSUME NEW t \in Tasks, PassThrough(t) PROVE SkippedRightInv'
  <2>1. /\ runq_running' = runq_running \cup {t} /\ runq_complete' = runq_complete \cup {t}
        /\ runq_tasksrun' = IF t \in tasks_covered THEN runq_tasksrun ELSE runq_tasksrun \cup {t}
        /\ Picks(t) /\ UNCHANGED <<scenequeue_covered, updated_taskhash_queue>>
    BY <1>0, <1>5, ReleasesNobody DEF PassThrough, task_completeoutright, hashVars
  <2>2. CASE t \in tasks_covered
    <3>1. Started' \subseteq Started
      BY <2>1, <2>2
    <3>2. \A s \in runq_complete' \ runq_tasksrun' : s = t \/ s \in runq_complete \ runq_tasksrun
      BY <2>1, <2>2
    <3> QED
      BY <1>0, <2>1, <2>2, <3>1, <3>2, PickFacts DEF SkippedRightInv
  <2>3. CASE t \notin tasks_covered
    <3>1. /\ Started' \subseteq Started \cup {t}
          /\ runq_complete' \ runq_tasksrun' \subseteq runq_complete \ runq_tasksrun
      BY <2>1, <2>3
    <3>2. t \notin scenequeue_covered
      BY <2>1, <2>3, PickFacts DEF IInv, TypeOK, Decided
    <3> QED
      BY <1>0, <2>1, <3>1, <3>2 DEF SkippedRightInv
  <2> QED
    BY <2>2, <2>3
<1>6. ASSUME NEW x \in exits, ReadComplete(x) PROVE SkippedRightInv'
  <2>1. x.task \in runq_running \ runq_complete
    BY <1>6 DEF ReadComplete, IInv, ExitsInv, Active
  <2> QED
    BY <1>3, <1>6, <2>1 DEF ReadComplete, task_completeoutright, hashVars
<1>7. ASSUME NEW x \in reports, ReadReport(x) PROVE SkippedRightInv'
  BY <1>3, <1>7 DEF ReadReport, taskVars
<1>8. ASSUME Rehash PROVE SkippedRightInv'
  BY <1>3, <1>8 DEF Rehash, taskVars
<1>9. ASSUME UNCHANGED <<runq_running, runq_complete, runq_tasksrun, updated_taskhash_queue>>
      PROVE  SkippedRightInv'
  BY <1>3, <1>9
<1> QED
  BY <1>4, <1>5, <1>6, <1>7, <1>8, <1>9
     DEF Next, Execute, Processes, Terminated, vars, taskVars, hashVars, ReadScene, ReadFailed, Migrate,
         EndRead, SkipNotNeeded, WaitForHardDeps, FailUnavailable, StartScene, ForceDeferred, NoScene,
         FinishScene, WaitForTasks, Finished, FinishedCleanUp, SceneEnds, TaskEnds, TaskReports

\* What is covered stays there, or stays unneeded.
LEMMA CoveredStep ==
  ASSUME NoOlder, IInv, SingleInv, [Next]_vars
  PROVE  CoveredInv'
<1> SUFFICES ASSUME NEW t \in scenequeue_covered'
             PROVE  \/ t \in Firm'
                    \/ t \notin unskippable /\ sq_revdeps[t] \subseteq scenequeue_covered'
  BY DEF CoveredInv
<1>1. scenequeue_covered \subseteq scenequeue_covered' /\ Firm \subseteq Firm'
  BY OneWay, FirmStep
<1>2. CASE t \in scenequeue_covered
  BY <1>1, <1>2 DEF SingleInv, CoveredInv
<1>3. CASE t \notin scenequeue_covered
  <2>1. Reason(t)
    BY <1>3, OneWay
  <2>2. CASE t \in restored
    BY <1>1, <2>2 DEF Firm
  <2>3. CASE StampedNow(t)
    <3>1. unihash' = unihash
      BY <1>3, HashStep DEF Rehash
    <3> QED
      BY <2>3, <3>1 DEF Firm, StampedNow
  <2> QED
    BY <1>1, <2>1, <2>2, <2>3 DEF Reason
<1> QED
  BY <1>2, <1>3

\* What was skipped below a task that is not skipped is there.
LEMMA SkippedBelow ==
  ASSUME IInv, SingleInv, NEW t \in Tasks, NEW d \in Depends[t], d \in runq_complete \ runq_tasksrun,
         IF t \in SceneTasks THEN t \notin scenequeue_covered
                             ELSE t \in unskippable \/ Uncovering(t)
  PROVE  d \in Firm
<1>1. IF d \in SceneTasks THEN d \in scenequeue_covered ELSE d \notin unskippable
  BY DEF SingleInv, SkippedRightInv
<1>2. d \in Tasks /\ scenequeue_notcovered \subseteq SceneTasks
  BY GraphAssumption DEF IInv, TypeOK, Decided
<1>3. t \notin SceneTasks /\ t \in unskippable => d \in unskippable
  BY UnskippableClosed
\* the setscene task that is, or covers, t and is not covered
<1>4. t \in SceneTasks \/ ~(t \in unskippable) =>
          \E s \in SceneTasks \ scenequeue_covered : t \in {s} \cup sq_covered_tasks[s]
  BY <1>2 DEF Uncovering, SingleInv, Disjoint
<1>5. CASE d \in SceneTasks
  <2>1. d \in Firm \/ (d \notin unskippable /\ sq_revdeps[d] \subseteq scenequeue_covered)
    BY <1>1, <1>5 DEF SingleInv, CoveredInv
  <2> QED
    BY <1>3, <1>4, <1>5, <2>1, NextBelow
<1>6. CASE d \notin SceneTasks
  <2>1. d \notin unskippable
    BY <1>1, <1>6
  <2>2. PICK s \in SceneTasks \ scenequeue_covered : t \in {s} \cup sq_covered_tasks[s]
    BY <1>3, <1>4, <2>1
  <2>3. d \in sq_covered_tasks[s]
    BY <1>2, <1>6, <2>2, CoveredClosed DEF DependsOf, Normal
  <2>4. s \in Surely
    BY <2>3 DEF IInv, SkipInv
  <2> QED
    BY <2>2, <2>4 DEF Surely
<1> QED
  BY <1>5, <1>6

\* A task starts when all it depends on is there to stay.
LEMMA InputsFirmStep ==
  ASSUME NoOlder, IInv, SingleInv, [Next]_vars
  PROVE  InputsInv'
<1>0. InputsInv /\ AloneInv /\ Firm \subseteq Firm'
  BY FirmStep DEF SingleInv
<1>1. ASSUME Active' \subseteq Active PROVE InputsInv'
  BY <1>0, <1>1 DEF InputsInv
<1>2. ASSUME NEW t \in Tasks, RunTask(t) PROVE InputsInv'
  <2>1. Active' \subseteq Active \cup {t} /\ Picks(t) /\ t \notin tasks_covered
    BY <1>2 DEF RunTask, Active
  <2>2. Depends[t] \subseteq runq_complete
    BY <2>1, PickFacts DEF IInv, ReadyInv
  <2>3. ASSUME NEW d \in Depends[t] PROVE d \in Firm
    <3>1. CASE d \in runq_tasksrun
      BY <3>1 DEF Firm, Ran
    <3>2. CASE d \notin runq_tasksrun
      BY <2>1, <2>2, <3>2, PickFacts, SkippedBelow
    <3> QED
      BY <3>1, <3>2
  <2> QED
    BY <1>0, <2>1, <2>3 DEF InputsInv
<1>3. ASSUME NEW t \in Tasks, PassThrough(t) PROVE InputsInv'
  BY <1>1, <1>3 DEF PassThrough, task_completeoutright, Active
<1>4. ASSUME NEW x \in exits, ReadComplete(x) \/ ReadFailed(x) PROVE InputsInv'
  BY <1>1, <1>4 DEF ReadComplete, ReadFailed, task_completeoutright, Active
<1>5. ASSUME Migrate PROVE InputsInv'
  BY <1>1, <1>5, MigrateFacts DEF Migrate, Active
<1>6. ASSUME UNCHANGED <<runq_running, runq_complete, failed_tids>> PROVE InputsInv'
  BY <1>1, <1>6 DEF Active
<1> QED
  BY <1>2, <1>3, <1>4, <1>5, <1>6
     DEF Next, Execute, Processes, Terminated, vars, taskVars, ReadScene, ReadReport, Rehash, EndRead,
         SkipNotNeeded, WaitForHardDeps, FailUnavailable, StartScene, ForceDeferred, NoScene,
         FinishScene, WaitForTasks, Finished, FinishedCleanUp, SceneEnds, TaskEnds, TaskReports

\* A change of hashes that finds a stamp for an undecided task lets it migrate, and
\* the migration covers it.
LEMMA StampedStep ==
  ASSUME NoOlder, IInv, SingleInv, [Next]_vars
  PROVE  StampedInv'
<1>0. StampedInv /\ AloneInv /\ Disjoint /\ RestoredInv
  BY DEF SingleInv
<1>1. ASSUME Rehash PROVE StampedInv'
  <2>1. /\ pc = "read" /\ pc' = "migrate" /\ Undecided' = Undecided /\ Late' = Late
    BY <1>1 DEF Rehash, taskVars, Undecided, Decided, Late
  <2>2. ASSUME NEW t \in Undecided, StampedNow(t)' PROVE t \in pending_migrations' \ Late
    <3>1. ~StampedNow(t)
      BY <1>0, <2>1 DEF StampedInv, Migratory
    <3>2. unihash'[t] # unihash[t]
      BY <2>2, <3>1 DEF StampedNow
    <3>3. t \in pending_migrations' /\ t \notin sq_live
      <4>1. t \in SceneTasks /\ sq_deferred[t] = NoTask /\ NoTask \notin runq_complete
        BY <1>0, GraphAssumption DEF Undecided, AloneInv, IInv, TypeOK
      <4> QED
        BY <1>1, <3>2, <4>1, RehashFacts
    <3>4. t \notin runq_running
      BY DEF IInv, ApartInv
    <3> QED
      BY <3>3, <3>4 DEF Late
  <2> QED
    BY <2>1, <2>2 DEF StampedInv, Migratory
<1>2. ASSUME Migrate PROVE StampedInv'
  <2>1. pc = "migrate" /\ unihash' = unihash
    BY <1>2 DEF Migrate
  <2>2. \A t \in Undecided : StampedNow(t) => t \in Migrating
    BY <1>0, MigratoryFacts DEF StampedInv
  <2>3. ASSUME DecideAnew(Migrating) PROVE \A t \in Undecided' : ~StampedNow(t)
    <3>1. \A t \in Migrating : StampedNow(t) => t \in scenequeue_covered'
      BY <1>0, <2>1, <2>3, AnewFacts
    <3>2. Undecided' \subseteq Undecided \cup Migrating
      BY <2>1, <2>3, DecideFacts
    <3> QED
      BY <2>2, <3>1, <3>2 DEF Undecided, Decided
  <2>4. ASSUME Migrating = {}, UNCHANGED sceneVars PROVE \A t \in Undecided' : ~StampedNow(t)
    BY <2>2, <2>4 DEF Undecided, Decided, sceneVars, queueVars
  <2>5. \A t \in Undecided' : ~StampedNow(t)
    BY <1>2, <2>3, <2>4, MigrateFacts
  <2> QED
    BY <2>1, <2>5 DEF StampedInv, StampedNow
<1>3. ASSUME Undecided' \subseteq Undecided, unihash' = unihash,
             pc # "migrate" \/ UNCHANGED <<pc, pending_migrations, runq_running, sq_live>>
      PROVE  StampedInv'
  BY <1>0, <1>3 DEF StampedInv, StampedNow, Migratory, Late
<1>4. Migrate \/ Undecided' \subseteq Undecided
  BY DecidedStep
<1>5. Rehash \/ unihash' = unihash
  BY HashStep
<1>6. \/ Rehash \/ Migrate
      \/ pc # "migrate" \/ UNCHANGED <<pc, pending_migrations, runq_running, sq_live>>
  BY DEF Next, Execute, Processes, Terminated, vars, sceneVars, taskVars, hashVars, ReadScene,
         ReadComplete, ReadFailed, ReadReport, EndRead, SkipNotNeeded, WaitForHardDeps,
         FailUnavailable, StartScene, ForceDeferred, NoScene, FinishScene, PassThrough, RunTask,
         WaitForTasks, Finished, FinishedCleanUp, SceneEnds, TaskEnds, TaskReports, PicksScene, Picks,
         Stuck, Ended
<1> QED
  BY <1>1, <1>2, <1>3, <1>4, <1>5, <1>6

\* It holds at first: what is covered has nothing to do.
LEMMA SingleInit ==
  ASSUME NoTwins, Init
  PROVE  SingleInv
<1>1. AloneInv
  <2>1. \A t \in SceneTasks : hashes[Hash[t]] \in SceneTasks /\ Hash[hashes[Hash[t]]] = Hash[t]
    BY DEF Init, Leaders
  <2>2. \A t \in SceneTasks : hashes[Hash[t]] = t
    BY <2>1 DEF NoTwins, Own
  <2> QED
    BY <2>2, HashAssumption DEF Init, AloneInv, Own
<1>2. RestoredInv /\ Disjoint /\ FreshInv
  BY DEF Init, RestoredInv, Disjoint, FreshInv
<1>3. SkippedRightInv /\ InputsInv
  BY DEF Init, SkippedRightInv, InputsInv, Active
<1>4. CoveredInv
  BY DEF Init, CoveredInv, Firm
<1>5. StampedInv
  BY DEF Init, StampedInv, Undecided, Decided, StampedNow, Staged
<1> QED
  BY <1>1, <1>2, <1>3, <1>4, <1>5 DEF SingleInv

-----------------------------------------------------------------------------
(* What follows *)

\* In builds without twins SingleInv holds in every reachable state.
THEOREM SingleInvariant ==
  ASSUME NoTwins, NoOlder
  PROVE  Spec => []SingleInv
<1>1. Init => SingleInv
  BY SingleInit
<1>2. IInv /\ SingleInv /\ [Next]_vars => SingleInv'
  <2> SUFFICES ASSUME IInv, SingleInv, [Next]_vars PROVE SingleInv'
    OBVIOUS
  <2>1. AloneInv' /\ RestoredInv'
    BY AloneStep, RestoredStep DEF SingleInv
  <2>2. Disjoint' /\ FreshInv' /\ SkippedRightInv'
    BY OneWay, FreshStep, SkippedRightStep
  <2>3. CoveredInv' /\ InputsInv' /\ StampedInv'
    BY CoveredStep, InputsFirmStep, StampedStep
  <2> QED
    BY <2>1, <2>2, <2>3 DEF SingleInv
<1> QED
  BY <1>1, <1>2, Invariant, PTL DEF Spec

\* A setscene task is never both covered and not covered, whatever hashes change.
THEOREM DecidedOnce ==
  ASSUME NoTwins, NoOlder
  PROVE  Spec => []Disjoint
<1>1. SingleInv => Disjoint
  BY DEF SingleInv
<1> QED
  BY <1>1, SingleInvariant, PTL

\* A task that runs has all its inputs, however many tasks were skipped on the way.
THEOREM InputsPresent ==
  ASSUME NoTwins, NoOlder
  PROVE  Spec => []InputsThere
<1>1. IInv /\ SingleInv => InputsThere
  <2> SUFFICES ASSUME IInv, SingleInv PROVE InputsThere
    OBVIOUS
  <2>1. Firm \subseteq Present
    BY DEF Firm, Present, StampedNow, IInv, TypeOK, Decided
  <2> QED
    BY <2>1 DEF SingleInv, InputsInv, InputsThere
<1> QED
  BY <1>1, Invariant, SingleInvariant, PTL

\* A setscene task has what it insists on when it starts and while it runs.
THEOREM HardDepsPresent ==
  ASSUME NoTwins, NoOlder
  PROVE  Spec => []HardDepsThere
<1>1. IInv /\ SingleInv => HardDepsThere
  <2> SUFFICES ASSUME IInv, SingleInv, NEW t \in sq_live, NEW d \in HardDeps[t], t \in sq_revdeps[d]
               PROVE  d \in Skipped
    BY DEF HardDepsThere
  <2>1. t \in Undecided /\ t \in SceneTasks /\ d \in SceneTasks
    BY GraphAssumption DEF IInv, LiveInv, TypeOK, Undecided
  <2>2. ~StampedNow(t)
    BY <2>1 DEF SingleInv, StampedInv, Migratory, Late
  <2>3. d \in scenequeue_covered
    BY <2>2, LiveFacts DEF Surely
  <2>4. d \in Firm
    BY <2>1, <2>3 DEF SingleInv, CoveredInv, Undecided, Decided
  <2>5. d \notin Ran
    BY <2>3 DEF Ran, SingleInv, SkippedRightInv, IInv, ExitsInv, Active
  <2> QED
    BY <2>1, <2>4, <2>5 DEF Skipped, Present, Firm, StampedNow
<1> QED
  BY <1>1, Invariant, SingleInvariant, PTL

\* Nothing is both restored and run, and no two tasks with one hash run.
THEOREM NothingTwice ==
  ASSUME NoTwins, NoOlder
  PROVE  Spec => []BuiltOnce
<1>1. IInv /\ SingleInv => BuiltOnce
  <2> SUFFICES ASSUME IInv, SingleInv PROVE BuiltOnce
    OBVIOUS
  <2>1. ASSUME NEW t \in restored PROVE t \notin RunForReal
    <3>1. RunForReal \subseteq runq_tasksrun \cup (runq_running \ runq_complete)
      BY DEF RunForReal
    <3>2. RunForReal \subseteq runq_running
      BY DEF RunForReal, IInv, ReadyInv
    <3>3. t \in scenequeue_covered \/ t \in sq_live
      BY DEF IInv, SkippedInv, ExitsInv, Surely
    <3>4. \A s \in sq_live : s \notin runq_running
      BY DEF IInv, LiveInv, ApartInv, TypeOK, Undecided
    <3> QED
      BY <3>1, <3>2, <3>3, <3>4 DEF SingleInv, SkippedRightInv
  <2>2. \A s, t \in SceneTasks : Hash[s] = Hash[t] => s = t
    BY DEF NoTwins, Own
  <2> QED
    BY <2>1, <2>2 DEF BuiltOnce
<1> QED
  BY <1>1, Invariant, SingleInvariant, PTL
=============================================================================
