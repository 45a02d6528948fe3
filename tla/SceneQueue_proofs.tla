--------------------------- MODULE SceneQueue_proofs ---------------------------
(****************************************************************************)
(* Theorems about SceneQueue, for every task graph, every choice of tasks   *)
(* with a setscene task, of hard dependencies, of hashes and what they may  *)
(* change to, of stamps of earlier builds, and every content of the cache.  *)
(****************************************************************************)
EXTENDS SceneQueue, FiniteSetTheorems, TLAPS

-----------------------------------------------------------------------------
(* What the operators return *)

\* What a setscene task covers are tasks.
LEMMA CoveredType == sq_covered_tasks \in [SceneTasks -> SUBSET Tasks]
<1>1. ASSUME NEW t \in SceneTasks PROVE sq_covered_tasks[t] \subseteq Tasks
  BY DEF sq_covered_tasks, Least, Normal
<1> QED
  BY <1>1 DEF sq_covered_tasks

\* What the build needs directly are tasks.
LEMMA UnskippableType == unskippable \subseteq Tasks
  BY DEF unskippable, Least

\* Walking down from decided setscene tasks reaches nothing but tasks.
LEMMA DoneType ==
  ASSUME NEW done \in SUBSET Tasks, NEW F \in SUBSET SceneTasks
  PROVE  DoneAfter(done, F) \subseteq Tasks
  BY GraphAssumption DEF DoneAfter, Least, Normal

\* The tasks that fail with those in F are setscene tasks, F among them.
LEMMA FailType ==
  ASSUME NEW F \in SUBSET SceneTasks, NEW D
  PROVE  FailAll(F, D) \subseteq SceneTasks /\ F \subseteq FailAll(F, D)
  BY DEF FailAll, Least

\* What is not decided and insists on a task that fails, fails too.
LEMMA FailClosed ==
  ASSUME NEW F \in SUBSET SceneTasks, NEW D, NEW s \in SceneTasks \ (D \cup Skipped),
         HardDeps[s] \cap FailAll(F, D) # {}
  PROVE  s \in FailAll(F, D)
<1>1. PICK d \in HardDeps[s] : d \in FailAll(F, D)
  OBVIOUS
<1>2. \A X \in SUBSET SceneTasks :
          (/\ F \subseteq X
           /\ \A t \in SceneTasks \ (D \cup Skipped) : HardDeps[t] \cap X # {} => t \in X)
          => s \in X
  BY <1>1 DEF FailAll, Least
<1> QED
  BY <1>2 DEF FailAll, Least

\* What insists only on decided tasks that do not fail is spared.
LEMMA FailSpares ==
  ASSUME NEW F \in SUBSET SceneTasks, NEW D, NEW L \in SUBSET SceneTasks, F \cap L = {},
         \A s \in L \ Skipped : HardDeps[s] \subseteq D \ F
  PROVE  FailAll(F, D) \cap L = {} /\ FailAll(F, D) \cap (D \ F) = {}
<1> DEFINE X == F \cup (SceneTasks \ (D \cup L))
<1>1. X \in SUBSET SceneTasks /\ F \subseteq X
  OBVIOUS
<1>2. ASSUME NEW s \in SceneTasks \ (D \cup Skipped), HardDeps[s] \cap X # {}
      PROVE  s \in X
  <2>1. (D \ F) \cap X = {}
    OBVIOUS
  <2> QED
    BY <1>2, <2>1
<1>3. FailAll(F, D) \subseteq X
  BY <1>1, <1>2 DEF FailAll, Least
<1> QED
  BY <1>3

\* What a work list ends with above a task is made of setscene tasks.
LEMMA TotalType == total \subseteq SceneTasks
  BY DEF total, Least

\* The hashes that tasks were told, and those that follow from them, are hashes.
LEMMA ToldType ==
  ASSUME TypeOK
  PROVE  Told \in [SceneTasks -> Hashes] /\ ToldSiggen \in [SceneTasks -> Hashes]
<1>1. ASSUME NEW t \in toprocess PROVE (CHOOSE x \in UpdatesOf(t) : TRUE).hash \in Hashes
  <2>1. UpdatesOf(t) # {} /\ UpdatesOf(t) \subseteq Report
    BY DEF toprocess, UpdatesOf, Taken, TypeOK
  <2> QED
    BY <2>1 DEF Report
<1>2. Told \in [SceneTasks -> Hashes]
  BY <1>1 DEF Told, TypeOK
<1> QED
  BY <1>2 DEF ToldSiggen, TypeOK

\* ... and so is what the server answers for the tasks above.
LEMMA RegeneratedType ==
  ASSUME TypeOK
  PROVE  Regenerated \subseteq [SceneTasks -> Hashes]
<1> SUFFICES ASSUME NEW s \in Regenerated PROVE s \in [SceneTasks -> Hashes]
  OBVIOUS
<1> DEFINE answers(t) == NewHashes[t] \cup {ToldSiggen[t], Told[t]}
<1>1. PICK h \in [total -> UNION {answers(t) : t \in total}] :
         /\ s = [t \in SceneTasks |-> IF t \in total THEN h[t] ELSE ToldSiggen[t]]
         /\ \A t \in total : h[t] \in answers(t)
  BY DEF Regenerated
<1>2. \A t \in total : answers(t) \subseteq Hashes
  BY TotalType, ToldType, HashAssumption
<1> QED
  BY <1>1, <1>2, ToldType

-----------------------------------------------------------------------------
(* The graph *)

\* Whatever a covered task needs and has no setscene task is covered with it.
LEMMA CoveredClosed ==
  ASSUME NEW s \in SceneTasks
  PROVE  (Depends[s] \cup DependsOf(sq_covered_tasks[s])) \cap Normal \subseteq sq_covered_tasks[s]
<1> DEFINE closed(X) == (Depends[s] \cup DependsOf(X)) \cap Normal \subseteq X
<1>1. sq_covered_tasks[s] = {x \in Normal : \A X \in SUBSET Normal : closed(X) => x \in X}
  BY DEF sq_covered_tasks, Least
<1>2. ASSUME NEW d \in (Depends[s] \cup DependsOf(sq_covered_tasks[s])) \cap Normal,
             NEW X \in SUBSET Normal, closed(X)
      PROVE  d \in X
  <2>1. sq_covered_tasks[s] \subseteq X
    BY <1>1, <1>2
  <2>2. DependsOf(sq_covered_tasks[s]) \subseteq DependsOf(X)
    BY <2>1 DEF DependsOf
  <2> QED
    BY <1>2, <2>2
<1> HIDE DEF closed
<1> QED
  BY <1>1, <1>2

\* What the build needs directly needs what it depends on directly, too.
LEMMA UnskippableClosed ==
  ASSUME NEW t \in unskippable, t \notin SceneTasks, NEW d \in Depends[t]
  PROVE  d \in unskippable
<1> DEFINE top == {r \in Tasks : RevDeps(r) = {}} \cup cantskip
           closed(X) == top \cup DependsOf(X \cap Normal) \subseteq X
<1>1. unskippable = {x \in Tasks : \A X \in SUBSET Tasks : closed(X) => x \in X}
  BY DEF unskippable, Least
<1>2. t \in Normal /\ d \in Tasks
  BY <1>1, GraphAssumption DEF Normal
<1>3. ASSUME NEW X \in SUBSET Tasks, closed(X) PROVE d \in X
  <2>1. t \in X \cap Normal
    BY <1>1, <1>2, <1>3
  <2>2. d \in DependsOf(X \cap Normal)
    BY <2>1 DEF DependsOf
  <2> QED
    BY <1>3, <2>2
<1> HIDE DEF closed
<1> QED
  BY <1>1, <1>2, <1>3

\* ... and so do the targets that have no setscene task.
LEMMA CantskipUnskippable == cantskip \subseteq unskippable
<1> DEFINE top == {r \in Tasks : RevDeps(r) = {}} \cup cantskip
           closed(X) == top \cup DependsOf(X \cap Normal) \subseteq X
<1>1. unskippable = {x \in Tasks : \A X \in SUBSET Tasks : closed(X) => x \in X}
  BY DEF unskippable, Least
<1>2. cantskip \subseteq Tasks /\ \A X : closed(X) => cantskip \subseteq X
  BY SubsetsAssumption DEF cantskip
<1> HIDE DEF closed
<1> QED
  BY <1>1, <1>2

\* A setscene task that another or what it covers depends on is just below it.
LEMMA NextBelow ==
  ASSUME NEW d \in SceneTasks, NEW s \in SceneTasks, NEW t \in {s} \cup sq_covered_tasks[s],
         d \in Depends[t]
  PROVE  s \in sq_revdeps[d]
<1>1. d \in Depends[s] \cup DependsOf(sq_covered_tasks[s])
  BY DEF DependsOf
<1> QED
  BY <1>1 DEF sq_revdeps

-----------------------------------------------------------------------------
(* Type correctness *)

\* What deciding on setscene tasks may change, well typed afterwards.
DecisionTypes ==
    /\ sq_buildable \subseteq SceneTasks /\ sq_running \subseteq SceneTasks
    /\ Decided \subseteq SceneTasks /\ sq_harddep_deferred \subseteq SceneTasks
    /\ tasks_scenequeue_done \subseteq Tasks /\ holdoff_need_update \in BOOLEAN

\* The queue that __init__ builds is well typed.
LEMMA InitType == Init => TypeOK
<1> SUFFICES ASSUME Init PROVE TypeOK
  OBVIOUS
<1> DEFINE skipped == SceneTasks \cap (NoExec \cup Staged \cup Built)
<1>1. DoneAfter(unskippable \cap Normal, skipped) \subseteq Tasks
  BY DoneType, UnskippableType
<1>2. /\ hashes \in [{Hash[t] : t \in SceneTasks} -> SceneTasks]
      /\ sq_deferred \in [SceneTasks -> SceneTasks \cup {NoTask}]
  BY DEF Init, Leaders
<1>3. /\ sq_buildable \subseteq SceneTasks /\ sq_running \subseteq SceneTasks
      /\ Decided \subseteq SceneTasks /\ outrightfail \subseteq SceneTasks
      /\ restored \subseteq SceneTasks /\ runq_buildable \subseteq Tasks
  BY UnskippableType, SubsetsAssumption DEF Init, Decided, Enabled, Staged
<1>4. /\ sstate \subseteq Hashes /\ unihash \in [SceneTasks -> Hashes]
      /\ siggen \in [SceneTasks -> Hashes] /\ bb_unihash \in [SceneTasks -> Hashes]
  BY HashAssumption DEF Init
<1> QED
  BY <1>1, <1>2, <1>3, <1>4 DEF Init, TypeOK

\* Completing or skipping a setscene task keeps the queue well typed.
LEMMA CoverTypes ==
  ASSUME TypeOK, NEW t \in SceneTasks, Cover(t)
  PROVE  DecisionTypes'
<1>1. DoneAfter(tasks_scenequeue_done, {t}) \subseteq Tasks
  BY DoneType DEF TypeOK
<1> QED
  BY <1>1 DEF Cover, updatecounters, Enabled, Decided, DecisionTypes, TypeOK

\* ... failing it and those that insist on it does, too.
LEMMA UncoverTypes ==
  ASSUME TypeOK, NEW t \in SceneTasks, Uncover(t)
  PROVE  DecisionTypes'
<1>1. FailSet(t) \subseteq SceneTasks
  BY FailType DEF FailSet
<1>2. DoneAfter(tasks_scenequeue_done, FailSet(t)) \subseteq Tasks
  BY <1>1, DoneType DEF TypeOK
<1> QED
  BY <1>1, <1>2 DEF Uncover, updatecounters, Enabled, Decided, DecisionTypes, TypeOK

\* ... and so does the end of a task, with what was deferred after it.
LEMMA ReleaseTypes ==
  ASSUME TypeOK, NEW t \in Tasks, ReleaseDeferred(t)
  PROVE  /\ DecisionTypes' /\ outrightfail' \subseteq SceneTasks
         /\ sq_deferred' \in [SceneTasks -> SceneTasks \cup {NoTask}]
<1> DEFINE waiting == {d \in SceneTasks : sq_deferred[d] = t}
<1>1. CASE waiting = {}
  BY <1>1 DEF ReleaseDeferred, queueVars, Decided, DecisionTypes, TypeOK
<1>2. CASE waiting # {}
  <2>1. PICK found \in waiting :
           /\ sq_deferred' = [d \in SceneTasks |->
                  IF d = found THEN NoTask
                  ELSE IF d \in waiting THEN found ELSE sq_deferred[d]]
           /\ outrightfail' \in {outrightfail \ {found}, outrightfail \cup {found}}
           /\ Cover(found) \/ UNCHANGED <<queueVars, holdoff_need_update>>
    BY <1>2 DEF ReleaseDeferred
  <2>2. DecisionTypes'
    <3>1. CASE Cover(found)
      BY <3>1, CoverTypes
    <3>2. CASE UNCHANGED <<queueVars, holdoff_need_update>>
      BY <3>2 DEF queueVars, Decided, DecisionTypes, TypeOK
    <3> QED
      BY <2>1, <3>1, <3>2
  <2> QED
    BY <2>1, <2>2 DEF TypeOK
<1> QED
  BY <1>1, <1>2

\* update_holdofftasks computes sets of tasks.
LEMMA HoldoffTypes ==
  ASSUME TypeOK, update_holdofftasks
  PROVE  /\ tasks_covered' \subseteq Tasks /\ tasks_notcovered' \subseteq Tasks
         /\ holdoff_tasks' \subseteq Tasks /\ holdoff_need_update' \in BOOLEAN
         /\ runq_buildable' \subseteq Tasks
<1>1. CASE ~holdoff_need_update
  BY <1>1 DEF update_holdofftasks, holdVars, TypeOK
<1>2. CASE holdoff_need_update
  <2>1. \A S \in SUBSET SceneTasks : UNION {sq_covered_tasks[t] : t \in S} \subseteq Tasks
    BY CoveredType
  <2>2. holdoff_tasks' \subseteq Tasks
    BY <1>2, <2>1, GraphAssumption DEF update_holdofftasks
  <2>3. tasks_covered' \subseteq tasks_scenequeue_done /\ tasks_notcovered' \subseteq tasks_scenequeue_done
    BY <1>2 DEF update_holdofftasks
  <2>4. runq_buildable' \subseteq runq_buildable \cup tasks_covered' \cup tasks_notcovered'
    BY <1>2 DEF update_holdofftasks
  <2>5. holdoff_need_update' \in BOOLEAN
    BY <1>2 DEF update_holdofftasks
  <2> QED
    BY <2>2, <2>3, <2>4, <2>5 DEF TypeOK
<1> QED
  BY <1>1, <1>2 DEF TypeOK

\* What a migration changes, well typed afterwards.
DecideTypes ==
    /\ Decided \subseteq SceneTasks /\ sq_running \subseteq SceneTasks
    /\ sq_buildable \subseteq SceneTasks /\ tasks_scenequeue_done \subseteq Tasks
    /\ sq_deferred \in [SceneTasks -> SceneTasks \cup {NoTask}]
    /\ outrightfail \subseteq SceneTasks /\ sqdone \in BOOLEAN

\* Deciding anew on setscene tasks keeps the queue well typed.
LEMMA DecideAnewTypes ==
  ASSUME TypeOK, NEW S \in SUBSET SceneTasks, DecideAnew(S)
  PROVE  DecideTypes'
<1> DEFINE covered == scenequeue_covered \ S
           notcovered == scenequeue_notcovered \ S
           harddepfail == {t \in S : HardDeps[t] \cap notcovered # {}}
           stamped == {t \in S : unihash[t] \in Stamps[t]}
           failed == FailAll(harddepfail, covered \cup notcovered \cup stamped)
           F == stamped \cup failed
           below == (UNION {sq_covered_tasks[t] : t \in S}) \ (runq_complete \cup unskippable)
<1>1. failed \subseteq SceneTasks
  BY FailType
<1>2. DoneAfter(tasks_scenequeue_done \ (S \cup below), F) \subseteq Tasks
  BY <1>1, DoneType DEF TypeOK
<1>3. tasks_scenequeue_done' = DoneAfter(tasks_scenequeue_done \ (S \cup below), F)
  BY DEF DecideAnew
<1>4. Decided' \subseteq SceneTasks /\ sq_running' \subseteq SceneTasks
  BY <1>1 DEF DecideAnew, Decided, TypeOK
<1>5. sq_buildable' \subseteq SceneTasks
  BY <1>1 DEF DecideAnew, Enabled, TypeOK
<1>6. sq_deferred' \in [SceneTasks -> SceneTasks \cup {NoTask}]
  BY DEF DecideAnew, TypeOK
<1>7. outrightfail' \subseteq SceneTasks /\ sqdone' \in BOOLEAN
  BY DEF DecideAnew, TypeOK
<1> QED
  BY <1>2, <1>3, <1>4, <1>5, <1>6, <1>7 DEF DecideTypes

\* Every step of the queue, the workers and the tasks keeps it well typed.
LEMMA TypeStep == TypeOK /\ [Next]_vars => TypeOK'
<1> SUFFICES ASSUME TypeOK, [Next]_vars PROVE TypeOK'
  OBVIOUS
<1>1. ASSUME NEW x \in exits, ReadScene(x) PROVE TypeOK'
  <2>1. x.task \in SceneTasks
    BY <1>1 DEF ReadScene, ExitCode, TypeOK
  <2>2. DecisionTypes'
    BY <1>1, <2>1, CoverTypes, UncoverTypes DEF ReadScene, sq_task_complete, sq_task_fail
  <2> QED
    BY <1>1, <2>2 DEF ReadScene, taskVars, hashVars, DecisionTypes, TypeOK
<1>2. ASSUME NEW x \in exits, ReadComplete(x) PROVE TypeOK'
  <2>1. x.task \in Tasks
    BY DEF ExitCode, TypeOK
  <2>2. /\ DecisionTypes' /\ outrightfail' \subseteq SceneTasks
        /\ sq_deferred' \in [SceneTasks -> SceneTasks \cup {NoTask}]
    BY <1>2, <2>1, ReleaseTypes DEF ReadComplete, task_completeoutright
  <2>3. runq_complete' \subseteq Tasks /\ runq_buildable' \subseteq Tasks
    BY <1>2, <2>1 DEF ReadComplete, task_completeoutright, NewBuildable, RevDeps, TypeOK
  <2> QED
    BY <1>2, <2>1, <2>2, <2>3 DEF ReadComplete, hashVars, DecisionTypes, TypeOK
<1>3. ASSUME NEW x \in exits, ReadFailed(x) PROVE TypeOK'
  BY <1>3 DEF ReadFailed, sceneVars, queueVars, holdVars, hashVars, ExitCode, Decided, TypeOK
<1>4. ASSUME EndRead PROVE TypeOK'
  <2>1. /\ tasks_covered' \subseteq Tasks /\ tasks_notcovered' \subseteq Tasks
        /\ holdoff_tasks' \subseteq Tasks /\ holdoff_need_update' \in BOOLEAN
        /\ runq_buildable' \subseteq Tasks /\ pc' \in {"scene", "sched"}
    BY <1>4, HoldoffTypes DEF EndRead, ToSched, holdVars, TypeOK
  <2> QED
    BY <1>4, <2>1 DEF EndRead, sceneVars, queueVars, hashVars, worldVars, Decided, TypeOK
<1>5. ASSUME NEW t \in SceneTasks, SkipNotNeeded(t) PROVE TypeOK'
  <2>1. DecisionTypes'
    BY <1>5, CoverTypes DEF SkipNotNeeded
  <2> QED
    BY <1>5, <2>1 DEF SkipNotNeeded, Undefer, Return, taskVars, hashVars, worldVars, DecisionTypes, TypeOK
<1>6. ASSUME NEW t \in SceneTasks, WaitForHardDeps(t) PROVE TypeOK'
  BY <1>6, GraphAssumption DEF WaitForHardDeps, Return, holdVars, taskVars, hashVars, worldVars, Decided, TypeOK
<1>7. ASSUME NEW t \in SceneTasks, FailUnavailable(t) PROVE TypeOK'
  <2>1. DecisionTypes'
    BY <1>7, UncoverTypes DEF FailUnavailable
  <2> QED
    BY <1>7, <2>1 DEF FailUnavailable, Undefer, Return, taskVars, hashVars, worldVars, DecisionTypes, TypeOK
<1>8. ASSUME NEW t \in SceneTasks, StartScene(t) PROVE TypeOK'
  <2>1. /\ tasks_covered' \subseteq Tasks /\ tasks_notcovered' \subseteq Tasks
        /\ holdoff_tasks' \subseteq Tasks /\ holdoff_need_update' \in BOOLEAN
        /\ runq_buildable' \subseteq Tasks /\ pc' \in {"read", "finish", "sched"}
    BY <1>8, HoldoffTypes DEF StartScene, Return, ToSched, holdVars, TypeOK
  <2> QED
    BY <1>8, <2>1 DEF StartScene, Undefer, hashVars, worldVars, Decided, TypeOK
<1>9. ASSUME NoScene PROVE TypeOK'
  <2>1. /\ tasks_covered' \subseteq Tasks /\ tasks_notcovered' \subseteq Tasks
        /\ holdoff_tasks' \subseteq Tasks /\ holdoff_need_update' \in BOOLEAN
        /\ runq_buildable' \subseteq Tasks /\ pc' = "sched"
    BY <1>9, HoldoffTypes DEF NoScene, ToSched
  <2> QED
    BY <1>9, <2>1 DEF NoScene, sceneVars, queueVars, hashVars, worldVars, Decided, TypeOK
<1>10. ASSUME NEW t \in Tasks, PassThrough(t) PROVE TypeOK'
  <2>1. /\ DecisionTypes' /\ outrightfail' \subseteq SceneTasks
        /\ sq_deferred' \in [SceneTasks -> SceneTasks \cup {NoTask}]
    BY <1>10, ReleaseTypes DEF PassThrough, task_completeoutright
  <2>2. runq_complete' \subseteq Tasks /\ runq_buildable' \subseteq Tasks
    BY <1>10 DEF PassThrough, task_completeoutright, NewBuildable, RevDeps, TypeOK
  <2> QED
    BY <1>10, <2>1, <2>2 DEF PassThrough, Return, hashVars, worldVars, DecisionTypes, TypeOK
<1>11. ASSUME NEW t \in Tasks, RunTask(t) PROVE TypeOK'
  <2>1. bb_unihash' \in [SceneTasks -> Hashes]
    BY <1>11 DEF RunTask, TypeOK
  <2> QED
    BY <1>11, <2>1 DEF RunTask, Return, sceneVars, queueVars, holdVars, hashVars, Decided, TypeOK
<1>12. ASSUME NEW t \in SceneTasks, ForceDeferred(t) PROVE TypeOK'
  BY <1>12 DEF ForceDeferred, Undefer, Return, queueVars, holdVars, taskVars, hashVars, worldVars,
              Decided, TypeOK
<1>13. ASSUME WaitForTasks \/ FinishScene \/ Finished \/ FinishedCleanUp PROVE TypeOK'
  BY <1>13 DEF WaitForTasks, FinishScene, Finished, FinishedCleanUp, Return, sceneVars,
              queueVars, holdVars, taskVars, hashVars, worldVars, Decided, TypeOK
<1>14. ASSUME NEW t \in SceneTasks, NEW ok \in BOOLEAN, SceneEnds(t, ok) PROVE TypeOK'
  <2>1. [task |-> t, scene |-> TRUE, ok |-> ok] \in ExitCode
    BY GraphAssumption DEF ExitCode
  <2>2. exits' \subseteq ExitCode /\ restored' \subseteq SceneTasks
    BY <1>14, <2>1 DEF SceneEnds, TypeOK
  <2> QED
    BY <1>14, <2>2 DEF SceneEnds, sceneVars, queueVars, holdVars, taskVars, hashVars, Decided, TypeOK
<1>15. ASSUME NEW t \in Tasks, NEW ok \in BOOLEAN, TaskEnds(t, ok) PROVE TypeOK'
  <2>1. [task |-> t, scene |-> FALSE, ok |-> ok] \in ExitCode
    BY DEF ExitCode
  <2>2. exits' \subseteq ExitCode /\ sstate' \subseteq Hashes
    BY <1>15, <2>1 DEF TaskEnds, TypeOK
  <2> QED
    BY <1>15, <2>2 DEF TaskEnds, sceneVars, queueVars, holdVars, taskVars, hashVars, Decided, TypeOK
<1>16. ASSUME NEW x \in reports, ReadReport(x) PROVE TypeOK'
  BY <1>16 DEF ReadReport, sceneVars, queueVars, holdVars, taskVars, Decided, TypeOK
<1>17. ASSUME NEW t \in Reporting, NEW h \in Hashes, TaskReports(t, h) PROVE TypeOK'
  <2>1. [task |-> t, hash |-> h] \in Report /\ t \in SceneTasks
    BY HashAssumption DEF Report
  <2>2. bb_unihash' \in [SceneTasks -> Hashes]
    BY <1>17 DEF TaskReports, TypeOK
  <2> QED
    BY <1>17, <2>1, <2>2 DEF TaskReports, sceneVars, queueVars, holdVars, taskVars, hashVars,
                             Decided, TypeOK
<1>18. ASSUME Rehash PROVE TypeOK'
  <2>1. siggen' \in [SceneTasks -> Hashes]
    BY <1>18, RegeneratedType DEF Rehash
  <2>2. unihash' \in [SceneTasks -> Hashes]
    BY <1>18, <2>1, ToldType DEF Rehash
  <2>3. pending_migrations' \subseteq SceneTasks
    BY <1>18, TotalType DEF Rehash, TypeOK
  <2>4. /\ sq_needed_harddeps' \subseteq SceneTasks /\ sq_harddep_deferred' \subseteq SceneTasks
        /\ holdoff_need_update' \in BOOLEAN
    BY <1>18 DEF Rehash, Relook, TypeOK
  <2> QED
    BY <1>18, <2>1, <2>2, <2>3, <2>4 DEF Rehash, taskVars, worldVars, Decided, TypeOK
<1>19. ASSUME Migrate PROVE TypeOK'
  <2>1. Migrating \subseteq SceneTasks
    BY DEF Migrating, TypeOK
  <2>2. CASE Migrating = {}
    BY <1>19, <2>2 DEF Migrate, sceneVars, queueVars, holdVars, worldVars, Decided, TypeOK
  <2>3. ASSUME NEW t \in Migrating, HaltForRerun(t) PROVE TypeOK'
    <3>1. failed_tids' \subseteq Tasks /\ state' = "CleanUp"
      BY <2>1, <2>3, GraphAssumption DEF HaltForRerun, TypeOK
    <3> QED
      BY <1>19, <2>3, <3>1 DEF HaltForRerun, Migrate, sceneVars, queueVars, holdVars, worldVars,
                               Decided, TypeOK
  <2>4. ASSUME DecideAnew(Migrating), Relook,
               UNCHANGED <<state, sq_live, tasks_covered, tasks_notcovered, holdoff_tasks, failed_tids>>
        PROVE  TypeOK'
    <3>1. DecideTypes'
      BY <2>1, <2>4, DecideAnewTypes
    <3> QED
      BY <1>19, <2>4, <3>1 DEF DecideTypes, Migrate, Relook, worldVars, TypeOK
  <2> QED
    BY <1>19, <2>2, <2>3, <2>4 DEF Migrate
<1>20. CASE UNCHANGED vars
  BY <1>20 DEF vars, sceneVars, queueVars, holdVars, taskVars, hashVars, worldVars, Decided, TypeOK
<1> QED
  BY <1>1, <1>2, <1>3, <1>4, <1>5, <1>6, <1>7, <1>8, <1>9, <1>10, <1>11, <1>12, <1>13,
     <1>14, <1>15, <1>16, <1>17, <1>18, <1>19, <1>20 DEF Next, Execute, Processes, Terminated

\* The type invariant holds in every reachable state.
THEOREM TypeCorrect == Spec => []TypeOK
  BY InitType, TypeStep, PTL DEF Spec

-----------------------------------------------------------------------------
(* What deciding, releasing and holding off do to the invariants *)

\* Completing or skipping a setscene task decides it, and only it.
LEMMA CoverFacts ==
  ASSUME NEW t \in SceneTasks, Cover(t)
  PROVE  /\ Decided' = Decided \cup {t} /\ sq_running' = sq_running \cup {t}
         /\ scenequeue_covered' = scenequeue_covered \cup {t}
         /\ scenequeue_notcovered' = scenequeue_notcovered
         /\ holdoff_need_update' = TRUE
  BY DEF Cover, updatecounters, Decided

\* Failing one decides it and those that fail with it.
LEMMA UncoverFacts ==
  ASSUME NEW t \in SceneTasks, Uncover(t)
  PROVE  /\ Decided' = Decided \cup FailSet(t) /\ sq_running' = sq_running \cup FailSet(t)
         /\ scenequeue_covered' = scenequeue_covered
         /\ scenequeue_notcovered' = scenequeue_notcovered \cup FailSet(t)
         /\ holdoff_need_update' = TRUE
  BY DEF Uncover, updatecounters, Decided

\* An undecided task was not run, so a stamp for its hash lets it be skipped.
LEMMA UndecidedFacts ==
  ASSUME IInv, NEW s \in Undecided
  PROVE  s \notin Ran /\ (StampedNow(s) => s \in Skipped)
<1>1. s \notin runq_running
  BY DEF IInv, ApartInv
<1>2. runq_tasksrun \subseteq runq_running /\ Active \subseteq runq_running
  BY DEF IInv, ReadyInv, Active
<1>3. \A x \in exits : ~x.scene => x.task \in Active
  BY DEF IInv, ExitsInv
<1>4. s \notin Ran
  BY <1>1, <1>2, <1>3 DEF Ran
<1> QED
  BY <1>4 DEF Undecided, StampedNow, Skipped, Present

\* Neither what is decided nor what is being restored fails with another task.
LEMMA FailFacts ==
  ASSUME IInv, NEW t \in SceneTasks, t \notin Decided
  PROVE  /\ FailSet(t) \subseteq SceneTasks /\ t \in FailSet(t)
         /\ FailSet(t) \cap (sq_live \ {t}) = {} /\ FailSet(t) \cap Decided = {}
<1> DEFINE L == sq_live \ {t}
<1>1. ASSUME NEW s \in L \ Skipped PROVE HardDeps[s] \subseteq Decided \ {t}
  <2>1. s \in Undecided /\ (HardDeps[s] \subseteq Decided \/ StampedNow(s))
    BY DEF IInv, LiveInv, TypeOK, Undecided
  <2>2. ~StampedNow(s)
    BY <2>1, UndecidedFacts
  <2> QED
    BY <2>1, <2>2
<1>2. L \in SUBSET SceneTasks
  BY DEF IInv, TypeOK
<1>3. {t} \in SUBSET SceneTasks /\ {t} \cap L = {}
  OBVIOUS
<1> HIDE DEF L
<1>4. FailAll({t}, Decided) \cap L = {} /\ FailAll({t}, Decided) \cap (Decided \ {t}) = {}
  BY <1>1, <1>2, <1>3, FailSpares
<1>5. FailAll({t}, Decided) \subseteq SceneTasks /\ {t} \subseteq FailAll({t}, Decided)
  BY <1>3, FailType
<1> QED
  BY <1>4, <1>5 DEF FailSet, L

\* The end of a task decides at most one setscene task, one that was deferred
\* and has nothing to do, and what waited for other tasks waits for them still.
LEMMA ReleaseFacts ==
  ASSUME TypeOK, NEW t \in Tasks, ReleaseDeferred(t)
  PROVE  /\ \/ UNCHANGED <<scenequeue_covered, scenequeue_notcovered, sq_running,
                           holdoff_need_update>>
            \/ \E found \in SceneTasks :
                  /\ Deferred(found)
                  /\ scenequeue_covered' = scenequeue_covered \cup {found}
                  /\ scenequeue_notcovered' = scenequeue_notcovered
                  /\ sq_running' = sq_running \cup {found}
                  /\ holdoff_need_update' = TRUE
         /\ \A d \in SceneTasks : sq_deferred[d] # t => sq_deferred'[d] = sq_deferred[d]
<1> DEFINE waiting == {d \in SceneTasks : sq_deferred[d] = t}
<1>1. CASE waiting = {}
  BY <1>1 DEF ReleaseDeferred, queueVars
<1>2. CASE waiting # {}
  <2>1. PICK found \in waiting :
           /\ sq_deferred' = [d \in SceneTasks |->
                  IF d = found THEN NoTask
                  ELSE IF d \in waiting THEN found ELSE sq_deferred[d]]
           /\ Cover(found) \/ UNCHANGED <<queueVars, holdoff_need_update>>
    BY <1>2 DEF ReleaseDeferred
  <2>2. \A d \in waiting : Deferred(d)
    BY GraphAssumption DEF Deferred
  <2>3. \A d \in SceneTasks : sq_deferred[d] # t => sq_deferred'[d] = sq_deferred[d]
    BY <2>1
  <2>4. CASE Cover(found)
    BY <2>1, <2>2, <2>3, <2>4, CoverFacts
  <2>5. CASE UNCHANGED <<queueVars, holdoff_need_update>>
    BY <2>3, <2>5 DEF queueVars
  <2> QED
    BY <2>1, <2>4, <2>5
<1> QED
  BY <1>1, <1>2

\* After update_holdofftasks every undecided setscene task holds off what it
\* covers, what one that is not covered covers is not to be skipped, and what
\* became buildable is ready.
LEMMA HoldoffFacts ==
  ASSUME TypeOK, HoldInv, ReadyInv, update_holdofftasks
  PROVE  /\ holdoff_need_update' = FALSE
         /\ \A u \in Undecided :
               {u} \cup (sq_covered_tasks[u] \ runq_complete) \subseteq holdoff_tasks'
         /\ \A t \in scenequeue_notcovered : sq_covered_tasks[t] \cap tasks_covered' = {}
         /\ \A t \in runq_buildable' : Depends[t] \subseteq runq_complete
<1>1. CASE ~holdoff_need_update
  BY <1>1 DEF update_holdofftasks, holdVars, HoldInv, ReadyInv, TypeOK
<1>2. CASE holdoff_need_update
  <2>1. holdoff_tasks' = Undecided \cup
            ((Undecided \cup UNION {sq_covered_tasks[t] : t \in Undecided})
                \ (runq_complete \cup Undecided))
    BY <1>2 DEF update_holdofftasks, Undecided
  <2>2. \A t \in runq_buildable' \ runq_buildable : Depends[t] \subseteq runq_complete
    BY <1>2 DEF update_holdofftasks
  <2>3. holdoff_need_update' = FALSE
    BY <1>2 DEF update_holdofftasks
  <2>4. ASSUME NEW t \in scenequeue_notcovered, NEW d \in sq_covered_tasks[t],
               d \in tasks_covered'
        PROVE  FALSE
    BY <1>2, <2>4 DEF update_holdofftasks
  <2> QED
    BY <2>1, <2>2, <2>3, <2>4 DEF ReadyInv
<1> QED
  BY <1>1, <1>2

\* A setscene task that is skipped has a stamp for its hash, or is covered for
\* good, or was just restored, or was run.
LEMMA SkippedFacts ==
  ASSUME IInv, NEW s \in Skipped
  PROVE  StampedNow(s) \/ s \in Surely \/ s \in runq_running \/ s \in sq_live
<1>1. s \in SceneTasks /\ s \in Present
  BY DEF Skipped
<1>2. CASE s \in NoExec \cup Built
  BY <1>1, <1>2 DEF IInv, SkippedInv
<1>3. CASE s \in restored
  BY <1>3 DEF IInv, SkippedInv, ExitsInv
<1>4. CASE s \in Ran
  BY <1>4 DEF Ran, IInv, ReadyInv, ExitsInv, Active
<1> QED
  BY <1>1, <1>2, <1>3, <1>4 DEF Present, StampedNow

\* What migrates does not run and is not restored, nothing that it covers runs or
\* was skipped, and it is not covered for good.
LEMMA MigratingFacts ==
  ASSUME IInv, pc = "migrate", NEW t \in Migrating
  PROVE  /\ t \in SceneTasks /\ t \notin runq_running /\ t \notin sq_live /\ t \notin Surely
         /\ sq_covered_tasks[t] \cap (runq_running \ runq_complete) = {}
         /\ ~Rerun(t)
<1>1. t \in pending_migrations /\ t \notin Late /\ ~Blocked(t)
  BY DEF Migrating
<1>2. t \in SceneTasks
  BY <1>1 DEF IInv, TypeOK
<1>3. t \notin Surely
  BY <1>1 DEF IInv, PendInv, Late
<1> QED
  BY <1>1, <1>2, <1>3 DEF IInv, SkipInv, Rerun, Blocked, Late

\* What is decided anew is not covered for good, and what is covered for good
\* stays so. Nothing that is being restored fails. What is undecided afterwards
\* insists on nothing that is not covered, unless it has a stamp; what became
\* undecided has none.
LEMMA DecideFacts ==
  ASSUME IInv, pc = "migrate", DecideAnew(Migrating)
  PROVE  /\ Decided' \cap sq_live = {} /\ Surely \subseteq Surely'
         /\ Undecided' \subseteq Undecided \cup Migrating
         /\ scenequeue_notcovered \ Migrating \subseteq scenequeue_notcovered'
         /\ Decided' \subseteq sq_running' /\ sq_running \ Migrating \subseteq sq_running'
         /\ \A t \in SceneTasks \ Migrating : sq_deferred'[t] = sq_deferred[t]
         /\ \A u \in Undecided' :
               /\ u \in Migrating => ~StampedNow(u)
               /\ HardDeps[u] \cap scenequeue_notcovered' = {} \/ StampedNow(u)
<1> DEFINE S == Migrating
           covered == scenequeue_covered \ S
           notcovered == scenequeue_notcovered \ S
           harddepfail == {t \in S : HardDeps[t] \cap notcovered # {}}
           stamped == {t \in S : unihash[t] \in Stamps[t]}
           D == covered \cup notcovered \cup stamped
           failed == FailAll(harddepfail, D)
<1>1. /\ S \subseteq SceneTasks /\ S \cap sq_live = {} /\ S \cap Surely = {}
      /\ S \cap runq_running = {}
  BY MigratingFacts
<1>2. /\ scenequeue_covered' = covered \cup stamped
      /\ scenequeue_notcovered' = notcovered \cup failed
      /\ sq_running' = (sq_running \ S) \cup stamped \cup failed
  BY DEF DecideAnew
<1>3. \A t \in SceneTasks \ S : sq_deferred'[t] = sq_deferred[t]
  BY DEF DecideAnew
<1>4. sq_live \subseteq SceneTasks /\ sq_live \cap Decided = {} /\ sq_live \subseteq Undecided
  BY DEF IInv, LiveInv, TypeOK, Undecided
<1>5. ASSUME NEW s \in sq_live, ~StampedNow(s) PROVE HardDeps[s] \subseteq Surely
  <2>1. HardDeps[s] \subseteq Decided
    BY <1>5 DEF IInv, LiveInv
  <2>2. HardDeps[s] \cap scenequeue_notcovered = {}
    BY <1>4, <1>5 DEF IInv, HardInv, Migratory, Late
  <2> QED
    BY <2>1, <2>2 DEF Decided, Surely
<1>6. harddepfail \in SUBSET SceneTasks /\ harddepfail \cap sq_live = {} /\ harddepfail \subseteq S
  BY <1>1
<1>7. Surely \subseteq D \ harddepfail
  BY <1>1 DEF Surely
<1>8. \A s \in sq_live \ Skipped : HardDeps[s] \subseteq D \ harddepfail
  BY <1>4, <1>5, <1>7, UndecidedFacts
<1> HIDE DEF D, harddepfail
<1>9. failed \cap sq_live = {} /\ failed \cap (D \ harddepfail) = {}
  BY <1>4, <1>6, <1>8, FailSpares
<1>10. failed \subseteq SceneTasks /\ harddepfail \subseteq failed
  BY <1>6, FailType
<1>11. \A u \in SceneTasks \ (D \cup Skipped) : u \notin failed => HardDeps[u] \cap failed = {}
  BY <1>6, FailClosed
<1> HIDE DEF failed
<1>12. Decided' = D \cup failed
  BY <1>2 DEF Decided, D
<1>13. Surely \subseteq Surely'
  BY <1>1, <1>2, <1>7, <1>9 DEF Surely
<1>14. Undecided' \subseteq Undecided \cup S
  BY <1>12 DEF Undecided, Decided, D
<1>15. Decided' \cap sq_live = {} /\ Decided' \subseteq sq_running' /\ sq_running \ S \subseteq sq_running'
  <2>1. D \cap sq_live = {}
    BY <1>1, <1>4 DEF D, Decided
  <2>2. D \subseteq (sq_running \ S) \cup stamped
    BY DEF D, Decided, IInv, LiveInv
  <2> QED
    BY <1>2, <1>9, <1>12, <2>1, <2>2
<1>16. ASSUME NEW u \in Undecided', ~StampedNow(u)
       PROVE  HardDeps[u] \cap scenequeue_notcovered' = {}
  <2>1. u \in SceneTasks /\ u \notin D /\ u \notin failed
    BY <1>12 DEF Undecided
  <2>2. HardDeps[u] \cap notcovered = {}
    <3>1. CASE u \in S
      BY <1>10, <2>1, <3>1 DEF harddepfail
    <3>2. CASE u \notin S
      <4>1. u \in Undecided
        BY <1>14, <3>2
      <4>2. ~Migratory(u)
        BY <3>2, <4>1 DEF Migratory, Migrating, Blocked, IInv, ApartInv
      <4> QED
        BY <1>16, <4>1, <4>2 DEF IInv, HardInv
    <3> QED
      BY <3>1, <3>2
  <2>3. HardDeps[u] \cap failed = {}
    <3>1. CASE u \in sq_live
      BY <1>5, <1>7, <1>9, <1>16, <3>1
    <3>2. CASE u \notin sq_live
      <4>1. u \notin runq_running
        BY <1>1, <1>14 DEF IInv, ApartInv
      <4>2. u \notin Surely
        BY <1>7, <2>1
      <4>3. u \notin Skipped
        BY <1>16, <3>2, <4>1, <4>2, SkippedFacts
      <4> QED
        BY <1>11, <2>1, <4>3
    <3> QED
      BY <3>1, <3>2
  <2> QED
    BY <1>2, <2>2, <2>3
<1>17. ASSUME NEW u \in Undecided', u \in S PROVE ~StampedNow(u)
  BY <1>12, <1>17 DEF Undecided, D, StampedNow
<1>18. scenequeue_notcovered \ S \subseteq scenequeue_notcovered'
  BY <1>2
<1> QED
  BY <1>3, <1>13, <1>14, <1>15, <1>16, <1>17, <1>18

\* A migration never stops the build: it decides anew on what migrates.
LEMMA MigrateFacts ==
  ASSUME IInv, Migrate
  PROVE  /\ UNCHANGED <<sq_live, failed_tids, tasks_covered, holdoff_tasks>>
         /\ \/ DecideAnew(Migrating) /\ Relook /\ holdoff_need_update' = TRUE
            \/ Migrating = {} /\ UNCHANGED <<sqdone, sceneVars, holdVars>>
<1>1. pc = "migrate"
  BY DEF Migrate
<1>2. \A t \in Migrating : ~Rerun(t)
  BY <1>1, MigratingFacts
<1> QED
  BY <1>2 DEF Migrate, Relook, sceneVars, holdVars

\* What is restored insists on what is covered for good only, unless it has a
\* stamp.
LEMMA LiveFacts ==
  ASSUME IInv, NEW s \in sq_live, ~StampedNow(s)
  PROVE  HardDeps[s] \subseteq Surely
<1>1. HardDeps[s] \subseteq Decided /\ s \in Undecided
  BY DEF IInv, LiveInv, TypeOK, Undecided
<1>2. HardDeps[s] \cap scenequeue_notcovered = {}
  BY <1>1 DEF IInv, HardInv, Migratory, Late
<1> QED
  BY <1>1, <1>2 DEF Decided, Surely

\* A change of hashes leaves what is restored alone. Of what is undecided it
\* changes what then has a migration pending, and what is deferred after a task
\* that is complete and has no other update.
LEMMA RehashFacts ==
  ASSUME IInv, Rehash
  PROVE  /\ \A t \in sq_live : unihash'[t] = unihash[t]
         /\ pending_migrations \subseteq pending_migrations'
         /\ (pending_migrations' \ pending_migrations) \cap (scenequeue_covered \cup sq_live) = {}
         /\ updated_taskhash_queue' \subseteq updated_taskhash_queue
         /\ \A x \in updated_taskhash_queue' : x.task \notin runq_complete
         /\ \A u \in Undecided :
               \/ unihash'[u] = unihash[u] \/ u \in pending_migrations'
               \/ /\ sq_deferred[u] \in runq_complete
                  /\ \E x \in updated_taskhash_queue : x.task = sq_deferred[u]
<1>1. /\ updated_taskhash_queue' = updated_taskhash_queue \ Taken
      /\ pending_migrations \subseteq pending_migrations'
      /\ pending_migrations' \subseteq pending_migrations \cup (SceneTasks \ Kept)
      /\ \A t \in SceneTasks : unihash'[t] = Told[t] \/ t \in pending_migrations' \ Kept
  BY TotalType DEF Rehash
<1>2. ASSUME NEW t \in SceneTasks, Told[t] # unihash[t]
      PROVE  \E x \in Taken : x.task = t \/ sq_deferred[t] = x.task
  BY <1>2 DEF Told, toprocess, UpdatesOf
<1>3. \A x \in Taken : x.task \in runq_complete /\ x \in updated_taskhash_queue
  BY DEF Taken, IInv, ExitsInv
<1>4. \A t \in Undecided : t \notin runq_running
  BY DEF IInv, ApartInv
<1>5. runq_complete \subseteq runq_running /\ runq_complete \subseteq Tasks
  BY DEF IInv, ReadyInv, TypeOK
<1>6. \A t \in sq_live : t \in Undecided /\ t \in Kept /\ sq_deferred[t] = NoTask
  BY DEF IInv, LiveInv, TypeOK, Undecided, Kept, Deferred
<1>7. Undecided \subseteq SceneTasks /\ NoTask \notin Tasks
  BY GraphAssumption DEF Undecided
<1>8. \A t \in sq_live : unihash'[t] = unihash[t]
  BY <1>1, <1>2, <1>3, <1>4, <1>5, <1>6, <1>7
<1>9. \A x \in updated_taskhash_queue' : x.task \notin runq_complete
  BY <1>1 DEF Taken
<1>10. ASSUME NEW u \in Undecided, unihash'[u] # unihash[u], u \notin pending_migrations'
       PROVE  /\ sq_deferred[u] \in runq_complete
              /\ \E x \in updated_taskhash_queue : x.task = sq_deferred[u]
  BY <1>1, <1>2, <1>3, <1>4, <1>5, <1>7, <1>10
<1> QED
  BY <1>1, <1>8, <1>9, <1>10 DEF Kept

\* Only Rehash changes the hashes of tasks.
LEMMA HashStep == [Next]_vars => Rehash \/ unihash' = unihash
  BY DEF Next, Execute, Processes, Terminated, vars, hashVars, ReadScene, ReadComplete,
         ReadFailed, ReadReport, Migrate, EndRead, SkipNotNeeded, WaitForHardDeps,
         FailUnavailable, StartScene, ForceDeferred, NoScene, FinishScene, PassThrough, RunTask,
         WaitForTasks, Finished, FinishedCleanUp, SceneEnds, TaskEnds, TaskReports

\* What is covered for good stays so. Only a migration undoes decisions.
LEMMA DecidedStep ==
  ASSUME IInv, [Next]_vars
  PROVE  /\ Surely \subseteq Surely'
         /\ \/ /\ Undecided' \subseteq Undecided
               /\ scenequeue_notcovered \subseteq scenequeue_notcovered'
            \/ Migrate /\ Undecided' \subseteq Undecided \cup Migrating
<1> DEFINE Stays == /\ Surely \subseteq Surely' /\ Undecided' \subseteq Undecided
                    /\ scenequeue_notcovered \subseteq scenequeue_notcovered'
<1>1. ASSUME NEW t \in SceneTasks, Cover(t), t \notin Decided PROVE Stays
  BY <1>1, CoverFacts DEF Surely, Undecided, Decided
<1>2. ASSUME NEW t \in SceneTasks, Uncover(t), t \notin Decided PROVE Stays
  <2>1. FailSet(t) \cap Decided = {}
    BY <1>2, FailFacts
  <2> QED
    BY <1>2, <2>1, UncoverFacts DEF Surely, Undecided, Decided
<1>3. ASSUME NEW t \in Tasks, ReleaseDeferred(t) PROVE Stays
  BY <1>3, ReleaseFacts DEF IInv, Surely, Undecided, Decided
<1>4. ASSUME UNCHANGED <<scenequeue_covered, scenequeue_notcovered>> PROVE Stays
  BY <1>4 DEF Surely, Undecided, Decided
<1>5. ASSUME NEW x \in exits, ReadScene(x) PROVE Stays
  <2>1. x.task \in SceneTasks /\ x.task \notin Decided
    BY <1>5 DEF ReadScene, IInv, ExitsInv, LiveInv, TypeOK
  <2> QED
    BY <1>1, <1>2, <1>5, <2>1 DEF ReadScene, sq_task_complete, sq_task_fail
<1>6. ASSUME NEW x \in exits, ReadComplete(x) PROVE Stays
  BY <1>3, <1>6 DEF ReadComplete, task_completeoutright, IInv, TypeOK, ExitCode
<1>7. ASSUME NEW t \in Tasks, PassThrough(t) PROVE Stays
  BY <1>3, <1>7 DEF PassThrough, task_completeoutright
<1>8. ASSUME NEW t \in SceneTasks, SkipNotNeeded(t) \/ FailUnavailable(t) PROVE Stays
  <2>1. t \notin Decided
    BY <1>8 DEF SkipNotNeeded, FailUnavailable, PicksScene, Candidates, IInv, LiveInv
  <2> QED
    BY <1>1, <1>2, <1>8, <2>1 DEF SkipNotNeeded, FailUnavailable
<1>9. ASSUME Migrate PROVE Surely \subseteq Surely' /\ Undecided' \subseteq Undecided \cup Migrating
  <2>1. pc = "migrate"
    BY <1>9 DEF Migrate
  <2> QED
    BY <1>4, <1>9, <2>1, MigrateFacts, DecideFacts DEF sceneVars, queueVars
<1> HIDE DEF Stays
<1>10. Stays \/ Migrate
  BY <1>4, <1>5, <1>6, <1>7, <1>8
     DEF Next, Execute, Processes, Terminated, vars, sceneVars, queueVars, ReadFailed,
         ReadReport, Rehash, EndRead, WaitForHardDeps, StartScene, ForceDeferred, NoScene,
         FinishScene, RunTask, WaitForTasks, Finished, FinishedCleanUp, SceneEnds, TaskEnds,
         TaskReports
<1> QED
  BY <1>9, <1>10 DEF Stays

-----------------------------------------------------------------------------
(* The parts of the inductive invariant *)

\* What is being restored is undecided, and no failure of another task, no task
\* that ends and no migration decides it.
LEMMA LiveStep == IInv /\ [Next]_vars => LiveInv'
<1> SUFFICES ASSUME IInv, [Next]_vars PROVE LiveInv'
  OBVIOUS
<1> USE DEF IInv
<1>0. ASSUME NEW t \in sq_live PROVE HardDeps[t] \subseteq Decided' \/ StampedNow(t)'
  <2>1. unihash'[t] = unihash[t]
    BY HashStep, RehashFacts
  <2>2. StampedNow(t) \/ HardDeps[t] \subseteq Surely'
    BY LiveFacts, DecidedStep
  <2> QED
    BY <2>1, <2>2 DEF StampedNow, Surely, Decided
<1>1. ASSUME sq_live' \subseteq sq_live, Decided' \subseteq sq_running',
             \A t \in sq_live' : t \in sq_running' \ Decided' /\ ~Deferred(t)'
      PROVE  LiveInv'
  BY <1>0, <1>1 DEF LiveInv
<1>2. /\ sq_live \subseteq sq_running /\ sq_live \cap Decided = {} /\ sq_live \subseteq SceneTasks
      /\ Decided \subseteq sq_running /\ \A t \in sq_live : ~Deferred(t)
  BY DEF LiveInv, TypeOK
<1>3. ASSUME NEW x \in exits, ReadScene(x) PROVE LiveInv'
  <2>1. /\ x.task \in SceneTasks /\ x.task \in sq_live /\ x.task \notin Decided
        /\ sq_live' = sq_live \ {x.task} /\ sq_deferred' = sq_deferred
    BY <1>3 DEF ReadScene, ExitsInv, LiveInv, TypeOK
  <2>2. CASE x.ok
    BY <1>1, <1>2, <1>3, <2>1, <2>2, CoverFacts DEF ReadScene, sq_task_complete, Deferred
  <2>3. CASE ~x.ok
    <3>1. Uncover(x.task)
      BY <1>3, <2>3 DEF ReadScene, sq_task_fail
    <3>2. FailSet(x.task) \cap sq_live' = {}
      BY <2>1, FailFacts
    <3> QED
      BY <1>1, <1>2, <2>1, <3>1, <3>2, UncoverFacts DEF Deferred
  <2> QED
    BY <2>2, <2>3
<1>4. ASSUME NEW t \in Tasks, ReleaseDeferred(t), sq_live' = sq_live PROVE LiveInv'
  <2>1. \A d \in sq_live : sq_deferred[d] = NoTask /\ sq_deferred'[d] = NoTask
    BY <1>2, <1>4, ReleaseFacts, GraphAssumption DEF Deferred
  <2>2. Decided' \subseteq sq_running' /\ sq_running \subseteq sq_running' /\ Decided' \cap sq_live = {}
    BY <1>2, <1>4, ReleaseFacts DEF Decided
  <2> QED
    BY <1>1, <1>2, <1>4, <2>1, <2>2 DEF Deferred
<1>5. ASSUME NEW t \in SceneTasks, SkipNotNeeded(t) \/ FailUnavailable(t) PROVE LiveInv'
  <2>1. /\ t \notin sq_running /\ sq_live' = sq_live
        /\ sq_deferred' = [sq_deferred EXCEPT ![t] = NoTask]
    BY <1>5 DEF SkipNotNeeded, FailUnavailable, PicksScene, Candidates, Undefer
  <2>2. \A d \in SceneTasks : ~Deferred(d) => ~Deferred(d)'
    BY <2>1 DEF Deferred, TypeOK
  <2>3. t \notin Decided /\ t \notin sq_live
    BY <1>2, <2>1
  <2>4. FailSet(t) \cap sq_live = {}
    BY <2>3, FailFacts
  <2>5. Decided' \subseteq sq_running' /\ sq_running \subseteq sq_running' /\ Decided' \cap sq_live = {}
    <3>1. CASE Cover(t)
      BY <1>2, <2>3, <3>1, CoverFacts
    <3>2. CASE Uncover(t)
      BY <1>2, <2>3, <2>4, <3>2, UncoverFacts
    <3> QED
      BY <1>5, <3>1, <3>2 DEF SkipNotNeeded, FailUnavailable
  <2> QED
    BY <1>1, <1>2, <2>1, <2>2, <2>5
<1>6. ASSUME NEW t \in SceneTasks, StartScene(t) PROVE LiveInv'
  <2>1. t \notin Decided /\ HardDeps[t] \subseteq Decided
    BY <1>6 DEF StartScene, PicksScene, Candidates, MissesHardDeps, LiveInv
  <2>2. /\ Decided' = Decided /\ sq_running' = sq_running \cup {t}
        /\ sq_live' = sq_live \cup {t}
        /\ sq_deferred' = [sq_deferred EXCEPT ![t] = NoTask]
    BY <1>6 DEF StartScene, Undefer, Decided
  <2>3. \A d \in SceneTasks : ~Deferred(d) \/ d = t => ~Deferred(d)'
    BY <2>2 DEF Deferred, TypeOK
  <2> QED
    BY <1>0, <1>2, <2>1, <2>2, <2>3 DEF LiveInv
<1>7. ASSUME NEW t \in SceneTasks, WaitForHardDeps(t) PROVE LiveInv'
  BY <1>1, <1>2, <1>7 DEF WaitForHardDeps, Decided, Deferred
<1>8. ASSUME NEW t \in SceneTasks, ForceDeferred(t) PROVE LiveInv'
  BY <1>1, <1>2, <1>8 DEF ForceDeferred, Undefer, queueVars, Decided, Deferred, TypeOK
<1>9. ASSUME UNCHANGED <<sq_live, sq_running, sq_deferred, scenequeue_covered, scenequeue_notcovered>>
      PROVE  LiveInv'
  BY <1>1, <1>2, <1>9 DEF Decided, Deferred
<1>10. ASSUME NEW x \in exits, ReadComplete(x) PROVE LiveInv'
  BY <1>4, <1>10 DEF ReadComplete, task_completeoutright, ExitCode, TypeOK
<1>11. ASSUME NEW t \in Tasks, PassThrough(t) PROVE LiveInv'
  BY <1>4, <1>11 DEF PassThrough, task_completeoutright
<1>12. CASE Migrate
  <2>1. pc = "migrate" /\ sq_live' = sq_live
    BY <1>12, MigrateFacts DEF Migrate
  <2>2. CASE DecideAnew(Migrating)
    <3>1. sq_live \cap Migrating = {}
      BY <2>1, MigratingFacts
    <3> QED
      BY <1>1, <1>2, <2>1, <2>2, <3>1, DecideFacts DEF Deferred
  <2> QED
    BY <1>9, <1>12, <2>2, MigrateFacts DEF sceneVars, queueVars
<1> QED
  BY <1>3, <1>5, <1>6, <1>7, <1>8, <1>9, <1>10, <1>11, <1>12
     DEF Next, Execute, Processes, Terminated, vars, sceneVars, queueVars, ReadFailed, EndRead,
         ReadReport, Rehash, NoScene, FinishScene, RunTask, WaitForTasks, Finished,
         FinishedCleanUp, SceneEnds, TaskEnds, TaskReports

\* A process that ended keeps its place until its exit code is read, and that of a
\* task is read after its report.
LEMMA ExitsStep == IInv /\ [Next]_vars => ExitsInv'
<1> SUFFICES ASSUME IInv, [Next]_vars PROVE ExitsInv'
  OBVIOUS
<1> USE DEF IInv, Active, ExitsInv
<1>1. ASSUME NEW x \in exits, ReadScene(x) PROVE ExitsInv'
  BY <1>1 DEF ReadScene, taskVars, hashVars
<1>2. ASSUME NEW x \in exits, ReadComplete(x) PROVE ExitsInv'
  BY <1>2 DEF ReadComplete, task_completeoutright, hashVars, Unread
<1>3. ASSUME NEW x \in exits, ReadFailed(x) PROVE ExitsInv'
  BY <1>3 DEF ReadFailed, sceneVars, hashVars, Unread
<1>4. ASSUME NEW t \in Tasks, PassThrough(t) PROVE ExitsInv'
  BY <1>4 DEF PassThrough, task_completeoutright, Picks, Eligible, worldVars, hashVars
<1>5. ASSUME exits' = exits, sq_live \subseteq sq_live', runq_running \subseteq runq_running',
             UNCHANGED <<runq_complete, failed_tids>>, reports' \subseteq reports,
             updated_taskhash_queue' \subseteq updated_taskhash_queue \cup reports
      PROVE  ExitsInv'
  BY <1>5
<1>6. ASSUME NEW t \in SceneTasks, NEW ok \in BOOLEAN, SceneEnds(t, ok) PROVE ExitsInv'
  <2> DEFINE e == [task |-> t, scene |-> TRUE, ok |-> ok]
  <2>1. e.task = t /\ e.scene
    OBVIOUS
  <2>2. exits' = exits \cup {e} /\ t \in sq_live /\ \A x \in exits : x.task # t
    BY <1>6 DEF SceneEnds
  <2>3. UNCHANGED <<sq_live, runq_running, runq_complete, failed_tids, reports,
                    updated_taskhash_queue>>
    BY <1>6 DEF SceneEnds, sceneVars, taskVars, hashVars
  <2> HIDE DEF e
  <2> QED
    BY <2>1, <2>2, <2>3
<1>7. ASSUME NEW t \in Tasks, NEW ok \in BOOLEAN, TaskEnds(t, ok) PROVE ExitsInv'
  <2> DEFINE e == [task |-> t, scene |-> FALSE, ok |-> ok]
  <2>1. e.task = t /\ ~e.scene
    OBVIOUS
  <2>2. exits' = exits \cup {e} /\ t \in Active /\ \A x \in exits : x.task # t
    BY <1>7 DEF TaskEnds
  <2>3. UNCHANGED <<sq_live, runq_running, runq_complete, failed_tids, reports,
                    updated_taskhash_queue>>
    BY <1>7 DEF TaskEnds, sceneVars, taskVars, hashVars
  <2> HIDE DEF e
  <2> QED
    BY <2>1, <2>2, <2>3
<1>8. CASE EndRead \/ NoScene \/ FinishScene \/ WaitForTasks \/ Finished \/ FinishedCleanUp
  BY <1>5, <1>8 DEF EndRead, NoScene, FinishScene, WaitForTasks, Finished, FinishedCleanUp,
                    sceneVars, taskVars, worldVars, hashVars
<1>9. ASSUME NEW t \in SceneTasks,
             \/ SkipNotNeeded(t) \/ WaitForHardDeps(t) \/ FailUnavailable(t) \/ StartScene(t)
             \/ ForceDeferred(t)
      PROVE  ExitsInv'
  BY <1>5, <1>9 DEF SkipNotNeeded, WaitForHardDeps, FailUnavailable, StartScene, ForceDeferred,
                    taskVars, worldVars, hashVars
<1>10. ASSUME NEW t \in Tasks, RunTask(t) PROVE ExitsInv'
  BY <1>5, <1>10 DEF RunTask, sceneVars, hashVars
<1>11. CASE UNCHANGED vars
  BY <1>5, <1>11 DEF vars, sceneVars, taskVars, worldVars, hashVars
<1>12. ASSUME NEW x \in reports, ReadReport(x) PROVE ExitsInv'
  BY <1>5, <1>12 DEF ReadReport, sceneVars, taskVars
<1>13. ASSUME NEW t \in Reporting, NEW h \in Hashes, TaskReports(t, h) PROVE ExitsInv'
  <2> DEFINE e == [task |-> t, hash |-> h]
  <2>1. e.task = t
    OBVIOUS
  <2>2. reports' = reports \cup {e} /\ t \in Active
    BY <1>13 DEF TaskReports
  <2>3. UNCHANGED <<exits, sq_live, runq_running, runq_complete, failed_tids,
                    updated_taskhash_queue>>
    BY <1>13 DEF TaskReports, sceneVars, taskVars, hashVars
  <2> HIDE DEF e
  <2> QED
    BY <2>1, <2>2, <2>3
<1>14. CASE Rehash
  BY <1>5, <1>14 DEF Rehash, taskVars, worldVars
<1>15. CASE Migrate
  BY <1>5, <1>15, MigrateFacts DEF Migrate, worldVars
<1> QED
  BY <1>1, <1>2, <1>3, <1>4, <1>6, <1>7, <1>8, <1>9, <1>10, <1>11, <1>12, <1>13, <1>14, <1>15
     DEF Next, Execute, Processes, Terminated

\* The tasks held off are up to date whenever a task is picked.
LEMMA HoldStep == IInv /\ [Next]_vars => HoldInv'
<1> SUFFICES ASSUME IInv, [Next]_vars PROVE HoldInv'
  OBVIOUS
<1> USE DEF IInv, HoldInv, Undecided
<1>1. ASSUME holdoff_need_update' = TRUE, pc' # "sched" PROVE HoldInv'
  BY <1>1
<1>2. ASSUME UNCHANGED <<Decided, scenequeue_notcovered, tasks_covered, holdoff_tasks,
                         holdoff_need_update>>,
             runq_complete \subseteq runq_complete', pc' # "sched" \/ pc' = pc
      PROVE  HoldInv'
  BY <1>2
<1>3. ASSUME update_holdofftasks, UNCHANGED <<Decided, scenequeue_notcovered, runq_complete>>
      PROVE  HoldInv'
  BY <1>3, HoldoffFacts
<1>4. ASSUME NEW x \in exits, ReadScene(x) PROVE HoldInv'
  <2>1. x.task \in SceneTasks /\ pc' # "sched"
    BY <1>4 DEF ReadScene, ExitCode, TypeOK
  <2> QED
    BY <1>1, <1>4, <2>1, CoverFacts, UncoverFacts DEF ReadScene, sq_task_complete, sq_task_fail
<1>5. ASSUME NEW t \in SceneTasks, SkipNotNeeded(t) \/ FailUnavailable(t) PROVE HoldInv'
  BY <1>1, <1>5, CoverFacts, UncoverFacts DEF SkipNotNeeded, FailUnavailable, Return
<1>6. ASSUME NEW t \in Tasks, ReleaseDeferred(t), UNCHANGED <<tasks_covered, holdoff_tasks>>,
             runq_complete \subseteq runq_complete', pc' # "sched"
      PROVE  HoldInv'
  <2>1. \/ holdoff_need_update' = TRUE
        \/ UNCHANGED <<Decided, scenequeue_notcovered, holdoff_need_update>>
    BY <1>6, ReleaseFacts DEF Decided
  <2> QED
    BY <1>1, <1>2, <1>6, <2>1
<1>7. ASSUME NEW x \in exits, ReadComplete(x) PROVE HoldInv'
  BY <1>6, <1>7 DEF ReadComplete, task_completeoutright, ExitCode, TypeOK
<1>8. ASSUME NEW t \in Tasks, PassThrough(t) PROVE HoldInv'
  BY <1>6, <1>8 DEF PassThrough, task_completeoutright, Return
<1>9. ASSUME NEW x \in exits, ReadFailed(x) PROVE HoldInv'
  BY <1>2, <1>9 DEF ReadFailed, sceneVars, queueVars, holdVars, Decided
<1>10. CASE EndRead
  BY <1>2, <1>3, <1>10 DEF EndRead, ToSched, sceneVars, queueVars, Decided, holdVars
<1>11. CASE NoScene
  BY <1>3, <1>11 DEF NoScene, ToSched, sceneVars, queueVars, Decided
<1>12. ASSUME NEW t \in SceneTasks, StartScene(t) PROVE HoldInv'
  BY <1>2, <1>3, <1>12 DEF StartScene, Return, ToSched, Decided, holdVars
<1>13. ASSUME NEW t \in SceneTasks, WaitForHardDeps(t) \/ ForceDeferred(t) PROVE HoldInv'
  BY <1>2, <1>13 DEF WaitForHardDeps, ForceDeferred, Return, queueVars, taskVars, holdVars, Decided
<1>14. ASSUME NEW t \in Tasks, RunTask(t) PROVE HoldInv'
  BY <1>2, <1>14 DEF RunTask, Return, sceneVars, queueVars, holdVars, Decided
<1>15. CASE FinishScene \/ WaitForTasks \/ Finished \/ FinishedCleanUp
  BY <1>2, <1>15 DEF FinishScene, WaitForTasks, Finished, FinishedCleanUp, Return, sceneVars,
                     queueVars, taskVars, holdVars, Decided
<1>16. ASSUME NEW t \in Tasks, NEW ok \in BOOLEAN, SceneEnds(t, ok) \/ TaskEnds(t, ok)
       PROVE  HoldInv'
  BY <1>2, <1>16 DEF SceneEnds, TaskEnds, sceneVars, queueVars, taskVars, holdVars, Decided
<1>17. ASSUME NEW t \in Reporting, NEW h \in Hashes, TaskReports(t, h) PROVE HoldInv'
  BY <1>2, <1>17 DEF TaskReports, sceneVars, queueVars, taskVars, holdVars, Decided
<1>18. ASSUME NEW x \in reports, ReadReport(x) PROVE HoldInv'
  BY <1>2, <1>18 DEF ReadReport, sceneVars, queueVars, taskVars, holdVars, Decided
<1>19. CASE Rehash
  BY <1>1, <1>2, <1>19 DEF Rehash, Relook, taskVars, Decided
<1>20. CASE Migrate
  <2>1. pc' = "migrated" /\ runq_complete' = runq_complete
    BY <1>20 DEF Migrate
  <2> QED
    BY <1>1, <1>2, <1>20, <2>1, MigrateFacts DEF sceneVars, queueVars, holdVars, Decided
<1>21. CASE UNCHANGED vars
  BY <1>2, <1>21 DEF vars, sceneVars, queueVars, taskVars, holdVars, Decided
<1> QED
  BY <1>4, <1>5, <1>7, <1>8, <1>9, <1>10, <1>11, <1>12, <1>13, <1>14, <1>15, <1>16, <1>17, <1>18,
     <1>19, <1>20, <1>21, HashAssumption, GraphAssumption DEF Next, Execute, Processes, Terminated

\* What an undecided setscene task covers stays inactive: a task that is held off
\* is not picked, and what a running task covers is not decided anew.
LEMMA ApartStep == IInv /\ [Next]_vars => ApartInv'
<1> SUFFICES ASSUME IInv, [Next]_vars PROVE ApartInv'
  OBVIOUS
<1>1. ASSUME Undecided' \subseteq Undecided, Undecided \cap runq_running' \subseteq runq_running,
             runq_running' \ runq_complete' \subseteq runq_running \ runq_complete
      PROVE  ApartInv'
  BY <1>1 DEF IInv, ApartInv
<1>2. CASE Migrate
  <2>1. pc = "migrate" /\ runq_running' = runq_running /\ runq_complete' = runq_complete
    BY <1>2 DEF Migrate
  <2>2. Undecided' \subseteq Undecided \cup Migrating
    BY <1>2, DecidedStep
  <2> QED
    BY <2>1, <2>2, MigratingFacts DEF IInv, ApartInv
<1>3. ASSUME NEW t \in Tasks, Picks(t) PROVE \A u \in Undecided : t # u /\ t \notin sq_covered_tasks[u]
  <2>1. t \notin holdoff_tasks /\ pc = "sched" /\ t \notin runq_running
    BY <1>3 DEF Picks, Eligible
  <2> QED
    BY <2>1 DEF IInv, HoldInv, ReadyInv
<1>4. ASSUME NEW t \in Tasks, RunTask(t) PROVE ApartInv'
  <2>1. Undecided' = Undecided
    BY <1>4 DEF RunTask, sceneVars, queueVars, Undecided, Decided
  <2> QED
    BY <1>3, <1>4, <2>1 DEF RunTask, IInv, ApartInv
<1>5. CASE ~Migrate /\ ~\E t \in Tasks : RunTask(t)
  <2>1. Undecided' \subseteq Undecided
    BY <1>5, DecidedStep
  <2>2. ASSUME NEW t \in Tasks, PassThrough(t) PROVE ApartInv'
    BY <1>1, <1>3, <2>1, <2>2 DEF PassThrough, task_completeoutright
  <2>3. ASSUME NEW x \in exits, ReadComplete(x) PROVE ApartInv'
    BY <1>1, <2>1, <2>3 DEF ReadComplete, task_completeoutright
  <2>4. CASE UNCHANGED <<runq_running, runq_complete>>
    BY <1>1, <2>1, <2>4
  <2> QED
    BY <1>5, <2>2, <2>3, <2>4
     DEF Next, Execute, Processes, Terminated, vars, taskVars, ReadScene, ReadFailed, ReadReport,
         Rehash, EndRead, SkipNotNeeded, WaitForHardDeps, FailUnavailable, StartScene,
         ForceDeferred, NoScene, FinishScene, WaitForTasks, Finished, FinishedCleanUp,
         SceneEnds, TaskEnds, TaskReports
<1> QED
  BY <1>2, <1>4, <1>5

\* What is buildable has everything it depends on complete.
LEMMA ReadyStep == IInv /\ [Next]_vars => ReadyInv'
<1> SUFFICES ASSUME IInv, [Next]_vars PROVE ReadyInv'
  OBVIOUS
<1> USE DEF IInv, ReadyInv
<1>1. ASSUME NEW x \in exits, ReadComplete(x) PROVE ReadyInv'
  <2>1. x.task \in runq_running
    BY <1>1 DEF ReadComplete, ExitsInv, Active
  <2> QED
    BY <1>1, <2>1 DEF ReadComplete, task_completeoutright, NewBuildable
<1>2. ASSUME NEW t \in Tasks, PassThrough(t) PROVE ReadyInv'
  BY <1>2 DEF PassThrough, Picks, Eligible, task_completeoutright, NewBuildable
<1>3. ASSUME update_holdofftasks, UNCHANGED <<runq_running, runq_complete, runq_tasksrun>>
      PROVE  ReadyInv'
  BY <1>3, HoldoffFacts
<1>4. ASSUME UNCHANGED <<runq_buildable, runq_running, runq_complete, runq_tasksrun>>
      PROVE  ReadyInv'
  BY <1>4
<1>5. CASE EndRead \/ NoScene
  BY <1>3, <1>4, <1>5 DEF EndRead, NoScene, ToSched
<1>6. ASSUME NEW t \in SceneTasks, StartScene(t) PROVE ReadyInv'
  BY <1>3, <1>4, <1>6 DEF StartScene, ToSched
<1>7. ASSUME NEW t \in Tasks, RunTask(t) PROVE ReadyInv'
  BY <1>7 DEF RunTask, Picks, Eligible
<1> QED
  BY <1>1, <1>2, <1>4, <1>5, <1>6, <1>7
     DEF Next, Execute, Processes, Terminated, vars, taskVars, ReadScene, ReadFailed, ReadReport,
         Rehash, Migrate, SkipNotNeeded, WaitForHardDeps, FailUnavailable, ForceDeferred,
         FinishScene, WaitForTasks, Finished, FinishedCleanUp, SceneEnds, TaskEnds, TaskReports

\* No update waits of a task that is complete once the changes of hashes are done.
LEMMA SettledStep == IInv /\ [Next]_vars => SettledInv'
<1> SUFFICES ASSUME IInv, [Next]_vars PROVE SettledInv'
  OBVIOUS
<1> USE DEF IInv, SettledInv
<1>1. ASSUME UNCHANGED <<updated_taskhash_queue, runq_complete>>,
             \/ pc \in {"migrate", "migrated", "scene", "sched"}
             \/ pc' = pc
      PROVE  SettledInv'
  BY <1>1
<1>2. ASSUME pc' \in {"read", "finish", "ended"} PROVE SettledInv'
  BY <1>2
<1>3. ASSUME NEW x \in exits, ReadScene(x) \/ ReadComplete(x) \/ ReadFailed(x) PROVE SettledInv'
  BY <1>2, <1>3 DEF ReadScene, ReadComplete, ReadFailed
<1>4. ASSUME NEW x \in reports, ReadReport(x) PROVE SettledInv'
  BY <1>2, <1>4 DEF ReadReport
<1>5. CASE Rehash
  BY <1>5, RehashFacts DEF Rehash, taskVars
<1>6. CASE Migrate
  BY <1>1, <1>6 DEF Migrate
<1>7. CASE EndRead
  BY <1>1, <1>7 DEF EndRead, Rehashing, hashVars
<1>8. ASSUME NEW t \in SceneTasks, SkipNotNeeded(t) \/ FailUnavailable(t) PROVE SettledInv'
  BY <1>1, <1>8 DEF SkipNotNeeded, FailUnavailable, PicksScene, taskVars, hashVars
<1>9. ASSUME NEW t \in SceneTasks, WaitForHardDeps(t) \/ StartScene(t) PROVE SettledInv'
  BY <1>1, <1>9 DEF WaitForHardDeps, StartScene, PicksScene, taskVars, hashVars
<1>10. ASSUME NEW t \in SceneTasks, ForceDeferred(t) PROVE SettledInv'
  BY <1>1, <1>10 DEF ForceDeferred, Stuck, taskVars, hashVars
<1>11. CASE NoScene
  BY <1>1, <1>11 DEF NoScene, hashVars
<1>12. ASSUME NEW t \in Tasks, PassThrough(t) \/ RunTask(t) PROVE SettledInv'
  BY <1>2, <1>12 DEF PassThrough, RunTask, Return
<1>13. CASE FinishScene \/ WaitForTasks \/ Finished \/ FinishedCleanUp
  BY <1>1, <1>2, <1>13 DEF FinishScene, WaitForTasks, Finished, FinishedCleanUp, Return, taskVars, hashVars
<1>14. ASSUME NEW t \in Tasks, NEW ok \in BOOLEAN, SceneEnds(t, ok) \/ TaskEnds(t, ok)
       PROVE  SettledInv'
  BY <1>1, <1>14 DEF SceneEnds, TaskEnds, taskVars, hashVars
<1>15. ASSUME NEW t \in Reporting, NEW h \in Hashes, TaskReports(t, h) PROVE SettledInv'
  BY <1>1, <1>15 DEF TaskReports, taskVars, hashVars
<1>16. CASE UNCHANGED vars
  BY <1>1, <1>16 DEF vars, taskVars, hashVars
<1> QED
  BY <1>3, <1>4, <1>5, <1>6, <1>7, <1>8, <1>9, <1>10, <1>11, <1>12, <1>13, <1>14, <1>15, <1>16,
     HashAssumption, GraphAssumption DEF Next, Execute, Processes, Terminated

\* What is skipped is covered by tasks that stay covered.
LEMMA SkipStep == IInv /\ [Next]_vars => SkipInv'
<1> SUFFICES ASSUME IInv, [Next]_vars PROVE SkipInv'
  OBVIOUS
<1>1. ASSUME runq_complete' \ runq_tasksrun' \subseteq runq_complete \ runq_tasksrun PROVE SkipInv'
  BY <1>1, DecidedStep DEF IInv, SkipInv
<1>2. ASSUME NEW x \in exits, ReadComplete(x) PROVE SkipInv'
  BY <1>1, <1>2 DEF ReadComplete, task_completeoutright
<1>3. ASSUME NEW t \in Tasks, PassThrough(t) PROVE SkipInv'
  <2>1. runq_complete' = runq_complete \cup {t}
    BY <1>3 DEF PassThrough, task_completeoutright
  <2>2. CASE t \notin tasks_covered
    BY <1>1, <1>3, <2>1, <2>2 DEF PassThrough
  <2>3. CASE t \in tasks_covered
    <3>1. pc = "sched" /\ t \notin holdoff_tasks /\ t \notin runq_complete
      BY <1>3 DEF PassThrough, Picks, Eligible, IInv, ReadyInv
    <3>2. ASSUME NEW s \in SceneTasks, t \in sq_covered_tasks[s] PROVE s \in Surely
      <4>1. s \notin Undecided /\ s \notin scenequeue_notcovered
        BY <2>3, <3>1, <3>2 DEF IInv, HoldInv
      <4> QED
        BY <4>1 DEF Undecided, Decided, Surely
    <3>3. runq_complete' \ runq_tasksrun' \subseteq (runq_complete \ runq_tasksrun) \cup {t}
      BY <1>3, <2>1 DEF PassThrough
    <3> QED
      BY <3>2, <3>3, DecidedStep DEF IInv, SkipInv
  <2> QED
    BY <2>2, <2>3
<1>4. CASE UNCHANGED <<runq_complete, runq_tasksrun>>
  BY <1>1, <1>4
<1> QED
  BY <1>2, <1>3, <1>4
     DEF Next, Execute, Processes, Terminated, vars, taskVars, ReadScene, ReadFailed, ReadReport,
         Rehash, Migrate, EndRead, SkipNotNeeded, WaitForHardDeps, FailUnavailable, StartScene,
         ForceDeferred, NoScene, FinishScene, RunTask, WaitForTasks, Finished, FinishedCleanUp,
         SceneEnds, TaskEnds, TaskReports

\* A migration stays pending only for what is not covered, or has run.
LEMMA PendStep == IInv /\ [Next]_vars => PendInv'
<1> SUFFICES ASSUME IInv, [Next]_vars PROVE PendInv'
  OBVIOUS
<1>1. CASE Rehash
  <2>1. /\ pc = "read" /\ pc' = "migrate" /\ UNCHANGED <<sq_live, runq_running>>
        /\ Surely' = Surely
    BY <1>1 DEF Rehash, taskVars, Surely
  <2>2. \A t \in pending_migrations' \ pending_migrations : t \notin sq_live /\ t \notin Surely
    BY <1>1, RehashFacts DEF Surely
  <2> QED
    BY <2>1, <2>2 DEF IInv, PendInv, Surely
<1>2. CASE Migrate
  <2>1. /\ pc = "migrate" /\ pc' = "migrated" /\ sq_live' = sq_live
        /\ pending_migrations' = {t \in pending_migrations \ Late : Blocked(t)}
    BY <1>2, MigrateFacts DEF Migrate
  <2>2. ASSUME NEW t \in pending_migrations' PROVE t \in scenequeue_notcovered \ Migrating
    <3>1. t \notin Undecided /\ t \in SceneTasks
      BY <2>1 DEF Blocked, IInv, ApartInv, TypeOK
    <3>2. t \notin Surely
      BY <2>1 DEF Late, IInv, PendInv
    <3> QED
      BY <2>1, <3>1, <3>2 DEF Migrating, Undecided, Decided, Surely
  <2>3. scenequeue_notcovered \ Migrating \subseteq scenequeue_notcovered'
    BY <1>2, <2>1, MigrateFacts, DecideFacts DEF sceneVars, queueVars
  <2> QED
    BY <2>1, <2>2, <2>3 DEF PendInv, Late
<1>3. ASSUME UNCHANGED <<pc, pending_migrations, sq_live, runq_running, scenequeue_covered,
                         scenequeue_notcovered>>
      PROVE  PendInv'
  BY <1>3 DEF IInv, PendInv, Surely
<1>4. ASSUME ~Migrate, pc # "migrate", pc' # "migrate", pending_migrations' = pending_migrations,
             \A t \in sq_live' \ sq_live : t \in Undecided, runq_running \subseteq runq_running'
      PROVE  PendInv'
  <2>1. \A t \in pending_migrations : t \notin Undecided
    BY <1>4 DEF IInv, PendInv, ApartInv, Undecided, Decided
  <2>2. scenequeue_notcovered \subseteq scenequeue_notcovered'
    BY <1>4, DecidedStep
  <2> QED
    BY <1>4, <2>1, <2>2 DEF IInv, PendInv
<1>5. ASSUME NEW t \in SceneTasks, StartScene(t) PROVE PendInv'
  <2>1. t \in Undecided
    BY <1>5 DEF StartScene, PicksScene, Candidates, IInv, LiveInv, Undecided
  <2>2. ~Migrate
    BY <1>5 DEF StartScene, PicksScene, Migrate
  <2> QED
    BY <1>4, <1>5, <2>1, <2>2 DEF StartScene, PicksScene, Return, ToSched, hashVars
<1>6. ASSUME NEW x \in exits, ReadScene(x) \/ ReadComplete(x) \/ ReadFailed(x) PROVE PendInv'
  <2>1. ~Migrate
    BY <1>6 DEF ReadScene, ReadComplete, ReadFailed, Migrate
  <2> QED
    BY <1>4, <1>6, <2>1 DEF ReadScene, ReadComplete, ReadFailed, taskVars, sceneVars, hashVars
<1>7. ASSUME NEW x \in reports, ReadReport(x) PROVE PendInv'
  BY <1>3, <1>7 DEF ReadReport, taskVars, sceneVars, queueVars
<1>8. ASSUME NEW t \in SceneTasks,
             SkipNotNeeded(t) \/ FailUnavailable(t) \/ WaitForHardDeps(t) \/ ForceDeferred(t)
      PROVE  PendInv'
  <2>1. pc \in {"scene", "sched"} /\ ~Migrate
    BY <1>8 DEF SkipNotNeeded, FailUnavailable, WaitForHardDeps, ForceDeferred, PicksScene, Stuck, Migrate
  <2> QED
    BY <1>4, <1>8, <2>1 DEF SkipNotNeeded, FailUnavailable, WaitForHardDeps, ForceDeferred, Return,
                            taskVars, hashVars
<1>9. ASSUME NEW t \in Tasks, PassThrough(t) \/ RunTask(t) PROVE PendInv'
  <2>1. pc = "sched" /\ ~Migrate
    BY <1>9 DEF PassThrough, RunTask, Picks, Migrate
  <2> QED
    BY <1>4, <1>9, <2>1 DEF PassThrough, RunTask, Return, sceneVars, hashVars
<1>10. CASE EndRead \/ NoScene \/ FinishScene \/ WaitForTasks \/ Finished \/ FinishedCleanUp
  <2>1. pc # "migrate" /\ pc' # "migrate" /\ ~Migrate
    BY <1>10 DEF EndRead, ToSched, NoScene, FinishScene, WaitForTasks, Stuck, Finished,
                 FinishedCleanUp, Return, Migrate
  <2> QED
    BY <1>4, <1>10, <2>1 DEF EndRead, NoScene, FinishScene, WaitForTasks, Finished,
                 FinishedCleanUp, taskVars, sceneVars, hashVars
<1>11. ASSUME NEW t \in Tasks, NEW ok \in BOOLEAN, SceneEnds(t, ok) \/ TaskEnds(t, ok) PROVE PendInv'
  BY <1>3, <1>11 DEF SceneEnds, TaskEnds, taskVars, sceneVars, queueVars, hashVars
<1>12. ASSUME NEW t \in Reporting, NEW h \in Hashes, TaskReports(t, h) PROVE PendInv'
  BY <1>3, <1>12 DEF TaskReports, taskVars, sceneVars, queueVars, hashVars
<1>13. CASE UNCHANGED vars
  BY <1>3, <1>13 DEF vars, taskVars, sceneVars, queueVars, hashVars
<1> QED
  BY <1>1, <1>2, <1>5, <1>6, <1>7, <1>8, <1>9, <1>10, <1>11, <1>12, <1>13,
     HashAssumption, GraphAssumption DEF Next, Execute, Processes, Terminated

\* What is restored is covered as soon as its exit code is read.
LEMMA SkippedStep == IInv /\ [Next]_vars => SkippedInv'
<1> SUFFICES ASSUME IInv, [Next]_vars PROVE SkippedInv'
  OBVIOUS
<1>1. Surely \subseteq Surely'
  BY DecidedStep
<1>2. ASSUME restored' = restored, exits \subseteq exits' PROVE SkippedInv'
  BY <1>1, <1>2 DEF IInv, SkippedInv
<1>3. ASSUME NEW x \in exits, ReadScene(x) PROVE SkippedInv'
  <2>1. x.ok => x.task \in Surely'
    <3>1. x.task \in SceneTasks /\ x.task \notin Decided
      BY <1>3 DEF ReadScene, IInv, ExitsInv, LiveInv, TypeOK
    <3> QED
      BY <1>3, <3>1, CoverFacts DEF ReadScene, sq_task_complete, Decided, Surely
  <2> QED
    BY <1>1, <1>3, <2>1 DEF ReadScene, IInv, SkippedInv
<1>4. ASSUME NEW x \in exits, ReadComplete(x) \/ ReadFailed(x) PROVE SkippedInv'
  BY <1>1, <1>4 DEF ReadComplete, ReadFailed, IInv, SkippedInv
<1>5. ASSUME NEW t \in SceneTasks, NEW ok \in BOOLEAN, SceneEnds(t, ok) PROVE SkippedInv'
  <2> DEFINE e == [task |-> t, scene |-> TRUE, ok |-> ok]
  <2>1. e.task = t /\ e.scene /\ e.ok = ok
    OBVIOUS
  <2>2. exits' = exits \cup {e} /\ restored' = IF ok THEN restored \cup {t} ELSE restored
    BY <1>5 DEF SceneEnds
  <2> HIDE DEF e
  <2> QED
    BY <1>1, <2>1, <2>2 DEF IInv, SkippedInv
<1> QED
  BY <1>2, <1>3, <1>4, <1>5
     DEF Next, Execute, Processes, Terminated, vars, worldVars, ReadReport, Rehash, Migrate, EndRead,
         SkipNotNeeded, WaitForHardDeps, FailUnavailable, StartScene, ForceDeferred, NoScene,
         FinishScene, PassThrough, RunTask, WaitForTasks, Finished, FinishedCleanUp, TaskEnds,
         TaskReports

\* What has a migration pending and is undecided migrates at once.
LEMMA MigratoryFacts ==
  ASSUME IInv, NEW t \in Undecided, Migratory(t)
  PROVE  pc = "migrate" /\ t \in Migrating
  BY DEF IInv, ApartInv, Migratory, Migrating, Blocked

\* A twin that waits follows the hash of the task it waits for, till that is
\* complete; with a stamp for its hash it is decided at once.
LEMMA StampStep == IInv /\ [Next]_vars => StampInv'
<1> SUFFICES ASSUME IInv, [Next]_vars PROVE StampInv'
  OBVIOUS
<1>1. ASSUME Undecided' \subseteq Undecided, unihash' = unihash,
             pc # "migrate" \/ UNCHANGED <<pc, pending_migrations, runq_running, sq_live>>,
             \A t \in SceneTasks : sq_deferred'[t] = sq_deferred[t] \/ sq_deferred'[t] = NoTask,
             runq_complete \subseteq runq_complete',
             \A x \in reports' \cup updated_taskhash_queue' :
                 x \in reports \cup updated_taskhash_queue \/ x.task \notin runq_complete
      PROVE  StampInv'
  <2>1. Undecided \subseteq SceneTasks
    BY DEF Undecided
  <2> QED
    BY <1>1, <2>1 DEF IInv, StampInv, StampedNow, Migratory, Late
<1>2. CASE Rehash
  <2>1. /\ pc = "read" /\ pc' = "migrate"
        /\ UNCHANGED <<Undecided, runq_running, runq_complete, sq_live, sq_deferred, reports>>
    BY <1>2 DEF Rehash, taskVars, worldVars, Undecided, Decided
  <2>2. ASSUME NEW t \in Undecided, StampedNow(t)', unihash'[t] = unihash[t]
        PROVE  \/ sq_deferred'[t] = NoTask
               \/ /\ sq_deferred'[t] \in runq_complete'
                  /\ \A x \in (reports \cup updated_taskhash_queue)' : x.task # sq_deferred'[t]
    BY <1>2, <2>1, <2>2, RehashFacts DEF IInv, StampInv, StampedNow, Migratory
  <2>3. ASSUME NEW t \in Undecided, unihash'[t] # unihash[t], t \in pending_migrations'
        PROVE  Migratory(t)'
    <3>1. t \notin runq_running /\ t \notin sq_live
      BY <1>2, <2>3, RehashFacts DEF IInv, ApartInv
    <3> QED
      BY <2>1, <2>3, <3>1 DEF Migratory, Late
  <2>4. ASSUME NEW t \in Undecided, sq_deferred[t] \in runq_complete
        PROVE  \A x \in (reports \cup updated_taskhash_queue)' : x.task # sq_deferred'[t]
    <3>1. \A x \in reports : x.task \notin runq_complete
      BY DEF IInv, ExitsInv, Active
    <3> QED
      BY <1>2, <2>1, <2>4, <3>1, RehashFacts
  <2> QED
    BY <1>2, <2>1, <2>2, <2>3, <2>4, RehashFacts DEF StampInv
<1>3. CASE Migrate
  <2>1. pc = "migrate" /\ UNCHANGED <<unihash, runq_complete, reports, updated_taskhash_queue>>
    BY <1>3 DEF Migrate, worldVars
  <2>2. CASE DecideAnew(Migrating)
    <3>1. ASSUME NEW t \in Undecided', StampedNow(t)'
          PROVE  t \in Undecided \ Migrating /\ sq_deferred'[t] = sq_deferred[t] /\ StampedNow(t)
      <4>1. StampedNow(t)
        BY <2>1, <3>1 DEF StampedNow
      <4>2. t \in Undecided \ Migrating
        BY <2>1, <2>2, <4>1, DecideFacts
      <4>3. t \in SceneTasks
        BY <4>2 DEF Undecided
      <4> QED
        BY <2>1, <2>2, <4>1, <4>2, <4>3, DecideFacts
    <3>2. \A t \in Undecided \ Migrating : ~Migratory(t)
      BY MigratoryFacts
    <3> QED
      BY <2>1, <3>1, <3>2 DEF IInv, StampInv
  <2>3. CASE Migrating = {} /\ UNCHANGED <<sceneVars, holdVars>>
    <3>1. \A t \in Undecided : ~Migratory(t)
      BY <2>3, MigratoryFacts
    <3>2. Undecided' = Undecided /\ sq_deferred' = sq_deferred
      BY <2>3 DEF sceneVars, queueVars, Undecided, Decided
    <3> QED
      BY <2>1, <3>1, <3>2 DEF IInv, StampInv, StampedNow
  <2> QED
    BY <1>3, <2>2, <2>3, MigrateFacts
<1>4. ASSUME NEW t \in Tasks, ReleaseDeferred(t), t \notin runq_complete, pc # "migrate",
             Undecided' \subseteq Undecided, runq_complete \subseteq runq_complete',
             UNCHANGED <<unihash, reports, updated_taskhash_queue>>
      PROVE  StampInv'
  <2>1. \A d \in Undecided : StampedNow(d) => sq_deferred[d] # t
    BY <1>4, GraphAssumption DEF IInv, StampInv, Migratory
  <2>2. \A d \in Undecided : sq_deferred[d] # t => sq_deferred'[d] = sq_deferred[d]
    BY <1>4, ReleaseFacts DEF IInv, Undecided
  <2> QED
    BY <1>4, <2>1, <2>2 DEF IInv, StampInv, StampedNow, Migratory
<1>5. ASSUME ~Migrate PROVE Undecided' \subseteq Undecided
  BY <1>5, DecidedStep
<1>6. ASSUME NEW x \in exits, ReadComplete(x) PROVE StampInv'
  <2>1. x.task \in Tasks /\ x.task \notin runq_complete /\ ~Migrate
    BY <1>6 DEF ReadComplete, Migrate, IInv, ExitsInv, Active, TypeOK, ExitCode
  <2> QED
    BY <1>4, <1>5, <1>6, <2>1 DEF ReadComplete, task_completeoutright, hashVars
<1>7. ASSUME NEW t \in Tasks, PassThrough(t) PROVE StampInv'
  <2>1. t \notin runq_complete /\ pc = "sched" /\ ~Migrate
    BY <1>7 DEF PassThrough, Picks, Eligible, Migrate, IInv, ReadyInv
  <2> QED
    BY <1>4, <1>5, <1>7, <2>1 DEF PassThrough, task_completeoutright, hashVars, worldVars
<1>8. ASSUME NEW x \in exits, ReadScene(x) \/ ReadFailed(x) PROVE StampInv'
  <2>1. pc # "migrate" /\ ~Migrate
    BY <1>8 DEF ReadScene, ReadFailed, Migrate
  <2> QED
    BY <1>1, <1>5, <1>8, <2>1 DEF ReadScene, ReadFailed, sceneVars, taskVars, hashVars
<1>9. ASSUME NEW x \in reports, ReadReport(x) PROVE StampInv'
  <2>1. pc # "migrate" /\ ~Migrate
    BY <1>9 DEF ReadReport, Migrate
  <2> QED
    BY <1>1, <1>5, <1>9, <2>1 DEF ReadReport, sceneVars, taskVars
<1>10. ASSUME NEW t \in SceneTasks,
              \/ SkipNotNeeded(t) \/ FailUnavailable(t) \/ WaitForHardDeps(t) \/ StartScene(t)
              \/ ForceDeferred(t)
       PROVE  StampInv'
  <2>1. pc \in {"scene", "sched"} /\ ~Migrate
    BY <1>10 DEF SkipNotNeeded, FailUnavailable, WaitForHardDeps, StartScene, ForceDeferred,
                 PicksScene, Stuck, Migrate
  <2>2. /\ sq_deferred' = sq_deferred \/ Undefer(t)
        /\ UNCHANGED <<unihash, runq_complete, reports, updated_taskhash_queue>>
    BY <1>10 DEF SkipNotNeeded, FailUnavailable, WaitForHardDeps, StartScene, ForceDeferred,
                 taskVars, worldVars, hashVars
  <2>3. \A d \in SceneTasks : sq_deferred'[d] = sq_deferred[d] \/ sq_deferred'[d] = NoTask
    BY <2>2 DEF Undefer, IInv, TypeOK
  <2> QED
    BY <1>1, <1>5, <2>1, <2>2, <2>3
<1>11. CASE \/ EndRead \/ NoScene \/ FinishScene \/ WaitForTasks \/ Finished \/ FinishedCleanUp
            \/ \E t \in Tasks : RunTask(t)
  <2>1. pc # "migrate" /\ ~Migrate
    BY <1>11 DEF EndRead, NoScene, FinishScene, WaitForTasks, Stuck, Finished, FinishedCleanUp,
                 RunTask, Picks, Migrate
  <2>2. UNCHANGED <<unihash, sq_deferred, runq_complete, reports, updated_taskhash_queue>>
    BY <1>11 DEF EndRead, NoScene, FinishScene, WaitForTasks, Finished, FinishedCleanUp,
                 RunTask, taskVars, sceneVars, worldVars, hashVars
  <2> QED
    BY <1>1, <1>5, <2>1, <2>2
<1>12. ASSUME NEW t \in Tasks, NEW ok \in BOOLEAN, SceneEnds(t, ok) \/ TaskEnds(t, ok) PROVE StampInv'
  <2>1. UNCHANGED <<pc, Undecided, unihash, sq_deferred, runq_complete, reports, pending_migrations,
                    updated_taskhash_queue, runq_running, sq_live>>
    BY <1>12 DEF SceneEnds, TaskEnds, taskVars, sceneVars, queueVars, hashVars, Undecided, Decided
  <2> QED
    BY <1>1, <2>1
<1>13. ASSUME NEW t \in Reporting, NEW h \in Hashes, TaskReports(t, h) PROVE StampInv'
  <2> DEFINE e == [task |-> t, hash |-> h]
  <2>1. e.task = t
    OBVIOUS
  <2>2. reports' = reports \cup {e} /\ t \notin runq_complete
    BY <1>13 DEF TaskReports, Active
  <2>3. UNCHANGED <<pc, Undecided, unihash, sq_deferred, runq_complete, pending_migrations,
                    updated_taskhash_queue, runq_running, sq_live>>
    BY <1>13 DEF TaskReports, taskVars, sceneVars, queueVars, hashVars, Undecided, Decided
  <2> HIDE DEF e
  <2> QED
    BY <1>1, <2>1, <2>2, <2>3
<1>14. CASE UNCHANGED vars
  <2>1. UNCHANGED <<pc, Undecided, unihash, sq_deferred, runq_complete, reports, pending_migrations,
                    updated_taskhash_queue, runq_running, sq_live>>
    BY <1>14 DEF vars, taskVars, sceneVars, queueVars, hashVars, worldVars, Undecided, Decided
  <2> QED
    BY <1>1, <2>1
<1> QED
  BY <1>2, <1>3, <1>6, <1>7, <1>8, <1>9, <1>10, <1>11, <1>12, <1>13, <1>14,
     HashAssumption, GraphAssumption DEF Next, Execute, Processes, Terminated

\* What insists on a task that fails fails with it, unless it has a stamp or has
\* all that it insists on already.
LEMMA HardStep == IInv /\ [Next]_vars => HardInv'
<1> SUFFICES ASSUME IInv, [Next]_vars PROVE HardInv'
  OBVIOUS
<1>1. ASSUME Undecided' \subseteq Undecided, unihash' = unihash,
             scenequeue_notcovered' = scenequeue_notcovered,
             pc # "migrate" \/ UNCHANGED <<pc, pending_migrations, runq_running, sq_live>>
      PROVE  HardInv'
  BY <1>1 DEF IInv, HardInv, StampedNow, Migratory, Late
<1>2. ASSUME NEW s \in SceneTasks, Uncover(s), s \notin Decided, s \notin sq_live \/ s \notin sq_live',
             sq_live' \subseteq sq_live, s \in sq_live => sq_live' = sq_live \ {s},
             unihash' = unihash, pc # "migrate"
      PROVE  HardInv'
  <2>1. /\ FailSet(s) \subseteq SceneTasks /\ s \in FailSet(s) /\ FailSet(s) \cap Decided = {}
    BY <1>2, FailFacts
  <2>2. Decided' = Decided \cup FailSet(s) /\ scenequeue_notcovered' = scenequeue_notcovered \cup FailSet(s)
    BY <1>2, UncoverFacts
  <2>3. ASSUME NEW t \in Undecided', ~StampedNow(t), HardDeps[t] \cap FailSet(s) # {} PROVE FALSE
    <3>1. t \in SceneTasks /\ t \notin Decided /\ t \notin FailSet(s) /\ t \in Undecided
      BY <2>2 DEF Undecided
    <3>2. t \in Skipped
      BY <2>3, <3>1, FailClosed DEF FailSet
    <3>3. t \notin Surely /\ t \notin runq_running
      BY <3>1 DEF Surely, Decided, IInv, ApartInv
    <3>4. t \in sq_live
      BY <2>3, <3>2, <3>3, SkippedFacts
    <3>5. HardDeps[t] \subseteq Decided
      BY <2>3, <3>4, LiveFacts DEF Surely, Decided
    <3> QED
      BY <2>1, <2>3, <3>5
  <2>4. Undecided' \subseteq Undecided
    BY <2>2 DEF Undecided
  <2> QED
    BY <1>2, <2>2, <2>3, <2>4 DEF IInv, HardInv, StampedNow, Migratory
<1>3. CASE Rehash
  <2>1. /\ pc = "read" /\ pc' = "migrate"
        /\ UNCHANGED <<Undecided, scenequeue_notcovered, runq_running, sq_live>>
    BY <1>3 DEF Rehash, taskVars, Undecided, Decided
  <2>2. ASSUME NEW t \in Undecided, StampedNow(t) PROVE StampedNow(t)' \/ Migratory(t)'
    <3>1. CASE unihash'[t] = unihash[t]
      BY <2>2, <3>1 DEF StampedNow
    <3>2. CASE unihash'[t] # unihash[t]
      <4>1. t \notin runq_running /\ t \notin sq_live
        BY <1>3, <3>2, RehashFacts DEF IInv, ApartInv
      <4>2. ~(/\ sq_deferred[t] \in runq_complete
              /\ \E x \in updated_taskhash_queue : x.task = sq_deferred[t])
        BY <2>1, <2>2, GraphAssumption DEF IInv, StampInv, Migratory, TypeOK
      <4> QED
        BY <1>3, <2>1, <3>2, <4>1, <4>2, RehashFacts DEF Migratory, Late
    <3> QED
      BY <3>1, <3>2
  <2> QED
    BY <2>1, <2>2 DEF IInv, HardInv, Migratory
<1>4. CASE Migrate
  <2>1. pc = "migrate" /\ unihash' = unihash
    BY <1>4 DEF Migrate
  <2>2. CASE DecideAnew(Migrating)
    BY <2>1, <2>2, DecideFacts DEF HardInv, StampedNow
  <2>3. CASE Migrating = {} /\ UNCHANGED <<sceneVars, holdVars>>
    <3>1. \A t \in Undecided : ~Migratory(t)
      BY <2>3, MigratoryFacts
    <3>2. Undecided' = Undecided /\ scenequeue_notcovered' = scenequeue_notcovered
      BY <2>3 DEF sceneVars, queueVars, Undecided, Decided
    <3> QED
      BY <2>1, <3>1, <3>2 DEF IInv, HardInv, StampedNow
  <2> QED
    BY <1>4, <2>2, <2>3, MigrateFacts
<1>5. ASSUME NEW x \in exits, ReadScene(x) PROVE HardInv'
  <2>1. /\ x.task \in SceneTasks /\ x.task \notin Decided /\ sq_live' = sq_live \ {x.task}
        /\ unihash' = unihash /\ pc # "migrate" /\ ~Migrate
    BY <1>5 DEF ReadScene, hashVars, Migrate, IInv, ExitsInv, LiveInv, TypeOK
  <2>2. CASE Cover(x.task)
    BY <1>1, <2>1, <2>2, CoverFacts DEF Undecided
  <2>3. CASE Uncover(x.task)
    BY <1>2, <2>1, <2>3
  <2> QED
    BY <1>5, <2>2, <2>3 DEF ReadScene, sq_task_complete, sq_task_fail
<1>6. ASSUME NEW t \in SceneTasks, FailUnavailable(t) PROVE HardInv'
  <2>1. /\ t \notin Decided /\ t \notin sq_live /\ sq_live' = sq_live
        /\ unihash' = unihash /\ pc # "migrate" /\ Uncover(t)
    BY <1>6 DEF FailUnavailable, PicksScene, Candidates, hashVars, IInv, LiveInv
  <2> QED
    BY <1>2, <2>1
<1>7. ASSUME NEW t \in SceneTasks, SkipNotNeeded(t) PROVE HardInv'
  <2>1. unihash' = unihash /\ pc # "migrate"
    BY <1>7 DEF SkipNotNeeded, PicksScene, hashVars
  <2> QED
    BY <1>1, <1>7, <2>1, CoverFacts DEF SkipNotNeeded, Undecided
<1>8. ASSUME NEW t \in Tasks, ReleaseDeferred(t), pc # "migrate", unihash' = unihash PROVE HardInv'
  BY <1>1, <1>8, ReleaseFacts DEF IInv, Undecided, Decided
<1>9. ASSUME NEW x \in exits, ReadComplete(x) PROVE HardInv'
  BY <1>8, <1>9 DEF ReadComplete, task_completeoutright, hashVars, IInv, ExitCode, TypeOK
<1>10. ASSUME NEW t \in Tasks, PassThrough(t) PROVE HardInv'
  BY <1>8, <1>10 DEF PassThrough, Picks, task_completeoutright, hashVars
<1>11. ASSUME UNCHANGED <<scenequeue_covered, scenequeue_notcovered, unihash>>,
              pc # "migrate" \/ UNCHANGED <<pc, pending_migrations, runq_running, sq_live>>
       PROVE  HardInv'
  BY <1>1, <1>11 DEF Undecided, Decided
<1>12. ASSUME NEW t \in SceneTasks, WaitForHardDeps(t) \/ StartScene(t) \/ ForceDeferred(t)
       PROVE  HardInv'
  BY <1>11, <1>12 DEF WaitForHardDeps, StartScene, ForceDeferred, PicksScene, Stuck, queueVars, hashVars
<1>13. CASE \/ EndRead \/ NoScene \/ FinishScene \/ WaitForTasks \/ Finished \/ FinishedCleanUp
            \/ \E t \in Tasks : RunTask(t)
  <2>1. pc # "migrate"
    BY <1>13 DEF EndRead, NoScene, FinishScene, WaitForTasks, Stuck, Finished, FinishedCleanUp,
                 RunTask, Picks
  <2> QED
    BY <1>11, <1>13, <2>1 DEF EndRead, NoScene, FinishScene, WaitForTasks, Finished,
                 FinishedCleanUp, RunTask, sceneVars, queueVars, hashVars
<1>14. ASSUME NEW x \in exits, ReadFailed(x) PROVE HardInv'
  BY <1>11, <1>14 DEF ReadFailed, sceneVars, queueVars, hashVars
<1>15. ASSUME NEW x \in reports, ReadReport(x) PROVE HardInv'
  BY <1>11, <1>15 DEF ReadReport, sceneVars, queueVars
<1>16. ASSUME NEW t \in Tasks, NEW ok \in BOOLEAN, SceneEnds(t, ok) \/ TaskEnds(t, ok) PROVE HardInv'
  BY <1>11, <1>16 DEF SceneEnds, TaskEnds, sceneVars, queueVars, taskVars, hashVars
<1>17. ASSUME NEW t \in Reporting, NEW h \in Hashes, TaskReports(t, h) PROVE HardInv'
  BY <1>11, <1>17 DEF TaskReports, sceneVars, queueVars, taskVars, hashVars
<1>18. CASE UNCHANGED vars
  BY <1>11, <1>18 DEF vars, sceneVars, queueVars, taskVars, hashVars
<1> QED
  BY <1>3, <1>4, <1>5, <1>6, <1>7, <1>9, <1>10, <1>12, <1>13, <1>14, <1>15, <1>16, <1>17, <1>18,
     HashAssumption, GraphAssumption DEF Next, Execute, Processes, Terminated

-----------------------------------------------------------------------------
(* The theorems *)

\* The inductive invariant holds at first: all that is decided then is covered.
LEMMA InitInv == Init => IInv
<1> SUFFICES ASSUME Init PROVE IInv
  OBVIOUS
<1>1. TypeOK
  BY InitType
<1>2. LiveInv /\ ExitsInv /\ HoldInv /\ ApartInv /\ ReadyInv
  BY DEF Init, LiveInv, ExitsInv, HoldInv, ApartInv, ReadyInv, Decided
<1>3. SettledInv /\ SkipInv /\ PendInv
  BY DEF Init, SettledInv, SkipInv, PendInv
<1>4. Surely = SceneTasks \cap (NoExec \cup Staged \cup Built)
  BY DEF Init, Surely
<1>5. SkippedInv
  BY <1>4 DEF Init, SkippedInv, Staged
<1>6. ASSUME NEW t \in Undecided PROVE ~StampedNow(t)
  BY <1>6 DEF Init, Undecided, Decided, StampedNow, Staged
<1>7. StampInv /\ HardInv
  BY <1>6 DEF Init, StampInv, HardInv
<1> QED
  BY <1>1, <1>2, <1>3, <1>5, <1>7 DEF IInv

\* The inductive invariant holds in every reachable state: see SceneQueue!IInv.
THEOREM Invariant == Spec => []IInv
<1>1. IInv /\ [Next]_vars => IInv'
  <2>1. IInv /\ [Next]_vars => TypeOK'
    BY TypeStep DEF IInv
  <2> QED
    BY <2>1, LiveStep, ExitsStep, HoldStep, ApartStep, ReadyStep, SettledStep, SkipStep, PendStep,
       SkippedStep, StampStep, HardStep DEF IInv
<1> QED
  BY <1>1, InitInv, PTL DEF Spec

\* While an output is restored neither its task nor a task that it covers runs,
\* whatever hashes change meanwhile.
THEOREM NeverOverlaps == Spec => []NoOverlap
<1>1. IInv => NoOverlap
  BY DEF IInv, LiveInv, ApartInv, Undecided, NoOverlap, Active, TypeOK
<1> QED
  BY <1>1, Invariant, PTL

\* A task starts only when the updates of all tasks below it are processed, and
\* no task below it reports once it runs.
LEMMA InputsStep == IInv /\ IInv' /\ InputsSettled /\ [Next]_vars => InputsSettled'
<1> SUFFICES ASSUME IInv, IInv', InputsSettled, [Next]_vars PROVE InputsSettled'
  OBVIOUS
<1>1. \A t \in Active' : \A x \in reports' : x.task \notin Depends[t]
  BY DEF IInv, ExitsInv, ReadyInv, Active
<1>2. \A t \in Active : \A x \in reports : x.task \notin Depends[t]
  BY DEF IInv, ExitsInv, ReadyInv, Active
<1>3. ASSUME Active' \subseteq Active,
             updated_taskhash_queue' \subseteq updated_taskhash_queue \cup reports
      PROVE  InputsSettled'
  BY <1>1, <1>2, <1>3 DEF InputsSettled
<1>4. ASSUME NEW t \in Tasks, RunTask(t) PROVE InputsSettled'
  <2>1. /\ Active' \subseteq Active \cup {t} /\ updated_taskhash_queue' = updated_taskhash_queue
        /\ pc = "sched" /\ t \in runq_buildable
    BY <1>4 DEF RunTask, Picks, Eligible, Active, hashVars
  <2>2. \A x \in updated_taskhash_queue : x.task \notin Depends[t]
    BY <2>1 DEF IInv, SettledInv, ReadyInv
  <2> QED
    BY <1>1, <2>1, <2>2 DEF InputsSettled
<1>5. ASSUME NEW t \in Tasks, PassThrough(t) PROVE InputsSettled'
  BY <1>3, <1>5 DEF PassThrough, task_completeoutright, Active, hashVars
<1>6. ASSUME NEW x \in exits, ReadScene(x) \/ ReadComplete(x) \/ ReadFailed(x) PROVE InputsSettled'
  BY <1>3, <1>6 DEF ReadScene, ReadComplete, ReadFailed, task_completeoutright, Active, taskVars, hashVars
<1>7. ASSUME NEW x \in reports, ReadReport(x) PROVE InputsSettled'
  BY <1>3, <1>7 DEF ReadReport, Active, taskVars
<1>8. CASE Rehash
  BY <1>3, <1>8 DEF Rehash, Active, taskVars
<1>9. CASE Migrate
  BY <1>3, <1>9, MigrateFacts DEF Migrate, Active
<1>10. CASE UNCHANGED <<runq_running, runq_complete, failed_tids, updated_taskhash_queue>>
  BY <1>3, <1>10 DEF Active
<1> QED
  BY <1>4, <1>5, <1>6, <1>7, <1>8, <1>9, <1>10
     DEF Next, Execute, Processes, Terminated, vars, taskVars, hashVars, EndRead, SkipNotNeeded,
         WaitForHardDeps, FailUnavailable, StartScene, ForceDeferred, NoScene, FinishScene,
         WaitForTasks, Finished, FinishedCleanUp, SceneEnds, TaskEnds, TaskReports

\* When a task runs, what the tasks below it have reported was taken into account.
THEOREM SettledInputs == Spec => []InputsSettled
<1>1. Init => InputsSettled
  BY DEF Init, InputsSettled
<1> QED
  BY <1>1, InputsStep, Invariant, PTL DEF Spec

\* No change of hashes stops the build: the branch of process_possible_migrations
\* for a task "marked as completed but now needing to rerun" is never taken.
THEOREM NeverHalted == Spec => [](pc = "migrate" => \A t \in Migrating : ~Rerun(t))
<1>1. IInv => (pc = "migrate" => \A t \in Migrating : ~Rerun(t))
  BY MigratingFacts
<1> QED
  BY <1>1, Invariant, PTL

\* Every run of the queue with setscene tasks is a run of the task graph.
THEOREM ImplementsGraph == Spec => GraphSpec
<1>1. Init => Graph!Init
  BY DEF Init, Graph!Init
<1>2. IInv /\ [Next]_vars => [Graph!Next]_Graph!vars
  <2> SUFFICES ASSUME IInv, [Next]_vars PROVE [Graph!Next]_Graph!vars
    OBVIOUS
  <2>1. ASSUME NEW x \in exits, ReadComplete(x) PROVE Graph!Complete(x.task)
    BY <2>1 DEF ReadComplete, task_completeoutright, IInv, ExitsInv, Active, Graph!Complete
  <2>2. ASSUME NEW x \in exits, ReadFailed(x) PROVE Graph!Fail(x.task)
    BY <2>2 DEF ReadFailed, IInv, ExitsInv, Active, Graph!Fail
  <2>3. ASSUME NEW t \in Tasks, PassThrough(t) PROVE Graph!Skip(t)
    BY <2>3 DEF PassThrough, Picks, Eligible, task_completeoutright, IInv, ReadyInv, Graph!Skip
  <2>4. ASSUME NEW t \in Tasks, RunTask(t) PROVE Graph!Start(t)
    BY <2>4 DEF RunTask, Picks, Eligible, IInv, ReadyInv, Graph!Start
  <2>5. \A x \in exits : x.task \in Tasks
    BY DEF IInv, TypeOK, ExitCode
  <2>6. CASE UNCHANGED <<runq_running, runq_complete, failed_tids>>
    BY <2>6 DEF Graph!vars
  <2>7. CASE Migrate
    BY <2>6, <2>7, MigrateFacts DEF Migrate
  <2> QED
    BY <2>1, <2>2, <2>3, <2>4, <2>5, <2>6, <2>7
       DEF Graph!Next, Next, Execute, Processes, Terminated, vars, taskVars, ReadScene, ReadReport,
           Rehash, EndRead,
           SkipNotNeeded, WaitForHardDeps, FailUnavailable, StartScene, ForceDeferred, NoScene,
           FinishScene, WaitForTasks, Finished, FinishedCleanUp, SceneEnds, TaskEnds,
           TaskReports
<1> QED
  BY <1>1, <1>2, Invariant, PTL DEF Spec, GraphSpec, Graph!Spec
==============================================================================
