------------------------- MODULE SceneQueueEnd_proofs -------------------------
(****************************************************************************)
(* How a build ends, for every build in which setscene tasks do not insist  *)
(* on one another in a circle, whatever is deferred, fails or changes its   *)
(* hash: the inductive invariant EndInv on top of IInv, and from it that    *)
(* the sanity checks at the end of execute and summarise_scenequeue_errors  *)
(* never fire, and that the queue is stuck on nothing but deferred tasks.   *)
(****************************************************************************)
EXTENDS SceneQueue_proofs, WellFoundedInduction

-----------------------------------------------------------------------------
(* Loop-free graphs *)

LessNat == {p \in Nat \X Nat : p[1] < p[2]}

\* Every set of natural numbers that is not empty has a smallest element.
LEMMA Smallest ==
  ASSUME NEW T \in SUBSET Nat, T # {}
  PROVE  \E m \in T : \A n \in T : m <= n
<1>1. IsWellFoundedOn(LessNat, Nat)
  BY NatLessThanWellFounded, Zenon DEF OpToRel, LessNat
<1>2. PICK m \in T : \A n \in T : <<n, m>> \notin LessNat
  BY <1>1, WFMin, Zenon
<1>3. \A n \in T : ~(n < m)
  BY <1>2 DEF LessNat
<1> QED
  BY <1>3

\* As every set of tasks has one that depends on none of them, every set has one
\* that none of them depends on: a smallest set without one would not be smallest.
LEMMA LastTask ==
  ASSUME NEW S \in SUBSET Tasks, S # {}
  PROVE  \E t \in S : RevDeps(t) \cap S = {}
<1> DEFINE Endless(X) == X # {} /\ \A t \in X : RevDeps(t) \cap X # {}
           sizes == {Cardinality(X) : X \in {Y \in SUBSET S : Endless(Y)}}
<1> SUFFICES ASSUME Endless(S) PROVE FALSE
  OBVIOUS
<1>1. \A X \in SUBSET S : IsFiniteSet(X) /\ Cardinality(X) \in Nat
  BY FS_Subset, FS_CardinalityType, GraphAssumption
<1>2. sizes \in SUBSET Nat /\ sizes # {}
  BY <1>1
<1>3. PICK X \in SUBSET S : Endless(X) /\ \A Y \in SUBSET S : Endless(Y) => Cardinality(X) <= Cardinality(Y)
  <2>1. PICK m \in sizes : \A n \in sizes : m <= n
    BY <1>2, Smallest
  <2> QED
    BY <2>1
<1>4. PICK t \in X : Depends[t] \cap X = {}
  BY <1>3, LoopFreeAssumption
<1>5. \A u \in X : \E r \in X \ {t} : r \in RevDeps(u)
  BY <1>3, <1>4 DEF RevDeps
<1>6. Endless(X \ {t})
  BY <1>5
<1>7. Cardinality(X \ {t}) = Cardinality(X) - 1
  BY <1>1, FS_RemoveElement
<1> HIDE DEF Endless
<1> QED
  BY <1>1, <1>3, <1>6, <1>7

\* What a setscene task covers it depends on, or another task that it covers does.
LEMMA CoveredRoot ==
  ASSUME NEW s \in SceneTasks, NEW t \in sq_covered_tasks[s]
  PROVE  \E r \in {s} \cup sq_covered_tasks[s] : t \in Depends[r]
<1> DEFINE closed(X) == (Depends[s] \cup DependsOf(X)) \cap Normal \subseteq X
           X == sq_covered_tasks[s] \ {t}
<1>1. sq_covered_tasks[s] = {x \in Normal : \A Y \in SUBSET Normal : closed(Y) => x \in Y}
  BY DEF sq_covered_tasks, Least
<1>2. ~closed(X)
  BY <1>1
<1>3. PICK d \in (Depends[s] \cup DependsOf(X)) \cap Normal : d \notin X
  BY <1>2
<1>4. DependsOf(X) \subseteq DependsOf(sq_covered_tasks[s])
  BY DEF DependsOf
<1>5. d = t
  BY <1>3, <1>4, CoveredClosed
<1> QED
  BY <1>3, <1>4, <1>5 DEF DependsOf

\* The build needs directly what no task depends on.
LEMMA UnskippableTop ==
  ASSUME NEW t \in Tasks, RevDeps(t) = {}
  PROVE  t \in unskippable
<1> DEFINE top == {r \in Tasks : RevDeps(r) = {}} \cup cantskip
           closed(X) == top \cup DependsOf(X \cap Normal) \subseteq X
<1>1. unskippable = {x \in Tasks : \A X \in SUBSET Tasks : closed(X) => x \in X}
  BY DEF unskippable, Least
<1>2. \A X : closed(X) => t \in X
  OBVIOUS
<1> HIDE DEF closed
<1> QED
  BY <1>1, <1>2

\* Of any setscene tasks one has none of the others next above it.
LEMMA TopScene ==
  ASSUME NEW U \in SUBSET SceneTasks, U # {}
  PROVE  \E u \in U : sq_revdeps[u] \cap U = {}
<1> DEFINE V == U \cup UNION {sq_covered_tasks[r] : r \in U}
<1>1. V \in SUBSET Tasks /\ V # {}
  BY CoveredType, GraphAssumption
<1>2. PICK t \in V : RevDeps(t) \cap V = {}
  BY <1>1, LastTask
<1>3. \A r \in V : t \notin Depends[r]
  BY <1>1, <1>2 DEF RevDeps
<1>4. t \in U
  BY <1>3, CoveredRoot
<1>5. ASSUME NEW r \in sq_revdeps[t] \cap U PROVE FALSE
  <2>1. t \in Depends[r] \cup DependsOf(sq_covered_tasks[r])
    BY <1>4, <1>5 DEF sq_revdeps
  <2> QED
    BY <1>3, <2>1 DEF DependsOf
<1> QED
  BY <1>4, <1>5

\* A task without a setscene task is needed directly, or some task covers it.
LEMMA Everything ==
  ASSUME NEW t \in Normal, t \notin unskippable
  PROVE  \E s \in SceneTasks : t \in sq_covered_tasks[s]
<1> DEFINE left == {x \in Normal \ unskippable : \A s \in SceneTasks : x \notin sq_covered_tasks[s]}
<1> SUFFICES ASSUME left # {} PROVE FALSE
  OBVIOUS
<1>1. PICK x \in left : RevDeps(x) \cap left = {}
  <2>1. left \in SUBSET Tasks
    BY DEF Normal
  <2> QED
    BY <2>1, LastTask
<1>2. x \in Normal /\ x \in Tasks /\ x \notin unskippable /\ \A s \in SceneTasks : x \notin sq_covered_tasks[s]
  BY DEF Normal
<1>3. PICK r \in RevDeps(x) : TRUE
  BY <1>2, UnskippableTop
<1>4. x \in Depends[r] /\ r \in Tasks
  BY DEF RevDeps
<1>5. r \notin SceneTasks
  BY <1>2, <1>4, CoveredClosed
<1>6. r \notin unskippable
  BY <1>2, <1>4, <1>5, UnskippableClosed
<1>7. PICK s \in SceneTasks : r \in sq_covered_tasks[s]
  BY <1>1, <1>4, <1>5, <1>6 DEF Normal
<1> QED
  BY <1>2, <1>4, <1>7, CoveredClosed DEF DependsOf

\* Walking down from what was decided ends with all that only such tasks need.
LEMMA DoneAfterFacts ==
  ASSUME NEW done \in SUBSET Tasks, NEW F \in SUBSET SceneTasks,
         \A t \in Normal : RevDeps(t) # {} /\ RevDeps(t) \subseteq done => t \in done
  PROVE  LET R == DoneAfter(done, F)
         IN  /\ done \cup F \subseteq R
             /\ \A t \in Normal : RevDeps(t) # {} /\ RevDeps(t) \subseteq R => t \in R
<1> DEFINE known(X) == done \cup F \cup X
           closed(X) == \A t \in DependsOf(F \cup X) \cap Normal : RevDeps(t) \subseteq known(X) => t \in X
           L == {x \in Normal : \A X \in SUBSET Normal : closed(X) => x \in X}
<1>1. DoneAfter(done, F) = known(L)
  BY DEF DoneAfter, Least
<1>2. ASSUME NEW t \in DependsOf(F \cup L) \cap Normal, RevDeps(t) \subseteq known(L),
             NEW X \in SUBSET Normal, closed(X)
      PROVE  t \in X
  <2>1. L \subseteq X
    BY <1>2
  <2>2. t \in DependsOf(F \cup X)
    BY <2>1 DEF DependsOf
  <2>3. RevDeps(t) \subseteq known(X)
    BY <1>2, <2>1
  <2> QED
    BY <1>2, <2>2, <2>3
<1> HIDE DEF closed
<1>3. \A t \in DependsOf(F \cup L) \cap Normal : RevDeps(t) \subseteq known(L) => t \in L
  BY <1>2
<1>4. ASSUME NEW t \in Normal, RevDeps(t) # {}, RevDeps(t) \subseteq known(L) PROVE t \in known(L)
  <2>1. CASE RevDeps(t) \subseteq done
    BY <1>4, <2>1
  <2>2. CASE \E r \in RevDeps(t) : r \in F \cup L
    <3>1. t \in DependsOf(F \cup L)
      BY <2>2 DEF DependsOf, RevDeps
    <3> QED
      BY <1>3, <1>4, <3>1
  <2> QED
    BY <1>4, <2>1, <2>2
<1> QED
  BY <1>1, <1>4

-----------------------------------------------------------------------------
(* What starts, ends and is decided *)

\* The end of a task leaves the queue alone or covers one setscene task.
LEMMA ReleaseCases ==
  ASSUME TypeOK, NEW t \in Tasks, ReleaseDeferred(t)
  PROVE  \/ UNCHANGED <<queueVars, holdoff_need_update>>
         \/ \E found \in SceneTasks : Cover(found)
  BY DEF ReleaseDeferred

\* A migration decides anew and looks again at what waits, or changes nothing.
LEMMA MigrateCases ==
  ASSUME IInv, Migrate
  PROVE  /\ pc = "migrate" /\ pc' = "migrated"
         /\ UNCHANGED <<state, sq_live, failed_tids, runq_buildable, runq_running, runq_complete>>
         /\ \/ DecideAnew(Migrating) /\ Relook
            \/ UNCHANGED <<sqdone, sceneVars, holdVars>>
<1>1. pc = "migrate"
  BY DEF Migrate
<1>2. \A t \in Migrating : ~Rerun(t)
  BY <1>1, MigratingFacts
<1> QED
  BY <1>1, <1>2 DEF Migrate, sceneVars, holdVars

\* Deciding on tasks makes buildable what then has nothing undecided above it.
LEMMA UpdateStartable ==
  ASSUME StartableInv, NEW F \in SUBSET SceneTasks, updatecounters(F, F),
         Decided' = Decided \cup F, sq_running' = sq_running \cup F,
         sq_live \subseteq sq_live' \cup F, sq_needed_harddeps' = sq_needed_harddeps
  PROVE  StartableInv'
<1>1. /\ sq_buildable' = sq_buildable \cup F \cup Enabled(F, Decided')
      /\ sq_harddep_deferred' = {t \in sq_harddep_deferred : ~(HardDeps[t] \subseteq Decided')}
  BY DEF updatecounters
<1>2. ASSUME NEW t \in SceneTasks, sq_revdeps[t] \subseteq Decided' PROVE t \in sq_buildable'
  <2>1. CASE sq_revdeps[t] \subseteq Decided
    BY <1>1, <2>1 DEF StartableInv
  <2>2. CASE sq_revdeps[t] \cap F # {}
    BY <1>1, <1>2, <2>2 DEF Enabled
  <2> QED
    BY <1>2, <2>1, <2>2
<1> QED
  BY <1>1, <1>2 DEF StartableInv

\* ... so does deciding anew, on what was to be looked at again.
LEMMA AnewStartable ==
  ASSUME IInv, StartableInv, pc = "migrate", DecideAnew(Migrating), Relook, sq_live' = sq_live
  PROVE  StartableInv'
<1> DEFINE S == Migrating
           covered == scenequeue_covered \ S
           notcovered == scenequeue_notcovered \ S
           harddepfail == {t \in S : HardDeps[t] \cap notcovered # {}}
           stamped == {t \in S : unihash[t] \in Stamps[t]}
           failed == FailAll(harddepfail, covered \cup notcovered \cup stamped)
           F == stamped \cup failed
           first == {t \in S : sq_revdeps[t] = {}}
           ready == {t \in S \ harddepfail : sq_revdeps[t] \subseteq covered \cup notcovered}
<1>1. S \subseteq SceneTasks /\ S \cap sq_live = {}
  BY MigratingFacts
<1>2. harddepfail \subseteq F
  BY <1>1, FailType
<1>3. /\ Decided' = covered \cup notcovered \cup F
      /\ sq_running' = (sq_running \ S) \cup F
      /\ sq_buildable' = (sq_buildable \ S) \cup first \cup ready
                            \cup F \cup Enabled(F, covered \cup notcovered \cup F)
  BY DEF DecideAnew, Decided
<1> HIDE DEF failed
<1>4. ASSUME NEW t \in SceneTasks, sq_revdeps[t] \subseteq Decided' PROVE t \in sq_buildable'
  <2>1. CASE sq_revdeps[t] \cap F # {}
    BY <1>3, <1>4, <2>1 DEF Enabled
  <2>2. CASE sq_revdeps[t] \cap F = {}
    <3>1. sq_revdeps[t] \subseteq covered \cup notcovered
      BY <1>3, <1>4, <2>2
    <3>2. CASE t \in S
      BY <1>2, <1>3, <3>1, <3>2
    <3>3. CASE t \notin S
      BY <1>3, <3>1, <3>3 DEF StartableInv, Decided
    <3> QED
      BY <3>2, <3>3
  <2> QED
    BY <2>1, <2>2
<1>5. sq_running' \subseteq Decided' \cup sq_live'
  BY <1>3 DEF StartableInv, Decided
<1>6. Decided' \subseteq sq_buildable'
  BY <1>3 DEF StartableInv, Decided
<1>7. sq_needed_harddeps' = {} /\ sq_harddep_deferred' = {}
  BY DEF Relook
<1> QED
  BY <1>4, <1>5, <1>6, <1>7 DEF StartableInv

\* What may start stays buildable until it is decided anew.
LEMMA StartableStep == IInv /\ StartableInv /\ [Next]_vars => StartableInv'
<1> SUFFICES ASSUME IInv, StartableInv, [Next]_vars PROVE StartableInv'
  OBVIOUS
<1>1. ASSUME NEW t \in SceneTasks, Cover(t), sq_live \subseteq sq_live' \cup {t},
             sq_needed_harddeps' = sq_needed_harddeps
      PROVE  StartableInv'
  <2>1. updatecounters({t}, {t})
    BY <1>1 DEF Cover
  <2> QED
    BY <1>1, <2>1, CoverFacts, UpdateStartable
<1>2. ASSUME NEW t \in SceneTasks, Uncover(t), t \notin Decided, sq_live \subseteq sq_live' \cup {t},
             sq_needed_harddeps' = sq_needed_harddeps
      PROVE  StartableInv'
  <2>1. updatecounters(FailSet(t), FailSet(t))
    BY <1>2 DEF Uncover
  <2>2. FailSet(t) \in SUBSET SceneTasks /\ t \in FailSet(t)
    BY <1>2, FailFacts
  <2>3. sq_live \subseteq sq_live' \cup FailSet(t)
    BY <1>2, <2>2
  <2> QED
    BY <1>2, <2>1, <2>2, <2>3, UncoverFacts, UpdateStartable
<1>3. ASSUME UNCHANGED <<queueVars, sq_live, sq_needed_harddeps>> PROVE StartableInv'
  BY <1>3 DEF queueVars, StartableInv, Decided
<1>4. ASSUME NEW x \in exits, ReadScene(x) PROVE StartableInv'
  <2>1. x.task \in SceneTasks /\ x.task \notin Decided
    BY <1>4 DEF ReadScene, IInv, ExitsInv, LiveInv, TypeOK
  <2> QED
    BY <1>1, <1>2, <1>4, <2>1 DEF ReadScene, sq_task_complete, sq_task_fail
<1>5. ASSUME NEW t \in Tasks, ReleaseDeferred(t), UNCHANGED <<sq_live, sq_needed_harddeps>>
      PROVE  StartableInv'
  BY <1>1, <1>3, <1>5, ReleaseCases DEF IInv
<1>6. ASSUME NEW x \in exits, ReadComplete(x) PROVE StartableInv'
  BY <1>5, <1>6 DEF ReadComplete, task_completeoutright, IInv, TypeOK, ExitCode
<1>7. ASSUME NEW t \in Tasks, PassThrough(t) PROVE StartableInv'
  BY <1>5, <1>7 DEF PassThrough, task_completeoutright
<1>8. ASSUME NEW t \in SceneTasks, SkipNotNeeded(t) \/ FailUnavailable(t) PROVE StartableInv'
  <2>1. t \notin Decided
    BY <1>8 DEF SkipNotNeeded, FailUnavailable, PicksScene, Candidates, IInv, LiveInv
  <2> QED
    BY <1>1, <1>2, <1>8, <2>1 DEF SkipNotNeeded, FailUnavailable
<1>9. ASSUME NEW t \in SceneTasks, WaitForHardDeps(t) PROVE StartableInv'
  BY <1>9 DEF WaitForHardDeps, MissesHardDeps, StartableInv, Decided
<1>10. ASSUME NEW t \in SceneTasks, StartScene(t) PROVE StartableInv'
  BY <1>10 DEF StartScene, StartableInv, Decided
<1>11. CASE Rehash
  BY <1>11 DEF Rehash, Relook, StartableInv, Decided
<1>12. CASE Migrate
  BY <1>3, <1>12, MigrateCases, AnewStartable DEF sceneVars
<1> QED
  BY <1>3, <1>4, <1>6, <1>7, <1>8, <1>9, <1>10, <1>11, <1>12
     DEF Next, Execute, Processes, Terminated, vars, sceneVars, ReadFailed, ReadReport, EndRead,
         ForceDeferred, NoScene, FinishScene, RunTask, WaitForTasks, Finished, FinishedCleanUp,
         SceneEnds, TaskEnds, TaskReports

\* What walking down passed stays passed, but for what is decided anew.
LEMMA DoneStep == IInv /\ DoneInv /\ [Next]_vars => DoneInv'
<1> SUFFICES ASSUME IInv, DoneInv, [Next]_vars PROVE DoneInv'
  OBVIOUS
<1>1. ASSUME NEW F \in SUBSET SceneTasks, updatecounters(F, F), Decided' = Decided \cup F
      PROVE  DoneInv'
  <2>1. tasks_scenequeue_done \in SUBSET Tasks
    BY DEF IInv, TypeOK
  <2>2. tasks_scenequeue_done' = DoneAfter(tasks_scenequeue_done, F)
    BY <1>1 DEF updatecounters
  <2> QED
    BY <1>1, <2>1, <2>2, DoneAfterFacts DEF DoneInv
<1>2. ASSUME NEW t \in SceneTasks, Cover(t) PROVE DoneInv'
  BY <1>1, <1>2, CoverFacts DEF Cover
<1>3. ASSUME NEW t \in SceneTasks, Uncover(t), t \notin Decided PROVE DoneInv'
  BY <1>1, <1>3, UncoverFacts, FailFacts DEF Uncover
<1>4. ASSUME UNCHANGED queueVars PROVE DoneInv'
  BY <1>4 DEF queueVars, DoneInv, Decided
<1>5. ASSUME NEW x \in exits, ReadScene(x) PROVE DoneInv'
  <2>1. x.task \in SceneTasks /\ x.task \notin Decided
    BY <1>5 DEF ReadScene, IInv, ExitsInv, LiveInv, TypeOK
  <2> QED
    BY <1>2, <1>3, <1>5, <2>1 DEF ReadScene, sq_task_complete, sq_task_fail
<1>6. ASSUME NEW t \in Tasks, ReleaseDeferred(t) PROVE DoneInv'
  BY <1>2, <1>4, <1>6, ReleaseCases DEF IInv
<1>7. ASSUME NEW x \in exits, ReadComplete(x) PROVE DoneInv'
  BY <1>6, <1>7 DEF ReadComplete, task_completeoutright, IInv, TypeOK, ExitCode
<1>8. ASSUME NEW t \in Tasks, PassThrough(t) PROVE DoneInv'
  BY <1>6, <1>8 DEF PassThrough, task_completeoutright
<1>9. ASSUME NEW t \in SceneTasks, SkipNotNeeded(t) \/ FailUnavailable(t) PROVE DoneInv'
  <2>1. t \notin Decided
    BY <1>9 DEF SkipNotNeeded, FailUnavailable, PicksScene, Candidates, IInv, LiveInv
  <2> QED
    BY <1>2, <1>3, <1>9, <2>1 DEF SkipNotNeeded, FailUnavailable
<1>10. ASSUME NEW t \in SceneTasks, WaitForHardDeps(t) \/ StartScene(t) PROVE DoneInv'
  BY <1>10 DEF WaitForHardDeps, StartScene, DoneInv, Decided
<1>11. CASE Rehash
  BY <1>11 DEF Rehash, DoneInv, Decided
<1>12. CASE Migrate
  <2>1. CASE UNCHANGED sceneVars
    BY <1>4, <2>1 DEF sceneVars
  <2>2. CASE DecideAnew(Migrating)
    <3> DEFINE S == Migrating
               covered == scenequeue_covered \ S
               notcovered == scenequeue_notcovered \ S
               harddepfail == {t \in S : HardDeps[t] \cap notcovered # {}}
               stamped == {t \in S : unihash[t] \in Stamps[t]}
               failed == FailAll(harddepfail, covered \cup notcovered \cup stamped)
               F == stamped \cup failed
               below == (UNION {sq_covered_tasks[t] : t \in S}) \ (runq_complete \cup unskippable)
               done == tasks_scenequeue_done \ (S \cup below)
    <3>1. S \subseteq SceneTasks
      BY DEF Migrating, IInv, TypeOK
    <3>2. F \in SUBSET SceneTasks /\ done \in SUBSET Tasks
      BY <3>1, FailType DEF IInv, TypeOK
    <3>3. Decided' = (Decided \ S) \cup F /\ tasks_scenequeue_done' = DoneAfter(done, F)
      BY <2>2 DEF DecideAnew, Decided
    <3>4. below \subseteq Normal \ unskippable
      BY <3>1 DEF sq_covered_tasks, Least
    <3>5. ASSUME NEW t \in Normal, RevDeps(t) # {}, RevDeps(t) \subseteq done PROVE t \in done
      <4>1. t \in tasks_scenequeue_done /\ t \notin S
        BY <3>1, <3>5 DEF DoneInv, Normal
      <4>2. ASSUME t \in below PROVE FALSE
        <5>1. PICK s \in S : t \in sq_covered_tasks[s]
          BY <4>2
        <5>2. t \notin runq_complete /\ t \notin unskippable
          BY <4>2
        <5>3. PICK r \in {s} \cup sq_covered_tasks[s] : t \in Depends[r]
          BY <3>1, <5>1, CoveredRoot
        <5>4. r \in Tasks
          BY <3>1, <5>3, CoveredType, GraphAssumption
        <5>5. r \in done
          BY <3>5, <5>3, <5>4 DEF RevDeps
        <5>6. r \in sq_covered_tasks[s] /\ r \in runq_complete \cup unskippable
          BY <5>3, <5>5
        <5>7. r \notin SceneTasks
          BY <3>1, <5>6 DEF sq_covered_tasks, Least, Normal
        <5>8. r \notin unskippable
          BY <5>2, <5>3, <5>7, UnskippableClosed
        <5>9. Depends[r] \subseteq runq_complete
          BY <5>6, <5>8 DEF IInv, ReadyInv
        <5> QED
          BY <5>2, <5>3, <5>9
      <4> QED
        BY <4>1, <4>2
    <3>6. (Decided \ S) \cup (unskippable \cap Normal) \subseteq done
      <4>1. Decided \subseteq SceneTasks
        BY DEF IInv, TypeOK
      <4> QED
        BY <3>1, <3>4, <4>1 DEF DoneInv, Normal
    <3> HIDE DEF S, F, done
    <3> QED
      BY <3>2, <3>3, <3>5, <3>6, DoneAfterFacts DEF DoneInv
  <2> QED
    BY <1>12, <2>1, <2>2, MigrateCases
<1> QED
  BY <1>4, <1>5, <1>7, <1>8, <1>9, <1>10, <1>11, <1>12
     DEF Next, Execute, Processes, Terminated, vars, sceneVars, ReadFailed, ReadReport, EndRead,
         ForceDeferred, NoScene, FinishScene, RunTask, WaitForTasks, Finished, FinishedCleanUp,
         SceneEnds, TaskEnds, TaskReports

-----------------------------------------------------------------------------
(* What is held off and known when a task is picked *)

\* The setscene tasks in S and what they cover.
Below(S) == S \cup UNION {sq_covered_tasks[t] : t \in S}
Known == tasks_covered \cup tasks_notcovered

\* After update_holdofftasks all that is done with is known to be covered or not,
\* only what is undecided holds off, and what can run is buildable.
LEMMA HoldoffKnown ==
  ASSUME KnownInv, update_holdofftasks, runq_running' = runq_running,
         UNCHANGED <<Decided, tasks_scenequeue_done, runq_complete>>
  PROVE  KnownInv'
<1>1. CASE ~holdoff_need_update
  BY <1>1 DEF update_holdofftasks, holdVars, KnownInv, Undecided
<1>2. CASE holdoff_need_update
  <2> DEFINE notcovered == tasks_scenequeue_done \cap
                 (Below(scenequeue_notcovered) \cup cantskip \cup (unskippable \ SceneTasks))
             covered == tasks_scenequeue_done \cap (Below(scenequeue_covered) \ notcovered)
  <2>1. /\ tasks_covered' = covered /\ tasks_notcovered' = notcovered
        /\ runq_buildable' = runq_buildable \cup
               {t \in covered \cup notcovered : Depends[t] \subseteq runq_complete}
        /\ holdoff_tasks' = Undecided \cup (Below(Undecided) \ (runq_complete \cup Undecided))
    BY <1>2 DEF update_holdofftasks, Below, Undecided
  <2>2. Below(Decided) = Below(scenequeue_covered) \cup Below(scenequeue_notcovered)
    BY DEF Below, Decided
  <2>3. Undecided \subseteq Below(Undecided) /\ unskippable \cap Normal \subseteq unskippable \ SceneTasks
    BY DEF Below, Normal
  <2> HIDE DEF notcovered
  <2>4. /\ tasks_scenequeue_done \cap (Below(Decided) \cup (unskippable \cap Normal)) \subseteq Known'
        /\ holdoff_tasks' \subseteq Below(Undecided)
        /\ \A t \in Known' : Depends[t] \subseteq runq_complete => t \in runq_buildable'
    BY <2>1, <2>2, <2>3 DEF notcovered, Known
  <2>5. runq_running \subseteq runq_buildable'
    BY <2>1 DEF KnownInv
  <2>6. Undecided' = Undecided
    BY DEF Undecided
  <2> QED
    BY <2>4, <2>5, <2>6 DEF KnownInv, Below, Known
<1> QED
  BY <1>1, <1>2

\* Between two calls of update_holdofftasks what becomes ready becomes buildable.
LEMMA KnownStep == IInv /\ KnownInv /\ [Next]_vars => KnownInv'
<1> SUFFICES ASSUME IInv, KnownInv, [Next]_vars PROVE KnownInv'
  OBVIOUS
<1>1. ASSUME holdoff_need_update' = TRUE, runq_running' \subseteq runq_buildable' PROVE KnownInv'
  BY <1>1 DEF KnownInv
<1>2. ASSUME UNCHANGED <<holdVars, Decided, tasks_scenequeue_done>>,
             runq_running' \subseteq runq_buildable',
             \A t \in Known : Depends[t] \subseteq runq_complete' /\ ~(Depends[t] \subseteq runq_complete)
                                 => t \in runq_buildable',
             runq_buildable \subseteq runq_buildable'
      PROVE  KnownInv'
  BY <1>2 DEF KnownInv, holdVars, Known, Undecided
<1>3. ASSUME UNCHANGED <<holdVars, Decided, tasks_scenequeue_done, runq_running, runq_buildable,
                         runq_complete>>
      PROVE  KnownInv'
  BY <1>2, <1>3 DEF KnownInv
<1>4. ASSUME NEW t \in Tasks, task_completeoutright(t), runq_running' \subseteq runq_running \cup {t},
             runq_buildable' = runq_buildable \cup {t} \cup NewBuildable(t, runq_complete'),
             UNCHANGED <<tasks_covered, tasks_notcovered, holdoff_tasks>>
      PROVE  KnownInv'
  <2>1. runq_complete' = runq_complete \cup {t} /\ ReleaseDeferred(t)
    BY <1>4 DEF task_completeoutright
  <2>2. runq_running' \subseteq runq_buildable'
    BY <1>4 DEF KnownInv
  <2>3. ASSUME NEW u \in Known, Depends[u] \subseteq runq_complete', ~(Depends[u] \subseteq runq_complete)
        PROVE  u \in runq_buildable'
    <3>1. u \in RevDeps(t)
      BY <2>1, <2>3 DEF RevDeps, Known, IInv, TypeOK
    <3> QED
      BY <1>4, <2>3, <3>1 DEF NewBuildable, KnownInv
  <2>4. CASE UNCHANGED <<queueVars, holdoff_need_update>>
    BY <1>2, <1>4, <2>2, <2>3, <2>4 DEF queueVars, holdVars, Decided
  <2>5. ASSUME NEW found \in SceneTasks, Cover(found) PROVE KnownInv'
    BY <1>1, <2>2, <2>5, CoverFacts
  <2> QED
    BY <2>1, <2>4, <2>5, ReleaseCases DEF IInv
<1>5. ASSUME NEW x \in exits, ReadComplete(x) PROVE KnownInv'
  <2>1. x.task \in Tasks /\ x.task \in runq_running
    BY <1>5 DEF ReadComplete, IInv, ExitsInv, Active, TypeOK
  <2>2. x.task \in runq_buildable
    BY <2>1 DEF KnownInv
  <2> QED
    BY <1>4, <1>5, <2>1, <2>2 DEF ReadComplete
<1>6. ASSUME NEW t \in Tasks, PassThrough(t) PROVE KnownInv'
  BY <1>4, <1>6 DEF PassThrough
<1>7. ASSUME NEW t \in Tasks, RunTask(t) PROVE KnownInv'
  BY <1>2, <1>7 DEF RunTask, Picks, Eligible, sceneVars, queueVars, Decided, KnownInv
<1>8. ASSUME NEW x \in exits, ReadScene(x) PROVE KnownInv'
  <2>1. x.task \in SceneTasks /\ UNCHANGED <<runq_running, runq_buildable>>
    BY <1>8 DEF ReadScene, taskVars, IInv, ExitsInv, TypeOK
  <2> QED
    BY <1>1, <1>8, <2>1, CoverFacts, UncoverFacts DEF ReadScene, sq_task_complete, sq_task_fail, KnownInv
<1>9. ASSUME NEW t \in SceneTasks, SkipNotNeeded(t) \/ FailUnavailable(t) PROVE KnownInv'
  BY <1>1, <1>9, CoverFacts, UncoverFacts DEF SkipNotNeeded, FailUnavailable, taskVars, KnownInv
<1>10. ASSUME NEW t \in SceneTasks, WaitForHardDeps(t) \/ ForceDeferred(t) PROVE KnownInv'
  BY <1>3, <1>10 DEF WaitForHardDeps, ForceDeferred, queueVars, taskVars, Decided
<1>11. ASSUME NEW t \in SceneTasks, StartScene(t) PROVE KnownInv'
  BY <1>3, <1>11, HoldoffKnown DEF StartScene, ToSched, Decided
<1>12. CASE EndRead \/ NoScene
  BY <1>3, <1>12, HoldoffKnown DEF EndRead, NoScene, ToSched, sceneVars, queueVars, Decided
<1>13. CASE Rehash
  BY <1>1, <1>3, <1>13 DEF Rehash, Relook, taskVars, holdVars, Decided, KnownInv
<1>14. CASE Migrate
  <2>1. holdoff_need_update' = TRUE \/ UNCHANGED <<sceneVars, holdVars>>
    BY <1>14, MigrateCases DEF Relook
  <2> QED
    BY <1>1, <1>3, <1>14, <2>1, MigrateCases DEF sceneVars, queueVars, Decided, KnownInv
<1> QED
  BY <1>3, <1>5, <1>6, <1>7, <1>8, <1>9, <1>10, <1>11, <1>12, <1>13, <1>14
     DEF Next, Execute, Processes, Terminated, vars, sceneVars, queueVars, taskVars, Decided,
         ReadFailed, ReadReport, FinishScene, WaitForTasks, Finished, FinishedCleanUp, SceneEnds,
         TaskEnds, TaskReports

\* As at least one task may run at a time, one can start when none does.
LEMMA IdleStarts ==
  ASSUME TypeOK, Active \cup sq_live = {}
  PROVE  can_start_task
<1>1. IsFiniteSet(Active) /\ IsFiniteSet(sq_live)
  BY FS_Subset, GraphAssumption DEF TypeOK, Active
<1>2. Cardinality(Active) = 0 /\ Cardinality(sq_live) = 0
  BY <1>1, FS_EmptySet
<1> QED
  BY <1>2, SettingsAssumption DEF can_start_task, Busy

\* The queue is over when all of it is decided, and tasks are looked for when no
\* setscene task can start.
LEMMA TriedStep == IInv /\ TriedInv /\ [Next]_vars => TriedInv'
<1> SUFFICES ASSUME IInv, TriedInv, [Next]_vars PROVE TriedInv'
  OBVIOUS
<1>1. (sqdone => Undecided = {})'
  <2>1. CASE Migrate
    BY <2>1, MigrateCases DEF DecideAnew, TriedInv, sceneVars, queueVars, Undecided, Decided
  <2>2. CASE FinishScene
    BY <2>2 DEF FinishScene, SceneOver, sceneVars, queueVars, IInv, HoldInv, TriedInv, Undecided,
                Decided
  <2>3. CASE sqdone' = sqdone /\ ~Migrate
    BY <2>3, DecidedStep DEF TriedInv
  <2> QED
    BY <2>1, <2>2, <2>3
     DEF Next, Execute, Processes, Terminated, vars, ReadScene, ReadComplete, ReadFailed, ReadReport,
         Rehash, EndRead, SkipNotNeeded, WaitForHardDeps, FailUnavailable, StartScene, ForceDeferred,
         NoScene, PassThrough, RunTask, WaitForTasks, Finished, FinishedCleanUp, SceneEnds, TaskEnds,
         TaskReports
<1> DEFINE Tried == pc = "sched" /\ ~sqdone => Candidates = {} \/ Active \cup sq_live # {}
<1> SUFFICES Tried'
  BY <1>1 DEF TriedInv
<1>2. ASSUME pc' # "sched" PROVE Tried'
  BY <1>2
<1>3. ASSUME pc' = pc, UNCHANGED <<sqdone, sceneVars, taskVars>> PROVE Tried'
  BY <1>3 DEF TriedInv, sceneVars, queueVars, taskVars, Candidates, Deferred, Active
<1>4. CASE EndRead
  <2>1. UNCHANGED <<sqdone, sq_live, Active>>
    BY <1>4 DEF EndRead, sceneVars, Active
  <2>2. pc' = "sched" => sqdone \/ ~can_start_task
    BY <1>4 DEF EndRead
  <2> QED
    BY <2>1, <2>2, IdleStarts DEF IInv
<1>5. CASE NoScene
  BY <1>5 DEF NoScene, sceneVars, queueVars, Candidates, Deferred, Active
<1>6. ASSUME NEW t \in SceneTasks, StartScene(t) PROVE Tried'
  BY <1>6 DEF StartScene
<1>7. CASE FinishScene
  BY <1>7 DEF FinishScene
<1>8. ASSUME NEW t \in SceneTasks,
             SkipNotNeeded(t) \/ WaitForHardDeps(t) \/ FailUnavailable(t) \/ ForceDeferred(t)
      PROVE  Tried'
  BY <1>2, <1>8 DEF SkipNotNeeded, WaitForHardDeps, FailUnavailable, ForceDeferred, PicksScene, Return
<1>9. ASSUME NEW t \in Tasks, PassThrough(t) \/ RunTask(t) PROVE Tried'
  BY <1>2, <1>9 DEF PassThrough, RunTask, Return
<1>10. CASE WaitForTasks \/ Finished \/ FinishedCleanUp \/ Rehash \/ Migrate
  BY <1>2, <1>10 DEF WaitForTasks, Finished, FinishedCleanUp, Rehash, Migrate, Return
<1>11. ASSUME NEW x \in exits, ReadScene(x) \/ ReadComplete(x) \/ ReadFailed(x) PROVE Tried'
  BY <1>2, <1>11 DEF ReadScene, ReadComplete, ReadFailed
<1>12. ASSUME NEW x \in reports, ReadReport(x) PROVE Tried'
  BY <1>2, <1>12 DEF ReadReport
<1>13. ASSUME NEW t \in Tasks, NEW ok \in BOOLEAN, SceneEnds(t, ok) \/ TaskEnds(t, ok) PROVE Tried'
  BY <1>3, <1>13 DEF SceneEnds, TaskEnds
<1>14. ASSUME NEW t \in Reporting, NEW h \in Hashes, TaskReports(t, h) PROVE Tried'
  BY <1>3, <1>14 DEF TaskReports
<1>15. CASE UNCHANGED vars
  BY <1>3, <1>15 DEF vars
<1> HIDE DEF Tried
<1> QED
  BY <1>4, <1>5, <1>6, <1>7, <1>8, <1>9, <1>10, <1>11, <1>12, <1>13, <1>14, <1>15,
     HashAssumption, GraphAssumption DEF Next, Execute, Processes, Terminated

-----------------------------------------------------------------------------
(* The sanity checks *)

\* When all setscene tasks are decided, the walk down has passed all tasks.
LEMMA AllDone ==
  ASSUME TypeOK, DoneInv, Undecided = {}
  PROVE  tasks_scenequeue_done = Tasks
<1> DEFINE left == Tasks \ tasks_scenequeue_done
<1> SUFFICES ASSUME left # {} PROVE FALSE
  BY DEF TypeOK
<1>1. PICK t \in left : RevDeps(t) \cap left = {}
  BY LastTask
<1>2. RevDeps(t) \subseteq tasks_scenequeue_done
  BY <1>1 DEF RevDeps
<1>3. t \notin SceneTasks
  BY DEF DoneInv, Undecided
<1>4. RevDeps(t) # {}
  BY <1>3, UnskippableTop DEF DoneInv, Normal
<1> QED
  BY <1>2, <1>3, <1>4 DEF DoneInv, Normal

\* ... and when a task is picked it is known of all tasks whether they are covered.
LEMMA AllKnown ==
  ASSUME TypeOK, DoneInv, KnownInv, Undecided = {}, ~holdoff_need_update
  PROVE  Known = Tasks /\ holdoff_tasks = {}
<1>1. tasks_scenequeue_done \cap (Below(Decided) \cup (unskippable \cap Normal)) \subseteq Known
  BY DEF KnownInv, Below, Known
<1>2. Tasks \subseteq Below(Decided) \cup (unskippable \cap Normal)
  <2>1. SceneTasks \subseteq Decided
    BY DEF Undecided
  <2> QED
    BY <2>1, Everything DEF Below, Normal
<1>3. holdoff_tasks \subseteq Below({})
  BY DEF KnownInv, Below
<1> QED
  BY <1>1, <1>2, <1>3, AllDone DEF Below, Known, TypeOK

\* Then the checks of summarise_scenequeue_errors find nothing.
LEMMA NoError ==
  ASSUME IInv, StartableInv, DoneInv, KnownInv, pc = "sched", Undecided = {},
         updated_taskhash_queue = {}, \A t \in SceneTasks : ~Deferred(t)
  PROVE  ~SceneError
<1>1. ~holdoff_need_update
  BY DEF IInv, HoldInv
<1>2. TypeOK
  BY DEF IInv
<1>3. tasks_scenequeue_done = Tasks /\ Known = Tasks /\ holdoff_tasks = {}
  BY <1>1, <1>2, AllDone, AllKnown
<1>4. SceneTasks \subseteq Decided \cap sq_buildable \cap sq_running
  BY DEF Undecided, StartableInv, IInv, LiveInv
<1>5. \A t \in Known : Depends[t] \subseteq runq_complete => t \in runq_buildable
  BY <1>1 DEF KnownInv, Known
<1> QED
  BY <1>3, <1>4, <1>5 DEF SceneError, Known

\* While something is undecided and nothing is deferred, runs or is restored, a
\* setscene task can be picked: the topmost are buildable, and of those that wait
\* one insists on none that waits.
LEMMA SomethingToPick ==
  ASSUME NoHardLoops, IInv, StartableInv, Undecided # {}, Active = {}, sq_live = {},
         \A t \in SceneTasks : ~Deferred(t)
  PROVE  Candidates # {}
<1> DEFINE W == Undecided \cap sq_buildable
<1>1. Undecided \subseteq SceneTasks
  BY DEF Undecided
<1>2. PICK u \in Undecided : sq_revdeps[u] \cap Undecided = {}
  BY <1>1, TopScene
<1>3. sq_revdeps[u] \subseteq SceneTasks
  BY <1>1 DEF sq_revdeps
<1>4. u \in W
  BY <1>1, <1>2, <1>3 DEF StartableInv, Undecided
<1>5. PICK t \in W : HardDeps[t] \cap W = {}
  BY <1>1, <1>4 DEF NoHardLoops
<1>6. HardDeps[t] \subseteq SceneTasks
  BY <1>1, GraphAssumption
<1>7. t \notin sq_harddep_deferred
  BY <1>5, <1>6 DEF StartableInv, Undecided
<1>8. t \notin sq_running
  BY <1>5 DEF StartableInv, Undecided
<1> QED
  BY <1>1, <1>5, <1>7, <1>8 DEF Candidates

\* When nothing is left to do and no task has failed, every task is complete.
LEMMA FinishedRight ==
  ASSUME NoHardLoops, IInv, EndInv, Finished, failed_tids = {}
  PROVE  state' = "Complete" /\ runq_complete = Tasks
<1> USE DEF EndInv
<1>1. /\ pc = "sched" /\ ~SceneOver /\ Eligible = {} /\ Active = {} /\ sq_live = {}
      /\ \A t \in SceneTasks : ~Deferred(t)
  BY DEF Finished, Stuck
<1>2. ~holdoff_need_update /\ TypeOK
  BY <1>1 DEF IInv, HoldInv
<1>3. runq_running = runq_complete
  BY <1>1 DEF Active, IInv, ReadyInv
<1>4. updated_taskhash_queue = {}
  BY <1>1, <1>3 DEF IInv, ExitsInv, SettledInv
<1>5. Undecided = {}
  <2> SUFFICES ASSUME Undecided # {} PROVE FALSE
    OBVIOUS
  <2>1. Candidates # {}
    BY <1>1, SomethingToPick
  <2> QED
    BY <1>1, <2>1 DEF TriedInv
<1>6. ~SceneError
  BY <1>1, <1>4, <1>5, NoError
<1>7. Known = Tasks /\ holdoff_tasks = {}
  BY <1>2, <1>5, AllKnown
<1>8. runq_complete = Tasks
  <2> DEFINE left == Tasks \ runq_complete
  <2> SUFFICES ASSUME left # {} PROVE FALSE
    BY <1>2 DEF TypeOK
  <2>1. PICK t \in left : Depends[t] \cap left = {}
    BY LoopFreeAssumption
  <2>2. Depends[t] \subseteq runq_complete
    BY <2>1, GraphAssumption
  <2>3. t \in runq_buildable
    BY <1>2, <1>7, <2>2 DEF KnownInv, Known
  <2>4. can_start_task
    BY <1>1, <1>2, IdleStarts
  <2> QED
    BY <1>1, <1>3, <1>7, <2>3, <2>4 DEF Eligible, Known
<1>9. Tasks \subseteq runq_buildable \cap runq_running \cap runq_complete
  BY <1>3, <1>8 DEF KnownInv
<1> QED
  BY <1>6, <1>8, <1>9 DEF Finished

\* A build fails only when a task did, and is complete only when all tasks are.
LEMMA StateStep == NoHardLoops /\ IInv /\ EndInv /\ [Next]_vars => StateInv'
<1> SUFFICES ASSUME NoHardLoops, IInv, EndInv, [Next]_vars PROVE StateInv'
  OBVIOUS
<1> USE DEF StateInv, ResultRight, Ended
<1>0. StateInv /\ TypeOK
  BY DEF EndInv, IInv
<1>1. ASSUME pc' # "finish" \/ pc' = pc, pc # "ended", pc' # "ended", UNCHANGED <<state, failed_tids>>
      PROVE  StateInv'
  BY <1>0, <1>1
<1>2. ASSUME Return, pc # "ended", UNCHANGED <<state, failed_tids>> PROVE StateInv'
  BY <1>0, <1>2 DEF Return, TypeOK
<1>3. ASSUME UNCHANGED <<pc, state, failed_tids, runq_complete>> PROVE StateInv'
  BY <1>0, <1>3
<1>4. ASSUME NEW x \in exits, ReadScene(x) \/ ReadComplete(x) PROVE StateInv'
  BY <1>1, <1>4 DEF ReadScene, ReadComplete, taskVars
<1>5. ASSUME NEW x \in exits, ReadFailed(x) PROVE StateInv'
  BY <1>0, <1>5 DEF ReadFailed
<1>6. ASSUME NEW x \in reports, ReadReport(x) PROVE StateInv'
  BY <1>3, <1>6 DEF ReadReport, taskVars
<1>7. CASE Rehash \/ EndRead \/ NoScene
  BY <1>1, <1>7 DEF Rehash, EndRead, NoScene, ToSched, taskVars
<1>8. CASE Migrate
  BY <1>1, <1>8, MigrateCases
<1>9. ASSUME NEW t \in SceneTasks, SkipNotNeeded(t) \/ FailUnavailable(t) \/ ForceDeferred(t)
      PROVE  StateInv'
  BY <1>2, <1>9 DEF SkipNotNeeded, FailUnavailable, ForceDeferred, PicksScene, Stuck, taskVars
<1>10. ASSUME NEW t \in SceneTasks, WaitForHardDeps(t) \/ StartScene(t) PROVE StateInv'
  BY <1>1, <1>2, <1>10 DEF WaitForHardDeps, StartScene, PicksScene, ToSched, taskVars
<1>11. ASSUME NEW t \in Tasks, PassThrough(t) \/ RunTask(t) PROVE StateInv'
  BY <1>2, <1>11 DEF PassThrough, RunTask, Picks
<1>12. CASE WaitForTasks
  BY <1>2, <1>12 DEF WaitForTasks, taskVars
<1>13. CASE FinishScene
  <2>1. /\ pc = "sched" /\ holdoff_tasks = {} /\ updated_taskhash_queue = {}
        /\ \A t \in SceneTasks : ~Deferred(t)
    BY <1>13 DEF FinishScene, SceneOver
  <2>2. Undecided = {}
    BY <2>1 DEF IInv, HoldInv
  <2>3. ~SceneError
    BY <2>1, <2>2, NoError DEF EndInv
  <2> QED
    BY <1>3, <1>13, <2>3 DEF FinishScene, taskVars
<1>14. CASE Finished
  <2>1. /\ pc' = "ended" /\ UNCHANGED <<failed_tids, runq_complete>>
        /\ state' \in {"Failed", "Complete"} /\ (failed_tids # {} => state' = "Failed")
    BY <1>14 DEF Finished, taskVars
  <2> QED
    BY <1>14, <2>1, FinishedRight
<1>15. CASE FinishedCleanUp
  BY <1>0, <1>15 DEF FinishedCleanUp, taskVars
<1>16. ASSUME NEW t \in Tasks, NEW ok \in BOOLEAN, SceneEnds(t, ok) \/ TaskEnds(t, ok) PROVE StateInv'
  BY <1>3, <1>16 DEF SceneEnds, TaskEnds, taskVars
<1>17. ASSUME NEW t \in Reporting, NEW h \in Hashes, TaskReports(t, h) PROVE StateInv'
  BY <1>3, <1>17 DEF TaskReports, taskVars
<1>18. CASE UNCHANGED vars
  BY <1>3, <1>18 DEF vars, taskVars
<1> QED
  BY <1>4, <1>5, <1>6, <1>7, <1>8, <1>9, <1>10, <1>11, <1>12, <1>13, <1>14, <1>15, <1>16, <1>17,
     <1>18, HashAssumption, GraphAssumption DEF Next, Execute, Processes, Terminated

-----------------------------------------------------------------------------
(* The theorems *)

\* A build starts with what is skipped at once decided, and all below it passed.
LEMMA EndInit == Init => EndInv
<1> SUFFICES ASSUME Init PROVE EndInv
  OBVIOUS
<1> DEFINE skipped == SceneTasks \cap (NoExec \cup Staged \cup Built)
           direct == unskippable \cap Normal
<1>1. Decided = skipped
  BY DEF Init, Decided
<1>2. StartableInv
  <2>1. ASSUME NEW t \in SceneTasks, sq_revdeps[t] \subseteq Decided PROVE t \in sq_buildable
    BY <1>1, <2>1 DEF Init, Enabled
  <2> QED
    BY <1>1, <2>1 DEF Init, StartableInv
<1>3. DoneInv
  <2>1. \A t \in Normal : RevDeps(t) # {} /\ RevDeps(t) \subseteq direct => t \in direct
    BY UnskippableClosed DEF RevDeps, Normal
  <2>2. direct \in SUBSET Tasks /\ skipped \in SUBSET SceneTasks
    BY DEF Normal
  <2>3. tasks_scenequeue_done = DoneAfter(direct, skipped)
    BY DEF Init
  <2> HIDE DEF direct, skipped
  <2>4. /\ direct \cup skipped \subseteq tasks_scenequeue_done
        /\ \A t \in Normal : RevDeps(t) # {} /\ RevDeps(t) \subseteq tasks_scenequeue_done
               => t \in tasks_scenequeue_done
    BY <2>1, <2>2, <2>3, DoneAfterFacts
  <2> QED
    BY <1>1, <2>4 DEF DoneInv, direct
<1>4. KnownInv /\ TriedInv /\ StateInv
  BY DEF Init, KnownInv, TriedInv, StateInv, ResultRight, Ended
<1> QED
  BY <1>2, <1>3, <1>4 DEF EndInv

\* The inductive invariant of how a build ends holds in every reachable state.
THEOREM EndInvariant ==
  ASSUME NoHardLoops
  PROVE  Spec => []EndInv
<1>1. IInv /\ EndInv /\ [Next]_vars => EndInv'
  BY StartableStep, DoneStep, KnownStep, TriedStep, StateStep DEF EndInv
<1> QED
  BY <1>1, EndInit, Invariant, PTL DEF Spec

\* The sanity checks of execute and summarise_scenequeue_errors never fire: a
\* build fails exactly when a task failed, and is complete with every task.
THEOREM ResultsRight ==
  ASSUME NoHardLoops
  PROVE  Spec => []ResultRight
<1>1. EndInv => ResultRight
  BY DEF EndInv, StateInv
<1> QED
  BY <1>1, EndInvariant, PTL

\* Deferral is all that the queue can be stuck on: when nothing runs, is restored
\* or can be picked, and "Runqueue deadlocked on deferred tasks" finds no task to
\* force, every setscene task is decided.
THEOREM StuckOnlyWhenDeferred ==
  ASSUME NoHardLoops
  PROVE  Spec => [](Stuck /\ (\A t \in SceneTasks : ~Deferred(t)) => Undecided = {})
<1>1. IInv /\ EndInv => (Stuck /\ (\A t \in SceneTasks : ~Deferred(t)) => Undecided = {})
  <2> SUFFICES ASSUME IInv, EndInv, Stuck, \A t \in SceneTasks : ~Deferred(t), Undecided # {}
               PROVE  FALSE
    OBVIOUS
  <2>1. pc = "sched" /\ Active = {} /\ sq_live = {}
    BY DEF Stuck
  <2>2. Candidates # {}
    BY <2>1, SomethingToPick DEF EndInv
  <2> QED
    BY <2>1, <2>2 DEF EndInv, TriedInv
<1> QED
  BY <1>1, Invariant, EndInvariant, PTL
==============================================================================
