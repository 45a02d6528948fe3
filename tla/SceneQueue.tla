------------------------------ MODULE SceneQueue ------------------------------
(****************************************************************************)
(* RunQueueExecute (lib/bb/runqueue.py) with setscene tasks: a task whose   *)
(* output is in the shared state cache is restored by its setscene task     *)
(* instead of being run, and then covers the tasks that only it needs.      *)
(* The queue decides task by task, holds back what is undecided and defers  *)
(* tasks with equal hashes behind one another. A task may find out that its *)
(* output is that of another hash; the hashes of what depends on it change  *)
(* with it, and the queue decides anew on what has not started yet.         *)
(*                                                                          *)
(* One round of pc is one call of execute: read_workers, the changes of     *)
(* hashes, the loop over the setscene tasks, the end of their queue and the *)
(* next task, or finish. What RunQueue models of workers, pipes and         *)
(* interruptions is left out here, and every multiconfig has a TMPDIR, and  *)
(* so stamps, of its own.                                                   *)
(****************************************************************************)
EXTENDS Naturals, FiniteSets

CONSTANTS
    Tasks,          \* task ids
    Depends,        \* [Tasks -> SUBSET Tasks], RunTaskEntry.depends
    SceneTasks,     \* rqdata.runq_setscene_tids
    Targets,        \* rqdata.target_tids
    HardDeps,       \* sq_harddeps_rev: setscene tasks a setscene task insists on
    Hashes,         \* unified hashes, as pending_hash_index tells them apart
    Hash,           \* [SceneTasks -> Hashes], those the build starts with
    NewHashes,      \* [SceneTasks -> SUBSET Hashes], what they may change to
    Reporting,      \* tasks whose report may be answered with another hash
    Config,         \* [SceneTasks -> Nat], the multiconfigs in their order
    NoExec,         \* tasks with the noexec flag
    Stamps,         \* [SceneTasks -> SUBSET Hashes], restored by earlier builds
    Cached,         \* hashes that the shared state cache may hold at first
    Built,          \* tasks run by an earlier build, stamp current
    Droppable,      \* those BB_SETSCENE_DEPVALID lets go when all is covered
    NumberTasks,    \* BB_NUMBER_THREADS
    HaltOnFailure,  \* taskData.halt
    Failing,        \* tasks that may fail
    SceneFailing    \* setscene tasks that may fail although the cache has the output

NoTask == "none"

ASSUME GraphAssumption ==
    /\ IsFiniteSet(Tasks) /\ NoTask \notin Tasks
    /\ Depends \in [Tasks -> SUBSET Tasks]
    /\ SceneTasks \subseteq Tasks /\ SceneTasks # {}
    /\ HardDeps \in [SceneTasks -> SUBSET SceneTasks]
    /\ Config \in [SceneTasks -> Nat]
\* calculate_task_weights gives the build up when dependencies form a loop.
ASSUME LoopFreeAssumption ==
    \A S \in SUBSET Tasks : S # {} => \E t \in S : Depends[t] \cap S = {}
ASSUME HashAssumption ==
    /\ Hash \in [SceneTasks -> Hashes] /\ NewHashes \in [SceneTasks -> SUBSET Hashes]
    /\ Stamps \in [SceneTasks -> SUBSET Hashes] /\ Reporting \subseteq SceneTasks
    /\ Cached \subseteq Hashes

Staged == {t \in SceneTasks : Hash[t] \in Stamps[t]}

ASSUME SubsetsAssumption ==
    /\ Targets \subseteq Tasks /\ NoExec \subseteq Tasks /\ Droppable \subseteq SceneTasks
    /\ Built \subseteq Tasks /\ \A t \in Built : Depends[t] \subseteq Built \cup Staged
ASSUME SettingsAssumption ==
    /\ NumberTasks \in Nat \ {0} /\ HaltOnFailure \in BOOLEAN
    /\ Failing \subseteq Tasks /\ SceneFailing \subseteq SceneTasks

VARIABLES
    pc, state,
    sq_buildable, sq_running, sq_live,
    scenequeue_covered, scenequeue_notcovered,
    sq_deferred,            \* the task a setscene task is deferred after, or NoTask
    sq_needed_harddeps, sq_harddep_deferred, outrightfail,
    tasks_covered, tasks_notcovered, tasks_scenequeue_done,
    holdoff_tasks, holdoff_need_update, sqdone,
    runq_buildable, runq_running, runq_complete, runq_tasksrun, failed_tids,
    unihash,                \* runtaskentries[tid].unihash
    siggen,                 \* bb.parse.siggen.unihash
    hashes,                 \* sqdata.hashes: the first task with a hash
    updated_taskhash_queue, pending_migrations,
    exits, reports,         \* exit codes and taskUniHashUpdate events in the pipes
    bb_unihash,             \* BB_UNIHASH of the process of a task
    sstate,                 \* hashes in the shared state cache
    restored                \* setscene tasks whose output was restored

\* What deciding on a setscene task changes, and the rest of the queue's state.
queueVars == <<sq_buildable, sq_running, scenequeue_covered, scenequeue_notcovered,
               sq_harddep_deferred, tasks_scenequeue_done>>
sceneVars == <<queueVars, sq_live, sq_deferred, sq_needed_harddeps, outrightfail>>
holdVars == <<tasks_covered, tasks_notcovered, holdoff_tasks, holdoff_need_update>>
taskVars == <<runq_buildable, runq_running, runq_complete, runq_tasksrun, failed_tids>>
hashVars == <<unihash, siggen, hashes, updated_taskhash_queue, pending_migrations>>
worldVars == <<exits, reports, bb_unihash, sstate, restored>>
vars == <<pc, state, sqdone, sceneVars, holdVars, taskVars, hashVars, worldVars>>

ExitCode == {x \in [task : Tasks, scene : BOOLEAN, ok : BOOLEAN] :
                x.scene => x.task \in SceneTasks}
Report == [task : Reporting, hash : Hashes]

-----------------------------------------------------------------------------
(* build_scenequeue_data                                                    *)

Normal == Tasks \ SceneTasks
RevDeps(t) == {r \in Tasks : t \in Depends[r]}
DependsOf(S) == UNION {Depends[t] : t \in S}

\* The least set of elements of S that is closed: what a work list ends with.
Least(S, closed(_)) == {x \in S : \A X \in SUBSET S : closed(X) => x \in X}

\* The tasks without a setscene task that t needs, down to the next ones with.
sq_covered_tasks ==
    [t \in SceneTasks |->
        Least(Normal, LAMBDA X : (Depends[t] \cup DependsOf(X)) \cap Normal \subseteq X)]

\* The setscene tasks next above t.
sq_revdeps ==
    [t \in SceneTasks |->
        {r \in SceneTasks : t \in Depends[r] \cup DependsOf(sq_covered_tasks[r])}]

sq_deps == [t \in SceneTasks |-> {d \in SceneTasks : t \in sq_revdeps[d]}]

cantskip == Targets \ SceneTasks

\* What the build needs directly, down to the first tasks with a setscene task.
unskippable ==
    LET top == {t \in Tasks : RevDeps(t) = {}} \cup cantskip
    IN  Least(Tasks, LAMBDA X : top \cup DependsOf(X \cap Normal) \subseteq X)

-----------------------------------------------------------------------------
(* scenequeue_updatecounters                                                *)

Decided == scenequeue_covered \cup scenequeue_notcovered

\* The setscene tasks below F all of whose reverse dependencies are in D.
Enabled(F, D) == {t \in SceneTasks : sq_revdeps[t] \cap F # {} /\ sq_revdeps[t] \subseteq D}

\* F and the normal tasks below it that nothing undecided needs.
DoneAfter(done, F) ==
    LET known(X) == done \cup F \cup X
    IN  known(Least(Normal, LAMBDA X :
            \A t \in DependsOf(F \cup X) \cap Normal : RevDeps(t) \subseteq known(X) => t \in X))

\* The queue after the tasks in F are decided, B of them having been pushed.
updatecounters(F, B) ==
    LET D == Decided \cup F
    IN  /\ sq_buildable' = sq_buildable \cup B \cup Enabled(F, D)
        /\ tasks_scenequeue_done' = DoneAfter(tasks_scenequeue_done, F)
        /\ sq_harddep_deferred' = {t \in sq_harddep_deferred : ~(HardDeps[t] \subseteq D)}
        /\ holdoff_need_update' = TRUE

\* Mutant: the tasks it covers count as covered setscene tasks.
X_Cover(t) ==
    /\ scenequeue_covered' = scenequeue_covered \cup {t} \cup sq_covered_tasks[t]
    /\ sq_running' = sq_running \cup {t}
    /\ updatecounters({t}, {t})
    /\ UNCHANGED scenequeue_notcovered

\* sq_task_complete(t), and sq_task_skip(t) when t was not started.
Cover(t) ==
    /\ scenequeue_covered' = scenequeue_covered \cup {t}
    /\ sq_running' = sq_running \cup {t}
    /\ updatecounters({t}, {t})
    /\ UNCHANGED scenequeue_notcovered

\* Mutant: those that insist on them are not failed.
X_FailAll(F, D) == F

\* What was run by now, or restored by this or an earlier build.
Ran == runq_tasksrun \cup {x.task : x \in {e \in exits : ~e.scene /\ e.ok}}
Present ==
    NoExec \cup Built \cup restored \cup Ran \cup {t \in SceneTasks : unihash[t] \in Stamps[t]}

\* check_setscene_stamps: the stamp of a task that was run has the hash it ended
\* with; tasks on which a task in runq_tasksrun depends have stamps too, and older
\* ones.
Skipped == SceneTasks \cap (Present \ {t \in Ran \cap SceneTasks : bb_unihash[t] # unihash[t]})

\* Failing setscene tasks fail those that insist on them, and so on, but for
\* what is decided, in D.
FailAll(F, D) ==
    Least(SceneTasks, LAMBDA X :
        /\ F \subseteq X
        /\ \A s \in SceneTasks \ (D \cup Skipped) : HardDeps[s] \cap X # {} => s \in X)

FailSet(t) == FailAll({t}, Decided)

\* sq_task_fail(t), and sq_task_failoutright(t) when t was not started.
Uncover(t) ==
    /\ scenequeue_notcovered' = scenequeue_notcovered \cup FailSet(t)
    /\ sq_running' = sq_running \cup FailSet(t)
    /\ updatecounters(FailSet(t), FailSet(t))
    /\ UNCHANGED scenequeue_covered

-----------------------------------------------------------------------------
\* Of the tasks with one hash the first leads, in the order of the multiconfigs,
\* and the others are deferred after it.
Leaders ==
    {f \in [{Hash[t] : t \in SceneTasks} -> SceneTasks] :
        \A t \in SceneTasks : Hash[f[Hash[t]]] = Hash[t] /\ Config[f[Hash[t]]] <= Config[t]}

\* __init__: what is noexec or staged is skipped, what the cache lacks will fail.
Init ==
    LET skipped == SceneTasks \cap (NoExec \cup Staged \cup Built)
    IN  /\ pc = "read" /\ state = "Running" /\ sqdone = FALSE
        /\ sstate \in SUBSET Cached
        /\ unihash = Hash /\ siggen = Hash /\ bb_unihash = Hash
        /\ hashes \in Leaders
        /\ updated_taskhash_queue = {} /\ pending_migrations = {}
        /\ sq_deferred = [t \in SceneTasks |-> IF hashes[Hash[t]] = t THEN NoTask
                                                ELSE hashes[Hash[t]]]
        /\ sq_buildable = {t \in SceneTasks : sq_revdeps[t] = {}}
                            \cup skipped \cup Enabled(skipped, skipped)
        /\ sq_running = skipped /\ sq_live = {}
        /\ scenequeue_covered = skipped /\ scenequeue_notcovered = {}
        /\ sq_needed_harddeps = {} /\ sq_harddep_deferred = {}
        /\ outrightfail = {t \in SceneTasks \ skipped :
                               Hash[t] \notin sstate /\ sq_deferred[t] = NoTask}
        /\ tasks_scenequeue_done = DoneAfter(unskippable \cap Normal, skipped)
        /\ tasks_covered = {} /\ tasks_notcovered = {}
        /\ holdoff_tasks = {} /\ holdoff_need_update = TRUE
        /\ runq_buildable = {t \in unskippable \cap Normal : Depends[t] = {}}
        /\ runq_running = {} /\ runq_complete = {} /\ runq_tasksrun = {}
        /\ failed_tids = {}
        /\ exits = {} /\ reports = {} /\ restored = Staged

-----------------------------------------------------------------------------
(* Helpers of execute                                                       *)

Active == runq_running \ (runq_complete \cup failed_tids)    \* stats.active
Busy == Cardinality(Active) + Cardinality(sq_live)
can_start_task == Busy < NumberTasks

Return == pc' = IF state = "Running" THEN "read" ELSE "finish"

\* Mutant: the other dependencies are not looked at.
X_NewBuildable(t, C) == RevDeps(t) \ (runq_running \cup runq_buildable)

NewBuildable(t, C) ==
    {r \in RevDeps(t) \ (runq_running \cup runq_buildable) : Depends[r] \subseteq C}

\* The end of task_completeoutright: one of the tasks deferred after t is let
\* go, the others wait for that one; update_scenequeue_data looks it up again.
ReleaseDeferred(t) ==
    LET waiting == {d \in SceneTasks : sq_deferred[d] = t}
    IN  IF waiting = {}
        THEN UNCHANGED <<sq_deferred, outrightfail, queueVars, holdoff_need_update>>
        ELSE \E found \in waiting :
                /\ sq_deferred' = [d \in SceneTasks |->
                       IF d = found THEN NoTask
                       ELSE IF d \in waiting THEN found ELSE sq_deferred[d]]
                /\ outrightfail' =
                       IF found \in Skipped \cup Decided \/ unihash[found] \in sstate
                       THEN outrightfail \ {found} ELSE outrightfail \cup {found}
                /\ IF found \in Skipped THEN Cover(found)
                   ELSE UNCHANGED <<queueVars, holdoff_need_update>>

task_completeoutright(t) ==
    /\ runq_complete' = runq_complete \cup {t}
    /\ ReleaseDeferred(t)

\* Mutant: what the build asks for directly is forgotten.
X_holdoff_unskippable ==
    IF ~holdoff_need_update THEN UNCHANGED <<holdVars, runq_buildable>>
    ELSE LET below(S) == S \cup UNION {sq_covered_tasks[t] : t \in S}
             notcovered == tasks_scenequeue_done \cap
                 below(scenequeue_notcovered)
             covered == tasks_scenequeue_done \cap (below(scenequeue_covered) \ notcovered)
             undecided == SceneTasks \ Decided
         IN  /\ tasks_covered' = covered /\ tasks_notcovered' = notcovered
             /\ runq_buildable' = runq_buildable \cup
                    {t \in covered \cup notcovered : Depends[t] \subseteq runq_complete}
             /\ holdoff_tasks' = undecided \cup (below(undecided) \ (runq_complete \cup undecided))
             /\ holdoff_need_update' = FALSE

update_holdofftasks ==
    IF ~holdoff_need_update THEN UNCHANGED <<holdVars, runq_buildable>>
    ELSE LET below(S) == S \cup UNION {sq_covered_tasks[t] : t \in S}
             notcovered == tasks_scenequeue_done \cap
                 (below(scenequeue_notcovered) \cup cantskip \cup (unskippable \ SceneTasks))
             covered == tasks_scenequeue_done \cap (below(scenequeue_covered) \ notcovered)
             undecided == SceneTasks \ Decided
         IN  /\ tasks_covered' = covered /\ tasks_notcovered' = notcovered
             /\ runq_buildable' = runq_buildable \cup
                    {t \in covered \cup notcovered : Depends[t] \subseteq runq_complete}
             /\ holdoff_tasks' = undecided \cup (below(undecided) \ (runq_complete \cup undecided))
             /\ holdoff_need_update' = FALSE

-----------------------------------------------------------------------------
(* execute: read_workers                                                    *)

sq_task_complete(t) == Cover(t)
sq_task_fail(t) == Uncover(t)

\* Mutant: exit codes overtake the events of their task.
X_Unread(t) == FALSE

\* A pipe keeps the order: the event of a task comes before its exit code.
Unread(t) == \E x \in reports : x.task = t

ReadReport(x) ==
    /\ pc \in {"read", "finish"} /\ x \in reports
    /\ reports' = reports \ {x}
    /\ updated_taskhash_queue' = updated_taskhash_queue \cup {x}
    /\ UNCHANGED <<pc, state, sqdone, sceneVars, holdVars, taskVars, unihash, siggen, hashes,
                   pending_migrations, exits, bb_unihash, sstate, restored>>

\* runqueue_process_waitpid for a setscene task
ReadScene(x) ==
    /\ pc \in {"read", "finish"} /\ x \in exits /\ x.scene
    /\ exits' = exits \ {x}
    /\ sq_live' = sq_live \ {x.task}
    /\ IF x.ok THEN sq_task_complete(x.task) ELSE sq_task_fail(x.task)
    /\ UNCHANGED <<pc, state, sqdone, sq_deferred, sq_needed_harddeps, outrightfail,
                   tasks_covered, tasks_notcovered, holdoff_tasks, taskVars,
                   reports, bb_unihash,
                   sstate, restored, hashVars>>

\* ... and for a task
ReadComplete(x) ==
    /\ pc \in {"read", "finish"} /\ x \in exits /\ ~x.scene /\ x.ok /\ ~Unread(x.task)
    /\ exits' = exits \ {x}
    /\ task_completeoutright(x.task)
    /\ runq_buildable' = runq_buildable \cup NewBuildable(x.task, runq_complete')
    /\ runq_tasksrun' = runq_tasksrun \cup {x.task}
    /\ UNCHANGED <<pc, state, sqdone, sq_live, sq_needed_harddeps, tasks_covered,
                   tasks_notcovered, holdoff_tasks, runq_running, failed_tids,
                   reports, bb_unihash,
                   sstate, restored, hashVars>>

ReadFailed(x) ==
    /\ pc \in {"read", "finish"} /\ x \in exits /\ ~x.scene /\ ~x.ok /\ ~Unread(x.task)
    /\ exits' = exits \ {x}
    /\ failed_tids' = failed_tids \cup {x.task}
    /\ state' = IF HaltOnFailure THEN "CleanUp" ELSE state
    /\ UNCHANGED <<pc, sqdone, sceneVars, holdVars, runq_buildable, runq_running,
                   runq_complete, runq_tasksrun, reports, bb_unihash,
                   sstate, restored, hashVars>>

-----------------------------------------------------------------------------
(* execute: process_possible_migrations                                     *)

Rehashing == updated_taskhash_queue \cup pending_migrations # {}

\* The updates of tasks that do not run any more, and the tasks they are for:
\* the task that reported, and those deferred after it.
Taken == {x \in updated_taskhash_queue : x.task \notin runq_running \ runq_complete}
UpdatesOf(t) ==
    {x \in Taken : x.hash # unihash[x.task] /\ (x.task = t \/ sq_deferred[t] = x.task)}
toprocess == {t \in SceneTasks : UpdatesOf(t) # {}}
Told == [t \in SceneTasks |->
            IF t \in toprocess THEN (CHOOSE x \in UpdatesOf(t) : TRUE).hash ELSE unihash[t]]
ToldSiggen == [t \in SceneTasks |-> IF t \in toprocess THEN Told[t] ELSE siggen[t]]

\* The setscene tasks above them.
total ==
    Least(SceneTasks, LAMBDA X :
        \A t \in toprocess \cup X : {r \in SceneTasks : t \in sq_deps[r]} \subseteq X)

\* Those whose output is there, or is about to be, keep their hash.
Kept == scenequeue_covered \cup sq_live

\* What get_unihashes may return, in the order of dependencies, for hashes that
\* are made of the hashes that moved; and report_unihash_equiv for what is kept.
Moved(s) == LET told == ToldSiggen IN toprocess \cup {t \in SceneTasks : s[t] # told[t]}
Regenerated ==
    LET above == total
        told == ToldSiggen
        answers(t) == NewHashes[t] \cup {told[t], Told[t]}
        given == {[t \in SceneTasks |-> IF t \in above THEN h[t] ELSE told[t]] :
                   h \in {f \in [above -> UNION {answers(t) : t \in above}] :
                              \A t \in above : f[t] \in answers(t)}}
    IN  {s \in given :
            LET moved == Moved(s)
            IN  \A t \in above :
                    \/ s[t] = told[t]
                    \/ s[t] \in NewHashes[t] /\ sq_deps[t] \cap moved # {}
                    \/ s[t] = Told[t] /\ t \in Kept}

\* What changed is looked at again from here on.
Relook ==
    /\ sq_needed_harddeps' = {} /\ sq_harddep_deferred' = {}
    /\ holdoff_need_update' = TRUE

Rehash ==
    /\ pc = "read" /\ exits = {} /\ Rehashing
    /\ pc' = "migrate"
    /\ updated_taskhash_queue' = updated_taskhash_queue \ Taken
    /\ siggen' \in Regenerated
    /\ LET told == Told
           above == total
           changed == {t \in above \ Kept : siggen'[t] # told[t]}
       IN  /\ unihash' = [t \in SceneTasks |-> IF t \in changed THEN siggen'[t] ELSE told[t]]
           /\ pending_migrations' = pending_migrations \cup changed
           /\ IF changed # {} \/ \E t \in Normal : Depends[t] \cap Moved(siggen') # {}
              THEN Relook
              ELSE UNCHANGED <<sq_needed_harddeps, sq_harddep_deferred, holdoff_need_update>>
    /\ UNCHANGED <<state, sqdone, sq_buildable, sq_running, sq_live, scenequeue_covered,
                   scenequeue_notcovered, sq_deferred, outrightfail, tasks_covered,
                   tasks_notcovered, tasks_scenequeue_done, holdoff_tasks, taskVars, hashes,
                   worldVars>>

\* A setscene task can be decided anew unless its task runs or has run, or it
\* is restored; it has to wait while a task that it covers runs.
Late == runq_running \cup sq_live
Blocked(t) == sq_covered_tasks[t] \cap (runq_running \ runq_complete) # {}

\* Mutant: it does not wait.
X_Migrating == pending_migrations \ Late

Migrating == {t \in pending_migrations \ Late : ~Blocked(t)}

\* Covered by it, and skipped for that.
Rerun(t) == sq_covered_tasks[t] \cap (runq_complete \ runq_tasksrun) # {}

\* "marked as completed but now needing to rerun": what else has changed by then
\* does not matter, the build is stopped.
HaltForRerun(t) ==
    /\ failed_tids' = failed_tids \cup {t}
    /\ state' = "CleanUp"
    /\ UNCHANGED <<sqdone, sceneVars, holdVars>>

\* The tasks in S are undecided again, unless the new hash has a stamp, or a
\* task they insist on is not covered.
DecideAnew(S) ==
    LET covered == scenequeue_covered \ S
        notcovered == scenequeue_notcovered \ S
        harddepfail == {t \in S : HardDeps[t] \cap notcovered # {}}
        stamped == {t \in S : unihash[t] \in Stamps[t]}
        failed == FailAll(harddepfail, covered \cup notcovered \cup stamped)
        F == stamped \cup failed
        first == {t \in S : sq_revdeps[t] = {}}
        ready == {t \in S \ harddepfail : sq_revdeps[t] \subseteq covered \cup notcovered}
        below == (UNION {sq_covered_tasks[t] : t \in S}) \ (runq_complete \cup unskippable)
    IN  /\ scenequeue_covered' = covered \cup stamped
        /\ scenequeue_notcovered' = notcovered \cup failed
        /\ sq_running' = (sq_running \ S) \cup F
        /\ sq_buildable' = (sq_buildable \ S) \cup first \cup ready
                              \cup F \cup Enabled(F, covered \cup notcovered \cup F)
        /\ tasks_scenequeue_done' = DoneAfter(tasks_scenequeue_done \ (S \cup below), F)
        /\ sq_deferred' = [t \in SceneTasks |->
               IF t \in S /\ unihash[t] \in DOMAIN hashes /\ hashes[unihash[t]] # t
               THEN hashes[unihash[t]] ELSE sq_deferred[t]]
        /\ outrightfail' = (outrightfail \ S) \cup
               {t \in S \ stamped : unihash[t] \notin sstate /\ sq_deferred'[t] = NoTask}
        /\ sqdone' = FALSE

Migrate ==
    /\ pc = "migrate" /\ pc' = "migrated"
    /\ pending_migrations' = {t \in pending_migrations \ Late : Blocked(t)}
    /\ IF Migrating = {} THEN UNCHANGED <<state, sqdone, sceneVars, holdVars, failed_tids>>
       ELSE IF \E t \in Migrating : Rerun(t) THEN \E t \in Migrating : Rerun(t) /\ HaltForRerun(t)
       ELSE /\ DecideAnew(Migrating) /\ Relook
            /\ UNCHANGED <<state, sq_live, tasks_covered, tasks_notcovered, holdoff_tasks,
                           failed_tids>>
    /\ UNCHANGED <<runq_buildable, runq_running, runq_complete, runq_tasksrun, unihash, siggen,
                   hashes, updated_taskhash_queue, worldVars>>

ToSched == pc' = "sched" /\ update_holdofftasks

EndRead ==
    /\ \/ pc = "read" /\ exits = {} /\ ~Rehashing
       \/ pc = "migrated"
    /\ IF ~sqdone /\ can_start_task
       THEN pc' = "scene" /\ UNCHANGED <<holdVars, runq_buildable>>
       ELSE ToSched
    /\ UNCHANGED <<state, sqdone, sceneVars, runq_running, runq_complete,
                   runq_tasksrun, failed_tids, worldVars, hashVars>>

-----------------------------------------------------------------------------
(* execute: the next setscene task                                          *)

Deferred(t) == sq_deferred[t] # NoTask

\* Mutant: a setscene task that was started can be started again.
X_Candidates_again ==
    {t \in sq_buildable \ (sq_harddep_deferred \cup Active) :
        Deferred(t) => sq_deferred[t] \in runq_complete}

\* Mutant: a deferred task does not wait.
X_Candidates_eager == sq_buildable \ (sq_running \cup sq_harddep_deferred \cup Active)

Candidates ==
    {t \in sq_buildable \ (sq_running \cup sq_harddep_deferred \cup Active) :
        Deferred(t) => sq_deferred[t] \in runq_complete}

\* Mutant: decided is taken for covered.
X_NotNeeded(t) ==
    /\ t \notin unskippable \cup sq_needed_harddeps \cup Targets
    /\ sq_revdeps[t] # {} /\ sq_revdeps[t] \subseteq Decided
    /\ t \in Droppable

NotNeeded(t) ==
    /\ t \notin unskippable \cup sq_needed_harddeps \cup Targets
    /\ sq_revdeps[t] # {} /\ sq_revdeps[t] \subseteq scenequeue_covered
    /\ t \in Droppable

MissesHardDeps(t) == ~(HardDeps[t] \subseteq Decided)

PicksScene(t) == pc = "scene" /\ t \in Candidates

Undefer(t) == sq_deferred' = [sq_deferred EXCEPT ![t] = NoTask]

SkipNotNeeded(t) ==
    /\ PicksScene(t) /\ NotNeeded(t)
    /\ Cover(t)
    /\ Undefer(t)
    /\ Return
    /\ UNCHANGED <<state, sqdone, sq_live, sq_needed_harddeps, outrightfail,
                   tasks_covered, tasks_notcovered, holdoff_tasks, taskVars, worldVars, hashVars>>

\* The hard dependencies are enabled; if they were already, the loop goes on.
WaitForHardDeps(t) ==
    LET new == HardDeps[t] \ sq_needed_harddeps
    IN  /\ PicksScene(t) /\ ~NotNeeded(t) /\ MissesHardDeps(t)
        /\ sq_buildable' = sq_buildable \cup new
        /\ sq_needed_harddeps' = sq_needed_harddeps \cup new
        /\ sq_harddep_deferred' = sq_harddep_deferred \cup {t}
        /\ IF new # {} THEN Return ELSE UNCHANGED pc
        /\ UNCHANGED <<state, sqdone, sq_running, sq_live, scenequeue_covered,
                       scenequeue_notcovered, sq_deferred, outrightfail,
                       tasks_scenequeue_done, holdVars, taskVars, worldVars, hashVars>>

\* Marked as not in the cache, or no longer deferred and still not there.
Unavailable(t) == t \in outrightfail \/ (Deferred(t) /\ unihash[t] \notin sstate)

FailUnavailable(t) ==
    /\ PicksScene(t) /\ ~NotNeeded(t) /\ ~MissesHardDeps(t) /\ Unavailable(t)
    /\ Uncover(t)
    /\ Undefer(t)
    /\ Return
    /\ UNCHANGED <<state, sqdone, sq_live, sq_needed_harddeps, outrightfail,
                   tasks_covered, tasks_notcovered, holdoff_tasks, taskVars, worldVars, hashVars>>

StartScene(t) ==
    /\ PicksScene(t) /\ ~NotNeeded(t) /\ ~MissesHardDeps(t) /\ ~Unavailable(t)
    /\ Undefer(t)
    /\ sq_running' = sq_running \cup {t}
    /\ sq_live' = sq_live \cup {t}
    /\ IF Busy + 1 < NumberTasks
       THEN Return /\ UNCHANGED <<holdVars, runq_buildable>>
       ELSE ToSched
    /\ UNCHANGED <<state, sqdone, sq_buildable, scenequeue_covered,
                   scenequeue_notcovered, sq_needed_harddeps, sq_harddep_deferred,
                   outrightfail, tasks_scenequeue_done, runq_running, runq_complete,
                   runq_tasksrun, failed_tids, worldVars, hashVars>>

NoScene ==
    /\ pc = "scene" /\ Candidates = {}
    /\ ToSched
    /\ UNCHANGED <<state, sqdone, sceneVars, runq_running, runq_complete,
                   runq_tasksrun, failed_tids, worldVars, hashVars>>

-----------------------------------------------------------------------------
(* execute: the end of the setscene queue, and the next task                *)

\* summarise_scenequeue_errors
SceneError ==
    \/ holdoff_tasks # {} \/ updated_taskhash_queue # {}
    \/ \E t \in SceneTasks : Deferred(t)
    \/ \E t \in SceneTasks : t \notin Decided \cap sq_buildable \cap sq_running
    \/ \E t \in Tasks :
          \/ t \notin tasks_scenequeue_done \cap (tasks_covered \cup tasks_notcovered)
          \/ Depends[t] = {} /\ t \notin runq_buildable

SceneOver ==
    /\ ~sqdone /\ sq_live = {} /\ updated_taskhash_queue = {} /\ holdoff_tasks = {}
    /\ \A t \in SceneTasks : ~Deferred(t)

FinishScene ==
    /\ pc = "sched" /\ SceneOver
    /\ IF SceneError
       THEN state' = "Failed" /\ pc' = "ended" /\ UNCHANGED sqdone
       ELSE sqdone' = TRUE /\ UNCHANGED <<state, pc>>
    /\ UNCHANGED <<sceneVars, holdVars, taskVars, worldVars, hashVars>>

Eligible ==
    IF ~can_start_task THEN {}
    ELSE ((runq_buildable \ runq_running) \ holdoff_tasks)
            \cap (tasks_covered \cup tasks_notcovered)

Picks(t) == pc = "sched" /\ ~SceneOver /\ t \in Eligible

\* task_skip for a covered task, and the noexec case, which counts as run.
PassThrough(t) ==
    /\ Picks(t) /\ t \in tasks_covered \cup NoExec \cup Built
    /\ runq_running' = runq_running \cup {t}
    /\ task_completeoutright(t)
    /\ runq_buildable' = runq_buildable \cup {t}
            \cup (NewBuildable(t, runq_complete') \ {t})
    /\ runq_tasksrun' = IF t \in tasks_covered THEN runq_tasksrun
                                               ELSE runq_tasksrun \cup {t}
    /\ Return
    /\ UNCHANGED <<state, sqdone, sq_live, sq_needed_harddeps, tasks_covered,
                   tasks_notcovered, holdoff_tasks, failed_tids, worldVars, hashVars>>

\* With another slot free or not, the call ends here: nothing to read yet.
RunTask(t) ==
    /\ Picks(t) /\ t \notin tasks_covered \cup NoExec \cup Built
    /\ runq_running' = runq_running \cup {t}
    /\ bb_unihash' = [s \in SceneTasks |-> IF s = t THEN unihash[t] ELSE bb_unihash[s]]
    /\ Return
    /\ UNCHANGED <<state, sqdone, sceneVars, holdVars, runq_buildable, runq_complete,
                   runq_tasksrun, failed_tids, exits, reports, sstate, restored, hashVars>>

WaitForTasks ==
    /\ pc = "sched" /\ ~SceneOver /\ Eligible = {} /\ Active \cup sq_live # {}
    /\ Return
    /\ UNCHANGED <<state, sqdone, sceneVars, holdVars, taskVars, worldVars, hashVars>>

Stuck == pc = "sched" /\ ~SceneOver /\ Eligible = {} /\ Active \cup sq_live = {}

\* Mutant: the entry is not removed.
X_ForceDeferred(t) ==
    /\ Stuck /\ Deferred(t)
    /\ Return
    /\ UNCHANGED <<state, sqdone, sceneVars, holdVars, taskVars, worldVars, hashVars>>

\* "Runqueue deadlocked on deferred tasks, forcing task"
ForceDeferred(t) ==
    /\ Stuck /\ Deferred(t)
    /\ Undefer(t)
    /\ Return
    /\ UNCHANGED <<state, sqdone, queueVars, sq_live, sq_needed_harddeps,
                   outrightfail, holdVars, taskVars, worldVars, hashVars>>

\* The sanity checks at the end of execute.
Finished ==
    /\ Stuck /\ \A t \in SceneTasks : ~Deferred(t)
    /\ state' = IF \/ failed_tids # {} \/ SceneError
                   \/ \E t \in Tasks : t \notin runq_buildable \cap runq_running \cap runq_complete
                THEN "Failed" ELSE "Complete"
    /\ pc' = "ended"
    /\ UNCHANGED <<sqdone, sceneVars, holdVars, taskVars, worldVars, hashVars>>

\* finish, after a failure: wait for what runs.
FinishedCleanUp ==
    /\ pc = "finish" /\ Active \cup sq_live = {}
    /\ state' = "Failed" /\ pc' = "ended"
    /\ UNCHANGED <<sqdone, sceneVars, holdVars, taskVars, worldVars, hashVars>>

-----------------------------------------------------------------------------
(* Tasks                                                                    *)

\* A setscene task can only succeed when the cache has the output.
SceneEnds(t, ok) ==
    /\ t \in sq_live /\ \A x \in exits : x.task # t
    /\ IF ok THEN unihash[t] \in sstate ELSE t \in SceneFailing \/ unihash[t] \notin sstate
    /\ exits' = exits \cup {[task |-> t, scene |-> TRUE, ok |-> ok]}
    /\ restored' = IF ok THEN restored \cup {t} ELSE restored
    /\ UNCHANGED <<pc, state, sqdone, sceneVars, holdVars, taskVars, hashVars, reports,
                   bb_unihash, sstate>>

\* A task that has a setscene task reports its output once, and learns whose it
\* is.
TaskReports(t, h) ==
    /\ t \in Active /\ (\A x \in exits : x.task # t)
    /\ \A x \in reports \cup updated_taskhash_queue : x.task # t
    /\ h \in NewHashes[t] \ {bb_unihash[t]}
    /\ reports' = reports \cup {[task |-> t, hash |-> h]}
    /\ bb_unihash' = [bb_unihash EXCEPT ![t] = h]
    /\ UNCHANGED <<pc, state, sqdone, sceneVars, holdVars, taskVars, hashVars, exits,
                   sstate, restored>>

\* It puts the output into the cache, under the hash that it was told last.
TaskEnds(t, ok) ==
    /\ t \in Active /\ \A x \in exits : x.task # t
    /\ ok \/ t \in Failing
    /\ exits' = exits \cup {[task |-> t, scene |-> FALSE, ok |-> ok]}
    /\ sstate' = IF ok /\ t \in SceneTasks THEN sstate \cup {bb_unihash[t]} ELSE sstate
    /\ UNCHANGED <<pc, state, sqdone, sceneVars, holdVars, taskVars, hashVars, reports,
                   bb_unihash, restored>>

Ended == pc = "ended"
Terminated == Ended /\ UNCHANGED vars

Execute ==
    \/ \E x \in exits : ReadScene(x) \/ ReadComplete(x) \/ ReadFailed(x)
    \/ \E x \in reports : ReadReport(x)
    \/ Rehash \/ Migrate \/ EndRead
    \/ \E t \in SceneTasks :
          \/ SkipNotNeeded(t) \/ WaitForHardDeps(t) \/ FailUnavailable(t) \/ StartScene(t)
          \/ ForceDeferred(t)
    \/ NoScene \/ FinishScene
    \/ \E t \in Tasks : PassThrough(t) \/ RunTask(t)
    \/ WaitForTasks \/ Finished \/ FinishedCleanUp

Processes ==
    \E ok \in BOOLEAN :
        \/ \E t \in SceneTasks : SceneEnds(t, ok)
        \/ \E t \in Tasks : TaskEnds(t, ok)
        \/ \E t \in Reporting, h \in Hashes : TaskReports(t, h)

Next == Execute \/ Processes \/ Terminated

Spec == Init /\ [][Next]_vars

\* The idle loop keeps calling execute, and of the processes one ends some time.
FairSpec ==
    /\ Spec
    /\ WF_vars(Execute)
    /\ WF_vars(Processes)
-----------------------------------------------------------------------------
(* Properties *)

\* The variables of the queue stay the sets of tasks they are meant to be.
TypeOK ==
    /\ pc \in {"read", "migrate", "migrated", "scene", "sched", "finish", "ended"}
    /\ state \in {"Running", "CleanUp", "Failed", "Complete"}
    /\ sq_buildable \subseteq SceneTasks /\ sq_running \subseteq SceneTasks
    /\ sq_live \subseteq SceneTasks /\ restored \subseteq SceneTasks
    /\ Decided \subseteq SceneTasks /\ outrightfail \subseteq SceneTasks
    /\ sq_needed_harddeps \subseteq SceneTasks /\ sq_harddep_deferred \subseteq SceneTasks
    /\ tasks_covered \subseteq Tasks /\ tasks_notcovered \subseteq Tasks
    /\ tasks_scenequeue_done \subseteq Tasks /\ holdoff_tasks \subseteq Tasks
    /\ runq_buildable \subseteq Tasks /\ runq_running \subseteq Tasks
    /\ runq_complete \subseteq Tasks /\ runq_tasksrun \subseteq Tasks
    /\ failed_tids \subseteq Tasks
    /\ sq_deferred \in [SceneTasks -> SceneTasks \cup {NoTask}]
    /\ holdoff_need_update \in BOOLEAN /\ sqdone \in BOOLEAN
    /\ unihash \in [SceneTasks -> Hashes] /\ siggen \in [SceneTasks -> Hashes]
    /\ bb_unihash \in [SceneTasks -> Hashes]
    /\ hashes \in [{Hash[t] : t \in SceneTasks} -> SceneTasks]
    /\ updated_taskhash_queue \subseteq Report /\ reports \subseteq Report
    /\ pending_migrations \subseteq SceneTasks
    /\ exits \subseteq ExitCode /\ sstate \subseteq Hashes

\* A setscene task is decided once: summarise_scenequeue_errors calls it a bug
\* when a task is both covered and not covered.
Disjoint == scenequeue_covered \cap scenequeue_notcovered = {}

\* A task that runs has all its inputs: what it depends on was run or restored,
\* in this build or an earlier one, however many tasks update_holdofftasks and
\* the skipping of what is not needed dropped on the way.
InputsThere ==
    \A t \in Active : Depends[t] \subseteq Present

\* When a task runs, what the tasks below it have reported was taken into account:
\* its hash is not made of hashes that were given up.
InputsSettled ==
    \A t \in Active : \A x \in reports \cup updated_taskhash_queue : x.task \notin Depends[t]

\* While a setscene task restores an output, neither the task itself nor a task
\* that it covers runs: execute wants to wait for those, update_holdofftasks has
\* to see to it that they are never started.
NoOverlap ==
    \A t \in sq_live : Active \cap ({t} \cup sq_covered_tasks[t]) = {}

\* When a setscene task starts, what it insists on is there, and was not skipped
\* as not needed; provided it depends on it through tasks without a setscene
\* task, as the metadata has it.
HardDepsThere ==
    \A t \in sq_live : \A d \in HardDeps[t] : t \in sq_revdeps[d] => d \in Skipped

\* No work is done twice: a task that was restored is not run as well, and of
\* the tasks with one hash one at most is run, as long as nothing fails: that
\* is what sq_deferred is for.
RunForReal == (runq_running \ runq_complete) \cup (runq_tasksrun \ (NoExec \cup Built))
BuiltOnce ==
    /\ RunForReal \cap restored = {}
    /\ failed_tids = {} /\ SceneFailing = {} /\ unihash = Hash =>
           \A s, t \in RunForReal \cap SceneTasks : Hash[s] = Hash[t] => s = t

\* The sanity checks of execute and summarise_scenequeue_errors never fire: the
\* build fails when a task failed, and else every task is complete.
ResultRight ==
    Ended => /\ state = "Failed" <=> failed_tids # {}
             /\ state = "Complete" => runq_complete = Tasks

\* Deciding, holding off and deferring come to an end: execute does not wait for
\* ever for tasks it has itself held back.
Termination == <>Ended

\* Every run is a run of the task graph: with setscene tasks too, a task starts
\* or passes once and after all it depends on.
Graph == INSTANCE TaskGraph WITH
            started <- runq_running, done <- runq_complete, failed <- failed_tids
GraphSpec == Graph!Spec

-----------------------------------------------------------------------------
(* The inductive invariant *)

Undecided == SceneTasks \ Decided
StampedNow(t) == unihash[t] \in Stamps[t]

\* What is restored now was started, is undecided and waits for no twin; it has
\* the outcome of all it insists on, but for one that has a stamp anyway.
LiveInv ==
    /\ Decided \subseteq sq_running
    /\ \A t \in sq_live :
          /\ t \in sq_running \ Decided /\ ~Deferred(t)
          /\ HardDeps[t] \subseteq Decided \/ StampedNow(t)

\* A task has one exit code in the pipes at most, and runs or restores till it
\* is read; its report was read before.
ExitsInv ==
    /\ \A x \in exits : IF x.scene THEN x.task \in sq_live ELSE x.task \in Active
    /\ \A x, y \in exits : x.task = y.task => x = y
    /\ \A x \in reports : x.task \in Active
    /\ \A x \in updated_taskhash_queue : x.task \in runq_running

\* When a task is picked, every undecided setscene task holds off all it covers,
\* and what one that is not covered covers is not skipped.
HoldInv ==
    /\ pc = "sched" => ~holdoff_need_update
    /\ ~holdoff_need_update =>
          /\ \A u \in Undecided :
                {u} \cup (sq_covered_tasks[u] \ runq_complete) \subseteq holdoff_tasks
          /\ \A t \in scenequeue_notcovered : sq_covered_tasks[t] \cap tasks_covered = {}

\* So nothing runs that an undecided setscene task covers, or ran in its place.
ApartInv ==
    \A u \in Undecided :
        /\ u \notin runq_running
        /\ sq_covered_tasks[u] \cap (runq_running \ runq_complete) = {}

\* What is buildable or runs has all dependencies complete.
ReadyInv ==
    /\ runq_tasksrun \subseteq runq_complete /\ runq_complete \subseteq runq_running
    /\ \A t \in runq_buildable \cup runq_running : Depends[t] \subseteq runq_complete

\* Between the changes of hashes and the next exit code no update waits of a task
\* that is complete.
SettledInv ==
    pc \in {"migrate", "migrated", "scene", "sched"} =>
        \A x \in updated_taskhash_queue : x.task \notin runq_complete

\* A task that was skipped was skipped for tasks that are covered to the end:
Surely == scenequeue_covered \ scenequeue_notcovered
SkipInv ==
    \A t \in SceneTasks :
        sq_covered_tasks[t] \cap (runq_complete \ runq_tasksrun) # {} => t \in Surely

\* ... what is covered for good has no migration pending.
PendInv ==
    \A t \in pending_migrations :
        /\ t \notin sq_live
        /\ t \in runq_running \/ IF pc = "migrate" THEN t \notin Surely
                                                 ELSE t \in scenequeue_notcovered

\* Setscene tasks with nothing to do were skipped at the start, and a restored
\* one is covered as soon as its exit code is read.
SkippedInv ==
    /\ SceneTasks \cap (NoExec \cup Built) \subseteq Surely
    /\ \A t \in restored \ Surely : \E x \in exits : x.task = t /\ x.scene /\ x.ok

\* An undecided task with a stamp is decided by the migration that is pending, or
\* its hash does not follow another task's any more.
Migratory(t) == pc = "migrate" /\ t \in pending_migrations \ Late
StampInv ==
    \A t \in Undecided : StampedNow(t) =>
        \/ Migratory(t)
        \/ sq_deferred[t] = NoTask
        \/ /\ sq_deferred[t] \in runq_complete
           /\ \A x \in reports \cup updated_taskhash_queue : x.task # sq_deferred[t]

\* An undecided task without a stamp insists on nothing that is not covered.
HardInv ==
    \A t \in Undecided :
        HardDeps[t] \cap scenequeue_notcovered = {} \/ StampedNow(t) \/ Migratory(t)

IInv ==
    /\ TypeOK /\ LiveInv /\ ExitsInv /\ HoldInv /\ ApartInv /\ ReadyInv /\ SettledInv
    /\ SkipInv /\ PendInv /\ SkippedInv /\ StampInv /\ HardInv

-----------------------------------------------------------------------------
(* The inductive invariant of builds without twins                          *)

\* With one multiconfig no two tasks ever have the same hash. And no earlier build
\* has restored, with another hash, a task that insists on others: a migration
\* would skip such a task, fail it as well and so count it twice.
Own(t) == {Hash[t]} \cup NewHashes[t]
NoTwins == \A s, t \in SceneTasks : s # t => Hash[s] \notin Own(t)
NoOlder == \A t \in SceneTasks : HardDeps[t] = {} \/ Stamps[t] \subseteq {Hash[t]}

\* Then nothing is deferred, and nobody is told the hash of another.
AloneInv ==
    /\ \A t \in SceneTasks : sq_deferred[t] = NoTask /\ hashes[Hash[t]] = t
    /\ \A t \in SceneTasks : unihash[t] \in Own(t) /\ siggen[t] \in Own(t)
    /\ \A x \in reports \cup updated_taskhash_queue : x.hash \in Own(x.task)

\* What was restored was so before its exit code came.
RestoredInv ==
    /\ Staged \subseteq restored
    /\ \A x \in exits : x.scene /\ x.ok => x.task \in restored

\* Some task that is not covered covers t.
Uncovering(t) == \E s \in scenequeue_notcovered : t \in sq_covered_tasks[s]

\* When a task is picked it is known to be covered or not as the queue decided.
FreshInv ==
    ~holdoff_need_update =>
        /\ \A t \in tasks_covered :
              IF t \in SceneTasks THEN t \in scenequeue_covered ELSE t \notin unskippable
        /\ \A t \in tasks_notcovered \ tasks_covered :
              IF t \in SceneTasks THEN t \notin scenequeue_covered
                                  ELSE t \in unskippable \/ Uncovering(t)

\* What is covered does not run and has not run; what was skipped is covered, or
\* is nothing the build needs directly.
SkippedRightInv ==
    /\ scenequeue_covered \cap (runq_tasksrun \cup (runq_running \ runq_complete)) = {}
    /\ \A t \in runq_complete \ runq_tasksrun :
          IF t \in SceneTasks THEN t \in scenequeue_covered ELSE t \notin unskippable
    /\ \A x \in updated_taskhash_queue : x.task \notin scenequeue_covered

\* What is there to stay: hashes of covered tasks do not change.
Firm == NoExec \cup Built \cup restored \cup Ran \cup {t \in scenequeue_covered : StampedNow(t)}

\* A covered task is there, or nothing that is not covered too needs it.
CoveredInv ==
    \A t \in scenequeue_covered :
        \/ t \in Firm
        \/ t \notin unskippable /\ sq_revdeps[t] \subseteq scenequeue_covered

InputsInv == \A t \in Active : Depends[t] \subseteq Firm

\* An undecided task with a stamp is about to migrate.
StampedInv == \A t \in Undecided : StampedNow(t) => Migratory(t)

SingleInv ==
    /\ AloneInv /\ RestoredInv /\ Disjoint /\ FreshInv /\ SkippedRightInv
    /\ CoveredInv /\ InputsInv /\ StampedInv

-----------------------------------------------------------------------------
(* The inductive invariant behind how a build ends                          *)

\* No setscene tasks insist on one another in a circle: the code does not look.
NoHardLoops == \A S \in SUBSET SceneTasks : S # {} => \E t \in S : HardDeps[t] \cap S = {}

\* A setscene task that was started is restored or decided; what has nothing
\* undecided above it may start, and so may what a waiting task insists on.
StartableInv ==
    /\ sq_running \subseteq Decided \cup sq_live
    /\ Decided \cup sq_needed_harddeps \subseteq sq_buildable
    /\ \A t \in SceneTasks : sq_revdeps[t] \subseteq Decided => t \in sq_buildable
    /\ \A t \in sq_harddep_deferred :
          HardDeps[t] \subseteq sq_buildable /\ ~(HardDeps[t] \subseteq Decided)

\* What is decided is done with, what the build needs directly, and what only such
\* tasks need.
DoneInv ==
    /\ Decided \cup (unskippable \cap Normal) \subseteq tasks_scenequeue_done
    /\ \A t \in Normal : RevDeps(t) # {} /\ RevDeps(t) \subseteq tasks_scenequeue_done
                            => t \in tasks_scenequeue_done

\* When a task is picked, it is known of all that is done with whether it is covered,
\* nothing is held off but for undecided tasks, and what can run is buildable.
KnownInv ==
    /\ runq_running \subseteq runq_buildable
    /\ ~holdoff_need_update =>
          LET below(S) == S \cup UNION {sq_covered_tasks[t] : t \in S}
              known == tasks_covered \cup tasks_notcovered
          IN  /\ tasks_scenequeue_done \cap (below(Decided) \cup (unskippable \cap Normal)) \subseteq known
              /\ holdoff_tasks \subseteq below(Undecided)
              /\ \A t \in known : Depends[t] \subseteq runq_complete => t \in runq_buildable

\* The setscene queue is over when all is decided, and is tried before the tasks.
TriedInv ==
    /\ sqdone => Undecided = {}
    /\ pc = "sched" /\ ~sqdone => Candidates = {} \/ Active \cup sq_live # {}

\* The state tells whether a task failed.
StateInv ==
    /\ pc = "finish" => state = "CleanUp"
    /\ state = "CleanUp" => failed_tids # {}
    /\ state \in {"Failed", "Complete"} <=> Ended
    /\ ResultRight

EndInv == StartableInv /\ DoneInv /\ KnownInv /\ TriedInv /\ StateInv
=============================================================================
