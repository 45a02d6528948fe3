------------------------------- MODULE RunQueue -------------------------------
(****************************************************************************)
(* The execution half of BitBake's run queue (lib/bb/runqueue.py, classes   *)
(* RunQueue, RunQueueExecute, RunQueueScheduler and runQueuePipe) for a     *)
(* build without setscene tasks, together with the bitbake-worker processes *)
(* it drives over pipes (bin/bitbake-worker) and the idle callback of the   *)
(* cooker that calls it (cooker.py, buildTargetsIdle).                      *)
(*                                                                          *)
(* The idle thread is sequential: pc is where it stands in one call of      *)
(* buildTargetsIdle.  The points where it reads a pipe are steps of their   *)
(* own, because workers and tasks run concurrently with it.                 *)
(****************************************************************************)
EXTENDS Integers, Sequences, FiniteSets

CONSTANTS
    Tasks,          \* task ids
    Depends,        \* [Tasks -> SUBSET Tasks], RunTaskEntry.depends
    NumberTasks,    \* BB_NUMBER_THREADS
    HaltOnFailure,  \* taskData.halt: FALSE under bitbake -k
    TaskName,       \* the do_xxx part of a task id
    NumberThreads,  \* the number_threads flag of a task name, 0 when unset
    Stamp,          \* the stamp file of a task, shared between some task ids
    Recipe,         \* the recipe file of a task
    Stamped,        \* the stamp files on disk at the start, none outdated by another
    NoExec,         \* tasks with the noexec flag
    MainWorkers,    \* the bitbake-worker of every multiconfig
    FakeWorkers,    \* the fakeroot workers, started on first use
    WorkerOf,       \* the worker a task is sent to
    Faults          \* which outside events this instance allows

Workers == MainWorkers \cup FakeWorkers
NoWorker == "none"
FaultKinds == {"taskfail", "workerdie", "spawnfail", "pressure", "shutdown",
               "forceshutdown", "stoptasks", "halt"}

ASSUME TasksAssumption ==
    /\ IsFiniteSet(Tasks)
    /\ Depends \in [Tasks -> SUBSET Tasks]
    /\ NoExec \subseteq Tasks
\* calculate_task_weights gives the build up when dependencies form a loop.
ASSUME LoopFreeAssumption ==
    \A S \in SUBSET Tasks : S # {} => \E t \in S : Depends[t] \cap S = {}
\* Tasks with one stamp file are the same task of one recipe (in two
\* multiconfigs): the stamp's name holds the hash over what it depends on.
ASSUME StampsAssumption ==
    \A s, t \in Tasks : Stamp[s] = Stamp[t] =>
        {Stamp[d] : d \in {c \in Depends[s] : Recipe[c] = Recipe[s]}}
            = {Stamp[d] : d \in {c \in Depends[t] : Recipe[c] = Recipe[t]}}
ASSUME NumbersAssumption ==
    /\ NumberTasks \in Nat \ {0}
    /\ \A t \in Tasks : NumberThreads[TaskName[t]] \in Nat
ASSUME WorkersAssumption ==
    /\ MainWorkers \cap FakeWorkers = {}
    /\ NoWorker \notin Workers
    /\ WorkerOf \in [Tasks -> Workers]
ASSUME SwitchesAssumption ==
    /\ HaltOnFailure \in BOOLEAN
    /\ Faults \subseteq FaultKinds

VARIABLES
    pc,             \* where the idle thread is
    state,          \* RunQueue.state
    runq_buildable, runq_running, runq_complete,
    failed_tids,
    build_stamps,   \* the tasks with an entry in build_stamps: sent, not reaped
    active,         \* stats.active
    toread,         \* workers this round of read_workers or teardown still visits
    reading,        \* the worker whose pipe is being read, or NoWorker
    raised,         \* an exception is unwinding execute_runqueue
    result,         \* how the idle callback ended
    cooker,         \* cooker.state, set by the UI's commands
    checked,        \* the disk monitor actions already taken
    written,        \* the tasks whose stamp was written, in that order
    worker,         \* process state of every worker
    inq,            \* commands in the stdin pipe of a worker
    children,       \* forked task processes of a worker, not reaped
    orphans,        \* task processes whose worker is gone
    exits           \* exit codes in the stdout pipe of a worker

queueVars  == <<runq_buildable, runq_running, runq_complete, failed_tids,
                build_stamps, active>>
threadVars == <<pc, toread, reading, raised, result>>
workerVars == <<worker, inq, children, orphans, exits>>
envVars    == <<cooker, checked, written>>
vars == <<pc, state, runq_buildable, runq_running, runq_complete, failed_tids,
          build_stamps, active, toread, reading, raised, result,
          cooker, checked, written, worker, inq, children, orphans, exits>>

ReadPoints == {"read", "wait", "drain", "stop", "diskstop"}
PCs == {"idle", "monitor", "enter", "sched", "after", "teardown", "ended"} \cup ReadPoints
States == {"Running", "CleanUp", "Failed", "Complete"}
Message == [kind : {"runtask"}, task : Tasks] \cup [kind : {"finishnow", "quit"}]
ExitCode == [task : Tasks, ok : BOOLEAN]

TypeOK ==
    /\ pc \in PCs
    /\ state \in States
    /\ runq_buildable \subseteq Tasks
    /\ runq_running \subseteq Tasks
    /\ runq_complete \subseteq Tasks
    /\ failed_tids \subseteq Tasks
    /\ build_stamps \subseteq Tasks
    /\ active \in Int
    /\ toread \subseteq Workers
    /\ reading \in Workers \cup {NoWorker}
    /\ raised \in BOOLEAN
    /\ result \in {"none", "ok", "failed", "exception"}
    /\ cooker \in {"running", "shutdown", "forceshutdown"}
    /\ checked \subseteq {"stoptasks", "halt"}
    /\ written \in Seq(Tasks)
    /\ worker \in [Workers -> {"off", "up", "exited"}]
    /\ inq \in [Workers -> Seq(Message)]
    /\ children \in [Workers -> SUBSET Tasks]
    /\ orphans \subseteq Tasks
    /\ exits \in [Workers -> SUBSET ExitCode]

\* start_worker, and the part of _execute_runqueue that makes every task
\* without dependencies buildable when there are no setscene tasks.
Init ==
    /\ pc = "idle" /\ state = "Running"
    /\ runq_buildable = {t \in Tasks : Depends[t] = {}}
    /\ runq_running = {} /\ runq_complete = {} /\ failed_tids = {}
    /\ build_stamps = {} /\ active = 0
    /\ toread = {} /\ reading = NoWorker /\ raised = FALSE /\ result = "none"
    /\ cooker = "running" /\ checked = {} /\ written = <<>>
    /\ worker = [w \in Workers |-> IF w \in MainWorkers THEN "up" ELSE "off"]
    /\ inq = [w \in Workers |-> <<>>]
    /\ children = [w \in Workers |-> {}] /\ orphans = {}
    /\ exits = [w \in Workers |-> {}]

-----------------------------------------------------------------------------
(* Helpers of RunQueueExecute *)

Started == {w \in Workers : worker[w] # "off"}      \* the keys of rq.worker
Dead(w) == worker[w] = "exited"

X_can_start_task == active <= NumberTasks           \* wrong: one too many

can_start_task == active < NumberTasks

\* What a caller of send_pickled_data leaves in the pipes of the workers in W.
Sent(W, m) == [w \in Workers |->
                  IF w \in W /\ worker[w] = "up" THEN Append(inq[w], m)
                                                 ELSE inq[w]]

\* Wrong: the callback's result where the state belongs.
X_FinalState == IF failed_tids # {} THEN "failed" ELSE "Complete"
FinalState == IF failed_tids # {} THEN "Failed" ELSE "Complete"

\* finish_now: tell every worker to kill its tasks; a dead worker is ignored.
finish_now ==
    /\ inq' = Sent(Started, [kind |-> "finishnow"])
    /\ state' = FinalState

\* Wrong: one complete dependency is enough; the last one is not counted.
X_NewBuildableEarly(t, C) ==
    {r \in Tasks \ (runq_running \cup runq_buildable) : t \in Depends[r]}
X_NewBuildableLate(t, C) ==
    {r \in Tasks \ (runq_running \cup runq_buildable) :
        t \in Depends[r] /\ Depends[r] \subseteq C \ {t}}

\* The tasks that become buildable once the tasks in C are complete.
NewBuildable(t, C) ==
    {r \in Tasks \ (runq_running \cup runq_buildable) :
        t \in Depends[r] /\ Depends[r] \subseteq C}

task_completeoutright(t) ==
    /\ runq_complete' = runq_complete \cup {t}
    /\ runq_buildable' = runq_buildable \cup NewBuildable(t, runq_complete \cup {t})

task_complete(t) ==
    /\ active' = active - 1
    /\ task_completeoutright(t)
    /\ UNCHANGED <<failed_tids, state>>

\* Wrong: the failed task still counts as active; -k is ignored.
X_task_failKept(t) ==
    /\ failed_tids' = failed_tids \cup {t}
    /\ state' = IF HaltOnFailure THEN "CleanUp" ELSE state
    /\ UNCHANGED <<active, runq_complete, runq_buildable>>
X_task_failHalts(t) ==
    /\ active' = active - 1
    /\ failed_tids' = failed_tids \cup {t}
    /\ state' = "CleanUp"
    /\ UNCHANGED <<runq_complete, runq_buildable>>

task_fail(t) ==
    /\ active' = active - 1
    /\ failed_tids' = failed_tids \cup {t}
    /\ state' = IF HaltOnFailure THEN "CleanUp" ELSE state
    /\ UNCHANGED <<runq_complete, runq_buildable>>

\* task_skip and the noexec case: buildable, running and complete in one go.
PassThrough(t) ==
    LET B == runq_buildable \cup {t}
    IN  /\ runq_running' = runq_running \cup {t}
        /\ runq_complete' = runq_complete \cup {t}
        /\ runq_buildable' = B \cup NewBuildable(t, runq_complete \cup {t})
        /\ UNCHANGED <<failed_tids, build_stamps, active>>

-----------------------------------------------------------------------------
(* RunQueueScheduler *)

\* Tasks of a name that started and did not complete.
Unfinished(name) == {r \in runq_running \ runq_complete : TaskName[r] = name}

\* Wrong: one too many.
X_AtThreadLimit(t) ==
    /\ NumberThreads[TaskName[t]] > 0
    /\ Cardinality(Unfinished(TaskName[t])) > NumberThreads[TaskName[t]]

AtThreadLimit(t) ==
    /\ NumberThreads[TaskName[t]] > 0
    /\ Cardinality(Unfinished(TaskName[t])) >= NumberThreads[TaskName[t]]

X_StampInUse(t) == t \in build_stamps      \* wrong: the task's own entry only
StampInUse(t) == \E s \in build_stamps : Stamp[s] = Stamp[t]

\* next_buildable_task: any of these, since the schedulers only rank them.
Eligible == {t \in runq_buildable \ runq_running :
                ~AtThreadLimit(t) /\ ~StampInUse(t)}

\* exceeds_max_pressure, at any moment, but only asked while tasks are active.
UnderPressure == "pressure" \in Faults /\ active # 0

NothingNext == ~can_start_task \/ Eligible = {} \/ UnderPressure

Exists(f) == f \in Stamped \/ \E i \in DOMAIN written : Stamp[written[i]] = f

\* The stamp file f was written after g.
Newer(f, g) ==
    \E i \in DOMAIN written :
        /\ Stamp[written[i]] = f
        /\ \A j \in DOMAIN written : Stamp[written[j]] = g => j < i

SameRecipe(t) == {d \in Depends[t] : Recipe[d] = Recipe[t]}

X_StampCurrent(t) == Exists(Stamp[t])       \* wrong: dependencies not looked at

\* check_stamp_task: the stamp is there, and so is every dependency's in the
\* same recipe, which is not newer.
StampCurrent(t) ==
    /\ Exists(Stamp[t])
    /\ \A d \in SameRecipe(t) : Exists(Stamp[d]) /\ ~Newer(Stamp[d], Stamp[t])

-----------------------------------------------------------------------------
(* buildTargetsIdle and execute_runqueue *)

\* cooker.py: act on the cooker's state, then call execute_runqueue.
IdleRunning ==
    /\ pc = "idle" /\ cooker = "running"
    /\ pc' = "enter"
    /\ UNCHANGED <<state, toread, reading, raised, result, queueVars, workerVars, envVars>>

IdleForced ==
    /\ pc = "idle" /\ cooker = "forceshutdown"
    /\ finish_now
    /\ pc' = "enter"
    /\ UNCHANGED <<toread, reading, raised, result, queueVars, worker, children, orphans, exits, envVars>>

\* Wrong: the last task is not waited for.
X_finish(waitpoint, donepoint) ==
    /\ IF active > 1
       THEN state' = "CleanUp" /\ pc' = waitpoint /\ toread' = Started
       ELSE state' = FinalState /\ pc' = donepoint /\ UNCHANGED toread
    /\ UNCHANGED <<reading, raised, result, queueVars, workerVars>>

\* finish, as both finish_runqueue(False) and _execute_runqueue call it.
finish(waitpoint, donepoint) ==
    /\ IF active > 0
       THEN state' = "CleanUp" /\ pc' = waitpoint /\ toread' = Started
       ELSE state' = FinalState /\ pc' = donepoint /\ UNCHANGED toread
    /\ UNCHANGED <<reading, raised, result, queueVars, workerVars>>

IdleShutdown ==
    /\ pc = "idle" /\ cooker = "shutdown"
    /\ finish("stop", "enter")
    /\ UNCHANGED envVars

\* check_for_interrupts raises; execute_runqueue tears the workers down.
EnterInterrupted ==
    /\ pc = "enter" /\ cooker = "forceshutdown"
    /\ pc' = "teardown" /\ toread' = Started /\ raised' = TRUE
    /\ UNCHANGED <<state, reading, result, queueVars, workerVars, envVars>>

Enter ==
    /\ pc = "enter" /\ cooker # "forceshutdown"
    /\ IF state = "Running" THEN pc' = "read" /\ toread' = Started
                            ELSE pc' = "after" /\ UNCHANGED toread
    /\ UNCHANGED <<state, reading, raised, result, queueVars, workerVars, envVars>>

-----------------------------------------------------------------------------
(* read_workers: poll the workers, then handle every exit code in a pipe.   *)

BeginPipe(w) ==
    /\ pc \in ReadPoints /\ reading = NoWorker /\ w \in toread
    /\ toread' = toread \ {w} /\ reading' = w
    /\ IF \E v \in Started : Dead(v)
       THEN finish_now
       ELSE UNCHANGED <<state, inq>>
    /\ UNCHANGED <<pc, raised, result, queueVars, worker, children, orphans, exits, envVars>>

\* runqueue_process_waitpid
ReadExit(w, x) ==
    /\ reading = w /\ x \in exits[w]
    /\ exits' = [exits EXCEPT ![w] = @ \ {x}]
    /\ build_stamps' = build_stamps \ {x.task}
    /\ IF x.ok THEN task_complete(x.task) ELSE task_fail(x.task)
    /\ UNCHANGED <<pc, toread, reading, raised, result, runq_running,
                   worker, inq, children, orphans, envVars>>

EndPipe(w) ==
    /\ pc \in ReadPoints /\ reading = w /\ exits[w] = {}
    /\ reading' = NoWorker
    /\ UNCHANGED <<pc, state, toread, raised, result, queueVars, workerVars, envVars>>

EndRead ==
    /\ pc \in ReadPoints /\ reading = NoWorker /\ toread = {}
    /\ CASE pc = "read"  -> pc' = "sched" /\ UNCHANGED <<toread, result>>
         [] pc = "wait"  -> pc' = "after" /\ UNCHANGED <<toread, result>>
         [] pc = "stop"  -> pc' = "enter" /\ UNCHANGED <<toread, result>>
         [] pc = "diskstop" -> pc' = "monitor" /\ UNCHANGED <<toread, result>>
         [] pc = "drain" ->
              IF state \in {"Failed", "Complete"}
              THEN pc' = "teardown" /\ toread' = Started /\ UNCHANGED result
              ELSE \* active_fds() is an empty list once the workers are gone
                   /\ pc' = IF Started = {} THEN "ended" ELSE "idle"
                   /\ result' = IF Started = {} THEN "ok" ELSE result
                   /\ UNCHANGED toread
    /\ UNCHANGED <<state, reading, raised, queueVars, workerVars, envVars>>

-----------------------------------------------------------------------------
(* execute: hand out the next task.                                         *)

Picks(t) == pc = "sched" /\ can_start_task /\ t \in Eligible

SkipExisting(t) ==
    /\ Picks(t) /\ StampCurrent(t)
    /\ PassThrough(t)
    /\ pc' = "after"
    /\ UNCHANGED <<state, toread, reading, raised, result, workerVars, envVars>>

CompleteNoExec(t) ==
    /\ Picks(t) /\ ~StampCurrent(t) /\ t \in NoExec
    /\ PassThrough(t)
    /\ written' = Append(written, t)
    /\ pc' = "after"
    /\ UNCHANGED <<state, toread, reading, raised, result, workerVars, cooker, checked>>

\* start_fakeworker could not spawn the process.
SpawnFails(t) ==
    /\ Picks(t) /\ ~StampCurrent(t) /\ t \notin NoExec
    /\ "spawnfail" \in Faults /\ worker[WorkerOf[t]] = "off"
    /\ state' = "Failed" /\ active' = active - 1 /\ pc' = "after"
    /\ UNCHANGED <<runq_buildable, runq_running, runq_complete, failed_tids,
                   build_stamps, toread, reading, raised, result, workerVars, envVars>>

RunTask(t) ==
    LET w == WorkerOf[t]
    IN  /\ Picks(t) /\ ~StampCurrent(t) /\ t \notin NoExec
        /\ ~Dead(w)
        /\ worker' = [worker EXCEPT ![w] = "up"]
        /\ inq' = [inq EXCEPT ![w] = Append(@, [kind |-> "runtask", task |-> t])]
        /\ build_stamps' = build_stamps \cup {t}
        /\ runq_running' = runq_running \cup {t}
        /\ active' = active + 1
        /\ IF active + 1 < NumberTasks
           THEN pc' = "after" /\ UNCHANGED toread
           ELSE pc' = "wait" /\ toread' = {v \in Workers : worker'[v] # "off"}
        /\ UNCHANGED <<state, runq_buildable, runq_complete, failed_tids,
                       reading, raised, result, children, orphans, exits, envVars>>

\* Writing to a worker that died raises BrokenPipeError in execute.
SendFails(t) ==
    /\ Picks(t) /\ ~StampCurrent(t) /\ t \notin NoExec
    /\ Dead(WorkerOf[t])
    /\ pc' = "teardown" /\ toread' = Started /\ raised' = TRUE
    /\ UNCHANGED <<state, reading, result, queueVars, workerVars, envVars>>

WaitForTasks ==
    /\ pc = "sched" /\ NothingNext /\ active > 0
    /\ pc' = "wait" /\ toread' = Started
    /\ UNCHANGED <<state, reading, raised, result, queueVars, workerVars, envVars>>

\* The sanity checks at the end of execute.
SanityError == \E t \in Tasks : t \notin runq_buildable \cap runq_running \cap runq_complete

Finished ==
    /\ pc = "sched" /\ NothingNext /\ active <= 0
    /\ state' = IF failed_tids # {} \/ SanityError THEN "Failed" ELSE "Complete"
    /\ pc' = "after"
    /\ UNCHANGED <<toread, reading, raised, result, queueVars, workerVars, envVars>>

-----------------------------------------------------------------------------
(* The rest of _execute_runqueue: finish, and teardown_workers once done.   *)

Loop ==
    /\ pc = "after" /\ state = "Running"
    /\ pc' = "idle"
    /\ UNCHANGED <<state, toread, reading, raised, result, queueVars, workerVars, envVars>>

Finish ==
    /\ pc = "after" /\ state = "CleanUp"
    /\ finish("drain", "after")
    /\ UNCHANGED envVars

BuildDone ==
    /\ pc = "after" /\ state \in {"Failed", "Complete"}
    /\ pc' = "teardown" /\ toread' = Started
    /\ UNCHANGED <<state, reading, raised, result, queueVars, workerVars, envVars>>

\* _teardown_worker: ask it to quit, read its pipe until it is gone and empty.
BeginTeardown(w) ==
    /\ pc = "teardown" /\ reading = NoWorker /\ w \in toread
    /\ toread' = toread \ {w} /\ reading' = w
    /\ inq' = Sent({w}, [kind |-> "quit"])
    /\ UNCHANGED <<pc, state, raised, result, queueVars, worker, children, orphans, exits, envVars>>

EndTeardown(w) ==
    /\ pc = "teardown" /\ reading = w /\ Dead(w) /\ exits[w] = {}
    /\ reading' = NoWorker
    /\ UNCHANGED <<pc, state, toread, raised, result, queueVars, workerVars, envVars>>

\* All workers are gone: raise, report, or go round again because an exit
\* code read during the teardown moved the state on, unless what execute
\* returned is a list of the pipes closed since, which select raises on.
TornDown ==
    /\ pc = "teardown" /\ reading = NoWorker /\ toread = {}
    /\ worker' = [w \in Workers |-> IF Dead(w) THEN "off" ELSE worker[w]]
    /\ IF raised
       THEN state' = "Complete" /\ result' = "exception" /\ pc' = "ended"
       ELSE /\ UNCHANGED state
            /\ CASE state = "Failed"   -> result' = "failed" /\ pc' = "ended"
                 [] state = "Complete" -> result' = "ok" /\ pc' = "ended"
                 [] OTHER              -> \/ UNCHANGED result /\ pc' = "idle"
                                          \/ result' = "exception" /\ pc' = "ended"
    /\ UNCHANGED <<toread, reading, raised, queueVars, inq, children, orphans, exits, envVars>>

-----------------------------------------------------------------------------
(* bitbake-worker                                                           *)

Rest(w) == inq' = [inq EXCEPT ![w] = Tail(@)]
Receives(w, kind) == worker[w] = "up" /\ inq[w] # <<>> /\ Head(inq[w]).kind = kind

\* handle_runtask: fork_off_task
ForkTask(w) ==
    /\ Receives(w, "runtask")
    /\ Rest(w)
    /\ children' = [children EXCEPT ![w] = @ \cup {Head(inq[w]).task}]
    /\ UNCHANGED <<state, queueVars, threadVars, worker, orphans, exits, envVars>>

\* A task may fail by itself, or because a finishnow killed it.
MayFail == Faults \cap {"taskfail", "workerdie", "forceshutdown", "halt"} # {}

\* process_waitpid: a task process ended, its exit code goes down the pipe.  One
\* that succeeded has written its stamp (build.py, exec_task).
ChildExit(w, t, ok) ==
    /\ worker[w] = "up" /\ t \in children[w]
    /\ ok \/ MayFail
    /\ children' = [children EXCEPT ![w] = @ \ {t}]
    /\ exits' = [exits EXCEPT ![w] = @ \cup {[task |-> t, ok |-> ok]}]
    /\ written' = IF ok THEN Append(written, t) ELSE written
    /\ UNCHANGED <<state, queueVars, threadVars, worker, inq, orphans, cooker, checked>>

\* handle_finishnow: kill and reap the tasks, reporting no exit code.  A kill
\* before the task's setsid misses it, and when a wait reaps a task that was to
\* be killed later, another one stays behind: it exits like any other.
FinishNow(w) ==
    /\ Receives(w, "finishnow")
    /\ Rest(w)
    /\ \E late \in SUBSET children[w] : children' = [children EXCEPT ![w] = late]
    /\ UNCHANGED <<state, queueVars, threadVars, worker, orphans, exits, envVars>>

\* A worker that is gone takes the commands it did not read along.  Its tasks
\* get the SIGTERM they asked for in fork_off_task; nobody waits for them.
Gone(w) ==
    /\ worker' = [worker EXCEPT ![w] = "exited"]
    /\ inq' = [inq EXCEPT ![w] = <<>>]
    /\ children' = [children EXCEPT ![w] = {}]
    /\ orphans' = orphans \cup children[w]
    /\ UNCHANGED <<state, queueVars, threadVars, exits, envVars>>

Quit(w) == Receives(w, "quit") /\ Gone(w)

WorkerDies(w) ==
    /\ "workerdie" \in Faults /\ worker[w] = "up" /\ pc # "ended"
    /\ Gone(w)

\* A task without a worker ends, by the signal or by itself before it comes:
\* its exit code goes nowhere, but its stamp may be written.
OrphanEnds(t) ==
    /\ t \in orphans
    /\ orphans' = orphans \ {t}
    /\ written' = written \/ written' = Append(written, t)
    /\ UNCHANGED <<state, queueVars, threadVars, worker, inq, children, exits, cooker, checked>>

-----------------------------------------------------------------------------
(* The user and the disk monitor                                            *)

\* stateShutdown and stateForceShutdown, at any moment.
Interrupt(s) ==
    /\ s \in Faults /\ pc # "ended"
    /\ \/ s = "shutdown" /\ cooker = "running"
       \/ s = "forceshutdown" /\ cooker # "forceshutdown"
    /\ cooker' = s
    /\ UNCHANGED <<state, queueVars, threadVars, workerVars, checked, written>>

\* monitordisk.py, check: on the heartbeat the idle thread fires between calls,
\* one sweep over the watched directories, each of which acts once.
Monitor(action) ==
    /\ action \in Faults \ checked
    /\ \/ pc = "idle" /\ state \in {"Running", "CleanUp"}
       \/ pc = "monitor"
    /\ checked' = checked \cup {action}

DiskHalt ==
    /\ Monitor("halt")
    /\ finish_now
    /\ pc' = "monitor"
    /\ UNCHANGED <<toread, reading, raised, result, queueVars, worker, children,
                   orphans, exits, cooker, written>>

\* STOPTASKS: finish, which reads the pipes when tasks are active.
DiskStopTasks ==
    /\ Monitor("stoptasks")
    /\ finish("diskstop", "monitor")
    /\ UNCHANGED <<cooker, written>>

MonitorEnd ==
    /\ pc = "monitor"
    /\ pc' = "idle"
    /\ UNCHANGED <<state, toread, reading, raised, result, queueVars, workerVars, envVars>>

-----------------------------------------------------------------------------
Terminated == pc = "ended" /\ UNCHANGED vars

Idle == IdleRunning \/ IdleForced \/ IdleShutdown \/ EnterInterrupted \/ Enter
Read(w) ==
    \/ BeginPipe(w) \/ EndPipe(w)
    \/ \E x \in ExitCode : ReadExit(w, x)
Schedule(t) ==
    \/ SkipExisting(t) \/ CompleteNoExec(t) \/ SpawnFails(t)
    \/ RunTask(t) \/ SendFails(t)
Wrap == Loop \/ Finish \/ BuildDone \/ TornDown

\* The idle thread.
Thread ==
    \/ Idle
    \/ \E w \in Workers : Read(w) \/ BeginTeardown(w) \/ EndTeardown(w)
    \/ EndRead
    \/ \E t \in Tasks : Schedule(t)
    \/ WaitForTasks \/ Finished
    \/ Wrap \/ MonitorEnd

\* One bitbake-worker handling its next command.
Serve(w) == ForkTask(w) \/ FinishNow(w) \/ Quit(w)

Outside ==
    \/ \E w \in Workers : WorkerDies(w)
    \/ \E s \in {"shutdown", "forceshutdown"} : Interrupt(s)
    \/ DiskHalt \/ DiskStopTasks

Next ==
    \/ Thread
    \/ \E w \in Workers : Serve(w)
    \/ \E w \in Workers, t \in Tasks, ok \in BOOLEAN : ChildExit(w, t, ok)
    \/ \E t \in Tasks : OrphanEnds(t)
    \/ Outside
    \/ Terminated

Spec == Init /\ [][Next]_vars

\* The server's idle thread keeps calling the callback, a worker keeps serving
\* its pipe, and every task process ends.  Nothing outside is obliged to happen.
FairSpec ==
    /\ Spec
    /\ WF_vars(Thread)
    /\ \A w \in Workers : WF_vars(Serve(w))
    /\ \A w \in Workers, t \in Tasks : WF_vars(\E ok \in BOOLEAN : ChildExit(w, t, ok))
    /\ \A t \in Tasks : WF_vars(OrphanEnds(t))

-----------------------------------------------------------------------------
(* Properties *)

Processes == orphans \cup UNION {children[w] : w \in Workers}
Ended == pc = "ended"

\* The run queue implements the task graph: whatever the workers, the user and
\* the disk monitor do, a task starts once, after all it depends on is
\* complete, and then completes or fails for good (task_completeoutright marks
\* tasks buildable, execute hands them out, exit codes arrive in any order).
Graph == INSTANCE TaskGraph WITH
            started <- runq_running, done <- runq_complete, failed <- failed_tids
GraphSpec == Graph!Spec

\* While the queue runs, stats.active is the number of tasks handed to workers
\* and not reaped: can_start_task and finish decide on that counter alone.
Accounting == state = "Running" => active = Cardinality(build_stamps)

\* There are never more task processes than BB_NUMBER_THREADS allows, over all
\* workers together.
ConcurrencyLimit == Cardinality(Processes) <= NumberTasks

\* number_threads bounds the processes of one task name (next_buildable_task).
ThreadLimit ==
    \A t \in Processes :
        NumberThreads[TaskName[t]] > 0 =>
            Cardinality({s \in Processes : TaskName[s] = TaskName[t]})
                <= NumberThreads[TaskName[t]]

\* Two task ids that share a stamp file (shared work directories) never run at
\* the same time.
StampExclusion ==
    \A s, t \in Processes : s # t => Stamp[s] # Stamp[t]

\* What completed stays up to date: its stamp is there and no dependency in
\* its recipe has a newer one, so no task was skipped on the stamp of work that
\* this build did over again, and the next build starts from here.
OutOfDate(t) == ~Exists(Stamp[t]) \/ \E d \in SameRecipe(t) : Newer(Stamp[d], Stamp[t])
UpToDate == \A t \in runq_complete : ~OutOfDate(t)

\* When nothing outside interferes, a build reported as good has run every
\* task and one reported as failed has a failed task: the sanity checks at the
\* end of execute never fire, so the scheduler never gets stuck.
Undisturbed == cooker = "running" /\ checked = {} /\ Faults \cap {"workerdie", "spawnfail"} = {}
ResultRight ==
    Ended /\ Undisturbed =>
        /\ result = "ok" <=> failed_tids = {}
        /\ result = "ok" => runq_complete = Tasks

\* The build ends after its workers, and after its task processes unless one
\* was cut off: teardown_workers waits for the workers alone, so finish must not
\* let it begin before every task sent was reaped, whatever failed, and whenever
\* the user or a full disk asked the build to stop.
Unhurt == /\ cooker # "forceshutdown" /\ "halt" \notin checked
          /\ Faults \cap {"workerdie", "spawnfail"} = {}
NoOrphans == Ended => Started = {} /\ (Unhurt => Processes = {})

\* The failed tasks and everything that needs one of them.
NeedsFailed ==
    {t \in Tasks : \A X \in SUBSET Tasks :
        failed_tids \subseteq X /\ (\A s \in Tasks : Depends[s] \cap X # {} => s \in X) => t \in X}

\* bitbake -k: when a build without interruption ends in failure, everything
\* that does not depend on a failed task has been built.
AsMuchAsPossible ==
    Ended /\ cooker = "running" /\ checked = {} /\ ~raised /\ ~HaltOnFailure
        => runq_complete = Tasks \ NeedsFailed

\* The idle callback ends whatever fails.
Termination == <>Ended

\* The disk monitor's HALT stops the build.
HaltStops == "halt" \in checked ~> Ended

-----------------------------------------------------------------------------
(* The inductive invariant behind the safety properties                     *)

\* The bookkeeping sets: only tasks whose dependencies are complete become
\* buildable, and a task is waiting for its exit code, complete or failed.
Bookkeeping ==
    /\ runq_complete \subseteq runq_running /\ failed_tids \subseteq runq_running
    /\ runq_complete \cap failed_tids = {}
    /\ build_stamps \subseteq runq_running \ (runq_complete \cup failed_tids)
    /\ runq_running \subseteq runq_buildable
    /\ \A t \in runq_buildable : Depends[t] \subseteq runq_complete

Commands(w) == {i \in 1 .. Len(inq[w]) : inq[w][i].kind = "runtask"}
Commanded(w, t) == \E i \in Commands(w) : inq[w][i].task = t
Exited(w, t) == \E x \in exits[w] : x.task = t

Lost(t) ==
    /\ t \in build_stamps
    /\ \A w \in Workers : ~Commanded(w, t) /\ t \notin children[w] /\ ~Exited(w, t)

\* A task is in one place of one worker: in its command pipe, running, or in
\* its exit code pipe; and then the run queue still waits for it.  One that
\* lost its worker is nowhere else, and the run queue waits for it in vain.
OnePlace ==
    /\ \A w \in Workers, t \in Tasks :
          /\ Commanded(w, t) \/ t \in children[w] \/ Exited(w, t)
                => t \in build_stamps /\ WorkerOf[t] = w
          /\ t \in children[w] => ~Commanded(w, t) /\ ~Exited(w, t)
          /\ Commanded(w, t) => ~Exited(w, t)
    /\ \A w \in Workers : \A i, j \in Commands(w) : inq[w][i].task = inq[w][j].task => i = j
    /\ \A w \in Workers : \A x, y \in exits[w] : x.task = y.task => x = y
    /\ \A t \in orphans : Lost(t)

Counting ==
    /\ Cardinality(build_stamps) <= NumberTasks
    /\ state = "Running" \/ pc \in {"read", "sched"} => active = Cardinality(build_stamps)

Named(n) == {s \in build_stamps : TaskName[s] = n}
Slots ==
    /\ \A s, t \in build_stamps : s # t => Stamp[s] # Stamp[t]
    /\ \A t \in build_stamps :
          NumberThreads[TaskName[t]] > 0 =>
              Cardinality(Named(TaskName[t])) <= NumberThreads[TaskName[t]]

\* A task that exited well is up to date before its exit code is read, and no
\* task runs whose stamp belongs to a complete one.
Settled ==
    /\ UpToDate
    /\ \A w \in Workers : \A x \in exits[w] : x.ok => ~OutOfDate(x.task)
    /\ \A s \in build_stamps, t \in runq_complete : Stamp[s] # Stamp[t]

IInv == TypeOK /\ Bookkeeping /\ OnePlace /\ Counting /\ Slots /\ Settled

\* A worker that is not up has neither tasks nor commands; the teardown has seen
\* the end of every worker it is done with.
Gathered ==
    /\ \A w \in Workers : worker[w] # "up" => children[w] = {} /\ inq[w] = <<>>
    /\ pc = "teardown" => \A w \in Started \ toread : reading = w \/ Dead(w)
    /\ pc = "ended" => Started = {}

\* As long as no task is cut off the counter is exact, a final state comes when
\* no task is left, and the workers stay till the teardown, which comes after it.
Unasked(w) == \A i \in 1 .. Len(inq[w]) : inq[w][i].kind # "quit"
Steady ==
    /\ active = Cardinality(build_stamps)
    /\ orphans = {}
    /\ state \in {"Failed", "Complete"} => build_stamps = {} /\ pc \notin ReadPoints \cup {"sched"}
    /\ pc \in {"teardown", "ended"} => state \in {"Failed", "Complete"}
    /\ pc \notin {"teardown", "ended"} => \A w \in Workers : ~Dead(w) /\ Unasked(w)
    /\ \A t \in build_stamps : worker[WorkerOf[t]] # "off"
    /\ pc = "drain" => Started # {}
    /\ ~raised

Reaped == Unhurt => Steady

\* As long as nothing outside interferes no task is lost, what can be built is
\* buildable, and the state and the result say how the tasks ended.
Outcome ==
    /\ runq_running = runq_complete \cup failed_tids \cup build_stamps
    /\ \A t \in Tasks : Depends[t] \subseteq runq_complete => t \in runq_buildable
    /\ state \in {"CleanUp", "Failed"} => failed_tids # {}
    /\ state \in {"Failed", "Complete"} => pc \in {"after", "teardown", "ended"}
    /\ state = "Complete" => failed_tids = {} /\ runq_complete = Tasks
    /\ pc = "ended" => result = IF state = "Failed" THEN "failed" ELSE "ok"

Calm == Undisturbed => Outcome

\* A build that goes on after failures ends when all that can be built was
\* started, unless number_threads holds something back.
NoThreadLimits == \A t \in Tasks : NumberThreads[TaskName[t]] = 0
Exhausted ==
    Undisturbed /\ ~HaltOnFailure /\ NoThreadLimits =>
        /\ state # "CleanUp"
        /\ state \in {"Failed", "Complete"} => runq_buildable \subseteq runq_running
=============================================================================
