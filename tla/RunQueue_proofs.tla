--------------------------- MODULE RunQueue_proofs ---------------------------
(****************************************************************************)
(* Theorems about RunQueue, for every task graph, every assignment of tasks *)
(* to workers and every combination of outside events.                      *)
(****************************************************************************)
EXTENDS RunQueue, FiniteSetTheorems, TLAPS

USE DEF Workers, NoWorker

-----------------------------------------------------------------------------
(* Type correctness *)

LEMMA InitType == Init => TypeOK
<1> SUFFICES ASSUME Init PROVE TypeOK
  OBVIOUS
<1>1. inq \in [Workers -> Seq(Message)] /\ written \in Seq(Tasks)
  <2>1. <<>> \in Seq(Message) /\ <<>> \in Seq(Tasks)
    OBVIOUS
  <2> QED
    BY <2>1 DEF Init
<1>2. children \in [Workers -> SUBSET Tasks] /\ exits \in [Workers -> SUBSET ExitCode]
  BY DEF Init
<1>3. worker \in [Workers -> {"off", "up", "exited"}]
  BY DEF Init
<1>4. pc \in PCs /\ state \in States /\ active \in Int
  BY DEF Init, PCs, States
<1>5. /\ runq_buildable \subseteq Tasks /\ runq_running \subseteq Tasks
      /\ runq_complete \subseteq Tasks /\ failed_tids \subseteq Tasks
      /\ build_stamps \subseteq Tasks /\ orphans \subseteq Tasks
  BY DEF Init
<1>6. /\ toread \subseteq Workers /\ reading \in Workers \cup {NoWorker}
      /\ raised \in BOOLEAN /\ result \in {"none", "ok", "failed", "exception"}
      /\ cooker \in {"running", "shutdown", "forceshutdown"}
      /\ checked \subseteq {"stoptasks", "halt"}
  BY DEF Init
<1> QED
  BY <1>1, <1>2, <1>3, <1>4, <1>5, <1>6 DEF TypeOK

\* A command appended to some of the pipes leaves sequences of commands.
LEMMA SentType ==
  ASSUME TypeOK, NEW W \in SUBSET Workers, NEW m \in Message
  PROVE  Sent(W, m) \in [Workers -> Seq(Message)]
  BY DEF Sent, TypeOK

LEMMA ConstantMessages ==
  /\ [kind |-> "finishnow"] \in Message
  /\ [kind |-> "quit"] \in Message
  /\ \A t \in Tasks : [kind |-> "runtask", task |-> t] \in Message
  BY DEF Message

LEMMA TypeStep == TypeOK /\ [Next]_vars => TypeOK'
<1> SUFFICES ASSUME TypeOK, [Next]_vars PROVE TypeOK'
  OBVIOUS
<1> USE TasksAssumption, WorkersAssumption
<1>1. CASE IdleRunning
  BY <1>1 DEF IdleRunning, TypeOK, PCs, queueVars, workerVars, envVars
<1>2. CASE IdleForced
  BY <1>2, SentType, ConstantMessages
     DEF IdleForced, finish_now, FinalState, Started, TypeOK, PCs, States, queueVars, envVars
<1>3. CASE IdleShutdown
  BY <1>3 DEF IdleShutdown, finish, FinalState, Started, TypeOK, PCs, ReadPoints, States,
              queueVars, workerVars, envVars
<1>4. CASE EnterInterrupted
  BY <1>4 DEF EnterInterrupted, Started, TypeOK, PCs, queueVars, workerVars, envVars
<1>5. CASE Enter
  BY <1>5 DEF Enter, Started, TypeOK, PCs, ReadPoints, queueVars, workerVars, envVars
<1>6. ASSUME NEW w \in Workers, BeginPipe(w) PROVE TypeOK'
  <2>1. inq' \in [Workers -> Seq(Message)] /\ state' \in States
    <3>1. CASE finish_now
      <4>1. Sent(Started, [kind |-> "finishnow"]) \in [Workers -> Seq(Message)]
        BY SentType, ConstantMessages DEF Started
      <4> QED
        BY <3>1, <4>1 DEF finish_now, FinalState, States
    <3>2. CASE UNCHANGED <<state, inq>>
      BY <3>2 DEF TypeOK
    <3> QED
      BY <1>6, <3>1, <3>2 DEF BeginPipe
  <2> QED
    BY <1>6, <2>1 DEF BeginPipe, TypeOK, queueVars, envVars
<1>7. ASSUME NEW w \in Workers, EndPipe(w) PROVE TypeOK'
  BY <1>7 DEF EndPipe, TypeOK, queueVars, workerVars, envVars
<1>8. ASSUME NEW w \in Workers, NEW x \in ExitCode, ReadExit(w, x) PROVE TypeOK'
  <2>1. x.task \in Tasks
    BY <1>8 DEF ExitCode
  <2> QED
    BY <1>8, <2>1 DEF ReadExit, task_complete, task_completeoutright, task_fail, NewBuildable,
              TypeOK, States, envVars
<1>9. CASE EndRead
  <2>1. pc' \in PCs /\ toread' \subseteq Workers /\ result' \in {"none", "ok", "failed", "exception"}
    <3>1. CASE pc = "drain"
      BY <1>9, <3>1 DEF EndRead, Started, TypeOK, PCs, ReadPoints
    <3>2. CASE pc \in {"read", "wait", "stop", "diskstop"}
      BY <1>9, <3>2 DEF EndRead, Started, TypeOK, PCs, ReadPoints
    <3> QED
      BY <1>9, <3>1, <3>2 DEF EndRead, ReadPoints
  <2> QED
    BY <1>9, <2>1 DEF EndRead, TypeOK, queueVars, workerVars, envVars
<1>10. ASSUME NEW t \in Tasks, SkipExisting(t) PROVE TypeOK'
  BY <1>10 DEF SkipExisting, PassThrough, NewBuildable, TypeOK, PCs, workerVars, envVars
<1>11. ASSUME NEW t \in Tasks, CompleteNoExec(t) PROVE TypeOK'
  BY <1>11 DEF CompleteNoExec, PassThrough, NewBuildable, TypeOK, PCs, workerVars, envVars
<1>12. ASSUME NEW t \in Tasks, SpawnFails(t) PROVE TypeOK'
  BY <1>12 DEF SpawnFails, TypeOK, PCs, States, workerVars, envVars
<1>13. ASSUME NEW t \in Tasks, RunTask(t) PROVE TypeOK'
  BY <1>13, ConstantMessages DEF RunTask, Picks, TypeOK, PCs, ReadPoints, envVars
<1>14. ASSUME NEW t \in Tasks, SendFails(t) PROVE TypeOK'
  BY <1>14 DEF SendFails, Started, TypeOK, PCs, queueVars, workerVars, envVars
<1>15. CASE WaitForTasks
  BY <1>15 DEF WaitForTasks, Started, TypeOK, PCs, ReadPoints, queueVars, workerVars, envVars
<1>16. CASE Finished
  BY <1>16 DEF Finished, TypeOK, PCs, States, queueVars, workerVars, envVars
<1>17. CASE Loop
  BY <1>17 DEF Loop, TypeOK, PCs, queueVars, workerVars, envVars
<1>18. CASE Finish
  BY <1>18 DEF Finish, finish, FinalState, Started, TypeOK, PCs, ReadPoints, States,
               queueVars, workerVars, envVars
<1>19. CASE BuildDone
  BY <1>19 DEF BuildDone, Started, TypeOK, PCs, queueVars, workerVars, envVars
<1>20. ASSUME NEW w \in Workers, BeginTeardown(w) PROVE TypeOK'
  BY <1>20, SentType, ConstantMessages DEF BeginTeardown, TypeOK, queueVars, envVars
<1>21. ASSUME NEW w \in Workers, EndTeardown(w) PROVE TypeOK'
  BY <1>21 DEF EndTeardown, TypeOK, queueVars, workerVars, envVars
<1>22. CASE TornDown
  BY <1>22 DEF TornDown, TypeOK, PCs, States, queueVars, envVars
<1>23. ASSUME NEW w \in Workers, Serve(w) PROVE TypeOK'
  <2>1. inq[w] # <<>> => Head(inq[w]) \in Message /\ Tail(inq[w]) \in Seq(Message)
    BY DEF TypeOK
  <2>2. CASE ForkTask(w)
    <3>1. Head(inq[w]).task \in Tasks
      BY <2>1, <2>2 DEF ForkTask, Receives, Message
    <3> QED
      BY <2>1, <2>2, <3>1 DEF ForkTask, Receives, Rest, TypeOK, queueVars, threadVars, envVars
  <2>3. CASE FinishNow(w)
    BY <2>1, <2>3 DEF FinishNow, Receives, Rest, TypeOK, queueVars, threadVars, envVars
  <2>4. CASE Quit(w)
    BY <2>4 DEF Quit, Gone, TypeOK, queueVars, threadVars, envVars
  <2> QED
    BY <1>23, <2>2, <2>3, <2>4 DEF Serve
<1>24. ASSUME NEW w \in Workers, NEW t \in Tasks, NEW ok \in BOOLEAN, ChildExit(w, t, ok)
       PROVE TypeOK'
  BY <1>24 DEF ChildExit, ExitCode, TypeOK, queueVars, threadVars, envVars
<1>25. ASSUME NEW w \in Workers, WorkerDies(w) PROVE TypeOK'
  BY <1>25 DEF WorkerDies, Gone, TypeOK, queueVars, threadVars, envVars
<1>26. ASSUME NEW s \in {"shutdown", "forceshutdown"}, Interrupt(s) PROVE TypeOK'
  BY <1>26 DEF Interrupt, TypeOK, queueVars, threadVars, workerVars
<1>27. CASE DiskHalt
  BY <1>27, SentType, ConstantMessages
     DEF DiskHalt, Monitor, finish_now, FinalState, Started, TypeOK, PCs, States, queueVars
<1>28. CASE DiskStopTasks
  BY <1>28 DEF DiskStopTasks, Monitor, finish, FinalState, Started, TypeOK, PCs, ReadPoints,
               States, queueVars, workerVars
<1>29. CASE MonitorEnd
  BY <1>29 DEF MonitorEnd, TypeOK, PCs, queueVars, workerVars, envVars
<1>30. CASE UNCHANGED vars
  BY <1>30 DEF vars, TypeOK
<1>31. ASSUME NEW t \in Tasks, OrphanEnds(t) PROVE TypeOK'
  <2>1. written' \in Seq(Tasks)
    <3>1. written \in Seq(Tasks) /\ Append(written, t) \in Seq(Tasks)
      BY DEF TypeOK
    <3> QED
      BY <1>31, <3>1 DEF OrphanEnds
  <2>2. orphans' \subseteq Tasks
    BY <1>31 DEF OrphanEnds, TypeOK
  <2>3. UNCHANGED <<pc, state, runq_buildable, runq_running, runq_complete, failed_tids,
                    build_stamps, active, toread, reading, raised, result,
                    cooker, checked, worker, inq, children, exits>>
    BY <1>31 DEF OrphanEnds, queueVars, threadVars
  <2> QED
    BY <2>1, <2>2, <2>3 DEF TypeOK
<1> QED
  BY <1>1, <1>2, <1>3, <1>4, <1>5, <1>6, <1>7, <1>8, <1>9, <1>10, <1>11, <1>12, <1>13, <1>14,
     <1>15, <1>16, <1>17, <1>18, <1>19, <1>20, <1>21, <1>22, <1>23, <1>24, <1>25, <1>26,
     <1>27, <1>28, <1>29, <1>30, <1>31
     DEF Next, Thread, Idle, Read, Schedule, Wrap, Outside, Terminated

\* Every variable keeps its type, whatever fails outside.
THEOREM TypeCorrect == Spec => []TypeOK
<1>1. Init => TypeOK
  BY InitType
<1>2. TypeOK /\ [Next]_vars => TypeOK'
  BY TypeStep
<1> QED
  BY <1>1, <1>2, PTL DEF Spec

-----------------------------------------------------------------------------
(* How a step moves tasks between the places OnePlace speaks of             *)

places == <<build_stamps, inq, children, orphans, exits>>

LEMMA PlacesKept == OnePlace /\ UNCHANGED places => OnePlace'
  BY DEF OnePlace, Lost, places, Commands, Commanded, Exited

\* finishnow and quit name no task.
LEMMA SentKeepsPlaces ==
  ASSUME TypeOK, OnePlace, NEW W \in SUBSET Workers, NEW m \in Message, m.kind # "runtask",
         inq' = Sent(W, m), UNCHANGED <<build_stamps, children, orphans, exits>>
  PROVE  OnePlace'
<1>1. ASSUME NEW w \in Workers
      PROVE  /\ Commands(w)' = Commands(w)
             /\ \A i \in Commands(w) : inq'[w][i] = inq[w][i]
  <2>1. inq[w] \in Seq(Message)
    BY DEF TypeOK
  <2>2. CASE inq'[w] = inq[w]
    BY <2>2 DEF Commands
  <2>3. CASE inq'[w] = Append(inq[w], m)
    BY <2>1, <2>3 DEF Commands
  <2> QED
    BY <2>2, <2>3 DEF Sent
<1>2. \A w \in Workers, t \in Tasks : Commanded(w, t)' = Commanded(w, t)
  BY <1>1 DEF Commanded
<1>3. \A w \in Workers : \A i, j \in Commands(w)' :
         inq'[w][i].task = inq'[w][j].task => i = j
  BY <1>1 DEF OnePlace
<1>4. \A u \in orphans' : Lost(u)'
  BY <1>2 DEF OnePlace, Lost, Exited, TypeOK
<1>5. \A w \in Workers, u \in Tasks :
         /\ Commanded(w, u)' \/ u \in children'[w] \/ Exited(w, u)'
               => u \in build_stamps' /\ WorkerOf[u] = w
         /\ u \in children'[w] => ~Commanded(w, u)' /\ ~Exited(w, u)'
         /\ Commanded(w, u)' => ~Exited(w, u)'
  BY <1>2 DEF OnePlace, Exited
<1>6. \A w \in Workers : \A x, y \in exits'[w] : x.task = y.task => x = y
  BY DEF OnePlace
<1> QED
  BY <1>3, <1>4, <1>5, <1>6 DEF OnePlace

LEMMA RunTaskPlaces ==
  ASSUME TypeOK, Bookkeeping, OnePlace, NEW t \in Tasks, RunTask(t)
  PROVE  OnePlace'
<1> DEFINE v == WorkerOf[t]
<1>1. v \in Workers /\ t \notin build_stamps
  BY WorkersAssumption DEF RunTask, Picks, Eligible, Bookkeeping
<1>2. /\ build_stamps' = build_stamps \cup {t}
      /\ inq' = [inq EXCEPT ![v] = Append(@, [kind |-> "runtask", task |-> t])]
      /\ UNCHANGED <<children, orphans, exits>>
  BY DEF RunTask
<1>3. \A w \in Workers : inq[w] \in Seq(Message)
  BY DEF TypeOK
<1>4. ASSUME NEW w \in Workers, w # v
      PROVE  Commands(w)' = Commands(w) /\ inq'[w] = inq[w]
  BY <1>1, <1>2, <1>4 DEF Commands, TypeOK
<1>5. /\ Commands(v)' = Commands(v) \cup {Len(inq[v]) + 1}
      /\ \A i \in Commands(v) : inq'[v][i] = inq[v][i]
      /\ inq'[v][Len(inq[v]) + 1].task = t
  <2>1. inq'[v] = Append(inq[v], [kind |-> "runtask", task |-> t])
    BY <1>1, <1>2 DEF TypeOK
  <2> QED
    BY <1>1, <1>3, <2>1 DEF Commands
<1>6. ASSUME NEW w \in Workers, NEW u \in Tasks
      PROVE  Commanded(w, u)' <=> Commanded(w, u) \/ (w = v /\ u = t)
  <2>1. CASE w = v
    BY <1>5, <2>1 DEF Commanded
  <2>2. CASE w # v
    BY <1>4, <2>2 DEF Commanded
  <2> QED
    BY <2>1, <2>2
<1>7. ASSUME NEW w \in Workers PROVE ~Commanded(w, t) /\ t \notin children[w] /\ ~Exited(w, t)
  BY <1>1 DEF OnePlace
<1>8. ASSUME NEW w \in Workers, NEW i \in Commands(w)', NEW j \in Commands(w)',
             inq'[w][i].task = inq'[w][j].task
      PROVE  i = j
  <2>1. CASE w = v
    BY <1>1, <1>5, <1>7, <1>8, <2>1 DEF OnePlace, Commanded
  <2>2. CASE w # v
    BY <1>4, <1>8, <2>2 DEF OnePlace
  <2> QED
    BY <2>1, <2>2
<1>9. \A w \in Workers, u \in Tasks : Exited(w, u)' = Exited(w, u)
  BY <1>2 DEF Exited
<1>10. ASSUME NEW w \in Workers, NEW u \in Tasks
       PROVE  /\ Commanded(w, u)' \/ u \in children'[w] \/ Exited(w, u)'
                    => u \in build_stamps' /\ WorkerOf[u] = w
              /\ u \in children'[w] => ~Commanded(w, u)' /\ ~Exited(w, u)'
              /\ Commanded(w, u)' => ~Exited(w, u)'
  BY <1>2, <1>6, <1>7, <1>9 DEF OnePlace
<1>11. ASSUME NEW u \in orphans' PROVE Lost(u)'
  <2>1. u \in orphans /\ u \in Tasks /\ Lost(u)
    BY <1>2 DEF OnePlace, TypeOK
  <2> QED
    BY <1>1, <1>2, <1>6, <1>9, <2>1 DEF Lost
<1> QED
  BY <1>2, <1>8, <1>10, <1>11 DEF OnePlace

\* The head of a command pipe leaves it and at most its task joins the children.
LEMMA ServePlaces ==
  ASSUME TypeOK, OnePlace, NEW w \in Workers, inq[w] # <<>>, Rest(w),
         UNCHANGED <<build_stamps, orphans, exits>>,
         \A v \in Workers : v # w => children'[v] = children[v],
         \A t \in children'[w] : t \in children[w]
                        \/ (Head(inq[w]).kind = "runtask" /\ t = Head(inq[w]).task)
  PROVE  OnePlace'
<1>1. inq[w] \in Seq(Message) /\ Len(inq[w]) > 0 /\ Head(inq[w]) = inq[w][1]
  BY DEF TypeOK
<1>2. inq'[w] = Tail(inq[w])
  BY DEF Rest, TypeOK
<1>3. /\ \A i \in Commands(w)' : i + 1 \in Commands(w) /\ inq'[w][i] = inq[w][i + 1]
      /\ Commands(w)' \subseteq Nat \ {0}
  BY <1>1, <1>2 DEF Commands
<1>4. ASSUME NEW u \in Tasks
      PROVE  Commanded(w, u)' =>
               /\ Commanded(w, u)
               /\ ~(Head(inq[w]).kind = "runtask" /\ u = Head(inq[w]).task)
  <2> SUFFICES ASSUME Commanded(w, u)'
               PROVE  /\ Commanded(w, u)
                      /\ ~(Head(inq[w]).kind = "runtask" /\ u = Head(inq[w]).task)
    OBVIOUS
  <2>1. PICK i \in Commands(w)' : inq'[w][i].task = u
    BY DEF Commanded
  <2>2. i + 1 \in Commands(w) /\ inq[w][i + 1].task = u /\ i # 0 /\ i \in Nat
    BY <1>3, <2>1
  <2>3. Commanded(w, u)
    BY <2>2 DEF Commanded
  <2>4. ASSUME Head(inq[w]).kind = "runtask", u = Head(inq[w]).task PROVE FALSE
    <3>1. 1 \in Commands(w) /\ inq[w][1].task = u
      BY <1>1, <2>4 DEF Commands
    <3>2. i + 1 = 1
      BY <2>2, <3>1 DEF OnePlace
    <3> QED
      BY <2>2, <3>2
  <2> QED
    BY <2>3, <2>4
<1>5. ASSUME Head(inq[w]).kind = "runtask"
      PROVE  Commanded(w, Head(inq[w]).task) /\ Head(inq[w]).task \in Tasks
  <2>1. 1 \in Commands(w)
    BY <1>1, <1>5 DEF Commands
  <2>2. inq[w][1] \in Message
    BY <1>1
  <2> QED
    BY <1>1, <1>5, <2>1, <2>2 DEF Commanded, Message
<1>6. ASSUME NEW v \in Workers, v # w
      PROVE  /\ Commands(v)' = Commands(v) /\ inq'[v] = inq[v] /\ children'[v] = children[v]
             /\ \A u \in Tasks : Commanded(v, u)' = Commanded(v, u)
  BY <1>6 DEF Rest, Commands, Commanded, TypeOK
<1>7. \A v \in Workers, u \in Tasks : Exited(v, u)' = Exited(v, u)
  BY DEF Exited
<1>8. ASSUME NEW v \in Workers, NEW u \in Tasks
      PROVE  /\ Commanded(v, u)' \/ u \in children'[v] \/ Exited(v, u)'
                    => u \in build_stamps' /\ WorkerOf[u] = v
             /\ u \in children'[v] => ~Commanded(v, u)' /\ ~Exited(v, u)'
             /\ Commanded(v, u)' => ~Exited(v, u)'
  <2>1. CASE v = w
    BY <1>2, <1>4, <1>5, <1>7, <2>1 DEF OnePlace
  <2>2. CASE v # w
    BY <1>6, <1>7, <2>2 DEF OnePlace
  <2> QED
    BY <2>1, <2>2
<1>9. ASSUME NEW v \in Workers, NEW i \in Commands(v)', NEW j \in Commands(v)',
             inq'[v][i].task = inq'[v][j].task
      PROVE  i = j
  <2>1. CASE v = w
    <3>1. i + 1 = j + 1 /\ i \in Nat /\ j \in Nat
      BY <1>3, <1>9, <2>1 DEF OnePlace
    <3> QED
      BY <3>1
  <2>2. CASE v # w
    BY <1>6, <1>9, <2>2 DEF OnePlace
  <2> QED
    BY <2>1, <2>2
<1>10. ASSUME NEW u \in orphans' PROVE Lost(u)'
  <2>1. u \in orphans /\ u \in Tasks /\ Lost(u)
    BY DEF OnePlace, TypeOK
  <2> QED
    BY <1>4, <1>5, <1>6, <1>7, <2>1 DEF Lost
<1>11. \A v \in Workers : \A x, y \in exits'[v] : x.task = y.task => x = y
  BY DEF OnePlace
<1> QED
  BY <1>8, <1>9, <1>10, <1>11 DEF OnePlace

LEMMA ReadExitPlaces ==
  ASSUME TypeOK, OnePlace, NEW w \in Workers, NEW x \in ExitCode, ReadExit(w, x)
  PROVE  OnePlace' /\ x.task \in build_stamps /\ x.task \notin orphans
<1>1. x.task \in Tasks /\ Exited(w, x.task) /\ x \in exits[w]
  BY DEF ExitCode, ReadExit, Exited
<1>2. x.task \in build_stamps /\ WorkerOf[x.task] = w
  BY <1>1 DEF OnePlace
<1>3. /\ build_stamps' = build_stamps \ {x.task} /\ UNCHANGED <<inq, children, orphans>>
      /\ exits'[w] = exits[w] \ {x}
      /\ \A v \in Workers : v # w => exits'[v] = exits[v]
  BY DEF ReadExit, TypeOK
<1>4. \A v \in Workers : exits'[v] \subseteq exits[v]
  BY <1>3
<1>5. ~Exited(w, x.task)'
  BY <1>1, <1>3 DEF OnePlace, Exited
<1>6. \A v \in Workers, u \in Tasks : Exited(v, u)' => Exited(v, u) /\ u # x.task
  <2> TAKE v \in Workers, u \in Tasks
  <2>1. Exited(v, u)' => Exited(v, u)
    BY <1>4 DEF Exited
  <2>2. ASSUME Exited(v, u)', u = x.task PROVE FALSE
    <3>1. v = w
      BY <1>2, <2>1, <2>2 DEF OnePlace
    <3> QED
      BY <1>5, <2>2, <3>1
  <2> QED
    BY <2>1, <2>2
<1>7. \A v \in Workers, u \in Tasks :
          Commanded(v, u)' = Commanded(v, u) /\ Commands(v)' = Commands(v)
  BY <1>3 DEF Commanded, Commands
<1>8. \A v \in Workers : ~Commanded(v, x.task) /\ x.task \notin children[v]
  BY <1>1, <1>2 DEF OnePlace
<1>9. ASSUME NEW v \in Workers, NEW u \in Tasks
      PROVE  /\ Commanded(v, u)' \/ u \in children'[v] \/ Exited(v, u)'
                    => u \in build_stamps' /\ WorkerOf[u] = v
             /\ u \in children'[v] => ~Commanded(v, u)' /\ ~Exited(v, u)'
             /\ Commanded(v, u)' => ~Exited(v, u)'
  BY <1>3, <1>6, <1>7, <1>8 DEF OnePlace
<1>10. \A v \in Workers : \A y, z \in exits'[v] : y.task = z.task => y = z
  BY <1>4 DEF OnePlace
<1>11. \A v \in Workers : \A i, j \in Commands(v)' : inq'[v][i].task = inq'[v][j].task => i = j
  BY <1>3, <1>7 DEF OnePlace, Commands
<1>12. x.task \notin orphans
  BY <1>1, <1>2, WorkersAssumption DEF OnePlace, Lost
<1>13. ASSUME NEW u \in orphans' PROVE Lost(u)'
  <2>1. u \in orphans /\ u \in Tasks /\ Lost(u)
    BY <1>3 DEF OnePlace, TypeOK
  <2> QED
    BY <1>3, <1>6, <1>7, <1>12, <2>1 DEF Lost
<1> QED
  BY <1>2, <1>9, <1>10, <1>11, <1>12, <1>13 DEF OnePlace

LEMMA ChildExitPlaces ==
  ASSUME TypeOK, OnePlace, NEW w \in Workers, NEW t \in Tasks, NEW ok \in BOOLEAN,
         ChildExit(w, t, ok)
  PROVE  OnePlace'
<1> DEFINE x == [task |-> t, ok |-> ok]
<1>1. t \in children[w] /\ ~Commanded(w, t) /\ ~Exited(w, t)
      /\ t \in build_stamps /\ WorkerOf[t] = w
  BY DEF ChildExit, OnePlace
<1>2. /\ UNCHANGED <<build_stamps, inq, orphans>>
      /\ children'[w] = children[w] \ {t} /\ exits'[w] = exits[w] \cup {x}
      /\ \A v \in Workers : v # w => children'[v] = children[v] /\ exits'[v] = exits[v]
  BY DEF ChildExit, TypeOK, queueVars
<1>3. \A v \in Workers, u \in Tasks :
          Commanded(v, u)' = Commanded(v, u) /\ Commands(v)' = Commands(v)
  BY <1>2 DEF Commanded, Commands
<1>4. \A v \in Workers, u \in Tasks : Exited(v, u)' => Exited(v, u) \/ (v = w /\ u = t)
  BY <1>2 DEF Exited
<1>5. ASSUME NEW v \in Workers, NEW u \in Tasks
      PROVE  /\ Commanded(v, u)' \/ u \in children'[v] \/ Exited(v, u)'
                    => u \in build_stamps' /\ WorkerOf[u] = v
             /\ u \in children'[v] => ~Commanded(v, u)' /\ ~Exited(v, u)'
             /\ Commanded(v, u)' => ~Exited(v, u)'
  BY <1>1, <1>2, <1>3, <1>4 DEF OnePlace
<1>6. \A v \in Workers : \A y, z \in exits'[v] : y.task = z.task => y = z
  BY <1>1, <1>2 DEF OnePlace, Exited
<1>7. \A v \in Workers : \A i, j \in Commands(v)' : inq'[v][i].task = inq'[v][j].task => i = j
  BY <1>2, <1>3 DEF OnePlace, Commands
<1>8. ASSUME NEW u \in orphans' PROVE Lost(u)'
  <2>1. u \in orphans /\ u \in Tasks /\ Lost(u)
    BY <1>2, <1>3 DEF OnePlace, TypeOK
  <2> QED
    BY <1>1, <1>2, <1>3, <1>4, <2>1 DEF Lost
<1> QED
  BY <1>5, <1>6, <1>7, <1>8 DEF OnePlace

LEMMA GonePlaces ==
  ASSUME TypeOK, OnePlace, NEW w \in Workers, Gone(w)
  PROVE  OnePlace'
<1>1. /\ UNCHANGED <<build_stamps, exits>> /\ inq'[w] = <<>> /\ children'[w] = {}
      /\ orphans' = orphans \cup children[w]
      /\ \A v \in Workers : v # w => inq'[v] = inq[v] /\ children'[v] = children[v]
  BY DEF Gone, TypeOK, queueVars
<1>2. Commands(w)' = {}
  BY <1>1 DEF Commands
<1>3. \A v \in Workers : v # w => Commands(v)' = Commands(v)
  BY <1>1 DEF Commands
<1>4. \A v \in Workers, u \in Tasks : Commanded(v, u)' => v # w /\ Commanded(v, u)
  BY <1>1, <1>2, <1>3 DEF Commanded
<1>5. \A v \in Workers, u \in Tasks : Exited(v, u)' = Exited(v, u)
  BY <1>1 DEF Exited
<1>6. \A v \in Workers : \A i, j \in Commands(v)' : inq'[v][i].task = inq'[v][j].task => i = j
  BY <1>1, <1>2, <1>3 DEF OnePlace
<1>7. \A v \in Workers : children'[v] \subseteq children[v]
  BY <1>1
<1>8. ASSUME NEW u \in children[w]
      PROVE  Lost(u)'
  <2>1. u \in Tasks /\ u \in build_stamps /\ WorkerOf[u] = w
        /\ ~Commanded(w, u) /\ ~Exited(w, u)
    BY DEF OnePlace, TypeOK
  <2>2. \A v \in Workers : v # w => ~Commanded(v, u) /\ u \notin children[v] /\ ~Exited(v, u)
    BY <2>1 DEF OnePlace
  <2> QED
    BY <1>1, <1>4, <1>5, <2>1, <2>2 DEF Lost
<1>9. ASSUME NEW u \in orphans
      PROVE  Lost(u)'
  BY <1>1, <1>4, <1>5, <1>7 DEF OnePlace, Lost, TypeOK
<1>10. \A u \in orphans' : Lost(u)'
  BY <1>1, <1>8, <1>9
<1>11. \A v \in Workers, u \in Tasks :
          /\ Commanded(v, u)' \/ u \in children'[v] \/ Exited(v, u)'
                => u \in build_stamps' /\ WorkerOf[u] = v
          /\ u \in children'[v] => ~Commanded(v, u)' /\ ~Exited(v, u)'
          /\ Commanded(v, u)' => ~Exited(v, u)'
  BY <1>1, <1>4, <1>5, <1>7 DEF OnePlace
<1>12. \A v \in Workers : \A x, y \in exits'[v] : x.task = y.task => x = y
  BY <1>1 DEF OnePlace
<1> QED
  BY <1>6, <1>10, <1>11, <1>12 DEF OnePlace

LEMMA OrphanEndsPlaces ==
  ASSUME OnePlace, NEW t \in Tasks, OrphanEnds(t)
  PROVE  OnePlace'
<1>1. UNCHANGED <<build_stamps, inq, children, exits>> /\ orphans' \subseteq orphans
  BY DEF OrphanEnds, queueVars
<1>2. \A w \in Workers, u \in Tasks :
          Commanded(w, u)' = Commanded(w, u) /\ Exited(w, u)' = Exited(w, u)
  BY <1>1 DEF Commanded, Commands, Exited
<1> QED
  BY <1>1, <1>2 DEF OnePlace, Lost, Commanded, Commands, Exited

LEMMA PlacesStep ==
  ASSUME TypeOK, Bookkeeping, OnePlace, [Next]_vars
  PROVE  OnePlace'
<1>1. CASE UNCHANGED places
  BY <1>1, PlacesKept
<1>2. ASSUME NEW W \in SUBSET Workers, inq' = Sent(W, [kind |-> "finishnow"]),
             UNCHANGED <<build_stamps, children, orphans, exits>>
      PROVE  OnePlace'
  BY <1>2, SentKeepsPlaces, ConstantMessages
<1>3. CASE IdleForced \/ DiskHalt
  BY <1>2, <1>3 DEF IdleForced, DiskHalt, finish_now, Started, queueVars
<1>4. ASSUME NEW w \in Workers, BeginPipe(w) PROVE OnePlace'
  BY <1>1, <1>2, <1>4 DEF BeginPipe, finish_now, Started, queueVars, places
<1>5. ASSUME NEW w \in Workers, BeginTeardown(w) PROVE OnePlace'
  BY <1>5, SentKeepsPlaces, ConstantMessages DEF BeginTeardown, queueVars
<1>6. ASSUME NEW w \in Workers, NEW x \in ExitCode, ReadExit(w, x) PROVE OnePlace'
  BY <1>6, ReadExitPlaces
<1>7. ASSUME NEW t \in Tasks, RunTask(t) PROVE OnePlace'
  BY <1>7, RunTaskPlaces
<1>8. ASSUME NEW w \in Workers, Serve(w) PROVE OnePlace'
  <2>1. CASE ForkTask(w)
    <3>1. /\ inq[w] # <<>> /\ Rest(w) /\ UNCHANGED <<build_stamps, orphans, exits>>
          /\ Head(inq[w]).kind = "runtask"
      BY <2>1 DEF ForkTask, Receives, queueVars
    <3>2. /\ \A v \in Workers : v # w => children'[v] = children[v]
          /\ children'[w] = children[w] \cup {Head(inq[w]).task}
      BY <2>1 DEF ForkTask, TypeOK
    <3>3. \A t \in children'[w] : t \in children[w]
                        \/ (Head(inq[w]).kind = "runtask" /\ t = Head(inq[w]).task)
      BY <3>1, <3>2
    <3> QED
      BY <3>1, <3>2, <3>3, ServePlaces
  <2>2. CASE FinishNow(w)
    <3>1. inq[w] # <<>> /\ Rest(w) /\ UNCHANGED <<build_stamps, orphans, exits>>
      BY <2>2 DEF FinishNow, Receives, queueVars
    <3>2. /\ \A v \in Workers : v # w => children'[v] = children[v]
          /\ children'[w] \subseteq children[w]
      BY <2>2 DEF FinishNow, TypeOK
    <3> QED
      BY <3>1, <3>2, ServePlaces
  <2>3. CASE Quit(w)
    BY <2>3, GonePlaces DEF Quit
  <2> QED
    BY <1>8, <2>1, <2>2, <2>3 DEF Serve
<1>9. ASSUME NEW w \in Workers, NEW t \in Tasks, NEW ok \in BOOLEAN, ChildExit(w, t, ok)
      PROVE OnePlace'
  BY <1>9, ChildExitPlaces
<1>10. ASSUME NEW w \in Workers, WorkerDies(w) PROVE OnePlace'
  BY <1>10, GonePlaces DEF WorkerDies
<1>11. ASSUME NEW t \in Tasks, SkipExisting(t) \/ CompleteNoExec(t) \/ SpawnFails(t) \/ SendFails(t)
       PROVE  UNCHANGED places
  BY <1>11 DEF SkipExisting, CompleteNoExec, SpawnFails, SendFails, PassThrough,
               places, queueVars, workerVars
<1>12. ASSUME Idle \/ EndRead \/ WaitForTasks \/ Finished \/ Wrap \/ MonitorEnd, ~IdleForced
       PROVE  UNCHANGED places
  BY <1>12 DEF Idle, IdleRunning, IdleShutdown, EnterInterrupted, Enter, EndRead, WaitForTasks,
               Finished, Wrap, Loop, Finish, BuildDone, TornDown, MonitorEnd, finish,
               places, queueVars, workerVars
<1>13. ASSUME NEW w \in Workers, EndPipe(w) \/ EndTeardown(w) PROVE UNCHANGED places
  BY <1>13 DEF EndPipe, EndTeardown, places, queueVars, workerVars
<1>14. CASE DiskStopTasks \/ UNCHANGED vars
  BY <1>1, <1>14 DEF DiskStopTasks, finish, vars, places, queueVars, workerVars
<1>15. ASSUME NEW s \in {"shutdown", "forceshutdown"}, Interrupt(s) PROVE UNCHANGED places
  BY <1>15 DEF Interrupt, places, queueVars, workerVars
<1>16. ASSUME NEW t \in Tasks, OrphanEnds(t) PROVE OnePlace'
  BY <1>16, OrphanEndsPlaces
<1> QED
  BY <1>1, <1>3, <1>4, <1>5, <1>6, <1>7, <1>8, <1>9, <1>10, <1>11, <1>12, <1>13, <1>14, <1>15, <1>16
     DEF Next, Thread, Read, Schedule, Outside, Terminated

-----------------------------------------------------------------------------
(* The steps that touch the queue's bookkeeping                             *)

queue == <<queueVars, state>>

\* All other steps leave the sets and stats.active alone, and never make a
\* queue run that was not running.
LEMMA QueueSteps ==
  ASSUME [Next]_vars
  PROVE  \/ \E w \in Workers, x \in ExitCode : ReadExit(w, x)
         \/ \E t \in Tasks : SkipExisting(t) \/ CompleteNoExec(t) \/ SpawnFails(t) \/ RunTask(t)
         \/ /\ UNCHANGED queueVars
            /\ state' = "Running" => state = "Running"
            /\ pc' \in {"read", "sched"} => state = "Running" \/ pc \in {"read", "sched"}
<1> DEFINE Quiet == /\ UNCHANGED queueVars
                    /\ state' = "Running" => state = "Running"
                    /\ pc' \in {"read", "sched"} => state = "Running" \/ pc \in {"read", "sched"}
<1>1. ASSUME Idle PROVE Quiet
  BY <1>1 DEF Idle, IdleRunning, IdleForced, IdleShutdown, EnterInterrupted, Enter, finish,
              finish_now, FinalState, queueVars
<1>2. ASSUME NEW w \in Workers, BeginPipe(w) \/ EndPipe(w) \/ BeginTeardown(w) \/ EndTeardown(w)
      PROVE  Quiet
  BY <1>2 DEF BeginPipe, EndPipe, BeginTeardown, EndTeardown, finish_now, FinalState, queueVars
<1>3. ASSUME EndRead PROVE Quiet
  BY <1>3 DEF EndRead, ReadPoints, queueVars
<1>4. ASSUME NEW t \in Tasks, SendFails(t) PROVE Quiet
  BY <1>4 DEF SendFails, queueVars
<1>5. ASSUME WaitForTasks \/ Finished PROVE Quiet
  BY <1>5 DEF WaitForTasks, Finished, queueVars
<1>6. ASSUME Wrap \/ MonitorEnd PROVE Quiet
  BY <1>6 DEF Wrap, Loop, Finish, BuildDone, TornDown, MonitorEnd, finish, FinalState, queueVars
<1>7. ASSUME NEW w \in Workers, Serve(w) \/ WorkerDies(w) PROVE Quiet
  BY <1>7 DEF Serve, ForkTask, FinishNow, Quit, WorkerDies, Gone, queueVars, threadVars
<1>8. ASSUME NEW w \in Workers, NEW t \in Tasks, NEW ok \in BOOLEAN, ChildExit(w, t, ok)
      PROVE  Quiet
  BY <1>8 DEF ChildExit, queueVars, threadVars
<1>9. ASSUME NEW s \in {"shutdown", "forceshutdown"}, Interrupt(s) PROVE Quiet
  BY <1>9 DEF Interrupt, queueVars, threadVars
<1>10. ASSUME DiskHalt \/ DiskStopTasks PROVE Quiet
  BY <1>10 DEF DiskHalt, DiskStopTasks, Monitor, finish, finish_now, FinalState, queueVars
<1>11. ASSUME UNCHANGED vars PROVE Quiet
  BY <1>11 DEF vars, queueVars
<1>12. ASSUME NEW t \in Tasks, OrphanEnds(t) PROVE Quiet
  BY <1>12 DEF OrphanEnds, queueVars, threadVars
<1> QED
  BY <1>1, <1>2, <1>3, <1>4, <1>5, <1>6, <1>7, <1>8, <1>9, <1>10, <1>11, <1>12
     DEF Next, Thread, Read, Schedule, Outside, Terminated

\* What an exit code does to the queue.
LEMMA ReadExitQueue ==
  ASSUME TypeOK, Bookkeeping, OnePlace, NEW w \in Workers, NEW x \in ExitCode, ReadExit(w, x)
  PROVE  /\ x.task \in build_stamps /\ build_stamps' = build_stamps \ {x.task}
         /\ active' = active - 1
         /\ UNCHANGED <<pc, runq_running>>
         /\ state' = state \/ state' = "CleanUp"
         /\ \/ /\ runq_complete' = runq_complete \cup {x.task}
               /\ runq_buildable' = runq_buildable
                                     \cup NewBuildable(x.task, runq_complete \cup {x.task})
               /\ failed_tids' = failed_tids
            \/ /\ failed_tids' = failed_tids \cup {x.task}
               /\ UNCHANGED <<runq_complete, runq_buildable>>
  BY ReadExitPlaces DEF ReadExit, task_complete, task_completeoutright, task_fail

LEMMA PassThroughQueue ==
  ASSUME Bookkeeping, NEW t \in Tasks, SkipExisting(t) \/ CompleteNoExec(t)
  PROVE  /\ PassThrough(t) /\ t \in runq_buildable \ runq_running
         /\ Depends[t] \subseteq runq_complete
         /\ UNCHANGED state /\ pc' = "after"
  BY DEF SkipExisting, CompleteNoExec, Picks, Eligible, Bookkeeping

LEMMA BookkeepingStep ==
  ASSUME TypeOK, Bookkeeping, OnePlace, [Next]_vars
  PROVE  Bookkeeping'
<1>1. ASSUME NEW w \in Workers, NEW x \in ExitCode, ReadExit(w, x) PROVE Bookkeeping'
  BY <1>1, ReadExitQueue DEF Bookkeeping, NewBuildable
<1>2. ASSUME NEW t \in Tasks, SkipExisting(t) \/ CompleteNoExec(t) PROVE Bookkeeping'
  BY <1>2, PassThroughQueue DEF Bookkeeping, PassThrough, NewBuildable
<1>3. ASSUME NEW t \in Tasks, SpawnFails(t) PROVE Bookkeeping'
  BY <1>3 DEF SpawnFails, Bookkeeping
<1>4. ASSUME NEW t \in Tasks, RunTask(t) PROVE Bookkeeping'
  BY <1>4 DEF RunTask, Picks, Eligible, Bookkeeping
<1>5. CASE UNCHANGED queueVars
  BY <1>5 DEF Bookkeeping, queueVars
<1> QED
  BY <1>1, <1>2, <1>3, <1>4, <1>5, QueueSteps

-----------------------------------------------------------------------------
(* Stamps                                                                   *)

\* A new stamp is newer than every other one, and outdates only the tasks
\* whose dependencies it belongs to.
LEMMA AppendStamp ==
  ASSUME TypeOK, NEW t \in Tasks, written' = Append(written, t)
  PROVE  /\ \A f : Exists(f) => Exists(f)'
         /\ Exists(Stamp[t])'
         /\ \A f, g : f # Stamp[t] /\ Newer(f, g)' => Newer(f, g)
         /\ \A f : ~Newer(f, Stamp[t])'
<1> DEFINE n == Len(written) + 1
<1>1. /\ DOMAIN written' = DOMAIN written \cup {n} /\ written'[n] = t
      /\ \A i \in DOMAIN written : written'[i] = written[i] /\ i < n
      /\ n \in Nat /\ DOMAIN written \subseteq Nat
  BY DEF TypeOK
<1>2. \A f : Exists(f) => Exists(f)'
  BY <1>1 DEF Exists
<1>3. Exists(Stamp[t])'
  BY <1>1 DEF Exists
<1>4. ASSUME NEW f, NEW g, f # Stamp[t], Newer(f, g)' PROVE Newer(f, g)
  <2>1. PICK i \in DOMAIN written' :
            Stamp[written'[i]] = f /\ \A j \in DOMAIN written' : Stamp[written'[j]] = g => j < i
    BY <1>4 DEF Newer
  <2>2. i \in DOMAIN written
    BY <1>1, <1>4, <2>1
  <2> QED
    BY <1>1, <2>1, <2>2 DEF Newer
<1>5. ASSUME NEW f, Newer(f, Stamp[t])' PROVE FALSE
  <2>1. PICK i \in DOMAIN written' :
            \A j \in DOMAIN written' : Stamp[written'[j]] = Stamp[t] => j < i
    BY <1>5 DEF Newer
  <2>2. n < i /\ i <= n
    BY <1>1, <2>1
  <2> QED
    BY <1>1, <2>2
<1> QED
  BY <1>2, <1>3, <1>4, <1>5

\* A task that is picked and not current shares its stamp with no complete one.
LEMMA PickedHasNoTwin ==
  ASSUME TypeOK, Bookkeeping, Settled, NEW t \in Tasks, Picks(t), ~StampCurrent(t)
  PROVE  \A s \in runq_complete : Stamp[s] # Stamp[t]
<1> SUFFICES ASSUME NEW s \in runq_complete, Stamp[s] = Stamp[t] PROVE FALSE
  OBVIOUS
<1>1. /\ s \in Tasks /\ Exists(Stamp[s])
      /\ \A d \in SameRecipe(s) : ~Newer(Stamp[d], Stamp[s])
  BY DEF TypeOK, Settled, UpToDate, OutOfDate
<1>2. \A d \in SameRecipe(s) : Exists(Stamp[d])
  BY DEF SameRecipe, Bookkeeping, Settled, UpToDate, OutOfDate
<1>3. {Stamp[d] : d \in SameRecipe(s)} = {Stamp[d] : d \in SameRecipe(t)}
  BY <1>1, StampsAssumption DEF SameRecipe
<1>4. ASSUME NEW d \in SameRecipe(t) PROVE Exists(Stamp[d]) /\ ~Newer(Stamp[d], Stamp[t])
  <2>1. PICK e \in SameRecipe(s) : Stamp[e] = Stamp[d]
    BY <1>3
  <2> QED
    BY <1>1, <1>2, <2>1
<1> QED
  BY <1>1, <1>4 DEF StampCurrent

\* A stamp that belongs to no complete task leaves a task up to date whose
\* dependencies are complete.
LEMMA StaysFresh ==
  ASSUME TypeOK, NEW t \in Tasks, \A s \in runq_complete : Stamp[s] # Stamp[t],
         written' = Append(written, t),
         NEW u \in Tasks, Depends[u] \subseteq runq_complete, ~OutOfDate(u)
  PROVE  ~OutOfDate(u)'
  BY AppendStamp DEF OutOfDate, SameRecipe

\* The steps that write a stamp, send a task or move an exit code.
LEMMA StampSteps ==
  ASSUME [Next]_vars
  PROVE  \/ \E w \in Workers, x \in ExitCode : ReadExit(w, x)
         \/ \E t \in Tasks : SkipExisting(t) \/ CompleteNoExec(t) \/ RunTask(t)
         \/ \E w \in Workers, t \in Tasks, ok \in BOOLEAN : ChildExit(w, t, ok)
         \/ \E t \in Tasks : OrphanEnds(t)
         \/ UNCHANGED <<written, exits, build_stamps, runq_complete>>
<1> DEFINE Quiet == UNCHANGED <<written, exits, build_stamps, runq_complete>>
<1> USE DEF queueVars, workerVars, envVars
<1>1. ASSUME Idle PROVE Quiet
  BY <1>1 DEF Idle, IdleRunning, IdleForced, IdleShutdown, EnterInterrupted, Enter, finish
<1>2. ASSUME NEW w \in Workers, BeginPipe(w) \/ EndPipe(w) \/ BeginTeardown(w) \/ EndTeardown(w)
      PROVE  Quiet
  BY <1>2 DEF BeginPipe, EndPipe, BeginTeardown, EndTeardown
<1>3. ASSUME EndRead \/ WaitForTasks \/ Finished PROVE Quiet
  BY <1>3 DEF EndRead, WaitForTasks, Finished
<1>4. ASSUME NEW t \in Tasks, SendFails(t) \/ SpawnFails(t) PROVE Quiet
  BY <1>4 DEF SendFails, SpawnFails
<1>5. ASSUME Wrap \/ MonitorEnd PROVE Quiet
  BY <1>5 DEF Wrap, Loop, Finish, BuildDone, TornDown, MonitorEnd, finish
<1>6. ASSUME NEW w \in Workers, Serve(w) \/ WorkerDies(w) PROVE Quiet
  BY <1>6 DEF Serve, ForkTask, FinishNow, Quit, WorkerDies, Gone
<1>7. ASSUME NEW s \in {"shutdown", "forceshutdown"}, Interrupt(s) PROVE Quiet
  BY <1>7 DEF Interrupt
<1>8. ASSUME DiskHalt \/ DiskStopTasks PROVE Quiet
  BY <1>8 DEF DiskHalt, DiskStopTasks, finish
<1>9. ASSUME UNCHANGED vars PROVE Quiet
  BY <1>9 DEF vars
<1> QED
  BY <1>1, <1>2, <1>3, <1>4, <1>5, <1>6, <1>7, <1>8, <1>9
     DEF Next, Thread, Read, Schedule, Outside, Terminated

LEMMA SettledStep ==
  ASSUME TypeOK, Bookkeeping, OnePlace, Slots, Settled, [Next]_vars
  PROVE  Settled'
<1>1. ASSUME NEW w \in Workers, NEW x \in ExitCode, ReadExit(w, x) PROVE Settled'
  <2>1. /\ x.task \in build_stamps /\ build_stamps' = build_stamps \ {x.task}
        /\ written' = written
        /\ \A v \in Workers : exits'[v] \subseteq exits[v]
        /\ \/ runq_complete' = runq_complete
           \/ x.ok /\ runq_complete' = runq_complete \cup {x.task}
    BY <1>1, ReadExitPlaces
       DEF ReadExit, task_complete, task_completeoutright, task_fail, envVars, TypeOK
  <2>2. \A t : OutOfDate(t)' = OutOfDate(t)
    BY <2>1 DEF OutOfDate, Exists, Newer
  <2>3. x.ok => ~OutOfDate(x.task)
    BY <1>1 DEF ReadExit, Settled
  <2>4. UpToDate'
    BY <2>1, <2>2, <2>3 DEF Settled, UpToDate
  <2> QED
    BY <2>1, <2>2, <2>4 DEF Settled, Slots
<1>2. ASSUME NEW t \in Tasks, SkipExisting(t) PROVE Settled'
  <2>1. /\ StampCurrent(t) /\ ~StampInUse(t) /\ runq_complete' = runq_complete \cup {t}
        /\ UNCHANGED <<build_stamps, exits, written>>
    BY <1>2 DEF SkipExisting, PassThrough, Picks, Eligible, workerVars, envVars
  <2>2. \A u : OutOfDate(u)' = OutOfDate(u)
    BY <2>1 DEF OutOfDate, Exists, Newer
  <2>3. ~OutOfDate(t)
    BY <2>1 DEF OutOfDate, StampCurrent
  <2>4. UpToDate'
    BY <2>1, <2>2, <2>3 DEF Settled, UpToDate
  <2> QED
    BY <2>1, <2>2, <2>4 DEF Settled, StampInUse
<1>3. ASSUME NEW t \in Tasks, CompleteNoExec(t) PROVE Settled'
  <2>1. /\ Picks(t) /\ ~StampCurrent(t) /\ ~StampInUse(t)
        /\ runq_complete' = runq_complete \cup {t} /\ written' = Append(written, t)
        /\ UNCHANGED <<build_stamps, exits>>
    BY <1>3 DEF CompleteNoExec, PassThrough, Picks, Eligible, workerVars
  <2>2. \A s \in runq_complete : Stamp[s] # Stamp[t]
    BY <2>1, PickedHasNoTwin
  <2>3. ~OutOfDate(t)'
    BY <2>1, AppendStamp DEF OutOfDate
  <2>4. \A u \in runq_complete : ~OutOfDate(u)'
    BY <2>1, <2>2, StaysFresh DEF Settled, UpToDate, Bookkeeping, TypeOK
  <2>5. ASSUME NEW w \in Workers, NEW x \in exits'[w], x.ok PROVE ~OutOfDate(x.task)'
    <3>1. x \in exits[w] /\ x.task \in Tasks
      BY <2>1, <2>5 DEF TypeOK, ExitCode
    <3>2. x.task \in build_stamps
      BY <3>1 DEF OnePlace, Exited
    <3>3. Depends[x.task] \subseteq runq_complete /\ ~OutOfDate(x.task)
      BY <2>5, <3>1, <3>2 DEF Bookkeeping, Settled
    <3> QED
      BY <2>1, <2>2, <3>1, <3>3, StaysFresh
  <2>6. UpToDate'
    BY <2>1, <2>3, <2>4 DEF UpToDate
  <2> QED
    BY <2>1, <2>5, <2>6 DEF Settled, StampInUse
<1>4. ASSUME NEW t \in Tasks, RunTask(t) PROVE Settled'
  <2>1. /\ Picks(t) /\ ~StampCurrent(t) /\ build_stamps' = build_stamps \cup {t}
        /\ UNCHANGED <<runq_complete, exits, written>>
    BY <1>4 DEF RunTask, envVars
  <2>2. \A s \in runq_complete : Stamp[s] # Stamp[t]
    BY <2>1, PickedHasNoTwin
  <2>3. \A u : OutOfDate(u)' = OutOfDate(u)
    BY <2>1 DEF OutOfDate, Exists, Newer
  <2> QED
    BY <2>1, <2>2, <2>3 DEF Settled, UpToDate
<1>5. ASSUME NEW w \in Workers, NEW t \in Tasks, NEW ok \in BOOLEAN, ChildExit(w, t, ok)
      PROVE  Settled'
  <2>1. /\ t \in children[w] /\ written' = (IF ok THEN Append(written, t) ELSE written)
        /\ exits'[w] = exits[w] \cup {[task |-> t, ok |-> ok]}
        /\ \A v \in Workers : v # w => exits'[v] = exits[v]
        /\ UNCHANGED <<build_stamps, runq_complete>>
    BY <1>5 DEF ChildExit, TypeOK, queueVars
  <2>2. t \in build_stamps
    BY <2>1 DEF OnePlace
  <2>3. \A s \in runq_complete : Stamp[s] # Stamp[t]
    BY <2>2 DEF Settled
  <2>4. ASSUME NEW u \in Tasks, Depends[u] \subseteq runq_complete, ~OutOfDate(u)
        PROVE  ~OutOfDate(u)'
    <3>1. CASE ok
      BY <2>1, <2>3, <2>4, <3>1, StaysFresh
    <3>2. CASE ~ok
      BY <2>1, <2>4, <3>2 DEF OutOfDate, Exists, Newer
    <3> QED
      BY <3>1, <3>2
  <2>5. ok => ~OutOfDate(t)'
    BY <2>1, AppendStamp DEF OutOfDate
  <2>6. ASSUME NEW v \in Workers, NEW x \in exits'[v], x.ok PROVE ~OutOfDate(x.task)'
    <3>1. CASE x \in exits[v]
      <4>1. x.task \in build_stamps /\ x.task \in Tasks
        BY <3>1 DEF OnePlace, Exited, TypeOK, ExitCode
      <4> QED
        BY <2>4, <2>6, <3>1, <4>1 DEF Bookkeeping, Settled
    <3>2. CASE x = [task |-> t, ok |-> ok]
      BY <2>5, <2>6, <3>2
    <3> QED
      BY <2>1, <3>1, <3>2
  <2>7. UpToDate'
    BY <2>1, <2>4 DEF Settled, UpToDate, Bookkeeping, TypeOK
  <2> QED
    BY <2>1, <2>6, <2>7 DEF Settled
<1>6. ASSUME UNCHANGED <<written, exits, build_stamps, runq_complete>> PROVE Settled'
  BY <1>6 DEF Settled, UpToDate, OutOfDate, Exists, Newer
<1>7. ASSUME NEW t \in Tasks, OrphanEnds(t) PROVE Settled'
  <2>1. /\ t \in orphans /\ UNCHANGED <<exits, build_stamps, runq_complete>>
        /\ written' = written \/ written' = Append(written, t)
    BY <1>7 DEF OrphanEnds, queueVars
  <2>2. \A s \in runq_complete : Stamp[s] # Stamp[t]
    BY <2>1 DEF OnePlace, Lost, Settled
  <2>3. CASE written' = written
    BY <1>6, <2>1, <2>3
  <2>4. CASE written' = Append(written, t)
    <3>1. \A u \in Tasks : Depends[u] \subseteq runq_complete /\ ~OutOfDate(u) => ~OutOfDate(u)'
      BY <2>2, <2>4, StaysFresh
    <3>2. UpToDate'
      BY <2>1, <3>1 DEF Settled, UpToDate, Bookkeeping, TypeOK
    <3>3. ASSUME NEW v \in Workers, NEW x \in exits'[v], x.ok PROVE ~OutOfDate(x.task)'
      <4>1. x \in exits[v] /\ x.task \in build_stamps /\ x.task \in Tasks
        BY <2>1 DEF OnePlace, Exited, TypeOK, ExitCode
      <4> QED
        BY <3>1, <3>3, <4>1 DEF Bookkeeping, Settled
    <3> QED
      BY <2>1, <3>2, <3>3 DEF Settled
  <2> QED
    BY <2>1, <2>3, <2>4
<1> QED
  BY <1>1, <1>2, <1>3, <1>4, <1>5, <1>6, <1>7, StampSteps

-----------------------------------------------------------------------------
(* Counting: stats.active, BB_NUMBER_THREADS and number_threads             *)

LEMMA FiniteStamps == TypeOK => IsFiniteSet(build_stamps) /\ Cardinality(build_stamps) \in Nat
  BY TasksAssumption, FS_Subset, FS_CardinalityType DEF TypeOK

LEMMA CountingStep ==
  ASSUME TypeOK, Bookkeeping, OnePlace, Counting, [Next]_vars
  PROVE  Counting'
<1> USE FiniteStamps, NumbersAssumption
<1>1. ASSUME NEW w \in Workers, NEW x \in ExitCode, ReadExit(w, x) PROVE Counting'
  <2>1. /\ x.task \in build_stamps /\ build_stamps' = build_stamps \ {x.task}
        /\ active' = active - 1 /\ pc' = pc /\ state' \in {state, "CleanUp"}
    BY <1>1, ReadExitQueue
  <2>2. Cardinality(build_stamps') = Cardinality(build_stamps) - 1
    BY <2>1, FS_RemoveElement
  <2> QED
    BY <2>1, <2>2 DEF Counting, TypeOK
<1>2. ASSUME NEW t \in Tasks, SkipExisting(t) \/ CompleteNoExec(t) PROVE Counting'
  BY <1>2, PassThroughQueue DEF PassThrough, Counting
<1>3. ASSUME NEW t \in Tasks, SpawnFails(t) PROVE Counting'
  BY <1>3 DEF SpawnFails, Counting
<1>4. ASSUME NEW t \in Tasks, RunTask(t) PROVE Counting'
  <2>1. /\ pc = "sched" /\ active < NumberTasks /\ t \notin build_stamps
        /\ build_stamps' = build_stamps \cup {t} /\ active' = active + 1 /\ UNCHANGED state
        /\ pc' \in {"after", "wait"}
    BY <1>4 DEF RunTask, Picks, can_start_task, Eligible, Bookkeeping
  <2>2. Cardinality(build_stamps') = Cardinality(build_stamps) + 1
    BY <2>1, FS_AddElement
  <2> QED
    BY <2>1, <2>2 DEF Counting, TypeOK
<1>5. ASSUME UNCHANGED queueVars, state' = "Running" => state = "Running",
             pc' \in {"read", "sched"} => state = "Running" \/ pc \in {"read", "sched"}
      PROVE  Counting'
  BY <1>5 DEF Counting, queueVars
<1> QED
  BY <1>1, <1>2, <1>3, <1>4, <1>5, QueueSteps

\* Waiting tasks of a name are unfinished tasks of that name.
LEMMA SlotsStep ==
  ASSUME TypeOK, Bookkeeping, OnePlace, Slots, [Next]_vars
  PROVE  Slots'
<1> DEFINE Within(n) == NumberThreads[n] > 0 => Cardinality(Named(n)) <= NumberThreads[n]
<1>1. \A n : IsFiniteSet(Named(n)) /\ Cardinality(Named(n)) \in Nat
  BY FiniteStamps, FS_Subset, FS_CardinalityType DEF Named
<1>2. ASSUME NEW w \in Workers, NEW x \in ExitCode, ReadExit(w, x) PROVE Slots'
  <2>1. build_stamps' \subseteq build_stamps
    BY <1>2, ReadExitQueue
  <2>2. ASSUME NEW n PROVE Named(n)' \subseteq Named(n)
    BY <2>1 DEF Named
  <2>3. ASSUME NEW n PROVE /\ Cardinality(Named(n)') <= Cardinality(Named(n))
                           /\ Cardinality(Named(n)') \in Nat
    BY <1>1, <2>2, FS_Subset, FS_CardinalityType
  <2>4. \A t \in build_stamps' :
           NumberThreads[TaskName[t]] > 0 =>
               Cardinality(Named(TaskName[t])') <= NumberThreads[TaskName[t]]
    <3> TAKE t \in build_stamps'
    <3> HAVE NumberThreads[TaskName[t]] > 0
    <3>1. t \in Tasks /\ Cardinality(Named(TaskName[t])) <= NumberThreads[TaskName[t]]
      BY <2>1 DEF Slots, TypeOK
    <3> QED
      BY <1>1, <2>3, <3>1, NumbersAssumption
  <2> QED
    BY <2>1, <2>4 DEF Slots
<1>3. ASSUME NEW t \in Tasks, RunTask(t) PROVE Slots'
  <2> DEFINE n == TaskName[t]
  <2>1. /\ build_stamps' = build_stamps \cup {t} /\ t \notin build_stamps
        /\ ~AtThreadLimit(t) /\ ~StampInUse(t)
    BY <1>3 DEF RunTask, Picks, Eligible, Bookkeeping
  <2>2. \A s, u \in build_stamps' : s # u => Stamp[s] # Stamp[u]
    BY <2>1 DEF Slots, StampInUse
  <2>3. /\ Named(n)' = Named(n) \cup {t} /\ t \notin Named(n)
        /\ \A m : m # n => Named(m)' = Named(m)
    BY <2>1 DEF Named
  <2>4. Cardinality(Named(n)') = Cardinality(Named(n)) + 1
    BY <1>1, <2>3, FS_AddElement
  <2>5. Cardinality(Named(n)) <= Cardinality(Unfinished(n)) /\ Cardinality(Unfinished(n)) \in Nat
    <3>1. Named(n) \subseteq Unfinished(n) /\ Unfinished(n) \subseteq Tasks
      BY DEF Named, Unfinished, Bookkeeping, TypeOK
    <3> QED
      BY <3>1, TasksAssumption, FS_Subset, FS_CardinalityType
  <2>6. NumberThreads[n] > 0 => Cardinality(Named(n)') <= NumberThreads[n]
    BY <1>1, <2>1, <2>4, <2>5, NumbersAssumption DEF AtThreadLimit
  <2>7. \A u \in build_stamps' :
           NumberThreads[TaskName[u]] > 0 =>
               Cardinality(Named(TaskName[u])') <= NumberThreads[TaskName[u]]
    BY <2>1, <2>3, <2>6 DEF Slots
  <2> QED
    BY <2>2, <2>7 DEF Slots
<1>4. CASE UNCHANGED build_stamps
  BY <1>4 DEF Slots, Named
<1> QED
  BY <1>2, <1>3, <1>4, QueueSteps
     DEF SkipExisting, CompleteNoExec, SpawnFails, PassThrough, queueVars

-----------------------------------------------------------------------------
(* The inductive invariant and what follows from it                         *)

LEMMA InitIInv == Init => IInv
<1> SUFFICES ASSUME Init PROVE IInv
  OBVIOUS
<1>1. Bookkeeping /\ Settled
  BY DEF Init, Bookkeeping, Settled, UpToDate
<1>2. OnePlace
  BY DEF Init, OnePlace, Commands, Commanded, Exited
<1>3. Counting
  BY FS_EmptySet, NumbersAssumption DEF Init, Counting
<1>4. Slots
  BY DEF Init, Slots
<1> QED
  BY <1>1, <1>2, <1>3, <1>4, InitType DEF IInv

LEMMA StepIInv == IInv /\ [Next]_vars => IInv'
  BY TypeStep, BookkeepingStep, PlacesStep, CountingStep, SlotsStep, SettledStep DEF IInv

\* The bookkeeping of the run queue and the places of its tasks are consistent
\* in every reachable state.
THEOREM Invariant == Spec => []IInv
<1>1. Init => IInv
  BY InitIInv
<1>2. IInv /\ [Next]_vars => IInv'
  BY StepIInv
<1> QED
  BY <1>1, <1>2, PTL DEF Spec

LEMMA ProcessesWaitedFor == IInv => Processes \subseteq build_stamps
<1> SUFFICES ASSUME IInv, NEW t \in Processes PROVE t \in build_stamps
  OBVIOUS
<1> QED
  BY DEF IInv, TypeOK, OnePlace, Lost, Processes

\* stats.active counts the tasks handed out and not reaped.
THEOREM AccountingHolds == Spec => []Accounting
<1>1. IInv => Accounting
  BY DEF IInv, Counting, Accounting
<1> QED
  BY <1>1, Invariant, PTL

\* There are never more task processes than BB_NUMBER_THREADS.
THEOREM ConcurrencyBounded == Spec => []ConcurrencyLimit
<1>1. IInv => ConcurrencyLimit
  <2> SUFFICES ASSUME IInv PROVE ConcurrencyLimit
    OBVIOUS
  <2>1. IsFiniteSet(build_stamps) /\ Cardinality(build_stamps) \in Nat
    BY FiniteStamps DEF IInv
  <2>2. Cardinality(Processes) \in Nat /\ Cardinality(Processes) <= Cardinality(build_stamps)
    BY <2>1, ProcessesWaitedFor, FS_Subset, FS_CardinalityType
  <2> QED
    BY <2>1, <2>2, NumbersAssumption DEF IInv, Counting, ConcurrencyLimit
<1> QED
  BY <1>1, Invariant, PTL

\* The number_threads flag bounds the processes of a task name.
THEOREM ThreadsBounded == Spec => []ThreadLimit
<1>1. IInv => ThreadLimit
  <2> SUFFICES ASSUME IInv, NEW t \in Processes, NumberThreads[TaskName[t]] > 0
               PROVE  Cardinality({s \in Processes : TaskName[s] = TaskName[t]})
                        <= NumberThreads[TaskName[t]]
    BY DEF ThreadLimit
  <2> DEFINE P == {s \in Processes : TaskName[s] = TaskName[t]}
  <2>1. t \in build_stamps /\ t \in Tasks
    BY ProcessesWaitedFor DEF IInv, TypeOK
  <2>2. IsFiniteSet(Named(TaskName[t])) /\ Cardinality(Named(TaskName[t])) \in Nat
    BY FiniteStamps, FS_Subset, FS_CardinalityType DEF Named, IInv
  <2>3. P \subseteq Named(TaskName[t])
    BY ProcessesWaitedFor DEF Named
  <2>4. Cardinality(P) \in Nat /\ Cardinality(P) <= Cardinality(Named(TaskName[t]))
    BY <2>2, <2>3, FS_Subset, FS_CardinalityType
  <2>5. Cardinality(Named(TaskName[t])) <= NumberThreads[TaskName[t]]
    BY <2>1 DEF IInv, Slots
  <2> QED
    BY <2>1, <2>2, <2>4, <2>5, NumbersAssumption
<1> QED
  BY <1>1, Invariant, PTL

\* Two tasks that share a stamp file never run at the same time.
THEOREM StampsExclusive == Spec => []StampExclusion
<1>1. IInv => StampExclusion
  BY ProcessesWaitedFor DEF IInv, Slots, StampExclusion
<1> QED
  BY <1>1, Invariant, PTL

\* No completed task is ever outdated by a dependency in its recipe.
THEOREM StaysUpToDate == Spec => []UpToDate
<1>1. IInv => UpToDate
  BY DEF IInv, Settled
<1> QED
  BY <1>1, Invariant, PTL

-----------------------------------------------------------------------------
(* The run queue implements the task graph                                  *)

LEMMA GraphInit == Init => Graph!Init
  BY DEF Init, Graph!Init

LEMMA GraphStep == IInv /\ [Next]_vars => [Graph!Next]_Graph!vars
<1> SUFFICES ASSUME IInv, [Next]_vars PROVE [Graph!Next]_Graph!vars
  OBVIOUS
<1> USE DEF IInv
<1>1. ASSUME NEW w \in Workers, NEW x \in ExitCode, ReadExit(w, x)
      PROVE  Graph!Complete(x.task) \/ Graph!Fail(x.task)
  BY <1>1, ReadExitQueue DEF Bookkeeping, Graph!Complete, Graph!Fail
<1>2. ASSUME NEW t \in Tasks, SkipExisting(t) \/ CompleteNoExec(t)
      PROVE  Graph!Skip(t)
  BY <1>2, PassThroughQueue DEF PassThrough, Graph!Skip
<1>3. ASSUME NEW t \in Tasks, RunTask(t)
      PROVE  Graph!Start(t)
  BY <1>3 DEF RunTask, Picks, Eligible, Bookkeeping, Graph!Start
<1>4. ASSUME NEW t \in Tasks, SpawnFails(t) PROVE UNCHANGED Graph!vars
  BY <1>4 DEF SpawnFails, Graph!vars
<1>5. CASE UNCHANGED queueVars
  BY <1>5 DEF queueVars, Graph!vars
<1>6. \A x \in ExitCode : x.task \in Tasks
  BY DEF ExitCode
<1> QED
  BY <1>1, <1>2, <1>3, <1>4, <1>5, <1>6, QueueSteps DEF Graph!Next

\* The run queue, its workers, the user and the disk monitor together
\* implement the task graph.
THEOREM ImplementsGraph == Spec => GraphSpec
<1>1. Init => Graph!Init
  BY GraphInit
<1>2. IInv /\ [Next]_vars => [Graph!Next]_Graph!vars
  BY GraphStep
<1>3. Spec => []IInv
  BY Invariant
<1> QED
  BY <1>1, <1>2, <1>3, PTL DEF Spec, GraphSpec, Graph!Spec

-----------------------------------------------------------------------------
(* The teardown                                                             *)

\* What leaves the processes alone, or stops one, keeps them gathered.
LEMMA TeardownGathers ==
  ASSUME TypeOK, Gathered, NEW w \in Workers, BeginTeardown(w) \/ EndTeardown(w)
  PROVE  Gathered'
<1>1. CASE BeginTeardown(w)
  <2>1. \A v \in Workers : worker[v] # "up" => inq'[v] = inq[v]
    BY <1>1 DEF BeginTeardown, Sent, TypeOK
  <2> QED
    BY <1>1, <2>1, WorkersAssumption DEF BeginTeardown, Gathered, Started, Dead
<1>2. CASE EndTeardown(w)
  BY <1>2 DEF EndTeardown, Gathered, Started, Dead, workerVars
<1> QED
  BY <1>1, <1>2

\* Only TornDown and the end of a drain end the build.
LEMMA ThreadGathers == TypeOK /\ Gathered /\ Thread => Gathered'
<1> SUFFICES ASSUME TypeOK, Gathered, Thread PROVE Gathered'
  OBVIOUS
<1>1. ASSUME NEW W \in SUBSET Workers, NEW m, inq' = Sent(W, m), UNCHANGED <<worker, children>>
      PROVE  \A v \in Workers : worker'[v] # "up" => children'[v] = {} /\ inq'[v] = <<>>
  BY <1>1 DEF Sent, Gathered, TypeOK
<1>2. Started \subseteq Workers
  BY DEF Started
<1>3. CASE Idle
  <2>1. CASE IdleForced
    BY <1>1, <1>2, <2>1 DEF IdleForced, finish_now, Gathered
  <2>2. CASE IdleRunning \/ IdleShutdown \/ EnterInterrupted \/ Enter
    BY <2>2 DEF IdleRunning, IdleShutdown, EnterInterrupted, Enter, finish, Gathered,
                Started, Dead, workerVars
  <2> QED
    BY <1>3, <2>1, <2>2 DEF Idle
<1>4. ASSUME NEW w \in Workers, Read(w) PROVE Gathered'
  <2>1. CASE BeginPipe(w)
    <3>1. pc' = pc /\ pc \in ReadPoints
      BY <2>1 DEF BeginPipe
    <3>2. \A v \in Workers : worker'[v] # "up" => children'[v] = {} /\ inq'[v] = <<>>
      BY <1>1, <1>2, <2>1 DEF BeginPipe, finish_now, Gathered
    <3> QED
      BY <3>1, <3>2 DEF Gathered, ReadPoints
  <2>2. CASE EndPipe(w)
    BY <2>2 DEF EndPipe, Gathered, ReadPoints, workerVars
  <2>3. ASSUME NEW x \in ExitCode, ReadExit(w, x) PROVE Gathered'
    BY <2>3 DEF ReadExit, Gathered, Started, Dead
  <2> QED
    BY <1>4, <2>1, <2>2, <2>3 DEF Read
<1>5. CASE EndRead
  <2>1. UNCHANGED workerVars /\ pc \in ReadPoints
    BY <1>5 DEF EndRead
  <2>2. /\ pc' = "teardown" => toread' = Started
        /\ pc' = "ended" => Started = {}
    <3>1. CASE pc = "drain"
      BY <1>5, <3>1 DEF EndRead
    <3>2. CASE pc \in {"read", "wait", "stop", "diskstop"}
      BY <1>5, <3>2 DEF EndRead
    <3> QED
      BY <2>1, <3>1, <3>2 DEF ReadPoints
  <2> QED
    BY <2>1, <2>2 DEF Gathered, Started, Dead, workerVars
<1>6. ASSUME NEW t \in Tasks, Schedule(t) PROVE Gathered'
  <2>1. CASE RunTask(t)
    <3>1. WorkerOf[t] \in Workers /\ pc' \in {"after", "wait"} /\ children' = children
      BY <2>1, WorkersAssumption DEF RunTask
    <3>2. \A v \in Workers : worker'[v] # "up" => worker'[v] = worker[v] /\ inq'[v] = inq[v]
      BY <2>1, <3>1 DEF RunTask, TypeOK
    <3> QED
      BY <3>1, <3>2 DEF Gathered
  <2>2. CASE SkipExisting(t) \/ CompleteNoExec(t) \/ SpawnFails(t) \/ SendFails(t)
    BY <2>2 DEF SkipExisting, CompleteNoExec, SpawnFails, SendFails, Gathered, Started, Dead,
                workerVars
  <2> QED
    BY <1>6, <2>1, <2>2 DEF Schedule
<1>7. CASE WaitForTasks \/ Finished \/ Loop \/ Finish \/ BuildDone \/ MonitorEnd
  BY <1>7 DEF WaitForTasks, Finished, Loop, Finish, finish, BuildDone, MonitorEnd, Gathered,
              Started, Dead, workerVars
<1>8. CASE TornDown
  <2>1. \A w \in Workers : worker[w] # "up"
    BY <1>8, WorkersAssumption DEF TornDown, Gathered, Started, Dead, TypeOK
  <2>2. UNCHANGED <<children, inq>> /\ pc' # "teardown"
    BY <1>8 DEF TornDown
  <2>3. \A w \in Workers : worker'[w] = "off"
    BY <1>8, <2>1 DEF TornDown, Dead, TypeOK
  <2>4. Started' = {}
    BY <2>3 DEF Started
  <2> QED
    BY <2>1, <2>2, <2>3, <2>4 DEF Gathered
<1> QED
  BY <1>3, <1>4, <1>5, <1>6, <1>7, <1>8, TeardownGathers DEF Thread, Wrap

\* The workers come up only when a task is sent, and the monitor starts nothing.
LEMMA GatheredStep == TypeOK /\ Gathered /\ [Next]_vars => Gathered'
<1> SUFFICES ASSUME TypeOK, Gathered, [Next]_vars PROVE Gathered'
  OBVIOUS
<1>1. ASSUME NEW w \in Workers, ForkTask(w) \/ FinishNow(w) PROVE Gathered'
  <2>1. worker[w] = "up" /\ UNCHANGED <<worker, threadVars>>
    BY <1>1 DEF ForkTask, FinishNow, Receives
  <2>2. \A v \in Workers \ {w} : inq'[v] = inq[v] /\ children'[v] = children[v]
    BY <1>1 DEF ForkTask, FinishNow, Rest, TypeOK
  <2> QED
    BY <2>1, <2>2 DEF Gathered, Started, Dead, threadVars
<1>2. ASSUME NEW w \in Workers, worker[w] = "up", Gone(w) PROVE Gathered'
  <2>1. /\ worker'[w] = "exited" /\ inq'[w] = <<>> /\ children'[w] = {} /\ UNCHANGED threadVars
        /\ \A v \in Workers \ {w} :
              worker'[v] = worker[v] /\ inq'[v] = inq[v] /\ children'[v] = children[v]
    BY <1>2 DEF Gone, TypeOK
  <2> QED
    BY <1>2, <2>1 DEF Gathered, Started, Dead, threadVars
<1>3. ASSUME NEW w \in Workers, NEW t \in Tasks, NEW ok \in BOOLEAN, ChildExit(w, t, ok)
      PROVE  Gathered'
  <2>1. worker[w] = "up" /\ UNCHANGED <<worker, inq, threadVars>>
        /\ \A v \in Workers \ {w} : children'[v] = children[v]
    BY <1>3 DEF ChildExit, TypeOK
  <2> QED
    BY <2>1 DEF Gathered, Started, Dead, threadVars
<1>4. ASSUME NEW s, Interrupt(s) PROVE Gathered'
  BY <1>4 DEF Interrupt, Gathered, Started, Dead, workerVars, threadVars
<1>5. CASE DiskHalt
  <2>1. \A v \in Workers : worker'[v] # "up" => children'[v] = {} /\ inq'[v] = <<>>
    BY <1>5 DEF DiskHalt, finish_now, Sent, Gathered, TypeOK
  <2> QED
    BY <1>5, <2>1 DEF DiskHalt, Gathered
<1>6. CASE DiskStopTasks
  BY <1>6 DEF DiskStopTasks, finish, Gathered, workerVars
<1>7. CASE UNCHANGED vars
  BY <1>7 DEF vars, Gathered, Started, Dead
<1>8. CASE Terminated
  BY <1>7, <1>8 DEF Terminated
<1>9. ASSUME NEW t \in Tasks, OrphanEnds(t) PROVE Gathered'
  BY <1>9 DEF OrphanEnds, Gathered, Started, Dead, threadVars
<1> QED
  BY <1>1, <1>2, <1>3, <1>4, <1>5, <1>6, <1>7, <1>8, <1>9, ThreadGathers
     DEF Next, Serve, Quit, Receives, Outside, WorkerDies

-----------------------------------------------------------------------------
(* A build that no task is cut off in ends after all its tasks              *)

\* The cooker's state and the monitor's actions change from outside only.
LEMMA InsideSteps ==
  ASSUME [Next]_vars
  PROVE  Outside \/ UNCHANGED <<cooker, checked>>
<1> DEFINE Same == UNCHANGED <<cooker, checked>>
<1>1. ASSUME Idle \/ EndRead \/ WaitForTasks \/ Finished \/ Wrap \/ MonitorEnd PROVE Same
  BY <1>1 DEF Idle, IdleRunning, IdleForced, IdleShutdown, EnterInterrupted, Enter, EndRead,
              WaitForTasks, Finished, Wrap, Loop, Finish, BuildDone, TornDown, MonitorEnd, envVars
<1>2. ASSUME NEW w \in Workers, Read(w) \/ BeginTeardown(w) \/ EndTeardown(w) PROVE Same
  BY <1>2 DEF Read, BeginPipe, EndPipe, ReadExit, BeginTeardown, EndTeardown, envVars
<1>3. ASSUME NEW t \in Tasks, Schedule(t) \/ OrphanEnds(t) PROVE Same
  BY <1>3 DEF Schedule, SkipExisting, CompleteNoExec, SpawnFails, RunTask, SendFails,
              OrphanEnds, envVars
<1>4. ASSUME NEW w \in Workers, Serve(w) PROVE Same
  BY <1>4 DEF Serve, ForkTask, FinishNow, Quit, Gone, envVars
<1>5. ASSUME NEW w \in Workers, NEW t \in Tasks, NEW ok \in BOOLEAN, ChildExit(w, t, ok)
      PROVE  Same
  BY <1>5 DEF ChildExit
<1>6. ASSUME UNCHANGED vars PROVE Same
  BY <1>6 DEF vars
<1> QED
  BY <1>1, <1>2, <1>3, <1>4, <1>5, <1>6 DEF Next, Thread, Terminated

\* A forced shutdown and a HALT are never taken back.
LEMMA StaysHurt ==
  ASSUME [Next]_vars, Unhurt'
  PROVE  /\ Unhurt /\ ~DiskHalt
         /\ \A s \in {"shutdown", "forceshutdown"} : Interrupt(s) => s = "shutdown"
         /\ \A w \in Workers : ~WorkerDies(w)
         /\ \A t \in Tasks : ~SpawnFails(t)
<1>1. ASSUME NEW s \in {"shutdown", "forceshutdown"}, Interrupt(s)
      PROVE  s = "shutdown" /\ Unhurt
  BY <1>1 DEF Interrupt, Unhurt
<1>2. ASSUME DiskHalt PROVE FALSE
  BY <1>2 DEF DiskHalt, Monitor, Unhurt
<1>3. ASSUME NEW w \in Workers, WorkerDies(w) PROVE FALSE
  BY <1>3 DEF WorkerDies, Unhurt
<1>4. ASSUME NEW t \in Tasks, SpawnFails(t) PROVE FALSE
  BY <1>4 DEF SpawnFails, Unhurt
<1>5. ASSUME DiskStopTasks PROVE Unhurt
  BY <1>5 DEF DiskStopTasks, Monitor, Unhurt
<1>6. ASSUME UNCHANGED <<cooker, checked>> PROVE Unhurt
  BY <1>6 DEF Unhurt
<1> QED
  BY <1>1, <1>2, <1>3, <1>4, <1>5, <1>6, InsideSteps DEF Outside

LEMMA NoneActive == TypeOK /\ Cardinality(build_stamps) <= 0 => build_stamps = {}
  BY FiniteStamps, FS_EmptySet

\* finish gives a final state when no task is left, and waits for one otherwise.
LEMMA FinishSteady ==
  ASSUME TypeOK, Steady, pc \notin {"teardown", "ended"},
         NEW waitpoint \in {"stop", "drain", "diskstop"},
         NEW donepoint \in {"enter", "after", "monitor"}, finish(waitpoint, donepoint)
  PROVE  Steady'
<1>1. UNCHANGED <<build_stamps, active, orphans, worker, inq, raised>>
  BY DEF finish, queueVars, workerVars
<1>2. CASE active > 0
  <2>1. build_stamps # {}
    BY <1>2, FS_EmptySet DEF Steady
  <2>2. Started # {}
    BY <2>1, WorkersAssumption DEF Started, Steady, TypeOK
  <2>3. state' = "CleanUp" /\ pc' = waitpoint
    BY <1>2 DEF finish
  <2> QED
    BY <1>1, <2>2, <2>3 DEF Steady, Dead, Unasked, Started
<1>3. CASE ~(active > 0)
  <2>1. build_stamps = {}
    BY <1>3, NoneActive DEF Steady, TypeOK
  <2>2. pc' = donepoint
    BY <1>3 DEF finish
  <2> QED
    BY <1>1, <2>1, <2>2 DEF Steady, Dead, Unasked, Started, ReadPoints
<1> QED
  BY <1>2, <1>3

\* An exit code is only there while a task is waited for.
LEMMA ReadExitSteady ==
  ASSUME IInv, Steady, NEW w \in Workers, NEW x \in ExitCode, ReadExit(w, x)
  PROVE  Steady'
<1>0. TypeOK /\ Bookkeeping /\ OnePlace
  BY DEF IInv
<1>1. /\ x.task \in build_stamps /\ build_stamps' = build_stamps \ {x.task}
      /\ active' = active - 1 /\ pc' = pc /\ state' \in {state, "CleanUp"}
  BY <1>0, ReadExitQueue
<1>2. state \notin {"Failed", "Complete"} /\ pc \notin {"teardown", "ended"}
  BY <1>1 DEF Steady
<1>3. Cardinality(build_stamps') = Cardinality(build_stamps) - 1
  BY <1>0, <1>1, FiniteStamps, FS_RemoveElement
<1>4. UNCHANGED <<worker, inq, raised, orphans>>
  BY DEF ReadExit
<1> QED
  BY <1>1, <1>2, <1>3, <1>4 DEF Steady, Dead, Unasked, Started

\* A task is sent to a worker that is there.
LEMMA ScheduleSteady ==
  ASSUME IInv, Steady, NEW t \in Tasks,
         SkipExisting(t) \/ CompleteNoExec(t) \/ RunTask(t)
  PROVE  Steady'
<1>0. TypeOK /\ Bookkeeping
  BY DEF IInv
<1>1. pc = "sched" /\ state' = state /\ state \notin {"Failed", "Complete"}
  BY DEF SkipExisting, CompleteNoExec, RunTask, Picks, Steady
<1>2. CASE SkipExisting(t) \/ CompleteNoExec(t)
  <2>1. PassThrough(t) /\ pc' = "after" /\ UNCHANGED <<workerVars, raised>>
    BY <1>2, PassThroughQueue, <1>0 DEF SkipExisting, CompleteNoExec
  <2> QED
    BY <1>1, <2>1 DEF Steady, Dead, Unasked, Started, PassThrough, workerVars
<1>3. CASE RunTask(t)
  <2>1. /\ t \notin build_stamps /\ build_stamps' = build_stamps \cup {t} /\ active' = active + 1
        /\ pc' \in {"after", "wait"} /\ UNCHANGED <<raised, orphans>>
    BY <1>0, <1>1, <1>3 DEF RunTask, Picks, Eligible, Bookkeeping
  <2>2. Cardinality(build_stamps') = Cardinality(build_stamps) + 1
    BY <1>0, <2>1, FiniteStamps, FS_AddElement
  <2>3. WorkerOf[t] \in Workers /\ \A s \in build_stamps : WorkerOf[s] \in Workers
    BY <1>0, WorkersAssumption DEF TypeOK
  <2>4. /\ worker'[WorkerOf[t]] = "up"
        /\ \A v \in Workers : v # WorkerOf[t] => worker'[v] = worker[v] /\ inq'[v] = inq[v]
    BY <1>0, <1>3, <2>3 DEF RunTask, TypeOK
  <2>5. Unasked(WorkerOf[t])'
    BY <1>0, <1>1, <1>3, <2>3 DEF RunTask, TypeOK, Steady, Unasked
  <2> QED
    BY <1>1, <2>1, <2>2, <2>3, <2>4, <2>5 DEF Steady, Dead, Unasked
<1> QED
  BY <1>2, <1>3

\* The idle thread's other steps: Finished and finish give the state, and only
\* BuildDone begins the teardown.
LEMMA ThreadSteady ==
  ASSUME IInv, Unhurt, Steady, Thread, UNCHANGED queueVars,
         \A w \in Workers, x \in ExitCode : ~ReadExit(w, x),
         \A t \in Tasks : ~SpawnFails(t)
  PROVE  Steady'
<1> USE DEF queueVars, workerVars
<1>0. TypeOK
  BY DEF IInv
<1> DEFINE Still == UNCHANGED <<state, worker, inq, orphans, raised>>
<1>1. ASSUME Still, pc' \notin {"teardown", "ended", "drain"}, pc \notin {"teardown", "ended"},
             state \in {"Failed", "Complete"} => pc' \notin ReadPoints \cup {"sched"}
      PROVE  Steady'
  BY <1>1 DEF Steady, Dead, Unasked, Started
<1>2. ASSUME Idle PROVE Steady'
  <2>1. CASE IdleShutdown
    BY <1>0, <2>1, FinishSteady DEF IdleShutdown
  <2>2. CASE IdleRunning
    BY <1>1, <2>2 DEF IdleRunning, ReadPoints
  <2>3. CASE Enter
    BY <1>1, <2>3 DEF Enter, ReadPoints
  <2> QED
    BY <1>2, <2>1, <2>2, <2>3 DEF Idle, IdleForced, EnterInterrupted, Unhurt
<1>3. ASSUME NEW w \in Workers, Read(w) PROVE Steady'
  <2>1. pc \in ReadPoints /\ pc \notin {"teardown", "ended"}
    BY <1>3 DEF Read, BeginPipe, EndPipe, ReadPoints
  <2>2. UNCHANGED <<pc, state, worker, inq, orphans, raised>>
    BY <1>3, <2>1 DEF Read, BeginPipe, EndPipe, Steady, Started
  <2> QED
    BY <2>1, <2>2 DEF Steady, Dead, Unasked, Started
<1>4. ASSUME EndRead PROVE Steady'
  <2>1. state \notin {"Failed", "Complete"} /\ pc \notin {"teardown", "ended"}
    BY <1>4 DEF EndRead, ReadPoints, Steady
  <2>2. pc' \notin {"teardown", "ended", "drain"}
    <3>1. CASE pc = "drain"
      BY <1>4, <2>1, <3>1 DEF EndRead, Steady
    <3>2. CASE pc \in {"read", "wait", "stop", "diskstop"}
      BY <1>4, <3>2 DEF EndRead
    <3> QED
      BY <1>4, <3>1, <3>2 DEF EndRead, ReadPoints
  <2> QED
    BY <1>1, <1>4, <2>1, <2>2 DEF EndRead
<1>5. ASSUME NEW t \in Tasks, SendFails(t) PROVE FALSE
  BY <1>5, WorkersAssumption DEF SendFails, Picks, Steady
<1>6. ASSUME WaitForTasks \/ Loop \/ MonitorEnd PROVE Steady'
  <2>1. CASE WaitForTasks
    BY <1>1, <2>1 DEF WaitForTasks, Steady
  <2>2. CASE Loop \/ MonitorEnd
    BY <1>1, <2>2 DEF Loop, MonitorEnd, ReadPoints
  <2> QED
    BY <1>6, <2>1, <2>2
<1>7. ASSUME Finished PROVE Steady'
  <2>1. build_stamps = {} /\ pc = "sched" /\ pc' = "after" /\ UNCHANGED <<worker, inq, orphans, raised>>
    BY <1>0, <1>7, NoneActive DEF Finished, Steady
  <2> QED
    BY <2>1 DEF Steady, Dead, Unasked, Started, ReadPoints
<1>8. ASSUME Finish PROVE Steady'
  BY <1>0, <1>8, FinishSteady DEF Finish
<1>9. ASSUME BuildDone PROVE Steady'
  BY <1>9 DEF BuildDone, Steady, ReadPoints
<1>10. ASSUME NEW w \in Workers, BeginTeardown(w) \/ EndTeardown(w) PROVE Steady'
  BY <1>10 DEF BeginTeardown, EndTeardown, Steady
<1>11. ASSUME TornDown PROVE Steady'
  <2>1. /\ pc = "teardown" /\ state \in {"Failed", "Complete"} /\ ~raised /\ build_stamps = {}
    BY <1>11 DEF TornDown, Steady
  <2>2. pc' = "ended" /\ UNCHANGED <<state, raised, orphans>>
    BY <1>11, <2>1 DEF TornDown
  <2> QED
    BY <2>1, <2>2 DEF Steady, ReadPoints
<1>12. ASSUME NEW t \in Tasks, SkipExisting(t) \/ CompleteNoExec(t) \/ RunTask(t) PROVE Steady'
  BY <1>12, ScheduleSteady
<1> QED
  BY <1>2, <1>3, <1>4, <1>5, <1>6, <1>7, <1>8, <1>9, <1>10, <1>11, <1>12
     DEF Thread, Schedule, Wrap

\* A worker quits only when it is asked to, and then has no tasks.
LEMMA ServeSteady ==
  ASSUME TypeOK, OnePlace, Steady, NEW w \in Workers,
         Serve(w) \/ \E t \in Tasks, ok \in BOOLEAN : ChildExit(w, t, ok)
  PROVE  Steady'
<1>1. UNCHANGED <<state, queueVars, pc, raised>>
  BY DEF Serve, ForkTask, FinishNow, Quit, Gone, ChildExit, threadVars
<1>2. \A v \in Workers : worker'[v] = "off" <=> worker[v] = "off"
  BY DEF Serve, ForkTask, FinishNow, Quit, Receives, Gone, ChildExit, TypeOK
<1>3. ASSUME pc \notin {"teardown", "ended"}, Quit(w) PROVE FALSE
  <2>1. Unasked(w)
    BY <1>3 DEF Steady
  <2>2. inq[w] \in Seq(Message) /\ inq[w] # <<>> /\ Head(inq[w]).kind = "quit"
    BY <1>3 DEF Quit, Receives, TypeOK
  <2> QED
    BY <2>1, <2>2 DEF Unasked
<1>4. ASSUME pc \notin {"teardown", "ended"}, NEW v \in Workers
      PROVE  ~Dead(v)' /\ Unasked(v)'
  <2>1. ~Dead(v) /\ Unasked(v)
    BY <1>4 DEF Steady
  <2>2. CASE \E t \in Tasks, ok \in BOOLEAN : ChildExit(w, t, ok)
    BY <2>1, <2>2 DEF ChildExit, Dead, Unasked
  <2>3. CASE ForkTask(w) \/ FinishNow(w)
    <3>1. Rest(w) /\ inq[w] # <<>> /\ UNCHANGED worker
      BY <2>3 DEF ForkTask, FinishNow, Receives
    <3>2. inq[w] \in Seq(Message)
      BY DEF TypeOK
    <3>3. v # w => inq'[v] = inq[v]
      BY <3>1 DEF Rest, TypeOK
    <3>4. inq'[w] = Tail(inq[w])
      BY <3>1 DEF Rest, TypeOK
    <3>5. /\ Len(Tail(inq[w])) = Len(inq[w]) - 1
          /\ \A i \in 1 .. Len(Tail(inq[w])) :
                i + 1 \in 1 .. Len(inq[w]) /\ Tail(inq[w])[i] = inq[w][i + 1]
      BY <3>1, <3>2
    <3>6. CASE v = w
      BY <2>1, <3>1, <3>4, <3>5, <3>6 DEF Dead, Unasked
    <3>7. CASE v # w
      BY <2>1, <3>1, <3>3, <3>7 DEF Dead, Unasked
    <3> QED
      BY <3>6, <3>7
  <2> QED
    BY <1>3, <1>4, <2>2, <2>3 DEF Serve
<1>5. \A t \in build_stamps : WorkerOf[t] \in Workers
  BY WorkersAssumption DEF TypeOK
<1>6. Started' = Started
  BY <1>2 DEF Started
<1>7. orphans' = {}
  <2>1. CASE Quit(w)
    <3>1. build_stamps = {}
      BY <1>3, <2>1 DEF Steady
    <3>2. children[w] = {}
      BY <3>1 DEF OnePlace, TypeOK
    <3> QED
      BY <2>1, <3>2 DEF Quit, Gone, Steady
  <2>2. CASE ~Quit(w)
    BY <2>2 DEF Serve, ForkTask, FinishNow, ChildExit, Steady
  <2> QED
    BY <2>1, <2>2
<1> QED
  BY <1>1, <1>2, <1>4, <1>5, <1>6, <1>7 DEF Steady, queueVars

LEMMA ReapedStep == IInv /\ Reaped /\ [Next]_vars => Reaped'
<1> SUFFICES ASSUME IInv, Reaped, [Next]_vars, Unhurt' PROVE Steady'
  BY DEF Reaped
<1>1. Unhurt /\ Steady /\ TypeOK /\ OnePlace
  BY StaysHurt DEF Reaped, IInv
<1>2. CASE \E w \in Workers, x \in ExitCode : ReadExit(w, x)
  BY <1>1, <1>2, ReadExitSteady
<1>3. CASE \E t \in Tasks : SkipExisting(t) \/ CompleteNoExec(t) \/ RunTask(t)
  BY <1>1, <1>3, ScheduleSteady
<1>4. CASE Thread /\ ~(\E w \in Workers, x \in ExitCode : ReadExit(w, x))
             /\ ~(\E t \in Tasks : SkipExisting(t) \/ CompleteNoExec(t) \/ RunTask(t))
  <2>1. UNCHANGED queueVars
    BY <1>4, QueueSteps, StaysHurt
  <2> QED
    BY <1>1, <1>4, <2>1, ThreadSteady, StaysHurt
<1>5. ASSUME NEW w \in Workers, Serve(w) \/ \E t \in Tasks, ok \in BOOLEAN : ChildExit(w, t, ok)
      PROVE  Steady'
  BY <1>1, <1>5, ServeSteady
<1>6. CASE UNCHANGED vars
  BY <1>1, <1>6 DEF vars, Steady, Dead, Unasked, Started
<1>7. ASSUME NEW t \in Tasks, OrphanEnds(t) PROVE FALSE
  BY <1>1, <1>7 DEF OrphanEnds, Steady
<1>8. CASE Outside
  <2>1. CASE Interrupt("shutdown")
    BY <1>1, <2>1 DEF Interrupt, Steady, Dead, Unasked, Started, queueVars, threadVars, workerVars
  <2>2. CASE DiskStopTasks
    <3>1. pc \in {"idle", "monitor"}
      BY <2>2 DEF DiskStopTasks, Monitor
    <3> QED
      BY <1>1, <2>2, <3>1, FinishSteady DEF DiskStopTasks
  <2> QED
    BY <1>8, <2>1, <2>2, StaysHurt DEF Outside
<1> QED
  BY <1>2, <1>3, <1>4, <1>5, <1>6, <1>7, <1>8 DEF Next, Terminated

LEMMA ReapedInit == Init => Reaped
  BY FS_EmptySet DEF Init, Reaped, Steady, Dead, Unasked

\* The workers are gone when the build has ended, and unless a task was cut off
\* every task process has been reaped before.
THEOREM NobodyLeft == Spec => []NoOrphans
<1>1. Init => Gathered
  BY DEF Init, Gathered
<1>2. TypeOK /\ Gathered /\ [Next]_vars => Gathered'
  BY GatheredStep
<1>3. IInv /\ Gathered /\ Reaped => NoOrphans
  <2> SUFFICES ASSUME IInv, Gathered, Reaped, Ended PROVE Started = {} /\ (Unhurt => Processes = {})
    BY DEF NoOrphans
  <2>1. Started = {}
    BY DEF Gathered, Ended
  <2>2. Unhurt => build_stamps = {}
    BY DEF Reaped, Steady, Ended
  <2> QED
    BY <2>1, <2>2, ProcessesWaitedFor
<1> QED
  BY <1>1, <1>2, <1>3, TypeCorrect, Invariant, ReapedInit, ReapedStep, PTL DEF Spec

-----------------------------------------------------------------------------
(* How a build ends that nothing outside interferes with                    *)

\* Interruptions and the disk monitor's actions are never taken back.
LEMMA StaysDisturbed ==
  ASSUME [Next]_vars, Undisturbed'
  PROVE  /\ Undisturbed /\ Unhurt /\ UNCHANGED <<cooker, checked>>
         /\ ~Outside
         /\ \A t \in Tasks : ~SpawnFails(t)
<1>1. ASSUME NEW s \in {"shutdown", "forceshutdown"}, Interrupt(s) PROVE FALSE
  BY <1>1 DEF Interrupt, Undisturbed
<1>2. ASSUME DiskHalt \/ DiskStopTasks PROVE FALSE
  BY <1>2 DEF DiskHalt, DiskStopTasks, Monitor, Undisturbed
<1>3. ASSUME NEW w \in Workers, WorkerDies(w) PROVE FALSE
  BY <1>3 DEF WorkerDies, Undisturbed
<1>4. ASSUME NEW t \in Tasks, SpawnFails(t) PROVE FALSE
  BY <1>4 DEF SpawnFails, Undisturbed
<1>5. ~Outside
  BY <1>1, <1>2, <1>3 DEF Outside
<1> QED
  BY <1>4, <1>5, InsideSteps DEF Undisturbed, Unhurt

\* What is enough of the dependencies complete is buildable at once.
LEMMA ClosedUnderCompletion ==
  ASSUME Bookkeeping, NEW t \in Tasks, NEW C, C = runq_complete \cup {t},
         \A r \in Tasks : Depends[r] \subseteq runq_complete => r \in runq_buildable,
         NEW r \in Tasks, Depends[r] \subseteq C
  PROVE  r \in runq_buildable \cup NewBuildable(t, C)
  BY DEF Bookkeeping, NewBuildable

\* What an exit code brings is counted, and what it makes possible is buildable.
LEMMA ReadExitCalm ==
  ASSUME IInv, Outcome, Steady, NEW w \in Workers, NEW x \in ExitCode, ReadExit(w, x)
  PROVE  Outcome'
<1>0. TypeOK /\ Bookkeeping /\ OnePlace
  BY DEF IInv
<1>1. /\ x.task \in Tasks /\ x.task \in build_stamps /\ build_stamps' = build_stamps \ {x.task}
      /\ UNCHANGED <<pc, runq_running>>
      /\ x.task \notin runq_complete \cup failed_tids
  BY <1>0, ReadExitQueue DEF ExitCode, Bookkeeping
<1>2. state \notin {"Failed", "Complete"} /\ pc # "ended"
  BY <1>1 DEF Steady
<1>3. /\ state' = state \/ (state' = "CleanUp" /\ failed_tids' # {})
      /\ failed_tids \subseteq failed_tids'
  BY <1>1 DEF ReadExit, task_complete, task_completeoutright, task_fail
<1>4. \A r \in Tasks : Depends[r] \subseteq runq_complete' => r \in runq_buildable'
  BY <1>0, <1>1, ReadExitQueue, ClosedUnderCompletion DEF Outcome
<1>5. runq_running' = runq_complete' \cup failed_tids' \cup build_stamps'
  BY <1>0, <1>1, ReadExitQueue DEF Outcome
<1>6. state' \notin {"Failed", "Complete"}
  BY <1>2, <1>3
<1>7. (state' = "CleanUp") => failed_tids' # {}
  BY <1>2, <1>3 DEF Outcome
<1> QED
  BY <1>1, <1>2, <1>4, <1>5, <1>6, <1>7 DEF Outcome

LEMMA ScheduleCalm ==
  ASSUME IInv, Outcome, NEW t \in Tasks,
         SkipExisting(t) \/ CompleteNoExec(t) \/ RunTask(t)
  PROVE  Outcome'
<1>0. TypeOK /\ Bookkeeping /\ OnePlace
  BY DEF IInv
<1>1. pc = "sched" /\ state' = state /\ state \notin {"Failed", "Complete"} /\ t \notin runq_running
  BY DEF SkipExisting, CompleteNoExec, RunTask, Picks, Eligible, Outcome
<1>2. CASE SkipExisting(t) \/ CompleteNoExec(t)
  <2>1. PassThrough(t) /\ pc' = "after"
    BY <1>0, <1>2, PassThroughQueue
  <2>2. \A r \in Tasks : Depends[r] \subseteq runq_complete' => r \in runq_buildable'
    <3> SUFFICES ASSUME NEW r \in Tasks, Depends[r] \subseteq runq_complete'
                 PROVE  r \in runq_buildable'
      OBVIOUS
    <3>1. r \in runq_buildable \cup NewBuildable(t, runq_complete \cup {t})
      BY <1>0, <2>1, ClosedUnderCompletion DEF PassThrough, Outcome
    <3> QED
      BY <2>1, <3>1 DEF PassThrough
  <2> QED
    BY <1>1, <2>1, <2>2 DEF PassThrough, Outcome
<1>3. CASE RunTask(t)
  <2>1. /\ build_stamps' = build_stamps \cup {t}
        /\ runq_running' = runq_running \cup {t} /\ pc' \in {"after", "wait"}
        /\ UNCHANGED <<runq_buildable, runq_complete, failed_tids>>
    BY <1>3 DEF RunTask
  <2> QED
    BY <1>1, <2>1 DEF Outcome
<1> QED
  BY <1>2, <1>3

\* With nothing active, nothing failed and nothing eligible, all that can be
\* built is complete; there are no loops, so that is everything.
LEMMA NothingStuck ==
  ASSUME IInv, Outcome, Steady, NothingNext, active <= 0, failed_tids = {}
  PROVE  build_stamps = {} /\ runq_complete = Tasks /\ ~SanityError
<1>1. build_stamps = {} /\ active = 0
  BY NoneActive, FiniteStamps, FS_EmptySet DEF IInv, Steady
<1>2. runq_running = runq_complete
  BY <1>1 DEF Outcome
<1>3. Eligible = {}
  BY <1>1, NumbersAssumption DEF NothingNext, can_start_task, UnderPressure
<1>4. \A t \in Tasks : ~AtThreadLimit(t)
  <2> SUFFICES ASSUME NEW t \in Tasks PROVE ~AtThreadLimit(t)
    OBVIOUS
  <2>1. Unfinished(TaskName[t]) = {}
    BY <1>2 DEF Unfinished
  <2> QED
    BY <2>1, FS_EmptySet, NumbersAssumption DEF AtThreadLimit
<1>5. runq_buildable \subseteq runq_complete
  BY <1>1, <1>2, <1>3, <1>4 DEF Eligible, StampInUse, IInv, TypeOK
<1>6. runq_complete = Tasks
  <2> SUFFICES ASSUME Tasks \ runq_complete # {} PROVE FALSE
    BY DEF IInv, TypeOK
  <2>1. PICK t \in Tasks \ runq_complete : Depends[t] \cap (Tasks \ runq_complete) = {}
    BY LoopFreeAssumption
  <2>2. Depends[t] \subseteq runq_complete
    BY <2>1, TasksAssumption
  <2> QED
    BY <1>5, <2>1, <2>2 DEF Outcome
<1> QED
  BY <1>1, <1>2, <1>5, <1>6 DEF SanityError, IInv, Bookkeeping

\* The idle thread's other steps, of which Finished and Finish give the state.
LEMMA ThreadCalm ==
  ASSUME IInv, Undisturbed, Outcome, Steady, Thread, UNCHANGED queueVars,
         \A w \in Workers, x \in ExitCode : ~ReadExit(w, x)
  PROVE  Outcome'
<1> USE DEF queueVars
<1>1. ASSUME UNCHANGED state, pc' # "ended", state \in {"Failed", "Complete"} => pc' \in {"after", "teardown"}
      PROVE  Outcome'
  BY <1>1 DEF Outcome
<1>2. ASSUME Idle PROVE Outcome'
  <2>1. IdleRunning \/ Enter
    BY <1>2 DEF Idle, IdleForced, IdleShutdown, EnterInterrupted, Undisturbed
  <2> QED
    BY <1>1, <2>1 DEF IdleRunning, Enter, Outcome
<1>3. ASSUME NEW w \in Workers, Read(w) PROVE Outcome'
  <2>1. pc \in ReadPoints /\ pc' = pc /\ state' = state
    BY <1>3 DEF Read, BeginPipe, EndPipe, ReadPoints, Steady, Started
  <2> QED
    BY <1>1, <2>1 DEF Outcome, ReadPoints
<1>4. ASSUME EndRead PROVE Outcome'
  <2>1. state' = state /\ state \notin {"Failed", "Complete"}
    BY <1>4 DEF EndRead, ReadPoints, Outcome
  <2>2. pc' # "ended"
    <3>1. CASE pc = "drain"
      BY <1>4, <3>1 DEF EndRead, Steady
    <3>2. CASE pc \in {"read", "wait", "stop", "diskstop"}
      BY <1>4, <3>2 DEF EndRead
    <3> QED
      BY <1>4, <3>1, <3>2 DEF EndRead, ReadPoints
  <2> QED
    BY <1>1, <2>1, <2>2
<1>5. ASSUME NEW t \in Tasks, SendFails(t) PROVE FALSE
  BY <1>5, WorkersAssumption DEF SendFails, Picks, Steady
<1>6. ASSUME WaitForTasks \/ Loop \/ MonitorEnd PROVE Outcome'
  BY <1>1, <1>6 DEF WaitForTasks, Loop, MonitorEnd, Outcome
<1>7. ASSUME Finished PROVE Outcome'
  <2>1. failed_tids = {} => runq_complete = Tasks /\ ~SanityError
    BY <1>7, NothingStuck DEF Finished
  <2>2. pc' = "after" /\ state' = IF failed_tids # {} THEN "Failed" ELSE "Complete"
    BY <1>7, <2>1 DEF Finished
  <2> QED
    BY <2>1, <2>2 DEF Outcome
<1>8. ASSUME Finish PROVE Outcome'
  <2>1. pc = "after" /\ state = "CleanUp" /\ failed_tids # {}
    BY <1>8 DEF Finish, Outcome
  <2>2. \/ state' = "CleanUp" /\ pc' = "drain"
        \/ state' = "Failed" /\ pc' = "after"
    BY <1>8, <2>1 DEF Finish, finish, FinalState
  <2> QED
    BY <2>1, <2>2 DEF Outcome
<1>9. ASSUME BuildDone PROVE Outcome'
  BY <1>1, <1>9 DEF BuildDone
<1>10. ASSUME NEW w \in Workers, BeginTeardown(w) \/ EndTeardown(w) PROVE Outcome'
  BY <1>1, <1>10 DEF BeginTeardown, EndTeardown
<1>11. ASSUME TornDown PROVE Outcome'
  <2>1. /\ pc = "teardown" /\ state \in {"Failed", "Complete"} /\ ~raised
    BY <1>11 DEF TornDown, Steady
  <2>2. state' = state /\ pc' = "ended" /\ result' = IF state = "Failed" THEN "failed" ELSE "ok"
    BY <1>11, <2>1 DEF TornDown
  <2> QED
    BY <2>1, <2>2 DEF Outcome
<1>12. ASSUME NEW t \in Tasks, SkipExisting(t) \/ CompleteNoExec(t) \/ RunTask(t) PROVE Outcome'
  BY <1>12, ScheduleCalm
<1>13. ASSUME NEW t \in Tasks, SpawnFails(t) PROVE FALSE
  BY <1>13 DEF SpawnFails, Undisturbed
<1> QED
  BY <1>2, <1>3, <1>4, <1>5, <1>6, <1>7, <1>8, <1>9, <1>10, <1>11, <1>12, <1>13
     DEF Thread, Schedule, Wrap

LEMMA CalmStep == IInv /\ Reaped /\ Calm /\ [Next]_vars => Calm'
<1> SUFFICES ASSUME IInv, Reaped, Calm, [Next]_vars, Undisturbed' PROVE Outcome'
  BY DEF Calm
<1>1. Undisturbed /\ Outcome /\ Steady
  BY StaysDisturbed DEF Calm, Reaped
<1>2. CASE \E w \in Workers, x \in ExitCode : ReadExit(w, x)
  BY <1>1, <1>2, ReadExitCalm
<1>3. CASE \E t \in Tasks : SkipExisting(t) \/ CompleteNoExec(t) \/ RunTask(t)
  BY <1>1, <1>3, ScheduleCalm
<1>4. CASE Thread /\ ~(\E w \in Workers, x \in ExitCode : ReadExit(w, x))
             /\ ~(\E t \in Tasks : SkipExisting(t) \/ CompleteNoExec(t) \/ RunTask(t))
  <2>1. UNCHANGED queueVars
    BY <1>4, QueueSteps, StaysDisturbed
  <2> QED
    BY <1>1, <1>4, <2>1, ThreadCalm
<1>5. ASSUME UNCHANGED <<state, queueVars, pc, result>> PROVE Outcome'
  BY <1>1, <1>5 DEF Outcome, queueVars
<1>6. ASSUME NEW w \in Workers, Serve(w) \/ \E t \in Tasks, ok \in BOOLEAN : ChildExit(w, t, ok)
      PROVE  Outcome'
  BY <1>5, <1>6 DEF Serve, ForkTask, FinishNow, Quit, Gone, ChildExit, threadVars
<1>7. ASSUME NEW t \in Tasks, OrphanEnds(t) PROVE Outcome'
  BY <1>5, <1>7 DEF OrphanEnds, threadVars
<1>8. CASE UNCHANGED vars
  BY <1>5, <1>8 DEF vars, queueVars
<1> QED
  BY <1>2, <1>3, <1>4, <1>6, <1>7, <1>8, StaysDisturbed DEF Next, Terminated

LEMMA CalmInit == Init => Calm
  BY DEF Init, Calm, Outcome

\* The sanity checks at the end of execute never fire: undisturbed, a build is
\* good when every task is complete and bad when a task failed.
THEOREM EndsRight == Spec => []ResultRight
<1>1. Reaped /\ Calm => ResultRight
  <2> SUFFICES ASSUME Reaped, Calm, Ended, Undisturbed
               PROVE  /\ result = "ok" <=> failed_tids = {}
                      /\ result = "ok" => runq_complete = Tasks
    BY DEF ResultRight
  <2>1. Outcome /\ Steady
    BY DEF Calm, Reaped, Undisturbed, Unhurt
  <2> QED
    BY <2>1 DEF Outcome, Steady, Ended
<1> QED
  BY <1>1, CalmInit, CalmStep, ReapedInit, ReapedStep, Invariant, PTL DEF Spec

-----------------------------------------------------------------------------
(* What is built when the build goes on after failures                      *)

\* Nothing cleans up, and Finished comes when nothing is eligible any more.
LEMMA ExhaustedStep == IInv /\ Reaped /\ Calm /\ Exhausted /\ [Next]_vars => Exhausted'
<1> SUFFICES ASSUME IInv, Reaped, Calm, Exhausted, [Next]_vars, Undisturbed', ~HaltOnFailure, NoThreadLimits
             PROVE  /\ state' # "CleanUp"
                    /\ state' \in {"Failed", "Complete"} => runq_buildable' \subseteq runq_running'
  BY DEF Exhausted
<1> DEFINE Goal == /\ state' # "CleanUp"
                   /\ state' \in {"Failed", "Complete"} => runq_buildable' \subseteq runq_running'
<1>1. /\ Undisturbed /\ Outcome /\ Steady /\ TypeOK /\ Bookkeeping /\ OnePlace
      /\ state # "CleanUp"
      /\ state \in {"Failed", "Complete"} => runq_buildable \subseteq runq_running
  BY StaysDisturbed DEF Reaped, Calm, IInv, Exhausted
<1>2. ASSUME NEW w \in Workers, NEW x \in ExitCode, ReadExit(w, x) PROVE Goal
  <2>1. state' = state
    BY <1>2 DEF ReadExit, task_complete, task_completeoutright, task_fail
  <2>2. build_stamps # {}
    BY <1>1, <1>2, ReadExitQueue
  <2> QED
    BY <1>1, <2>1, <2>2 DEF Steady
<1>3. ASSUME NEW t \in Tasks, SkipExisting(t) \/ CompleteNoExec(t) \/ RunTask(t) PROVE Goal
  <2>1. pc = "sched" /\ state' = state
    BY <1>3 DEF SkipExisting, CompleteNoExec, RunTask, Picks
  <2> QED
    BY <1>1, <2>1 DEF Outcome
<1>4. ASSUME UNCHANGED <<state, queueVars>> PROVE Goal
  BY <1>1, <1>4 DEF queueVars
<1>5. ASSUME Finished PROVE Goal
  <2>1. build_stamps = {} /\ active = 0
    BY <1>1, <1>5, NoneActive, FiniteStamps, FS_EmptySet DEF Finished, Steady
  <2>2. Eligible = {}
    BY <1>5, <2>1, NumbersAssumption DEF Finished, NothingNext, can_start_task, UnderPressure
  <2>3. runq_buildable \subseteq runq_running
    BY <1>1, <2>1, <2>2 DEF Eligible, StampInUse, AtThreadLimit, NoThreadLimits, TypeOK
  <2> QED
    BY <1>5, <2>3 DEF Finished, queueVars
<1>6. ASSUME Finish \/ IdleShutdown \/ IdleForced \/ EnterInterrupted PROVE FALSE
  BY <1>1, <1>6 DEF Finish, IdleShutdown, IdleForced, EnterInterrupted, Undisturbed
<1> HIDE DEF Goal
<1>7. ASSUME NEW w \in Workers, Serve(w) PROVE Goal
  BY <1>4, <1>7 DEF Serve, ForkTask, FinishNow, Quit, Gone, threadVars
<1>8. ASSUME NEW w \in Workers, NEW t \in Tasks, NEW ok \in BOOLEAN, ChildExit(w, t, ok) PROVE Goal
  BY <1>4, <1>8 DEF ChildExit, threadVars
<1>9. ASSUME Idle PROVE Goal
  BY <1>4, <1>6, <1>9 DEF Idle, IdleRunning, Enter
<1>10. ASSUME NEW w \in Workers, Read(w) PROVE Goal
  <2>1. CASE BeginPipe(w)
    <3>1. \A v \in Workers : ~Dead(v)
      BY <1>1, <2>1 DEF BeginPipe, Steady, ReadPoints
    <3> QED
      BY <1>4, <2>1, <3>1 DEF BeginPipe, Started
  <2> QED
    BY <1>2, <1>4, <1>10, <2>1 DEF Read, EndPipe
<1>11. ASSUME NEW w \in Workers, BeginTeardown(w) \/ EndTeardown(w) PROVE Goal
  BY <1>4, <1>11 DEF BeginTeardown, EndTeardown, queueVars
<1>12. ASSUME EndRead \/ WaitForTasks \/ Loop \/ BuildDone \/ TornDown \/ MonitorEnd PROVE Goal
  <2>1. CASE TornDown
    BY <1>1, <1>4, <2>1 DEF TornDown, Steady
  <2> QED
    BY <1>4, <1>12, <2>1 DEF EndRead, WaitForTasks, Loop, BuildDone, MonitorEnd
<1>13. ASSUME NEW t \in Tasks, SendFails(t) PROVE FALSE
  BY <1>1, <1>13, WorkersAssumption DEF SendFails, Picks, Steady
<1>14. ASSUME UNCHANGED vars PROVE Goal
  BY <1>4, <1>14 DEF vars, queueVars
<1>15. ~Outside
  BY StaysDisturbed
<1>16. \A t \in Tasks : ~SpawnFails(t)
  BY StaysDisturbed
<1>17. ASSUME Thread PROVE Goal
  <2>1. ASSUME NEW t \in Tasks, Schedule(t) PROVE Goal
    BY <1>3, <1>13, <1>16, <2>1 DEF Schedule
  <2>2. ASSUME Wrap PROVE Goal
    BY <1>6, <1>12, <2>2 DEF Wrap
  <2> QED
    BY <1>5, <1>9, <1>10, <1>11, <1>12, <1>17, <2>1, <2>2 DEF Thread
<1>18. ASSUME NEW t \in Tasks, OrphanEnds(t) PROVE Goal
  BY <1>4, <1>18 DEF OrphanEnds, threadVars
<1>19. Goal
  BY <1>7, <1>8, <1>14, <1>15, <1>17, <1>18 DEF Next, Terminated
<1> QED
  BY <1>19 DEF Goal

\* When all that can be built was started and has ended, what is not complete
\* failed or needs something that failed; there are no loops.
LEMMA OnlyNeedsFailed ==
  ASSUME TypeOK, Bookkeeping, Outcome, build_stamps = {}, runq_buildable \subseteq runq_running
  PROVE  runq_complete = Tasks \ NeedsFailed
<1> DEFINE closed(X) == /\ failed_tids \subseteq X
                        /\ \A s \in Tasks : Depends[s] \cap X # {} => s \in X
<1>1. NeedsFailed = {t \in Tasks : \A X \in SUBSET Tasks : closed(X) => t \in X}
  BY DEF NeedsFailed
<1>2. runq_running = runq_complete \cup failed_tids /\ runq_complete \subseteq runq_buildable
  BY DEF Outcome, Bookkeeping
<1>3. closed(Tasks \ runq_complete)
  BY <1>2 DEF Bookkeeping, TypeOK
<1>4. ASSUME NEW X \in SUBSET Tasks, closed(X) PROVE Tasks \ runq_complete \subseteq X
  <2> DEFINE S == Tasks \ (runq_complete \cup X)
  <2> SUFFICES ASSUME S # {} PROVE FALSE
    OBVIOUS
  <2>1. PICK t \in S : Depends[t] \cap S = {}
    BY LoopFreeAssumption
  <2>2. Depends[t] \subseteq Tasks /\ Depends[t] \cap X = {}
    BY <1>4, TasksAssumption
  <2>3. Depends[t] \subseteq runq_complete
    BY <2>1, <2>2
  <2>4. t \in runq_running
    BY <2>3 DEF Outcome
  <2> QED
    BY <1>2, <1>4, <2>4
<1> HIDE DEF closed
<1> QED
  BY <1>1, <1>3, <1>4 DEF TypeOK

\* bitbake -k builds everything that does not need a failed task, when no name has a
\* limit of its own (with one it does not) and no worker dies or fails to start.
THEOREM BuildsAllItCan ==
  ASSUME NoThreadLimits, Faults \cap {"workerdie", "spawnfail"} = {}
  PROVE  Spec => []AsMuchAsPossible
<1>1. Init => Exhausted
  BY DEF Init, Exhausted
<1>2. IInv /\ Reaped /\ Calm /\ Exhausted => AsMuchAsPossible
  <2> SUFFICES ASSUME IInv, Reaped, Calm, Exhausted, Ended, cooker = "running", checked = {}, ~HaltOnFailure
               PROVE  runq_complete = Tasks \ NeedsFailed
    BY DEF AsMuchAsPossible
  <2>1. Undisturbed /\ Outcome /\ Steady
    BY DEF Undisturbed, Unhurt, Reaped, Calm
  <2>2. build_stamps = {} /\ runq_buildable \subseteq runq_running
    BY <2>1 DEF Ended, Outcome, Steady, Exhausted
  <2> QED
    BY <2>1, <2>2, OnlyNeedsFailed DEF IInv
<1> QED
  BY <1>1, <1>2, CalmInit, CalmStep, ReapedInit, ReapedStep, ExhaustedStep, Invariant, PTL DEF Spec
=============================================================================
