------------------------------ MODULE TaskGraph ------------------------------
(****************************************************************************)
(* What BitBake promises about a task graph, whoever executes it: a task is *)
(* started once, never before everything it depends on is done, and is then *)
(* done or failed for good.  A task whose work is already there (a current  *)
(* stamp, noexec, covered by sstate) is started and done in one step.  The  *)
(* run queue is shown to implement this (RunQueue!Graph).                   *)
(****************************************************************************)
CONSTANTS
    Tasks,      \* the task ids of the run queue (rqdata.runtaskentries)
    Depends     \* Depends[t]: the tasks t waits for (RunTaskEntry.depends)

VARIABLES
    started,    \* tasks handed out, whatever became of them
    done,       \* tasks that count as finished for their dependents
    failed      \* tasks that failed

vars == <<started, done, failed>>

Init == started = {} /\ done = {} /\ failed = {}

Start(t) ==
    /\ t \notin started
    /\ Depends[t] \subseteq done
    /\ started' = started \cup {t}
    /\ UNCHANGED <<done, failed>>

Skip(t) ==
    /\ t \notin started
    /\ Depends[t] \subseteq done
    /\ started' = started \cup {t}
    /\ done' = done \cup {t}
    /\ UNCHANGED failed

Complete(t) ==
    /\ t \in started \ (done \cup failed)
    /\ done' = done \cup {t}
    /\ UNCHANGED <<started, failed>>

Fail(t) ==
    /\ t \in started \ (done \cup failed)
    /\ failed' = failed \cup {t}
    /\ UNCHANGED <<started, done>>

Next == \E t \in Tasks : Start(t) \/ Skip(t) \/ Complete(t) \/ Fail(t)

Spec == Init /\ [][Next]_vars
=============================================================================
