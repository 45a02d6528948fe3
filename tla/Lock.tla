--------------------------------- MODULE Lock ---------------------------------
(****************************************************************************)
(* What bb.utils.lockfile and unlockfile promise those who use them: a lock *)
(* that any number share or one has to itself, taken in one step and given  *)
(* back in one step.  LockFile is shown to implement it from open, flock,   *)
(* stat and unlink (LockFile!LockSpec), and MultiProcessCache to take and   *)
(* leave its lock in the steps of this one (MultiProcessCache!LockSpec).    *)
(****************************************************************************)
CONSTANT Procs

VARIABLE mode       \* how a process has the lock

Modes == {"none", "shared", "exclusive"}

Init == mode = [p \in Procs |-> "none"]

Compatible(m, n) == "none" \in {m, n} \/ (m = "shared" /\ n = "shared")

Acquire(p, m) ==
    /\ mode[p] = "none"
    /\ \A q \in Procs \ {p} : Compatible(m, mode[q])
    /\ mode' = [mode EXCEPT ![p] = m]

\* Given back, or lost with the life of the process.
Release(p) == mode' = [mode EXCEPT ![p] = "none"]

Next == \E p \in Procs : Release(p) \/ \E m \in Modes \ {"none"} : Acquire(p, m)

Spec == Init /\ [][Next]_mode
===============================================================================
