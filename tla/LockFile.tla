------------------------------- MODULE LockFile -------------------------------
(****************************************************************************)
(* bb.utils.lockfile and unlockfile: an advisory lock on a file that every  *)
(* holder removes when it is done, taken by any number of processes at once *)
(* (tasks, parsers, the cooker, the fetcher, the caches).  Each system call *)
(* is a step.  flock, open, stat and unlink are the kernel's: a process may *)
(* die at any step, which closes its files and leaves the path as it is.    *)
(****************************************************************************)
EXTENDS Naturals, FiniteSets

CONSTANTS
    Procs,
    Inodes,         \* inode numbers; one that nobody uses any more is reused
    Calls,          \* the arguments lockfile is called with in this instance
    MaxCrashes      \* bound: how often a process may be killed

NoInode == "none"
Arguments == [shared : BOOLEAN, retry : BOOLEAN, block : BOOLEAN]

ASSUME CallsAssumption == Calls \subseteq Arguments
ASSUME InodesAssumption == NoInode \notin Inodes

VARIABLES
    pc,         \* where a process is: outside, in lockfile, holding, in unlockfile
    args,       \* the arguments of its call
    fd,         \* the inode its open file object refers to, or NoInode
    lock,       \* the flock its open file has: "none", "sh" or "ex"
    path,       \* the inode the lock file's name leads to, or NoInode
    crashes

vars == <<pc, args, fd, lock, path, crashes>>

TypeOK ==
    /\ pc \in [Procs -> {"idle", "open", "flock", "exists", "stat", "held",
                         "promote", "unlink", "close"}]
    /\ args \in [Procs -> Arguments]
    /\ fd \in [Procs -> Inodes \cup {NoInode}]
    /\ lock \in [Procs -> {"none", "sh", "ex"}]
    /\ path \in Inodes \cup {NoInode}
    /\ crashes \in Nat

Init ==
    /\ pc = [p \in Procs |-> "idle"]
    /\ args \in [Procs -> Calls]
    /\ fd = [p \in Procs |-> NoInode]
    /\ lock = [p \in Procs |-> "none"]
    /\ path \in {NoInode} \cup Inodes       \* a lock file may have been left behind
    /\ crashes = 0

-----------------------------------------------------------------------------
(* The kernel                                                               *)

Free == {i \in Inodes : i # path /\ \A p \in Procs : fd[p] # i}

\* flock would not block: another open file of the inode has no lock in the way.
Grants(p, mode) ==
    \A q \in Procs \ {p} :
        fd[q] = fd[p] => lock[q] = "none" \/ (mode = "sh" /\ lock[q] = "sh")

Goto(p, label) == pc' = [pc EXCEPT ![p] = label]
Locked(p, mode) == lock' = [lock EXCEPT ![p] = mode]

-----------------------------------------------------------------------------
(* lockfile                                                                 *)

Call(p) ==
    /\ pc[p] = "idle"
    /\ \E a \in Calls : args' = [args EXCEPT ![p] = a]
    /\ Goto(p, "open")
    /\ UNCHANGED <<fd, lock, path, crashes>>

\* open(name, 'a+') creates the file when it is not there.
Open(p) ==
    /\ pc[p] = "open"
    /\ IF path # NoInode
       THEN fd' = [fd EXCEPT ![p] = path] /\ UNCHANGED path
       ELSE \E i \in Free : fd' = [fd EXCEPT ![p] = i] /\ path' = i
    /\ Goto(p, "flock")
    /\ UNCHANGED <<args, lock, crashes>>

X_Mode(p) == IF args[p].shared THEN "ex" ELSE "sh"      \* wrong: the other way round
Mode(p) == IF args[p].shared THEN "sh" ELSE "ex"
NonBlocking(p) == ~args[p].retry /\ ~args[p].block

Flock(p) ==
    /\ pc[p] = "flock" /\ Grants(p, Mode(p))
    /\ Locked(p, Mode(p))
    /\ Goto(p, "exists")
    /\ UNCHANGED <<args, fd, path, crashes>>

\* Close the file, which drops its lock, and start again or return None.
GiveUp(p) ==
    /\ fd' = [fd EXCEPT ![p] = NoInode]
    /\ Locked(p, "none")
    /\ Goto(p, IF args[p].retry THEN "open" ELSE "idle")

WouldBlock(p) ==
    /\ pc[p] = "flock" /\ NonBlocking(p) /\ ~Grants(p, Mode(p))
    /\ GiveUp(p)
    /\ UNCHANGED <<args, path, crashes>>

\* os.path.exists
Exists(p) ==
    /\ pc[p] = "exists"
    /\ IF path # NoInode THEN Goto(p, "stat") /\ UNCHANGED <<fd, lock>>
                         ELSE GiveUp(p)
    /\ UNCHANGED <<args, path, crashes>>

X_Stat(p) ==                                \* wrong: any lock file will do
    /\ pc[p] = "stat"
    /\ Goto(p, "held")
    /\ UNCHANGED <<args, fd, lock, path, crashes>>

\* os.stat, which fails when the file went away since, and the comparison.
Stat(p) ==
    /\ pc[p] = "stat"
    /\ IF path = fd[p] THEN Goto(p, "held") /\ UNCHANGED <<fd, lock>>
                       ELSE GiveUp(p)
    /\ UNCHANGED <<args, path, crashes>>

-----------------------------------------------------------------------------
(* unlockfile                                                               *)

Unlock(p) ==
    /\ pc[p] = "held"
    /\ Goto(p, "promote")
    /\ UNCHANGED <<args, fd, lock, path, crashes>>

X_Promote(p) ==                             \* wrong: unlink under a shared lock
    /\ pc[p] = "promote"
    /\ Goto(p, "unlink")
    /\ UNCHANGED <<args, fd, lock, path, crashes>>

\* flock(LOCK_EX|LOCK_NB): in Linux the lock is exchanged under one spin lock; a
\* shared lock is lost when the exclusive one is not granted.
Promote(p) ==
    /\ pc[p] = "promote"
    /\ IF Grants(p, "ex") THEN Locked(p, "ex") /\ Goto(p, "unlink")
                          ELSE Locked(p, "none") /\ Goto(p, "close")
    /\ UNCHANGED <<args, fd, path, crashes>>

X_Unlink(p) ==                              \* wrong: the file is left behind
    /\ pc[p] = "unlink"
    /\ Goto(p, "close")
    /\ UNCHANGED <<args, fd, lock, path, crashes>>

Unlink(p) ==
    /\ pc[p] = "unlink"
    /\ path' = NoInode
    /\ Goto(p, "close")
    /\ UNCHANGED <<args, fd, lock, crashes>>

X_Close(p) ==                               \* wrong: LOCK_UN and close forgotten
    /\ pc[p] = "close"
    /\ Goto(p, "idle")
    /\ UNCHANGED <<args, fd, lock, path, crashes>>

Close(p) ==
    /\ pc[p] = "close"
    /\ fd' = [fd EXCEPT ![p] = NoInode]
    /\ Locked(p, "none")
    /\ Goto(p, "idle")
    /\ UNCHANGED <<args, path, crashes>>

-----------------------------------------------------------------------------
\* The process is killed; the next one with its role starts outside.
Crash(p) ==
    /\ pc[p] # "idle" /\ crashes < MaxCrashes
    /\ crashes' = crashes + 1
    /\ fd' = [fd EXCEPT ![p] = NoInode]
    /\ Locked(p, "none")
    /\ Goto(p, "idle")
    /\ UNCHANGED <<args, path>>

\* The steps a process takes of its own accord once it has called lockfile.
Step(p) ==
    \/ Open(p) \/ Flock(p) \/ WouldBlock(p) \/ Exists(p) \/ Stat(p)
    \/ Unlock(p) \/ Promote(p) \/ Unlink(p) \/ Close(p)

Next == \E p \in Procs : Call(p) \/ Step(p) \/ Crash(p)

Spec == Init /\ [][Next]_vars

\* Every process keeps running; none is obliged to call or to be killed.
FairSpec == Spec /\ \A p \in Procs : WF_vars(Step(p))

-----------------------------------------------------------------------------
(* Properties                                                               *)

Holds(p) == pc[p] = "held"

\* An exclusive holder is the only holder, though the file is unlinked and
\* created again all the time and inode numbers are reused.
MutualExclusion ==
    \A p, q \in Procs :
        p # q /\ Holds(p) /\ Holds(q) => args[p].shared /\ args[q].shared

\* While somebody holds the lock the name leads to the inode locked, so that
\* whoever comes next queues behind it: unlockfile removes no one else's file.
HolderOnDisk == \A p \in Procs : Holds(p) => path = fd[p] /\ lock[p] # "none"

\* All the system calls, retries and deaths of the processes amount to a lock that
\* is taken and given back in one step: taken when the name is found to lead to the
\* inode that was locked (lockfile), given back before it is unlinked (unlockfile).
LockMode(p) ==
    IF ~Holds(p) THEN "none" ELSE IF args[p].shared THEN "shared" ELSE "exclusive"
LockModes == [p \in Procs |-> LockMode(p)]
AbstractLock == INSTANCE Lock WITH mode <- LockModes
LockSpec == AbstractLock!Spec

\* Without a crash the processes clean up after themselves: when all are
\* done the last of them has removed the file.
NoLitter ==
    [][crashes' = 0 /\ (\E p \in Procs : pc[p] # "idle")
         /\ (\A p \in Procs : pc'[p] = "idle") => path' = NoInode]_vars

\* The lock is unfair but never stuck: while processes insist on having it,
\* one of them gets it.
Waits(p) == pc[p] \in {"open", "flock", "exists", "stat"} /\ args[p].retry
Progress ==
    (\E p \in Procs : Waits(p)) ~> (\E p \in Procs : Holds(p)) \/ ~\E p \in Procs : Waits(p)

-----------------------------------------------------------------------------
(* The inductive invariant                                                  *)

\* Locks on one inode are compatible.
Compatible ==
    \A p, q \in Procs :
        p # q /\ fd[p] = fd[q] /\ lock[p] = "ex" => lock[q] = "none"

\* What a process has at the steps where it relies on its lock.
Owned ==
    \A p \in Procs :
        /\ lock[p] # "none" \/ pc[p] = "flock" => fd[p] # NoInode
        /\ pc[p] \in {"exists", "stat", "held", "promote"} => lock[p] \in {Mode(p), "ex"}
        /\ pc[p] = "unlink" => lock[p] = "ex"
        /\ pc[p] \in {"held", "promote", "unlink"} => path = fd[p]
        /\ pc[p] \in {"idle", "open", "flock"} => lock[p] = "none"

IInv == TypeOK /\ Compatible /\ Owned

\* A process that will come to the unlink of this file, or leave it to another
\* that has a lock on it.
Cleans(p) ==
    \/ pc[p] = "open"
    \/ pc[p] \in {"flock", "exists", "stat", "held", "promote", "unlink"} /\ fd[p] = path

\* A file that is there is somebody's to remove; a process that still has its
\* lock on the way out has removed the file it locked.
Kept ==
    /\ crashes = 0 /\ path # NoInode => \E p \in Procs : Cleans(p)
    /\ \A p \in Procs : pc[p] = "close" /\ lock[p] # "none" => path # fd[p]

\* Before the first call nobody looks after a file that was left behind.
Tidy == Kept \/ \A p \in Procs : pc[p] = "idle"
=============================================================================
