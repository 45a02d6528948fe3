---------------------------- MODULE LockFile_proofs ----------------------------
(****************************************************************************)
(* Theorems about LockFile, for any number of processes, inodes and crashes *)
(* and any mix of callers.                                                  *)
(****************************************************************************)
EXTENDS LockFile, TLAPS

USE DEF NoInode

LEMMA InitIInv == Init => IInv
  BY CallsAssumption DEF Init, IInv, TypeOK, Compatible, Owned, Arguments

LEMMA TypeStep == TypeOK /\ [Next]_vars => TypeOK'
<1> SUFFICES ASSUME TypeOK, [Next]_vars PROVE TypeOK'
  OBVIOUS
<1> USE DEF TypeOK, Goto, Locked
<1>1. ASSUME NEW p \in Procs, Call(p) PROVE TypeOK'
  BY <1>1, CallsAssumption DEF Call
<1>2. ASSUME NEW p \in Procs, Open(p) PROVE TypeOK'
  <2>1. fd' \in [Procs -> Inodes \cup {NoInode}] /\ path' \in Inodes \cup {NoInode}
    BY <1>2 DEF Open, Free
  <2> QED
    BY <1>2, <2>1 DEF Open
<1>3. ASSUME NEW p \in Procs, Flock(p) \/ WouldBlock(p) PROVE TypeOK'
  BY <1>3 DEF Flock, WouldBlock, GiveUp, Mode
<1>4. ASSUME NEW p \in Procs, Exists(p) \/ Stat(p) PROVE TypeOK'
  BY <1>4 DEF Exists, Stat, GiveUp
<1>5. ASSUME NEW p \in Procs, Unlock(p) \/ Promote(p) \/ Unlink(p) \/ Close(p) PROVE TypeOK'
  BY <1>5 DEF Unlock, Promote, Unlink, Close
<1>6. ASSUME NEW p \in Procs, Crash(p) PROVE TypeOK'
  BY <1>6 DEF Crash
<1>7. CASE UNCHANGED vars
  BY <1>7 DEF vars
<1> QED
  BY <1>1, <1>2, <1>3, <1>4, <1>5, <1>6, <1>7 DEF Next, Step

\* What one process does to its own file and lock keeps the invariant when it
\* neither moves the path nor takes a lock that is not granted.
LEMMA OwnStep ==
  ASSUME IInv, TypeOK', NEW p \in Procs, UNCHANGED path,
         \A q \in Procs \ {p} : /\ pc'[q] = pc[q] /\ args'[q] = args[q]
                                /\ fd'[q] = fd[q] /\ lock'[q] = lock[q],
         \/ lock'[p] = "none"
         \/ fd'[p] = fd[p] /\ lock'[p] = lock[p]
         \/ fd'[p] = fd[p] /\ lock'[p] \in {"sh", "ex"} /\ Grants(p, lock'[p]),
         lock'[p] # "none" \/ pc'[p] = "flock" => fd'[p] # NoInode,
         pc'[p] \in {"exists", "stat", "held", "promote"} => lock'[p] \in {Mode(p)', "ex"},
         pc'[p] = "unlink" => lock'[p] = "ex",
         pc'[p] \in {"held", "promote", "unlink"} => path = fd'[p],
         pc'[p] \in {"idle", "open", "flock"} => lock'[p] = "none"
  PROVE  IInv'
<1>1. Compatible'
  <2> SUFFICES ASSUME NEW q \in Procs, NEW r \in Procs, q # r, fd'[q] = fd'[r],
                      lock'[q] = "ex", lock'[r] # "none"
               PROVE  FALSE
    BY DEF Compatible
  <2>1. CASE q # p /\ r # p
    BY <2>1 DEF IInv, Compatible
  <2>2. CASE q = p
    BY <2>2 DEF IInv, Compatible, Grants
  <2>3. CASE r = p
    BY <2>3 DEF IInv, Compatible, Grants
  <2> QED
    BY <2>1, <2>2, <2>3
<1>2. Owned'
  <2>1. \A q \in Procs \ {p} : Mode(q)' = Mode(q)
    BY DEF Mode
  <2> QED
    BY <2>1 DEF IInv, Owned
<1> QED
  BY <1>1, <1>2 DEF IInv

LEMMA StepIInv == IInv /\ [Next]_vars => IInv'
<1> SUFFICES ASSUME IInv, [Next]_vars PROVE IInv'
  OBVIOUS
<1>0. TypeOK /\ TypeOK'
  BY TypeStep DEF IInv
<1>1. ASSUME NEW p \in Procs, Call(p) PROVE IInv'
  <2>1. lock[p] = "none" /\ lock' = lock /\ fd' = fd /\ path' = path /\ pc'[p] = "open"
    BY <1>0, <1>1 DEF Call, Goto, IInv, Owned, TypeOK
  <2>2. \A q \in Procs \ {p} : pc'[q] = pc[q] /\ args'[q] = args[q]
    BY <1>0, <1>1 DEF Call, Goto, TypeOK
  <2> QED
    BY <1>0, <2>1, <2>2, OwnStep
<1>2. ASSUME NEW p \in Procs, Open(p) PROVE IInv'
  <2>1. /\ lock[p] = "none" /\ UNCHANGED <<args, lock>> /\ pc'[p] = "flock"
        /\ \A q \in Procs \ {p} : pc'[q] = pc[q] /\ fd'[q] = fd[q]
    BY <1>0, <1>2 DEF Open, Goto, IInv, Owned, TypeOK
  <2>2. CASE path # NoInode
    <3>1. fd'[p] = path /\ fd'[p] # NoInode /\ UNCHANGED path
      BY <1>0, <1>2, <2>2 DEF Open, TypeOK
    <3> QED
      BY <1>0, <2>1, <3>1, OwnStep
  <2>3. CASE path = NoInode
    <3>1. PICK i \in Free : fd' = [fd EXCEPT ![p] = i] /\ path' = i
      BY <1>2, <2>3 DEF Open
    \* Nobody holds a lock that the missing file would break.
    <3>2. \A q \in Procs : pc[q] \notin {"held", "promote", "unlink"}
      <4> SUFFICES ASSUME NEW q \in Procs, pc[q] \in {"held", "promote", "unlink"} PROVE FALSE
        OBVIOUS
      <4>1. lock[q] # "none" /\ fd[q] = NoInode
        BY <2>3 DEF IInv, Owned, Mode
      <4> QED
        BY <4>1 DEF IInv, Owned
    <3>3. Compatible'
      BY <2>1 DEF IInv, Compatible
    <3>4. \A q \in Procs : Mode(q)' = Mode(q)
      BY <2>1 DEF Mode
    <3>5. fd'[p] # NoInode
      BY <1>0, <3>1, InodesAssumption DEF Free, TypeOK
    <3>6. ASSUME NEW q \in Procs
          PROVE  /\ lock[q] # "none" \/ pc'[q] = "flock" => fd'[q] # NoInode
                 /\ pc'[q] \in {"exists", "stat"} => lock[q] \in {Mode(q), "ex"}
                 /\ pc'[q] \notin {"held", "promote", "unlink"}
                 /\ pc'[q] \in {"idle", "open", "flock"} => lock[q] = "none"
      <4>1. CASE q = p
        BY <2>1, <3>5, <4>1
      <4>2. CASE q # p
        BY <2>1, <3>2, <4>2 DEF IInv, Owned
      <4> QED
        BY <4>1, <4>2
    <3>7. Owned'
      BY <2>1, <3>4, <3>6 DEF Owned
    <3> QED
      BY <1>0, <3>3, <3>7 DEF IInv
  <2> QED
    BY <2>2, <2>3
<1>3. ASSUME NEW p \in Procs, Flock(p) PROVE IInv'
  <2>1. /\ fd[p] # NoInode /\ Grants(p, Mode(p)) /\ Mode(p) \in {"sh", "ex"}
        /\ lock'[p] = Mode(p) /\ Mode(p)' = Mode(p) /\ pc'[p] = "exists"
        /\ UNCHANGED <<fd, path>>
        /\ \A q \in Procs \ {p} : pc'[q] = pc[q] /\ args'[q] = args[q] /\ lock'[q] = lock[q]
    BY <1>0, <1>3 DEF Flock, Goto, Locked, Mode, IInv, Owned, TypeOK
  <2> QED
    BY <1>0, <2>1, OwnStep
<1>4. ASSUME NEW p \in Procs, GiveUp(p), UNCHANGED <<args, path>> PROVE IInv'
  <2>1. /\ lock'[p] = "none" /\ pc'[p] \in {"open", "idle"}
        /\ \A q \in Procs \ {p} : /\ pc'[q] = pc[q] /\ args'[q] = args[q]
                                  /\ fd'[q] = fd[q] /\ lock'[q] = lock[q]
    BY <1>0, <1>4 DEF GiveUp, Goto, Locked, TypeOK
  <2> QED
    BY <1>0, <1>4, <2>1, OwnStep
<1>5. ASSUME NEW p \in Procs, Exists(p) \/ Stat(p) \/ Unlock(p), UNCHANGED <<fd, lock>>,
             pc' = [pc EXCEPT ![p] = pc'[p]],
             \/ pc[p] = "exists" /\ pc'[p] = "stat"
             \/ pc[p] = "stat" /\ pc'[p] = "held" /\ path = fd[p]
             \/ pc[p] = "held" /\ pc'[p] = "promote"
      PROVE  IInv'
  <2>1. UNCHANGED <<args, path>>
    BY <1>5 DEF Exists, Stat, Unlock
  <2>2. /\ lock[p] \in {Mode(p), "ex"} /\ lock[p] # "none" /\ fd[p] # NoInode
        /\ pc'[p] \in {"held", "promote"} => path = fd[p]
    BY <1>5 DEF IInv, Owned, Mode
  <2>3. Mode(p)' = Mode(p)
    BY <2>1 DEF Mode
  <2>4. \A q \in Procs \ {p} : pc'[q] = pc[q]
    BY <1>0, <1>5 DEF TypeOK
  <2> QED
    BY <1>0, <1>5, <2>1, <2>2, <2>3, <2>4, OwnStep
<1>6. ASSUME NEW p \in Procs, Exists(p) \/ Stat(p) \/ WouldBlock(p) PROVE IInv'
  <2>1. CASE GiveUp(p)
    BY <1>4, <1>6, <2>1 DEF Exists, Stat, WouldBlock
  <2>2. CASE ~GiveUp(p)
    BY <1>0, <1>5, <1>6, <2>2 DEF Exists, Stat, WouldBlock, Goto, TypeOK
  <2> QED
    BY <2>1, <2>2
<1>7. ASSUME NEW p \in Procs, Unlock(p) PROVE IInv'
  BY <1>0, <1>5, <1>7 DEF Unlock, Goto, TypeOK
<1>8. ASSUME NEW p \in Procs, Promote(p) PROVE IInv'
  <2>1. /\ path = fd[p] /\ fd[p] # NoInode /\ UNCHANGED <<args, fd, path>>
        /\ \A q \in Procs \ {p} : pc'[q] = pc[q] /\ lock'[q] = lock[q]
    BY <1>0, <1>8 DEF Promote, Goto, Locked, IInv, Owned, Mode, TypeOK
  <2>2. \/ Grants(p, "ex") /\ lock'[p] = "ex" /\ pc'[p] = "unlink"
        \/ lock'[p] = "none" /\ pc'[p] = "close"
    BY <1>0, <1>8 DEF Promote, Goto, Locked, TypeOK
  <2> QED
    BY <1>0, <2>1, <2>2, OwnStep
\* The process that unlinks has the only lock on the file it unlinks.
<1>9. ASSUME NEW p \in Procs, Unlink(p) PROVE IInv'
  <2>1. /\ lock[p] = "ex" /\ path = fd[p] /\ path' = NoInode /\ pc'[p] = "close"
        /\ UNCHANGED <<args, fd, lock>>
        /\ \A q \in Procs \ {p} : pc'[q] = pc[q]
    BY <1>0, <1>9 DEF Unlink, Goto, IInv, Owned, TypeOK
  <2>2. ASSUME NEW q \in Procs \ {p} PROVE pc[q] \notin {"held", "promote", "unlink"}
    <3> SUFFICES ASSUME pc[q] \in {"held", "promote", "unlink"} PROVE FALSE
      OBVIOUS
    <3>1. fd[q] = fd[p] /\ lock[q] # "none"
      BY <2>1 DEF IInv, Owned, Mode
    <3> QED
      BY <2>1, <3>1 DEF IInv, Compatible
  <2>3. Compatible'
    BY <2>1 DEF IInv, Compatible
  <2>4. \A q \in Procs : Mode(q)' = Mode(q)
    BY <2>1 DEF Mode
  <2>5. Owned'
    BY <2>1, <2>2, <2>4 DEF IInv, Owned
  <2> QED
    BY <1>0, <2>3, <2>5 DEF IInv
<1>10. ASSUME NEW p \in Procs, Close(p) \/ Crash(p) PROVE IInv'
  <2>1. /\ lock'[p] = "none" /\ pc'[p] = "idle" /\ UNCHANGED <<args, path>>
        /\ \A q \in Procs \ {p} : pc'[q] = pc[q] /\ fd'[q] = fd[q] /\ lock'[q] = lock[q]
    BY <1>0, <1>10 DEF Close, Crash, Goto, Locked, TypeOK
  <2> QED
    BY <1>0, <2>1, OwnStep
<1>11. CASE UNCHANGED vars
  BY <1>0, <1>11 DEF vars, IInv, Compatible, Owned, Mode
<1> QED
  BY <1>1, <1>2, <1>3, <1>6, <1>7, <1>8, <1>9, <1>10, <1>11 DEF Next, Step

-----------------------------------------------------------------------------
\* Locks on one inode are compatible, and whoever relies on the lock has it.
THEOREM Invariant == Spec => []IInv
<1>1. Init => IInv
  BY InitIInv
<1>2. IInv /\ [Next]_vars => IInv'
  BY StepIInv
<1> QED
  BY <1>1, <1>2, PTL DEF Spec

\* Every variable keeps its type.
THEOREM TypeCorrect == Spec => []TypeOK
<1>1. IInv => TypeOK
  BY DEF IInv
<1> QED
  BY <1>1, Invariant, PTL

\* While a process holds the lock, the name leads to the file it has locked.
THEOREM HeldOnDisk == Spec => []HolderOnDisk
<1>1. IInv => HolderOnDisk
  BY DEF IInv, Owned, HolderOnDisk, Holds, Mode
<1> QED
  BY <1>1, Invariant, PTL

\* lockfile is a lock: two processes hold it together only if both share it.
THEOREM Exclusion == Spec => []MutualExclusion
<1>1. IInv => MutualExclusion
  <2> SUFFICES ASSUME IInv, NEW p \in Procs, NEW q \in Procs, p # q, Holds(p), Holds(q)
               PROVE  args[p].shared
    BY DEF MutualExclusion
  <2>1. fd[p] = fd[q] /\ lock[q] # "none" /\ lock[p] \in {Mode(p), "ex"}
    BY DEF IInv, Owned, Holds, Mode
  <2>2. lock[p] # "ex"
    BY <2>1 DEF IInv, Compatible
  <2> QED
    BY <2>1, <2>2 DEF Mode
<1> QED
  BY <1>1, Invariant, PTL

-----------------------------------------------------------------------------
\* The process that steps aside leaves the file to another or takes it on.
LEMMA StepTidy == IInv /\ Tidy /\ Next => Kept'
<1> SUFFICES ASSUME IInv, Tidy, Next PROVE Kept'
  OBVIOUS
<1>0. TypeOK /\ TypeOK'
  BY TypeStep DEF IInv
<1>1. ASSUME NEW p \in Procs, Call(p) PROVE Kept'
  <2>1. pc'[p] = "open" /\ UNCHANGED <<fd, lock, path>> /\ \A q \in Procs \ {p} : pc'[q] = pc[q]
    BY <1>0, <1>1 DEF Call, Goto, TypeOK
  <2>2. Cleans(p)'
    BY <2>1 DEF Cleans
  <2> QED
    BY <2>1, <2>2 DEF Tidy, Kept
<1>2. ASSUME NEW p \in Procs, Open(p) PROVE Kept'
  <2>1. /\ pc'[p] = "flock" /\ lock' = lock /\ fd'[p] = path'
        /\ \A q \in Procs \ {p} : pc'[q] = pc[q] /\ fd'[q] = fd[q]
        /\ path' = path \/ \A q \in Procs : fd[q] # path'
    BY <1>0, <1>2 DEF Open, Goto, Free, TypeOK
  <2>2. Cleans(p)'
    BY <2>1 DEF Cleans
  <2> QED
    BY <2>1, <2>2 DEF Tidy, Kept
<1>3. ASSUME NEW p \in Procs, Flock(p) \/ Unlock(p) PROVE Kept'
  <2>1. /\ pc[p] \in {"flock", "held"} /\ pc'[p] \in {"exists", "promote"}
        /\ UNCHANGED <<fd, path, crashes>>
        /\ \A q \in Procs \ {p} : pc'[q] = pc[q] /\ lock'[q] = lock[q]
    BY <1>0, <1>3 DEF Flock, Unlock, Goto, Locked, TypeOK
  <2>2. \A q \in Procs : Cleans(q) => Cleans(q)'
    BY <2>1 DEF Cleans
  <2> QED
    BY <2>1, <2>2 DEF Tidy, Kept
\* Who gives up was not to remove the file, or somebody else has a lock on it.
<1>4. ASSUME NEW p \in Procs, GiveUp(p), UNCHANGED <<path, crashes>>, pc[p] # "idle",
             pc[p] # "close",
             \/ ~Cleans(p)
             \/ path = NoInode
             \/ \E q \in Procs \ {p} : Cleans(q)
      PROVE  Kept'
  <2>1. /\ pc'[p] \in {"open", "idle"}
        /\ \A q \in Procs \ {p} : pc'[q] = pc[q] /\ lock'[q] = lock[q] /\ fd'[q] = fd[q]
    BY <1>0, <1>4 DEF GiveUp, Goto, Locked, TypeOK
  <2>2. \A q \in Procs \ {p} : Cleans(q) => Cleans(q)'
    BY <1>4, <2>1 DEF Cleans
  <2>3. ASSUME crashes = 0, path # NoInode PROVE \E q \in Procs : Cleans(q)'
    <3>1. PICK q \in Procs : Cleans(q)
      BY <1>4, <2>3 DEF Tidy, Kept
    <3> QED
      BY <1>4, <2>2, <2>3, <3>1
  <2> QED
    BY <1>4, <2>1, <2>3 DEF Tidy, Kept
\* A lock in the way is that of a process that has the file to remove.
<1>5. ASSUME NEW p \in Procs, NEW mode, ~Grants(p, mode), fd[p] = path
      PROVE  \E q \in Procs \ {p} : Cleans(q)
  <2>1. PICK q \in Procs \ {p} : fd[q] = fd[p] /\ lock[q] # "none"
    BY <1>5 DEF Grants
  <2>2. pc[q] \notin {"idle", "open", "flock", "close"}
    BY <1>5, <2>1 DEF IInv, Owned, Tidy, Kept
  <2> QED
    BY <1>0, <1>5, <2>1, <2>2 DEF Cleans, TypeOK
<1>6. ASSUME NEW p \in Procs, WouldBlock(p) PROVE Kept'
  <2>1. GiveUp(p) /\ ~Grants(p, Mode(p)) /\ pc[p] = "flock" /\ UNCHANGED <<path, crashes>>
    BY <1>6 DEF WouldBlock
  <2>2. CASE fd[p] = path
    BY <1>4, <1>5, <2>1, <2>2
  <2>3. CASE fd[p] # path
    BY <1>4, <2>1, <2>3 DEF Cleans
  <2> QED
    BY <2>2, <2>3
<1>7. ASSUME NEW p \in Procs, Exists(p) \/ Stat(p) PROVE Kept'
  <2>1. CASE GiveUp(p) /\ (path = NoInode \/ ~Cleans(p))
    BY <1>4, <1>7, <2>1 DEF Exists, Stat
  <2>2. CASE UNCHANGED <<fd, lock>> /\ pc' = [pc EXCEPT ![p] = pc'[p]] /\ pc'[p] \in {"stat", "held"}
    <3>1. /\ pc[p] \in {"exists", "stat"} /\ UNCHANGED <<path, crashes>>
          /\ \A q \in Procs \ {p} : pc'[q] = pc[q]
      BY <1>0, <1>7, <2>2 DEF Exists, Stat, TypeOK
    <3>2. \A q \in Procs : Cleans(q) => Cleans(q)'
      BY <2>2, <3>1 DEF Cleans
    <3> QED
      BY <2>2, <3>1, <3>2 DEF Tidy, Kept
  <2> QED
    BY <1>0, <1>7, <2>1, <2>2 DEF Exists, Stat, Goto, Cleans, TypeOK
<1>8. ASSUME NEW p \in Procs, Promote(p) PROVE Kept'
  <2>1. /\ pc[p] = "promote" /\ fd[p] = path /\ UNCHANGED <<fd, path, crashes>>
        /\ \A q \in Procs \ {p} : pc'[q] = pc[q] /\ lock'[q] = lock[q]
    BY <1>0, <1>8 DEF Promote, Goto, Locked, IInv, Owned, TypeOK
  <2>2. CASE Grants(p, "ex")
    <3>1. pc'[p] = "unlink"
      BY <1>0, <1>8, <2>2 DEF Promote, Goto, TypeOK
    <3>2. Cleans(p)'
      BY <2>1, <3>1 DEF Cleans
    <3> QED
      BY <2>1, <3>1, <3>2 DEF Tidy, Kept
  <2>3. CASE ~Grants(p, "ex")
    <3>1. pc'[p] = "close" /\ lock'[p] = "none"
      BY <1>0, <1>8, <2>3 DEF Promote, Goto, Locked, TypeOK
    <3>2. PICK q \in Procs \ {p} : Cleans(q)
      BY <1>5, <2>1, <2>3
    <3>3. Cleans(q)'
      BY <2>1, <3>2 DEF Cleans
    <3> QED
      BY <2>1, <3>1, <3>3 DEF Tidy, Kept
  <2> QED
    BY <2>2, <2>3
<1>9. ASSUME NEW p \in Procs, Unlink(p) PROVE Kept'
  <2>1. /\ path' = NoInode /\ UNCHANGED <<fd, lock>>
        /\ \A q \in Procs : lock[q] # "none" => fd[q] # NoInode
    BY <1>9 DEF Unlink, IInv, Owned
  <2> QED
    BY <2>1 DEF Tidy, Kept
<1>10. ASSUME NEW p \in Procs, Close(p) PROVE Kept'
  <2>1. /\ pc[p] = "close" /\ pc'[p] = "idle" /\ UNCHANGED <<path, crashes>>
        /\ \A q \in Procs \ {p} : pc'[q] = pc[q] /\ lock'[q] = lock[q] /\ fd'[q] = fd[q]
    BY <1>0, <1>10 DEF Close, Goto, Locked, TypeOK
  <2>2. \A q \in Procs : Cleans(q) => Cleans(q)'
    BY <2>1 DEF Cleans
  <2> QED
    BY <2>1, <2>2 DEF Tidy, Kept
<1>11. ASSUME NEW p \in Procs, Crash(p) PROVE Kept'
  <2>1. /\ crashes' # 0 /\ pc'[p] = "idle" /\ UNCHANGED path
        /\ \A q \in Procs \ {p} : pc'[q] = pc[q] /\ lock'[q] = lock[q] /\ fd'[q] = fd[q]
    BY <1>0, <1>11 DEF Crash, Goto, Locked, TypeOK
  <2> QED
    BY <2>1 DEF Tidy, Kept
<1> QED
  BY <1>1, <1>2, <1>3, <1>6, <1>7, <1>8, <1>9, <1>10, <1>11 DEF Next, Step

\* When no process was killed, the last to finish leaves no lock file behind.
THEOREM LeavesNothing == Spec => NoLitter
<1>1. Init => Tidy
  BY DEF Init, Tidy
<1>2. IInv /\ Tidy /\ [Next]_vars => Tidy'
  <2>1. CASE Next
    BY <2>1, StepTidy DEF Tidy
  <2>2. CASE UNCHANGED vars
    BY <2>2 DEF vars, Tidy, Kept, Cleans
  <2> QED
    BY <2>1, <2>2
<1>3. IInv /\ Tidy /\ [Next]_vars
        => [crashes' = 0 /\ (\E p \in Procs : pc[p] # "idle")
             /\ (\A p \in Procs : pc'[p] = "idle") => path' = NoInode]_vars
  BY StepTidy DEF Kept, Cleans
<1> QED
  BY <1>1, <1>2, <1>3, Invariant, PTL DEF Spec, NoLitter
-----------------------------------------------------------------------------
(* The refinement of Lock.                                                  *)

LEMMA LockInit == Init => AbstractLock!Init
  BY DEF Init, AbstractLock!Init, LockModes, LockMode, Holds

\* What a step of p that leaves the others alone is for the abstract lock.
LEMMA LockMoves ==
  ASSUME NEW p \in Procs, \A q \in Procs \ {p} : LockMode(q)' = LockMode(q),
         \/ LockMode(p)' = LockMode(p)
         \/ LockMode(p)' = "none"
         \/ /\ LockMode(p) = "none" /\ LockMode(p)' \in {"shared", "exclusive"}
            /\ \A q \in Procs \ {p} :
                  AbstractLock!Compatible(LockMode(p)', LockMode(q))
  PROVE  [AbstractLock!Next]_LockModes
<1>1. CASE LockMode(p)' = LockMode(p)
  BY <1>1 DEF LockModes
<1>2. CASE LockMode(p)' = "none"
  <2>1. LockModes' = [LockModes EXCEPT ![p] = "none"]
    BY <1>2 DEF LockModes
  <2> QED
    BY <2>1 DEF AbstractLock!Next, AbstractLock!Release
<1>3. CASE /\ LockMode(p) = "none" /\ LockMode(p)' \in {"shared", "exclusive"}
           /\ \A q \in Procs \ {p} : AbstractLock!Compatible(LockMode(p)', LockMode(q))
  <2>1. LockModes' = [LockModes EXCEPT ![p] = LockMode(p)']
    BY DEF LockModes
  <2>2. AbstractLock!Acquire(p, LockMode(p)')
    BY <1>3, <2>1 DEF AbstractLock!Acquire, LockModes
  <2> QED
    BY <1>3, <2>2 DEF AbstractLock!Next, AbstractLock!Modes
<1> QED
  BY <1>1, <1>2, <1>3

LEMMA LockStep ==
  IInv /\ MutualExclusion' /\ [Next]_vars => [AbstractLock!Next]_LockModes
<1> SUFFICES ASSUME IInv, MutualExclusion', [Next]_vars PROVE [AbstractLock!Next]_LockModes
  OBVIOUS
<1>0. TypeOK /\ TypeOK'
  BY TypeStep DEF IInv
<1>1. ASSUME NEW p \in Procs, Call(p) \/ Step(p) \/ Crash(p)
      PROVE  [AbstractLock!Next]_LockModes
  <2>1. \A q \in Procs \ {p} : pc'[q] = pc[q] /\ args'[q] = args[q]
    BY <1>0, <1>1 DEF Call, Step, Crash, Open, Flock, WouldBlock, Exists, Stat, Unlock, Promote,
       Unlink, Close, GiveUp, Goto, TypeOK
  <2>2. \A q \in Procs \ {p} : LockMode(q)' = LockMode(q)
    BY <2>1 DEF LockMode, Holds
  <2>3. CASE pc'[p] # "held"
    BY <2>2, <2>3, LockMoves DEF LockMode, Holds
  <2>4. CASE pc'[p] = "held"
    <3>1. pc[p] = "stat" /\ args' = args
      BY <1>0, <1>1, <2>4 DEF Call, Step, Crash, Open, Flock, WouldBlock, Exists, Stat, Unlock,
         Promote, Unlink, Close, GiveUp, Goto, TypeOK
    <3>2. LockMode(p) = "none" /\ LockMode(p)' \in {"shared", "exclusive"}
      BY <2>4, <3>1 DEF LockMode, Holds
    <3>3. ASSUME NEW q \in Procs \ {p}
          PROVE  AbstractLock!Compatible(LockMode(p)', LockMode(q))
      BY <2>1, <2>4, <3>1 DEF MutualExclusion, Holds, LockMode, AbstractLock!Compatible
    <3> QED
      BY <2>2, <3>2, <3>3, LockMoves
  <2> QED
    BY <2>3, <2>4
<1>2. CASE UNCHANGED vars
  BY <1>2 DEF vars, LockModes, LockMode, Holds
<1> QED
  BY <1>1, <1>2 DEF Next

\* lockfile and unlockfile implement a lock that is taken and given back in one step.
THEOREM ImplementsLock == Spec => LockSpec
<1>1. IInv /\ MutualExclusion' /\ [Next]_vars => [AbstractLock!Next]_LockModes
  BY LockStep
<1> QED
  BY <1>1, LockInit, Invariant, Exclusion, PTL DEF Spec, LockSpec, AbstractLock!Spec
=============================================================================
