------------------------ MODULE MultiProcessCache_proofs ------------------------
(****************************************************************************)
(* Theorems about MultiProcessCache, for any number of cookers and parsers, *)
(* whatever they find, whoever shares the directory and however many of     *)
(* them are killed.                                                         *)
(****************************************************************************)
EXTENDS MultiProcessCache, TLAPS

-----------------------------------------------------------------------------
(* Types.                                                                   *)

PcLabels == {"gone", "init", "read", "idle", "parse", "join", "merge"} \cup Saving \cup Merging

LEMMA Files ==
  /\ \A kind \in {"none", "empty", "cut", "old", "full"} : Bare(kind) \in File
  /\ \A S \in SUBSET Entry : Full(S) \in File
  /\ \A kind : Bare(kind).kind = kind
  /\ \A S : Full(S).kind = "full" /\ Full(S).data = S
  BY DEF Bare, Full, File

LEMMA InitTyped == Init => TypeOK
<1> SUFFICES ASSUME Init PROVE TypeOK
  OBVIOUS
<1>1. PICK kind \in {"none", "old"} :
          /\ file = [s \in Slot |-> Bare(IF s = 1 THEN kind ELSE "none")]
          /\ cachefile = Bare(kind)
  BY DEF Init
<1>2. file \in [Slot -> File] /\ cachefile \in File
  BY <1>1, Files
<1> QED
  BY <1>2 DEF Init, TypeOK

\* The types of what a process has of its own.
OwnTyped ==
    /\ pc \in [Proc -> PcLabels]
    /\ owner \in [Parser -> Cooker \cup {NoCooker}]
    /\ data \in [Proc -> SUBSET Entry]
    /\ extras \in [Proc -> SUBSET Entry]
    /\ slot \in [Proc -> Nat]

LEMMA GotoTyped ==
  ASSUME TypeOK, NEW p \in Proc, NEW label \in PcLabels, Goto(p, label)
  PROVE  pc' \in [Proc -> PcLabels]
  BY DEF TypeOK, Goto, PcLabels

LEMMA EndsTyped == ASSUME TypeOK, NEW p \in Proc, Ends(p) PROVE OwnTyped'
<1>1. pc' \in [Proc -> PcLabels]
  BY GotoTyped DEF Ends, PcLabels
<1>2. owner' \in [Parser -> Cooker \cup {NoCooker}]
  BY DEF Ends, TypeOK
<1>3. data' \in [Proc -> SUBSET Entry] /\ extras' \in [Proc -> SUBSET Entry] /\ slot' \in [Proc -> Nat]
  BY DEF Ends, TypeOK
<1> QED
  BY <1>1, <1>2, <1>3 DEF OwnTyped

LEMMA AfterSaveTyped == ASSUME TypeOK, NEW p \in Proc, AfterSave(p) PROVE OwnTyped'
<1>1. CASE p \in Cooker
  <2>1. pc' \in [Proc -> PcLabels]
    BY <1>1, GotoTyped DEF AfterSave, PcLabels
  <2>2. slot' = [slot EXCEPT ![p] = 0] /\ UNCHANGED <<data, extras, owner>>
    BY <1>1 DEF AfterSave
  <2>3. slot' \in [Proc -> Nat]
    BY <2>2 DEF TypeOK
  <2> QED
    BY <2>1, <2>2, <2>3 DEF TypeOK, OwnTyped
<1>2. CASE p \notin Cooker
  BY <1>2, EndsTyped DEF AfterSave
<1> QED
  BY <1>1, <1>2

LEMMA TypeStep == TypeOK /\ [Next]_vars => TypeOK'
<1> SUFFICES ASSUME TypeOK, [Next]_vars PROVE TypeOK'
  OBVIOUS
<1> USE DEF PcLabels
<1>0. Cooker \subseteq Proc /\ Parser \subseteq Proc
  BY DEF Proc
<1>1. ASSUME NEW k \in Cooker, Boot(k) \/ InitLock(k) PROVE TypeOK'
  BY <1>0, <1>1 DEF Boot, InitLock, Goto, TypeOK
<1>2. ASSUME NEW k \in Cooker, ReadCache(k) PROVE TypeOK'
  <2>1. (IF cachefile.kind = "full" THEN cachefile.data ELSE {}) \in SUBSET Entry
    BY DEF TypeOK, File
  <2>2. events' \subseteq Events
    BY <1>2 DEF ReadCache, TypeOK, Events
  <2> QED
    BY <1>0, <1>2, <2>1, <2>2 DEF ReadCache, Goto, TypeOK
<1>3. ASSUME NEW k \in Cooker, Quit(k) PROVE TypeOK'
  <2>1. OwnTyped'
    BY <1>0, <1>3, EndsTyped DEF Quit
  <2> QED
    BY <1>3, <2>1 DEF Quit, TypeOK, OwnTyped
<1>4. ASSUME NEW k \in Cooker, StartParse(k) PROVE TypeOK'
  BY <1>0, <1>4 DEF StartParse, TypeOK
<1>5. ASSUME NEW p \in Proc, NEW e \in Entry, Find(p, e) PROVE TypeOK'
  BY <1>5 DEF Find, TypeOK
<1>6. ASSUME NEW p \in Proc, EndParse(p) PROVE TypeOK'
  BY <1>6 DEF EndParse, Goto, TypeOK, Saving
<1>7. ASSUME NEW k \in Cooker, Joined(k) PROVE TypeOK'
  BY <1>0, <1>7 DEF Joined, Goto, TypeOK, Saving
<1>8. ASSUME NEW k \in Cooker, NEW p \in Parser, Terminate(k, p) PROVE TypeOK'
  <2>1. OwnTyped'
    BY <1>0, <1>8, EndsTyped DEF Terminate
  <2> QED
    BY <1>8, <2>1 DEF Terminate, TypeOK, OwnTyped, Torn, Events
<1>9. ASSUME NEW p \in Proc, SaveNothing(p) \/ Leave(p) PROVE TypeOK'
  <2>1. OwnTyped'
    BY <1>9, AfterSaveTyped DEF SaveNothing, Leave
  <2> QED
    BY <1>9, <2>1 DEF SaveNothing, Leave, TypeOK, OwnTyped
<1>10. ASSUME NEW p \in Proc, SaveLock(p) PROVE TypeOK'
  <2>1. Pid[p] \in Nat
    BY ProcAssumption, BoundsAssumption DEF Slot
  <2> QED
    BY <1>10, <2>1 DEF SaveLock, Goto, TypeOK, Saving
<1>11. ASSUME NEW p \in Proc, NextName(p) PROVE TypeOK'
  BY <1>11 DEF NextName, TypeOK
<1>12. ASSUME NEW p \in Proc, TakeName(p) PROVE TypeOK'
  BY <1>12 DEF TakeName, Goto, TypeOK, Saving
<1>13. ASSUME NEW p \in Proc, OpenExtras(p) \/ WriteSome(p) PROVE TypeOK'
  <2>1. PICK kind \in {"empty", "cut"} : file' = [file EXCEPT ![slot[p]] = Bare(kind)]
    BY <1>13 DEF OpenExtras, WriteSome
  <2>2. file' \in [Slot -> File]
    BY <2>1, Files DEF TypeOK
  <2> QED
    BY <1>13, <2>2 DEF OpenExtras, WriteSome, Goto, TypeOK, Saving
<1>14. ASSUME NEW p \in Proc, WriteRest(p) PROVE TypeOK'
  <2>1. extras[p] \in SUBSET Entry
    BY DEF TypeOK
  <2>2. file' \in [Slot -> File]
    BY <1>14, <2>1, Files DEF WriteRest, TypeOK
  <2> QED
    BY <1>14, <2>1, <2>2 DEF WriteRest, Goto, TypeOK, Saving
<1>15. ASSUME NEW k \in Cooker, MergeLock(k) \/ MergeEnd(k) PROVE TypeOK'
  BY <1>0, <1>15 DEF MergeLock, MergeEnd, Goto, TypeOK, Merging
<1>16. ASSUME NEW k \in Cooker, NEW s \in Slot, MergeFile(k, s) PROVE TypeOK'
  <2>1. file' \in [Slot -> File]
    BY <1>16, Files DEF MergeFile, Removed, TypeOK
  <2>2. data' \in [Proc -> SUBSET Entry]
    BY <1>16 DEF MergeFile, merge_data, TypeOK, File
  <2> QED
    BY <1>16, <2>1, <2>2 DEF MergeFile, Removed, TypeOK
<1>17. ASSUME NEW k \in Cooker, NEW s \in Slot, DropFile(k, s) PROVE TypeOK'
  <2>1. file' \in [Slot -> File]
    BY <1>17, Files DEF DropFile, Removed, TypeOK
  <2> QED
    BY <1>17, <2>1 DEF DropFile, Removed, TypeOK, Events
<1>18. ASSUME NEW k \in Cooker, NEW s \in Slot, MergeFails(k, s) PROVE TypeOK'
  <2>1. OwnTyped'
    BY <1>0, <1>18, EndsTyped DEF MergeFails
  <2> QED
    BY <1>18, <2>1 DEF MergeFails, TypeOK, OwnTyped, Events
<1>19. ASSUME NEW k \in Cooker, OpenCache(k) \/ WriteCacheSome(k) PROVE TypeOK'
  <2>1. cachefile' \in File
    BY <1>19, Files DEF OpenCache, WriteCacheSome
  <2> QED
    BY <1>0, <1>19, <2>1 DEF OpenCache, WriteCacheSome, Goto, TypeOK, Merging
<1>20. ASSUME NEW k \in Cooker, WriteCacheRest(k) PROVE TypeOK'
  <2>1. data[k] \in SUBSET Entry
    BY <1>0 DEF TypeOK
  <2>2. cachefile' \in File
    BY <1>20, <2>1, Files DEF WriteCacheRest
  <2> QED
    BY <1>0, <1>20, <2>1, <2>2 DEF WriteCacheRest, Goto, TypeOK
<1>21. ASSUME NEW p \in Proc, Kill(p) PROVE TypeOK'
  <2>1. OwnTyped'
    BY <1>21, EndsTyped DEF Kill
  <2>2. events' \subseteq Events
    BY <1>21 DEF Kill, Torn, TypeOK, Events
  <2> QED
    BY <1>21, <2>1, <2>2 DEF Kill, TypeOK, OwnTyped
<1>22. CASE UNCHANGED vars
  BY <1>22 DEF vars, TypeOK
<1> QED
  BY <1>0, <1>1, <1>2, <1>3, <1>4, <1>5, <1>6, <1>7, <1>8, <1>9, <1>10, <1>11, <1>12, <1>13,
     <1>14, <1>15, <1>16, <1>17, <1>18, <1>19, <1>20, <1>21, <1>22
     DEF Next, Work, Manage, Save, Merge

\* Every variable has its type (init_cache, save_extras, save_merge).
THEOREM TypeCorrect == Spec => []TypeOK
  BY InitTyped, TypeStep, PTL DEF Spec

-----------------------------------------------------------------------------
(* The invariant.                                                           *)

Holding == {"open", "write", "write rest", "leave"}
Writing == {"write", "write rest"}
CookerOnly == {"init", "read", "idle", "join", "merge"} \cup Merging
Owning == Merging \cup {"read"}
Sharing == Saving \ {"save"}
Rewriting == {"rewrite", "write cache", "write cache rest"}

\* A process is where it may be.
Placed ==
    \A p \in Proc : /\ pc[p] # "gone" => p \in users
                    /\ pc[p] \in CookerOnly => p \in Cooker

\* The lock on the cache: one owner, or sharers.
Locked ==
    \A p, q \in Proc : pc[p] \in Owning => /\ pc[q] \in Owning => p = q
                                           /\ pc[q] \notin Sharing

\* The locks on the names of extras files.
Named ==
    \A p \in Proc : pc[p] \in Holding =>
        /\ slot[p] \in Slot
        /\ \A q \in Proc : pc[q] \in Holding /\ slot[q] = slot[p] => q = p

\* What is incomplete is being written, or its writer was killed.
Incomplete == {"empty", "cut"}
Extras ==
    /\ \A p \in Proc : /\ pc[p] = "open" => file[slot[p]].kind = "none"
                       /\ pc[p] \in Writing => file[slot[p]].kind \in Incomplete
    /\ \A s \in Slot : file[s].kind \in Incomplete =>
          "torn" \in events \/ \E p \in Proc : pc[p] \in Writing /\ slot[p] = s
Merged ==
    cachefile.kind \in Incomplete =>
        "stopped" \in events \/ \E k \in Cooker : pc[k] \in Rewriting \ {"rewrite"}

\* Where the data of a process comes from: it was in the cache file once, or in extras.
Merges(p) == pc[p] \in Merging /\ have_data
Known ==
    /\ cachefile.kind = "full" => cachefile.data \subseteq written
    /\ \A p \in Proc : /\ pc[p] \in Rewriting => have_data
                       /\ data[p] \subseteq written \/ Merges(p)

\* The only cooker has what is in the cache file, and is the only one to write it.
Loaded ==
    Alone => \A k \in Cooker : pc[k] \notin {"gone", "init", "read"} =>
        /\ \A e \in Entry : InCache(e) => e \in data[k]
        /\ Merges(k) \/ \A e \in data[k] : InCache(e)

IInv == TypeOK /\ Placed /\ Locked /\ Named /\ Extras /\ Merged /\ Known /\ Loaded
        /\ IncompleteOnlyAfterKill /\ NothingLost

-----------------------------------------------------------------------------
(* Steps of one process.                                                    *)

\* The others stay as they are.
OnlyOf(p) ==
    /\ users' = users
    /\ \A q \in Proc \ {p} : pc'[q] = pc[q] /\ slot'[q] = slot[q] /\ data'[q] = data[q]

LEMMA EndsOnlyOf ==
  ASSUME TypeOK, NEW p \in Proc, Ends(p), users' = users
  PROVE  OnlyOf(p) /\ pc'[p] = "gone" /\ data'[p] = {} /\ slot'[p] = 0
  BY DEF Ends, Goto, TypeOK, OnlyOf

LEMMA AfterSaveOnlyOf ==
  ASSUME TypeOK, NEW p \in Proc, AfterSave(p), users' = users
  PROVE  /\ OnlyOf(p)
         /\ \/ p \in Cooker /\ pc'[p] = "merge" /\ data'[p] = data[p]
            \/ p \notin Cooker /\ pc'[p] = "gone" /\ data'[p] = {}
<1>1. CASE p \in Cooker
  BY <1>1 DEF AfterSave, Goto, TypeOK, OnlyOf
<1>2. CASE p \notin Cooker
  BY <1>2, EndsOnlyOf DEF AfterSave
<1> QED
  BY <1>1, <1>2

\* The locks, as far as they depend on where p goes.
LEMMA LocksKept ==
  ASSUME Placed, Locked, Named, NEW p \in Proc, OnlyOf(p),
         pc'[p] # "gone" => p \in users,
         pc'[p] \in CookerOnly => p \in Cooker,
         pc'[p] \in Owning => pc[p] \in Owning \/ Exclusive,
         pc'[p] \in Sharing => pc[p] \in Sharing \/ Shared,
         pc'[p] \in Holding => /\ slot'[p] \in Slot
                               /\ \/ pc[p] \in Holding /\ slot'[p] = slot[p]
                                  \/ ~Held(slot'[p])
  PROVE  Placed' /\ Locked' /\ Named'
<1>1. Placed'
  BY DEF Placed, OnlyOf
<1>2. \A q, r \in Proc : pc'[q] \in Owning => /\ pc'[r] \in Owning => q = r
                                              /\ pc'[r] \notin Sharing
  <2>0. \A q \in Proc \ {p} : pc'[q] = pc[q]
    BY DEF OnlyOf
  <2>1. Owning \cap Sharing = {}
    BY DEF Owning, Sharing, Merging, Saving
  <2>2. pc'[p] \in Owning => \A q \in Proc \ {p} : pc[q] \notin Owning /\ pc[q] \notin Sharing
    BY DEF Locked, Exclusive, Owners, Sharers, Owning, Sharing
  <2>3. pc'[p] \in Sharing => \A q \in Proc \ {p} : pc[q] \notin Owning
    BY DEF Locked, Shared, Owners, Owning
  <2> QED
    BY <2>0, <2>1, <2>2, <2>3 DEF Locked
<1>3. ASSUME NEW q \in Proc, pc'[q] \in Holding
      PROVE  /\ slot'[q] \in Slot
             /\ \A r \in Proc : pc'[r] \in Holding /\ slot'[r] = slot'[q] => r = q
  <2>1. \A r \in Proc \ {p} : pc'[r] = pc[r] /\ slot'[r] = slot[r]
    BY DEF OnlyOf
  <2>2. pc'[p] \in Holding => \A r \in Proc \ {p} : pc[r] \in Holding => slot[r] # slot'[p]
    BY DEF Named, Held, Holding
  <2> QED
    BY <1>3, <2>1, <2>2 DEF Named
<1> QED
  BY <1>1, <1>2, <1>3 DEF Locked, Named

\* The extras files are not touched.
LEMMA ExtrasKept ==
  ASSUME Extras, NEW p \in Proc, OnlyOf(p), file' = file, events \subseteq events',
         pc'[p] = "open" => file[slot'[p]].kind = "none",
         pc'[p] \notin Writing,
         pc[p] \in Writing => "torn" \in events'
  PROVE  Extras'
<1>1. \A q \in Proc : /\ pc'[q] = "open" => file'[slot'[q]].kind = "none"
                      /\ pc'[q] \in Writing => file'[slot'[q]].kind \in Incomplete
  BY DEF Extras, OnlyOf
<1>2. ASSUME NEW s \in Slot, file'[s].kind \in Incomplete
      PROVE  "torn" \in events' \/ \E q \in Proc : pc'[q] \in Writing /\ slot'[q] = s
  <2>1. "torn" \in events \/ \E q \in Proc : pc[q] \in Writing /\ slot[q] = s
    BY <1>2 DEF Extras
  <2> QED
    BY <2>1 DEF OnlyOf
<1> QED
  BY <1>1, <1>2 DEF Extras

LEMMA CachesKept ==
  ASSUME Merged, Known, Loaded, Placed, NEW p \in Proc, OnlyOf(p),
         UNCHANGED <<cachefile, written, have_data>>, events \subseteq events',
         pc[p] \notin Merging, pc'[p] \notin Merging,
         data'[p] \subseteq data[p],
         pc'[p] \notin {"gone", "init", "read"} => pc[p] \notin {"gone", "init", "read"} /\ data'[p] = data[p]
  PROVE  Merged' /\ Known' /\ Loaded'
<1>1. \A q \in Proc \ {p} : pc'[q] = pc[q] /\ data'[q] = data[q]
  BY DEF OnlyOf
<1>2. Rewriting \subseteq Merging
  BY DEF Rewriting, Merging
<1>3. Merged'
  BY <1>1, <1>2, ProcAssumption DEF Merged, Proc
<1>4. Known'
  BY <1>1, <1>2 DEF Known, Merges
<1>5. ASSUME Alone', NEW k \in Cooker, pc'[k] \notin {"gone", "init", "read"}
      PROVE  /\ \A e \in Entry : InCache(e)' => e \in data'[k]
             /\ Merges(k)' \/ \A e \in data'[k] : InCache(e)'
  <2>1. Alone /\ k \in Proc /\ \A e : InCache(e)' <=> InCache(e)
    BY <1>5 DEF Alone, OnlyOf, Proc, InCache
  <2>2. pc[k] \notin {"gone", "init", "read"} /\ data'[k] = data[k]
    BY <1>1, <1>5, <2>1
  <2>3. Merges(k)' <=> Merges(k)
    BY <1>1, <2>1 DEF Merges
  <2> QED
    BY <2>1, <2>2, <2>3 DEF Loaded
<1> QED
  BY <1>3, <1>4, <1>5 DEF Loaded

\* What is in the files, and in the hands of those who merge, stays.
LEMMA NothingLostKept ==
  ASSUME NothingLost, users' = users, saved' = saved, events \subseteq events',
         written \subseteq written',
         events' \cap {"failed", "stopped"} = {} =>
            \A e \in saved : /\ InExtras(e) => InExtras(e)' \/ InHand(e)'
                             /\ InHand(e) => \/ InHand(e)'
                                             \/ IF Alone THEN InCache(e)' ELSE e \in written'
                             /\ Alone /\ InCache(e) => InCache(e)' \/ InHand(e)'
  PROVE  NothingLost'
<1> SUFFICES ASSUME events' \cap {"failed", "stopped"} = {}, NEW e \in saved
             PROVE  InExtras(e)' \/ InHand(e)' \/ IF Alone' THEN InCache(e)' ELSE e \in written'
  BY DEF NothingLost
<1>1. Alone' <=> Alone
  BY DEF Alone
<1>2. InExtras(e) \/ InHand(e) \/ IF Alone THEN InCache(e) ELSE e \in written
  BY DEF NothingLost
<1> QED
  BY <1>1, <1>2

\* A process goes on, or ends, without having been merging.
LEMMA Quiet ==
  ASSUME IInv, TypeOK', NEW p \in Proc, OnlyOf(p),
         UNCHANGED <<file, cachefile, have_data, saved, written>>,
         events \subseteq events', events' \subseteq events \cup {"torn", "killed"},
         pc[p] \notin Merging, pc'[p] \notin Merging,
         pc'[p] # "gone" => p \in users,
         pc'[p] \in CookerOnly => p \in Cooker,
         pc'[p] = "read" => Exclusive,
         pc'[p] \in Sharing => pc[p] \in Sharing \/ Shared,
         pc'[p] \in Holding => pc'[p] = "open" /\ slot'[p] \in Slot /\ ~Taken(slot'[p]),
         pc[p] \in Writing => "torn" \in events',
         data'[p] \subseteq data[p],
         pc'[p] \notin {"gone", "init", "read"} => pc[p] \notin {"gone", "init", "read"} /\ data'[p] = data[p]
  PROVE  IInv'
<1>1. Placed' /\ Locked' /\ Named'
  BY LocksKept DEF IInv, Owning, Taken
<1>2. Extras'
  BY ExtrasKept DEF IInv, Taken, Holding, Writing
<1>3. Merged' /\ Known' /\ Loaded'
  BY CachesKept DEF IInv
<1>4. IncompleteOnlyAfterKill'
  BY DEF IInv, IncompleteOnlyAfterKill
<1>5. NothingLost'
  <2>1. ASSUME NEW e PROVE InExtras(e)' = InExtras(e) /\ InCache(e)' = InCache(e)
    BY DEF InExtras, InCache
  <2>2. ASSUME NEW e, InHand(e) PROVE InHand(e)'
    BY <2>2 DEF InHand, OnlyOf, Proc
  <2> QED
    BY <2>1, <2>2, NothingLostKept DEF IInv, OnlyOf
<1> QED
  BY <1>1, <1>2, <1>3, <1>4, <1>5 DEF IInv

-----------------------------------------------------------------------------
(* Starting, parsing, ending.                                               *)

LEMMA Labels ==
  /\ Cooker \subseteq Proc /\ Parser \subseteq Proc
  /\ {"gone", "init", "parse", "save", "join", "merge", "idle", "read", "seek"} \cap Holding = {}
  /\ {"gone", "init", "parse", "save", "join", "merge", "idle", "read"} \cap Sharing = {}
  /\ Merging \cap (Sharing \cup Holding) = {} /\ Merging \subseteq CookerOnly /\ Merging \subseteq Owning
  /\ (Saving \cup {"gone", "init", "read", "parse", "join", "merge", "idle"}) \cap Merging = {}
  /\ Writing \subseteq Holding /\ Holding \subseteq Sharing /\ Rewriting \subseteq Merging
  /\ {"gone", "parse", "save"} \cap CookerOnly = {} /\ Sharing \cap CookerOnly = {}
  BY DEF Proc, Holding, Sharing, Merging, Saving, CookerOnly, Owning, Writing, Rewriting

LEMMA ManageStep ==
  ASSUME IInv, TypeOK', NEW k \in Cooker, Boot(k) \/ InitLock(k) \/ Quit(k) \/ Joined(k)
  PROVE  IInv'
<1>1. k \in Proc
  BY DEF Proc
<1>2. CASE Boot(k)
  <2>1. OnlyOf(k) /\ pc[k] = "gone" /\ pc'[k] = "init" /\ data'[k] = data[k] /\ k \in users
    BY <1>1, <1>2 DEF Boot, Goto, OnlyOf, IInv, TypeOK
  <2> QED
    BY <1>1, <1>2, <2>1, Quiet, Labels DEF Boot, Writing
<1>3. CASE InitLock(k)
  <2>1. OnlyOf(k) /\ pc[k] = "init" /\ pc'[k] = "read" /\ data'[k] = data[k] /\ Exclusive
    BY <1>1, <1>3 DEF InitLock, Goto, OnlyOf, IInv, TypeOK
  <2>2. k \in users
    BY <1>1, <2>1 DEF IInv, Placed
  <2> QED
    BY <1>1, <1>3, <2>1, <2>2, Quiet, Labels DEF InitLock, Writing
<1>4. CASE Quit(k)
  <2>1. OnlyOf(k) /\ pc[k] = "idle" /\ pc'[k] = "gone" /\ data'[k] = {}
    BY <1>1, <1>4, EndsOnlyOf DEF Quit, IInv
  <2> QED
    BY <1>1, <1>4, <2>1, Quiet, Labels DEF Quit, Writing
<1>5. CASE Joined(k)
  <2>1. OnlyOf(k) /\ pc[k] = "join" /\ pc'[k] = "save" /\ data'[k] = data[k]
    BY <1>1, <1>5 DEF Joined, Goto, OnlyOf, IInv, TypeOK
  <2>2. k \in users
    BY <1>1, <2>1 DEF IInv, Placed
  <2> QED
    BY <1>1, <1>5, <2>1, <2>2, Quiet, Labels DEF Joined, Writing
<1> QED
  BY <1>2, <1>3, <1>4, <1>5

LEMMA StartParseStep ==
  ASSUME IInv, TypeOK', NEW k \in Cooker, StartParse(k) PROVE IInv'
<1>1. PICK P \in SUBSET {p \in users \cap Parser : pc[p] = "gone"} :
          /\ pc' = [p \in Proc |-> IF p \in P \cup {k} THEN "parse" ELSE pc[p]]
          /\ data' = [p \in Proc |-> IF p \in P THEN data[k] ELSE data[p]]
  BY DEF StartParse
<1>2. /\ pc[k] = "idle" /\ k \in Proc /\ k \in users /\ k \notin P
      /\ UNCHANGED <<users, slot, file, cachefile, have_data, saved, written, events>>
  BY <1>1, ProcAssumption DEF StartParse, Proc, IInv, Placed
<1>3. \A p \in P \cup {k} : /\ p \in users /\ pc[p] \in {"gone", "idle"} /\ pc'[p] = "parse"
                            /\ data'[p] = data[k]
  BY <1>1, <1>2 DEF Proc
<1>4. \A p \in Proc \ (P \cup {k}) : pc'[p] = pc[p] /\ data'[p] = data[p]
  BY <1>1
<1>5. Placed'
  BY <1>2, <1>3, <1>4, Labels DEF IInv, Placed
<1>6. \A p \in Proc : pc'[p] # pc[p] => pc'[p] \notin Owning \cup Sharing
  BY <1>3, <1>4, Labels DEF Owning
<1>7. Locked'
  <2> SUFFICES ASSUME NEW p \in Proc, NEW q \in Proc, pc'[p] \in Owning
               PROVE  (pc'[q] \in Owning => p = q) /\ pc'[q] \notin Sharing
    BY DEF Locked
  <2>1. pc[p] \in Owning
    BY <1>6
  <2>2. (pc[q] \in Owning => p = q) /\ pc[q] \notin Sharing
    BY <2>1 DEF IInv, Locked
  <2> QED
    BY <1>6, <2>2
<1>8. \A p \in Proc : pc'[p] \in Holding => pc[p] = pc'[p]
  BY <1>6, Labels
<1>9. Named'
  BY <1>2, <1>8 DEF IInv, Named
<1>10. Extras'
  <2>1. \A p \in Proc : pc[p] \in Writing => pc'[p] = pc[p]
    BY <1>3, <1>4 DEF Writing
  <2>2. \A p \in Proc : /\ pc'[p] = "open" => file'[slot'[p]].kind = "none"
                        /\ pc'[p] \in Writing => file'[slot'[p]].kind \in Incomplete
    BY <1>2, <1>8, Labels DEF IInv, Extras, Holding
  <2>3. ASSUME NEW s \in Slot, file'[s].kind \in Incomplete
        PROVE  "torn" \in events' \/ \E p \in Proc : pc'[p] \in Writing /\ slot'[p] = s
    BY <1>2, <2>1, <2>3 DEF IInv, Extras
  <2> QED
    BY <2>2, <2>3 DEF Extras
<1>11. \A p \in Proc : pc[p] \in Merging \/ pc'[p] \in Merging => pc'[p] = pc[p] /\ data'[p] = data[p]
  BY <1>3, <1>4, Labels
<1>12. Merged'
  BY <1>2, <1>11, Labels DEF IInv, Merged, Rewriting
<1>13. Known'
  <2>1. data[k] \subseteq written
    BY <1>2, Labels DEF IInv, Known, Merges
  <2>2. \A p \in Proc : pc'[p] \in Rewriting => have_data'
    BY <1>2, <1>11, Labels DEF IInv, Known
  <2>3. ASSUME NEW p \in Proc PROVE data'[p] \subseteq written' \/ Merges(p)'
    <3>1. CASE p \in P \cup {k}
      BY <1>2, <1>3, <2>1, <3>1
    <3>2. CASE p \notin P \cup {k}
      BY <1>2, <1>4, <3>2 DEF IInv, Known, Merges
    <3> QED
      BY <3>1, <3>2
  <2> QED
    BY <1>2, <2>2, <2>3 DEF IInv, Known
<1>14. Loaded'
  <2> SUFFICES ASSUME Alone', NEW j \in Cooker, pc'[j] \notin {"gone", "init", "read"}
               PROVE  /\ \A e \in Entry : InCache(e)' => e \in data'[j]
                      /\ Merges(j)' \/ \A e \in data'[j] : InCache(e)'
    BY DEF Loaded
  <2>1. Alone /\ j \in Proc /\ j \notin P /\ \A e : InCache(e)' <=> InCache(e)
    BY <1>2, ProcAssumption DEF Alone, Proc, InCache
  <2>2. data'[j] = data[j] /\ pc[j] \notin {"gone", "init", "read"}
    BY <1>2, <1>3, <1>4, <2>1
  <2>3. Merges(j) => Merges(j)'
    BY <1>2, <1>11, <2>1 DEF Merges
  <2> QED
    BY <2>1, <2>2, <2>3 DEF IInv, Loaded
<1>15. IncompleteOnlyAfterKill'
  BY <1>2 DEF IInv, IncompleteOnlyAfterKill
<1>16. NothingLost'
  <2>1. ASSUME NEW e PROVE InExtras(e)' = InExtras(e) /\ InCache(e)' = InCache(e)
    BY <1>2 DEF InExtras, InCache
  <2>2. ASSUME NEW e, InHand(e) PROVE InHand(e)'
    BY <2>2, <1>11, Labels DEF InHand
  <2> QED
    BY <1>2, <2>1, <2>2, NothingLostKept DEF IInv
<1> QED
  BY <1>5, <1>7, <1>9, <1>10, <1>12, <1>13, <1>14, <1>15, <1>16 DEF IInv

LEMMA ParseStep ==
  ASSUME IInv, TypeOK', NEW p \in Proc, EndParse(p) PROVE IInv'
<1>1. /\ OnlyOf(p) /\ pc[p] = "parse" /\ data'[p] = data[p]
      /\ pc'[p] = IF p \in Cooker THEN "join" ELSE "save"
  BY DEF EndParse, Goto, OnlyOf, IInv, TypeOK
<1>2. p \in users
  BY <1>1 DEF IInv, Placed
<1> QED
  BY <1>1, <1>2, Quiet, Labels DEF EndParse, Writing

\* Nothing that the invariant speaks of changes.
LEMMA SameStep ==
  ASSUME IInv, TypeOK',
         UNCHANGED <<users, pc, data, slot, file, cachefile, have_data, saved, written, events>>
  PROVE  IInv'
<1>1. Placed' /\ Locked' /\ Named' /\ Extras' /\ Merged'
  BY DEF IInv, Placed, Locked, Named, Extras, Merged
<1>2. Known' /\ Loaded'
  BY DEF IInv, Known, Loaded, Merges, Alone, InCache
<1>3. IncompleteOnlyAfterKill' /\ NothingLost'
  BY DEF IInv, IncompleteOnlyAfterKill, NothingLost, Alone, InCache, InHand, InExtras
<1> QED
  BY <1>1, <1>2, <1>3 DEF IInv

LEMMA TerminateStep ==
  ASSUME IInv, TypeOK', NEW k \in Cooker, NEW p \in Parser, Terminate(k, p) PROVE IInv'
<1>1. p \in Proc /\ p \notin Cooker
  BY ProcAssumption DEF Proc
<1>2. OnlyOf(p) /\ pc'[p] = "gone" /\ data'[p] = {}
  BY <1>1, EndsOnlyOf DEF Terminate, IInv
<1>3. pc[p] \notin Merging
  BY <1>1, Labels DEF IInv, Placed
<1>4. events' = events \cup Torn(p)
  BY DEF Terminate
<1> QED
  BY <1>1, <1>2, <1>3, <1>4, Quiet, Labels DEF Terminate, Torn, Writing

LEMMA KillStep ==
  ASSUME IInv, TypeOK', NEW p \in Proc, Kill(p) PROVE IInv'
<1>1. /\ OnlyOf(p) /\ pc'[p] = "gone" /\ data'[p] = {}
      /\ UNCHANGED <<file, cachefile, have_data, saved, written>>
  BY EndsOnlyOf DEF Kill, IInv
<1>2. pc[p] \in Merging => p \in Cooker /\ p \notin Parser
  BY Labels, ProcAssumption DEF IInv, Placed
<1>3. CASE pc[p] \notin Merging
  <2>1. events' \subseteq events \cup {"torn", "killed"} /\ events \subseteq events'
        /\ (pc[p] \in Writing => "torn" \in events')
    BY <1>3 DEF Kill, Torn, Writing
  <2> QED
    BY <1>1, <1>3, <2>1, Quiet, Labels
<1>4. CASE pc[p] \in Merging
  <2>1. events' = events \cup {"stopped"}
    BY <1>2, <1>4, Labels DEF Kill, Torn, Writing
  <2>2. Placed' /\ Locked' /\ Named'
    BY <1>1, LocksKept, Labels DEF IInv, Owning
  <2>3. Extras'
    BY <1>1, <1>4, <2>1, ExtrasKept, Labels DEF IInv
  <2>4. Merged'
    BY <2>1 DEF Merged
  <2>5. \A q \in Proc \ {p} : pc'[q] = pc[q] /\ data'[q] = data[q]
    BY <1>1 DEF OnlyOf
  <2>6. Known'
    BY <1>1, <2>5, Labels DEF IInv, Known, Merges
  <2>7. Loaded'
    <3> SUFFICES ASSUME Alone', NEW j \in Cooker, pc'[j] \notin {"gone", "init", "read"}
                 PROVE  /\ \A e \in Entry : InCache(e)' => e \in data'[j]
                        /\ Merges(j)' \/ \A e \in data'[j] : InCache(e)'
      BY DEF Loaded
    <3>1. Alone /\ j \in Proc \ {p} /\ \A e : InCache(e)' <=> InCache(e)
      BY <1>1 DEF Alone, Proc, InCache, OnlyOf
    <3>2. pc'[j] = pc[j] /\ data'[j] = data[j] /\ (Merges(j)' <=> Merges(j))
      BY <1>1, <2>5, <3>1 DEF Merges
    <3> QED
      BY <3>1, <3>2 DEF IInv, Loaded
  <2>8. IncompleteOnlyAfterKill'
    BY <2>1 DEF IInv, IncompleteOnlyAfterKill
  <2>9. NothingLost'
    BY <2>1 DEF NothingLost
  <2> QED
    BY <2>2, <2>3, <2>4, <2>6, <2>7, <2>8, <2>9 DEF IInv
<1> QED
  BY <1>3, <1>4

-----------------------------------------------------------------------------
(* save_extras.                                                             *)

\* A step of save_extras that writes no file.
LEMMA SaveStep ==
  ASSUME IInv, TypeOK', NEW p \in Proc,
         SaveNothing(p) \/ SaveLock(p) \/ NextName(p) \/ TakeName(p) \/ Leave(p)
  PROVE  IInv'
<1>1. pc[p] \in {"save", "seek", "leave"} /\ p \in users
  BY DEF SaveNothing, SaveLock, NextName, TakeName, Leave, IInv, Placed
<1>2. CASE SaveNothing(p) \/ Leave(p)
  <2>1. /\ OnlyOf(p)
        /\ \/ p \in Cooker /\ pc'[p] = "merge" /\ data'[p] = data[p]
           \/ p \notin Cooker /\ pc'[p] = "gone" /\ data'[p] = {}
    BY <1>2, AfterSaveOnlyOf DEF SaveNothing, Leave, IInv
  <2>2. pc[p] \in {"save", "leave"} /\ UNCHANGED <<file, cachefile, have_data, saved, written, events>>
    BY <1>2 DEF SaveNothing, Leave
  <2> QED
    BY <1>1, <2>1, <2>2, Quiet, Labels DEF Writing, Saving
<1>3. CASE SaveLock(p)
  <2>1. OnlyOf(p) /\ pc[p] = "save" /\ pc'[p] = "seek" /\ data'[p] = data[p] /\ Shared
    BY <1>3 DEF SaveLock, Goto, OnlyOf, IInv, TypeOK
  <2>2. UNCHANGED <<file, cachefile, have_data, saved, written, events>>
    BY <1>3 DEF SaveLock
  <2>3. pc'[p] \notin Merging /\ pc[p] \notin Merging /\ pc'[p] \notin CookerOnly
        /\ pc[p] \notin Writing /\ pc'[p] \notin Holding
    BY <2>1, Labels DEF CookerOnly, Merging, Writing, Holding
  <2> QED
    BY <1>1, <2>1, <2>2, <2>3, Quiet
<1>4. CASE NextName(p)
  <2>1. OnlyOf(p) /\ pc[p] = "seek" /\ pc'[p] = "seek" /\ data'[p] = data[p]
    BY <1>4 DEF NextName, OnlyOf, IInv, TypeOK
  <2>2. "seek" \in Sharing
    BY DEF Sharing, Saving
  <2> QED
    BY <1>1, <1>4, <2>1, <2>2, Quiet, Labels DEF NextName, Writing, Saving
<1>5. CASE TakeName(p)
  <2>1. /\ OnlyOf(p) /\ pc[p] = "seek" /\ pc'[p] = "open" /\ data'[p] = data[p]
        /\ slot' = slot /\ slot[p] \in Slot /\ ~Taken(slot[p])
    BY <1>5 DEF TakeName, Goto, OnlyOf, IInv, TypeOK
  <2>2. {"seek", "open"} \subseteq Sharing
    BY DEF Sharing, Saving
  <2> QED
    BY <1>1, <1>5, <2>1, <2>2, Quiet, Labels DEF TakeName, Writing, Saving
<1> QED
  BY <1>2, <1>3, <1>4, <1>5

\* Writing an extras file: nobody else has its name, and nobody merges.
LEMMA WriteStep ==
  ASSUME IInv, TypeOK', NEW p \in Proc, OpenExtras(p) \/ WriteSome(p) \/ WriteRest(p)
  PROVE  IInv'
<1>1. /\ OnlyOf(p) /\ data' = data /\ slot' = slot
      /\ UNCHANGED <<cachefile, have_data, written, events>>
  BY DEF OpenExtras, WriteSome, WriteRest, Goto, OnlyOf, IInv, TypeOK
<1>2. pc[p] \in {"open", "write", "write rest"} /\ pc'[p] \in {"write", "write rest", "leave"}
  BY DEF OpenExtras, WriteSome, WriteRest, Goto, IInv, TypeOK
<1>3. p \in users /\ pc[p] \in Sharing /\ pc[p] \in Holding /\ slot[p] \in Slot
  BY <1>2 DEF IInv, Placed, Named, Sharing, Saving, Holding
<1>4. pc'[p] \in Sharing /\ pc'[p] \in Holding
  BY <1>2 DEF Sharing, Saving, Holding
<1>5. Placed' /\ Locked' /\ Named'
  BY <1>1, <1>3, <1>4, LocksKept, Labels DEF IInv, Owning
<1>6. file[slot[p]].kind \in {"none"} \cup Incomplete
  BY <1>2 DEF IInv, Extras, Writing
<1>7. \A s \in Slot \ {slot[p]} : file'[s] = file[s]
  BY DEF OpenExtras, WriteSome, WriteRest, IInv, TypeOK
<1>8. /\ pc'[p] \in Writing => file'[slot[p]].kind \in Incomplete
      /\ pc'[p] = "leave" => file'[slot[p]] = Full(extras[p]) /\ saved' = saved \cup extras[p]
      /\ pc'[p] # "leave" => saved' = saved
  BY <1>3, Files DEF OpenExtras, WriteSome, WriteRest, Goto, IInv, TypeOK, Writing, Incomplete
<1>9. Extras'
  <2>1. ASSUME NEW q \in Proc
        PROVE  /\ pc'[q] = "open" => file'[slot'[q]].kind = "none"
               /\ pc'[q] \in Writing => file'[slot'[q]].kind \in Incomplete
    <3>1. CASE q = p
      BY <1>1, <1>2, <1>8, <3>1
    <3>2. CASE q # p
      <4>1. pc'[q] = pc[q] /\ slot'[q] = slot[q]
        BY <1>1, <3>2 DEF OnlyOf
      <4>2. pc[q] \in Holding => slot[q] \in Slot \ {slot[p]}
        BY <1>3, <3>2 DEF IInv, Named
      <4>3. /\ pc[q] = "open" => file[slot[q]].kind = "none"
            /\ pc[q] \in Writing => file[slot[q]].kind \in Incomplete
        BY DEF IInv, Extras
      <4>4. pc[q] \in Holding => file'[slot'[q]] = file[slot[q]]
        BY <1>7, <4>1, <4>2
      <4> QED
        BY <4>1, <4>3, <4>4, Labels DEF Holding
    <3> QED
      BY <3>1, <3>2
  <2>2. ASSUME NEW s \in Slot, file'[s].kind \in Incomplete
        PROVE  "torn" \in events' \/ \E q \in Proc : pc'[q] \in Writing /\ slot'[q] = s
    <3>1. CASE s = slot[p]
      <4>1. pc'[p] # "leave"
        BY <1>8, <2>2, <3>1, Files DEF Incomplete
      <4> QED
        BY <1>1, <1>2, <3>1, <4>1 DEF Writing
    <3>2. CASE s # slot[p]
      <4>1. file[s].kind \in Incomplete
        BY <1>7, <2>2, <3>2
      <4>2. "torn" \in events \/ \E q \in Proc : pc[q] \in Writing /\ slot[q] = s
        BY <4>1 DEF IInv, Extras
      <4> QED
        BY <1>1, <3>2, <4>2 DEF OnlyOf
    <3> QED
      BY <3>1, <3>2
  <2> QED
    BY <2>1, <2>2 DEF Extras
<1>10. Merged' /\ Known' /\ Loaded'
  <2>1. pc[p] \notin Merging /\ pc'[p] \notin Merging /\ pc[p] \notin {"gone", "init", "read"}
    BY <1>2, <1>3, <1>4, Labels
  <2> QED
    BY <1>1, <2>1, CachesKept DEF IInv
<1>11. IncompleteOnlyAfterKill'
  BY <1>1 DEF IInv, IncompleteOnlyAfterKill
<1>12. NothingLost'
  <2> SUFFICES ASSUME events' \cap {"failed", "stopped"} = {}, NEW e \in saved'
               PROVE  InExtras(e)' \/ InHand(e)' \/ IF Alone' THEN InCache(e)' ELSE e \in written'
    BY DEF NothingLost
  <2>1. CASE e \in saved
    <3>1. InExtras(e) \/ InHand(e) \/ IF Alone THEN InCache(e) ELSE e \in written
      BY <1>1, <2>1 DEF IInv, NothingLost
    <3>2. InExtras(e) => InExtras(e)'
      BY <1>6, <1>7 DEF InExtras, Incomplete
    <3>3. InHand(e) => InHand(e)'
      BY <1>1, <1>3, Labels DEF InHand, OnlyOf
    <3>4. (Alone' <=> Alone) /\ (InCache(e)' <=> InCache(e)) /\ written' = written
      BY <1>1 DEF Alone, InCache, OnlyOf
    <3> QED
      BY <3>1, <3>2, <3>3, <3>4
  <2>2. CASE e \notin saved
    <3>1. e \in extras[p] /\ file'[slot[p]] = Full(extras[p])
      BY <1>8, <2>2
    <3> QED
      BY <1>3, <3>1, Files DEF InExtras
  <2> QED
    BY <2>1, <2>2
<1> QED
  BY <1>5, <1>9, <1>10, <1>11, <1>12 DEF IInv

-----------------------------------------------------------------------------
(* init_cache and save_merge.                                               *)

\* Who has the lock on the cache is alone with the files.
LEMMA OwnerAlone ==
  ASSUME IInv, NEW k \in Cooker, pc[k] \in Owning
  PROVE  /\ k \in Proc /\ k \in users
         /\ \A q \in Proc \ {k} : pc[q] \notin Owning /\ pc[q] \notin Merging /\ pc[q] \notin Sharing
         /\ \A q \in Proc : pc[q] \notin Sharing /\ pc[q] \notin Holding
         /\ \A s \in Slot : file[s].kind \in Incomplete => "torn" \in events
<1>1. k \in Proc /\ k \in users
  BY Labels DEF IInv, Placed, Owning, Merging
<1>2. \A q \in Proc : (pc[q] \in Owning => q = k) /\ pc[q] \notin Sharing
  BY <1>1 DEF IInv, Locked
<1> QED
  BY <1>1, <1>2, Labels DEF IInv, Extras

\* The locks and extras files, when the owner goes on or gives up the lock.
LEMMA OwnerKept ==
  ASSUME IInv, NEW k \in Cooker, pc[k] \in Owning, OnlyOf(k), events \subseteq events',
         pc'[k] \in Merging \cup {"idle", "gone"},
         \A s \in Slot : file'[s] = file[s] \/ file'[s].kind = "none"
  PROVE  Placed' /\ Locked' /\ Named' /\ Extras'
<1>1. /\ k \in Proc /\ k \in users
      /\ \A q \in Proc : pc[q] \notin Sharing /\ pc[q] \notin Holding
      /\ \A s \in Slot : file[s].kind \in Incomplete => "torn" \in events
  BY OwnerAlone
<1>2. pc'[k] \notin Sharing /\ pc'[k] \notin Holding
  BY Labels
<1>3. Placed' /\ Locked' /\ Named'
  BY <1>1, <1>2, LocksKept DEF IInv
<1>4. \A q \in Proc : pc'[q] \notin Holding
  BY <1>1, <1>2 DEF OnlyOf
<1>5. Extras'
  BY <1>1, <1>4, Labels DEF Extras, Holding, Incomplete
<1> QED
  BY <1>3, <1>5

\* What is known of the data, when the owner changes its own or the cache file.
LEMMA DataKept ==
  ASSUME IInv, NEW k \in Cooker, pc[k] \in Owning, OnlyOf(k), written \subseteq written',
         pc'[k] # "gone",
         cachefile'.kind = "full" => cachefile'.data \subseteq written',
         pc'[k] \in Rewriting => have_data',
         data'[k] \subseteq written' \/ Merges(k)',
         Alone => \A e \in Entry : InCache(e)' => e \in data'[k],
         Alone => Merges(k)' \/ \A e \in data'[k] : InCache(e)'
  PROVE  Known' /\ Loaded'
<1>1. /\ k \in Proc /\ k \in users
      /\ \A q \in Proc \ {k} : pc[q] \notin Merging
      /\ \A q \in Proc \ {k} : pc'[q] = pc[q] /\ data'[q] = data[q]
  BY OwnerAlone DEF OnlyOf
<1>2. Known'
  BY <1>1, Labels DEF IInv, Known, Merges
<1>3. ASSUME Alone', NEW j \in Cooker, pc'[j] \notin {"gone", "init", "read"} PROVE j = k
  <2>1. CASE j # k
    <3>1. j \in Proc /\ pc[j] # "gone"
      BY <1>1, <1>3, <2>1 DEF Proc
    <3>2. j \in users \cap Cooker /\ k \in users \cap Cooker
      BY <1>1, <3>1 DEF IInv, Placed
    <3>3. \E i \in Cooker : users \cap Cooker = {i}
      BY <1>3 DEF Alone, OnlyOf
    <3> QED
      BY <2>1, <3>2, <3>3
  <2> QED
    BY <2>1
<1>4. Alone' <=> Alone
  BY DEF Alone, OnlyOf
<1> QED
  BY <1>2, <1>3, <1>4 DEF Loaded

\* Reading the cache file, when the lock was free: it is complete, or was left.
LEMMA ReadStep ==
  ASSUME IInv, TypeOK', NEW k \in Cooker, ReadCache(k) PROVE IInv'
<1>1. pc[k] = "read" /\ pc[k] \in Owning
  BY DEF ReadCache, Owning
<1>2. /\ k \in Proc /\ k \in users
      /\ \A q \in Proc \ {k} : pc[q] \notin Merging
  BY <1>1, OwnerAlone
<1>3. /\ OnlyOf(k) /\ pc'[k] = "idle"
      /\ data'[k] = (IF cachefile.kind = "full" THEN cachefile.data ELSE {})
      /\ UNCHANGED <<file, cachefile, have_data, saved, written>>
  BY <1>2 DEF ReadCache, Goto, OnlyOf, IInv, TypeOK
<1>4. events \subseteq events' /\ events' \subseteq events \cup {"blind"}
      /\ ("blind" \in events' => "blind" \in events \/ cachefile.kind \in Incomplete)
  BY DEF ReadCache, Incomplete
<1>5. Placed' /\ Locked' /\ Named' /\ Extras'
  BY <1>1, <1>3, <1>4, OwnerKept
<1>6. cachefile.kind \in Incomplete => "stopped" \in events
  BY <1>1, <1>2, Labels DEF IInv, Merged, Rewriting, Proc, Merging
<1>7. Merged'
  BY <1>3, <1>4, <1>6 DEF Merged
<1>8. Known' /\ Loaded'
  <2>1. cachefile.kind = "full" => cachefile.data \subseteq written
    BY DEF IInv, Known
  <2>2. /\ \A e \in Entry : InCache(e)' => e \in data'[k]
        /\ \A e \in data'[k] : InCache(e)'
    BY <1>3 DEF InCache
  <2>3. data'[k] \subseteq written'
    BY <1>3, <2>1
  <2> QED
    BY <1>1, <1>3, <2>1, <2>2, <2>3, DataKept, Labels
<1>9. IncompleteOnlyAfterKill'
  BY <1>4, <1>6 DEF IInv, IncompleteOnlyAfterKill
<1>10. NothingLost'
  <2>1. ASSUME NEW e PROVE InExtras(e)' = InExtras(e) /\ InCache(e)' = InCache(e)
    BY <1>3 DEF InExtras, InCache
  <2>2. ASSUME NEW e, InHand(e) PROVE InHand(e)'
    BY <1>1, <1>3, <2>2, Labels DEF InHand, OnlyOf, Proc, Merging
  <2> QED
    BY <1>3, <1>4, <2>1, <2>2, NothingLostKept DEF IInv, OnlyOf
<1> QED
  BY <1>5, <1>7, <1>8, <1>9, <1>10 DEF IInv

LEMMA MergeLockStep ==
  ASSUME IInv, TypeOK', NEW k \in Cooker, MergeLock(k) PROVE IInv'
<1>1. /\ k \in Proc /\ pc[k] = "merge" /\ Exclusive
      /\ \A q \in Proc : pc[q] \notin Merging
  BY DEF MergeLock, Proc, Exclusive, Owners
<1>2. /\ OnlyOf(k) /\ pc'[k] = "next" /\ data'[k] = data[k]
      /\ UNCHANGED <<file, cachefile, saved, written, events>>
  BY <1>1 DEF MergeLock, Goto, OnlyOf, IInv, TypeOK
<1>3. k \in users
  BY <1>1 DEF IInv, Placed
<1>4. "next" \notin Sharing /\ "next" \notin Holding
  BY Labels DEF Merging
<1>5. Placed' /\ Locked' /\ Named'
  BY <1>1, <1>2, <1>3, <1>4, LocksKept DEF IInv
<1>6. Extras'
  BY <1>1, <1>2, ExtrasKept DEF IInv, Writing
<1>7. Merged'
  BY <1>1, <1>2, Labels DEF IInv, Merged, Proc
<1>8. Known'
  <2>1. \A q \in Proc : data[q] \subseteq written
    BY <1>1 DEF IInv, Known, Merges
  <2>2. \A q \in Proc : data'[q] = data[q] /\ pc'[q] \notin Rewriting
    BY <1>1, <1>2, Labels DEF OnlyOf, Rewriting
  <2> QED
    BY <1>2, <2>1, <2>2 DEF IInv, Known
<1>9. Loaded'
  <2> SUFFICES ASSUME Alone', NEW j \in Cooker, pc'[j] \notin {"gone", "init", "read"}
               PROVE  /\ \A e \in Entry : InCache(e)' => e \in data'[j]
                      /\ Merges(j)' \/ \A e \in data'[j] : InCache(e)'
    BY DEF Loaded
  <2>1. Alone /\ j \in Proc /\ \A e : InCache(e)' <=> InCache(e)
    BY <1>2 DEF Alone, Proc, InCache, OnlyOf
  <2>2. data'[j] = data[j] /\ pc[j] \notin {"gone", "init", "read"} /\ ~Merges(j)
    BY <1>1, <1>2, <2>1 DEF OnlyOf, Merges
  <2> QED
    BY <2>1, <2>2 DEF IInv, Loaded
<1>10. IncompleteOnlyAfterKill'
  BY <1>2 DEF IInv, IncompleteOnlyAfterKill
<1>11. NothingLost'
  <2>1. ASSUME NEW e PROVE InExtras(e)' = InExtras(e) /\ InCache(e)' = InCache(e) /\ ~InHand(e)
    BY <1>1, <1>2 DEF InExtras, InCache, InHand, Proc
  <2> QED
    BY <1>2, <2>1, NothingLostKept DEF IInv, OnlyOf
<1> QED
  BY <1>5, <1>6, <1>7, <1>8, <1>9, <1>10, <1>11 DEF IInv

\* Going through the extras files.
LEMMA MergeFileStep ==
  ASSUME IInv, TypeOK', NEW k \in Cooker, NEW s \in Slot, MergeFile(k, s) \/ DropFile(k, s)
  PROVE  IInv'
<1>1. pc[k] = "next" /\ pc[k] \in Merging /\ pc[k] \in Owning
  BY DEF MergeFile, DropFile, Owning, Merging
<1>2. /\ k \in Proc
      /\ \A t \in Slot : file[t].kind \in Incomplete => "torn" \in events
  BY <1>1, OwnerAlone
<1>3. /\ OnlyOf(k) /\ pc' = pc /\ data[k] \subseteq data'[k]
      /\ UNCHANGED <<cachefile, saved, written>>
      /\ \A t \in Slot \ {s} : file'[t] = file[t]
      /\ file'[s].kind = "none"
  <2>1. file' = [file EXCEPT ![s] = Bare("none")] /\ file'[s] = Bare("none")
    BY DEF MergeFile, DropFile, Removed, IInv, TypeOK
  <2>2. \A q \in Proc \ {k} : data'[q] = data[q]
    BY DEF MergeFile, DropFile, merge_data, IInv, TypeOK
  <2>3. data[k] \subseteq data'[k]
    BY <1>2 DEF MergeFile, DropFile, merge_data, IInv, TypeOK
  <2>4. UNCHANGED <<users, pc, slot, cachefile, saved, written>>
    BY DEF MergeFile, DropFile
  <2> QED
    BY <2>1, <2>2, <2>3, <2>4, Files DEF OnlyOf
<1>4. events \subseteq events' /\ events' \subseteq events \cup {"dropped"}
      /\ ("dropped" \in events' => "dropped" \in events \/ file[s].kind \in Incomplete)
  BY DEF MergeFile, DropFile, Incomplete
<1>5. \/ /\ file[s].kind = "full" /\ have_data' = TRUE
         /\ data'[k] = data[k] \cup file[s].data
      \/ file[s].kind # "full" /\ have_data' = have_data /\ data' = data
  BY <1>2 DEF MergeFile, DropFile, merge_data, IInv, TypeOK
<1>6. Placed' /\ Locked' /\ Named' /\ Extras'
  BY <1>1, <1>3, <1>4, OwnerKept
<1>7. Merged'
  BY <1>3, <1>4 DEF IInv, Merged
<1>8. Known' /\ Loaded'
  <2>1. Merges(k)' \/ ((Merges(k)' <=> Merges(k)) /\ data' = data)
    <3>1. pc'[k] \in Merging
      BY <1>1, <1>3
    <3>2. CASE have_data' = TRUE
      BY <3>1, <3>2 DEF Merges
    <3>3. CASE have_data' = have_data /\ data' = data
      BY <1>1, <3>1, <3>3 DEF Merges
    <3> QED
      BY <1>5, <3>2, <3>3
  <2>2. /\ cachefile.kind = "full" => cachefile.data \subseteq written
        /\ data[k] \subseteq written \/ Merges(k)
    BY <1>2 DEF IInv, Known
  <2>3. Alone => /\ \A e \in Entry : InCache(e) => e \in data[k]
                 /\ Merges(k) \/ \A e \in data[k] : InCache(e)
    BY <1>1 DEF IInv, Loaded
  <2>4. \A e : InCache(e)' <=> InCache(e)
    BY <1>3 DEF InCache
  <2>5. pc'[k] # "gone" /\ pc'[k] \notin Rewriting
    BY <1>1, <1>3 DEF Rewriting
  <2> QED
    BY <1>1, <1>3, <2>1, <2>2, <2>3, <2>4, <2>5, DataKept
<1>9. IncompleteOnlyAfterKill'
  BY <1>2, <1>4 DEF IInv, IncompleteOnlyAfterKill
<1>10. NothingLost'
  <2>1. ASSUME NEW e, InExtras(e) PROVE InExtras(e)' \/ InHand(e)'
    <3>1. PICK t \in Slot : file[t].kind = "full" /\ e \in file[t].data
      BY <2>1 DEF InExtras
    <3>2. CASE t = s
      BY <1>1, <1>3, <1>5, <3>1, <3>2 DEF InHand
    <3>3. CASE t # s
      BY <1>3, <3>1, <3>3 DEF InExtras
    <3> QED
      BY <3>2, <3>3
  <2>2. ASSUME NEW e, InHand(e) PROVE InHand(e)'
    BY <1>3, <2>2 DEF InHand, OnlyOf, Proc
  <2>3. ASSUME NEW e PROVE InCache(e)' = InCache(e)
    BY <1>3 DEF InCache
  <2> QED
    BY <1>3, <1>4, <2>1, <2>2, <2>3, NothingLostKept DEF IInv, OnlyOf
<1> QED
  BY <1>6, <1>7, <1>8, <1>9, <1>10 DEF IInv

LEMMA MergeFailsStep ==
  ASSUME IInv, TypeOK', NEW k \in Cooker, NEW s \in Slot, MergeFails(k, s) PROVE IInv'
<1>1. pc[k] = "next" /\ pc[k] \in Merging /\ pc[k] \in Owning
  BY DEF MergeFails, Owning, Merging
<1>2. /\ k \in Proc /\ "torn" \in events
      /\ \A q \in Proc \ {k} : pc[q] \notin Merging
  BY <1>1, OwnerAlone DEF MergeFails, Incomplete
<1>3. /\ OnlyOf(k) /\ pc'[k] = "gone" /\ data'[k] = {} /\ events' = events \cup {"failed"}
      /\ UNCHANGED <<file, cachefile, have_data, saved, written>>
  BY <1>2, EndsOnlyOf DEF MergeFails, IInv
<1>4. Placed' /\ Locked' /\ Named' /\ Extras'
  BY <1>1, <1>3, OwnerKept
<1>5. Merged'
  BY <1>1, <1>2, <1>3, Labels DEF IInv, Merged, Proc, Rewriting, OnlyOf
<1>6. \A q \in Proc \ {k} : pc'[q] = pc[q] /\ data'[q] = data[q]
  BY <1>3 DEF OnlyOf
<1>7. Known'
  BY <1>3, <1>6, Labels DEF IInv, Known, Merges
<1>8. Loaded'
  <2> SUFFICES ASSUME Alone', NEW j \in Cooker, pc'[j] \notin {"gone", "init", "read"}
               PROVE  /\ \A e \in Entry : InCache(e)' => e \in data'[j]
                      /\ Merges(j)' \/ \A e \in data'[j] : InCache(e)'
    BY DEF Loaded
  <2>1. Alone /\ j \in Proc \ {k} /\ \A e : InCache(e)' <=> InCache(e)
    BY <1>3 DEF Alone, Proc, InCache, OnlyOf
  <2>2. pc'[j] = pc[j] /\ data'[j] = data[j] /\ (Merges(j)' <=> Merges(j))
    BY <1>3, <1>6, <2>1 DEF Merges
  <2> QED
    BY <2>1, <2>2 DEF IInv, Loaded
<1>9. IncompleteOnlyAfterKill'
  BY <1>2, <1>3 DEF IInv, IncompleteOnlyAfterKill
<1>10. NothingLost'
  BY <1>3 DEF NothingLost
<1> QED
  BY <1>4, <1>5, <1>7, <1>8, <1>9, <1>10 DEF IInv

\* The files are done: if there was nothing in them, the cache file has it all.
LEMMA MergeEndStep ==
  ASSUME IInv, TypeOK', NEW k \in Cooker, MergeEnd(k) PROVE IInv'
<1>1. pc[k] = "next" /\ pc[k] \in Merging /\ pc[k] \in Owning
  BY DEF MergeEnd, Owning, Merging
<1>2. k \in Proc /\ \A q \in Proc \ {k} : pc[q] \notin Merging
  BY <1>1, OwnerAlone
<1>3. /\ OnlyOf(k) /\ pc'[k] = (IF have_data THEN "rewrite" ELSE "idle")
      /\ UNCHANGED <<data, file, cachefile, have_data, saved, written, events>>
  BY <1>2 DEF MergeEnd, Goto, OnlyOf, IInv, TypeOK
<1>4. pc'[k] \in Merging \cup {"idle"} /\ (pc'[k] \in Rewriting => have_data)
  BY <1>3 DEF Merging, Rewriting
<1>5. Placed' /\ Locked' /\ Named' /\ Extras'
  BY <1>1, <1>3, <1>4, OwnerKept
<1>6. Merged'
  BY <1>1, <1>3 DEF IInv, Merged, Proc, Rewriting, OnlyOf
<1>7. Merges(k)' <=> Merges(k)
  BY <1>1, <1>3 DEF Merges, Merging
<1>8. /\ cachefile.kind = "full" => cachefile.data \subseteq written
      /\ data[k] \subseteq written \/ Merges(k)
  BY <1>2 DEF IInv, Known
<1>9. Alone => /\ \A e \in Entry : InCache(e) => e \in data[k]
               /\ Merges(k) \/ \A e \in data[k] : InCache(e)
  BY <1>1 DEF IInv, Loaded
<1>10. \A e : (InCache(e)' <=> InCache(e)) /\ (InExtras(e)' <=> InExtras(e))
  BY <1>3 DEF InCache, InExtras
<1>11. Known' /\ Loaded'
  <2>1. pc'[k] # "gone"
    BY <1>3
  <2> QED
    BY <1>1, <1>3, <1>4, <1>7, <1>8, <1>9, <1>10, <2>1, DataKept
<1>12. IncompleteOnlyAfterKill'
  BY <1>3 DEF IInv, IncompleteOnlyAfterKill
<1>13. NothingLost'
  <2>1. ASSUME NEW e, InHand(e), ~InHand(e)' PROVE IF Alone THEN InCache(e)' ELSE e \in written'
    <3>1. PICK j \in Cooker : pc[j] \in Merging /\ e \in data[j]
      BY <2>1 DEF InHand
    <3>2. j = k /\ ~have_data
      BY <1>2, <1>3, <2>1, <3>1 DEF InHand, Proc, Merging
    <3> QED
      BY <1>3, <1>8, <1>9, <1>10, <3>1, <3>2 DEF Merges
  <2> QED
    BY <1>3, <1>10, <2>1, NothingLostKept DEF IInv, OnlyOf
<1> QED
  BY <1>5, <1>6, <1>11, <1>12, <1>13 DEF IInv

\* While the cache file is written, its writer has in hand what was in it.
LEMMA RewriteStep ==
  ASSUME IInv, TypeOK', NEW k \in Cooker, OpenCache(k) \/ WriteCacheSome(k) PROVE IInv'
<1>1. pc[k] \in Rewriting /\ pc[k] \in Merging /\ pc[k] \in Owning
  BY DEF OpenCache, WriteCacheSome, Owning, Merging, Rewriting
<1>2. k \in Proc
  BY DEF Proc
<1>3. /\ OnlyOf(k) /\ pc'[k] \in Rewriting \ {"rewrite"}
      /\ cachefile'.kind \in Incomplete
      /\ UNCHANGED <<data, file, have_data, saved, written, events>>
  <2>1. cachefile'.kind \in Incomplete
    BY Files DEF OpenCache, WriteCacheSome, Incomplete
  <2> QED
    BY <1>2, <2>1 DEF OpenCache, WriteCacheSome, Goto, OnlyOf, IInv, TypeOK, Rewriting
<1>4. have_data /\ Merges(k)' /\ Merges(k)
  BY <1>1, <1>2, <1>3, Labels DEF IInv, Known, Merges
<1>5. Placed' /\ Locked' /\ Named' /\ Extras'
  BY <1>1, <1>3, OwnerKept, Labels
<1>6. Merged'
  BY <1>3 DEF Merged
<1>7. \A e : ~InCache(e)'
  BY <1>3 DEF InCache, Incomplete
<1>8. Known' /\ Loaded'
  <2>1. pc'[k] # "gone" /\ cachefile'.kind # "full"
    BY <1>3 DEF Rewriting, Incomplete
  <2> QED
    BY <1>1, <1>3, <1>4, <1>7, <2>1, DataKept
<1>9. IncompleteOnlyAfterKill'
  BY <1>3 DEF IInv, IncompleteOnlyAfterKill
<1>10. NothingLost'
  <2>1. ASSUME NEW e, InHand(e) PROVE InHand(e)'
    BY <1>3, <2>1, Labels DEF InHand, OnlyOf, Proc
  <2>2. ASSUME NEW e \in saved, Alone, InCache(e) PROVE InHand(e)'
    <3>1. e \in data[k]
      BY <1>1, <2>2 DEF IInv, Loaded, Rewriting, TypeOK
    <3> QED
      BY <1>3, <3>1, Labels DEF InHand
  <2>3. ASSUME NEW e PROVE InExtras(e)' = InExtras(e)
    BY <1>3 DEF InExtras
  <2> QED
    BY <1>3, <2>1, <2>2, <2>3, NothingLostKept DEF IInv, OnlyOf
<1> QED
  BY <1>5, <1>6, <1>8, <1>9, <1>10 DEF IInv

LEMMA RewrittenStep ==
  ASSUME IInv, TypeOK', NEW k \in Cooker, WriteCacheRest(k) PROVE IInv'
<1>1. pc[k] \in Rewriting /\ pc[k] \in Merging /\ pc[k] \in Owning
  BY DEF WriteCacheRest, Owning, Merging, Rewriting
<1>2. k \in Proc /\ \A q \in Proc \ {k} : pc[q] \notin Merging
  BY <1>1, OwnerAlone
<1>3. /\ OnlyOf(k) /\ pc'[k] = "idle"
      /\ cachefile' = Full(data[k]) /\ written' = written \cup data[k]
      /\ UNCHANGED <<data, file, saved, events>>
  BY <1>2 DEF WriteCacheRest, Goto, OnlyOf, IInv, TypeOK
<1>4. cachefile'.kind = "full" /\ cachefile'.data = data[k]
  BY <1>3, Files
<1>5. Placed' /\ Locked' /\ Named' /\ Extras'
  BY <1>1, <1>3, OwnerKept
<1>6. Merged'
  BY <1>4 DEF Merged, Incomplete
<1>7. \A e : InCache(e)' <=> e \in data[k]
  BY <1>4 DEF InCache
<1>8. Known' /\ Loaded'
  <2>1. pc'[k] # "gone" /\ pc'[k] \notin Rewriting
    BY <1>3 DEF Rewriting
  <2> QED
    BY <1>1, <1>3, <1>4, <1>7, <2>1, DataKept
<1>9. IncompleteOnlyAfterKill'
  BY <1>3 DEF IInv, IncompleteOnlyAfterKill
<1>10. NothingLost'
  <2>1. ASSUME NEW e, InHand(e) PROVE InCache(e)' /\ e \in written'
    <3>1. e \in data[k]
      BY <1>2, <2>1 DEF InHand, Proc
    <3> QED
      BY <1>3, <1>7, <3>1
  <2>2. ASSUME NEW e \in saved, Alone, InCache(e) PROVE InCache(e)'
    <3>1. e \in data[k]
      BY <1>1, <2>2 DEF IInv, Loaded, Rewriting, TypeOK
    <3> QED
      BY <1>7, <3>1
  <2>3. ASSUME NEW e PROVE InExtras(e)' = InExtras(e)
    BY <1>3 DEF InExtras
  <2> QED
    BY <1>3, <2>1, <2>2, <2>3, NothingLostKept DEF IInv, OnlyOf
<1> QED
  BY <1>5, <1>6, <1>8, <1>9, <1>10 DEF IInv

-----------------------------------------------------------------------------
(* The theorems.                                                            *)

LEMMA InitIInv == Init => IInv
<1> SUFFICES ASSUME Init PROVE IInv
  OBVIOUS
<1>1. TypeOK /\ \A p \in Proc : pc[p] = "gone" /\ data[p] = {}
  BY InitTyped DEF Init
<1>2. PICK kind \in {"none", "old"} :
          /\ file = [s \in Slot |-> Bare(IF s = 1 THEN kind ELSE "none")]
          /\ cachefile = Bare(kind)
  BY DEF Init
<1>3. cachefile.kind \in {"none", "old"} /\ \A s \in Slot : file[s].kind \in {"none", "old"}
  BY <1>2, Files
<1>4. Placed /\ Locked /\ Named
  BY <1>1, Labels DEF Placed, Locked, Named, Owning
<1>5. Extras /\ Merged
  BY <1>1, <1>3 DEF Extras, Merged, Incomplete, Writing
<1>6. Known /\ Loaded
  BY <1>1, <1>3, Labels DEF Known, Loaded, Rewriting
<1>7. IncompleteOnlyAfterKill /\ NothingLost
  BY DEF Init, IncompleteOnlyAfterKill, NothingLost
<1> QED
  BY <1>1, <1>4, <1>5, <1>6, <1>7 DEF IInv

LEMMA StepIInv == IInv /\ [Next]_vars => IInv'
<1> SUFFICES ASSUME IInv, [Next]_vars PROVE IInv'
  OBVIOUS
<1>1. TypeOK'
  BY TypeStep DEF IInv
<1>2. CASE \E k \in Cooker : Boot(k) \/ InitLock(k) \/ Quit(k) \/ Joined(k) \/ StartParse(k)
  BY <1>1, <1>2, ManageStep, StartParseStep
<1>3. CASE \E p \in Proc : EndParse(p) \/ Save(p)
  BY <1>1, <1>3, ParseStep, SaveStep, WriteStep DEF Save
<1>4. CASE \E k \in Cooker : ReadCache(k) \/ Merge(k)
  BY <1>1, <1>4, ReadStep, MergeLockStep, MergeFileStep, MergeFailsStep, MergeEndStep,
     RewriteStep, RewrittenStep DEF Merge
<1>5. CASE \E p \in Proc, e \in Entry : Find(p, e)
  BY <1>1, <1>5, SameStep DEF Find
<1>6. CASE \E k \in Cooker, p \in Parser : Terminate(k, p)
  BY <1>1, <1>6, TerminateStep
<1>7. CASE \E p \in Proc : Kill(p)
  BY <1>1, <1>7, KillStep
<1>8. CASE UNCHANGED vars
  BY <1>1, <1>8, SameStep DEF vars
<1> QED
  BY <1>2, <1>3, <1>4, <1>5, <1>6, <1>7, <1>8 DEF Next, Work, Manage, Proc

\* The inductive invariant: who has which lock, what is in the files, and where the
\* data of a process comes from (save_extras, save_merge, init_cache).
THEOREM Invariant == Spec => []IInv
  BY InitIInv, StepIInv, PTL DEF Spec

\* The lock on the cache is held by one process that reads or merges, or by those
\* that save (the lockfile calls of init_cache, save_extras and save_merge).
THEOREM WritersExclude == Spec => []Locked
<1>1. IInv => Locked
  BY DEF IInv
<1> QED
  BY <1>1, Invariant, PTL

\* Nobody meets a file that is being written (the same locks, and those on the names).
THEOREM NobodyReadsHalf == Spec => []IncompleteOnlyAfterKill
<1>1. IInv => IncompleteOnlyAfterKill
  BY DEF IInv
<1> QED
  BY <1>1, Invariant, PTL

\* What was saved is kept in extras files, in the hands of a merging process or in the
\* cache file (save_extras, save_merge), as long as no merge fails or is killed.
THEOREM SavedIsKept == Spec => []NothingLost
<1>1. IInv => NothingLost
  BY DEF IInv
<1> QED
  BY <1>1, Invariant, PTL
-----------------------------------------------------------------------------
(* The steps are those of the lock that LockFile implements.                *)

LEMMA LockModeIs ==
  ASSUME NEW p \in Proc
  PROVE  LockMode(p) = IF pc[p] \in Owning THEN "exclusive"
                       ELSE IF pc[p] \in Sharing THEN "shared" ELSE "none"
  BY DEF LockMode, Owners, Sharers, Owning, Sharing

LEMMA LockInit == Init => AbstractLock!Init
<1> SUFFICES ASSUME Init, NEW p \in Proc PROVE LockMode(p) = "none"
  BY DEF AbstractLock!Init, LockModes
<1> QED
  BY LockModeIs DEF Init, Owning, Sharing, Merging, Saving

\* What a step of p that leaves the others alone is for the abstract lock.
LEMMA LockMoves ==
  ASSUME NEW p \in Proc, \A q \in Proc \ {p} : pc'[q] = pc[q],
         \/ pc'[p] \notin Owning \cup Sharing
         \/ pc'[p] \in Owning /\ pc[p] \in Owning
         \/ pc'[p] \in Sharing /\ pc[p] \in Sharing
         \/ pc[p] \notin Owning \cup Sharing /\ pc'[p] \in Owning /\ Exclusive
         \/ pc[p] \notin Owning \cup Sharing /\ pc'[p] \in Sharing /\ Shared
  PROVE  [AbstractLock!Next]_LockModes
<1>0. \A q \in Proc : LockMode(q)' = IF pc'[q] \in Owning THEN "exclusive"
                                    ELSE IF pc'[q] \in Sharing THEN "shared" ELSE "none"
  BY DEF LockMode, Owners, Sharers, Owning, Sharing
<1>1. \A q \in Proc \ {p} : LockMode(q)' = LockMode(q)
  BY <1>0, LockModeIs
<1>2. CASE LockMode(p)' = LockMode(p)
  BY <1>1, <1>2 DEF LockModes
<1>3. CASE LockMode(p)' = "none"
  <2>1. LockModes' = [LockModes EXCEPT ![p] = "none"]
    BY <1>1, <1>3 DEF LockModes
  <2> QED
    BY <2>1 DEF AbstractLock!Next, AbstractLock!Release
<1>4. CASE LockMode(p)' # LockMode(p) /\ LockMode(p)' # "none"
  <2>1. Owning \cap Sharing = {}
    BY DEF Owning, Sharing, Merging, Saving
  <2>2. \/ pc[p] \notin Owning \cup Sharing /\ pc'[p] \in Owning /\ Exclusive
        \/ pc[p] \notin Owning \cup Sharing /\ pc'[p] \in Sharing /\ Shared
    BY <1>0, <1>4, <2>1, LockModeIs
  <2>3. LockMode(p) = "none"
    BY <2>2, LockModeIs
  <2>4. \A q \in Proc \ {p} : AbstractLock!Compatible(LockMode(p)', LockMode(q))
    <3>1. CASE Exclusive
      BY <3>1 DEF Exclusive, LockMode, AbstractLock!Compatible
    <3>2. CASE pc'[p] \in Sharing /\ Shared
      <4>1. LockMode(p)' = "shared"
        BY <1>0, <2>1, <3>2
      <4>2. \A q \in Proc : LockMode(q) \in {"none", "shared"}
        BY <3>2 DEF Shared, LockMode
      <4> QED
        BY <4>1, <4>2 DEF AbstractLock!Compatible
    <3> QED
      BY <2>2, <3>1, <3>2
  <2>5. LockModes' = [LockModes EXCEPT ![p] = LockMode(p)']
    BY <1>1 DEF LockModes
  <2>6. AbstractLock!Acquire(p, LockMode(p)')
    BY <2>3, <2>4, <2>5 DEF AbstractLock!Acquire, LockModes
  <2>7. LockMode(p)' \in AbstractLock!Modes \ {"none"}
    BY <1>0, <1>4 DEF AbstractLock!Modes
  <2> QED
    BY <2>6, <2>7 DEF AbstractLock!Next
<1> QED
  BY <1>2, <1>3, <1>4

\* A process that ends, or gets back to where it holds nothing.
LEMMA LockEnds ==
  ASSUME TypeOK, NEW p \in Proc, Ends(p) \/ AfterSave(p)
  PROVE  [AbstractLock!Next]_LockModes
<1>1. \A q \in Proc \ {p} : pc'[q] = pc[q]
  BY DEF Ends, AfterSave, Goto, TypeOK
<1>2. pc'[p] \in {"gone", "merge"}
  BY DEF Ends, AfterSave, Goto, TypeOK
<1> QED
  BY <1>1, <1>2, LockMoves, Labels DEF Owning, Merging, Sharing, Saving

\* A process that goes on.
LEMMA LockGoes ==
  ASSUME TypeOK, NEW p \in Proc, NEW label, Goto(p, label),
         \/ label \notin Owning \cup Sharing
         \/ label \in Owning /\ pc[p] \in Owning
         \/ label \in Sharing /\ pc[p] \in Sharing
         \/ pc[p] \notin Owning \cup Sharing /\ label \in Owning /\ Exclusive
         \/ pc[p] \notin Owning \cup Sharing /\ label \in Sharing /\ Shared
  PROVE  [AbstractLock!Next]_LockModes
<1>1. pc'[p] = label /\ \A q \in Proc \ {p} : pc'[q] = pc[q]
  BY DEF Goto, TypeOK
<1> QED
  BY <1>1, LockMoves

LEMMA LockStep == TypeOK /\ [Next]_vars => [AbstractLock!Next]_LockModes
<1> SUFFICES ASSUME TypeOK, [Next]_vars PROVE [AbstractLock!Next]_LockModes
  OBVIOUS
<1>0. Cooker \subseteq Proc /\ Parser \subseteq Proc
  BY DEF Proc
<1> USE DEF Owning, Sharing, Merging, Saving
<1>1. ASSUME NEW k \in Cooker, Boot(k) \/ InitLock(k) \/ ReadCache(k) \/ Joined(k)
      PROVE  [AbstractLock!Next]_LockModes
  BY <1>0, <1>1, LockGoes DEF Boot, InitLock, ReadCache, Joined
<1>2. ASSUME NEW k \in Cooker,
             MergeLock(k) \/ MergeEnd(k) \/ OpenCache(k) \/ WriteCacheSome(k) \/ WriteCacheRest(k)
      PROVE  [AbstractLock!Next]_LockModes
  BY <1>0, <1>2, LockGoes DEF MergeLock, MergeEnd, OpenCache, WriteCacheSome, WriteCacheRest
<1>3. ASSUME NEW p \in Proc, EndParse(p) \/ SaveLock(p) \/ TakeName(p)
      PROVE  [AbstractLock!Next]_LockModes
  BY <1>3, LockGoes DEF EndParse, SaveLock, TakeName
<1>4. ASSUME NEW p \in Proc, OpenExtras(p) \/ WriteSome(p) \/ WriteRest(p)
      PROVE  [AbstractLock!Next]_LockModes
  BY <1>4, LockGoes DEF OpenExtras, WriteSome, WriteRest
<1>5. ASSUME NEW p \in Proc, SaveNothing(p) \/ Leave(p) \/ Kill(p)
      PROVE  [AbstractLock!Next]_LockModes
  BY <1>5, LockEnds DEF SaveNothing, Leave, Kill
<1>6. ASSUME NEW k \in Cooker,
             \/ Quit(k)
             \/ \E s \in Slot : MergeFails(k, s)
             \/ \E p \in Parser : Terminate(k, p)
      PROVE  [AbstractLock!Next]_LockModes
  BY <1>0, <1>6, LockEnds DEF Quit, MergeFails, Terminate
<1>7. CASE pc' = pc
  BY <1>7 DEF LockModes, LockMode, Owners, Sharers
<1>8. ASSUME NEW k \in Cooker, StartParse(k) PROVE [AbstractLock!Next]_LockModes
  <2>1. \A p \in Proc : pc'[p] # pc[p] => pc[p] \in {"gone", "idle"} /\ pc'[p] = "parse"
    BY <1>8 DEF StartParse
  <2>2. \A p \in Proc : LockMode(p)' = LockMode(p)
    BY <2>1 DEF LockMode, Owners, Sharers
  <2> QED
    BY <2>2 DEF LockModes
<1>9. CASE Next
  <2>1. CASE \E p \in Proc : Work(p)
    BY <1>3, <1>4, <1>5, <1>7, <2>1 DEF Work, Save, NextName
  <2>2. CASE \E k \in Cooker : Manage(k) /\ ~Work(k)
    BY <1>1, <1>2, <1>6, <1>7, <2>2 DEF Manage, Merge, MergeFile, DropFile
  <2>3. CASE \E k \in Cooker : Boot(k) \/ Quit(k) \/ StartParse(k)
    BY <1>1, <1>6, <1>8, <2>3
  <2>4. CASE \E k \in Cooker, p \in Parser : Terminate(k, p)
    BY <1>6, <2>4
  <2>5. CASE \E p \in Proc : Kill(p) \/ \E e \in Entry : Find(p, e)
    BY <1>5, <1>7, <2>5 DEF Find
  <2> QED
    BY <1>0, <1>9, <2>1, <2>2, <2>3, <2>4, <2>5 DEF Next
<1>10. CASE UNCHANGED vars
  BY <1>7, <1>10 DEF vars
<1> QED
  BY <1>9, <1>10

\* The processes take and leave the lock on the cache (the lockfile and unlockfile
\* calls of init_cache, save_extras and save_merge, and the end of a process) in the
\* steps of the abstract lock.
THEOREM UsesLock == Spec => LockSpec
  BY LockInit, LockStep, TypeCorrect, PTL DEF Spec, LockSpec, AbstractLock!Spec
=============================================================================
