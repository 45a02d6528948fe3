---------------------------- MODULE MultiProcessCache ----------------------------
(****************************************************************************)
(* bb.cache.MultiProcessCache, in which the parsed code and the checksums   *)
(* of files are kept from one build to the next.  Every process of a build  *)
(* saves what it found to a file of its own, and the cooker merges these    *)
(* extras into the cache file.  Builds may share the directory              *)
(* (BB_CACHEDIR), and a process may be killed at any step.                  *)
(*                                                                          *)
(* lockfile and unlockfile are taken for what LockFile shows of them; who   *)
(* holds a lock can be seen from where the processes are.                   *)
(****************************************************************************)
EXTENDS Naturals, FiniteSets

CONSTANTS
    Cooker,         \* the servers of build directories
    Parser,         \* processes that they may fork
    Entry,          \* things to be found: a piece of code, a file as it is now
    MaxSlot,        \* bound: the numbers in the names of extras files
    Finds,          \* the entries that a process comes across in this instance
    Pid,            \* the pid of a process, where it starts to look for a name
    Users,          \* the sets of processes that may use the directory
    MaxKills,       \* bound: how often a process is killed from outside
    MaxLeft         \* bound: a build parses when at most so many extras are left

Proc == Cooker \cup Parser
Slot == 1..MaxSlot
NoCooker == "none"

ASSUME ProcAssumption == Cooker \cap Parser = {} /\ NoCooker \notin Cooker /\ Pid \in [Proc -> Slot]
ASSUME FindsAssumption == Finds \in [Proc -> SUBSET Entry]
ASSUME BoundsAssumption == MaxSlot \in Nat /\ MaxKills \in Nat /\ MaxLeft \in Nat
ASSUME UsersAssumption == Users \subseteq SUBSET Proc

VARIABLES
    users,      \* the processes that use the directory, one of Users
    pc,         \* where a process is
    owner,      \* the cooker that forked a parser
    data,       \* cachedata of a process
    extras,     \* its cachedata_extras
    slot,       \* the number of the extras file it writes or tries next, or 0
    file,       \* the extras files
    cachefile,
    todo,       \* the files in the listing that are not yet merged
    have_data,
    kills,
    \* history, for the properties
    saved,      \* the entries that were completely saved
    written,    \* those that were ever in a complete cache file
    events      \* what went wrong so far

vars == <<users, pc, owner, data, extras, slot, file, cachefile, todo, have_data,
          kills, saved, written, events>>

\* A file: there is none; unpickling it raises EOFError, or UnpicklingError;
\* it has another CACHE_VERSION; it is complete.
File == [kind : {"none", "empty", "cut", "old", "full"}, data : SUBSET Entry]
Bare(kind) == [kind |-> kind, data |-> {}]
Full(S) == [kind |-> "full", data |-> S]

Events == {"torn",      \* a process was killed while it wrote an extras file
           "stopped",   \* a cooker was killed while it merged
           "killed",    \* a cooker was killed elsewhere
           "failed",    \* a merge failed
           "dropped",   \* an incomplete extras file was removed
           "blind"}     \* an incomplete cache file was read

Saving == {"save", "seek", "open", "write", "write rest", "leave"}
Merging == {"next", "rewrite", "write cache", "write cache rest"}

TypeOK ==
    /\ users \in Users
    /\ pc \in [Proc -> {"gone", "init", "read", "idle", "parse", "join", "merge"}
                           \cup Saving \cup Merging]
    /\ owner \in [Parser -> Cooker \cup {NoCooker}]
    /\ data \in [Proc -> SUBSET Entry]
    /\ extras \in [Proc -> SUBSET Entry]
    /\ slot \in [Proc -> Nat]
    /\ file \in [Slot -> File]
    /\ cachefile \in File
    /\ todo \subseteq Slot
    /\ have_data \in BOOLEAN
    /\ kills \in Nat
    /\ saved \subseteq Entry
    /\ written \subseteq Entry
    /\ events \subseteq Events

\* There are no files, or those of an earlier BitBake whose merge was cut short.
Init ==
    /\ users \in Users
    /\ pc = [p \in Proc |-> "gone"]
    /\ owner = [p \in Parser |-> NoCooker]
    /\ data = [p \in Proc |-> {}]
    /\ extras = data
    /\ slot = [p \in Proc |-> 0]
    /\ \E kind \in {"none", "old"} :
          /\ file = [s \in Slot |-> Bare(IF s = 1 THEN kind ELSE "none")]
          /\ cachefile = Bare(kind)
    /\ todo = {}
    /\ have_data = FALSE
    /\ kills = 0
    /\ saved = {}
    /\ written = {}
    /\ events = {}

-----------------------------------------------------------------------------

Goto(p, label) == pc' = [pc EXCEPT ![p] = label]

\* The processes that hold the lock on the cache, shared and exclusively.
Sharers == {p \in Proc : pc[p] \in Saving \ {"save"}}
Owners == {p \in Proc : pc[p] \in Merging \cup {"read"}}

\* Mutant: one may write while others read or write.
X_Exclusive == Owners = {}

Exclusive == Owners = {} /\ Sharers = {}
Shared == Owners = {}

\* The lock on the name of an extras file is held.
Held(s) == \E p \in Proc : pc[p] \in {"open", "write", "write rest", "leave"} /\ slot[p] = s

Children(k) == {p \in Parser : owner[p] = k}

\* One cooker has the directory to itself.
Alone == \E k \in Cooker : users \cap Cooker = {k}

\* A process ends; its locks go with it.
Ends(p) ==
    /\ Goto(p, "gone")
    /\ data' = [data EXCEPT ![p] = {}]
    /\ extras' = [extras EXCEPT ![p] = {}]
    /\ slot' = [slot EXCEPT ![p] = 0]
    /\ owner' = IF p \in Parser THEN [owner EXCEPT ![p] = NoCooker] ELSE owner

-----------------------------------------------------------------------------
(* A cooker starts: init_cache.  Its children have the lock of its build    *)
(* directory as well, and another cooker comes only when they are gone.     *)

Boot(k) ==
    /\ k \in users \cap Cooker /\ pc[k] = "gone" /\ Children(k) = {}
    /\ Goto(k, "init")
    /\ UNCHANGED <<users, owner, data, extras, slot, file, cachefile, todo, have_data,
                   kills, saved, written, events>>

InitLock(k) ==
    /\ pc[k] = "init" /\ Exclusive
    /\ Goto(k, "read")
    /\ UNCHANGED <<users, owner, data, extras, slot, file, cachefile, todo, have_data,
                   kills, saved, written, events>>

\* Mutant: the version is taken for the data.
X_ReadCache(k) ==
    /\ pc[k] = "read"
    /\ data' = [data EXCEPT ![k] = {cachefile.kind}]
    /\ Goto(k, "idle")
    /\ UNCHANGED <<users, owner, extras, slot, file, cachefile, todo, have_data, kills,
                   saved, written, events>>

\* Whatever is wrong with the file, the cache is empty then.
ReadCache(k) ==
    /\ pc[k] = "read"
    /\ data' = [data EXCEPT ![k] = IF cachefile.kind = "full" THEN cachefile.data ELSE {}]
    /\ events' = IF cachefile.kind \in {"empty", "cut"} THEN events \cup {"blind"} ELSE events
    /\ Goto(k, "idle")
    /\ UNCHANGED <<users, owner, extras, slot, file, cachefile, todo, have_data, kills,
                   saved, written>>

Quit(k) ==
    /\ k \in Cooker /\ pc[k] = "idle"
    /\ Ends(k)
    /\ UNCHANGED <<users, file, cachefile, todo, have_data, kills, saved,
                   written, events>>

-----------------------------------------------------------------------------
(* Parsing                                                                  *)

\* Parsers are forked with copies of what the cooker has.
StartParse(k) ==
    /\ k \in Cooker /\ pc[k] = "idle"
    /\ Cardinality({s \in Slot : file[s].kind # "none"}) <= MaxLeft
    /\ \E P \in SUBSET {p \in users \cap Parser : pc[p] = "gone"} :
          /\ pc' = [p \in Proc |-> IF p \in P \cup {k} THEN "parse" ELSE pc[p]]
          /\ owner' = [p \in Parser |-> IF p \in P THEN k ELSE owner[p]]
          /\ data' = [p \in Proc |-> IF p \in P THEN data[k] ELSE data[p]]
          /\ extras' = [p \in Proc |-> IF p \in P THEN extras[k] ELSE extras[p]]
    /\ UNCHANGED <<users, slot, file, cachefile, todo, have_data, kills, saved, written,
                   events>>

\* What is not in the cache is worked out and remembered.
Find(p, e) ==
    /\ pc[p] = "parse" /\ e \in Finds[p] \ data[p]
    /\ extras' = [extras EXCEPT ![p] = @ \cup {e}]
    /\ UNCHANGED <<users, pc, owner, data, slot, file, cachefile, todo, have_data, kills,
                   saved, written, events>>

EndParse(p) ==
    /\ pc[p] = "parse"
    /\ Goto(p, IF p \in Cooker THEN "join" ELSE "save")
    /\ UNCHANGED <<users, owner, data, extras, slot, file, cachefile, todo, have_data,
                   kills, saved, written, events>>

Joined(k) ==
    /\ pc[k] = "join" /\ Children(k) = {}
    /\ Goto(k, "save")
    /\ UNCHANGED <<users, owner, data, extras, slot, file, cachefile, todo, have_data,
                   kills, saved, written, events>>

Torn(p) == IF pc[p] \in {"write", "write rest"} THEN {"torn"} ELSE {}

\* A parser that takes its time is terminated.
Terminate(k, p) ==
    /\ pc[k] = "join" /\ p \in Children(k)
    /\ Ends(p)
    /\ events' = events \cup Torn(p)
    /\ UNCHANGED <<users, file, cachefile, todo, have_data, kills, saved, written>>

-----------------------------------------------------------------------------
(* save_extras, of every process                                            *)

AfterSave(p) ==
    IF p \in Cooker
    THEN /\ Goto(p, "merge")
         /\ slot' = [slot EXCEPT ![p] = 0]
         /\ UNCHANGED <<data, extras, owner>>
    ELSE Ends(p)

SaveNothing(p) ==
    /\ pc[p] = "save" /\ extras[p] = {}
    /\ AfterSave(p)
    /\ UNCHANGED <<users, file, cachefile, todo, have_data, kills, saved, written,
                   events>>

SaveLock(p) ==
    /\ pc[p] = "save" /\ extras[p] # {} /\ Shared
    /\ Goto(p, "seek")
    /\ slot' = [slot EXCEPT ![p] = Pid[p]]
    /\ UNCHANGED <<users, owner, data, extras, file, cachefile, todo, have_data, kills,
                   saved, written, events>>

\* Mutant: only the lock on the name is looked at.
X_Taken(s) == Held(s)

\* Somebody has the lock on the name, or there is such a file.
Taken(s) == Held(s) \/ file[s].kind # "none"

NextName(p) ==
    /\ pc[p] = "seek" /\ slot[p] \in Slot /\ Taken(slot[p])
    /\ slot' = [slot EXCEPT ![p] = @ + 1]
    /\ UNCHANGED <<users, pc, owner, data, extras, file, cachefile, todo, have_data, kills,
                   saved, written, events>>

TakeName(p) ==
    /\ pc[p] = "seek" /\ slot[p] \in Slot /\ ~Taken(slot[p])
    /\ Goto(p, "open")
    /\ UNCHANGED <<users, owner, data, extras, slot, file, cachefile, todo, have_data,
                   kills, saved, written, events>>

OpenExtras(p) ==
    /\ pc[p] = "open"
    /\ file' = [file EXCEPT ![slot[p]] = Bare("empty")]
    /\ Goto(p, "write")
    /\ UNCHANGED <<users, owner, data, extras, slot, cachefile, todo, have_data, kills,
                   saved, written, events>>

\* A large pickle is written in parts.
WriteSome(p) ==
    /\ pc[p] = "write"
    /\ file' = [file EXCEPT ![slot[p]] = Bare("cut")]
    /\ Goto(p, "write rest")
    /\ UNCHANGED <<users, owner, data, extras, slot, cachefile, todo, have_data, kills,
                   saved, written, events>>

WriteRest(p) ==
    /\ pc[p] \in {"write", "write rest"}
    /\ file' = [file EXCEPT ![slot[p]] = Full(extras[p])]
    /\ saved' = saved \cup extras[p]
    /\ Goto(p, "leave")
    /\ UNCHANGED <<users, owner, data, extras, slot, cachefile, todo, have_data, kills,
                   written, events>>

\* Both locks are given back.
Leave(p) ==
    /\ pc[p] = "leave"
    /\ AfterSave(p)
    /\ UNCHANGED <<users, file, cachefile, todo, have_data, kills, saved, written,
                   events>>

-----------------------------------------------------------------------------
(* save_merge, of a cooker                                                  *)

MergeLock(k) ==
    /\ pc[k] = "merge" /\ Exclusive
    /\ Goto(k, "next")
    /\ todo' = {s \in Slot : file[s].kind # "none"}
    /\ have_data' = FALSE
    /\ UNCHANGED <<users, owner, data, extras, slot, file, cachefile, kills, saved,
                   written, events>>

Removed(s) == file' = [file EXCEPT ![s] = Bare("none")] /\ todo' = todo \ {s}

merge_data(k, s) == data' = [data EXCEPT ![k] = @ \cup file[s].data]

MergeFile(k, s) ==
    /\ pc[k] = "next" /\ s \in todo /\ file[s].kind = "full"
    /\ merge_data(k, s)
    /\ have_data' = TRUE
    /\ Removed(s)
    /\ UNCHANGED <<users, pc, owner, extras, slot, cachefile, kills, saved, written, events>>

DropFile(k, s) ==
    /\ pc[k] = "next" /\ s \in todo /\ file[s].kind \in {"empty", "old"}
    /\ Removed(s)
    /\ events' = IF file[s].kind = "empty" THEN events \cup {"dropped"} ELSE events
    /\ UNCHANGED <<users, pc, owner, data, extras, slot, cachefile, have_data, kills, saved,
                   written>>

\* UnpicklingError is not caught: it ends the idle loop, and the server quits.
MergeFails(k, s) ==
    /\ pc[k] = "next" /\ s \in todo /\ file[s].kind = "cut"
    /\ Ends(k)
    /\ events' = events \cup {"failed"}
    /\ UNCHANGED <<users, file, cachefile, todo, have_data, kills, saved, written>>

\* Mutant: the merged data is not written.
X_MergeEnd(k) ==
    /\ pc[k] = "next" /\ todo = {}
    /\ Goto(k, "idle")
    /\ UNCHANGED <<users, owner, data, extras, slot, file, cachefile, todo, have_data,
                   kills, saved, written, events>>

MergeEnd(k) ==
    /\ pc[k] = "next" /\ todo = {}
    /\ Goto(k, IF have_data THEN "rewrite" ELSE "idle")
    /\ UNCHANGED <<users, owner, data, extras, slot, file, cachefile, todo, have_data,
                   kills, saved, written, events>>

\* The cache file is written in place.
OpenCache(k) ==
    /\ pc[k] = "rewrite"
    /\ cachefile' = Bare("empty")
    /\ Goto(k, "write cache")
    /\ UNCHANGED <<users, owner, data, extras, slot, file, todo, have_data, kills, saved,
                   written, events>>

WriteCacheSome(k) ==
    /\ pc[k] = "write cache"
    /\ cachefile' = Bare("cut")
    /\ Goto(k, "write cache rest")
    /\ UNCHANGED <<users, owner, data, extras, slot, file, todo, have_data, kills, saved,
                   written, events>>

WriteCacheRest(k) ==
    /\ pc[k] \in {"write cache", "write cache rest"}
    /\ cachefile' = Full(data[k])
    /\ written' = written \cup data[k]
    /\ have_data' = FALSE
    /\ Goto(k, "idle")
    /\ UNCHANGED <<users, owner, data, extras, slot, file, todo, kills, saved, events>>

-----------------------------------------------------------------------------

Kill(p) ==
    /\ pc[p] # "gone"
    /\ kills < MaxKills
    /\ kills' = kills + 1
    /\ Ends(p)
    /\ events' = events \cup Torn(p)
                     \cup (IF p \in Parser THEN {}
                           ELSE IF pc[p] \in Merging THEN {"stopped"} ELSE {"killed"})
    /\ UNCHANGED <<users, file, cachefile, todo, have_data, saved, written>>

Save(p) ==
    \/ SaveNothing(p) \/ SaveLock(p) \/ NextName(p) \/ TakeName(p)
    \/ OpenExtras(p) \/ WriteSome(p) \/ WriteRest(p) \/ Leave(p)

Merge(k) ==
    \/ MergeLock(k)
    \/ \E s \in Slot : MergeFile(k, s) \/ DropFile(k, s) \/ MergeFails(k, s)
    \/ MergeEnd(k) \/ OpenCache(k) \/ WriteCacheSome(k) \/ WriteCacheRest(k)

\* What a process does on its own, once it has something to do.
Work(p) == EndParse(p) \/ Save(p)
Manage(k) == InitLock(k) \/ ReadCache(k) \/ Joined(k) \/ Work(k) \/ Merge(k)

Next ==
    \/ \E p \in Parser : Work(p)
    \/ \E k \in Cooker : Manage(k) \/ Boot(k) \/ Quit(k) \/ StartParse(k)
    \/ \E k \in Cooker, p \in Parser : Terminate(k, p)
    \/ \E p \in Proc, e \in Entry : Find(p, e)
    \/ \E p \in Proc : Kill(p)

Fairness == (\A p \in Parser : WF_vars(Work(p))) /\ (\A k \in Cooker : WF_vars(Manage(k)))

Spec == Init /\ [][Next]_vars
FairSpec == Spec /\ Fairness

-----------------------------------------------------------------------------
(* What the cache promises                                                  *)

InExtras(e) == \E s \in Slot : file[s].kind = "full" /\ e \in file[s].data
InHand(e) == \E k \in Cooker : pc[k] \in Merging /\ e \in data[k]
InCache(e) == cachefile.kind = "full" /\ e \in cachefile.data

\* As long as no merge fails or is killed half way, an entry that was saved is in
\* an extras file, is being merged, or has got into the cache file.  There it
\* stays, unless several cookers use it, who overwrite it with what each of them
\* read when it started (save_extras, save_merge).
NothingLost ==
    events \cap {"failed", "stopped"} = {} =>
        \A e \in saved : \/ InExtras(e) \/ InHand(e)
                         \/ IF Alone THEN InCache(e) ELSE e \in written

\* Nobody reads a file that is being written: an incomplete one is met only after
\* its writer was killed (the locks of save_extras, save_merge and init_cache).
IncompleteOnlyAfterKill ==
    /\ events \cap {"failed", "dropped"} # {} => "torn" \in events
    /\ "blind" \in events => "stopped" \in events

\* What a process of the only cooker saves gets into the cache file, unless
\* something went wrong: nobody waits for a lock for ever, no file is left out.
SavedGetsMerged ==
    \A e \in Entry : e \in saved /\ Alone ~> e \in written \/ events # {}

-----------------------------------------------------------------------------
\* The processes take and leave the lock on the cache in the steps of the lock
\* that LockFile implements, also when they are killed or terminated.
LockMode(p) ==
    IF p \in Owners THEN "exclusive" ELSE IF p \in Sharers THEN "shared" ELSE "none"
LockModes == [p \in Proc |-> LockMode(p)]
AbstractLock == INSTANCE Lock WITH Procs <- Proc, mode <- LockModes
LockSpec == AbstractLock!Spec

=============================================================================
