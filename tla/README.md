# A verification project for BitBake: run queue, server, caches, hash equivalence

This directory holds TLA+ models of the parts of BitBake
(`src/sources/poky/bitbake`, the build engine this distribution is built
with) that run concurrently and decide what a build does, the TLC runs that
check them and theorems proved with TLAPS. Paths below are relative to
`src/sources/poky/bitbake` unless they start with `src/`; the copy under
`src/sources/sources_clean` is identical.

## 1. The system

The repository is a Yocto distribution: BitBake (a Python program), the OE-core
metadata, and layers of recipes for Digi boards. The metadata is data; the
program is BitBake. A `bitbake` command connects to a server process, which
parses the recipes, computes a graph of tasks and executes it in worker
processes. Its parts:

| part | state | operations | talks to |
|---|---|---|---|
| UI and server process (`lib/bb/server/process.py`, `lib/bb/command.py`) | lock file, socket, idle functions, current asynchronous command | connect, run command, idle loop, exit when unused | cooker, UI over pipes |
| cooker (`lib/bb/cooker.py`) | `state` (running, shutdown, forceshutdown, ...), parser, recipe cache | buildTargets, shutdown, parse | run queue through an idle callback |
| run queue data (`runqueue.py`, `RunQueueData`) | tasks, dependencies, weights, hashes | prepare | siggen, task data |
| run queue execution (`RunQueue`, `RunQueueExecute`, `RunQueueScheduler`) | sets of buildable, running, complete, failed tasks; `stats`; stamps in use; workers | execute, finish, finish_now, task_complete, task_fail, task_skip, read_workers, teardown_workers | workers through two pipes each |
| setscene queue (same file) | covered, not covered, deferred and held-off tasks | execute (first half), sq_task_*, process_possible_migrations | hash equivalence server |
| bitbake-worker (`bin/bitbake-worker`) | command queue, child processes | runtask, finishnow, quit, reap | run queue, task processes |
| disk monitor (`lib/bb/monitordisk.py`) | free space, actions taken | check, on the heartbeat event | run queue (finish_runqueue) |
| file locks (`lib/bb/utils.py`, lockfile, unlockfile) | a file, its inode, flocks | lock, unlock | all processes |
| caches (`lib/bb/cache.py`, MultiProcessCache) | extras files, merged file | init_cache, save_extras, save_merge | file locks, parser processes |
| hash equivalence server (`lib/hashserv`) | two tables, the current mark, a queue of rows to fetch | report, get, remove, garbage collection | clients over sockets, an upstream server |
| PR service (`lib/prserv`), asyncrpc | SQLite tables | getPR | clients over sockets |
| fetcher, parser, data store, siggen, task execution | files and values | | |

What is hard about them:

- **Concurrency.** The idle thread of the server is sequential, but workers and
  task processes run beside it, and what it decides is based on counters and
  sets that are only updated when it reads a pipe. Exit codes come in any order.
- **Stopping.** A build may be told to stop by the user (twice), by the disk
  monitor in two ways, by a failing task, by a dying worker, at any step, and
  several of these at once.
- **Stamps.** Whether a task runs depends on files that running tasks write.
- **Locks.** The lock file is removed by every holder while others wait for it.
- **Ends.** A server gives up its socket, its lock and its clients one after the
  other, while commands look for it.
- **Shared files and tables.** Every process of a build writes to the caches, every
  build to the hash equivalence server, and neither does it in one transaction.

The properties that make each part correct: tasks start once and after their
dependencies, limits are respected, stamps never shared or outdated, the result
is right, a build ends and leaves nothing running (run queue); mutual exclusion
although the file comes and goes, no litter, progress (locks); nothing that was
saved is lost (caches); one unified hash per task hash (hash equivalence
server); covered and not covered stay apart, held-off tasks are let go
(setscene queue); no two servers on one build directory (server).

## 2. The modules

| module | what it is |
|---|---|
| `TaskGraph` | abstract: what anyone executing a task graph promises |
| `RunQueue` | the run queue, its workers and what interferes with them; refines `TaskGraph` |
| `MCRunQueue` | instances of `RunQueue` for TLC |
| `RunQueue_proofs` | theorems about `RunQueue` |
| `SceneQueue` | the run queue with setscene tasks: what is restored from shared state, what is held off meanwhile; refines `TaskGraph` |
| `MCSceneQueue` | instances of `SceneQueue` for TLC |
| `SceneQueue_proofs` | theorems about `SceneQueue` |
| `SceneQueueSingle_proofs` | theorems about `SceneQueue` in builds without twins |
| `SceneQueueEnd_proofs` | theorems on how a build with setscene tasks ends |
| `Lock` | abstract: what `lockfile` and `unlockfile` promise those who use them |
| `LockFile` | lockfile and unlockfile over the kernel's open, flock, stat, unlink; refines `Lock` |
| `MCLockFile` | instance of `LockFile` for TLC |
| `LockFile_proofs` | theorems about `LockFile` |
| `ProcessServer` | the commands of one build directory and the servers they start |
| `MCProcessServer` | instance of `ProcessServer` for TLC |
| `ProcessServer_proofs` | theorems about `ProcessServer` |
| `MultiProcessCache` | what the processes of builds save in and read from a shared cache |
| `MCMultiProcessCache` | instance of `MultiProcessCache` for TLC |
| `MultiProcessCache_proofs` | theorems about `MultiProcessCache` |
| `HashServ` | the hash equivalence server, its database and the one upstream |
| `MCHashServ` | instances of `HashServ` for TLC |
| `HashServ_proofs` | theorems about `HashServ` |

### RunQueue

One call of `buildTargetsIdle` (cooker.py:1474) after the other is executed by
the idle thread; `pc` is where it stands:

| `pc` | code |
|---|---|
| `idle` | between two calls; here the heartbeat may start the disk monitor (`monitor`) |
| `enter` | `execute_runqueue`, at `check_for_interrupts` |
| `read`, `wait`, `drain`, `stop`, `diskstop` | in `read_workers`, called by execute at its start, by execute when no task can be started, by finish from `_execute_runqueue`, by finish from `buildTargetsIdle`, by finish from the disk monitor |
| `sched` | in execute, at `sched.next()` |
| `after` | behind `if self.state is runQueueRunning` in `_execute_runqueue` |
| `teardown` | in `teardown_workers` |
| `ended` | the callback was removed: `result` says how |

`toread` and `reading` are the loop of `read_workers`, in any order (it goes
over dictionaries). Every worker has its process state, its stdin pipe `inq`,
its forked tasks `children` and the exit codes in its stdout pipe `exits`, a set
because the order in which children are reaped is not determined. A worker that
quits or dies kills nobody: its tasks become `orphans`, which end when the signal
they asked for reaches them (`signal_on_parent_exit` in `fork_off_task`) or by
themselves, perhaps after writing their stamp, and whose exit code nobody reads. `cooker` is
`cooker.state`, set by commands at any moment. `written` is the sequence of
stamps written, of which `StampCurrent` compares ages as `check_stamp_task`
compares modification times.

The outside world is one set `Faults` of things an instance allows: failing
tasks, dying workers, unstartable fakeroot workers, scheduling pressure, shutdown
and forced shutdown, STOPTASKS and HALT.

What is abstracted:

- The scheduler classes only rank tasks; here any eligible one is picked.
- Pressure (PSI or load) may or may not hold a task back, but only while
  tasks are active, as the code insists.
- A stamp is a file name; tasks that share one (the same recipe in two
  multiconfigs) have the same dependencies in their recipe, because a stamp's
  name holds the task's hash (`StampsAssumption`). Modification times are a
  total order; with a file system of coarse time stamps two may be equal, which
  `check_stamp_task` treats as not newer. The `nostamp` flag and `BB_STAMP_POLICY`
  full are not modelled.
- A pipe read takes all complete messages: a message cut by the end of a read is
  handled on the next one.
- A build without setscene tasks: `sq_live`, `holdoff_tasks` and the like are
  empty, `tasks_notcovered` is everything. `SceneQueue` models them.
- `handle_finishnow` waits for any child, not for the one just killed, and misses a
  child that has not called `setsid` yet: any of them may be left behind, is then
  reaped by the main loop and does report. Whether it was killed is not recorded: it
  may report either way.
- The processes a task starts itself are part of it.
- Events, logging, progress and profiles are left out.

### SceneQueue

The other half of `RunQueueExecute`. A task whose output is in the shared state
cache has a setscene task that restores it. The queue goes through the setscene
tasks from the top of the graph down and decides each: covered (restored, not
needed, or there already) or not covered (not in the cache, failed). What is
below an undecided task is held off; tasks that have equal hashes in several
multiconfigs are deferred, one after the other. The two modules share
`TaskGraph`, which both refine, but no state: `RunQueue` has the workers, pipes,
interruptions and stamps in full, `SceneQueue` the decisions. One round of `pc`
is one call of execute, followed by finish once the build is to be cleaned up:

| `pc` | code |
|---|---|
| `read` | `read_workers`, at the start of execute: `ReadScene`, `ReadComplete`, `ReadFailed`, `ReadReport`; then the first half of `process_possible_migrations`, `Rehash` (2542-2656) |
| `migrate` | its second half, `Migrate` (2657-2745) |
| `migrated` | the check for setscene tasks that may start (2184-2201) |
| `scene` | the loop for the next setscene task (2201-2314) |
| `sched` | from `update_holdofftasks` to the end of execute (2316-2449) |
| `finish` | finish, after a failed task without `-k` |
| `ended` | the callback was removed |

`Cover` and `Uncover` are `sq_task_completeoutright` and `sq_task_failoutright`
with all of `scenequeue_updatecounters`; the cascade of failures over hard
dependencies is the least set `FailSet`, the walks down the graph are
`DoneAfter` and `sq_covered_tasks`. `Least` replaces the code's work lists: what
such a list ends with is the least set that is closed under its step.
`ReleaseDeferred` is the end of `task_completeoutright`, and
`update_scenequeue_data` for the one task it lets go.

Hashes change while the build runs. When a task puts its output into the cache it
reports it to the hash equivalence server (`TaskReports`), and may be told that the
output is that of another hash. The event goes through the pipe of its worker
(`reports`), is queued (`updated_taskhash_queue`) and taken once the task is
complete. `Rehash` gives the new hash to the task and to what is deferred after it
(`Told`), and works out the hashes of all tasks above (`Regenerated`); those that
are restored or covered keep theirs (`Kept`), the setscene tasks among the others
get a migration pending. `Migrate` undoes the decision on each of these, unless its
task runs or has run (`Late`) or a task that it covers runs (`Blocked`), and decides
anew what has a stamp or a hard dependency that is not covered (`DecideAnew`).
`unihash` is what the queue holds for a task, `siggen` what the signature generator
holds, which is not the same for the tasks that keep theirs; `bb_unihash` is what
the process of a task was started with and was told since.

What is abstracted:

- What the server answers for a hash made of new hashes is any of `NewHashes`, in
  every combination in which something below has moved; it is not required to
  give equal answers to equal questions. That is more than a server does.
- A hash of a setscene task is `pending_hash_index`, the task's name with its unified
  hash: two tasks have the same one only as twins in two multiconfigs.
- The events and exit codes of one task come in their order, those of several tasks
  in any, and a read may leave some in the pipe.
- `Stamps` are those that setscene tasks of earlier builds left, one for each hash. A
  task in `Built` has a stamp, so its hash is that of the earlier build and may
  not change.
- Of two deferred tasks the code takes the one first in the order of names; here
  it may be any. So may the next setscene task be any candidate (the code follows
  a sorted list).
- Each multiconfig has a TMPDIR of its own: tasks of different multiconfigs with
  one hash do not share a stamp. `Stamps` and `Built` are what earlier
  builds left. A task of an earlier build ran after its dependencies
  (`SubsetsAssumption`), and `check_stamp_task` therefore needs no recursion.
- `BB_SETSCENE_DEPVALID` is a function of the metadata. Here it lets go of the
  tasks in `Droppable`, provided that all that need them are covered.
- Hard dependencies (`BB_SETSCENE_DEPENDS`) are setscene tasks.
- The stamps of a setscene task and of its task are looked at when the scene queue is set up and after a
  migration, not once more when the task is picked (runqueue.py:2257-2270): in between nobody
  writes them, because neither of the two has run.
- `--setscene-only`, `--skip-setscene`, `-f` and setscene enforcement
  are left out, as are the user's interruptions and workers that die.
- The cache only grows: what tasks with a setscene task make is put there, under the
  hash they were told last. `Cached` bounds what it may hold at first, `Failing` and
  `SceneFailing` which tasks may fail although their inputs are there.

### LockFile

Each system call is a step. An inode number that nobody uses any more may be
given to the next file that is created. A process may be killed at any step
(`MaxCrashes`), which closes its files. The conversion of a shared to an
exclusive lock is atomic, as in Linux where both happen under one spin lock;
POSIX does not say so. EACCES and ENAMETOOLONG, on which lockfile exits the
process, are not modelled, nor is a network file system.

`ProcessServer` and `MultiProcessCache` use locks too. They do not repeat the
system calls but take from here what the theorems say: a lock is given to one process,
or to several sharers, and ends with the process that has it. `Lock` is that promise in four
definitions. `LockFile` implements it (`LockSpec`): the lock is taken when the path turns out to lead to
the inode that was locked, and given back where `unlockfile` begins, before the promotion and the unlink.
`MultiProcessCache` takes and leaves its lock in the steps of `Lock` and no others (`UsesLock` in 4).

### ProcessServer

`bitbake` finds or starts the server of its build directory (`setup_bitbake` in
`lib/bb/main.py`, `BitBakeServer` and `connectProcessServer` in
`lib/bb/server/process.py`). They meet at two files. `lockers` is who has
`bitbake.lock`: it is a set because the lock belongs to the open file, which the
command and the server it forked share until the command closes it. `sock` says
whose `bitbake.sock` is, `Stale` if nobody listens on it any more. `litter` is history: a server
was killed while its socket file was there, or ended before its loop, and no server was started since.

| `pc` of a command | code |
|---|---|
| `lock`, `got` | `setup_bitbake`, at `lockBitbake` and with the lock |
| `parent`, `ready` | `BitBakeServer.__init__`, after `createDaemon` and while waiting for the word that the server is ready (`told`) |
| `reconnect`, `poll`, `polled` | there is no lock to be had: with a socket one connects, without one the lock is tried for five seconds |
| `connect`, `reply`, `served` | `connectProcessServer`, waiting for the answer of setFeatures, and in session |

A server goes from `forked` over `bind` and `boot` to the `loop` of
`ProcessServer.main`, and leaves it by `stat`, `unlink`, `close`, `release`, `relock`. At `boot`
it may also end, without any fault (`NotStarted`): the cooker cannot be made (BBHandledException,
process.py:678), or the command it is to tell has given up waiting or was killed, and the write to
the closed pipe fails (680). Either way the socket file stays, and the lock goes with the process.
A connect that finds the backlog full fails at once (`BacklogFull`): the socket has a timeout, and `connect`
to a local socket does not wait for it.
A connection is in the backlog of the kernel, in `newconns` (`newconnections`) or
the one that is served (`ctrl`); the name of the client in it becomes `Gone` once the
client hangs up, `Term` if it sent terminateServer before.

What is abstracted:

- Time. Each timeout may fire at any moment its condition holds; sleeping between
  retries is left out, and there are one or two of them instead of eight.
- The session is setFeatures and then the end of one side, whichever notices. What a
  build does meanwhile is `RunQueue`. Asynchronous commands appear in that a server whose client
  leaves may have to wait for them, in vain after thirty seconds.
- The XML-RPC server, the renamed build directory and the observer mode are left out.

### MultiProcessCache

The cache of parsed code and the one of file checksums are kept by
`MultiProcessCache`. A process saves what it found to an extras file of its own
(`save_extras`), with a shared lock on the cache; the cooker merges these into the
cache file (`save_merge`), with an exclusive one. `pc` says where in these and in
`init_cache` a process is; who holds a lock can be read from it (`Sharers`,
`Owners`, `Held`). The composition has what calls them: a cooker that starts, forks
parsers with a copy of its data, joins or terminates them, saves and merges.

What is abstracted:

- An entry is found or not; what it says is determined by its key. For checksums
  the key is the file with its modification time, so an entry that is
  replaced by a later one of the same file is not modelled.
- A file is complete, or an earlier version, or cut short in one of two ways that the
  code treats differently: unpickling an empty file raises EOFError, which is
  caught, unpickling a half written one raises UnpicklingError, which in save_merge
  is not. It ends the idle thread and with it the server.
- The number at the end of an extras file is a small one, and pids are close to each other, so
  that processes do meet at one name.
- A cooker that shares the directory with others is one that was given the same `BB_CACHEDIR`.

### HashServ

The server (`lib/hashserv/server.py`) with either database (`sqlite.py`,
`sqlalchemy.py`). A request is as many steps as it has transactions and questions to the
upstream server; `req` holds what the handler has in its local variables
between them. `unihash` and `mark` are the table `unihashes_v3`,
`created` the table `outhashes_v2`, whose rows matter by their age. `backfill` is
`backfill_queue`, emptied by a worker of its own.

What is abstracted:

- A task is a method with a task hash. Unified hashes start as task hashes, so hashes are
  tasks as well. A client proposes the task hash or a hash it was told (`Own`).
- In sqlite `insert_outhash` compares `lastrowid` with that of a fresh cursor, which
  always differs: it calls every row new. In sqlalchemy only an inserted row is (`SaysNew`).
- remove and gc-mark take a condition on one column, task, unified hash or output.
- A client may ask for all columns (`GetAll`), or for the row of an output without its unified hash
  (`GetOuthash` of the kind `get-row`). Of the answer only the unified hash matters; the rows that
  the handler takes over from upstream into both tables are modelled (`update_unified`).
- The time of a report's row is taken when the request begins, and the row is made in a later
  step (`InsertOuthash`): reports may get to the table in another order than that of their times.
- Existence streams, users, permissions and statistics leave the two tables alone.
- The upstream server is code of the same kind, modelled from how this one uses it: its
  clients only report, and each of its requests is one step.

## 3. The runs

| run | config | what it asks |
|---|---|---|
| `keep_going` | RunQueueKeepGoing | `bitbake -k`, six tasks, two of them sharing stamps with others, one noexec, two stamps present that are outdated by what runs; tasks fail, the user shuts down, STOPTASKS fires, pressure |
| `faults` | RunQueueFaults | four tasks, three of which could run at once, limit 2, `number_threads` 1 on one name, a fakeroot worker; tasks fail, workers die or do not start, HALT, forced shutdown |
| `disk_halt` | RunQueueDiskHalt | HALT after a shutdown request (a violation, see 5) |
| `thread_slot` | RunQueueThreadSlot | `-k` with `number_threads` (a violation, see 5) |
| `scene_image` | SceneQueueImage | an image of two packages and a document on a shared compilation, sysroot and tool; the sysroot turns out to equal an older one, and the packages may then equal older ones, too, of which one is in the cache and the document in place; any subset of outputs in the cache, restores and tasks that fail, the build halts on a failure (250 468 states) |
| `scene_twins` | SceneQueueTwins | one package on one library in two multiconfigs, equal hashes that may change, hard dependencies, tasks that fail, `-k` (6 176 states) |
| `scene_guest` | SceneQueueGuest | the twins, with a third package that insists on one of them (a violation, see 5) |
| `lock_file` | LockFile | three processes, exclusive, shared and single-attempt callers, a left-over lock file, one kill |
| `server` | ProcessServer | up to three commands on one build directory, servers that live on or not, one fault (a kill, or work that hangs), a socket file left behind: six settings; a server may end before it is ready at any time (216 683 states) |
| `cache` | MultiProcessCache | a cooker with two parsers, or two cookers with one cache directory; one kill, one extras file of an earlier build (405 557 states) |
| `hashserv` | HashServ | two connections with four requests of any kind in all on three tasks and two outputs, two marks, with sqlite and an upstream server, or with SQLAlchemy and none (1 009 543 states) |
| `hashserv_race` | HashServRace | reports of two tasks and one output with SQLAlchemy (a violation, see 5) |

What they show:

- `GraphSpec`: the run queue refines `TaskGraph`, so a task starts once, after
  its dependencies, and completes or fails for good, under all faults of the run.
- `Accounting`: while the state is Running, `stats.active` counts the tasks
  sent and not reaped. It is not true later: a failed spawn lowers it once
  too often, killed tasks are never subtracted.
- `ConcurrencyLimit`, `ThreadLimit`: counted over *processes*, across workers,
  also when workers die and while the queue is winding down.
- `StampExclusion`: two processes never work on one stamp.
- `UpToDate`: a complete task's stamp is on disk and no dependency of the same
  recipe has a newer one; stale stamps found at the start are not trusted.
- `ResultRight`: without interference "ok" means all tasks, "failed" means a
  failed task; the "never buildable", "never ran", "never completed" checks of
  execute do not fire.
- `AsMuchAsPossible`: with `-k` exactly what depends on a failed task is missing.
- `Termination`: the callback ends with failing tasks, dying and unstartable
  workers, HALT and forced shutdown in any combination, as long as nobody asks for a plain
  shutdown: with a HALT after one the build does not end, see 5, and the run leaves it out.
- `NoOrphans`: the build ends after its workers, and after its task processes too as
  long as none was cut off. The teardown waits for workers only, so this is about
  `finish` and `execute` not letting it begin too early. After a forced shutdown, a
  HALT, or with a worker that died or did not start, task processes can be left when
  the callback ends, on their way out.
- `Disjoint`: without twins no setscene task is both covered and not
  covered, whatever fails. With deferred tasks it is not so, see 5.
- `InputsThere`: a task that runs finds all it depends on run or restored,
  although the queue drops covered tasks, dependencies that are "not needed" and
  what those cover.
- `NoOverlap`: while an output is restored, nothing runs that makes it or that it
  covers. The code hopes to see to this with `holdoff_tasks` only.
- `InputsSettled`: when a task runs, no report of a task below it waits in a pipe or in
  the queue: it was started with hashes that are made of those that were told. It rests
  on exit codes not overtaking events, and on `process_possible_migrations` coming
  before the choice of a task.
- `HardDepsThere`: a setscene task starts with its hard dependencies there. The
  property speaks of those that are next below it. With another setscene
  task between that is restored already, `NotNeeded` looks at that one only, and
  may drop the hard dependency before the upper task asks for it.
- `BuiltOnce`: what was restored is not run too, and of tasks with one hash one is
  run, as long as nothing fails and no hash changes. When one does, twins may be
  built both, see 5.
- `ResultRight`, `Termination` of `scene_twins`: the sanity checks of execute and
  of `summarise_scenequeue_errors` do not fire, and holding off and deferring
  come to an end. `GraphSpec` of `scene_image`: also with setscene tasks a task
  starts once and after its dependencies.
- `MutualExclusion`, `HolderOnDisk`, `NoLitter`, `Progress` of the lock file.
- `LockSpec`: to those who call it the lock file is a lock that is taken and given back in one step.
- `ServerReachable`: a server that can be talked to has the lock, and the socket file
  is its own, although commands share a lock with the server they fork, and old
  servers unlink the socket by its name.
- `SessionKept`: a command that got an answer keeps its server until it ends itself;
  the timeout of a server, which is looked at between accept and the arrival of the
  client's pipes, never cuts it off.
- `NoLitter` of `server`: the socket file a command finds is that of a server that listens,
  unless a server was killed or ended before its loop, and none was started since. Three
  servers may be on their way out while the file is bound, found, unlinked by name and bound
  again; what an aborted start leaves is removed by the next start.
- `EveryoneEnds`: every command ends, with a server or without, and every server that
  is not to stay.
- `NothingLost`: from the moment it is saved an entry is in an extras file, in the hands of
  the cooker that merges, or has been in the cache file, where it stays if no other
  cooker uses it. `SavedGetsMerged`: with one cooker it does get there.
- `IncompleteOnlyAfterKill`: nobody reads a half written file; a merge fails, a file is
  dropped, or a cache is thrown away, only after its writer was killed.
- `SoundEquivalence`: two task hashes have one unified hash only if a chain of equal
  outputs and claims of clients joins them, whatever is reported, looked up,
  fetched, removed and collected in between.
- `ReportersAgree`: with sqlite all who report a task are told one hash as long as its row is
  not removed.
- `SweepKeepsMarked`: a sweep removes no row that was marked, or made, since the mark that is
  current was set. The comparison of the mark and the sweep are two transactions: a sweep may
  come to go by a mark that was set in between, and then keeps what that mark keeps.

Bounds. Six tasks give a chain, a join, a pair of twins with one stamp and a
task independent of the others; two threads give one task that must wait and
one that shares; four tasks with a limit of two and three roots make the limit
bite. Every fault may happen at every step and in every combination the run
lists; workers may die each once (they are not restarted by the code). For the
lock three processes are needed so that one can remove a file a second has open
while a third creates it again, three inodes so that a number can be reused.
Ten tasks with five setscene tasks give every shape the decisions look at: a task
needed twice, by a covered and by an uncovered one, a task wanted for itself, a
hard dependency that is also an ordinary one; all 16 contents of the cache are
initial states. One report (`Reporting`) changes the hashes on two levels, among
them of a task that is covered, one that waits, one that is not in the cache; each
branch of `Migrate` is taken but the one that is proved unreachable (4). Two multiconfigs are the
least that has a deferred task, and have it on two levels.
Three commands are needed so that one ends a server while a second waits for it and
a third starts another. Two processes that save and one that merges, with one file
of an earlier build, give every meeting at a file's name; pids one apart and five
slots let the search for a free number run past another process. Three tasks and two
outputs give a chain of two equivalences and one task outside of it; four requests on
two connections put two others between the transactions of one. Two marks let a sweep that was asked for one
run when the other is set.
The theorems show that the safety properties do not depend on these bounds.

Fairness. `FairSpec` of RunQueue: the idle thread keeps calling its callbacks
(`while not self.quit` in `idle_thread_internal`), each worker keeps serving its
pipe, each task process ends some time (a task that hangs holds up a real build
too). Nothing outside is obliged to happen. `FairSpec` of SceneQueue says the same of
its two processes: execute is called again and again, and of the tasks and
setscene tasks that run one ends some time. `FairSpec` of LockFile: a process
inside lockfile or unlockfile, or holding the lock, keeps running; nobody has to
call. `Progress` is about the group: the code says itself the lock is unfair.
`FairSpec` of MultiProcessCache: each parser and each cooker goes on while it has
something to do; nobody is obliged to start, to find anything or to be killed. That of
ProcessServer: each command and each server makes its next step; a timeout may always come late,
and no fault has to happen. HashServ states no fairness, for its properties are all
safety. `CHECK_DEADLOCK FALSE` stands in its configurations because the number of requests is
bounded, and in that of ProcessServer because in the end everybody may be gone.

## 4. The proofs

For every finite task graph, all numbers of threads, any assignment of workers
and stamps and all faults together, `RunQueue_proofs` proves

- `TypeCorrect`, `Invariant`: `TypeOK` and the inductive invariant `IInv`;
- `AccountingHolds`, `ConcurrencyBounded`, `ThreadsBounded`, `StampsExclusive`,
  `StaysUpToDate`: the safety properties of the same names as in the runs;
- `ImplementsGraph`: the refinement of `TaskGraph`;
- `NobodyLeft`: `NoOrphans`, over failing tasks, plain shutdown and STOPTASKS; of
  the other faults it says that the workers are gone;
- `EndsRight`: `ResultRight`;
- `BuildsAllItCan`: `AsMuchAsPossible`, if no task name has `number_threads` (with it
  the property is false, see 5) and no worker dies or fails to start.

The properties are not inductive. That processes are few, for instance, says
nothing about the commands still in a pipe. `IInv` therefore says where a task
can be: `OnePlace` that a task is at one place of its worker (command pipe,
running, exit code pipe), or has lost it and is nowhere else, and then has an entry in
`build_stamps`; `Bookkeeping`
how the sets of RunQueueExecute relate, among them that only tasks whose
dependencies are complete are buildable; `Counting` that `active` is the size of
`build_stamps` while it is used; `Slots` that the limits and the exclusion of
stamps hold of `build_stamps`; `Settled` that what exited well is up to date
until its exit code is read. The limits on processes follow, since processes are
part of `build_stamps`. The pipes are treated in three lemmas (`SentKeepsPlaces`,
`RunTaskPlaces`, `ServePlaces`), so that the step lemmas argue on sets only.

How a build ends has invariants of its own. `Gathered`: a worker that is not up has
neither tasks nor commands, and the teardown has seen the end of every worker
it is done with. `Reaped` says of builds in which no task is cut off (`Unhurt`: a
shutdown or STOPTASKS may come at any moment, HALT, forced shutdown and dying workers
may not) that the counter is exact also while the queue winds down, that the workers
stay until the teardown, and that this comes when nothing is waited for (`Steady`).
`Calm` adds, if nothing outside interferes at all, that no task is lost and that all
that can be built is buildable (`Outcome`). That the scheduler is not stuck with something
left to build then follows from `LoopFreeAssumption`: of the tasks that are not
complete one needs none of the others. `Exhausted` adds for `-k` that the queue does
not declare the end while something buildable was not started.

`SceneQueue_proofs` proves, for every finite task graph, choice of setscene tasks,
hard dependencies, hashes, changes of hashes and content of the cache,

- `TypeCorrect`, `Invariant`: `TypeOK` and the inductive invariant `IInv`;
- `NeverOverlaps`: `NoOverlap`;
- `SettledInputs`: `InputsSettled`;
- `NeverHalted`: `process_possible_migrations` never finds a task "marked as completed but now
  needing to rerun", on which it would stop the build;
- `ImplementsGraph`: the refinement of `TaskGraph`.

`NoOverlap` relates two halves of the queue that never look at each other. The
argument: what is being restored is undecided (`LiveInv`), and stays so, because a
failure decides others only over hard dependencies (lemma `FailSpares`), because the end
of a task decides at most a deferred task, which what was started is not
(`ReleaseFacts`), and because what is restored does not migrate (`Late`). Every
undecided task holds off what it covers whenever a task is picked (`HoldInv`: each
decision asks for a new computation, and `sched` is only entered through it),
so nothing it covers is ever started; a migration makes a task undecided only if nothing
that it covers runs (`ApartInv`).

With changes of hashes this needs more, since decisions are undone. A task that is
restored has a hard dependency that is covered: could that one migrate and fail,
the restore would be declared failed while it goes on. It cannot, since what is covered and was
never declared uncovered (`Surely`) keeps its hash (`Kept`) and so never has a migration pending
(`PendInv`). Hence also a task that was skipped because others cover it is covered
to the end (`SkipInv`), which is why the build is never halted for a rerun. The cascade of
failures passes over tasks with a stamp, and a stamp is one for a hash: `StampInv` says that
an undecided task with a stamp for its hash keeps that hash or is about to migrate,
`HardInv` that one without a stamp insists on nothing that is not covered, `SkippedInv`
that a task whose stamp was left by this build is covered as soon as its exit code is read.

`InputsSettled` follows from `ExitsInv` (who has a report in the pipe runs, so nothing above it
does) and `SettledInv` (once the changes of hashes are done no update waits of a task that is complete).
The refinement needs `ReadyInv`, what is buildable or runs has its dependencies
complete, and `ExitsInv`, an exit code belongs to something that runs and is read once.

`SceneQueueSingle_proofs` proves, for the same graphs, `DecidedOnce` (`Disjoint`), `InputsPresent`
(`InputsThere`), `HardDepsPresent` (`HardDepsThere`) and `NothingTwice` (`BuiltOnce`), of builds
in which no two tasks ever have one hash (`NoTwins`, as with one multiconfig) and no earlier build
has left the stamp of another hash for a setscene task with hard dependencies (`NoOlder`). Without
either the properties are false: see `scene_guest` in 5, and what is observed there of migrations.
The argument: nothing is deferred and nobody is told the hash of another (`AloneInv`). A covered task
keeps its coverage and its hash, so what is there to stay, `Firm`, only grows. What is covered is
there, or all that need it are covered too (`CoveredInv`). Whenever a task is picked the computed
sets agree with the decisions (`FreshInv`); so what was skipped is covered or not needed
(`SkippedRightInv`), and all that a task needs when it is picked is in `Firm` (`InputsInv`). An
undecided task with a stamp is about to migrate (`StampedInv`), hence never decided for both reasons.

`SceneQueueEnd_proofs` proves how a build ends, with twins or without, with changes of hashes and with any tasks
failing: `ResultsRight` (`ResultRight`) and `StuckOnlyWhenDeferred`, that when nothing runs and no setscene task may
start everything is decided, unless one waits for its twin. The queue has no list of what is left to
do; that it has not lost anything is the invariant `EndInv`. What was started is restored or decided, and what nothing
undecided needs may start (`StartableInv`): of the undecided tasks the topmost has nothing undecided above it, and if it
waits for hard dependencies, of these one waits for none. What is decided, and what only such tasks need, is
in `tasks_scenequeue_done` (`DoneInv`). Whenever a task is picked it is known of all of these whether they are covered,
only undecided tasks hold off others, and what is known and has its dependencies complete is buildable (`KnownInv`).
So when the queue finds nothing to start and nothing runs, all is decided (`TriedInv`), then all tasks are known,
and the first that is not complete could be started (lemmas `AllDone`, `AllKnown`, `SomethingToPick`).
"Topmost" and "first" are choices of a minimal element, by `LoopFreeAssumption`
(`calculate_task_weights` ends the build when dependencies form a loop). For hard dependencies the code makes no such
check, so the theorems ask for it (`NoHardLoops`): with two setscene tasks that insist on each other, TLC finds
a build that fails though no task failed.

`ProcessServer_proofs` proves, for any number of commands, servers and faults,
`TypeCorrect`, `OneReachableServer` (`ServerReachable`), `NothingLeft` (`NoLitter`) and
`SessionsKept` (`SessionKept`). `NothingLeft` includes servers that are killed or end before their loop: whatever
happened, a socket file without a listener is accounted for by one of those (`Accounted`). The invariant says who has the lock at which step (`ServersLock`,
`ClientsLock`: a command shares it only with the server that it forked, `OneServer`, `AloneThere`),
whose the socket file then is (`OwnSocket`, `NoSocket`), and to which server a command at
each step is attached (`Attached`).

`MultiProcessCache_proofs` proves, for any number of processes, files and kills,
`TypeCorrect`, `Invariant`, `WritersExclude`, `NobodyReadsHalf` (`IncompleteOnlyAfterKill`) and `SavedIsKept`
(`NothingLost`). Its invariant follows an entry: who is where in the program (`Placed`) holds
which lock (`Locked`) and has which name to itself (`Named`); which extras files there can be and
what is in them (`Extras`), what is on the list of who merges (`Merged`), what
each process knows (`Known`), and that who is going to write the cache has all of what it held
(`Loaded`). `UsesLock` is the other half of what `LockFile_proofs` proves of the lock: each step of a process is, for
the lock on the cache, a step of `Lock` or none, a merge that fails and a kill included.

`HashServ_proofs` proves, for any number of connections, tasks and outputs, `TypeCorrect`,
`OnlyConnected` (`SoundEquivalence`), `OneHashForAll` (`ReportersAgree`) and `SweepsKeepMarked`
(`SweepKeepsMarked`). Each request holds values it read some transactions ago. The invariant
(`Typed`, `OneAnswer`, `Marked`, `Connected`) says of each of these at which step it still agrees
with the tables and of which it only has to be connected to the task.

`LockFile_proofs` proves `TypeCorrect`, `Invariant`, `HeldOnDisk`, `Exclusion` and `LeavesNothing`
(`NoLitter`), and `ImplementsLock` (`LockSpec`) for any number of processes, inodes and crashes. Its invariant: locks on one
inode are compatible (`Compatible`), and a process at a step that relies on its
lock has it, on the inode the name leads to (`Owned`). The last is kept because
only a process with an exclusive lock on that inode unlinks the name. For `NoLitter`, `Tidy`
says that as long as there is a file some process still looks after it.

The assumptions are those named in the modules (`TasksAssumption`, `LoopFreeAssumption`,
`StampsAssumption`, `NumbersAssumption`, `WorkersAssumption`,
`SwitchesAssumption`; `GraphAssumption`, `HashAssumption`, `SubsetsAssumption`,
`SettingsAssumption`; `CallsAssumption`, `InodesAssumption`; `ProcAssumption`,
`SettingsAssumption`, `BacklogAssumption`; `FindsAssumption`, `BoundsAssumption`, `UsersAssumption`;
`NoneAssumption`, `KindAssumption`, `ServersAssumption`), which TLC evaluates in the runs.

Only model-checked are the liveness properties `Termination`, `Progress`, `EveryoneEnds` and
`SavedGetsMerged`, which the prover cannot treat, and `BuiltOnce` of builds with twins, which the
instance `scene_twins` has and not every graph: when one of two twins insists on a task that the other does
not insist on, it may be failed by that task while it is deferred, and then both are run.

## 5. Findings

- `disk_halt`: after one Ctrl-C, `buildTargetsIdle` calls `finish` on every round.
  When HALT kills the tasks in between, `finish` overwrites the final state
  with CleanUp and waits for exit codes that are never sent. A second Ctrl-C ends
  it. The same overwriting happens when a STOPTASKS action follows a HALT
  action in one sweep of the monitor.
- `thread_slot`: tasks that failed stay in `runq_running - runq_complete`, which
  is what `number_threads` is compared with, so under `-k` tasks of that name are
  not started although nothing they need failed.
- `scene_guest`: a task that is deferred after its twin is failed by a hard
  dependency, but stays in `sq_deferred`. It is then run and leaves a stamp. When
  the twin completes, `task_completeoutright` lets the deferred task go,
  `update_scenequeue_data` finds the stamp and skips the task without asking
  whether it is decided: it is covered and not covered, which
  `summarise_scenequeue_errors` reports as a bug.
- `hashserv_race`: with SQLAlchemy a report whose row is there already looks up the unified hash
  at once. If the first report of this task and output is between its two inserts there is
  none yet, and the second client is told the hash that it proposed; the first may then be told
  another. `lib/hashserv/tests.py:197` and `:515` say that both get one.

Observed while modelling, without a document to contradict: when a worker dies
and no task has failed, `finish_now` sets Complete and the build is reported
good though tasks are missing (`ResultRight` excludes worker deaths); in
`finish`, once the workers are torn down, the empty list of `active_fds` is taken
for the end of the build; "Forced shutdown" is never shown, because
`check_for_interrupts` raises before.

In the setscene queue: the loop over `sq_deferred` in `process_possible_migrations` (2552-2556, "Make
sure we rehash any other tasks with the same task hash that we're deferred against") finds
nobody as a rule, because `task_completeoutright` has re-pointed the deferred tasks (2084-2095) before the
update of the task is taken; the twins keep the old hash and may be built, too. `sqdata.hashes` is
never brought up to date when hashes change. The update of a task that failed stays in the queue for good.
A task that migrates, has a stamp at its new hash and a hard dependency that is not covered is
skipped and then failed (2736-2743), so it is covered and not covered. The instances here have no such stamp; with
one for the second package TLC finds the state in that of `scene_image`, which is why the theorems ask for `NoOlder`.
`summarise_scenequeue_errors` logs this state without counting it as an error.

In the caches: `save_merge` catches EOFError but not UnpicklingError (cache.py:919), so an extras file
that was cut in the middle makes this and every later merge fail until somebody deletes it.
`FileChecksumCache.merge_data` asks whether a file is in a list of dictionaries (checksum.py:72), which it never
is, and so does not compare times. Cookers with one `BB_CACHEDIR` each write what they read at
their start with their own additions, and undo each other's merges (cache.py:909).

In the hash equivalence server: `clean_unused` subtracts a negative number (server.py:616), so that
`bitbake-hashclient clean-unused` removes all unused rows and not only those older than asked for. An upstream
server that does not know a task makes the handler raise TypeError and drop its client (server.py:346).

In the server: new connections are taken from the wrong end, `newconnections.pop(-1)`, so the last that came is
served first. `terminateServer` followed by closing the socket, which is what `--kill-server` does, is lost if
the server sees both at once (process.py:245). When somebody else has the lock, `startswith` is given a
list and raises TypeError (process.py:384) where the code means to return.

## 6. The plan

Done: `RunQueue` with `TaskGraph`, `LockFile`, `SceneQueue` with changes of hashes, `MultiProcessCache` with its locks
and processes, `HashServ`, `ProcessServer`, each with an inductive invariant that is proved. Left, in this order:

1. What the properties of `SceneQueue` ask of the twins of several multiconfigs, as theorems.
2. The algorithms of `RunQueueData.prepare` (pruning, loops, weights) as operators against a
   reference.
3. The PR service (`lib/prserv/db.py`): concurrent `getValue` on one table, and its upstream mode.
4. Asynchronous commands and events of the server.

## 7. Not modelled

The data store and parser (sequential string processing), the fetcher (network), signature computation
but for what is made of changed hashes, task functions, UIs, Toaster, the recipes and vendored sources. The PR service
and asyncrpc are next in the plan; asyncrpc appears in `HashServ` only as requests that are handled one
transaction at a time. Of the hash equivalence server the user administration, of the upstream server
everything but its answers, of the cooker everything but its state and its idle loop are left out. Each
component's note in PROJECT.json says what of it is modelled.
