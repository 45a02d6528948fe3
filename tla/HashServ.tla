------------------------------- MODULE HashServ -------------------------------
(****************************************************************************)
(* The hash equivalence server (lib/hashserv): which unified hash stands    *)
(* for a task hash.  Tasks whose outputs have the same hash get the same    *)
(* unified hash, so that whatever depends on them need not be built again.  *)
(*                                                                          *)
(* A request is handled in steps, one for each transaction on the database  *)
(* and one for each question to the upstream server: requests of other      *)
(* connections, and of other servers with the same database, come between.  *)
(* A task stands for a method and a task hash.  A unified hash starts as    *)
(* the task hash of the client that proposes it, so hashes are tasks too.   *)
(****************************************************************************)
EXTENDS Naturals, FiniteSets

CONSTANTS
    Client,         \* connections, each with one request at a time
    Task,           \* pairs of a method and a task hash, and their hashes
    Out,            \* hashes of what a task put out
    Mark,           \* names of garbage collections
    None,           \* no row, NULL, no answer
    Kind,           \* the kinds of request in this instance
    Servers,        \* how the server may be set up in this instance
    MaxRequests     \* bound: requests, the upstream's other clients' included

Kinds == {"report", "readonly", "report-equiv", "get", "get-all", "get-stream",
          "get-outhash", "get-row", "remove", "gc-mark", "gc-sweep", "clean-unused"}

ASSUME NoneAssumption == None \notin Task /\ None \notin Mark
ASSUME KindAssumption == Kind \subseteq Kinds
ASSUME ServersAssumption ==
    Servers \subseteq [backend : {"sqlite", "sqlalchemy"}, upstream : BOOLEAN]

VARIABLES
    server,     \* the database it uses and whether it has an upstream server
    unihash,    \* table unihashes: the unified hash of a task, or None
    mark,       \* its column gc_mark
    created,    \* table outhashes: when the row of a task and an output was
                \* made, or 0 for no row
    gcmark,     \* table config: the current mark
    upUnihash,  \* the two tables of the upstream server
    upCreated,
    clock,      \* the time, which moves on when the time of a row is taken
    req,        \* the request a connection is busy with
    backfill,   \* backfill_queue: tasks whose row is to be fetched from upstream
    fetched,    \* what the backfill worker has from upstream and not yet stored
    asked,      \* how many requests there were
    \* history, for the properties and for what a client knows
    given,      \* the hashes ever answered for a task
    agreed,     \* those answered to a report of the task
    reported,   \* the tasks and outputs ever reported, here or upstream
    claimed,    \* the pairs of a task and a hash claimed to be equivalent
    removed,    \* the tasks whose unified hash was ever removed
    kept        \* the rows marked or made since the current mark was set

tables == <<unihash, mark, created, gcmark, clock>>
setup == <<server, upUnihash, upCreated>>
queue == <<backfill, fetched>>
known == <<given, agreed>>
history == <<reported, claimed>>
vars == <<setup, tables, req, queue, asked, known, history, removed, kept>>

\* A connection that waits for a request.
Idle == [kind |-> "none", pc |-> "idle", task |-> None, out |-> None,
         uni |-> None, found |-> None, row |-> None, at |-> 0]

Labels == {"idle", "report", "equivalent", "upstream outhash", "insert", "answer",
           "fetch", "store", "read equiv", "by taskhash", "fetch taskhash",
           "by outhash", "fetch outhash", "store unihash", "store outhash",
           "sweep", "remove rest"}

Request == [kind : Kinds \cup {"none"}, pc : Labels, task : Task \cup {None},
            out : Out \cup {None}, uni : Task \cup {None},
            found : Task \cup {None}, row : Task \cup {None}, at : Nat]

TypeOK ==
    /\ server \in Servers
    /\ unihash \in [Task -> Task \cup {None}]
    /\ mark \in [Task -> Mark \cup {None}]
    /\ created \in [Task -> [Out -> Nat]]
    /\ gcmark \in Mark \cup {None}
    /\ upUnihash \in [Task -> Task \cup {None}]
    /\ upCreated \in [Task -> [Out -> Nat]]
    /\ clock \in Nat
    /\ req \in [Client -> Request]
    /\ backfill \subseteq Task
    /\ fetched \in {None} \cup (Task \X Task)
    /\ asked \in Nat
    /\ given \in [Task -> SUBSET Task]
    /\ agreed \in [Task -> SUBSET Task]
    /\ reported \subseteq Task \X Out
    /\ claimed \subseteq Task \X Task
    /\ removed \subseteq Task
    /\ kept \subseteq Task

Init ==
    /\ server \in Servers
    /\ unihash = [t \in Task |-> None]
    /\ mark = [t \in Task |-> None]
    /\ created = [t \in Task |-> [o \in Out |-> 0]]
    /\ gcmark = None
    /\ upUnihash = unihash
    /\ upCreated = created
    /\ clock = 0
    /\ req = [c \in Client |-> Idle]
    /\ backfill = {}
    /\ fetched = None
    /\ asked = 0
    /\ given = [t \in Task |-> {}]
    /\ agreed = given
    /\ reported = {}
    /\ claimed = {}
    /\ removed = {}
    /\ kept = {}

-----------------------------------------------------------------------------
(* Requests and answers                                                     *)

\* A client sends a request; r is what is left to do after its first step.
Begin(c, kind, r) ==
    /\ kind \in Kind
    /\ req[c] = Idle
    /\ asked < MaxRequests
    /\ asked' = asked + 1
    /\ req' = [req EXCEPT ![c] = r]

At(c, label) == req[c].pc = label
Goto(c, label) == req' = [req EXCEPT ![c].pc = label]
GotoWith(c, label, hash) == req' = [req EXCEPT ![c].pc = label, ![c].found = hash]

\* The answer goes out, and the connection waits for the next request.
Answer(c, hash) ==
    LET t == req[c].task IN
    /\ req' = [req EXCEPT ![c] = Idle]
    /\ given' = [given EXCEPT ![t] = @ \cup ({hash} \ {None})]
    /\ agreed' = IF req[c].kind \in {"report", "report-equiv"}
                 THEN [agreed EXCEPT ![t] = @ \cup ({hash} \ {None})]
                 ELSE agreed

\* An answer that says nothing of a task's hash, or a failed request.
End(c) ==
    /\ req' = [req EXCEPT ![c] = Idle]
    /\ UNCHANGED known

\* The hash a client may have for a task: the task hash, or an earlier answer.
Own(t) == {t} \cup given[t]

-----------------------------------------------------------------------------
(* The tables                                                               *)

\* Mutant: a new row has no mark.
X_insert_unihash(t, hash) ==
    IF unihash[t] = None
    THEN /\ unihash' = [unihash EXCEPT ![t] = hash]
         /\ mark' = [mark EXCEPT ![t] = None]
         /\ kept' = IF gcmark = None THEN kept ELSE kept \cup {t}
    ELSE UNCHANGED <<unihash, mark, kept>>

\* insert_unihash: INSERT OR IGNORE, the new row with the current mark.
insert_unihash(t, hash) ==
    IF unihash[t] = None
    THEN /\ unihash' = [unihash EXCEPT ![t] = hash]
         /\ mark' = [mark EXCEPT ![t] = gcmark]
         /\ kept' = IF gcmark = None THEN kept ELSE kept \cup {t}
    ELSE UNCHANGED <<unihash, mark, kept>>

\* Mutant: the column created is not filled in.
X_insert_outhash(t, o, at) ==
    created' = [created EXCEPT ![t][o] = IF @ = 0 THEN None ELSE @]

\* insert_outhash: INSERT OR IGNORE.
insert_outhash(t, o, at) ==
    created' = [created EXCEPT ![t][o] = IF @ = 0 THEN at ELSE @]

\* Mutant: sqlite, too, calls only a row new that was inserted.
X_SaysNew(t, o) == created[t][o] = 0

\* What insert_outhash returns.  In sqlite lastrowid is compared with that of
\* a new cursor, and differs from it whether a row was inserted or not.
SaysNew(t, o) == server.backend = "sqlite" \/ created[t][o] = 0

\* Mutant: the output is not compared.
X_Joined(when, hash, o) == {t \in Task : (\E q \in Out : when[t][q] # 0) /\ hash[t] # None}

\* The tasks with a row for an output and a unified hash.
Joined(when, hash, o) == {t \in Task : when[t][o] # 0 /\ hash[t] # None}

\* ORDER BY created ASC LIMIT 1
Oldest(when, S, o, t) == t \in S /\ \A s \in S : when[t][o] <= when[s][o]

\* Rows of unihashes go away.
DeleteUnihashes(S) ==
    /\ unihash' = [t \in Task |-> IF t \in S THEN None ELSE unihash[t]]
    /\ mark' = [t \in Task |-> IF t \in S THEN None ELSE mark[t]]
    /\ removed' = removed \cup {t \in S : unihash[t] # None}
    /\ kept' = kept \ S

-----------------------------------------------------------------------------
(* handle_report                                                            *)

\* The time is taken before the insert, and other requests may come between.
Report(c, t, o, hash) ==
    /\ Begin(c, "report", [Idle EXCEPT !.kind = "report", !.task = t, !.out = o,
                             !.uni = hash, !.at = clock + 1, !.pc = "report"])
    /\ clock' = clock + 1
    /\ reported' = reported \cup {<<t, o>>}
    /\ UNCHANGED <<unihash, mark, created, gcmark, setup, queue, known, claimed,
                   removed, kept>>

InsertOuthash(c) ==
    LET t == req[c].task
        o == req[c].out
    IN
    /\ At(c, "report")
    /\ insert_outhash(t, o, req[c].at)
    /\ req' = [req EXCEPT ![c].pc = IF SaysNew(t, o) THEN "equivalent" ELSE "answer", ![c].at = 0]
    /\ UNCHANGED <<unihash, mark, gcmark, clock, setup, queue, asked, known, history,
                   removed, kept>>

\* get_equivalent_for_outhash
FindEquivalent(c) ==
    LET t == req[c].task
        o == req[c].out
        S == Joined(created, unihash, o) \ {t}
    IN
    /\ At(c, "equivalent")
    /\ \/ \E s \in S : Oldest(created, S, o, s) /\ GotoWith(c, "insert", unihash[s])
       \/ S = {} /\ server.upstream /\ Goto(c, "upstream outhash")
       \/ S = {} /\ ~server.upstream /\ GotoWith(c, "insert", req[c].uni)
    /\ UNCHANGED <<tables, setup, queue, asked, known, history, removed, kept>>

\* upstream_client.get_outhash
AskUpstreamOuthash(c) ==
    LET o == req[c].out
        S == Joined(upCreated, upUnihash, o)
    IN
    /\ At(c, "upstream outhash")
    /\ \/ \E s \in S : Oldest(upCreated, S, o, s) /\ GotoWith(c, "insert", upUnihash[s])
       \/ S = {} /\ GotoWith(c, "insert", req[c].uni)
    /\ UNCHANGED <<tables, setup, queue, asked, known, history, removed, kept>>

InsertUnihash(c) ==
    /\ At(c, "insert")
    /\ insert_unihash(req[c].task, req[c].found)
    /\ Goto(c, "answer")
    /\ UNCHANGED <<created, gcmark, clock, setup, queue, asked, known, history, removed>>

-----------------------------------------------------------------------------
(* handle_get and get_unihash, which answers a report too                   *)

Get(c, t) ==
    /\ Begin(c, "get", [Idle EXCEPT !.kind = "get", !.task = t, !.pc = "answer"])
    /\ UNCHANGED <<tables, setup, queue, known, history, removed, kept>>

\* get_equivalent; a report of which there is no row gets its own hash back.
AnswerFromTable(c) ==
    LET hash == unihash[req[c].task] IN
    /\ At(c, "answer")
    /\ hash # None \/ ~server.upstream
    /\ Answer(c, IF hash # None THEN hash ELSE req[c].uni)
    /\ UNCHANGED <<tables, setup, queue, asked, history, removed, kept>>

AskUpstream(c) ==
    /\ At(c, "answer")
    /\ unihash[req[c].task] = None /\ server.upstream
    /\ Goto(c, "fetch")
    /\ UNCHANGED <<tables, setup, queue, asked, known, history, removed, kept>>

\* upstream_client.get_taskhash; None has no keys, and the request fails.
Fetch(c) ==
    LET hash == upUnihash[req[c].task] IN
    /\ At(c, "fetch") /\ req[c].kind # "get-stream"
    /\ \/ hash # None /\ GotoWith(c, "store", hash) /\ UNCHANGED known
       \/ hash = None /\ End(c)
    /\ UNCHANGED <<tables, setup, queue, asked, history, removed, kept>>

StoreFetched(c) ==
    /\ At(c, "store")
    /\ insert_unihash(req[c].task, req[c].found)
    /\ Answer(c, req[c].found)
    /\ UNCHANGED <<created, gcmark, clock, setup, queue, asked, history, removed>>

-----------------------------------------------------------------------------
(* handle_get_stream and the backfill worker                                *)

GetStream(c, t) ==
    /\ Begin(c, "get-stream", [Idle EXCEPT !.kind = "get-stream", !.task = t, !.pc = "answer"])
    /\ UNCHANGED <<tables, setup, queue, known, history, removed, kept>>

\* What upstream says is answered at once, and its row is fetched later.
FetchStream(c) ==
    LET t == req[c].task IN
    /\ At(c, "fetch") /\ req[c].kind = "get-stream"
    /\ Answer(c, upUnihash[t])
    /\ backfill' = IF upUnihash[t] = None THEN backfill ELSE backfill \cup {t}
    /\ UNCHANGED <<tables, setup, fetched, asked, history, removed, kept>>

BackfillFetch ==
    /\ fetched = None
    /\ \E t \in backfill :
          /\ backfill' = backfill \ {t}
          /\ fetched' = IF upUnihash[t] = None THEN None ELSE <<t, upUnihash[t]>>
    /\ UNCHANGED <<tables, setup, req, asked, known, history, removed, kept>>

BackfillStore ==
    /\ fetched # None
    /\ insert_unihash(fetched[1], fetched[2])
    /\ fetched' = None
    /\ UNCHANGED <<created, gcmark, clock, setup, req, backfill, asked, known,
                   history, removed>>

-----------------------------------------------------------------------------
(* handle_equivreport: a client has found two tasks to be equivalent        *)

ReportEquiv(c, t, hash) ==
    /\ Begin(c, "report-equiv", [Idle EXCEPT !.kind = "report-equiv", !.task = t, !.uni = hash,
                             !.pc = "read equiv"])
    /\ insert_unihash(t, hash)
    /\ claimed' = claimed \cup {<<t, hash>>}
    /\ UNCHANGED <<created, gcmark, clock, setup, queue, known, reported, removed>>

\* The row it made may be gone again: None has no keys, and the request fails.
ReadEquiv(c) ==
    LET hash == unihash[req[c].task] IN
    /\ At(c, "read equiv")
    /\ \/ hash # None /\ Answer(c, hash)
       \/ hash = None /\ End(c)
    /\ UNCHANGED <<tables, setup, queue, asked, history, removed, kept>>

-----------------------------------------------------------------------------
(* handle_get with all columns, handle_get_outhash, and report_readonly: a  *)
(* report that may not be kept                                              *)

GetAll(c, t) ==
    /\ Begin(c, "get-all", [Idle EXCEPT !.kind = "get-all", !.task = t, !.pc = "by taskhash"])
    /\ UNCHANGED <<tables, setup, queue, known, history, removed, kept>>

\* With the unified hash, or (get-row) only the row of the output.
GetOuthash(c, o, kind) ==
    /\ kind \in {"get-outhash", "get-row"}
    /\ Begin(c, kind, [Idle EXCEPT !.kind = kind, !.out = o, !.pc = "by outhash"])
    /\ UNCHANGED <<tables, setup, queue, known, history, removed, kept>>

ReportReadonly(c, t, o, hash) ==
    /\ Begin(c, "readonly", [Idle EXCEPT !.kind = "readonly", !.task = t, !.out = o, !.uni = hash,
                             !.pc = "by outhash"])
    /\ reported' = reported \cup {<<t, o>>}
    /\ UNCHANGED <<tables, setup, queue, known, claimed, removed, kept>>

\* An answer to get_outhash is no hash of a task that the client has.
Reply(c, hash) ==
    IF req[c].kind \in {"readonly", "get-all"} THEN Answer(c, hash) ELSE End(c)

\* get_unihash_by_taskhash_full: a row of each table.
LookupTaskhash(c) ==
    LET t == req[c].task
        there == unihash[t] # None /\ \E o \in Out : created[t][o] # 0
    IN
    /\ At(c, "by taskhash")
    /\ \/ there /\ Reply(c, unihash[t])
       \/ ~there /\ ~server.upstream /\ Reply(c, None)
       \/ ~there /\ server.upstream /\ Goto(c, "fetch taskhash") /\ UNCHANGED known
    /\ UNCHANGED <<tables, setup, queue, asked, history, removed, kept>>

\* upstream_client.get_taskhash with all columns: its row of the oldest output.
FetchTaskhash(c) ==
    LET t == req[c].task
        S == {o \in Out : t \in Joined(upCreated, upUnihash, o)}
    IN
    /\ At(c, "fetch taskhash")
    /\ \/ \E o \in S :
             /\ \A q \in S : upCreated[t][o] <= upCreated[t][q]
             /\ req' = [req EXCEPT ![c].pc = "store unihash", ![c].row = t, ![c].out = o,
                          ![c].found = upUnihash[t], ![c].at = upCreated[t][o]]
             /\ UNCHANGED known
       \/ S = {} /\ Reply(c, None)
    /\ UNCHANGED <<tables, setup, queue, asked, history, removed, kept>>

\* get_unihash_by_outhash, or get_outhash for the row alone
Matching(kind, o) ==
    IF kind = "get-row" THEN {t \in Task : created[t][o] # 0} ELSE Joined(created, unihash, o)

LookupOuthash(c) ==
    LET o == req[c].out
        S == Matching(req[c].kind, o)
    IN
    /\ At(c, "by outhash")
    /\ \/ \E s \in S : Oldest(created, S, o, s) /\ Reply(c, unihash[s])
       \/ S = {} /\ ~server.upstream /\ Reply(c, req[c].uni)
       \/ S = {} /\ server.upstream /\ Goto(c, "fetch outhash") /\ UNCHANGED known
    /\ UNCHANGED <<tables, setup, queue, asked, history, removed, kept>>

FetchOuthash(c) ==
    LET o == req[c].out
        S == Joined(upCreated, upUnihash, o)
    IN
    /\ At(c, "fetch outhash")
    /\ \/ \E s \in S :
             /\ Oldest(upCreated, S, o, s)
             /\ req' = [req EXCEPT ![c].pc = "store unihash", ![c].row = s,
                          ![c].found = upUnihash[s], ![c].at = upCreated[s][o]]
             /\ UNCHANGED known
       \/ S = {} /\ Reply(c, req[c].uni)
    /\ UNCHANGED <<tables, setup, queue, asked, history, removed, kept>>

\* update_unified: both rows, those upstream has
StoreUnihash(c) ==
    /\ At(c, "store unihash")
    /\ insert_unihash(req[c].row, req[c].found)
    /\ Goto(c, "store outhash")
    /\ UNCHANGED <<created, gcmark, clock, setup, queue, asked, known, history, removed>>

StoreOuthash(c) ==
    /\ At(c, "store outhash")
    /\ insert_outhash(req[c].row, req[c].out, req[c].at)
    /\ Reply(c, req[c].found)
    /\ UNCHANGED <<unihash, mark, gcmark, clock, setup, queue, asked, history,
                   removed, kept>>

-----------------------------------------------------------------------------
(* handle_remove, handle_gc_mark, handle_gc_sweep, handle_clean_unused      *)

DeleteOuthashes(S) ==
    created' = [t \in Task |-> [o \in Out |-> IF <<t, o>> \in S THEN 0 ELSE created[t][o]]]

\* The rows of outhashes where the condition holds: it names a task or an output.
OuthashesOf(r) == {s \in Task \X Out : s[1] = r.task \/ s[2] = r.out}

\* The rows of unihashes where it holds: it names a task or a unified hash.
UnihashesOf(r) == {t \in Task : t = r.task \/ (r.uni # None /\ unihash[t] = r.uni)}

Conditions ==
    {[Idle EXCEPT !.kind = "remove", !.task = t] : t \in Task}
    \cup {[Idle EXCEPT !.kind = "remove", !.uni = h] : h \in Task}
    \cup {[Idle EXCEPT !.kind = "remove", !.out = o] : o \in Out}

\* One transaction in sqlite; in sqlalchemy a second one removes the outputs.
Remove(c, r) ==
    /\ r \in Conditions
    /\ Begin(c, "remove", IF server.backend = "sqlite" THEN Idle ELSE [r EXCEPT !.pc = "remove rest"])
    /\ DeleteUnihashes(UnihashesOf(r))
    /\ IF server.backend = "sqlite" THEN DeleteOuthashes(OuthashesOf(r)) ELSE UNCHANGED created
    /\ UNCHANGED <<gcmark, clock, setup, queue, known, history>>

RemoveRest(c) ==
    /\ At(c, "remove rest")
    /\ DeleteOuthashes(OuthashesOf(req[c]))
    /\ End(c)
    /\ UNCHANGED <<unihash, mark, gcmark, clock, setup, queue, asked, history,
                   removed, kept>>

\* A condition on the task or the unified hash; the same mark may be set again.
GcMark(c, m, r) ==
    /\ r \in Conditions
    /\ Begin(c, "gc-mark", Idle)
    /\ LET S == {t \in UnihashesOf(r) : unihash[t] # None} IN
       /\ mark' = [t \in Task |-> IF t \in S THEN m ELSE mark[t]]
       /\ kept' = IF m = gcmark THEN kept \cup S ELSE S
    /\ gcmark' = m
    /\ UNCHANGED <<unihash, created, clock, setup, queue, known, history, removed>>

\* The check of the mark, and the sweep, are two transactions.
GcSweep(c, m) ==
    /\ Begin(c, "gc-sweep", IF m = gcmark
                            THEN [Idle EXCEPT !.kind = "gc-sweep", !.pc = "sweep"]
                            ELSE Idle)
    /\ UNCHANGED <<tables, setup, queue, known, history, removed, kept>>

\* Nothing differs from NULL: without a mark nothing is removed.
Sweep(c) ==
    /\ At(c, "sweep")
    /\ DeleteUnihashes(IF gcmark = None THEN {} ELSE {t \in Task : mark[t] # gcmark})
    /\ gcmark' = None
    /\ End(c)
    /\ UNCHANGED <<created, clock, setup, queue, asked, history>>

\* The limit is max_age after now, not before: the age of a row never matters.
CleanUnused(c) ==
    /\ Begin(c, "clean-unused", Idle)
    /\ DeleteOuthashes({r \in Task \X Out : unihash[r[1]] = None})
    /\ UNCHANGED <<unihash, mark, gcmark, clock, setup, queue, known, history,
                   removed, kept>>

-----------------------------------------------------------------------------
(* The upstream server: its own clients report to it                        *)

UpstreamReport(t, o) ==
    /\ server.upstream
    /\ asked < MaxRequests
    /\ asked' = asked + 1
    /\ clock' = clock + 1
    /\ upCreated' = [upCreated EXCEPT ![t][o] = IF @ = 0 THEN clock + 1 ELSE @]
    /\ reported' = reported \cup {<<t, o>>}
    /\ LET S == Joined(upCreated, upUnihash, o) \ {t} IN
       \/ /\ upUnihash[t] # None
          /\ UNCHANGED upUnihash
       \/ /\ upUnihash[t] = None
          /\ S = {}
          /\ upUnihash' = [upUnihash EXCEPT ![t] = t]
       \/ /\ upUnihash[t] = None
          /\ \E s \in S : /\ Oldest(upCreated, S, o, s)
                         /\ upUnihash' = [upUnihash EXCEPT ![t] = upUnihash[s]]
    /\ UNCHANGED <<server, unihash, mark, created, gcmark, req, queue, known, claimed,
                   removed, kept>>

-----------------------------------------------------------------------------

Requests(c) ==
    \/ \E t \in Task, o \in Out, hash \in Task : hash \in Own(t) /\ Report(c, t, o, hash)
    \/ \E t \in Task, o \in Out, hash \in Task : hash \in Own(t) /\ ReportReadonly(c, t, o, hash)
    \/ \E t, hash \in Task : ReportEquiv(c, t, hash)
    \/ \E t \in Task : Get(c, t) \/ GetAll(c, t)
    \/ \E t \in Task : GetStream(c, t)
    \/ \E o \in Out, kind \in Kind : GetOuthash(c, o, kind)
    \/ \E r \in Conditions : Remove(c, r)
    \/ \E m \in Mark, r \in Conditions : GcMark(c, m, r)
    \/ \E m \in Mark : GcSweep(c, m)
    \/ CleanUnused(c)

Steps(c) ==
    \/ InsertOuthash(c) \/ FindEquivalent(c) \/ AskUpstreamOuthash(c) \/ InsertUnihash(c)
    \/ AnswerFromTable(c) \/ AskUpstream(c) \/ Fetch(c) \/ StoreFetched(c)
    \/ FetchStream(c) \/ ReadEquiv(c)
    \/ LookupTaskhash(c) \/ FetchTaskhash(c)
    \/ LookupOuthash(c) \/ FetchOuthash(c) \/ StoreUnihash(c) \/ StoreOuthash(c)
    \/ RemoveRest(c) \/ Sweep(c)

Next ==
    \/ \E c \in Client : Requests(c) \/ Steps(c)
    \/ BackfillFetch
    \/ BackfillStore
    \/ \E t \in Task, o \in Out : UpstreamReport(t, o)

Spec == Init /\ [][Next]_vars

-----------------------------------------------------------------------------
(* What a unified hash promises                                             *)

\* Nothing connects the tasks of S with the others: no output they share, and
\* no claim that they are equivalent.
Closed(S) ==
    /\ \A o \in Out : \A s, t \in Task :
          <<s, o>> \in reported /\ <<t, o>> \in reported => (s \in S <=> t \in S)
    /\ \A p \in claimed : p[1] \in S <=> p[2] \in S

\* Two tasks have one unified hash only when a chain of equal outputs and of
\* claims leads from one to the other, whatever was looked up, collected or
\* taken from upstream in between: hashes that nothing connects are kept apart
\* (get_equivalent_for_outhash, get_unihash, update_unified, the backfill).
SoundEquivalence ==
    \A S \in SUBSET Task : Closed(S) => \A t \in S : unihash[t] \in S \cup {None}

\* Clients that report the same task are all told the same unified hash, as
\* long as it has not been removed (handle_report, handle_equivreport).
AlwaysAgree == \A t \in Task \ removed : \A a, b \in agreed[t] : a = b

\* With sqlite they are, however many servers use the database: a report that
\* comes while another one of the same output is handled gets as far as that
\* one does, because insert_outhash calls its row new as well.
ReportersAgree == server.backend = "sqlite" => AlwaysAgree

\* A sweep leaves what was marked for it and what was added since
\* (gc_mark, gc_sweep, and the mark that insert_unihash gives to a new row).
SweepKeepsMarked == [][gcmark' # gcmark => \A t \in kept : unihash'[t] = unihash[t]]_vars

=============================================================================
