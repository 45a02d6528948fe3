--------------------------- MODULE HashServ_proofs ---------------------------
(****************************************************************************)
(* Proofs about the hash equivalence server, for any number of connections, *)
(* tasks, outputs and collections, for both databases, with upstream or not.*)
(****************************************************************************)
EXTENDS HashServ, TLAPS

-----------------------------------------------------------------------------
(* Requests are what they should be where they are                          *)

\* What the handler has in its hands at each of its steps.
Sane(r) ==
    /\ r.pc \in {"report", "equivalent", "upstream outhash", "insert"} =>
          r.kind = "report" /\ r.task \in Task /\ r.out \in Out /\ r.uni \in Task
    /\ r.pc \in {"answer", "fetch"} =>
          /\ r.kind \in {"report", "get", "get-stream"} /\ r.task \in Task
          /\ r.kind = "report" => r.uni \in Task
    /\ r.pc = "store" => r.kind \in {"report", "get"} /\ r.task \in Task
    /\ r.pc \in {"insert", "store", "store unihash", "store outhash"} => r.found \in Task
    /\ r.pc = "read equiv" => r.kind = "report-equiv" /\ r.task \in Task
    /\ r.pc \in {"by taskhash", "fetch taskhash"} => r.kind = "get-all" /\ r.task \in Task
    /\ r.pc \in {"by outhash", "fetch outhash"} =>
          r.kind \in {"readonly", "get-outhash", "get-row"} /\ r.out \in Out
    /\ r.pc \in {"store unihash", "store outhash"} =>
          /\ r.kind \in {"readonly", "get-outhash", "get-row", "get-all"}
          /\ r.row \in Task /\ r.out \in Out
          /\ r.kind = "get-all" => r.row = r.task
    /\ r.pc \in {"by outhash", "fetch outhash", "store unihash", "store outhash"}
            /\ r.kind = "readonly" => r.task \in Task /\ r.uni \in Task

\* Who is told a hash of the task it named.
Told(kind) == kind \in {"readonly", "get-all"}

Requested == req \in [Client -> Request] /\ \A c \in Client : Sane(req[c])

KnownTyped == given \in [Task -> SUBSET Task] /\ agreed \in [Task -> SUBSET Task]

Typed == TypeOK /\ Requested

\* What a step does to the requests: that of one connection becomes r.
Becomes(c, r) == req' = [req EXCEPT ![c] = r]

\* A request that becomes a sane one leaves all of them sane.
LEMMA BecomesSane ==
    ASSUME TypeOK, Requested, NEW c \in Client, NEW r \in Request, Sane(r), Becomes(c, r)
    PROVE  Requested'
  <1>1. req' \in [Client -> Request]
    BY DEF TypeOK, Becomes
  <1>2. ASSUME NEW d \in Client PROVE Sane(req'[d])
    <2>1. req'[d] = IF d = c THEN r ELSE req[d]
      BY DEF TypeOK, Becomes
    <2> QED BY <2>1 DEF Requested
  <1> QED BY <1>1, <1>2 DEF Requested, Sane

LEMMA IdleSane == Idle \in Request /\ Sane(Idle)
  BY NoneAssumption DEF Idle, Request, Sane, Labels

\* Goto and GotoWith as one whole request.
LEMMA GotoBecomes ==
    ASSUME TypeOK, NEW c \in Client, NEW label \in Labels, Goto(c, label)
    PROVE  /\ [req[c] EXCEPT !.pc = label] \in Request
           /\ Becomes(c, [req[c] EXCEPT !.pc = label])
  <1>1. req[c] \in Request
    BY DEF TypeOK
  <1>2. [req[c] EXCEPT !.pc = label] \in Request
    BY <1>1 DEF Request
  <1>3. Becomes(c, [req[c] EXCEPT !.pc = label])
    BY DEF Goto, Becomes
  <1> QED BY <1>2, <1>3

LEMMA GotoWithBecomes ==
    ASSUME TypeOK, NEW c \in Client, NEW label \in Labels, NEW hash \in Task,
           GotoWith(c, label, hash)
    PROVE  /\ [req[c] EXCEPT !.pc = label, !.found = hash] \in Request
           /\ Becomes(c, [req[c] EXCEPT !.pc = label, !.found = hash])
  <1>1. req[c] \in Request
    BY DEF TypeOK
  <1>2. [req[c] EXCEPT !.pc = label, !.found = hash] \in Request
    BY <1>1 DEF Request
  <1>3. Becomes(c, [req[c] EXCEPT !.pc = label, !.found = hash])
    BY DEF GotoWith, Becomes
  <1> QED BY <1>2, <1>3

\* An answer makes the connection idle and adds to what was answered.
LEMMA AnswerTyped ==
    ASSUME Typed, NEW c \in Client, req[c].task \in Task, NEW hash \in Task \cup {None},
           Answer(c, hash)
    PROVE  /\ Requested' /\ Becomes(c, Idle)
           /\ KnownTyped'
  <1>1. Becomes(c, Idle)
    BY DEF Answer, Becomes
  <1>2. Requested'
    BY <1>1, BecomesSane, IdleSane DEF Typed
  <1>3. KnownTyped'
    BY DEF Answer, Typed, TypeOK, Requested, KnownTyped
  <1> QED BY <1>1, <1>2, <1>3

LEMMA EndTyped ==
    ASSUME Typed, NEW c \in Client, End(c)
    PROVE  /\ Requested' /\ Becomes(c, Idle)
           /\ UNCHANGED known
  BY BecomesSane, IdleSane DEF Typed, End, Becomes, known

LEMMA ReplyTyped ==
    ASSUME Typed, NEW c \in Client, Told(req[c].kind) => req[c].task \in Task,
           NEW hash \in Task \cup {None}, Reply(c, hash)
    PROVE  Requested' /\ KnownTyped'
  <1>1. CASE Told(req[c].kind)
    BY <1>1, AnswerTyped DEF Reply, Told
  <1>2. CASE ~Told(req[c].kind)
    <2>1. End(c)
      BY <1>2 DEF Reply, Told
    <2>2. KnownTyped /\ Requested' /\ UNCHANGED known
      BY <2>1, EndTyped DEF Typed, TypeOK, KnownTyped
    <2> QED BY <2>2 DEF KnownTyped, known
  <1> QED BY <1>1, <1>2

LEMMA InsertUnihashTyped ==
    ASSUME TypeOK, NEW t \in Task, NEW hash \in Task, insert_unihash(t, hash)
    PROVE  /\ unihash' \in [Task -> Task \cup {None}]
           /\ mark' \in [Task -> Mark \cup {None}]
           /\ kept' \subseteq Task
  <1>1. CASE unihash[t] = None
    <2>0. unihash' = [unihash EXCEPT ![t] = hash] /\ hash \in Task \cup {None}
      BY <1>1 DEF insert_unihash
    <2>1. unihash' \in [Task -> Task \cup {None}]
      BY <2>0 DEF TypeOK
    <2>2. mark' \in [Task -> Mark \cup {None}]
      BY <1>1 DEF TypeOK, insert_unihash
    <2>3. kept' \subseteq Task
      BY <1>1 DEF TypeOK, insert_unihash
    <2> QED BY <2>1, <2>2, <2>3
  <1>2. CASE unihash[t] # None
    BY <1>2 DEF TypeOK, insert_unihash
  <1> QED BY <1>1, <1>2

LEMMA InsertOuthashTyped ==
    ASSUME TypeOK, NEW t \in Task, NEW o \in Out, NEW at \in Nat, insert_outhash(t, o, at)
    PROVE  created' \in [Task -> [Out -> Nat]]
  <1>1. created[t] \in [Out -> Nat]
    BY DEF TypeOK
  <1> DEFINE n == IF created[t][o] = 0 THEN at ELSE created[t][o]
  <1>2. n \in Nat
    BY <1>1
  <1>3. created' = [created EXCEPT ![t][o] = n]
    BY DEF insert_outhash
  <1> HIDE DEF n
  <1> QED BY <1>2, <1>3 DEF TypeOK

LEMMA DeleteTyped ==
    ASSUME TypeOK, NEW S \in SUBSET Task, DeleteUnihashes(S)
    PROVE  /\ unihash' \in [Task -> Task \cup {None}]
           /\ mark' \in [Task -> Mark \cup {None}]
           /\ removed' \subseteq Task /\ kept' \subseteq Task
  <1>1. unihash' \in [Task -> Task \cup {None}]
    BY DEF TypeOK, DeleteUnihashes
  <1>2. mark' \in [Task -> Mark \cup {None}]
    BY DEF TypeOK, DeleteUnihashes
  <1>3. kept' \subseteq Task
    BY DEF TypeOK, DeleteUnihashes
  <1>4. {t \in S : unihash[t] # None} \subseteq Task
    OBVIOUS
  <1>5. removed' \subseteq Task
    BY <1>4 DEF TypeOK, DeleteUnihashes
  <1> QED BY <1>1, <1>2, <1>3, <1>5

LEMMA DeleteOuthashesTyped ==
    ASSUME TypeOK, NEW S, DeleteOuthashes(S)
    PROVE  created' \in [Task -> [Out -> Nat]]
  BY DEF TypeOK, DeleteOuthashes

-----------------------------------------------------------------------------
(* Every step keeps the types                                               *)

USE DEF tables, setup, queue, known, history

LEMMA ConditionsTyped == Conditions \subseteq Request
  <1>1. ASSUME NEW t \in Task PROVE [Idle EXCEPT !.kind = "remove", !.task = t] \in Request
    BY NoneAssumption DEF Idle, Request, Labels, Kinds
  <1>2. ASSUME NEW h \in Task PROVE [Idle EXCEPT !.kind = "remove", !.uni = h] \in Request
    BY NoneAssumption DEF Idle, Request, Labels, Kinds
  <1>3. ASSUME NEW o \in Out PROVE [Idle EXCEPT !.kind = "remove", !.out = o] \in Request
    BY NoneAssumption DEF Idle, Request, Labels, Kinds
  <1> QED BY <1>1, <1>2, <1>3 DEF Conditions

\* A request that begins leaves the requests sane when what is left to do is.
LEMMA BeginTyped ==
    ASSUME Typed, NEW c \in Client, NEW kind, NEW r \in Request, Sane(r), Begin(c, kind, r)
    PROVE  /\ Requested' /\ asked' \in Nat
           /\ Becomes(c, r)
  <1>1. Becomes(c, r) /\ asked' = asked + 1
    BY DEF Begin, Becomes
  <1>2. asked' \in Nat
    BY <1>1 DEF Typed, TypeOK, Requested, KnownTyped
  <1> QED BY <1>1, <1>2, BecomesSane DEF Typed

LEMMA GotoTyped ==
    ASSUME Typed, NEW c \in Client, NEW label \in Labels,
           Sane([req[c] EXCEPT !.pc = label]), Goto(c, label)
    PROVE  Requested'
  BY GotoBecomes, BecomesSane DEF Typed

LEMMA GotoWithTyped ==
    ASSUME Typed, NEW c \in Client, NEW label \in Labels, NEW hash \in Task,
           Sane([req[c] EXCEPT !.pc = label, !.found = hash]), GotoWith(c, label, hash)
    PROVE  Requested'
  BY GotoWithBecomes, BecomesSane DEF Typed

\* Requests that begin.
LEMMA RequestsTyped == ASSUME Typed, NEW c \in Client, Requests(c) PROVE Typed'
  <1>1. ASSUME NEW t \in Task, NEW o \in Out, NEW hash \in Task, Report(c, t, o, hash) PROVE Typed'
    <2> DEFINE r == [Idle EXCEPT !.kind = "report", !.task = t, !.out = o, !.uni = hash,
                               !.at = clock + 1, !.pc = "report"]
    <2>0. clock + 1 \in Nat
      BY DEF Typed, TypeOK
    <2>1. r \in Request /\ Sane(r)
      BY <2>0, NoneAssumption DEF Idle, Request, Sane, Labels, Kinds
    <2>2. Begin(c, "report", r)
      BY <1>1 DEF Report
    <2> HIDE DEF r
    <2>3. Requested' /\ asked' \in Nat
      BY <2>1, <2>2, BeginTyped
    <2>4. clock' \in Nat
      BY <1>1, <2>0 DEF Report
    <2>5. reported' \subseteq Task \X Out
      BY <1>1 DEF Report, Typed, TypeOK, Requested, KnownTyped
    <2> QED BY <1>1, <2>3, <2>4, <2>5 DEF Report, Typed, TypeOK, Requested, KnownTyped
  <1>2. ASSUME NEW t \in Task, NEW o \in Out, NEW hash \in Task, ReportReadonly(c, t, o, hash) PROVE Typed'
    <2> DEFINE r == [Idle EXCEPT !.kind = "readonly", !.task = t, !.out = o, !.uni = hash,
                               !.pc = "by outhash"]
    <2>1. r \in Request /\ Sane(r)
      BY NoneAssumption DEF Idle, Request, Sane, Labels, Kinds
    <2>2. Begin(c, "readonly", r)
      BY <1>2 DEF ReportReadonly
    <2> HIDE DEF r
    <2>3. Requested' /\ asked' \in Nat
      BY <2>1, <2>2, BeginTyped
    <2>4. reported' \subseteq Task \X Out
      BY <1>2 DEF ReportReadonly, Typed, TypeOK, Requested, KnownTyped
    <2> QED BY <1>2, <2>3, <2>4 DEF ReportReadonly, Typed, TypeOK, Requested, KnownTyped
  <1>3. ASSUME NEW t \in Task, NEW hash \in Task, ReportEquiv(c, t, hash) PROVE Typed'
    <2> DEFINE r == [Idle EXCEPT !.kind = "report-equiv", !.task = t, !.uni = hash,
                               !.pc = "read equiv"]
    <2>1. r \in Request /\ Sane(r)
      BY NoneAssumption DEF Idle, Request, Sane, Labels, Kinds
    <2>2. Begin(c, "report-equiv", r)
      BY <1>3 DEF ReportEquiv
    <2> HIDE DEF r
    <2>3. Requested' /\ asked' \in Nat
      BY <2>1, <2>2, BeginTyped
    <2>4. unihash' \in [Task -> Task \cup {None}] /\ mark' \in [Task -> Mark \cup {None}] /\ kept' \subseteq Task
      BY <1>3, InsertUnihashTyped DEF ReportEquiv, Typed
    <2>5. claimed' \subseteq Task \X Task
      BY <1>3 DEF ReportEquiv, Typed, TypeOK, Requested, KnownTyped
    <2> QED BY <1>3, <2>3, <2>4, <2>5 DEF ReportEquiv, Typed, TypeOK, Requested, KnownTyped
  <1>4. ASSUME NEW t \in Task, Get(c, t) PROVE Typed'
    <2> DEFINE r == [Idle EXCEPT !.kind = "get", !.task = t, !.pc = "answer"]
    <2>1. r \in Request /\ Sane(r)
      BY NoneAssumption DEF Idle, Request, Sane, Labels, Kinds
    <2>2. Begin(c, "get", r)
      BY <1>4 DEF Get
    <2> HIDE DEF r
    <2>3. Requested' /\ asked' \in Nat
      BY <2>1, <2>2, BeginTyped
    <2> QED BY <1>4, <2>3 DEF Get, Typed, TypeOK, Requested, KnownTyped
  <1>5. ASSUME NEW t \in Task, GetStream(c, t) PROVE Typed'
    <2> DEFINE r == [Idle EXCEPT !.kind = "get-stream", !.task = t, !.pc = "answer"]
    <2>1. r \in Request /\ Sane(r)
      BY NoneAssumption DEF Idle, Request, Sane, Labels, Kinds
    <2>2. Begin(c, "get-stream", r)
      BY <1>5 DEF GetStream
    <2> HIDE DEF r
    <2>3. Requested' /\ asked' \in Nat
      BY <2>1, <2>2, BeginTyped
    <2> QED BY <1>5, <2>3 DEF GetStream, Typed, TypeOK, Requested, KnownTyped
  <1>6. ASSUME NEW o \in Out, NEW kind \in Kind, GetOuthash(c, o, kind) PROVE Typed'
    <2>0. kind \in {"get-outhash", "get-row"}
      BY <1>6 DEF GetOuthash
    <2> DEFINE r == [Idle EXCEPT !.kind = kind, !.out = o, !.pc = "by outhash"]
    <2>1. r \in Request /\ Sane(r)
      BY <2>0, NoneAssumption DEF Idle, Request, Sane, Labels, Kinds
    <2>2. Begin(c, kind, r)
      BY <1>6 DEF GetOuthash
    <2> HIDE DEF r
    <2>3. Requested' /\ asked' \in Nat
      BY <2>1, <2>2, BeginTyped
    <2> QED BY <1>6, <2>3 DEF GetOuthash, Typed, TypeOK, Requested, KnownTyped
  <1>7. ASSUME NEW q \in Conditions, Remove(c, q) PROVE Typed'
    <2> DEFINE r == IF server.backend = "sqlite" THEN Idle ELSE [q EXCEPT !.pc = "remove rest"]
    <2>a. q \in Request
      BY ConditionsTyped
    <2>b. [q EXCEPT !.pc = "remove rest"] \in Request
      BY <2>a DEF Request, Labels
    <2>c. Sane([q EXCEPT !.pc = "remove rest"])
      BY <2>a DEF Sane, Request
    <2>1. r \in Request /\ Sane(r)
      BY <2>b, <2>c, IdleSane
    <2>2. Begin(c, "remove", r)
      BY <1>7 DEF Remove
    <2> HIDE DEF r
    <2>3. Requested' /\ asked' \in Nat
      BY <2>1, <2>2, BeginTyped
    <2>4. unihash' \in [Task -> Task \cup {None}] /\ mark' \in [Task -> Mark \cup {None}]
          /\ removed' \subseteq Task /\ kept' \subseteq Task
      BY <1>7, DeleteTyped DEF Remove, Typed, UnihashesOf
    <2>5. created' \in [Task -> [Out -> Nat]]
      BY <1>7, DeleteOuthashesTyped DEF Remove, Typed, TypeOK, Requested, KnownTyped
    <2> QED BY <1>7, <2>3, <2>4, <2>5 DEF Remove, Typed, TypeOK, Requested, KnownTyped
  <1>8. ASSUME NEW m \in Mark, NEW q \in Conditions, GcMark(c, m, q) PROVE Typed'
    <2> DEFINE r == Idle
    <2>1. r \in Request /\ Sane(r)
      BY NoneAssumption DEF Idle, Request, Sane, Labels, Kinds
    <2>2. Begin(c, "gc-mark", r)
      BY <1>8 DEF GcMark
    <2> HIDE DEF r
    <2>3. Requested' /\ asked' \in Nat
      BY <2>1, <2>2, BeginTyped
    <2>4. mark' \in [Task -> Mark \cup {None}]
      BY <1>8 DEF GcMark, Typed, TypeOK, Requested, KnownTyped
    <2>5. kept' \subseteq Task
      BY <1>8 DEF GcMark, Typed, TypeOK, Requested, KnownTyped, UnihashesOf
    <2> QED BY <1>8, <2>3, <2>4, <2>5 DEF GcMark, Typed, TypeOK, Requested, KnownTyped
  <1>9. ASSUME NEW m \in Mark, GcSweep(c, m) PROVE Typed'
    <2> DEFINE r == IF m = gcmark
                    THEN [Idle EXCEPT !.kind = "gc-sweep", !.pc = "sweep"]
                    ELSE Idle
    <2>1. r \in Request /\ Sane(r)
      BY NoneAssumption DEF Idle, Request, Sane, Labels, Kinds
    <2>2. Begin(c, "gc-sweep", r)
      BY <1>9 DEF GcSweep
    <2> HIDE DEF r
    <2>3. Requested' /\ asked' \in Nat
      BY <2>1, <2>2, BeginTyped
    <2> QED BY <1>9, <2>3 DEF GcSweep, Typed, TypeOK, Requested, KnownTyped
  <1>10. ASSUME CleanUnused(c) PROVE Typed'
    <2> DEFINE r == Idle
    <2>1. r \in Request /\ Sane(r)
      BY NoneAssumption DEF Idle, Request, Sane, Labels, Kinds
    <2>2. Begin(c, "clean-unused", r)
      BY <1>10 DEF CleanUnused
    <2> HIDE DEF r
    <2>3. Requested' /\ asked' \in Nat
      BY <2>1, <2>2, BeginTyped
    <2>4. created' \in [Task -> [Out -> Nat]]
      BY <1>10, DeleteOuthashesTyped DEF CleanUnused, Typed
    <2> QED BY <1>10, <2>3, <2>4 DEF CleanUnused, Typed, TypeOK, Requested, KnownTyped
  <1>11. ASSUME NEW t \in Task, GetAll(c, t) PROVE Typed'
    <2> DEFINE r == [Idle EXCEPT !.kind = "get-all", !.task = t, !.pc = "by taskhash"]
    <2>1. r \in Request /\ Sane(r)
      BY NoneAssumption DEF Idle, Request, Sane, Labels, Kinds
    <2>2. Begin(c, "get-all", r)
      BY <1>11 DEF GetAll
    <2> HIDE DEF r
    <2>3. Requested' /\ asked' \in Nat
      BY <2>1, <2>2, BeginTyped
    <2> QED BY <1>11, <2>3 DEF GetAll, Typed, TypeOK, Requested, KnownTyped
  <1> QED BY <1>1, <1>2, <1>3, <1>4, <1>5, <1>6, <1>7, <1>8, <1>9, <1>10, <1>11 DEF Requests

\* A request for all columns that goes on with the row of an output from upstream.
WithRow(c, o) ==
    [req[c] EXCEPT !.pc = "store unihash", !.row = req[c].task, !.out = o,
                   !.found = upUnihash[req[c].task], !.at = upCreated[req[c].task][o]]

\* Upstream has no such row, or the request goes on with one.
LEMMA TakesRow ==
    ASSUME NEW c \in Client, FetchTaskhash(c)
    PROVE  \/ Reply(c, None)
           \/ \E o \in Out : /\ req[c].task \in Joined(upCreated, upUnihash, o)
                             /\ Becomes(c, WithRow(c, o)) /\ UNCHANGED known
  <1> DEFINE t == req[c].task
  <1>1. CASE Reply(c, None)
    BY <1>1
  <1>2. CASE ~Reply(c, None)
    <2>1. PICK o \in {p \in Out : t \in Joined(upCreated, upUnihash, p)} :
             /\ req' = [req EXCEPT ![c].pc = "store unihash", ![c].row = t, ![c].out = o,
                          ![c].found = upUnihash[t], ![c].at = upCreated[t][o]]
             /\ UNCHANGED known
      BY <1>2, Zenon DEF FetchTaskhash
    <2>2. Becomes(c, WithRow(c, o))
      BY <2>1, Zenon DEF Becomes, WithRow
    <2> QED BY <2>1, <2>2
  <1> QED BY <1>1, <1>2

\* What Sane says of a request where it is.
LEMMA SaneAt ==
    ASSUME Typed, NEW c \in Client
    PROVE  req[c] \in Request /\ Sane(req[c])
  BY DEF Typed, TypeOK, Requested, KnownTyped

\* A request goes on to another place in a sane way.
LEMMA SaneGoto ==
    ASSUME Typed, NEW c \in Client
    PROVE  /\ At(c, "equivalent") => Sane([req[c] EXCEPT !.pc = "upstream outhash"])
           /\ At(c, "insert") => Sane([req[c] EXCEPT !.pc = "answer"])
           /\ At(c, "answer") => Sane([req[c] EXCEPT !.pc = "fetch"])
           /\ At(c, "by outhash") => Sane([req[c] EXCEPT !.pc = "fetch outhash"])
           /\ At(c, "by taskhash") => Sane([req[c] EXCEPT !.pc = "fetch taskhash"])
           /\ At(c, "store unihash") => Sane([req[c] EXCEPT !.pc = "store outhash"])
  <1>1. ASSUME At(c, "equivalent") PROVE Sane([req[c] EXCEPT !.pc = "upstream outhash"])
    BY <1>1, SaneAt DEF Sane, Request, At
  <1>2. ASSUME At(c, "insert") PROVE Sane([req[c] EXCEPT !.pc = "answer"])
    BY <1>2, SaneAt DEF Sane, Request, At
  <1>3. ASSUME At(c, "answer") PROVE Sane([req[c] EXCEPT !.pc = "fetch"])
    BY <1>3, SaneAt DEF Sane, Request, At
  <1>4. ASSUME At(c, "by outhash") PROVE Sane([req[c] EXCEPT !.pc = "fetch outhash"])
    BY <1>4, SaneAt DEF Sane, Request, At
  <1>5. ASSUME At(c, "store unihash") PROVE Sane([req[c] EXCEPT !.pc = "store outhash"])
    BY <1>5, SaneAt DEF Sane, Request, At
  <1>6. ASSUME At(c, "by taskhash") PROVE Sane([req[c] EXCEPT !.pc = "fetch taskhash"])
    BY <1>6, SaneAt DEF Sane, Request, At
  <1> QED BY <1>1, <1>2, <1>3, <1>4, <1>5, <1>6

LEMMA SaneGotoWith ==
    ASSUME Typed, NEW c \in Client, NEW hash \in Task
    PROVE  /\ At(c, "equivalent") \/ At(c, "upstream outhash") =>
                 Sane([req[c] EXCEPT !.pc = "insert", !.found = hash])
           /\ At(c, "fetch") /\ req[c].kind # "get-stream" =>
                 Sane([req[c] EXCEPT !.pc = "store", !.found = hash])
  <1>1. ASSUME At(c, "equivalent") \/ At(c, "upstream outhash")
        PROVE  Sane([req[c] EXCEPT !.pc = "insert", !.found = hash])
    BY <1>1, SaneAt DEF Sane, Request, At
  <1>2. ASSUME At(c, "fetch"), req[c].kind # "get-stream"
        PROVE  Sane([req[c] EXCEPT !.pc = "store", !.found = hash])
    BY <1>2, SaneAt DEF Sane, Request, At
  <1> QED BY <1>1, <1>2

\* The rest of a request's steps.
LEMMA StepsTyped == ASSUME Typed, NEW c \in Client, Steps(c) PROVE Typed'
  <1>1. ASSUME FindEquivalent(c) PROVE Typed'
    <2> USE <1>1
    <2>1. req[c].uni \in Task /\ At(c, "equivalent")
      BY SaneAt DEF Sane, At, FindEquivalent
    <2>2. Requested'
      <3>1. ASSUME NEW hash \in Task, GotoWith(c, "insert", hash) PROVE Requested'
        BY <3>1, <2>1, SaneGotoWith, GotoWithTyped DEF Labels
      <3>2. ASSUME Goto(c, "upstream outhash") PROVE Requested'
        BY <3>2, <2>1, SaneGoto, GotoTyped DEF Labels
      <3>3. \A s \in Joined(created, unihash, req[c].out) : unihash[s] \in Task
        BY DEF Joined, Typed, TypeOK, Requested, KnownTyped
      <3>4. \/ \E hash \in Task : GotoWith(c, "insert", hash)
            \/ Goto(c, "upstream outhash")
        BY <2>1, <3>3 DEF FindEquivalent
      <3> QED BY <3>1, <3>2, <3>3, <3>4 DEF FindEquivalent
    <2> QED BY <2>1, <2>2 DEF FindEquivalent, Typed, TypeOK, Requested, KnownTyped
  <1>2. ASSUME AskUpstreamOuthash(c) PROVE Typed'
    <2> USE <1>2
    <2>1. req[c].uni \in Task /\ At(c, "upstream outhash")
      BY SaneAt DEF Sane, At, AskUpstreamOuthash
    <2>2. Requested'
      <3>1. ASSUME NEW hash \in Task, GotoWith(c, "insert", hash) PROVE Requested'
        BY <3>1, <2>1, SaneGotoWith, GotoWithTyped DEF Labels
      <3>2. \A s \in Joined(upCreated, upUnihash, req[c].out) : upUnihash[s] \in Task
        BY DEF Joined, Typed, TypeOK, Requested, KnownTyped
      <3>3. \E hash \in Task : GotoWith(c, "insert", hash)
        BY <2>1, <3>2 DEF AskUpstreamOuthash, Oldest
      <3> QED BY <3>1, <3>2, <3>3 DEF AskUpstreamOuthash
    <2> QED BY <2>1, <2>2 DEF AskUpstreamOuthash, Typed, TypeOK, Requested, KnownTyped
  <1>3. ASSUME InsertUnihash(c) PROVE Typed'
    <2> USE <1>3
    <2>1. req[c].task \in Task /\ req[c].found \in Task
      BY SaneAt DEF Sane, At, InsertUnihash
    <2>2. Requested'
      BY SaneGoto, GotoTyped DEF InsertUnihash, Labels
    <2>3. unihash' \in [Task -> Task \cup {None}] /\ mark' \in [Task -> Mark \cup {None}]
         /\ kept' \subseteq Task
      BY <2>1, InsertUnihashTyped DEF InsertUnihash, Typed
    <2> QED BY <2>1, <2>2, <2>3 DEF InsertUnihash, Typed, TypeOK, Requested, KnownTyped
  <1>4. ASSUME AnswerFromTable(c) PROVE Typed'
    <2> USE <1>4
    <2>1. req[c].task \in Task /\ req[c].uni \in Task \cup {None}
      BY SaneAt DEF Sane, At, AnswerFromTable, Request
    <2>2. \E hash \in Task \cup {None} : Answer(c, hash)
      BY <2>1 DEF AnswerFromTable, Typed, TypeOK, Requested, KnownTyped
    <2>3. Requested' /\ KnownTyped'
      BY <2>1, <2>2, AnswerTyped
    <2> QED BY <2>1, <2>2, <2>3 DEF AnswerFromTable, Typed, TypeOK, Requested, KnownTyped
  <1>5. ASSUME AskUpstream(c) PROVE Typed'
    <2> USE <1>5
    <2>1. Requested'
      BY SaneGoto, GotoTyped DEF AskUpstream, Labels
    <2> QED BY <2>1 DEF AskUpstream, Typed, TypeOK, Requested, KnownTyped
  <1>6. ASSUME Fetch(c) PROVE Typed'
    <2> USE <1>6
    <2>1. req[c].task \in Task
      BY SaneAt DEF Sane, At, Fetch
    <2>2. Requested' /\ KnownTyped'
      <3>1. ASSUME NEW hash \in Task, GotoWith(c, "store", hash) PROVE Requested'
        BY <3>1, SaneGotoWith, GotoWithTyped DEF Fetch, Labels
      <3>2. ASSUME End(c) PROVE Requested' /\ UNCHANGED known
        BY <3>2, EndTyped
      <3>3. \/ (\E hash \in Task : GotoWith(c, "store", hash)) /\ UNCHANGED known
            \/ End(c)
        BY <2>1 DEF Fetch, Typed, TypeOK, Requested, KnownTyped
      <3>4. KnownTyped
        BY DEF Typed, TypeOK, Requested, KnownTyped
      <3>5. ASSUME UNCHANGED known PROVE KnownTyped'
        BY <3>4, <3>5 DEF KnownTyped
      <3> QED BY <3>1, <3>2, <3>3, <3>5
    <2> QED BY <2>1, <2>2 DEF Fetch, Typed, TypeOK, Requested, KnownTyped
  <1>7. ASSUME StoreFetched(c) PROVE Typed'
    <2> USE <1>7
    <2>1. req[c].task \in Task /\ req[c].found \in Task
      BY SaneAt DEF Sane, At, StoreFetched
    <2>2. Requested' /\ KnownTyped'
      BY <2>1, AnswerTyped DEF StoreFetched
    <2>3. unihash' \in [Task -> Task \cup {None}] /\ mark' \in [Task -> Mark \cup {None}]
         /\ kept' \subseteq Task
      BY <2>1, InsertUnihashTyped DEF StoreFetched, Typed
    <2> QED BY <2>1, <2>2, <2>3 DEF StoreFetched, Typed, TypeOK, Requested, KnownTyped
  <1>8. ASSUME FetchStream(c) PROVE Typed'
    <2> USE <1>8
    <2>1. req[c].task \in Task /\ upUnihash[req[c].task] \in Task \cup {None}
      BY SaneAt DEF Sane, At, FetchStream, Typed, TypeOK, Requested, KnownTyped
    <2>2. Requested' /\ KnownTyped'
      BY <2>1, AnswerTyped DEF FetchStream
    <2>3. backfill' \subseteq Task
      BY <2>1 DEF FetchStream, Typed, TypeOK, Requested, KnownTyped
    <2> QED BY <2>1, <2>2, <2>3 DEF FetchStream, Typed, TypeOK, Requested, KnownTyped
  <1>9. ASSUME ReadEquiv(c) PROVE Typed'
    <2> USE <1>9
    <2>1. req[c].task \in Task /\ unihash[req[c].task] \in Task \cup {None}
      BY SaneAt DEF Sane, At, ReadEquiv, Typed, TypeOK, Requested, KnownTyped
    <2>2. Requested' /\ KnownTyped'
      <3>1. ASSUME Answer(c, unihash[req[c].task]) PROVE Requested' /\ KnownTyped'
        BY <3>1, <2>1, AnswerTyped
      <3>2. ASSUME End(c) PROVE Requested' /\ KnownTyped'
        BY <3>2, EndTyped DEF Typed, TypeOK, Requested, KnownTyped
      <3> QED BY <3>1, <3>2 DEF ReadEquiv
    <2> QED BY <2>1, <2>2 DEF ReadEquiv, Typed, TypeOK, Requested, KnownTyped
  <1>10. ASSUME LookupOuthash(c) PROVE Typed'
    <2> USE <1>10
    <2>1. /\ At(c, "by outhash") /\ req[c].uni \in Task \cup {None}
          /\ Told(req[c].kind) => req[c].task \in Task
      BY SaneAt DEF Sane, At, LookupOuthash, Request, Told
    <2> DEFINE S == Matching(req[c].kind, req[c].out)
    <2>2. CASE Goto(c, "fetch outhash") /\ UNCHANGED known
      <3>1. Requested'
        BY <2>1, <2>2, SaneGoto, GotoTyped DEF Labels
      <3> QED BY <2>2, <3>1 DEF LookupOuthash, Typed, TypeOK, Requested, KnownTyped
    <2>3. ASSUME NEW hash \in Task \cup {None}, Reply(c, hash) PROVE Requested' /\ KnownTyped'
      BY <2>1, <2>3, ReplyTyped
    <2>4. \A s \in S : unihash[s] \in Task \cup {None}
      BY DEF Matching, Joined, Typed, TypeOK, Requested, KnownTyped
    <2>5. CASE \E hash \in Task \cup {None} : Reply(c, hash)
      BY <2>3, <2>5 DEF LookupOuthash, Typed, TypeOK, Requested, KnownTyped
    <2>6. CASE \E s \in S : Oldest(created, S, req[c].out, s) /\ Reply(c, unihash[s])
      BY <2>4, <2>5, <2>6
    <2> QED BY <2>1, <2>2, <2>5, <2>6 DEF LookupOuthash
  <1>11. ASSUME FetchOuthash(c) PROVE Typed'
    <2> USE <1>11
    <2>1. /\ At(c, "fetch outhash") /\ req[c].uni \in Task \cup {None} /\ req[c].out \in Out
          /\ Told(req[c].kind) => req[c].task \in Task
          /\ req[c].kind # "get-all"
      BY SaneAt DEF Sane, At, FetchOuthash, Request, Told
    <2>2. KnownTyped
      BY DEF Typed, TypeOK, Requested, KnownTyped, KnownTyped
    <2>3. Requested' /\ KnownTyped'
      <3> DEFINE S == Joined(upCreated, upUnihash, req[c].out)
                 R(s) == [req[c] EXCEPT !.pc = "store unihash", !.row = s,
                                 !.found = upUnihash[s], !.at = upCreated[s][req[c].out]]
      <3>1. CASE Reply(c, req[c].uni)
        BY <3>1, <2>1, ReplyTyped
      <3>2. ASSUME NEW s \in S, Becomes(c, R(s)) PROVE Requested'
        <4>1. s \in Task /\ upUnihash[s] # None
          BY DEF Joined
        <4>2. upUnihash[s] \in Task
          BY <4>1 DEF Typed, TypeOK, Requested, KnownTyped
        <4>3. upCreated[s][req[c].out] \in Nat
          BY <4>1, <2>1 DEF Typed, TypeOK, Requested, KnownTyped
        <4>4. req[c] \in Request /\ Sane(req[c])
          BY SaneAt
        <4>5. R(s) \in Request
          BY <4>1, <4>2, <4>3, <4>4 DEF Request, Labels
        <4>6. Sane(R(s))
          BY <4>1, <4>2, <4>4, <2>1 DEF Request, Sane, At
        <4> HIDE DEF R
        <4> QED BY <3>2, <4>5, <4>6, BecomesSane DEF Typed
      <3>3. \/ Reply(c, req[c].uni)
            \/ (\E s \in S : Becomes(c, R(s))) /\ UNCHANGED known
        BY DEF FetchOuthash, Becomes, Oldest
      <3>4. ASSUME UNCHANGED known PROVE KnownTyped'
        BY <2>2, <3>4 DEF KnownTyped
      <3> HIDE DEF S, R
      <3> QED BY <3>1, <3>2, <3>3, <3>4
    <2> QED BY <2>3 DEF FetchOuthash, Typed, TypeOK, Requested, KnownTyped
  <1>12. ASSUME StoreUnihash(c) PROVE Typed'
    <2> USE <1>12
    <2>1. req[c].row \in Task /\ req[c].found \in Task
      BY SaneAt DEF Sane, At, StoreUnihash, Request
    <2>2. Requested'
      BY SaneGoto, GotoTyped DEF StoreUnihash, Labels
    <2>3. unihash' \in [Task -> Task \cup {None}] /\ mark' \in [Task -> Mark \cup {None}]
          /\ kept' \subseteq Task
      BY <2>1, InsertUnihashTyped DEF StoreUnihash, Typed, At
    <2> QED BY <2>2, <2>3 DEF StoreUnihash, Typed, TypeOK, Requested, KnownTyped
  <1>13. ASSUME StoreOuthash(c) PROVE Typed'
    <2> USE <1>13
    <2>1. /\ req[c].found \in Task /\ req[c].row \in Task /\ req[c].out \in Out
          /\ req[c].at \in Nat
          /\ Told(req[c].kind) => req[c].task \in Task
      BY SaneAt DEF Sane, At, StoreOuthash, Request, Told
    <2>2. Requested' /\ KnownTyped'
      BY <2>1, ReplyTyped DEF StoreOuthash
    <2>3. created' \in [Task -> [Out -> Nat]]
      BY <2>1, InsertOuthashTyped DEF StoreOuthash, Typed
    <2> QED BY <2>2, <2>3 DEF StoreOuthash, Typed, TypeOK, Requested, KnownTyped
  <1>14. ASSUME RemoveRest(c) PROVE Typed'
    <2> USE <1>14
    <2>1. Requested' /\ UNCHANGED known
      BY EndTyped DEF RemoveRest
    <2>2. created' \in [Task -> [Out -> Nat]]
      BY DeleteOuthashesTyped DEF RemoveRest, Typed
    <2> QED BY <2>1, <2>2 DEF RemoveRest, Typed, TypeOK, Requested, KnownTyped
  <1>15. ASSUME Sweep(c) PROVE Typed'
    <2> USE <1>15
    <2>1. Requested' /\ UNCHANGED known
      BY EndTyped DEF Sweep
    <2>2. (IF gcmark = None THEN {} ELSE {t \in Task : mark[t] # gcmark}) \in SUBSET Task
      OBVIOUS
    <2>3. unihash' \in [Task -> Task \cup {None}] /\ mark' \in [Task -> Mark \cup {None}]
          /\ removed' \subseteq Task /\ kept' \subseteq Task
      BY <2>2, DeleteTyped DEF Sweep, Typed
    <2> QED BY <2>1, <2>3 DEF Sweep, Typed, TypeOK, Requested, KnownTyped
  <1>16. ASSUME InsertOuthash(c) PROVE Typed'
    <2> USE <1>16
    <2>1. /\ req[c] \in Request /\ Sane(req[c]) /\ req[c].pc = "report"
          /\ req[c].kind = "report" /\ req[c].task \in Task /\ req[c].out \in Out
          /\ req[c].uni \in Task /\ req[c].at \in Nat
      BY SaneAt DEF Sane, At, InsertOuthash, Request
    <2>2. created' \in [Task -> [Out -> Nat]]
      BY <2>1, InsertOuthashTyped DEF InsertOuthash, Typed
    <2> DEFINE R(label) == [req[c] EXCEPT !.pc = label, !.at = 0]
    <2>3. ASSUME NEW label \in {"equivalent", "answer"} PROVE R(label) \in Request /\ Sane(R(label))
      BY <2>1 DEF Request, Sane, Labels
    <2>4. PICK label \in {"equivalent", "answer"} : Becomes(c, R(label))
      BY DEF InsertOuthash, Becomes
    <2> HIDE DEF R
    <2>5. Requested'
      BY <2>3, <2>4, BecomesSane DEF Typed
    <2> QED BY <2>2, <2>5 DEF InsertOuthash, Typed, TypeOK, Requested, KnownTyped
  <1>17. ASSUME LookupTaskhash(c) PROVE Typed'
    <2> USE <1>17
    <2>1. At(c, "by taskhash") /\ req[c].task \in Task
      BY SaneAt DEF Sane, At, LookupTaskhash
    <2>2. ASSUME Goto(c, "fetch taskhash"), UNCHANGED known PROVE Requested' /\ KnownTyped'
      <3>1. Requested'
        BY <2>1, <2>2, SaneGoto, GotoTyped DEF Labels
      <3> QED BY <2>2, <3>1 DEF Typed, TypeOK, KnownTyped
    <2>3. ASSUME NEW hash \in Task \cup {None}, Reply(c, hash) PROVE Requested' /\ KnownTyped'
      BY <2>1, <2>3, ReplyTyped
    <2>4. unihash[req[c].task] \in Task \cup {None}
      BY <2>1 DEF Typed, TypeOK
    <2>5. Requested' /\ KnownTyped'
      BY <2>2, <2>3, <2>4 DEF LookupTaskhash
    <2> QED BY <2>5 DEF LookupTaskhash, Typed, TypeOK, Requested, KnownTyped
  <1>18. ASSUME FetchTaskhash(c) PROVE Typed'
    <2> USE <1>18
    <2>1. At(c, "fetch taskhash") /\ req[c].task \in Task /\ req[c].kind = "get-all"
      BY SaneAt DEF Sane, At, FetchTaskhash
    <2>2. ASSUME NEW o \in Out, req[c].task \in Joined(upCreated, upUnihash, o),
                 Becomes(c, WithRow(c, o)), UNCHANGED known
          PROVE  Requested' /\ KnownTyped'
      <3>1. upUnihash[req[c].task] \in Task /\ upCreated[req[c].task][o] \in Nat
        BY <2>1, <2>2 DEF Joined, Typed, TypeOK
      <3>2. req[c] \in Request /\ Sane(req[c])
        BY SaneAt
      <3>3. WithRow(c, o) \in Request
        BY <2>1, <3>1, <3>2 DEF WithRow, Request, Labels
      <3>4. Sane(WithRow(c, o))
        BY <2>1, <3>1, <3>2 DEF WithRow, Request, Sane, At
      <3>5. Requested'
        BY <2>2, <3>3, <3>4, BecomesSane DEF Typed
      <3> QED BY <2>2, <3>5 DEF Typed, TypeOK, KnownTyped
    <2>3. ASSUME Reply(c, None) PROVE Requested' /\ KnownTyped'
      BY <2>1, <2>3, ReplyTyped
    <2>5. Requested' /\ KnownTyped'
      BY <2>2, <2>3, TakesRow
    <2> QED BY <2>5 DEF FetchTaskhash, Typed, TypeOK, Requested, KnownTyped
  <1> QED BY <1>1, <1>2, <1>3, <1>4, <1>5, <1>6, <1>7, <1>8, <1>9, <1>10, <1>11, <1>12,
             <1>13, <1>14, <1>15, <1>16, <1>17, <1>18 DEF Steps

LEMMA TypedStep == Typed /\ [Next]_vars => Typed'
  <1> SUFFICES ASSUME Typed, [Next]_vars PROVE Typed'
    OBVIOUS
  <1>1. ASSUME NEW c \in Client, Requests(c) \/ Steps(c) PROVE Typed'
    BY <1>1, RequestsTyped, StepsTyped
  <1>2. CASE BackfillFetch
    BY <1>2 DEF BackfillFetch, Typed, TypeOK, Requested, KnownTyped
  <1>3. CASE BackfillStore
    <2>1. fetched[1] \in Task /\ fetched[2] \in Task
      BY <1>3 DEF BackfillStore, Typed, TypeOK, Requested, KnownTyped
    <2>2. unihash' \in [Task -> Task \cup {None}] /\ mark' \in [Task -> Mark \cup {None}]
          /\ kept' \subseteq Task
      BY <1>3, <2>1, InsertUnihashTyped DEF BackfillStore, Typed
    <2> QED BY <1>3, <2>2 DEF BackfillStore, Typed, TypeOK, Requested, KnownTyped
  <1>4. ASSUME NEW t \in Task, NEW o \in Out, UpstreamReport(t, o) PROVE Typed'
    <2>1. upUnihash' \in [Task -> Task \cup {None}]
      BY <1>4 DEF UpstreamReport, Typed, TypeOK, Requested, KnownTyped, Joined, Oldest
    <2>2. upCreated' \in [Task -> [Out -> Nat]] /\ clock' \in Nat /\ asked' \in Nat
      BY <1>4 DEF UpstreamReport, Typed, TypeOK, Requested, KnownTyped
    <2>3. reported' \subseteq Task \X Out
      BY <1>4 DEF UpstreamReport, Typed, TypeOK, Requested, KnownTyped
    <2> QED BY <1>4, <2>1, <2>2, <2>3 DEF UpstreamReport, Typed, TypeOK, Requested, KnownTyped
  <1>5. CASE UNCHANGED vars
    BY <1>5 DEF vars, Typed, TypeOK, Requested, KnownTyped
  <1> QED BY <1>1, <1>2, <1>3, <1>4, <1>5 DEF Next

LEMMA TypedInit == Init => Typed
  BY IdleSane DEF Init, Typed, TypeOK, Requested, KnownTyped

LEMMA TypedAlways == Spec => []Typed
  BY TypedInit, TypedStep, PTL DEF Spec

\* All variables have their types in every state.
THEOREM TypeCorrect == Spec => []TypeOK
  <1>1. Typed => TypeOK
    BY DEF Typed
  <1> QED BY <1>1, TypedAlways, PTL

-----------------------------------------------------------------------------
(* Clients that report one task are told one hash                           *)

\* A row that was never removed stays what it is.
RowsStay ==
    \A t \in Task \ removed' : t \notin removed /\ (unihash[t] # None => unihash'[t] = unihash[t])

LEMMA InsertStays ==
    ASSUME Typed, NEW t \in Task, NEW hash, insert_unihash(t, hash), UNCHANGED removed
    PROVE  RowsStay
  BY DEF Typed, TypeOK, insert_unihash, RowsStay

LEMMA DeleteStays ==
    ASSUME Typed, NEW S \in SUBSET Task, DeleteUnihashes(S)
    PROVE  RowsStay
  BY DEF Typed, TypeOK, DeleteUnihashes, RowsStay

LEMMA UnchangedStays == ASSUME UNCHANGED <<unihash, removed>> PROVE RowsStay
  BY DEF RowsStay

\* A request that is to answer a report from the table finds the row there.
Waits(r, row) ==
    /\ r.kind = "report" => r.pc \notin {"fetch", "store"}
    /\ r.kind = "report" /\ r.pc = "answer" => row # None
    /\ r.pc = "read equiv" => row # None

\* What was answered to a report is what the table has.
OneAnswer ==
    server.backend = "sqlite" =>
        /\ \A t \in Task \ removed : \A hash \in agreed[t] : unihash[t] = hash
        /\ \A c \in Client : req[c].task \in Task \ removed => Waits(req[c], unihash[req[c].task])

\* A step keeps that if rows stay, the request that moves finds its row, and
\* what it answers is in the table.
LEMMA OneAnswerStep ==
    ASSUME Typed, OneAnswer, server' = server, RowsStay,
           NEW c \in Client, NEW r, Becomes(c, r),
           server.backend = "sqlite" /\ r.task \in Task \ removed' => Waits(r, unihash'[r.task]),
           server.backend = "sqlite" =>
               \A t \in Task \ removed' : \A hash \in agreed'[t] :
                   hash \in agreed[t] \/ unihash'[t] = hash
    PROVE  OneAnswer'
  <1> SUFFICES ASSUME server.backend = "sqlite"
               PROVE  /\ \A t \in Task \ removed' : \A hash \in agreed'[t] : unihash'[t] = hash
                      /\ \A d \in Client : req'[d].task \in Task \ removed' =>
                            Waits(req'[d], unihash'[req'[d].task])
    BY DEF OneAnswer
  <1>1. ASSUME NEW t \in Task \ removed', NEW hash \in agreed'[t] PROVE unihash'[t] = hash
    <2>1. CASE hash \in agreed[t]
      <3>1. t \notin removed /\ unihash[t] = hash
        BY <2>1 DEF OneAnswer, RowsStay
      <3>2. hash # None
        BY <2>1, NoneAssumption DEF Typed, TypeOK
      <3> QED BY <3>1, <3>2 DEF RowsStay
    <2> QED BY <2>1
  <1>2. ASSUME NEW d \in Client, req'[d].task \in Task \ removed'
        PROVE  Waits(req'[d], unihash'[req'[d].task])
    <2>1. CASE d = c
      BY <1>2, <2>1 DEF Becomes, Typed, TypeOK
    <2>2. CASE d # c
      <3>1. req'[d] = req[d]
        BY <2>2 DEF Becomes, Typed, TypeOK
      <3>2. Waits(req[d], unihash[req[d].task])
        BY <1>2, <3>1 DEF OneAnswer, RowsStay
      <3> QED BY <1>2, <3>1, <3>2 DEF RowsStay, Waits
    <2> QED BY <2>1, <2>2
  <1> QED BY <1>1, <1>2

\* An answer is in the table, or not to a report.
LEMMA OneAnswerAnswer ==
    ASSUME Typed, OneAnswer, server' = server, RowsStay, NEW c \in Client, NEW hash,
           Answer(c, hash), req[c].task \in Task,
           server.backend = "sqlite" /\ req[c].kind \in {"report", "report-equiv"}
               /\ req[c].task \notin removed' => hash = unihash'[req[c].task]
    PROVE  OneAnswer'
  <1>1. Becomes(c, Idle)
    BY DEF Answer, Becomes
  <1>2. Idle.task \notin Task /\ Waits(Idle, None)
    BY NoneAssumption DEF Idle, Waits
  <1>3. server.backend = "sqlite" =>
            \A t \in Task \ removed' : \A h \in agreed'[t] : h \in agreed[t] \/ unihash'[t] = h
    BY DEF Answer, Typed, TypeOK
  <1> QED BY <1>1, <1>2, <1>3, OneAnswerStep

\* A step that answers nothing and lets the request go to r.
LEMMA OneAnswerMove ==
    ASSUME Typed, OneAnswer, server' = server, RowsStay, UNCHANGED agreed,
           NEW c \in Client, NEW r, Becomes(c, r),
           server.backend = "sqlite" /\ r.task \in Task \ removed' => Waits(r, unihash'[r.task])
    PROVE  OneAnswer'
  BY OneAnswerStep

LEMMA IdleWaits == Idle.task \notin Task
  BY NoneAssumption DEF Idle

LEMMA RequestsOneAnswer ==
    ASSUME Typed, OneAnswer, NEW c \in Client, Requests(c)
    PROVE  OneAnswer'
  <1>1. ASSUME NEW t \in Task, NEW o \in Out, NEW hash \in Task, Report(c, t, o, hash) PROVE OneAnswer'
    <2> USE <1>1
    <2> DEFINE r == [Idle EXCEPT !.kind = "report", !.task = t, !.out = o, !.uni = hash,
                               !.at = clock + 1, !.pc = "report"]
    <2>1. Becomes(c, r)
      BY DEF Report, Begin, Becomes
    <2>2. RowsStay
      BY UnchangedStays DEF Report
    <2>3. server.backend = "sqlite" /\ r.task \in Task \ removed' => Waits(r, unihash'[r.task])
      BY DEF Idle, Waits
    <2> HIDE DEF r
    <2> QED BY <2>1, <2>2, <2>3, OneAnswerMove DEF Report
  <1>2. ASSUME NEW t \in Task, NEW o \in Out, NEW hash \in Task, ReportReadonly(c, t, o, hash) PROVE OneAnswer'
    <2> USE <1>2
    <2> DEFINE r == [Idle EXCEPT !.kind = "readonly", !.task = t, !.out = o, !.uni = hash,
                               !.pc = "by outhash"]
    <2>1. Becomes(c, r)
      BY DEF ReportReadonly, Begin, Becomes
    <2>2. RowsStay
      BY UnchangedStays DEF ReportReadonly
    <2>3. server.backend = "sqlite" /\ r.task \in Task \ removed' => Waits(r, unihash'[r.task])
      BY DEF Idle, Waits
    <2> HIDE DEF r
    <2> QED BY <2>1, <2>2, <2>3, OneAnswerMove DEF ReportReadonly
  <1>3. ASSUME NEW t \in Task, NEW hash \in Task, ReportEquiv(c, t, hash) PROVE OneAnswer'
    <2> USE <1>3
    <2> DEFINE r == [Idle EXCEPT !.kind = "report-equiv", !.task = t, !.uni = hash,
                               !.pc = "read equiv"]
    <2>1. Becomes(c, r)
      BY DEF ReportEquiv, Begin, Becomes
    <2>2. RowsStay
      BY InsertStays DEF ReportEquiv
    <2>3. server.backend = "sqlite" /\ r.task \in Task \ removed' => Waits(r, unihash'[r.task])
      BY NoneAssumption DEF Idle, Waits, ReportEquiv, insert_unihash, Typed, TypeOK
    <2> HIDE DEF r
    <2> QED BY <2>1, <2>2, <2>3, OneAnswerMove DEF ReportEquiv
  <1>4. ASSUME NEW t \in Task, Get(c, t) PROVE OneAnswer'
    <2> USE <1>4
    <2> DEFINE r == [Idle EXCEPT !.kind = "get", !.task = t, !.pc = "answer"]
    <2>1. Becomes(c, r)
      BY DEF Get, Begin, Becomes
    <2>2. RowsStay
      BY UnchangedStays DEF Get
    <2>3. server.backend = "sqlite" /\ r.task \in Task \ removed' => Waits(r, unihash'[r.task])
      BY DEF Idle, Waits
    <2> HIDE DEF r
    <2> QED BY <2>1, <2>2, <2>3, OneAnswerMove DEF Get
  <1>5. ASSUME NEW t \in Task, GetStream(c, t) PROVE OneAnswer'
    <2> USE <1>5
    <2> DEFINE r == [Idle EXCEPT !.kind = "get-stream", !.task = t, !.pc = "answer"]
    <2>1. Becomes(c, r)
      BY DEF GetStream, Begin, Becomes
    <2>2. RowsStay
      BY UnchangedStays DEF GetStream
    <2>3. server.backend = "sqlite" /\ r.task \in Task \ removed' => Waits(r, unihash'[r.task])
      BY DEF Idle, Waits
    <2> HIDE DEF r
    <2> QED BY <2>1, <2>2, <2>3, OneAnswerMove DEF GetStream
  <1>6. ASSUME NEW o \in Out, NEW kind \in Kind, GetOuthash(c, o, kind) PROVE OneAnswer'
    <2> USE <1>6
    <2>0. kind \in {"get-outhash", "get-row"}
      BY <1>6 DEF GetOuthash
    <2> DEFINE r == [Idle EXCEPT !.kind = kind, !.out = o, !.pc = "by outhash"]
    <2>1. Becomes(c, r)
      BY DEF GetOuthash, Begin, Becomes
    <2>2. RowsStay
      BY UnchangedStays DEF GetOuthash
    <2>3. server.backend = "sqlite" /\ r.task \in Task \ removed' => Waits(r, unihash'[r.task])
      BY DEF Idle, Waits
    <2> HIDE DEF r
    <2> QED BY <2>1, <2>2, <2>3, OneAnswerMove DEF GetOuthash
  <1>7. ASSUME NEW q \in Conditions, Remove(c, q) PROVE OneAnswer'
    <2> USE <1>7
    <2>1. Becomes(c, IF server.backend = "sqlite" THEN Idle ELSE [q EXCEPT !.pc = "remove rest"])
      BY DEF Remove, Begin, Becomes
    <2>2. RowsStay
      BY DeleteStays DEF Remove, UnihashesOf
    <2> QED BY <2>1, <2>2, IdleWaits, OneAnswerMove DEF Remove
  <1>8. ASSUME NEW m \in Mark, NEW q \in Conditions, GcMark(c, m, q) PROVE OneAnswer'
    <2> USE <1>8
    <2>1. Becomes(c, Idle)
      BY DEF GcMark, Begin, Becomes
    <2>2. RowsStay
      BY UnchangedStays DEF GcMark
    <2> QED BY <2>1, <2>2, IdleWaits, OneAnswerMove DEF GcMark
  <1>9. ASSUME NEW m \in Mark, GcSweep(c, m) PROVE OneAnswer'
    <2> USE <1>9
    <2> DEFINE r == IF m = gcmark THEN [Idle EXCEPT !.kind = "gc-sweep", !.pc = "sweep"] ELSE Idle
    <2>1. Becomes(c, r)
      BY DEF GcSweep, Begin, Becomes
    <2>2. RowsStay
      BY UnchangedStays DEF GcSweep
    <2>3. r.task \notin Task
      BY NoneAssumption DEF Idle
    <2> HIDE DEF r
    <2> QED BY <2>1, <2>2, <2>3, OneAnswerMove DEF GcSweep
  <1>10. ASSUME CleanUnused(c) PROVE OneAnswer'
    <2> USE <1>10
    <2>1. Becomes(c, Idle)
      BY DEF CleanUnused, Begin, Becomes
    <2>2. RowsStay
      BY UnchangedStays DEF CleanUnused
    <2> QED BY <2>1, <2>2, IdleWaits, OneAnswerMove DEF CleanUnused
  <1>11. ASSUME NEW t \in Task, GetAll(c, t) PROVE OneAnswer'
    <2> USE <1>11
    <2> DEFINE r == [Idle EXCEPT !.kind = "get-all", !.task = t, !.pc = "by taskhash"]
    <2>1. Becomes(c, r)
      BY DEF GetAll, Begin, Becomes
    <2>2. RowsStay
      BY UnchangedStays DEF GetAll
    <2>3. server.backend = "sqlite" /\ r.task \in Task \ removed' => Waits(r, unihash'[r.task])
      BY DEF Idle, Waits
    <2> HIDE DEF r
    <2> QED BY <2>1, <2>2, <2>3, OneAnswerMove DEF GetAll
  <1> QED BY <1>1, <1>2, <1>3, <1>4, <1>5, <1>6, <1>7, <1>8, <1>9, <1>10, <1>11 DEF Requests

\* Steps that only move the request.
LEMMA OneAnswerGoto ==
    ASSUME Typed, OneAnswer, server' = server, RowsStay, UNCHANGED agreed,
           NEW c \in Client, NEW label \in Labels, Goto(c, label),
           label # "read equiv",
           label = "answer" => unihash'[req[c].task] # None,
           label \in {"fetch", "store"} /\ req[c].kind = "report" /\ server.backend = "sqlite"
               => req[c].task \in removed'
    PROVE  OneAnswer'
  <1> DEFINE r == [req[c] EXCEPT !.pc = label]
  <1>1. Becomes(c, r)
    BY GotoBecomes DEF Typed
  <1>2. r.task = req[c].task /\ r.kind = req[c].kind /\ r.pc = label
    BY SaneAt DEF Request
  <1> HIDE DEF r
  <1>3. server.backend = "sqlite" /\ r.task \in Task \ removed' => Waits(r, unihash'[r.task])
    BY <1>2 DEF Waits
  <1> QED BY <1>1, <1>3, OneAnswerMove

LEMMA OneAnswerGotoWith ==
    ASSUME Typed, OneAnswer, server' = server, RowsStay, UNCHANGED agreed,
           NEW c \in Client, NEW label \in {"insert", "store"}, NEW hash \in Task,
           GotoWith(c, label, hash),
           label = "store" /\ req[c].kind = "report" /\ server.backend = "sqlite"
               => req[c].task \in removed'
    PROVE  OneAnswer'
  <1> DEFINE r == [req[c] EXCEPT !.pc = label, !.found = hash]
  <1>1. Becomes(c, r)
    BY GotoWithBecomes DEF Typed, Labels
  <1>2. r.task = req[c].task /\ r.kind = req[c].kind /\ r.pc = label
    BY SaneAt DEF Request
  <1> HIDE DEF r
  <1>3. server.backend = "sqlite" /\ r.task \in Task \ removed' => Waits(r, unihash'[r.task])
    BY <1>2 DEF Waits
  <1> QED BY <1>1, <1>3, OneAnswerMove

LEMMA OneAnswerEnd ==
    ASSUME Typed, OneAnswer, server' = server, RowsStay, NEW c \in Client, End(c)
    PROVE  OneAnswer'
  BY EndTyped, IdleWaits, OneAnswerMove

LEMMA OneAnswerReply ==
    ASSUME Typed, OneAnswer, server' = server, RowsStay, NEW c \in Client, NEW hash,
           Reply(c, hash), Told(req[c].kind) => req[c].task \in Task
    PROVE  OneAnswer'
  BY OneAnswerAnswer, OneAnswerEnd DEF Reply, Told

LEMMA StepsOneAnswer ==
    ASSUME Typed, OneAnswer, NEW c \in Client, Steps(c)
    PROVE  OneAnswer'
  <1>1. ASSUME FindEquivalent(c) PROVE OneAnswer'
    <2> USE <1>1
    <2>1. req[c].uni \in Task
      BY SaneAt DEF Sane, At, FindEquivalent
    <2>2. \A s \in Joined(created, unihash, req[c].out) : unihash[s] \in Task
      BY DEF Joined, Typed, TypeOK
    <2>3. \/ \E hash \in Task : GotoWith(c, "insert", hash)
          \/ Goto(c, "upstream outhash")
      BY <2>1, <2>2 DEF FindEquivalent
    <2>4. RowsStay
      BY UnchangedStays DEF FindEquivalent
    <2> QED BY <2>3, <2>4, OneAnswerGoto, OneAnswerGotoWith DEF FindEquivalent, Labels
  <1>2. ASSUME AskUpstreamOuthash(c) PROVE OneAnswer'
    <2> USE <1>2
    <2>1. req[c].uni \in Task
      BY SaneAt DEF Sane, At, AskUpstreamOuthash
    <2>2. \A s \in Joined(upCreated, upUnihash, req[c].out) : upUnihash[s] \in Task
      BY DEF Joined, Typed, TypeOK
    <2>3. \E hash \in Task : GotoWith(c, "insert", hash)
      BY <2>1, <2>2 DEF AskUpstreamOuthash, Oldest
    <2>4. RowsStay
      BY UnchangedStays DEF AskUpstreamOuthash
    <2> QED BY <2>3, <2>4, OneAnswerGotoWith DEF AskUpstreamOuthash
  <1>3. ASSUME InsertUnihash(c) PROVE OneAnswer'
    <2> USE <1>3
    <2>1. req[c].task \in Task /\ req[c].found \in Task
      BY SaneAt DEF Sane, At, InsertUnihash
    <2>2. RowsStay
      BY <2>1, InsertStays DEF InsertUnihash
    <2>3. unihash'[req[c].task] # None
      BY <2>1, NoneAssumption DEF InsertUnihash, insert_unihash, Typed, TypeOK
    <2> QED BY <2>2, <2>3, OneAnswerGoto DEF InsertUnihash, Labels
  <1>4. ASSUME AnswerFromTable(c) PROVE OneAnswer'
    <2> USE <1>4
    <2>1. req[c].task \in Task /\ req[c].kind # "report-equiv" /\ req[c].pc = "answer"
      BY SaneAt DEF Sane, At, AnswerFromTable
    <2>2. RowsStay
      BY UnchangedStays DEF AnswerFromTable
    <2>3. server.backend = "sqlite" /\ req[c].kind = "report" /\ req[c].task \notin removed
              => unihash[req[c].task] # None
      BY <2>1 DEF OneAnswer, Waits
    <2>4. PICK hash : /\ Answer(c, hash)
                      /\ unihash[req[c].task] # None => hash = unihash[req[c].task]
      BY DEF AnswerFromTable
    <2> QED BY <2>1, <2>2, <2>3, <2>4, OneAnswerAnswer DEF AnswerFromTable
  <1>5. ASSUME AskUpstream(c) PROVE OneAnswer'
    <2> USE <1>5
    <2>1. req[c].task \in Task /\ req[c].pc = "answer"
      BY SaneAt DEF Sane, At, AskUpstream
    <2>2. RowsStay
      BY UnchangedStays DEF AskUpstream
    <2>3. server.backend = "sqlite" /\ req[c].kind = "report" => req[c].task \in removed
      BY <2>1 DEF OneAnswer, Waits, AskUpstream
    <2> QED BY <2>1, <2>2, <2>3, OneAnswerGoto DEF AskUpstream, Labels
  <1>6. ASSUME Fetch(c) PROVE OneAnswer'
    <2> USE <1>6
    <2>1. req[c].task \in Task /\ req[c].pc = "fetch"
      BY SaneAt DEF Sane, At, Fetch
    <2>2. RowsStay
      BY UnchangedStays DEF Fetch
    <2>3. server.backend = "sqlite" /\ req[c].kind = "report" => req[c].task \in removed
      BY <2>1 DEF OneAnswer, Waits
    <2>4. \/ (\E hash \in Task : GotoWith(c, "store", hash)) /\ UNCHANGED known
          \/ End(c)
      BY <2>1 DEF Fetch, Typed, TypeOK
    <2>5. CASE End(c)
      BY <2>2, <2>5, OneAnswerEnd DEF Fetch
    <2>6. ASSUME NEW hash \in Task, GotoWith(c, "store", hash), UNCHANGED known
          PROVE  OneAnswer'
      BY <2>1, <2>2, <2>3, <2>6, OneAnswerGotoWith DEF Fetch
    <2> QED BY <2>4, <2>5, <2>6
  <1>7. ASSUME StoreFetched(c) PROVE OneAnswer'
    <2> USE <1>7
    <2>1. req[c].task \in Task /\ req[c].found \in Task /\ req[c].pc = "store"
          /\ req[c].kind # "report-equiv"
      BY SaneAt DEF Sane, At, StoreFetched
    <2>2. RowsStay
      BY <2>1, InsertStays DEF StoreFetched
    <2>3. server.backend = "sqlite" /\ req[c].kind = "report" => req[c].task \in removed
      BY <2>1 DEF OneAnswer, Waits
    <2> QED BY <2>1, <2>2, <2>3, OneAnswerAnswer DEF StoreFetched
  <1>8. ASSUME FetchStream(c) PROVE OneAnswer'
    <2> USE <1>8
    <2>1. req[c].task \in Task
      BY SaneAt DEF Sane, At, FetchStream
    <2>2. RowsStay
      BY UnchangedStays DEF FetchStream
    <2> QED BY <2>1, <2>2, OneAnswerAnswer DEF FetchStream
  <1>9. ASSUME ReadEquiv(c) PROVE OneAnswer'
    <2> USE <1>9
    <2>1. req[c].task \in Task
      BY SaneAt DEF Sane, At, ReadEquiv
    <2>2. RowsStay
      BY UnchangedStays DEF ReadEquiv
    <2> QED BY <2>1, <2>2, OneAnswerAnswer, OneAnswerEnd DEF ReadEquiv
  <1>10. ASSUME LookupOuthash(c) PROVE OneAnswer'
    <2> USE <1>10
    <2>1. Told(req[c].kind) => req[c].task \in Task
      BY SaneAt DEF Sane, At, LookupOuthash, Told
    <2>2. RowsStay
      BY UnchangedStays DEF LookupOuthash
    <2>3. \/ \E hash : Reply(c, hash)
          \/ Goto(c, "fetch outhash") /\ UNCHANGED known
      BY DEF LookupOuthash
    <2> QED BY <2>1, <2>2, <2>3, OneAnswerReply, OneAnswerGoto DEF LookupOuthash, Labels
  <1>11. ASSUME FetchOuthash(c) PROVE OneAnswer'
    <2> USE <1>11
    <2>1. Told(req[c].kind) => req[c].task \in Task
      BY SaneAt DEF Sane, At, FetchOuthash, Told
    <2>2. RowsStay
      BY UnchangedStays DEF FetchOuthash
    <2> DEFINE R(s) == [req[c] EXCEPT !.pc = "store unihash", !.row = s,
                                  !.found = upUnihash[s], !.at = upCreated[s][req[c].out]]
    <2>3. \/ Reply(c, req[c].uni)
          \/ (\E s : Becomes(c, R(s))) /\ UNCHANGED known
      BY DEF FetchOuthash, Becomes
    <2>4. ASSUME NEW s, Becomes(c, R(s)), UNCHANGED known PROVE OneAnswer'
      <3>1. Waits(R(s), unihash'[R(s).task])
        BY SaneAt DEF Waits, Request
      <3> HIDE DEF R
      <3> QED BY <2>2, <2>4, <3>1, OneAnswerMove DEF FetchOuthash
    <2> HIDE DEF R
    <2> QED BY <2>1, <2>2, <2>3, <2>4, OneAnswerReply DEF FetchOuthash
  <1>12. ASSUME StoreUnihash(c) PROVE OneAnswer'
    <2> USE <1>12
    <2>1. req[c].row \in Task
      BY SaneAt DEF Sane, At, StoreUnihash
    <2>2. RowsStay
      BY <2>1, InsertStays DEF StoreUnihash
    <2> QED BY <2>2, OneAnswerGoto DEF StoreUnihash, Labels
  <1>13. ASSUME StoreOuthash(c) PROVE OneAnswer'
    <2> USE <1>13
    <2>1. Told(req[c].kind) => req[c].task \in Task
      BY SaneAt DEF Sane, At, StoreOuthash, Told
    <2>2. RowsStay
      BY UnchangedStays DEF StoreOuthash
    <2> QED BY <2>1, <2>2, OneAnswerReply DEF StoreOuthash
  <1>14. ASSUME RemoveRest(c) PROVE OneAnswer'
    <2>1. RowsStay
      BY <1>14, UnchangedStays DEF RemoveRest
    <2> QED BY <1>14, <2>1, OneAnswerEnd DEF RemoveRest
  <1>15. ASSUME Sweep(c) PROVE OneAnswer'
    <2>1. (IF gcmark = None THEN {} ELSE {t \in Task : mark[t] # gcmark}) \in SUBSET Task
      OBVIOUS
    <2>2. RowsStay
      BY <1>15, <2>1, DeleteStays DEF Sweep
    <2> QED BY <1>15, <2>2, OneAnswerEnd DEF Sweep
  <1>16. ASSUME InsertOuthash(c) PROVE OneAnswer'
    <2> USE <1>16
    <2>1. RowsStay
      BY UnchangedStays DEF InsertOuthash
    <2> DEFINE R(label) == [req[c] EXCEPT !.pc = label, !.at = 0]
    <2>2. PICK label \in {"equivalent", "answer"} :
              Becomes(c, R(label)) /\ (server.backend = "sqlite" => label = "equivalent")
      BY DEF InsertOuthash, SaysNew, Becomes
    <2>3. server.backend = "sqlite" => Waits(R(label), unihash'[R(label).task])
      BY <2>2, SaneAt DEF Waits, Request
    <2> HIDE DEF R
    <2> QED BY <2>1, <2>2, <2>3, OneAnswerMove DEF InsertOuthash
  <1>17. ASSUME LookupTaskhash(c) PROVE OneAnswer'
    <2> USE <1>17
    <2>1. req[c].task \in Task
      BY SaneAt DEF Sane, At, LookupTaskhash
    <2>2. RowsStay
      BY UnchangedStays DEF LookupTaskhash
    <2>3. \/ \E hash : Reply(c, hash)
          \/ Goto(c, "fetch taskhash") /\ UNCHANGED known
      BY DEF LookupTaskhash
    <2> QED BY <2>1, <2>2, <2>3, OneAnswerReply, OneAnswerGoto DEF LookupTaskhash, Labels
  <1>18. ASSUME FetchTaskhash(c) PROVE OneAnswer'
    <2> USE <1>18
    <2>1. req[c].task \in Task
      BY SaneAt DEF Sane, At, FetchTaskhash
    <2>2. RowsStay
      BY UnchangedStays DEF FetchTaskhash
    <2>3. ASSUME NEW o \in Out, Becomes(c, WithRow(c, o)), UNCHANGED known PROVE OneAnswer'
      <3>1. Waits(WithRow(c, o), unihash'[WithRow(c, o).task])
        BY SaneAt DEF WithRow, Waits, Request
      <3> QED BY <2>2, <2>3, <3>1, OneAnswerMove DEF FetchTaskhash
    <2>4. ASSUME Reply(c, None) PROVE OneAnswer'
      BY <2>1, <2>2, <2>4, OneAnswerReply DEF FetchTaskhash
    <2> QED BY <2>3, <2>4, TakesRow
  <1> QED BY <1>1, <1>2, <1>3, <1>4, <1>5, <1>6, <1>7, <1>8, <1>9, <1>10, <1>11, <1>12,
             <1>13, <1>14, <1>15, <1>16, <1>17, <1>18 DEF Steps

\* A step of none of the connections keeps it when rows stay.
LEMMA OneAnswerElsewhere ==
    ASSUME Typed, OneAnswer, server' = server, RowsStay, UNCHANGED <<agreed, req>>
    PROVE  OneAnswer'
  <1>1. ASSUME server.backend = "sqlite", NEW t \in Task \ removed', NEW hash \in agreed[t]
        PROVE  unihash'[t] = hash
    <2>1. t \notin removed /\ unihash[t] = hash
      BY <1>1 DEF OneAnswer, RowsStay
    <2>2. hash # None
      BY NoneAssumption DEF Typed, TypeOK
    <2> QED BY <2>1, <2>2 DEF RowsStay
  <1>2. ASSUME server.backend = "sqlite", NEW c \in Client, req[c].task \in Task \ removed'
        PROVE  Waits(req[c], unihash'[req[c].task])
    BY <1>2 DEF OneAnswer, RowsStay, Waits
  <1> QED BY <1>1, <1>2 DEF OneAnswer

LEMMA OneAnswerNext == Typed /\ OneAnswer /\ [Next]_vars => OneAnswer'
  <1> SUFFICES ASSUME Typed, OneAnswer, [Next]_vars PROVE OneAnswer'
    OBVIOUS
  <1>1. ASSUME NEW c \in Client, Requests(c) \/ Steps(c) PROVE OneAnswer'
    BY <1>1, RequestsOneAnswer, StepsOneAnswer
  <1>2. CASE BackfillFetch
    BY <1>2, UnchangedStays, OneAnswerElsewhere DEF BackfillFetch
  <1>3. CASE BackfillStore
    <2>1. fetched[1] \in Task
      BY <1>3 DEF BackfillStore, Typed, TypeOK
    <2>2. RowsStay
      BY <1>3, <2>1, InsertStays DEF BackfillStore
    <2> QED BY <1>3, <2>2, OneAnswerElsewhere DEF BackfillStore
  <1>4. ASSUME NEW t \in Task, NEW o \in Out, UpstreamReport(t, o) PROVE OneAnswer'
    BY <1>4, UnchangedStays, OneAnswerElsewhere DEF UpstreamReport
  <1>5. CASE UNCHANGED vars
    BY <1>5, UnchangedStays, OneAnswerElsewhere DEF vars
  <1> QED BY <1>1, <1>2, <1>3, <1>4, <1>5 DEF Next

LEMMA OneAnswerInit == Init => OneAnswer
  BY IdleWaits DEF Init, OneAnswer

\* Clients that report a task are told the same hash as long as its row is not
\* removed, with sqlite: what was answered is what the table has.
THEOREM OneHashForAll == Spec => []ReportersAgree
  <1>1. Typed /\ OneAnswer => ReportersAgree
    BY DEF OneAnswer, ReportersAgree, AlwaysAgree
  <1>2. Init => Typed /\ OneAnswer
    BY TypedInit, OneAnswerInit
  <1>3. Typed /\ OneAnswer /\ [Next]_vars => (Typed /\ OneAnswer)'
    BY TypedStep, OneAnswerNext
  <1> QED BY <1>1, <1>2, <1>3, PTL DEF Spec

-----------------------------------------------------------------------------
(* A sweep leaves what was marked                                           *)

Marked == gcmark # None => \A t \in kept : mark[t] = gcmark

LEMMA InsertMarked ==
    ASSUME Typed, Marked, NEW t \in Task, NEW hash, insert_unihash(t, hash), UNCHANGED gcmark
    PROVE  Marked'
  BY DEF Typed, TypeOK, Marked, insert_unihash

LEMMA SameMarked == ASSUME Marked, UNCHANGED <<gcmark, mark, kept>> PROVE Marked'
  BY DEF Marked

LEMMA RequestsMarked ==
    ASSUME Typed, Marked, NEW c \in Client, Requests(c)
    PROVE  Marked' /\ (gcmark' # gcmark => UNCHANGED unihash)
  <1>1. ASSUME NEW t \in Task, NEW o \in Out, NEW hash \in Task,
               Report(c, t, o, hash) \/ ReportReadonly(c, t, o, hash)
        PROVE  Marked' /\ gcmark' = gcmark
    BY <1>1, SameMarked DEF Report, ReportReadonly
  <1>2. ASSUME NEW t \in Task, NEW hash \in Task, ReportEquiv(c, t, hash)
        PROVE  Marked' /\ gcmark' = gcmark
    BY <1>2, InsertMarked DEF ReportEquiv
  <1>3. ASSUME \/ \E t \in Task : Get(c, t) \/ GetAll(c, t) \/ GetStream(c, t)
               \/ \E o \in Out, kind \in Kind : GetOuthash(c, o, kind)
               \/ \E m \in Mark : GcSweep(c, m)
               \/ CleanUnused(c)
        PROVE  Marked' /\ gcmark' = gcmark
    BY <1>3, SameMarked DEF Get, GetAll, GetStream, GetOuthash, GcSweep, CleanUnused
  <1>4. ASSUME NEW q \in Conditions, Remove(c, q)
        PROVE  Marked' /\ gcmark' = gcmark
    BY <1>4 DEF Remove, DeleteUnihashes, Marked, Typed, TypeOK
  <1>5. ASSUME NEW m \in Mark, NEW q \in Conditions, GcMark(c, m, q)
        PROVE  Marked' /\ UNCHANGED unihash
    <2> DEFINE S == {t \in UnihashesOf(q) : unihash[t] # None}
    <2>1. /\ mark' = [t \in Task |-> IF t \in S THEN m ELSE mark[t]]
          /\ kept' = IF m = gcmark THEN kept \cup S ELSE S
          /\ gcmark' = m /\ UNCHANGED unihash
      BY <1>5 DEF GcMark
    <2>2. S \subseteq Task /\ kept \subseteq Task
      BY DEF UnihashesOf, Typed, TypeOK
    <2> HIDE DEF S
    <2> QED BY <2>1, <2>2, NoneAssumption DEF Marked
  <1> QED BY <1>1, <1>2, <1>3, <1>4, <1>5 DEF Requests

LEMMA StepsMarked ==
    ASSUME Typed, Marked, NEW c \in Client, Steps(c)
    PROVE  Marked' /\ (gcmark' # gcmark => \A t \in kept : unihash'[t] = unihash[t])
  <1>1. ASSUME \/ FindEquivalent(c) \/ AskUpstreamOuthash(c) \/ AnswerFromTable(c)
               \/ AskUpstream(c) \/ Fetch(c) \/ FetchStream(c) \/ ReadEquiv(c)
               \/ LookupOuthash(c) \/ FetchOuthash(c) \/ StoreOuthash(c)
               \/ InsertOuthash(c) \/ LookupTaskhash(c) \/ FetchTaskhash(c)
        PROVE  Marked' /\ gcmark' = gcmark
    BY <1>1, SameMarked DEF FindEquivalent, AskUpstreamOuthash, AnswerFromTable, AskUpstream,
       Fetch, FetchStream, ReadEquiv, LookupOuthash, FetchOuthash, StoreOuthash, InsertOuthash,
       LookupTaskhash, FetchTaskhash
  <1>2. ASSUME \/ InsertUnihash(c) \/ StoreFetched(c) \/ StoreUnihash(c)
        PROVE  Marked' /\ gcmark' = gcmark
    <2>1. /\ InsertUnihash(c) \/ StoreFetched(c) => req[c].task \in Task
          /\ StoreUnihash(c) => req[c].row \in Task
      BY SaneAt DEF Sane, At, InsertUnihash, StoreFetched, StoreUnihash
    <2> QED BY <1>2, <2>1, InsertMarked DEF InsertUnihash, StoreFetched, StoreUnihash
  <1>3. ASSUME RemoveRest(c) PROVE Marked' /\ gcmark' = gcmark
    BY <1>3, SameMarked DEF RemoveRest
  <1>4. ASSUME Sweep(c)
        PROVE  Marked' /\ \A t \in kept : unihash'[t] = unihash[t]
    <2> DEFINE S == IF gcmark = None THEN {} ELSE {t \in Task : mark[t] # gcmark}
    <2>1. DeleteUnihashes(S)
      BY <1>4 DEF Sweep
    <2>3. \A t \in kept : t \in Task /\ t \notin S
      BY DEF Marked, Typed, TypeOK
    <2>4. \A t \in kept : unihash'[t] = unihash[t]
      BY <2>1, <2>3 DEF DeleteUnihashes
    <2>5. gcmark' = None
      BY <1>4 DEF Sweep
    <2> QED BY <2>4, <2>5 DEF Marked
  <1> QED BY <1>1, <1>2, <1>3, <1>4 DEF Steps

LEMMA MarkedNext ==
    ASSUME Typed, Marked, [Next]_vars
    PROVE  Marked' /\ (gcmark' # gcmark => \A t \in kept : unihash'[t] = unihash[t])
  <1>1. ASSUME NEW c \in Client, Requests(c) \/ Steps(c)
        PROVE  Marked' /\ (gcmark' # gcmark => \A t \in kept : unihash'[t] = unihash[t])
    BY <1>1, RequestsMarked, StepsMarked
  <1>2. CASE BackfillFetch
    BY <1>2, SameMarked DEF BackfillFetch
  <1>3. CASE BackfillStore
    <2>1. fetched[1] \in Task
      BY <1>3 DEF BackfillStore, Typed, TypeOK
    <2> QED BY <1>3, <2>1, InsertMarked DEF BackfillStore
  <1>4. ASSUME NEW t \in Task, NEW o \in Out, UpstreamReport(t, o)
        PROVE  Marked' /\ gcmark' = gcmark
    BY <1>4, SameMarked DEF UpstreamReport
  <1>5. CASE UNCHANGED vars
    BY <1>5, SameMarked DEF vars
  <1> QED BY <1>1, <1>2, <1>3, <1>4, <1>5 DEF Next

\* A sweep leaves the rows that were marked for it, and those made since.
THEOREM SweepsKeepMarked == Spec => SweepKeepsMarked
  <1>1. Init => Typed /\ Marked
    BY TypedInit DEF Init, Marked
  <1>2. Typed /\ Marked /\ [Next]_vars => (Typed /\ Marked)'
    BY TypedStep, MarkedNext
  <1>3. Typed /\ Marked /\ [Next]_vars =>
            [gcmark' # gcmark => \A t \in kept : unihash'[t] = unihash[t]]_vars
    BY MarkedNext
  <1> QED BY <1>1, <1>2, <1>3, PTL DEF Spec, SweepKeepsMarked

-----------------------------------------------------------------------------
(* One unified hash only for tasks that something connects                  *)

\* What the tables and the requests know of outputs was reported.
Backed(r) ==
    /\ r.kind \in {"report", "readonly"} => <<r.task, r.out>> \in reported
    /\ r.pc \in {"store unihash", "store outhash"} => <<r.row, r.out>> \in reported

Logged ==
    /\ \A t \in Task, o \in Out : created[t][o] # 0 \/ upCreated[t][o] # 0 => <<t, o>> \in reported
    /\ \A c \in Client : Backed(req[c])

\* With what is in the hands of a request nothing leaves S.
Within(r, S) ==
    /\ r.kind \in {"report", "readonly"} /\ r.task \in S => r.uni \in S
    /\ r.kind \in {"get", "get-stream"} => r.uni = None
    /\ r.pc \in {"insert", "store"} /\ r.task \in S => r.found \in S
    /\ r.pc \in {"store unihash", "store outhash"} /\ r.row \in S => r.found \in S

RowsWithin(S) == \A t \in S : unihash[t] \in S \cup {None}

\* The hashes of tasks in S are in S wherever they are kept or on their way.
AllWithin(S) ==
    /\ RowsWithin(S)
    /\ \A t \in S : upUnihash[t] \in S \cup {None} /\ given[t] \subseteq S
    /\ fetched # None /\ fetched[1] \in S => fetched[2] \in S
    /\ \A c \in Client : Within(req[c], S)

Connected == Logged /\ \A S \in SUBSET Task : Closed(S) => AllWithin(S)

\* A set of tasks that nothing connects with others was always such a set.
LEMMA ClosedBefore ==
    ASSUME NEW S \in SUBSET Task, Closed(S)', reported \subseteq reported', claimed \subseteq claimed'
    PROVE  Closed(S)
  BY DEF Closed

\* Outputs and claims connect tasks of S with tasks of S only.
LEMMA SharedOutput ==
    ASSUME NEW S \in SUBSET Task, Closed(S), NEW s \in Task, NEW t \in Task, NEW o \in Out,
           <<s, o>> \in reported, <<t, o>> \in reported
    PROVE  s \in S <=> t \in S
  BY DEF Closed

LEMMA InsertWithin ==
    ASSUME Typed, NEW S \in SUBSET Task, RowsWithin(S), NEW t \in Task, NEW hash,
           t \in S => hash \in S, insert_unihash(t, hash)
    PROVE  RowsWithin(S)'
  BY DEF Typed, TypeOK, RowsWithin, insert_unihash

LEMMA DeleteWithin ==
    ASSUME NEW S \in SUBSET Task, RowsWithin(S), NEW D, DeleteUnihashes(D)
    PROVE  RowsWithin(S)'
  BY DEF RowsWithin, DeleteUnihashes

LEMMA SameWithin == ASSUME NEW S, RowsWithin(S), UNCHANGED unihash PROVE RowsWithin(S)'
  BY DEF RowsWithin

\* One request moves to r, and rows change: the rest stays as it is.
LEMMA MoveWithin ==
    ASSUME Typed, NEW S \in SUBSET Task, AllWithin(S), RowsWithin(S)',
           UNCHANGED <<setup, fetched>>, NEW c \in Client, NEW r, Becomes(c, r), Within(r, S),
           \A t \in S : given'[t] \subseteq S
    PROVE  AllWithin(S)'
  <1>1. \A d \in Client : Within(req'[d], S)
    BY DEF AllWithin, Becomes, Typed, TypeOK
  <1> QED BY <1>1 DEF AllWithin, Within

LEMMA IdleWithin == ASSUME NEW S \in SUBSET Task PROVE Within(Idle, S)
  BY DEF Idle, Within

LEMMA AnswerWithin ==
    ASSUME Typed, NEW S \in SUBSET Task, AllWithin(S), RowsWithin(S)',
           UNCHANGED <<setup, fetched>>, NEW c \in Client, NEW hash, Answer(c, hash),
           req[c].task \in S => hash \in S \cup {None}
    PROVE  AllWithin(S)'
  <1>1. Becomes(c, Idle)
    BY DEF Answer, Becomes
  <1>2. \A t \in S : given'[t] \subseteq S
    BY DEF Answer, AllWithin, Typed, TypeOK
  <1> QED BY <1>1, <1>2, IdleWithin, MoveWithin

LEMMA EndWithin ==
    ASSUME Typed, NEW S \in SUBSET Task, AllWithin(S), RowsWithin(S)',
           UNCHANGED <<setup, fetched>>, NEW c \in Client, End(c)
    PROVE  AllWithin(S)'
  <1>1. Becomes(c, Idle) /\ UNCHANGED given
    BY DEF End, Becomes
  <1> QED BY <1>1, IdleWithin, MoveWithin DEF AllWithin

LEMMA ReplyWithin ==
    ASSUME Typed, NEW S \in SUBSET Task, AllWithin(S), RowsWithin(S)',
           UNCHANGED <<setup, fetched>>, NEW c \in Client, NEW hash, Reply(c, hash),
           Told(req[c].kind) /\ req[c].task \in S => hash \in S \cup {None}
    PROVE  AllWithin(S)'
  BY AnswerWithin, EndWithin DEF Reply, Told

LEMMA GotoWithin ==
    ASSUME Typed, NEW S \in SUBSET Task, AllWithin(S), RowsWithin(S)',
           UNCHANGED <<setup, fetched, given>>, NEW c \in Client,
           NEW label \in Labels \ {"insert", "store", "store unihash"}, Goto(c, label),
           label = "store outhash" => At(c, "store unihash")
    PROVE  AllWithin(S)'
  <1> DEFINE r == [req[c] EXCEPT !.pc = label]
  <1>1. Becomes(c, r)
    BY GotoBecomes DEF Typed
  <1>2. Within(r, S)
    BY SaneAt DEF AllWithin, Within, Request, At
  <1> HIDE DEF r
  <1> QED BY <1>1, <1>2, MoveWithin DEF AllWithin

LEMMA GotoWithWithin ==
    ASSUME Typed, NEW S \in SUBSET Task, AllWithin(S), RowsWithin(S)',
           UNCHANGED <<setup, fetched, given>>, NEW c \in Client,
           NEW label \in {"insert", "store"}, NEW hash \in Task, GotoWith(c, label, hash),
           req[c].task \in S => hash \in S
    PROVE  AllWithin(S)'
  <1> DEFINE r == [req[c] EXCEPT !.pc = label, !.found = hash]
  <1>1. Becomes(c, r)
    BY GotoWithBecomes DEF Typed, Labels
  <1>2. Within(r, S)
    BY SaneAt DEF AllWithin, Within, Request
  <1> HIDE DEF r
  <1> QED BY <1>1, <1>2, MoveWithin DEF AllWithin

\* The requests that begin.
LEMMA RequestsWithin ==
    ASSUME Typed, Logged, NEW S \in SUBSET Task, AllWithin(S), Closed(S)',
           NEW c \in Client, Requests(c)
    PROVE  AllWithin(S)'
  <1>0. RowsWithin(S) /\ \A t \in S : given[t] \subseteq S
    BY DEF AllWithin
  <1>1. ASSUME NEW t \in Task, NEW o \in Out, NEW hash \in Task, hash \in Own(t), 
               Report(c, t, o, hash) PROVE AllWithin(S)'
    <2> USE <1>1
    <2> DEFINE r == [Idle EXCEPT !.kind = "report", !.task = t, !.out = o, !.uni = hash,
                               !.at = clock + 1, !.pc = "report"]
    <2>1. Becomes(c, r)
      BY DEF Report, Begin, Becomes
    <2>2. RowsWithin(S)'
      BY <1>0, SameWithin DEF Report
    <2>3. Within(r, S)
      BY <1>0 DEF Idle, Within, Own
    <2> HIDE DEF r
    <2> QED BY <1>0, <2>1, <2>2, <2>3, MoveWithin DEF Report
  <1>2. ASSUME NEW t \in Task, NEW o \in Out, NEW hash \in Task, hash \in Own(t), 
               ReportReadonly(c, t, o, hash) PROVE AllWithin(S)'
    <2> USE <1>2
    <2> DEFINE r == [Idle EXCEPT !.kind = "readonly", !.task = t, !.out = o, !.uni = hash,
                               !.pc = "by outhash"]
    <2>1. Becomes(c, r)
      BY DEF ReportReadonly, Begin, Becomes
    <2>2. RowsWithin(S)'
      BY <1>0, SameWithin DEF ReportReadonly
    <2>3. Within(r, S)
      BY <1>0 DEF Idle, Within, Own
    <2> HIDE DEF r
    <2> QED BY <1>0, <2>1, <2>2, <2>3, MoveWithin DEF ReportReadonly
  <1>3. ASSUME NEW t \in Task, NEW hash \in Task, ReportEquiv(c, t, hash) PROVE AllWithin(S)'
    <2> USE <1>3
    <2> DEFINE r == [Idle EXCEPT !.kind = "report-equiv", !.task = t, !.uni = hash,
                               !.pc = "read equiv"]
    <2>1. Becomes(c, r)
      BY DEF ReportEquiv, Begin, Becomes
    <2>4. <<t, hash>> \in claimed'
      BY DEF ReportEquiv
    <2>5. t \in S => hash \in S
      BY <2>4 DEF Closed
    <2>2. RowsWithin(S)'
      BY <1>0, <2>5, InsertWithin DEF ReportEquiv
    <2>3. Within(r, S)
      BY DEF Idle, Within
    <2> HIDE DEF r
    <2> QED BY <1>0, <2>1, <2>2, <2>3, MoveWithin DEF ReportEquiv
  <1>4. ASSUME NEW t \in Task, Get(c, t) PROVE AllWithin(S)'
    <2> USE <1>4
    <2> DEFINE r == [Idle EXCEPT !.kind = "get", !.task = t, !.pc = "answer"]
    <2>1. Becomes(c, r)
      BY DEF Get, Begin, Becomes
    <2>2. RowsWithin(S)'
      BY <1>0, SameWithin DEF Get
    <2>3. Within(r, S)
      BY DEF Idle, Within
    <2> HIDE DEF r
    <2> QED BY <1>0, <2>1, <2>2, <2>3, MoveWithin DEF Get
  <1>5. ASSUME NEW t \in Task, GetStream(c, t) PROVE AllWithin(S)'
    <2> USE <1>5
    <2> DEFINE r == [Idle EXCEPT !.kind = "get-stream", !.task = t, !.pc = "answer"]
    <2>1. Becomes(c, r)
      BY DEF GetStream, Begin, Becomes
    <2>2. RowsWithin(S)'
      BY <1>0, SameWithin DEF GetStream
    <2>3. Within(r, S)
      BY DEF Idle, Within
    <2> HIDE DEF r
    <2> QED BY <1>0, <2>1, <2>2, <2>3, MoveWithin DEF GetStream
  <1>6. ASSUME NEW o \in Out, NEW kind \in Kind, GetOuthash(c, o, kind) PROVE AllWithin(S)'
    <2> USE <1>6
    <2>0. kind \in {"get-outhash", "get-row"}
      BY <1>6 DEF GetOuthash
    <2> DEFINE r == [Idle EXCEPT !.kind = kind, !.out = o, !.pc = "by outhash"]
    <2>1. Becomes(c, r)
      BY DEF GetOuthash, Begin, Becomes
    <2>2. RowsWithin(S)'
      BY <1>0, SameWithin DEF GetOuthash
    <2>3. Within(r, S)
      BY <2>0 DEF Idle, Within
    <2> HIDE DEF r
    <2> QED BY <1>0, <2>1, <2>2, <2>3, MoveWithin DEF GetOuthash
  <1>7. ASSUME NEW q \in Conditions, Remove(c, q) PROVE AllWithin(S)'
    <2> USE <1>7
    <2> DEFINE r == IF server.backend = "sqlite" THEN Idle ELSE [q EXCEPT !.pc = "remove rest"]
    <2>1. Becomes(c, r)
      BY DEF Remove, Begin, Becomes
    <2>2. RowsWithin(S)'
      BY <1>0, DeleteWithin DEF Remove
    <2>3. q \in Request /\ q.kind = "remove"
      BY ConditionsTyped DEF Conditions, Idle
    <2>4. Within(r, S)
      BY <2>3, IdleWithin DEF Within, Request
    <2> HIDE DEF r
    <2> QED BY <1>0, <2>1, <2>2, <2>4, MoveWithin DEF Remove
  <1>8. ASSUME NEW m \in Mark, NEW q \in Conditions, GcMark(c, m, q) PROVE AllWithin(S)'
    <2> USE <1>8
    <2>1. Becomes(c, Idle)
      BY DEF GcMark, Begin, Becomes
    <2>2. RowsWithin(S)'
      BY <1>0, SameWithin DEF GcMark
    <2> QED BY <1>0, <2>1, <2>2, IdleWithin, MoveWithin DEF GcMark
  <1>9. ASSUME NEW m \in Mark, GcSweep(c, m) PROVE AllWithin(S)'
    <2> USE <1>9
    <2> DEFINE r == IF m = gcmark
                    THEN [Idle EXCEPT !.kind = "gc-sweep", !.pc = "sweep"] ELSE Idle
    <2>1. Becomes(c, r)
      BY DEF GcSweep, Begin, Becomes
    <2>2. RowsWithin(S)'
      BY <1>0, SameWithin DEF GcSweep
    <2>3. Within(r, S)
      BY DEF Idle, Within
    <2> HIDE DEF r
    <2> QED BY <1>0, <2>1, <2>2, <2>3, MoveWithin DEF GcSweep
  <1>10. ASSUME CleanUnused(c) PROVE AllWithin(S)'
    <2> USE <1>10
    <2>1. Becomes(c, Idle)
      BY DEF CleanUnused, Begin, Becomes
    <2>2. RowsWithin(S)'
      BY <1>0, SameWithin DEF CleanUnused
    <2> QED BY <1>0, <2>1, <2>2, IdleWithin, MoveWithin DEF CleanUnused
  <1>11. ASSUME NEW t \in Task, GetAll(c, t) PROVE AllWithin(S)'
    <2> USE <1>11
    <2> DEFINE r == [Idle EXCEPT !.kind = "get-all", !.task = t, !.pc = "by taskhash"]
    <2>1. Becomes(c, r)
      BY DEF GetAll, Begin, Becomes
    <2>2. RowsWithin(S)'
      BY <1>0, SameWithin DEF GetAll
    <2>3. Within(r, S)
      BY DEF Idle, Within
    <2> HIDE DEF r
    <2> QED BY <1>0, <2>1, <2>2, <2>3, MoveWithin DEF GetAll
  <1> QED BY <1>1, <1>2, <1>3, <1>4, <1>5, <1>6, <1>7, <1>8, <1>9, <1>10, <1>11 DEF Requests

\* A request goes on with the hash of a row whose task has the same output.
LEMMA JoinedWithin ==
    ASSUME Typed, Logged, NEW S \in SUBSET Task, AllWithin(S), Closed(S),
           NEW t \in Task, NEW o \in Out, <<t, o>> \in reported, NEW s
    PROVE  /\ s \in Joined(created, unihash, o) /\ t \in S => unihash[s] \in S
           /\ s \in Joined(upCreated, upUnihash, o) /\ t \in S => upUnihash[s] \in S
  <1>1. s \in Joined(created, unihash, o) \/ s \in Joined(upCreated, upUnihash, o)
            => s \in Task /\ <<s, o>> \in reported
    BY DEF Joined, Logged
  <1>2. s \in Joined(created, unihash, o) \/ s \in Joined(upCreated, upUnihash, o)
            => (t \in S <=> s \in S)
    BY <1>1, SharedOutput
  <1> QED BY <1>1, <1>2 DEF Joined, AllWithin, RowsWithin

\* The steps of requests.
LEMMA StepsWithin ==
    ASSUME Typed, Logged, NEW S \in SUBSET Task, AllWithin(S), Closed(S),
           NEW c \in Client, Steps(c)
    PROVE  AllWithin(S)'
  <1>0. RowsWithin(S) /\ \A t \in S : given[t] \subseteq S
    BY DEF AllWithin
  <1>w. Within(req[c], S) /\ Backed(req[c]) /\ req[c] \in Request /\ Sane(req[c])
    BY SaneAt DEF AllWithin, Logged
  <1>1. ASSUME FindEquivalent(c) PROVE AllWithin(S)'
    <2> USE <1>1
    <2>1. /\ req[c].task \in Task /\ req[c].out \in Out /\ req[c].uni \in Task
          /\ req[c].kind = "report"
      BY <1>w DEF Sane, At, FindEquivalent
    <2>2. <<req[c].task, req[c].out>> \in reported
      BY <1>w, <2>1 DEF Backed
    <2>3. RowsWithin(S)'
      BY <1>0, SameWithin DEF FindEquivalent, tables
    <2>4. CASE \E hash \in Task : GotoWith(c, "insert", hash)
                                  /\ (req[c].task \in S => hash \in S)
      BY <2>3, <2>4, GotoWithWithin DEF FindEquivalent, known
    <2>5. CASE Goto(c, "upstream outhash")
      BY <2>3, <2>5, GotoWithin DEF FindEquivalent, known, Labels
    <2>6. req[c].task \in S => req[c].uni \in S
      BY <1>w, <2>1 DEF Within
    <2>7. ASSUME NEW s \in Joined(created, unihash, req[c].out) \ {req[c].task}
          PROVE  unihash[s] \in Task /\ (req[c].task \in S => unihash[s] \in S)
      <3>1. unihash[s] \in Task
        BY DEF Joined, Typed, TypeOK
      <3> QED BY <2>1, <2>2, <3>1, JoinedWithin
    <2> QED BY <2>1, <2>4, <2>5, <2>6, <2>7 DEF FindEquivalent, Oldest
  <1>2. ASSUME AskUpstreamOuthash(c) PROVE AllWithin(S)'
    <2> USE <1>2
    <2>1. /\ req[c].task \in Task /\ req[c].out \in Out /\ req[c].uni \in Task
          /\ req[c].kind = "report"
      BY <1>w DEF Sane, At, AskUpstreamOuthash
    <2>2. <<req[c].task, req[c].out>> \in reported
      BY <1>w, <2>1 DEF Backed
    <2>3. RowsWithin(S)'
      BY <1>0, SameWithin DEF AskUpstreamOuthash, tables
    <2>4. CASE \E hash \in Task : GotoWith(c, "insert", hash)
                                  /\ (req[c].task \in S => hash \in S)
      BY <2>3, <2>4, GotoWithWithin DEF AskUpstreamOuthash, known
    <2>6. req[c].task \in S => req[c].uni \in S
      BY <1>w, <2>1 DEF Within
    <2>7. ASSUME NEW s \in Joined(upCreated, upUnihash, req[c].out)
          PROVE  upUnihash[s] \in Task /\ (req[c].task \in S => upUnihash[s] \in S)
      <3>1. upUnihash[s] \in Task
        BY DEF Joined, Typed, TypeOK
      <3> QED BY <2>1, <2>2, <3>1, JoinedWithin
    <2> QED BY <2>1, <2>4, <2>6, <2>7 DEF AskUpstreamOuthash, Oldest
  <1>3. ASSUME InsertUnihash(c) PROVE AllWithin(S)'
    <2> USE <1>3
    <2>1. req[c].task \in Task /\ (req[c].task \in S => req[c].found \in S)
      BY <1>w DEF Sane, At, Within, InsertUnihash
    <2>2. RowsWithin(S)'
      BY <1>0, <2>1, InsertWithin DEF InsertUnihash
    <2> QED BY <2>2, GotoWithin DEF InsertUnihash, known, Labels
  <1>4. ASSUME AnswerFromTable(c) PROVE AllWithin(S)'
    <2> USE <1>4
    <2>1. /\ req[c].task \in Task /\ req[c].kind \in {"report", "get", "get-stream"}
          /\ req[c].uni \in Task \cup {None}
      BY <1>w DEF Sane, At, AnswerFromTable, Request
    <2>2. RowsWithin(S)'
      BY <1>0, SameWithin DEF AnswerFromTable, tables
    <2>3. CASE unihash[req[c].task] # None
      BY <1>0, <2>2, <2>3, AnswerWithin DEF AnswerFromTable, RowsWithin
    <2>4. CASE unihash[req[c].task] = None /\ req[c].kind = "report"
      BY <1>w, <2>2, <2>4, AnswerWithin DEF AnswerFromTable, Within
    <2>5. CASE unihash[req[c].task] = None /\ req[c].kind # "report"
      <3>1. req[c].uni = None
        BY <1>w, <2>1, <2>5 DEF Within
      <3> QED BY <2>2, <2>5, <3>1, AnswerWithin DEF AnswerFromTable
    <2> QED BY <2>3, <2>4, <2>5
  <1>5. ASSUME AskUpstream(c) PROVE AllWithin(S)'
    <2>1. RowsWithin(S)'
      BY <1>0, <1>5, SameWithin DEF AskUpstream, tables
    <2> QED BY <1>5, <2>1, GotoWithin DEF AskUpstream, known, Labels
  <1>6. ASSUME Fetch(c) PROVE AllWithin(S)'
    <2> USE <1>6
    <2>1. req[c].task \in Task
      BY <1>w DEF Sane, At, Fetch
    <2>2. RowsWithin(S)'
      BY <1>0, SameWithin DEF Fetch, tables
    <2> DEFINE hash == upUnihash[req[c].task]
    <2>3. hash # None => hash \in Task /\ (req[c].task \in S => hash \in S)
      BY <2>1 DEF Typed, TypeOK, AllWithin
    <2>4. (hash # None /\ GotoWith(c, "store", hash) /\ UNCHANGED known) \/ End(c)
      BY DEF Fetch
    <2> HIDE DEF hash
    <2> QED BY <2>2, <2>3, <2>4, GotoWithWithin, EndWithin DEF Fetch, known
  <1>7. ASSUME StoreFetched(c) PROVE AllWithin(S)'
    <2> USE <1>7
    <2>1. req[c].task \in Task /\ (req[c].task \in S => req[c].found \in S)
      BY <1>w DEF Sane, At, Within, StoreFetched
    <2>2. RowsWithin(S)'
      BY <1>0, <2>1, InsertWithin DEF StoreFetched
    <2> QED BY <2>1, <2>2, AnswerWithin DEF StoreFetched
  <1>8. ASSUME FetchStream(c) PROVE AllWithin(S)'
    <2> USE <1>8
    <2>1. RowsWithin(S)'
      BY <1>0, SameWithin DEF FetchStream, tables
    <2>2. req[c].task \in S => upUnihash[req[c].task] \in S \cup {None}
      BY DEF AllWithin
    <2> QED BY <2>1, <2>2, AnswerWithin DEF FetchStream
  <1>9. ASSUME ReadEquiv(c) PROVE AllWithin(S)'
    <2> USE <1>9
    <2>1. RowsWithin(S)'
      BY <1>0, SameWithin DEF ReadEquiv, tables
    <2>2. req[c].task \in S => unihash[req[c].task] \in S \cup {None}
      BY <1>0 DEF RowsWithin
    <2> QED BY <2>1, <2>2, AnswerWithin, EndWithin DEF ReadEquiv, queue
  <1>10. ASSUME LookupOuthash(c) PROVE AllWithin(S)'
    <2> USE <1>10
    <2>1. /\ req[c].out \in Out /\ req[c].kind \in {"readonly", "get-outhash", "get-row"}
          /\ req[c].kind = "readonly" => req[c].task \in Task /\ req[c].uni \in Task
      BY <1>w DEF Sane, At, LookupOuthash
    <2>2. RowsWithin(S)'
      BY <1>0, SameWithin DEF LookupOuthash, tables
    <2>3. CASE \E hash : Reply(c, hash)
                  /\ (Told(req[c].kind) /\ req[c].task \in S => hash \in S \cup {None})
      BY <2>2, <2>3, ReplyWithin DEF LookupOuthash, queue
    <2>4. CASE Goto(c, "fetch outhash") /\ UNCHANGED known
      BY <2>2, <2>4, GotoWithin DEF LookupOuthash, known, queue, Labels
    <2>5. Told(req[c].kind) /\ req[c].task \in S => req[c].uni \in S
      BY <1>w, <2>1 DEF Within, Told
    <2>6. ASSUME NEW s \in Matching(req[c].kind, req[c].out)
          PROVE  Told(req[c].kind) /\ req[c].task \in S => unihash[s] \in S
      <3> SUFFICES ASSUME Told(req[c].kind), req[c].task \in S PROVE unihash[s] \in S
        OBVIOUS
      <3>1. req[c].kind = "readonly" /\ s \in Joined(created, unihash, req[c].out)
        BY <2>1, <2>6 DEF Told, Matching
      <3> QED BY <1>w, <2>1, <3>1, JoinedWithin DEF Backed
    <2> QED BY <2>3, <2>4, <2>5, <2>6 DEF LookupOuthash, Oldest
  <1>11. ASSUME FetchOuthash(c) PROVE AllWithin(S)'
    <2> USE <1>11
    <2>1. /\ req[c].out \in Out /\ req[c].kind \in {"readonly", "get-outhash", "get-row"}
          /\ req[c].kind = "readonly" => req[c].task \in Task /\ req[c].uni \in Task
      BY <1>w DEF Sane, At, FetchOuthash
    <2>2. RowsWithin(S)'
      BY <1>0, SameWithin DEF FetchOuthash, tables
    <2>3. CASE Reply(c, req[c].uni)
      <3>1. Told(req[c].kind) /\ req[c].task \in S => req[c].uni \in S
        BY <1>w, <2>1 DEF Within, Told
      <3> QED BY <2>2, <2>3, <3>1, ReplyWithin DEF FetchOuthash, queue
    <2>4. ASSUME NEW s \in Joined(upCreated, upUnihash, req[c].out),
                 req' = [req EXCEPT ![c].pc = "store unihash", ![c].row = s,
                           ![c].found = upUnihash[s], ![c].at = upCreated[s][req[c].out]],
                 UNCHANGED known
          PROVE  AllWithin(S)'
      <3> DEFINE r == [req[c] EXCEPT !.pc = "store unihash", !.row = s,
                                  !.found = upUnihash[s], !.at = upCreated[s][req[c].out]]
      <3>1. Becomes(c, r)
        BY <2>4 DEF Becomes
      <3>2. s \in S => upUnihash[s] \in S
        BY DEF AllWithin, Joined
      <3>3. Within(r, S)
        BY <1>w, <3>2 DEF Within, Request
      <3> HIDE DEF r
      <3> QED BY <1>0, <2>2, <2>4, <3>1, <3>3, MoveWithin DEF FetchOuthash, known, queue
    <2> QED BY <2>3, <2>4 DEF FetchOuthash, Oldest
  <1>12. ASSUME StoreUnihash(c) PROVE AllWithin(S)'
    <2> USE <1>12
    <2>1. req[c].row \in Task /\ (req[c].row \in S => req[c].found \in S)
      BY <1>w DEF Sane, At, Within, StoreUnihash
    <2>2. RowsWithin(S)'
      BY <1>0, <2>1, InsertWithin DEF StoreUnihash
    <2> QED BY <2>2, GotoWithin DEF StoreUnihash, known, queue, Labels
  <1>13. ASSUME StoreOuthash(c) PROVE AllWithin(S)'
    <2> USE <1>13
    <2>1. /\ req[c].pc = "store outhash" /\ req[c].out \in Out /\ req[c].row \in Task
          /\ req[c].kind = "readonly" => req[c].task \in Task
          /\ req[c].kind = "get-all" => req[c].row = req[c].task
      BY <1>w DEF Sane, At, StoreOuthash
    <2>2. RowsWithin(S)'
      BY <1>0, SameWithin DEF StoreOuthash
    <2>3. req[c].row \in S => req[c].found \in S
      BY <1>w, <2>1 DEF Within
    <2>4. Told(req[c].kind) => (req[c].row \in S <=> req[c].task \in S)
      BY <1>w, <2>1, SharedOutput DEF Backed, Told
    <2> QED BY <2>2, <2>3, <2>4, ReplyWithin DEF StoreOuthash, queue
  <1>14. ASSUME RemoveRest(c) PROVE AllWithin(S)'
    <2>1. RowsWithin(S)'
      BY <1>0, <1>14, SameWithin DEF RemoveRest
    <2> QED BY <1>14, <2>1, EndWithin DEF RemoveRest, queue
  <1>15. ASSUME Sweep(c) PROVE AllWithin(S)'
    <2>1. RowsWithin(S)'
      BY <1>0, <1>15, DeleteWithin DEF Sweep
    <2> QED BY <1>15, <2>1, EndWithin DEF Sweep, queue
  <1>16. ASSUME InsertOuthash(c) PROVE AllWithin(S)'
    <2> USE <1>16
    <2> DEFINE label == IF SaysNew(req[c].task, req[c].out) THEN "equivalent" ELSE "answer"
               r == [req[c] EXCEPT !.pc = label, !.at = 0]
    <2>1. Becomes(c, r)
      BY DEF InsertOuthash, Becomes
    <2>2. label \in {"equivalent", "answer"}
      OBVIOUS
    <2> HIDE DEF label
    <2>3. RowsWithin(S)'
      BY <1>0, SameWithin DEF InsertOuthash
    <2>4. Within(r, S)
      BY <1>w, <2>2 DEF Within, Request
    <2> HIDE DEF r
    <2> QED BY <1>0, <2>1, <2>3, <2>4, MoveWithin DEF InsertOuthash
  <1>17. ASSUME LookupTaskhash(c) PROVE AllWithin(S)'
    <2> USE <1>17
    <2>1. RowsWithin(S)'
      BY <1>0, SameWithin DEF LookupTaskhash
    <2>2. req[c].task \in S => unihash[req[c].task] \in S \cup {None}
      BY <1>0 DEF RowsWithin
    <2>3. CASE Goto(c, "fetch taskhash") /\ UNCHANGED known
      BY <2>1, <2>3, GotoWithin DEF LookupTaskhash, Labels
    <2>4. CASE Reply(c, unihash[req[c].task]) \/ Reply(c, None)
      BY <2>1, <2>2, <2>4, ReplyWithin DEF LookupTaskhash
    <2> QED BY <2>3, <2>4 DEF LookupTaskhash
  <1>18. ASSUME FetchTaskhash(c) PROVE AllWithin(S)'
    <2> USE <1>18
    <2>1. RowsWithin(S)'
      BY <1>0, SameWithin DEF FetchTaskhash
    <2>2. CASE Reply(c, None)
      BY <2>1, <2>2, ReplyWithin DEF FetchTaskhash
    <2>3. ASSUME NEW o \in Out, req[c].task \in Joined(upCreated, upUnihash, o),
                 Becomes(c, WithRow(c, o)), UNCHANGED known
          PROVE  AllWithin(S)'
      <3>2. req[c].task \in S => upUnihash[req[c].task] \in S
        BY <2>3 DEF AllWithin, Joined
      <3>3. Within(WithRow(c, o), S)
        BY <1>w, <3>2 DEF WithRow, Within, Request
      <3> QED BY <1>0, <2>1, <2>3, <3>3, MoveWithin DEF FetchTaskhash
    <2> QED BY <2>2, <2>3, TakesRow
  <1> QED BY <1>1, <1>2, <1>3, <1>4, <1>5, <1>6, <1>7, <1>8, <1>9, <1>10, <1>11, <1>12,
             <1>13, <1>14, <1>15, <1>16, <1>17, <1>18 DEF Steps

\* What is in the tables or in the hands of a request was reported: one request
\* moves, and of the outputs only reported ones get a row.
LEMMA LoggedMove ==
    ASSUME Typed, Logged, NEW c \in Client, NEW r, Becomes(c, r), UNCHANGED upCreated,
           r.kind \in {"report", "readonly"} => <<r.task, r.out>> \in reported',
           r.pc \in {"store unihash", "store outhash"} => <<r.row, r.out>> \in reported',
           reported \subseteq reported',
           \A t \in Task, o \in Out : created'[t][o] # 0 => created[t][o] # 0
                                                   \/ <<t, o>> \in reported'
    PROVE  Logged'
  <1>1. \A d \in Client : Backed(req[d])'
    BY DEF Logged, Backed, Becomes, Typed, TypeOK
  <1> QED BY <1>1 DEF Logged

LEMMA SameOuthashes ==
    ASSUME UNCHANGED created
    PROVE  \A t \in Task, o \in Out : created'[t][o] # 0 => created[t][o] # 0
                                                   \/ <<t, o>> \in reported'
  OBVIOUS

LEMMA LoggedIdle ==
    ASSUME Typed, Logged, NEW c \in Client, Becomes(c, Idle), UNCHANGED <<upCreated, reported>>,
           \A t \in Task, o \in Out : created'[t][o] # 0 => created[t][o] # 0
                                                   \/ <<t, o>> \in reported'
    PROVE  Logged'
  <1>1. Idle.kind = "none" /\ Idle.pc = "idle"
    BY DEF Idle
  <1> QED BY <1>1, LoggedMove

LEMMA LoggedGoto ==
    ASSUME Typed, Logged, NEW c \in Client, UNCHANGED <<upCreated, reported, created>>,
           NEW label \in Labels \ {"store unihash"}, Goto(c, label),
           label = "store outhash" => At(c, "store unihash")
    PROVE  Logged'
  <1> DEFINE r == [req[c] EXCEPT !.pc = label]
  <1>1. Backed(req[c]) /\ req[c] \in Request
    BY SaneAt DEF Logged
  <1>2. Becomes(c, r)
    BY GotoBecomes DEF Typed
  <1>3. Backed(r)
    BY <1>1 DEF Backed, Request, At
  <1> HIDE DEF r
  <1> QED BY <1>2, <1>3, SameOuthashes, LoggedMove DEF Backed

LEMMA LoggedGotoWith ==
    ASSUME Typed, Logged, NEW c \in Client, UNCHANGED <<upCreated, reported, created>>,
           NEW label \in {"insert", "store"}, NEW hash \in Task, GotoWith(c, label, hash)
    PROVE  Logged'
  <1> DEFINE r == [req[c] EXCEPT !.pc = label, !.found = hash]
  <1>1. Backed(req[c]) /\ req[c] \in Request
    BY SaneAt DEF Logged
  <1>2. Becomes(c, r)
    BY GotoWithBecomes DEF Typed, Labels
  <1>3. Backed(r)
    BY <1>1 DEF Backed, Request
  <1> HIDE DEF r
  <1> QED BY <1>2, <1>3, SameOuthashes, LoggedMove DEF Backed

LEMMA RequestsLogged ==
    ASSUME Typed, Logged, NEW c \in Client, Requests(c)
    PROVE  Logged' /\ reported \subseteq reported' /\ claimed \subseteq claimed'
  <1>1. ASSUME NEW t \in Task, NEW o \in Out, NEW hash \in Task, Report(c, t, o, hash)
        PROVE  Logged' /\ reported \subseteq reported' /\ claimed \subseteq claimed'
    <2> USE <1>1
    <2> DEFINE r == [Idle EXCEPT !.kind = "report", !.task = t, !.out = o, !.uni = hash,
                               !.at = clock + 1, !.pc = "report"]
    <2>1. Becomes(c, r)
      BY DEF Report, Begin, Becomes
    <2>2. r.task = t /\ r.out = o /\ r.pc = "report"
      BY DEF Idle
    <2> HIDE DEF r
    <2> QED BY <2>1, <2>2, SameOuthashes, LoggedMove DEF Report
  <1>2. ASSUME NEW t \in Task, NEW o \in Out, NEW hash \in Task, ReportReadonly(c, t, o, hash)
        PROVE  Logged' /\ reported \subseteq reported' /\ claimed \subseteq claimed'
    <2> USE <1>2
    <2> DEFINE r == [Idle EXCEPT !.kind = "readonly", !.task = t, !.out = o, !.uni = hash,
                               !.pc = "by outhash"]
    <2>1. Becomes(c, r)
      BY DEF ReportReadonly, Begin, Becomes
    <2>2. r.task = t /\ r.out = o /\ r.pc = "by outhash"
      BY DEF Idle
    <2> HIDE DEF r
    <2> QED BY <2>1, <2>2, SameOuthashes, LoggedMove DEF ReportReadonly, setup, tables
  <1>4. ASSUME NEW t \in Task, NEW hash \in Task, ReportEquiv(c, t, hash)
        PROVE  Logged' /\ reported \subseteq reported' /\ claimed \subseteq claimed'
    <2> USE <1>4
    <2> DEFINE r == [Idle EXCEPT !.kind = "report-equiv", !.task = t, !.uni = hash,
                               !.pc = "read equiv"]
    <2>1. Becomes(c, r)
      BY DEF ReportEquiv, Begin, Becomes
    <2>2. r.kind = "report-equiv" /\ r.pc = "read equiv"
      BY DEF Idle
    <2> HIDE DEF r
    <2> QED BY <2>1, <2>2, SameOuthashes, LoggedMove DEF ReportEquiv, setup
  <1>5. ASSUME NEW t \in Task, Get(c, t) \/ GetStream(c, t)
        PROVE  Logged' /\ reported \subseteq reported' /\ claimed \subseteq claimed'
    <2> DEFINE r(kind) == [Idle EXCEPT !.kind = kind, !.task = t, !.pc = "answer"]
    <2>1. Becomes(c, r("get")) \/ Becomes(c, r("get-stream"))
      BY <1>5 DEF Get, GetStream, Begin, Becomes
    <2>2. /\ r("get").kind = "get" /\ r("get").pc = "answer"
          /\ r("get-stream").kind = "get-stream" /\ r("get-stream").pc = "answer"
      BY DEF Idle
    <2> HIDE DEF r
    <2> QED BY <1>5, <2>1, <2>2, SameOuthashes, LoggedMove
            DEF Get, GetStream, setup, tables, history
  <1>6. ASSUME NEW o \in Out, NEW kind \in Kind, GetOuthash(c, o, kind)
        PROVE  Logged' /\ reported \subseteq reported' /\ claimed \subseteq claimed'
    <2>0. kind \in {"get-outhash", "get-row"}
      BY <1>6 DEF GetOuthash
    <2> DEFINE r == [Idle EXCEPT !.kind = kind, !.out = o, !.pc = "by outhash"]
    <2>1. Becomes(c, r)
      BY <1>6 DEF GetOuthash, Begin, Becomes
    <2>2. r.kind \in {"get-outhash", "get-row"} /\ r.pc = "by outhash"
      BY <2>0 DEF Idle
    <2> HIDE DEF r
    <2> QED BY <1>6, <2>1, <2>2, SameOuthashes, LoggedMove DEF GetOuthash, setup, tables, history
  <1>7. ASSUME NEW q \in Conditions, Remove(c, q)
        PROVE  Logged' /\ reported \subseteq reported' /\ claimed \subseteq claimed'
    <2> USE <1>7
    <2> DEFINE r == IF server.backend = "sqlite" THEN Idle ELSE [q EXCEPT !.pc = "remove rest"]
    <2>1. Becomes(c, r)
      BY DEF Remove, Begin, Becomes
    <2>2. q \in Request /\ q.kind = "remove"
      BY ConditionsTyped DEF Conditions, Idle
    <2>3. r.kind \in {"none", "remove"} /\ r.pc \in {"idle", "remove rest"}
      BY <2>2 DEF Idle, Request
    <2>4. \A t \in Task, o \in Out : created'[t][o] # 0 => created[t][o] # 0
      BY DEF Remove, DeleteOuthashes
    <2> HIDE DEF r
    <2> QED BY <2>1, <2>3, <2>4, LoggedMove DEF Remove, setup, history
  <1>8. ASSUME NEW m \in Mark, NEW q \in Conditions, GcMark(c, m, q)
        PROVE  Logged' /\ reported \subseteq reported' /\ claimed \subseteq claimed'
    <2>1. Becomes(c, Idle)
      BY <1>8 DEF GcMark, Begin, Becomes
    <2> QED BY <1>8, <2>1, SameOuthashes, LoggedIdle DEF GcMark, setup, history
  <1>9. ASSUME NEW m \in Mark, GcSweep(c, m)
        PROVE  Logged' /\ reported \subseteq reported' /\ claimed \subseteq claimed'
    <2> DEFINE r == IF m = gcmark
                    THEN [Idle EXCEPT !.kind = "gc-sweep", !.pc = "sweep"] ELSE Idle
    <2>1. Becomes(c, r)
      BY <1>9 DEF GcSweep, Begin, Becomes
    <2>2. r.kind \in {"gc-sweep", "none"} /\ r.pc \in {"sweep", "idle"}
      BY DEF Idle
    <2> HIDE DEF r
    <2> QED BY <1>9, <2>1, <2>2, SameOuthashes, LoggedMove DEF GcSweep, setup, tables, history
  <1>10. ASSUME CleanUnused(c)
         PROVE  Logged' /\ reported \subseteq reported' /\ claimed \subseteq claimed'
    <2> USE <1>10
    <2>1. Becomes(c, Idle)
      BY DEF CleanUnused, Begin, Becomes
    <2>2. \A t \in Task, o \in Out : created'[t][o] # 0 => created[t][o] # 0
      BY DEF CleanUnused, DeleteOuthashes
    <2> QED BY <2>1, <2>2, LoggedIdle DEF CleanUnused, setup, history
  <1>11. ASSUME NEW t \in Task, GetAll(c, t)
         PROVE  Logged' /\ reported \subseteq reported' /\ claimed \subseteq claimed'
    <2> DEFINE r == [Idle EXCEPT !.kind = "get-all", !.task = t, !.pc = "by taskhash"]
    <2>1. Becomes(c, r)
      BY <1>11 DEF GetAll, Begin, Becomes
    <2>2. r.kind = "get-all" /\ r.pc = "by taskhash"
      BY DEF Idle
    <2> HIDE DEF r
    <2> QED BY <1>11, <2>1, <2>2, SameOuthashes, LoggedMove DEF GetAll
  <1> QED BY <1>1, <1>2, <1>4, <1>5, <1>6, <1>7, <1>8, <1>9, <1>10, <1>11 DEF Requests

LEMMA LoggedEnd ==
    ASSUME Typed, Logged, NEW c \in Client, UNCHANGED <<upCreated, reported, created>>,
           End(c) \/ (\E hash : Answer(c, hash)) \/ (\E hash : Reply(c, hash))
    PROVE  Logged'
  <1>1. Becomes(c, Idle)
    BY DEF End, Answer, Reply, Becomes
  <1> QED BY <1>1, SameOuthashes, LoggedIdle

LEMMA StepsLogged ==
    ASSUME Typed, Logged, NEW c \in Client, Steps(c)
    PROVE  Logged' /\ UNCHANGED history
  <1>1. ASSUME FindEquivalent(c) \/ AskUpstreamOuthash(c) \/ InsertUnihash(c)
        PROVE  Logged' /\ UNCHANGED history
    <2>1. req[c].uni \in Task \/ InsertUnihash(c)
      BY <1>1, SaneAt DEF Sane, At, FindEquivalent, AskUpstreamOuthash
    <2>2. /\ \A s \in Joined(created, unihash, req[c].out) : unihash[s] \in Task
          /\ \A s \in Joined(upCreated, upUnihash, req[c].out) : upUnihash[s] \in Task
      BY DEF Joined, Typed, TypeOK
    <2>3. \/ \E label \in {"upstream outhash", "answer"} : Goto(c, label)
          \/ \E hash \in Task : GotoWith(c, "insert", hash)
      BY <1>1, <2>1, <2>2 DEF FindEquivalent, AskUpstreamOuthash, InsertUnihash, Oldest
    <2>4. UNCHANGED <<upCreated, reported, created>> /\ UNCHANGED history
      BY <1>1 DEF FindEquivalent, AskUpstreamOuthash, InsertUnihash, tables, setup, history
    <2>5. ASSUME NEW label \in {"upstream outhash", "answer"}, Goto(c, label) PROVE Logged'
      BY <2>4, <2>5, LoggedGoto DEF Labels
    <2>6. ASSUME NEW hash \in Task, GotoWith(c, "insert", hash) PROVE Logged'
      BY <2>4, <2>6, LoggedGotoWith
    <2> QED BY <2>3, <2>4, <2>5, <2>6
  <1>2. ASSUME AnswerFromTable(c) \/ StoreFetched(c) \/ FetchStream(c) \/ ReadEquiv(c)
        PROVE  Logged' /\ UNCHANGED history
    BY <1>2, LoggedEnd DEF AnswerFromTable, StoreFetched, FetchStream, ReadEquiv, tables,
       setup, history
  <1>3. ASSUME AskUpstream(c) PROVE Logged' /\ UNCHANGED history
    <2>1. UNCHANGED <<upCreated, reported, created>> /\ UNCHANGED history
      BY <1>3 DEF AskUpstream, tables, setup, history
    <2> QED BY <1>3, <2>1, LoggedGoto DEF AskUpstream, Labels
  <1>4. ASSUME Fetch(c) PROVE Logged' /\ UNCHANGED history
    <2>1. upUnihash[req[c].task] \in Task \cup {None}
      BY <1>4, SaneAt DEF Sane, At, Fetch, Typed, TypeOK
    <2>2. UNCHANGED <<upCreated, reported, created>> /\ UNCHANGED history
      BY <1>4 DEF Fetch, tables, setup, history
    <2>3. (\E hash \in Task : GotoWith(c, "store", hash)) \/ End(c)
      BY <1>4, <2>1 DEF Fetch
    <2> QED BY <2>2, <2>3, LoggedGotoWith, LoggedEnd
  <1>5. ASSUME LookupOuthash(c) PROVE Logged' /\ UNCHANGED history
    <2>1. UNCHANGED <<upCreated, reported, created>> /\ UNCHANGED history
      BY <1>5 DEF LookupOuthash, tables, setup, history
    <2>2. (\E hash : Reply(c, hash)) \/ Goto(c, "fetch outhash")
      BY <1>5 DEF LookupOuthash
    <2> QED BY <2>1, <2>2, LoggedGoto, LoggedEnd DEF Labels
  <1>6. ASSUME FetchOuthash(c) PROVE Logged' /\ UNCHANGED history
    <2>1. CASE Reply(c, req[c].uni)
      BY <1>6, <2>1, LoggedEnd DEF FetchOuthash, tables, setup, history
    <2>2. ASSUME NEW s \in Joined(upCreated, upUnihash, req[c].out),
                 req' = [req EXCEPT ![c].pc = "store unihash", ![c].row = s,
                           ![c].found = upUnihash[s], ![c].at = upCreated[s][req[c].out]]
          PROVE  Logged' /\ UNCHANGED history
      <3> DEFINE r == [req[c] EXCEPT !.pc = "store unihash", !.row = s,
                                  !.found = upUnihash[s], !.at = upCreated[s][req[c].out]]
      <3>1. Becomes(c, r)
        BY <2>2 DEF Becomes
      <3>2. r.kind = req[c].kind /\ r.task = req[c].task /\ r.out = req[c].out /\ r.row = s
        BY SaneAt DEF Request
      <3>3. req[c].out \in Out
        BY <1>6, SaneAt DEF Sane, At, FetchOuthash
      <3>4. <<s, req[c].out>> \in reported
        BY <3>3 DEF Joined, Logged
      <3>5. r.kind \in {"report", "readonly"} => <<r.task, r.out>> \in reported
        BY <3>2 DEF Logged, Backed
      <3>6. UNCHANGED <<upCreated, reported, created>> /\ UNCHANGED history
        BY <1>6 DEF FetchOuthash, tables, setup, history
      <3> HIDE DEF r
      <3> QED BY <3>1, <3>2, <3>4, <3>5, <3>6, SameOuthashes, LoggedMove
    <2> QED BY <1>6, <2>1, <2>2 DEF FetchOuthash, Oldest
  <1>7. ASSUME StoreUnihash(c) PROVE Logged' /\ UNCHANGED history
    BY <1>7, LoggedGoto DEF StoreUnihash, setup, history, Labels
  <1>8. ASSUME StoreOuthash(c) PROVE Logged' /\ UNCHANGED history
    <2>1. Becomes(c, Idle)
      BY <1>8 DEF StoreOuthash, Reply, Answer, End, Becomes
    <2>2. <<req[c].row, req[c].out>> \in reported
      BY <1>8 DEF StoreOuthash, At, Logged, Backed
    <2>3. \A t \in Task, o \in Out : created'[t][o] # 0 => created[t][o] # 0
                                                   \/ <<t, o>> \in reported
      BY <1>8, <2>2 DEF StoreOuthash, insert_outhash, Typed, TypeOK
    <2> QED BY <1>8, <2>1, <2>3, LoggedIdle DEF StoreOuthash, setup, history
  <1>9. ASSUME RemoveRest(c) PROVE Logged' /\ UNCHANGED history
    <2>1. Becomes(c, Idle)
      BY <1>9 DEF RemoveRest, End, Becomes
    <2>2. \A t \in Task, o \in Out : created'[t][o] # 0 => created[t][o] # 0
      BY <1>9 DEF RemoveRest, DeleteOuthashes
    <2> QED BY <1>9, <2>1, <2>2, LoggedIdle DEF RemoveRest, setup, history
  <1>10. ASSUME Sweep(c) PROVE Logged' /\ UNCHANGED history
    BY <1>10, LoggedEnd DEF Sweep, setup, history
  <1>11. ASSUME InsertOuthash(c) PROVE Logged' /\ UNCHANGED history
    <2> USE <1>11
    <2> DEFINE label == IF SaysNew(req[c].task, req[c].out) THEN "equivalent" ELSE "answer"
               r == [req[c] EXCEPT !.pc = label, !.at = 0]
    <2>1. Becomes(c, r)
      BY DEF InsertOuthash, Becomes
    <2>2. req[c].kind = "report"
      BY SaneAt DEF Sane, At, InsertOuthash
    <2>3. <<req[c].task, req[c].out>> \in reported
      BY <2>2 DEF Logged, Backed
    <2>4. label \in {"equivalent", "answer"}
      OBVIOUS
    <2> HIDE DEF label
    <2>5. r.task = req[c].task /\ r.out = req[c].out /\ r.pc \in {"equivalent", "answer"}
      BY <2>4, SaneAt DEF Request
    <2>6. \A t \in Task, o \in Out : created'[t][o] # 0 => created[t][o] # 0
                                                   \/ <<t, o>> \in reported
      BY <2>3 DEF InsertOuthash, insert_outhash, Typed, TypeOK
    <2> HIDE DEF r
    <2> QED BY <2>1, <2>3, <2>5, <2>6, LoggedMove DEF InsertOuthash
  <1>12. ASSUME LookupTaskhash(c) PROVE Logged' /\ UNCHANGED history
    <2>1. UNCHANGED <<upCreated, reported, created>> /\ UNCHANGED history
      BY <1>12 DEF LookupTaskhash
    <2>2. (\E hash : Reply(c, hash)) \/ Goto(c, "fetch taskhash")
      BY <1>12 DEF LookupTaskhash
    <2> QED BY <2>1, <2>2, LoggedGoto, LoggedEnd DEF Labels
  <1>13. ASSUME FetchTaskhash(c) PROVE Logged' /\ UNCHANGED history
    <2>0. UNCHANGED <<upCreated, reported, created>> /\ UNCHANGED history
      BY <1>13 DEF FetchTaskhash
    <2>1. CASE Reply(c, None)
      BY <2>0, <2>1, LoggedEnd
    <2>2. ASSUME NEW o \in Out, req[c].task \in Joined(upCreated, upUnihash, o),
                 Becomes(c, WithRow(c, o))
          PROVE  Logged' /\ UNCHANGED history
      <3> DEFINE r == WithRow(c, o)
      <3>2. r.task = req[c].task /\ r.out = o /\ r.row = req[c].task
        BY SaneAt DEF WithRow, Request
      <3>3. <<req[c].task, o>> \in reported
        BY <2>2 DEF Joined, Logged
      <3> HIDE DEF r
      <3>4. Becomes(c, r)
        BY <2>2 DEF r
      <3> QED BY <2>0, <3>2, <3>3, <3>4, SameOuthashes, LoggedMove
    <2> QED BY <1>13, <2>1, <2>2, TakesRow
  <1> QED BY <1>1, <1>2, <1>3, <1>4, <1>5, <1>6, <1>7, <1>8, <1>9, <1>10, <1>11, <1>12,
             <1>13 DEF Steps

\* The set S stays closed to hashes in the steps of no connection.
LEMMA ElsewhereWithin ==
    ASSUME NEW S \in SUBSET Task, AllWithin(S), RowsWithin(S)', UNCHANGED <<given, req>>,
           \A t \in S : upUnihash'[t] \in S \cup {None},
           fetched' # None /\ fetched'[1] \in S => fetched'[2] \in S
    PROVE  AllWithin(S)'
  BY DEF AllWithin, Within

LEMMA ConnectedNext == Typed /\ Connected /\ [Next]_vars => Connected'
  <1> SUFFICES ASSUME Typed, Connected, [Next]_vars PROVE Connected'
    OBVIOUS
  <1>0. Logged
    BY DEF Connected
  <1>1. ASSUME NEW c \in Client, Requests(c) PROVE Connected'
    <2>1. Logged' /\ reported \subseteq reported' /\ claimed \subseteq claimed'
      BY <1>0, <1>1, RequestsLogged
    <2>2. ASSUME NEW S \in SUBSET Task, Closed(S)' PROVE AllWithin(S)'
      BY <1>0, <1>1, <2>1, <2>2, ClosedBefore, RequestsWithin DEF Connected
    <2> QED BY <2>1, <2>2 DEF Connected
  <1>2. ASSUME NEW c \in Client, Steps(c) PROVE Connected'
    <2>1. Logged' /\ UNCHANGED history
      BY <1>0, <1>2, StepsLogged
    <2>2. ASSUME NEW S \in SUBSET Task, Closed(S)' PROVE AllWithin(S)'
      <3>1. Closed(S)
        BY <2>1, <2>2, ClosedBefore DEF history
      <3> QED BY <1>0, <1>2, <3>1, StepsWithin DEF Connected
    <2> QED BY <2>1, <2>2 DEF Connected
  <1>3. CASE BackfillFetch
    <2>1. Logged' /\ UNCHANGED history
      BY <1>0, <1>3 DEF BackfillFetch, Logged, Backed, tables, setup, history
    <2>2. ASSUME NEW S \in SUBSET Task, Closed(S)' PROVE AllWithin(S)'
      <3>1. AllWithin(S)
        BY <2>1, <2>2, ClosedBefore DEF Connected, history
      <3>2. RowsWithin(S)'
        BY <1>3, <3>1, SameWithin DEF BackfillFetch, AllWithin, tables
      <3>3. \A t \in S : upUnihash'[t] \in S \cup {None}
        BY <1>3, <3>1 DEF BackfillFetch, AllWithin, setup
      <3>4. fetched' # None /\ fetched'[1] \in S => fetched'[2] \in S
        BY <1>3, <3>1 DEF BackfillFetch, AllWithin
      <3> QED BY <1>3, <3>1, <3>2, <3>3, <3>4, ElsewhereWithin DEF BackfillFetch, known
    <2> QED BY <2>1, <2>2 DEF Connected
  <1>4. CASE BackfillStore
    <2>1. Logged' /\ UNCHANGED history
      BY <1>0, <1>4 DEF BackfillStore, Logged, Backed, setup, history
    <2>2. ASSUME NEW S \in SUBSET Task, Closed(S)' PROVE AllWithin(S)'
      <3>1. AllWithin(S)
        BY <2>1, <2>2, ClosedBefore DEF Connected, history
      <3>2. fetched[1] \in Task /\ (fetched[1] \in S => fetched[2] \in S)
        BY <1>4, <3>1 DEF BackfillStore, AllWithin, Typed, TypeOK
      <3>3. RowsWithin(S)'
        BY <1>4, <3>1, <3>2, InsertWithin DEF BackfillStore, AllWithin
      <3>4. \A t \in S : upUnihash'[t] \in S \cup {None}
        BY <1>4, <3>1 DEF BackfillStore, AllWithin, setup
      <3> QED BY <1>4, <3>1, <3>3, <3>4, ElsewhereWithin DEF BackfillStore, known
    <2> QED BY <2>1, <2>2 DEF Connected
  <1>5. ASSUME NEW t \in Task, NEW o \in Out, UpstreamReport(t, o) PROVE Connected'
    <2> USE <1>5
    <2>1. reported' = reported \cup {<<t, o>>} /\ UNCHANGED <<claimed, created, req>>
      BY DEF UpstreamReport
    <2>2. \A q \in Task, p \in Out : upCreated'[q][p] # 0 => upCreated[q][p] # 0
                                                   \/ <<q, p>> \in reported'
      BY <2>1 DEF UpstreamReport, Typed, TypeOK
    <2>3. Logged'
      BY <1>0, <2>1, <2>2 DEF Logged, Backed
    <2>4. ASSUME NEW S \in SUBSET Task, Closed(S)' PROVE AllWithin(S)'
      <3>1. Closed(S) /\ AllWithin(S)
        BY <2>1, <2>4, ClosedBefore DEF Connected
      <3>2. \A s \in Joined(upCreated, upUnihash, o) : t \in S => upUnihash[s] \in S
        <4> SUFFICES ASSUME NEW s \in Joined(upCreated, upUnihash, o), t \in S
                     PROVE  upUnihash[s] \in S
          OBVIOUS
        <4>1. s \in Task /\ <<s, o>> \in reported' /\ <<t, o>> \in reported'
          BY <1>0, <2>1 DEF Joined, Logged
        <4>2. s \in S
          BY <2>4, <4>1 DEF Closed
        <4> QED BY <3>1, <4>2 DEF AllWithin, Joined
      <3>3. \A q \in S : upUnihash'[q] \in S \cup {None}
        BY <3>1, <3>2 DEF UpstreamReport, AllWithin, Oldest, Typed, TypeOK
      <3>4. RowsWithin(S)'
        BY <3>1, SameWithin DEF UpstreamReport, AllWithin
      <3>5. fetched' # None /\ fetched'[1] \in S => fetched'[2] \in S
        BY <3>1 DEF UpstreamReport, queue, AllWithin
      <3> QED BY <3>1, <3>3, <3>4, <3>5, ElsewhereWithin DEF UpstreamReport, known
    <2> QED BY <2>3, <2>4 DEF Connected
  <1>6. CASE UNCHANGED vars
    <2>1. UNCHANGED <<reported, claimed, created, upCreated, req, unihash, upUnihash, given, fetched>>
      BY <1>6 DEF vars, tables, setup, queue, known, history
    <2>2. Logged'
      BY <1>0, <2>1 DEF Logged, Backed
    <2>3. ASSUME NEW S \in SUBSET Task, Closed(S)' PROVE AllWithin(S)'
      <3>1. AllWithin(S)
        BY <2>1, <2>3, ClosedBefore DEF Connected
      <3> QED BY <2>1, <3>1 DEF AllWithin, RowsWithin, Within
    <2> QED BY <2>2, <2>3 DEF Connected
  <1> QED BY <1>1, <1>2, <1>3, <1>4, <1>5, <1>6 DEF Next

LEMMA ConnectedInit == Init => Connected
  <1> SUFFICES ASSUME Init PROVE Connected
    OBVIOUS
  <1>1. Logged
    BY DEF Init, Logged, Backed, Idle
  <1>2. ASSUME NEW S \in SUBSET Task PROVE AllWithin(S)
    BY IdleWithin DEF Init, AllWithin, RowsWithin
  <1> QED BY <1>1, <1>2 DEF Connected

\* Two tasks have one unified hash only when a chain of equal outputs and claims
\* connects them: no lookup, collection, upstream answer or backfill mixes others.
THEOREM OnlyConnected == Spec => []SoundEquivalence
  <1>1. Connected => SoundEquivalence
    BY DEF Connected, SoundEquivalence, AllWithin, RowsWithin
  <1>2. Init => Typed /\ Connected
    BY TypedInit, ConnectedInit
  <1>3. Typed /\ Connected /\ [Next]_vars => (Typed /\ Connected)'
    BY TypedStep, ConnectedNext
  <1> QED BY <1>1, <1>2, <1>3, PTL DEF Spec

=============================================================================
