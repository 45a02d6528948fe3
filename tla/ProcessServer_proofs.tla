-------------------------- MODULE ProcessServer_proofs --------------------------
(****************************************************************************)
(* Theorems about ProcessServer, for any number of commands and servers and *)
(* any number of processes that are killed.                                 *)
(****************************************************************************)
EXTENDS ProcessServer, SequenceTheorems, TLAPS

USE DEF None, Stale, Gone, Term

-----------------------------------------------------------------------------
(* Types.                                                                   *)

LEMMA Predecessor ==
  ASSUME NEW n \in Nat, n > 0 PROVE n - 1 \in Nat /\ (n # 1 => n - 1 > 0)
  OBVIOUS

LEMMA FaultTyped == faults \in Nat /\ Fault => faults' \in Nat
  BY Predecessor DEF Fault

\* A client that has not given up has a retry, and one that waits for a server has one.
Waiting == {"parent", "ready", "reply", "served"}
Requested ==
    \A c \in Client : /\ pc[c] # "gave up" => retries[c] > 0
                      /\ pc[c] \in Waiting => srv[c] \in Server
Typed == TypeOK /\ Requested

Conns == Seq(Client \cup {Gone})

LEMMA HungType == ASSUME NEW conns \in Conns, NEW c \in Client PROVE Hung(conns, c) \in Conns
<1>1. \A i \in 1..Len(conns) : conns[i] \in Client \cup {Gone}
  BY DEF Conns
<1>2. Hung(conns, c) = [i \in 1..Len(conns) |-> IF conns[i] = c THEN Gone ELSE conns[i]]
  BY DEF Hung, Conns
<1>3. Hung(conns, c) \in [1..Len(conns) -> Client \cup {Gone}] /\ Len(conns) \in Nat
  BY <1>1, <1>2 DEF Conns
<1> QED
  BY <1>3, IsASeq DEF Conns

LEMMA HangUpType ==
  ASSUME TypeOK, NEW c \in Client, NEW as \in {Gone, Term}, HangUp(c, as)
  PROVE  /\ backlog' \in [Server -> Conns]
         /\ newconns' \in [Server -> Conns]
         /\ ctrl' \in [Server -> Client \cup {None, Gone, Term}]
         /\ UNCHANGED <<haveui, hadanyui, broken>>
<1>1. \A s \in Server : backlog[s] \in Conns /\ newconns[s] \in Conns
  BY DEF TypeOK, Conns
<1>2. \A s \in Server : Hung(backlog[s], c) \in Conns /\ Hung(newconns[s], c) \in Conns
  BY <1>1, HungType
<1>3. \A s \in Server : (IF ctrl[s] = c THEN as ELSE ctrl[s]) \in Client \cup {None, Gone, Term}
  BY DEF TypeOK
<1> QED
  BY <1>2, <1>3 DEF HangUp

LEMMA InitTyped == Init => Typed
<1> SUFFICES ASSUME Init PROVE Typed
  OBVIOUS
<1>1. <<>> \in Seq(Client \cup {Gone})
  OBVIOUS
<1>2. PICK setting \in Settings :
          /\ kind = setting.kind
          /\ timeout = setting.timeout
          /\ faults = setting.faults
          /\ sock = setting.sock
          /\ retries = [c \in Client |-> setting.retries]
  BY DEF Init
<1>3. /\ setting.kind \in [Client -> Kind] /\ setting.timeout \in Timeout
      /\ setting.faults \in Nat /\ setting.retries \in Nat \ {0} /\ setting.sock \in {None, Stale}
  BY SettingsAssumption
<1> QED
  BY <1>1, <1>2, <1>3 DEF Init, Typed, TypeOK, Requested, Waiting, ClientPc, ServerPc

\* A client goes on, and its retries and its server stay right.
LEMMA ClientTyped ==
  ASSUME Typed, NEW c \in Client,
         pc' \in [Client -> ClientPc], retries' \in [Client -> Nat],
         srv' \in [Client -> Server \cup {None}],
         \A d \in Client \ {c} : pc'[d] = pc[d] /\ retries'[d] = retries[d] /\ srv'[d] = srv[d],
         pc'[c] # "gave up" => retries'[c] > 0,
         pc'[c] \in Waiting => srv'[c] \in Server
  PROVE  Requested'
<1> SUFFICES ASSUME NEW d \in Client
             PROVE  /\ pc'[d] # "gave up" => retries'[d] > 0
                    /\ pc'[d] \in Waiting => srv'[d] \in Server
  BY DEF Requested
<1>1. CASE d = c
  BY <1>1
<1>2. CASE d # c
  BY <1>2 DEF Typed, Requested
<1> QED
  BY <1>1, <1>2

LEMMA RetryTyped ==
  ASSUME Typed, NEW c \in Client, pc[c] # "gave up", Retry(c)
  PROVE  /\ pc' \in [Client -> ClientPc] /\ retries' \in [Client -> Nat]
         /\ srv' \in [Client -> Server \cup {None}] /\ told' \subseteq Client
         /\ Requested'
         /\ srv'[c] = None /\ pc'[c] \in {"lock", "gave up"}
         /\ \A d \in Client \ {c} : pc'[d] = pc[d] /\ srv'[d] = srv[d]
<1>1. retries[c] \in Nat /\ retries[c] > 0
  BY DEF Typed, TypeOK, Requested
<1>2. /\ retries' = [retries EXCEPT ![c] = retries[c] - 1] /\ retries[c] - 1 \in Nat
      /\ srv' = [srv EXCEPT ![c] = None] /\ told' = told \ {c}
      /\ \/ pc' = [pc EXCEPT ![c] = "gave up"]
         \/ retries[c] - 1 > 0 /\ pc' = [pc EXCEPT ![c] = "lock"]
  <2>1. /\ retries' = [retries EXCEPT ![c] = retries[c] - 1]
        /\ srv' = [srv EXCEPT ![c] = None] /\ told' = told \ {c}
    BY DEF Retry
  <2>2. retries[c] - 1 \in Nat /\ (retries[c] # 1 => retries[c] - 1 > 0)
    BY <1>1, Predecessor
  <2>3. /\ retries[c] = 1 => pc' = [pc EXCEPT ![c] = "gave up"]
        /\ retries[c] # 1 => pc' = [pc EXCEPT ![c] = "lock"]
    BY DEF Retry, Goto
  <2> QED
    BY <2>1, <2>2, <2>3
<1>3. /\ pc' \in [Client -> ClientPc] /\ retries' \in [Client -> Nat]
      /\ srv' \in [Client -> Server \cup {None}] /\ told' \subseteq Client
  BY <1>2 DEF Typed, TypeOK, ClientPc
<1>4. /\ srv'[c] = None /\ pc'[c] \in {"lock", "gave up"}
      /\ \A d \in Client \ {c} : pc'[d] = pc[d] /\ srv'[d] = srv[d] /\ retries'[d] = retries[d]
      /\ pc'[c] # "gave up" => retries'[c] > 0
  BY <1>2 DEF Typed, TypeOK
<1>5. Requested'
  BY <1>3, <1>4, ClientTyped DEF Waiting
<1> QED
  BY <1>3, <1>4, <1>5

LEMMA EndTyped ==
  ASSUME Typed, NEW c \in Client, pc[c] # "gave up", End(c, "done")
  PROVE  /\ pc' \in [Client -> ClientPc] /\ retries' \in [Client -> Nat]
         /\ srv' \in [Client -> Server \cup {None}] /\ told' \subseteq Client
         /\ Requested'
         /\ srv'[c] = None /\ pc'[c] = "done"
         /\ \A d \in Client \ {c} : pc'[d] = pc[d] /\ srv'[d] = srv[d]
<1>1. /\ retries' = retries /\ srv' = [srv EXCEPT ![c] = None] /\ told' = told \ {c}
      /\ pc' = [pc EXCEPT ![c] = "done"]
  BY DEF End, Goto
<1>2. /\ pc' \in [Client -> ClientPc] /\ retries' \in [Client -> Nat]
      /\ srv' \in [Client -> Server \cup {None}] /\ told' \subseteq Client
  BY <1>1 DEF Typed, TypeOK, ClientPc
<1>3. /\ srv'[c] = None /\ pc'[c] = "done"
      /\ \A d \in Client \ {c} : pc'[d] = pc[d] /\ srv'[d] = srv[d] /\ retries'[d] = retries[d]
      /\ retries'[c] > 0
  BY <1>1 DEF Typed, TypeOK, Requested
<1>4. Requested'
  BY <1>2, <1>3, ClientTyped DEF Waiting
<1> QED
  BY <1>2, <1>3, <1>4

LEMMA GotoTyped ==
  ASSUME Typed, NEW c \in Client, NEW label \in ClientPc, pc[c] # "gave up",
         Goto(c, label), UNCHANGED retries, srv' \in [Client -> Server \cup {None}],
         \A d \in Client \ {c} : srv'[d] = srv[d],
         label \in Waiting => srv'[c] \in Server
  PROVE  /\ pc' \in [Client -> ClientPc] /\ retries' \in [Client -> Nat]
         /\ Requested'
         /\ pc'[c] = label
         /\ \A d \in Client \ {c} : pc'[d] = pc[d]
<1>1. pc' = [pc EXCEPT ![c] = label]
  BY DEF Goto
<1>2. /\ pc' \in [Client -> ClientPc] /\ retries' \in [Client -> Nat] /\ pc'[c] = label
      /\ \A d \in Client \ {c} : pc'[d] = pc[d] /\ retries'[d] = retries[d]
      /\ retries'[c] > 0
  BY <1>1 DEF Typed, TypeOK, Requested
<1>3. Requested'
  BY <1>2, ClientTyped
<1> QED
  BY <1>2, <1>3

LEMMA DiesTyped ==
  ASSUME TypeOK, NEW s \in Server, Dies(s)
  PROVE  /\ spc' \in [Server -> ServerPc] /\ lockers' \subseteq Client \cup Server
         /\ sock' \in Server \cup {None, Stale}
         /\ backlog' \in [Server -> Conns] /\ newconns' \in [Server -> Conns]
         /\ ctrl' \in [Server -> Client \cup {None, Gone, Term}]
         /\ haveui' \in [Server -> BOOLEAN] /\ hadanyui' \in [Server -> BOOLEAN]
         /\ broken' \subseteq Server
<1>1. <<>> \in Conns
  BY DEF Conns
<1>2. backlog \in [Server -> Conns] /\ newconns \in [Server -> Conns]
  BY DEF TypeOK, Conns
<1> QED
  BY <1>1, <1>2 DEF Dies, ServerGoto, TypeOK, ServerPc

LEMMA TypedStep == Typed /\ [Next]_vars => Typed'
<1> SUFFICES ASSUME Typed, [Next]_vars PROVE Typed'
  OBVIOUS
<1>0. TypeOK /\ Requested
  BY DEF Typed
<1>c. backlog \in [Server -> Conns] /\ newconns \in [Server -> Conns]
  BY <1>0 DEF TypeOK, Conns
<1> DEFINE RestOK == /\ kind \in [Client -> Kind] /\ timeout \in Timeout
                     /\ lockers \subseteq Client \cup Server
                     /\ spc \in [Server -> ServerPc]
                     /\ sock \in Server \cup {None, Stale} /\ faults \in Nat
                     /\ litter \in BOOLEAN
           ConnOK == /\ backlog \in [Server -> Conns] /\ newconns \in [Server -> Conns]
                     /\ ctrl \in [Server -> Client \cup {None, Gone, Term}]
                     /\ haveui \in [Server -> BOOLEAN] /\ hadanyui \in [Server -> BOOLEAN]
                     /\ broken \subseteq Server
           ClientOK == /\ pc \in [Client -> ClientPc] /\ retries \in [Client -> Nat]
                       /\ srv \in [Client -> Server \cup {None}] /\ told \subseteq Client
                       /\ Requested
<1>d. RestOK /\ ConnOK /\ ClientOK
  BY <1>0, <1>c DEF TypeOK
<1>e. RestOK' /\ ConnOK' /\ ClientOK' => Typed'
  BY DEF Typed, TypeOK, Conns
<1>f. UNCHANGED <<pc, retries, srv, told>> => ClientOK'
  BY <1>d DEF Requested
<1>g. UNCHANGED <<backlog, newconns, ctrl, haveui, hadanyui, broken>> => ConnOK'
  BY <1>d
<1> USE DEF Rigid, Clients, Connections
<1>1. ASSUME NEW c \in Client, Begin(c) PROVE Typed'
  <2>1. ClientOK'
    BY <1>1, <1>0, <1>d, GotoTyped DEF Begin, ClientPc, Waiting
  <2> QED
    BY <1>1, <2>1, <1>d, <1>e, <1>g DEF Begin
<1>2. ASSUME NEW c \in Client, lockBitbake(c) PROVE Typed'
  <2>1. ClientOK'
    BY <1>2, <1>0, <1>d, GotoTyped DEF lockBitbake, ClientPc, Waiting
  <2> QED
    BY <1>2, <2>1, <1>d, <1>e, <1>g DEF lockBitbake
<1>3. ASSUME NEW c \in Client, NoServer(c) PROVE Typed'
  <2>1. ClientOK'
    BY <1>3, EndTyped DEF NoServer
  <2> QED
    BY <1>3, <2>1, <1>d, <1>e, <1>g DEF NoServer
<1>4. ASSUME NEW c \in Client, Fork(c) PROVE Typed'
  <2>1. PICK s \in Free : /\ srv' = [srv EXCEPT ![c] = s]
                          /\ ServerGoto(s, "forked")
                          /\ lockers' = lockers \cup {s}
    BY <1>4 DEF Fork
  <2>2. s \in Server
    BY <2>1 DEF Free
  <2>3. /\ srv' \in [Client -> Server \cup {None}] /\ srv'[c] \in Server
        /\ \A d \in Client \ {c} : srv'[d] = srv[d]
    BY <2>1, <2>2, <1>d
  <2>4. ClientOK'
    BY <1>4, <2>3, <1>d, GotoTyped DEF Fork, ClientPc
  <2>5. /\ spc' \in [Server -> ServerPc] /\ lockers' \subseteq Client \cup Server
        /\ UNCHANGED <<kind, timeout, sock, faults, litter>>
    BY <1>4, <2>1, <2>2, <1>d DEF Fork, ServerGoto, ServerPc
  <2>6. RestOK'
    BY <2>5, <1>d
  <2>7. ConnOK'
    BY <1>4, <1>g DEF Fork
  <2> QED
    BY <2>4, <2>6, <2>7, <1>e
<1>5. ASSUME NEW c \in Client, CloseLock(c) PROVE Typed'
  <2>1. srv[c] \in Server
    BY <1>5, <1>0 DEF CloseLock, Requested, Waiting
  <2>2. ClientOK'
    BY <1>5, <2>1, <1>d, GotoTyped DEF CloseLock, ClientPc
  <2> QED
    BY <1>5, <2>2, <1>d, <1>e, <1>g DEF CloseLock
<1>6. ASSUME NEW c \in Client, Ready(c) PROVE Typed'
  <2>1. CASE kind[c] = "server only"
    <3>1. ClientOK'
      BY <1>6, <2>1, EndTyped DEF Ready
    <3> QED
      BY <1>6, <3>1, <1>d, <1>e, <1>g DEF Ready
  <2>2. CASE kind[c] # "server only"
    <3>1. ClientOK'
      BY <1>6, <2>2, <1>d, GotoTyped DEF Ready, ClientPc, Waiting
    <3> QED
      BY <1>6, <3>1, <1>d, <1>e, <1>g DEF Ready
  <2> QED
    BY <2>1, <2>2
<1>7. ASSUME NEW c \in Client, NotReady(c) \/ ReadyLate(c) \/ PollOver(c) PROVE Typed'
  <2>1. ClientOK'
    BY <1>7, RetryTyped DEF NotReady, ReadyLate, PollOver
  <2> QED
    BY <1>7, <2>1, <1>d, <1>e, <1>g DEF NotReady, ReadyLate, PollOver
<1>8. ASSUME NEW c \in Client, Reconnect(c) PROVE Typed'
  <2>1. CASE sock # None /\ kind[c] = "server only"
    <3>1. ClientOK'
      BY <1>8, <2>1, EndTyped DEF Reconnect
    <3> QED
      BY <1>8, <3>1, <1>d, <1>e, <1>g DEF Reconnect
  <2>2. CASE ~(sock # None /\ kind[c] = "server only")
    <3>1. PICK label \in {"poll", "connect"} : Goto(c, label) /\ UNCHANGED <<retries, srv, told>>
      BY <1>8, <2>2 DEF Reconnect
    <3>2. ClientOK'
      BY <1>8, <3>1, <1>d, GotoTyped DEF Reconnect, ClientPc, Waiting
    <3> QED
      BY <1>8, <3>2, <1>d, <1>e, <1>g DEF Reconnect
  <2> QED
    BY <2>1, <2>2
<1>9. ASSUME NEW c \in Client, Poll(c) PROVE Typed'
  <2>1. ClientOK'
    BY <1>9, <1>d, GotoTyped DEF Poll, ClientPc, Waiting
  <2> QED
    BY <1>9, <2>1, <1>d, <1>e, <1>g DEF Poll
<1>10. ASSUME NEW c \in Client, Polled(c) \/ BacklogFull(c) \/ Refused(c) PROVE Typed'
  <2>1. ClientOK'
    BY <1>10, RetryTyped DEF Polled, BacklogFull, Refused
  <2> QED
    BY <1>10, <2>1, <1>d, <1>e, <1>g DEF Polled, BacklogFull, Refused
<1>11. ASSUME NEW c \in Client, Connect(c) PROVE Typed'
  <2>1. CASE sock \in Listening
    <3>1. sock \in Server
      BY <2>1 DEF Listening
    <3>2. /\ srv' = [srv EXCEPT ![c] = sock] /\ Goto(c, "reply") /\ pc[c] = "connect"
          /\ UNCHANGED <<retries, told>>
          /\ backlog' = [backlog EXCEPT ![sock] = Append(backlog[sock], c)]
      BY <1>11, <2>1 DEF Connect
    <3>3. ClientOK'
      BY <3>1, <3>2, <1>d, GotoTyped DEF ClientPc
    <3>4. Append(backlog[sock], c) \in Conns
      BY <3>1, <1>c DEF Conns
    <3>5. backlog' \in [Server -> Conns]
      BY <3>1, <3>2, <3>4, <1>c
    <3> QED
      BY <1>11, <3>3, <3>5, <1>d, <1>e DEF Connect
  <2>2. CASE sock \notin Listening
    <3>1. ClientOK'
      BY <1>11, <2>2, RetryTyped DEF Connect
    <3> QED
      BY <1>11, <2>2, <3>1, <1>d, <1>e, <1>g DEF Connect
  <2> QED
    BY <2>1, <2>2
<1>12. ASSUME NEW c \in Client, ReplyLate(c) PROVE Typed'
  <2>1. ClientOK'
    BY <1>12, RetryTyped DEF ReplyLate
  <2>2. ConnOK'
    BY <1>12, <1>0, <1>d, HangUpType DEF ReplyLate
  <2> QED
    BY <1>12, <2>1, <2>2, <1>d, <1>e DEF ReplyLate
<1>13. ASSUME NEW c \in Client, Finish(c) PROVE Typed'
  <2>1. ClientOK'
    BY <1>13, EndTyped DEF Finish
  <2>2. ConnOK'
    BY <1>13, <1>0, <1>d, HangUpType DEF Finish
  <2> QED
    BY <1>13, <2>1, <2>2, <1>d, <1>e DEF Finish
<1>14. ASSUME NEW c \in Client, Kill(c) PROVE Typed'
  <2>1. ClientOK'
    BY <1>14, EndTyped DEF Kill
  <2>2. ConnOK'
    BY <1>14, <1>0, <1>d, HangUpType DEF Kill
  <2> QED
    BY <1>14, <2>1, <2>2, <1>d, <1>e, FaultTyped DEF Kill
<1>15. ASSUME NEW s \in Server, RemoveSocket(s) \/ Bind(s) PROVE Typed'
  BY <1>15, <1>d, <1>e, <1>f, <1>g DEF RemoveSocket, Bind, ServerGoto, ServerPc
<1>16. ASSUME NEW s \in Server, Started(s) PROVE Typed'
  <2>0. Starters(s) \subseteq Client
    BY DEF Starters
  <2>1. ClientOK'
    BY <1>16, <2>0, <1>d DEF Started, Requested
  <2> QED
    BY <1>16, <2>1, <1>d, <1>e, <1>g DEF Started, ServerGoto, ServerPc
<1>17. ASSUME NEW s \in Server, Accept(s) PROVE Typed'
  <2>1. /\ backlog[s] \in Seq(Client \cup {Gone}) /\ newconns[s] \in Seq(Client \cup {Gone})
        /\ backlog[s] # <<>>
    BY <1>17, <1>c DEF Accept, Conns
  <2>2. Head(backlog[s]) \in Client \cup {Gone} /\ Tail(backlog[s]) \in Conns
    BY <2>1 DEF Conns
  <2>3. Append(newconns[s], Head(backlog[s])) \in Conns
    BY <2>1, <2>2 DEF Conns
  <2>4. /\ backlog' = [backlog EXCEPT ![s] = Tail(backlog[s])]
        /\ \/ ctrl' = [ctrl EXCEPT ![s] = Head(backlog[s])] /\ UNCHANGED newconns
           \/ /\ newconns' = [newconns EXCEPT ![s] = Append(newconns[s], Head(backlog[s]))]
              /\ UNCHANGED ctrl
    BY <1>17 DEF Accept
  <2>5. backlog' \in [Server -> Conns]
    BY <2>2, <2>4, <1>d
  <2>6. newconns' \in [Server -> Conns]
    BY <2>3, <2>4, <1>d
  <2>7. ctrl' \in [Server -> Client \cup {None, Gone, Term}]
    BY <2>2, <2>4, <1>d
  <2>8. ConnOK' /\ RestOK'
    BY <1>17, <2>5, <2>6, <2>7, <1>d DEF Accept
  <2> QED
    BY <1>17, <2>8, <1>e, <1>f DEF Accept
<1>18. ASSUME NEW s \in Server, Receive(s) PROVE Typed'
  BY <1>18, <1>d, <1>e, <1>f DEF Receive
<1>19. ASSUME NEW s \in Server, Reply(s) PROVE Typed'
  <2> DEFINE c == ctrl[s]
  <2>1. c \in Client /\ pc[c] = "reply" /\ srv[c] \in Server
    BY <1>19, <1>0 DEF Reply, Requested, Waiting
  <2>2. ClientOK'
    BY <1>19, <2>1, <1>d, GotoTyped DEF Reply, ClientPc
  <2> QED
    BY <1>19, <2>2, <1>d, <1>e, <1>g DEF Reply
<1>20. ASSUME NEW s \in Server, Disconnect(s) PROVE Typed'
  <2>1. PICK idle \in BOOLEAN : disconnect_client(s, idle)
    BY <1>20 DEF Disconnect
  <2>2. faults' \in Nat
    BY <1>20, <1>d, FaultTyped DEF Disconnect
  <2>3. newconns[s] \in Seq(Client \cup {Gone})
    BY <1>c DEF Conns
  <2>4. haveui' = [haveui EXCEPT ![s] = FALSE]
    BY <2>1 DEF disconnect_client
  <2>5. CASE newconns[s] # <<>> /\ idle
    <3>1. /\ newconns[s][Len(newconns[s])] \in Client \cup {Gone}
          /\ SubSeq(newconns[s], 1, Len(newconns[s]) - 1) \in Conns
      BY <2>3, <2>5 DEF Conns
    <3>2. /\ ctrl' = [ctrl EXCEPT ![s] = newconns[s][Len(newconns[s])]]
          /\ newconns' = [newconns EXCEPT ![s] = SubSeq(newconns[s], 1, Len(newconns[s]) - 1)]
          /\ UNCHANGED spc
      BY <2>1, <2>5 DEF disconnect_client
    <3> QED
      BY <1>20, <2>2, <2>4, <3>1, <3>2, <1>d, <1>e, <1>f DEF Disconnect
  <2>6. CASE ~(newconns[s] # <<>> /\ idle)
    <3>1. /\ ctrl' = [ctrl EXCEPT ![s] = None] /\ UNCHANGED newconns
          /\ ServerGoto(s, "stat") \/ UNCHANGED spc
      BY <2>1, <2>6 DEF disconnect_client
    <3> QED
      BY <1>20, <2>2, <2>4, <3>1, <1>d, <1>e, <1>f DEF Disconnect, ServerGoto, ServerPc
  <2> QED
    BY <2>5, <2>6
<1>21. ASSUME NEW s \in Server, Terminate(s) \/ Expire(s) \/ Stat(s) PROVE Typed'
  BY <1>21, <1>d, <1>e, <1>f, <1>g DEF Terminate, Expire, Stat, ServerGoto, ServerPc
<1>22. ASSUME NEW s \in Server, Broken(s) PROVE Typed'
  BY <1>22, <1>d, <1>e, <1>f, FaultTyped DEF Broken, ServerGoto, ServerPc
<1>23. ASSUME NEW s \in Server, Unlink(s) \/ Release(s) \/ Relock(s) PROVE Typed'
  BY <1>23, <1>d, <1>e, <1>f, <1>g DEF Unlink, Release, Relock, ServerGoto, ServerPc
<1>24. ASSUME NEW s \in Server, CloseSocket(s) PROVE Typed'
  <2>1. <<>> \in Conns
    BY DEF Conns
  <2> QED
    BY <1>24, <2>1, <1>d, <1>e, <1>f DEF CloseSocket, ServerGoto, ServerPc
<1>25. ASSUME NEW s \in Server, Crash(s) \/ NotStarted(s) \/ Leave(s) \/ RemoveLock(s) PROVE Typed'
  <2>1. Dies(s) /\ faults' \in Nat /\ litter' \in BOOLEAN /\ UNCHANGED <<Rigid, Clients>>
    BY <1>25, <1>d, FaultTyped DEF Crash, NotStarted, Leave, RemoveLock
  <2> QED
    BY <2>1, <1>0, <1>d, <1>e, <1>f, DiesTyped
<1>26. CASE UNCHANGED vars
  BY <1>26, <1>d, <1>e, <1>f, <1>g DEF vars
<1> QED
  BY <1>1, <1>2, <1>3, <1>4, <1>5, <1>6, <1>7, <1>8, <1>9, <1>10, <1>11, <1>12, <1>13, <1>14,
     <1>15, <1>16, <1>17, <1>18, <1>19, <1>20, <1>21, <1>22, <1>23, <1>24, <1>25, <1>26
     DEF Next, ClientStep, ServerStep, ClientLate, ServerFault

-----------------------------------------------------------------------------
(* The lock and the socket.                                                 *)

Momentary == {"got", "parent", "polled"}
Holding == {"forked", "bind", "boot", "loop", "stat", "unlink", "close", "release", "relocked"}

\* Who has the lock can be seen from where the processes are; one server has it at most,
\* and a client that is about to start a server, or to remove the file, has it alone.
\* From bind to unlink the socket file is the server's own, and afterwards it is not.
ServersLock == \A s \in Server : s \in lockers <=> spc[s] \in Holding
ClientsLock == \A c \in Client : c \in lockers <=> pc[c] \in Momentary
OneServer == \A s, t \in Server : s \in lockers /\ t \in lockers => s = t
AloneThere == \A c \in Client : pc[c] \in {"got", "polled"} => lockers = {c}
OwnSocket == \A s \in Server : spc[s] \in {"boot", "loop", "stat", "unlink"} => sock = s
NoSocket == \A s \in Server : spc[s] \in {"close", "release", "relock", "relocked"} => sock # s
Locked == ServersLock /\ ClientsLock /\ OneServer /\ AloneThere /\ OwnSocket /\ NoSocket

LEMMA Disjoint == \A c \in Client, s \in Server : c # s
  BY ProcAssumption

LEMMA NotSpecial == \A s \in Server : s # None /\ s # Stale
  BY ProcAssumption DEF Special

LEMMA InitLocked == Init => Locked
<1> SUFFICES ASSUME Init PROVE Locked
  OBVIOUS
<1>1. lockers = {} /\ (\A c \in Client : pc[c] = "absent") /\ (\A s \in Server : spc[s] = "dead")
  BY DEF Init
<1> QED
  BY <1>1 DEF Locked, ServersLock, ClientsLock, OneServer, AloneThere, OwnSocket, NoSocket,
              Momentary, Holding

\* Clients that move where the lock does not matter.
LEMMA ElsewhereLocked ==
  ASSUME Locked, UNCHANGED <<lockers, spc, sock>>,
         \A c \in Client : pc'[c] = pc[c] \/ (pc[c] \notin Momentary /\ pc'[c] \notin Momentary)
  PROVE  Locked'
<1>1. ServersLock' /\ OneServer' /\ OwnSocket' /\ NoSocket'
  BY DEF Locked, ServersLock, OneServer, OwnSocket, NoSocket
<1>2. ClientsLock' /\ AloneThere'
  BY DEF Locked, ClientsLock, AloneThere, Momentary
<1> QED
  BY <1>1, <1>2 DEF Locked

\* A client takes the lock that nobody has.
LEMMA TakeLocked ==
  ASSUME Locked, NEW c \in Client, lockers = {}, lockers' = {c}, UNCHANGED <<spc, sock>>,
         pc'[c] \in Momentary, \A d \in Client \ {c} : pc'[d] = pc[d]
  PROVE  Locked'
<1>1. ServersLock' /\ OneServer' /\ OwnSocket' /\ NoSocket'
  BY Disjoint DEF Locked, ServersLock, OneServer, OwnSocket, NoSocket
<1>2. ClientsLock' /\ AloneThere'
  BY DEF Locked, ClientsLock, AloneThere, Momentary
<1> QED
  BY <1>1, <1>2 DEF Locked

\* A client gives up the lock, if it has it.
LEMMA DropLocked ==
  ASSUME Locked, NEW c \in Client, lockers' = lockers \ {c}, UNCHANGED <<spc, sock>>,
         pc'[c] \notin Momentary, \A d \in Client \ {c} : pc'[d] = pc[d]
  PROVE  Locked'
<1>1. ServersLock' /\ OneServer' /\ OwnSocket' /\ NoSocket'
  BY Disjoint DEF Locked, ServersLock, OneServer, OwnSocket, NoSocket
<1>2. ClientsLock'
  BY DEF Locked, ClientsLock
<1>3. ASSUME NEW d \in Client, pc'[d] \in {"got", "polled"} PROVE lockers' = {d}
  <2>1. d # c
    BY <1>3 DEF Momentary
  <2> QED
    BY <1>3, <2>1 DEF Locked, AloneThere
<1> QED
  BY <1>1, <1>2, <1>3 DEF Locked, AloneThere

\* A server goes from one place with the lock to another.
LEMMA OnwardLocked ==
  ASSUME Typed, Locked, NEW s \in Server, NEW label \in Holding, spc[s] \in Holding,
         ServerGoto(s, label), UNCHANGED lockers,
         \A c \in Client : pc'[c] = pc[c] \/ (pc[c] \notin Momentary /\ pc'[c] \notin Momentary),
         sock' = sock \/ sock' \in {None, s},
         label \in {"boot", "loop", "stat", "unlink"} => sock' = s,
         label \in {"close", "release", "relocked"} => sock' # s
  PROVE  Locked'
<1>1. spc'[s] = label /\ \A t \in Server \ {s} : spc'[t] = spc[t]
  BY DEF ServerGoto, Typed, TypeOK
<1>2. s \in lockers /\ \A t \in Server \ {s} : spc[t] \notin Holding
  BY DEF Locked, ServersLock, OneServer
<1>3. ServersLock' /\ OneServer' /\ ClientsLock' /\ AloneThere'
  BY <1>1, <1>2 DEF Locked, ServersLock, OneServer, ClientsLock, AloneThere, Momentary
<1>4. OwnSocket'
  BY <1>1, <1>2 DEF OwnSocket, Holding
<1>5. NoSocket'
  <2> SUFFICES ASSUME NEW t \in Server, spc'[t] \in {"close", "release", "relock", "relocked"}
               PROVE  sock' # t
    BY DEF NoSocket
  <2>1. CASE t = s
    BY <1>1, <2>1 DEF Holding
  <2>2. CASE t # s
    BY <1>1, <2>2, NotSpecial DEF Locked, NoSocket
  <2> QED
    BY <2>1, <2>2
<1> QED
  BY <1>3, <1>4, <1>5 DEF Locked

\* A server ends or lets go of the lock.
LEMMA GoneLocked ==
  ASSUME Typed, Locked, NEW s \in Server, NEW label \in {"dead", "relock"},
         ServerGoto(s, label), lockers' = lockers \ {s}, UNCHANGED pc,
         sock' = IF sock = s THEN Stale ELSE sock
  PROVE  Locked'
<1>1. spc'[s] = label /\ \A t \in Server \ {s} : spc'[t] = spc[t]
  BY DEF ServerGoto, Typed, TypeOK
<1>2. ServersLock' /\ OneServer' /\ ClientsLock'
  BY <1>1, Disjoint DEF Locked, ServersLock, OneServer, ClientsLock, Holding
<1>3. AloneThere'
  BY Disjoint DEF Locked, AloneThere
<1>4. sock' # s /\ \A t \in Server \ {s} : sock' = t <=> sock = t
  BY NotSpecial
<1>5. OwnSocket' /\ NoSocket'
  BY <1>1, <1>4 DEF Locked, OwnSocket, NoSocket
<1> QED
  BY <1>2, <1>3, <1>5 DEF Locked

\* The pc of a client that goes to a label.
LEMMA GotoPc ==
  ASSUME Typed, NEW c \in Client, NEW label, Goto(c, label)
  PROVE  pc'[c] = label /\ \A d \in Client \ {c} : pc'[d] = pc[d]
  BY DEF Goto, Typed, TypeOK

LEMMA LockedStep == Typed /\ Locked /\ [Next]_vars => Locked'
<1> SUFFICES ASSUME Typed, Locked, [Next]_vars PROVE Locked'
  OBVIOUS
<1> USE DEF Rigid, Clients, Connections
<1>1. ASSUME NEW c \in Client, Begin(c) \/ Ready(c) \/ Reconnect(c) PROVE Locked'
  <2>1. pc[c] \in {"absent", "ready", "reconnect"} /\ UNCHANGED <<lockers, spc, sock>>
    BY <1>1 DEF Begin, Ready, Reconnect
  <2>2. \E label \in {"lock", "connect", "poll", "done"} : Goto(c, label)
    BY <1>1 DEF Begin, Ready, Reconnect, End
  <2>3. PICK label \in {"lock", "connect", "poll", "done"} : Goto(c, label)
    BY <2>2
  <2> QED
    BY <2>1, <2>3, GotoPc, ElsewhereLocked DEF Momentary
<1>2. ASSUME NEW c \in Client, lockBitbake(c) PROVE Locked'
  <2>1. CASE lockers = {}
    BY <1>2, <2>1, GotoPc, TakeLocked DEF lockBitbake, Momentary
  <2>2. CASE lockers # {}
    BY <1>2, <2>2, GotoPc, ElsewhereLocked DEF lockBitbake, Momentary
  <2> QED
    BY <2>1, <2>2
<1>3. ASSUME NEW c \in Client, NoServer(c) PROVE Locked'
  BY <1>3, EndTyped, DropLocked DEF NoServer, Momentary
<1>4. ASSUME NEW c \in Client, Fork(c) PROVE Locked'
  <2>1. PICK s \in Free : ServerGoto(s, "forked") /\ lockers' = lockers \cup {s}
    BY <1>4 DEF Fork
  <2>2. s \in Server /\ spc[s] = "dead"
    BY <2>1 DEF Free
  <2>3. lockers = {c} /\ lockers' = {c, s} /\ UNCHANGED sock
    BY <1>4, <2>1 DEF Fork, Locked, AloneThere
  <2>4. spc'[s] = "forked" /\ \A t \in Server \ {s} : spc'[t] = spc[t]
    BY <2>1, <2>2 DEF ServerGoto, Typed, TypeOK
  <2>5. pc'[c] = "parent" /\ \A d \in Client \ {c} : pc'[d] = pc[d]
    BY <1>4, GotoPc DEF Fork
  <2>6. ServersLock' /\ OneServer'
    BY <2>3, <2>4, Disjoint DEF Locked, ServersLock, OneServer, Holding
  <2>7. ClientsLock' /\ AloneThere'
    BY <2>3, <2>5, <2>2, Disjoint DEF Locked, ClientsLock, AloneThere, Momentary
  <2>8. OwnSocket' /\ NoSocket'
    BY <2>3, <2>4 DEF Locked, OwnSocket, NoSocket
  <2> QED
    BY <2>6, <2>7, <2>8 DEF Locked
<1>5. ASSUME NEW c \in Client, CloseLock(c) PROVE Locked'
  BY <1>5, GotoPc, DropLocked DEF CloseLock, Momentary
<1>6. ASSUME NEW c \in Client,
             NotReady(c) \/ ReadyLate(c) \/ PollOver(c) \/ BacklogFull(c) \/ Refused(c) \/ ReplyLate(c)
      PROVE  Locked'
  <2>1. /\ Retry(c) /\ UNCHANGED <<lockers, spc, sock>>
        /\ pc[c] \in {"ready", "poll", "connect", "reply"}
    BY <1>6 DEF NotReady, ReadyLate, PollOver, BacklogFull, Refused, ReplyLate
  <2> QED
    BY <2>1, RetryTyped, ElsewhereLocked DEF Momentary
<1>7. ASSUME NEW c \in Client, Poll(c) PROVE Locked'
  BY <1>7, GotoPc, TakeLocked DEF Poll, Momentary
<1>8. ASSUME NEW c \in Client, Polled(c) PROVE Locked'
  BY <1>8, RetryTyped, DropLocked DEF Polled, Momentary
<1>9. ASSUME NEW c \in Client, Connect(c) PROVE Locked'
  <2>1. pc[c] = "connect" /\ UNCHANGED <<lockers, spc, sock>> /\ (Goto(c, "reply") \/ Retry(c))
    BY <1>9 DEF Connect
  <2>2. CASE Goto(c, "reply")
    BY <2>1, <2>2, GotoPc, ElsewhereLocked DEF Momentary
  <2>3. CASE Retry(c)
    BY <2>1, <2>3, RetryTyped, ElsewhereLocked DEF Momentary
  <2> QED
    BY <2>1, <2>2, <2>3
<1>10. ASSUME NEW c \in Client, Finish(c) PROVE Locked'
  BY <1>10, EndTyped, ElsewhereLocked DEF Finish, Momentary
<1>11. ASSUME NEW c \in Client, Kill(c) PROVE Locked'
  BY <1>11, EndTyped, DropLocked DEF Kill, Momentary
<1>12. ASSUME NEW s \in Server, RemoveSocket(s) PROVE Locked'
  BY <1>12, OnwardLocked DEF RemoveSocket, Holding
<1>13. ASSUME NEW s \in Server, Bind(s) PROVE Locked'
  BY <1>13, OnwardLocked DEF Bind, Holding
<1>14. ASSUME NEW s \in Server,
              Started(s) \/ Terminate(s) \/ Expire(s) \/ Broken(s)
       PROVE  Locked'
  <2>1. /\ spc[s] \in {"boot", "loop"} /\ UNCHANGED <<pc, lockers, sock>>
        /\ ServerGoto(s, "loop") \/ ServerGoto(s, "stat")
    BY <1>14 DEF Started, Terminate, Expire, Broken
  <2>2. sock = s
    BY <2>1 DEF Locked, OwnSocket
  <2> QED
    BY <2>1, <2>2, OnwardLocked DEF Holding
<1>15. ASSUME NEW s \in Server, Accept(s) \/ Receive(s) PROVE Locked'
  BY <1>15, ElsewhereLocked DEF Accept, Receive
<1>16. ASSUME NEW s \in Server, Reply(s) PROVE Locked'
  BY <1>16, GotoPc, ElsewhereLocked DEF Reply, Momentary
<1>17. ASSUME NEW s \in Server, Disconnect(s) PROVE Locked'
  <2>1. spc[s] = "loop" /\ UNCHANGED <<pc, lockers, sock>> /\ (ServerGoto(s, "stat") \/ UNCHANGED spc)
    BY <1>17 DEF Disconnect, disconnect_client
  <2>2. sock = s
    BY <2>1 DEF Locked, OwnSocket
  <2>3. CASE ServerGoto(s, "stat")
    BY <2>1, <2>2, <2>3, OnwardLocked DEF Holding
  <2>4. CASE UNCHANGED spc
    BY <2>1, <2>4, ElsewhereLocked
  <2> QED
    BY <2>1, <2>3, <2>4
<1>18. ASSUME NEW s \in Server, Stat(s) PROVE Locked'
  <2>1. sock = s
    BY <1>18 DEF Stat, Locked, OwnSocket
  <2> QED
    BY <1>18, <2>1, OnwardLocked DEF Stat, Holding
<1>19. ASSUME NEW s \in Server, Unlink(s) PROVE Locked'
  BY <1>19, NotSpecial, OnwardLocked DEF Unlink, Holding
<1>20. ASSUME NEW s \in Server, CloseSocket(s) PROVE Locked'
  <2>1. sock # s
    BY <1>20 DEF CloseSocket, Locked, NoSocket
  <2> QED
    BY <1>20, <2>1, OnwardLocked DEF CloseSocket, Holding
<1>21. ASSUME NEW s \in Server, Release(s) PROVE Locked'
  <2>1. sock # s
    BY <1>21 DEF Release, Locked, NoSocket
  <2> QED
    BY <1>21, <2>1, GoneLocked DEF Release
<1>22. ASSUME NEW s \in Server, Relock(s) PROVE Locked'
  <2>1. /\ spc[s] = "relock" /\ lockers = {} /\ lockers' = {s} /\ UNCHANGED <<pc, sock>>
    BY <1>22 DEF Relock
  <2>2. spc'[s] = "relocked" /\ \A t \in Server \ {s} : spc'[t] = spc[t]
    BY <1>22 DEF Relock, ServerGoto, Typed, TypeOK
  <2>3. ServersLock' /\ OneServer'
    BY <2>1, <2>2 DEF Locked, ServersLock, OneServer, Holding
  <2>4. ClientsLock' /\ AloneThere'
    BY <2>1, Disjoint DEF Locked, ClientsLock, AloneThere, Momentary
  <2>5. OwnSocket' /\ NoSocket'
    BY <2>1, <2>2 DEF Locked, OwnSocket, NoSocket
  <2> QED
    BY <2>3, <2>4, <2>5 DEF Locked
<1>23. ASSUME NEW s \in Server, Crash(s) \/ NotStarted(s) \/ Leave(s) \/ RemoveLock(s) PROVE Locked'
  BY <1>23, GoneLocked DEF Crash, NotStarted, Leave, RemoveLock, Dies
<1>24. CASE UNCHANGED vars
  BY <1>24, ElsewhereLocked DEF vars
<1> QED
  BY <1>1, <1>2, <1>3, <1>4, <1>5, <1>6, <1>7, <1>8, <1>9, <1>10, <1>11, <1>12, <1>13, <1>14,
     <1>15, <1>16, <1>17, <1>18, <1>19, <1>20, <1>21, <1>22, <1>23, <1>24
     DEF Next, ClientStep, ServerStep, ClientLate, ServerFault

-----------------------------------------------------------------------------
(* The socket files that are left.                                          *)

\* The socket file is that of a server between bind and unlink, or it was left.
Accounted ==
    /\ sock \in Server => spc[sock] \in Bound
    /\ sock = Stale => litter

LEMMA InitAccounted == Init => Accounted
<1> SUFFICES ASSUME Init PROVE Accounted
  OBVIOUS
<1>1. PICK setting \in Settings : sock = setting.sock /\ litter = (setting.sock = Stale)
  BY DEF Init
<1>2. setting.sock \in {None, Stale}
  BY SettingsAssumption
<1> QED
  BY <1>1, <1>2, NotSpecial DEF Accounted

\* A command does nothing to socket files, and starts no server that has one.
LEMMA CommandAccounted ==
  ASSUME Typed, Accounted, NEW c \in Client, Begin(c) \/ ClientStep(c) \/ ClientLate(c)
  PROVE  Accounted'
<1>1. UNCHANGED <<sock, litter>>
  BY DEF Begin, ClientStep, ClientLate, lockBitbake, NoServer, Fork, CloseLock, Ready, NotReady,
         Reconnect, Poll, Polled, PollOver, Connect, BacklogFull, Refused, Finish, ReadyLate,
         ReplyLate, Kill
<1>2. \A s \in Server : spc[s] \in Bound => spc'[s] = spc[s]
  <2>1. CASE Fork(c)
    <3>1. PICK s \in Free : ServerGoto(s, "forked")
      BY <2>1 DEF Fork
    <3> QED
      BY <3>1 DEF Free, ServerGoto, Bound, Typed, TypeOK
  <2>2. CASE ~Fork(c)
    BY <2>2 DEF Begin, ClientStep, ClientLate, lockBitbake, NoServer, CloseLock, Ready, NotReady,
           Reconnect, Poll, Polled, PollOver, Connect, BacklogFull, Refused, Finish, ReadyLate,
           ReplyLate, Kill
  <2> QED
    BY <2>1, <2>2
<1> QED
  BY <1>1, <1>2 DEF Accounted

\* A server that goes on does not lose its socket file before it has removed it.
LEMMA OnwardAccounted ==
  ASSUME Typed, Accounted, NEW s \in Server, NEW label, ServerGoto(s, label),
         UNCHANGED <<sock, litter>>, sock = s => label \in Bound
  PROVE  Accounted'
<1>1. spc'[s] = label /\ \A t \in Server \ {s} : spc'[t] = spc[t]
  BY DEF ServerGoto, Typed, TypeOK
<1> QED
  BY <1>1 DEF Accounted

\* A server that ends has removed it, or the end is one of those that count.
LEMMA EndAccounted ==
  ASSUME Typed, Accounted, NEW s \in Server, Dies(s),
         litter => litter', sock = s => litter'
  PROVE  Accounted'
<1>1. \A t \in Server \ {s} : spc'[t] = spc[t]
  BY DEF Dies, ServerGoto, Typed, TypeOK
<1>2. sock' = IF sock = s THEN Stale ELSE sock
  BY DEF Dies
<1> QED
  BY <1>1, <1>2, NotSpecial DEF Accounted

LEMMA AccountedStep == Typed /\ Locked /\ Accounted /\ [Next]_vars => Accounted'
<1> SUFFICES ASSUME Typed, Locked, Accounted, [Next]_vars PROVE Accounted'
  OBVIOUS
<1> USE DEF Rigid, Clients, Connections
<1>1. ASSUME NEW c \in Client, Begin(c) \/ ClientStep(c) \/ ClientLate(c) PROVE Accounted'
  BY <1>1, CommandAccounted
<1>2. ASSUME NEW s \in Server, RemoveSocket(s) \/ Unlink(s) PROVE Accounted'
  BY <1>2, NotSpecial DEF RemoveSocket, Unlink, Accounted
<1>3. ASSUME NEW s \in Server, Bind(s) PROVE Accounted'
  <2>1. spc'[s] = "boot" /\ sock' = s
    BY <1>3 DEF Bind, ServerGoto, Typed, TypeOK
  <2> QED
    BY <2>1, NotSpecial DEF Accounted, Bound
<1>4. ASSUME NEW s \in Server, Started(s) \/ Terminate(s) \/ Expire(s) \/ Broken(s)
      PROVE  Accounted'
  <2>1. /\ UNCHANGED <<sock, litter>>
        /\ ServerGoto(s, "loop") \/ ServerGoto(s, "stat")
    BY <1>4 DEF Started, Terminate, Expire, Broken
  <2> QED
    BY <2>1, OnwardAccounted DEF Bound
<1>5. ASSUME NEW s \in Server, Accept(s) \/ Receive(s) \/ Reply(s) PROVE Accounted'
  BY <1>5 DEF Accept, Receive, Reply, Accounted
<1>6. ASSUME NEW s \in Server, Disconnect(s) PROVE Accounted'
  <2>1. UNCHANGED <<sock, litter>> /\ (ServerGoto(s, "stat") \/ UNCHANGED spc)
    BY <1>6 DEF Disconnect, disconnect_client
  <2>2. CASE ServerGoto(s, "stat")
    BY <2>1, <2>2, OnwardAccounted DEF Bound
  <2>3. CASE UNCHANGED spc
    BY <2>1, <2>3 DEF Accounted
  <2> QED
    BY <2>1, <2>2, <2>3
<1>7. ASSUME NEW s \in Server, Stat(s) PROVE Accounted'
  <2>1. sock = s
    BY <1>7 DEF Stat, Locked, OwnSocket
  <2> QED
    BY <1>7, <2>1, OnwardAccounted DEF Stat, Bound
<1>8. ASSUME NEW s \in Server, CloseSocket(s) \/ Release(s) \/ Relock(s) PROVE Accounted'
  <2>1. /\ sock # s /\ UNCHANGED <<sock, litter>>
        /\ \E label \in {"release", "relock", "relocked"} : ServerGoto(s, label)
    BY <1>8 DEF CloseSocket, Release, Relock, Locked, NoSocket
  <2> QED
    BY <2>1, OnwardAccounted
<1>9. ASSUME NEW s \in Server, Leave(s) \/ RemoveLock(s) PROVE Accounted'
  <2>1. sock # s /\ UNCHANGED litter /\ Dies(s)
    BY <1>9 DEF Leave, RemoveLock, Locked, NoSocket
  <2> QED
    BY <2>1, EndAccounted
<1>10. ASSUME NEW s \in Server, NotStarted(s) PROVE Accounted'
  BY <1>10, EndAccounted DEF NotStarted
<1>11. ASSUME NEW s \in Server, Crash(s) PROVE Accounted'
  <2>1. Dies(s) /\ litter' = (litter \/ spc[s] \in Bound)
    BY <1>11 DEF Crash
  <2>2. sock = s => spc[s] \in Bound
    BY DEF Accounted
  <2> QED
    BY <2>1, <2>2, EndAccounted
<1>12. CASE UNCHANGED vars
  <2>1. UNCHANGED <<sock, spc, litter>>
    BY <1>12 DEF vars
  <2> QED
    BY <2>1 DEF Accounted
<1> QED
  BY <1>1, <1>2, <1>3, <1>4, <1>5, <1>6, <1>7, <1>8, <1>9, <1>10, <1>11, <1>12
     DEF Next, ServerStep, ServerFault

-----------------------------------------------------------------------------
(* The connections.                                                         *)

\* A client that has a connection, in whatever list of a server, waits for this server
\* or is served by it.
Attached ==
    \A s \in Server : \A c \in Client :
        c \in Linked(s) => srv[c] = s /\ pc[c] \in {"reply", "served"}

LEMMA WithinTail ==
  ASSUME NEW q \in Conns, q # <<>>
  PROVE  Within(Tail(q)) \subseteq Within(q) /\ Head(q) \in Within(q)
<1>1. Len(q) \in Nat /\ Len(q) > 0 /\ DOMAIN q = 1..Len(q)
  BY DEF Conns
<1>2. DOMAIN Tail(q) = 1..(Len(q) - 1) /\ \A i \in 1..(Len(q) - 1) : Tail(q)[i] = q[i + 1]
  BY DEF Conns
<1>3. \A i \in 1..(Len(q) - 1) : i + 1 \in 1..Len(q)
  BY <1>1
<1>4. Head(q) = q[1] /\ 1 \in 1..Len(q)
  BY <1>1 DEF Conns
<1> QED
  BY <1>1, <1>2, <1>3, <1>4 DEF Within

LEMMA WithinAppend ==
  ASSUME NEW q \in Conns, NEW e \in Client \cup {Gone}
  PROVE  Within(Append(q, e)) \subseteq Within(q) \cup {e}
<1>1. Len(q) \in Nat /\ DOMAIN q = 1..Len(q)
  BY DEF Conns
<1>2. DOMAIN Append(q, e) = 1..(Len(q) + 1)
  BY DEF Conns
<1>3. \A i \in 1..(Len(q) + 1) : Append(q, e)[i] = IF i <= Len(q) THEN q[i] ELSE e
  BY DEF Conns
<1>4. \A i \in 1..(Len(q) + 1) : i <= Len(q) => i \in 1..Len(q)
  BY <1>1
<1> QED
  BY <1>1, <1>2, <1>3, <1>4 DEF Within

LEMMA WithinFront ==
  ASSUME NEW q \in Conns, q # <<>>
  PROVE  Within(SubSeq(q, 1, Len(q) - 1)) \subseteq Within(q) /\ q[Len(q)] \in Within(q)
<1>1. Len(q) \in Nat /\ Len(q) > 0 /\ DOMAIN q = 1..Len(q)
  BY DEF Conns
<1>2. /\ DOMAIN SubSeq(q, 1, Len(q) - 1) = 1..(Len(q) - 1)
      /\ \A i \in 1..(Len(q) - 1) : SubSeq(q, 1, Len(q) - 1)[i] = q[i]
  BY <1>1 DEF Conns
<1>3. Len(q) \in 1..Len(q) /\ \A i \in 1..(Len(q) - 1) : i \in 1..Len(q)
  BY <1>1
<1> QED
  BY <1>1, <1>2, <1>3 DEF Within

LEMMA WithinHung ==
  ASSUME NEW q \in Conns, NEW c \in Client
  PROVE  Within(Hung(q, c)) \subseteq (Within(q) \ {c}) \cup {Gone}
  BY ProcAssumption DEF Within, Hung, Special

LEMMA WithinEmpty == Within(<<>>) = {}
  BY DEF Within

\* The connections are what they were, or fewer, and so is what the clients are at.
LEMMA FewerAttached ==
  ASSUME Attached,
         \A s \in Server : \A c \in Client : c \in Linked(s)' =>
             /\ c \in Linked(s)
             /\ srv'[c] = srv[c] /\ (pc'[c] = pc[c] \/ pc'[c] \in {"reply", "served"})
  PROVE  Attached'
  BY DEF Attached

\* What the lists of one server hold, as far as the clients are concerned.
LEMMA LinkedIs ==
  ASSUME NEW s \in Server, NEW c \in Client
  PROVE  /\ c \in Linked(s) <=> c \in Within(backlog[s]) \/ c \in Within(newconns[s]) \/ c = ctrl[s]
         /\ c \in Linked(s)' <=> c \in Within(backlog'[s]) \/ c \in Within(newconns'[s]) \/ c = ctrl'[s]
  BY DEF Linked, Within

\* A client without a connection moves.
LEMMA MovesAttached ==
  ASSUME Attached, NEW c \in Client, UNCHANGED <<backlog, newconns, ctrl>>,
         \A s \in Server : c \notin Linked(s),
         \A d \in Client \ {c} : pc'[d] = pc[d] /\ srv'[d] = srv[d]
  PROVE  Attached'
<1>1. \A s \in Server : Linked(s)' = Linked(s)
  BY DEF Linked, Within
<1> QED
  BY <1>1, FewerAttached

LEMMA HangUpAttached ==
  ASSUME Typed, Attached, NEW c \in Client, NEW as \in {Gone, Term}, HangUp(c, as),
         \A d \in Client \ {c} : pc'[d] = pc[d] /\ srv'[d] = srv[d]
  PROVE  Attached'
<1>1. \A s \in Server : backlog[s] \in Conns /\ newconns[s] \in Conns
  BY DEF Typed, TypeOK, Conns
<1>2. \A s \in Server : /\ backlog'[s] = Hung(backlog[s], c) /\ newconns'[s] = Hung(newconns[s], c)
                        /\ ctrl'[s] = IF ctrl[s] = c THEN as ELSE ctrl[s]
  BY DEF HangUp
<1>3. \A s \in Server : \A d \in Client : d \in Linked(s)' => d \in Linked(s) /\ d # c
  <2> SUFFICES ASSUME NEW s \in Server, NEW d \in Client, d \in Linked(s)'
               PROVE  d \in Linked(s) /\ d # c
    OBVIOUS
  <2>1. d # Gone /\ d # Term
    BY ProcAssumption DEF Special
  <2>a. /\ Within(backlog'[s]) \subseteq (Within(backlog[s]) \ {c}) \cup {Gone}
        /\ Within(newconns'[s]) \subseteq (Within(newconns[s]) \ {c}) \cup {Gone}
    <3>1. /\ Within(Hung(backlog[s], c)) \subseteq (Within(backlog[s]) \ {c}) \cup {Gone}
          /\ Within(Hung(newconns[s], c)) \subseteq (Within(newconns[s]) \ {c}) \cup {Gone}
      BY <1>1, WithinHung
    <3> QED
      BY <3>1, <1>2
  <2>2. CASE d \in Within(backlog'[s])
    <3>1. d \in Within(backlog[s]) /\ d # c
      BY <2>1, <2>2, <2>a
    <3> QED
      BY <3>1, LinkedIs
  <2>3. CASE d \in Within(newconns'[s])
    <3>1. d \in Within(newconns[s]) /\ d # c
      BY <2>1, <2>3, <2>a
    <3> QED
      BY <3>1, LinkedIs
  <2>4. CASE d = ctrl'[s]
    BY <2>1, <2>4, <1>2, LinkedIs
  <2> QED
    BY <2>2, <2>3, <2>4, LinkedIs
<1>4. \A s \in Server : \A d \in Client : d \in Linked(s)' =>
          d \in Linked(s) /\ srv'[d] = srv[d] /\ pc'[d] = pc[d]
  BY <1>3
<1> QED
  BY <1>4, FewerAttached

\* A server closes or passes on its connections, or does nothing with them.
LEMMA ServerAttached ==
  ASSUME Attached, NEW s \in Server, UNCHANGED <<pc, srv>>,
         \A t \in Server \ {s} : /\ backlog'[t] = backlog[t] /\ newconns'[t] = newconns[t]
                                 /\ ctrl'[t] = ctrl[t],
         Within(backlog'[s]) \subseteq Linked(s), Within(newconns'[s]) \subseteq Linked(s),
         ctrl'[s] \in Linked(s) \cup {None}
  PROVE  Attached'
<1>1. ASSUME NEW t \in Server, NEW c \in Client, c \in Linked(t)' PROVE c \in Linked(t)
  <2>1. c # None
    BY ProcAssumption DEF Special
  <2>2. CASE t = s
    BY <2>1, <2>2, <1>1, LinkedIs
  <2>3. CASE t # s
    BY <2>3, <1>1, LinkedIs
  <2> QED
    BY <2>2, <2>3
<1> QED
  BY <1>1, FewerAttached

LEMMA Unattached ==
  ASSUME Attached, NEW c \in Client, pc[c] \notin {"reply", "served"}
  PROVE  \A s \in Server : c \notin Linked(s)
  BY DEF Attached

LEMMA AttachedStep == Typed /\ Attached /\ [Next]_vars => Attached'
<1> SUFFICES ASSUME Typed, Attached, [Next]_vars PROVE Attached'
  OBVIOUS
<1> USE DEF Rigid, Clients, Connections
<1>c. \A s \in Server : backlog[s] \in Conns /\ newconns[s] \in Conns
  BY DEF Typed, TypeOK, Conns
<1>1. ASSUME NEW c \in Client,
             Begin(c) \/ lockBitbake(c) \/ CloseLock(c) \/ Poll(c)
      PROVE  Attached'
  <2>1. /\ pc[c] \in {"absent", "lock", "parent", "poll"} /\ UNCHANGED <<backlog, newconns, ctrl, srv>>
        /\ \E label \in {"lock", "got", "reconnect", "ready", "polled"} : Goto(c, label)
    BY <1>1 DEF Begin, lockBitbake, CloseLock, Poll
  <2> QED
    BY <2>1, GotoPc, MovesAttached, Unattached
<1>2. ASSUME NEW c \in Client, NoServer(c) PROVE Attached'
  BY <1>2, EndTyped, MovesAttached, Unattached DEF NoServer
<1>3. ASSUME NEW c \in Client, Fork(c) PROVE Attached'
  <2>1. \A d \in Client \ {c} : srv'[d] = srv[d]
    BY <1>3 DEF Fork, Typed, TypeOK
  <2> QED
    BY <1>3, <2>1, GotoPc, MovesAttached, Unattached DEF Fork
<1>4. ASSUME NEW c \in Client, Ready(c) \/ Reconnect(c) PROVE Attached'
  <2>1. /\ pc[c] \in {"ready", "reconnect"} /\ UNCHANGED <<backlog, newconns, ctrl>>
        /\ End(c, "done") \/ (UNCHANGED srv /\ \E label \in {"connect", "poll"} : Goto(c, label))
    BY <1>4 DEF Ready, Reconnect
  <2>2. CASE End(c, "done")
    BY <2>1, <2>2, EndTyped, MovesAttached, Unattached
  <2>3. CASE UNCHANGED srv /\ \E label \in {"connect", "poll"} : Goto(c, label)
    BY <2>1, <2>3, GotoPc, MovesAttached, Unattached
  <2> QED
    BY <2>1, <2>2, <2>3
<1>5. ASSUME NEW c \in Client,
             NotReady(c) \/ ReadyLate(c) \/ Polled(c) \/ PollOver(c) \/ BacklogFull(c)
      PROVE  Attached'
  <2>1. /\ pc[c] \in {"ready", "polled", "poll", "connect"} /\ UNCHANGED <<backlog, newconns, ctrl>>
        /\ Retry(c)
    BY <1>5 DEF NotReady, ReadyLate, Polled, PollOver, BacklogFull
  <2> QED
    BY <2>1, RetryTyped, MovesAttached, Unattached
<1>6. ASSUME NEW c \in Client, Connect(c) PROVE Attached'
  <2>1. CASE sock \in Listening
    <3>1. sock \in Server /\ pc[c] = "connect"
      BY <1>6, <2>1 DEF Listening, Connect
    <3>2. /\ Goto(c, "reply") /\ srv' = [srv EXCEPT ![c] = sock] /\ UNCHANGED <<newconns, ctrl>>
          /\ backlog' = [backlog EXCEPT ![sock] = Append(backlog[sock], c)]
      BY <1>6, <2>1 DEF Connect
    <3>3. /\ pc'[c] = "reply" /\ srv'[c] = sock
          /\ \A d \in Client \ {c} : pc'[d] = pc[d] /\ srv'[d] = srv[d]
      BY <3>2, GotoPc DEF Typed, TypeOK
    <3>4. /\ Within(backlog'[sock]) \subseteq Within(backlog[sock]) \cup {c}
          /\ \A s \in Server \ {sock} : backlog'[s] = backlog[s]
      <4>1. /\ backlog'[sock] = Append(backlog[sock], c)
            /\ \A s \in Server \ {sock} : backlog'[s] = backlog[s]
        BY <3>1, <3>2 DEF Typed, TypeOK
      <4> QED
        BY <3>1, <4>1, <1>c, WithinAppend
    <3>5. ASSUME NEW s \in Server, NEW d \in Client, d \in Linked(s)'
          PROVE  d \in Linked(s) \/ (d = c /\ s = sock)
      BY <3>2, <3>4, <3>5, LinkedIs
    <3>6. \A s \in Server : c \notin Linked(s)
      BY <3>1, Unattached
    <3> QED
      BY <3>3, <3>5, <3>6 DEF Attached
  <2>2. CASE sock \notin Listening
    BY <1>6, <2>2, RetryTyped, MovesAttached, Unattached DEF Connect
  <2> QED
    BY <2>1, <2>2
<1>7. ASSUME NEW c \in Client, Refused(c) PROVE Attached'
  <2>1. \A s \in Server : c \notin Linked(s)
    BY <1>7 DEF Refused, Attached
  <2> QED
    BY <1>7, <2>1, RetryTyped, MovesAttached DEF Refused
<1>8. ASSUME NEW c \in Client, ReplyLate(c) PROVE Attached'
  BY <1>8, RetryTyped, HangUpAttached DEF ReplyLate
<1>9. ASSUME NEW c \in Client, Finish(c) \/ Kill(c) PROVE Attached'
  <2>1. pc[c] # "gave up" /\ End(c, "done") /\ \E as \in {Gone, Term} : HangUp(c, as)
    BY <1>9 DEF Finish, Kill
  <2> QED
    BY <2>1, EndTyped, HangUpAttached
<1>10. ASSUME NEW s \in Server,
              \/ RemoveSocket(s) \/ Bind(s) \/ Started(s) \/ Terminate(s) \/ Expire(s) \/ Broken(s)
              \/ Stat(s) \/ Unlink(s) \/ Release(s) \/ Relock(s) \/ Receive(s)
       PROVE  Attached'
  <2>1. UNCHANGED <<pc, srv, backlog, newconns, ctrl>>
    BY <1>10 DEF RemoveSocket, Bind, Started, Terminate, Expire, Broken, Stat, Unlink, Release, Relock,
                 Receive
  <2> QED
    BY <2>1, LinkedIs, FewerAttached
<1>11. ASSUME NEW s \in Server, Accept(s) PROVE Attached'
  <2> DEFINE first == Head(backlog[s])
  <2>1. /\ backlog[s] # <<>> /\ backlog' = [backlog EXCEPT ![s] = Tail(backlog[s])]
        /\ UNCHANGED <<pc, srv>>
        /\ \/ ctrl' = [ctrl EXCEPT ![s] = first] /\ UNCHANGED newconns
           \/ newconns' = [newconns EXCEPT ![s] = Append(newconns[s], first)] /\ UNCHANGED ctrl
    BY <1>11 DEF Accept
  <2>2. Within(Tail(backlog[s])) \subseteq Linked(s) /\ first \in Linked(s)
    BY <2>1, <1>c, WithinTail DEF Linked
  <2>3. first \in Client \cup {Gone}
    BY <2>1, <1>c DEF Conns
  <2>4. Within(Append(newconns[s], first)) \subseteq Linked(s)
    BY <2>2, <2>3, <1>c, WithinAppend DEF Linked
  <2> HIDE DEF first
  <2>5. /\ backlog'[s] = Tail(backlog[s]) /\ newconns'[s] \in {newconns[s], Append(newconns[s], first)}
        /\ ctrl'[s] \in {ctrl[s], first}
        /\ \A t \in Server \ {s} : /\ backlog'[t] = backlog[t] /\ newconns'[t] = newconns[t]
                                   /\ ctrl'[t] = ctrl[t]
    BY <2>1 DEF Typed, TypeOK
  <2>6. /\ Within(backlog'[s]) \subseteq Linked(s) /\ Within(newconns'[s]) \subseteq Linked(s)
        /\ ctrl'[s] \in Linked(s)
    BY <2>2, <2>4, <2>5 DEF Linked
  <2> QED
    BY <2>1, <2>5, <2>6, ServerAttached
<1>12. ASSUME NEW s \in Server, Reply(s) PROVE Attached'
  <2>1. /\ ctrl[s] \in Client /\ pc[ctrl[s]] = "reply" /\ Goto(ctrl[s], "served")
        /\ UNCHANGED <<srv, backlog, newconns, ctrl>>
    BY <1>12 DEF Reply
  <2>2. \A c \in Client : pc'[c] = pc[c] \/ pc'[c] = "served"
    BY <2>1, GotoPc
  <2> QED
    BY <2>1, <2>2, LinkedIs, FewerAttached
<1>13. ASSUME NEW s \in Server, Disconnect(s) PROVE Attached'
  <2>1. PICK idle \in BOOLEAN : disconnect_client(s, idle)
    BY <1>13 DEF Disconnect
  <2>2. UNCHANGED <<pc, srv, backlog>>
    BY <1>13 DEF Disconnect
  <2>3. CASE newconns[s] # <<>> /\ idle
    <3>1. /\ ctrl' = [ctrl EXCEPT ![s] = newconns[s][Len(newconns[s])]]
          /\ newconns' = [newconns EXCEPT ![s] = SubSeq(newconns[s], 1, Len(newconns[s]) - 1)]
      BY <2>1, <2>3 DEF disconnect_client
    <3>2. /\ ctrl'[s] = newconns[s][Len(newconns[s])]
          /\ newconns'[s] = SubSeq(newconns[s], 1, Len(newconns[s]) - 1)
          /\ \A t \in Server \ {s} : newconns'[t] = newconns[t] /\ ctrl'[t] = ctrl[t]
      BY <3>1 DEF Typed, TypeOK
    <3>3. Within(newconns'[s]) \subseteq Linked(s) /\ ctrl'[s] \in Linked(s)
      BY <2>3, <3>2, <1>c, WithinFront DEF Linked
    <3>4. Within(backlog'[s]) \subseteq Linked(s)
      BY <2>2 DEF Linked
    <3> QED
      BY <2>2, <3>2, <3>3, <3>4, ServerAttached
  <2>4. CASE ~(newconns[s] # <<>> /\ idle)
    <3>1. ctrl' = [ctrl EXCEPT ![s] = None] /\ UNCHANGED newconns
      BY <2>1, <2>4 DEF disconnect_client
    <3>2. ctrl'[s] = None /\ \A t \in Server \ {s} : ctrl'[t] = ctrl[t]
      BY <3>1 DEF Typed, TypeOK
    <3>3. Within(backlog'[s]) \subseteq Linked(s) /\ Within(newconns'[s]) \subseteq Linked(s)
      BY <2>2, <3>1 DEF Linked
    <3> QED
      BY <2>2, <3>1, <3>2, <3>3, ServerAttached
  <2> QED
    BY <2>3, <2>4
<1>14. ASSUME NEW s \in Server, CloseSocket(s) \/ Crash(s) \/ NotStarted(s) \/ Leave(s) \/ RemoveLock(s) PROVE Attached'
  <2>1. /\ UNCHANGED <<pc, srv>>
        /\ backlog'[s] = <<>> /\ newconns'[s] \in {newconns[s], <<>>} /\ ctrl'[s] \in {ctrl[s], None}
        /\ \A t \in Server \ {s} : /\ backlog'[t] = backlog[t] /\ newconns'[t] = newconns[t]
                                   /\ ctrl'[t] = ctrl[t]
    BY <1>14 DEF CloseSocket, Crash, NotStarted, Leave, RemoveLock, Dies, Typed, TypeOK
  <2>2. /\ Within(backlog'[s]) \subseteq Linked(s) /\ Within(newconns'[s]) \subseteq Linked(s)
        /\ ctrl'[s] \in Linked(s) \cup {None}
    BY <2>1, WithinEmpty DEF Linked
  <2> QED
    BY <2>1, <2>2, ServerAttached
<1>15. CASE UNCHANGED vars
  BY <1>15, LinkedIs, FewerAttached DEF vars
<1> QED
  BY <1>1, <1>2, <1>3, <1>4, <1>5, <1>6, <1>7, <1>8, <1>9, <1>10, <1>11, <1>12, <1>13, <1>14, <1>15
     DEF Next, ClientStep, ServerStep, ClientLate, ServerFault

-----------------------------------------------------------------------------
(* The sessions.                                                            *)

\* What SessionKept says of a command and its server.
Serves(s, c) ==
    \/ spc[s] = "loop" /\ ctrl[s] = c /\ haveui[s]
    \/ spc[s] = "dead" \/ s \in broken

LEMMA ServesAll ==
  ASSUME Typed
  PROVE  SessionKept <=> \A s \in Server : \A c \in Client :
                             pc[c] = "served" /\ srv[c] = s => Serves(s, c)
  BY DEF SessionKept, Serves, Typed, Requested, Waiting

LEMMA ServesAllNext ==
  ASSUME Typed'
  PROVE  SessionKept' <=> \A s \in Server : \A c \in Client :
                              pc'[c] = "served" /\ srv'[c] = s => Serves(s, c)'
  BY DEF SessionKept, Serves, Typed, TypeOK, Requested, Waiting

\* A client does something that the others, and their servers, do not notice.
LEMMA ClientKept ==
  ASSUME Typed, Typed', SessionKept, NEW c \in Client, pc'[c] # "served",
         \A d \in Client \ {c} : pc'[d] = pc[d] /\ srv'[d] = srv[d],
         UNCHANGED <<haveui, broken>>,
         \A d \in Client \ {c} : \A s \in Server :
             /\ srv[d] = s => spc'[s] = spc[s]
             /\ ctrl[s] = d => ctrl'[s] = d
  PROVE  SessionKept'
<1> SUFFICES ASSUME NEW s \in Server, NEW d \in Client, pc'[d] = "served", srv'[d] = s
             PROVE  Serves(s, d)'
  BY ServesAllNext
<1>1. d # c
  OBVIOUS
<1>2. pc[d] = "served" /\ srv[d] = s
  BY <1>1
<1>3. Serves(s, d)
  BY <1>2, ServesAll
<1>4. spc'[s] = spc[s] /\ (ctrl[s] = d => ctrl'[s] = d)
  BY <1>1, <1>2
<1> QED
  BY <1>3, <1>4 DEF Serves

\* A server does something that leaves its own client with it.
LEMMA ServerKept ==
  ASSUME Typed, Typed', SessionKept, NEW s \in Server, UNCHANGED <<pc, srv>>,
         \A t \in Server \ {s} : /\ spc'[t] = spc[t] /\ ctrl'[t] = ctrl[t] /\ haveui'[t] = haveui[t]
                                 /\ t \in broken => t \in broken',
         \A c \in Client : Serves(s, c) => Serves(s, c)'
  PROVE  SessionKept'
<1> SUFFICES ASSUME NEW t \in Server, NEW c \in Client, pc'[c] = "served", srv'[c] = t
             PROVE  Serves(t, c)'
  BY ServesAllNext
<1>1. pc[c] = "served" /\ srv[c] = t
  OBVIOUS
<1>2. Serves(t, c)
  BY <1>1, ServesAll
<1>3. CASE t = s
  BY <1>2, <1>3 DEF Serves
<1>4. CASE t # s
  <2>1. spc'[t] = spc[t] /\ ctrl'[t] = ctrl[t]
    BY <1>4
  <2>2. haveui'[t] = haveui[t]
    BY <1>4
  <2>3. t \in broken => t \in broken'
    BY <1>4
  <2> QED
    BY <1>2, <2>1, <2>2, <2>3 DEF Serves
<1> QED
  BY <1>3, <1>4

LEMMA HangUpKept ==
  ASSUME Typed, Typed', SessionKept, NEW c \in Client, NEW as \in {Gone, Term}, HangUp(c, as),
         pc'[c] # "served", UNCHANGED spc,
         \A d \in Client \ {c} : pc'[d] = pc[d] /\ srv'[d] = srv[d]
  PROVE  SessionKept'
<1>1. \A d \in Client \ {c} : \A s \in Server : ctrl[s] = d => ctrl'[s] = d
  BY DEF HangUp
<1>2. UNCHANGED <<haveui, broken>>
  BY DEF HangUp
<1> QED
  BY <1>1, <1>2, ClientKept

LEMMA KeptStep == Typed /\ Typed' /\ Attached /\ SessionKept /\ [Next]_vars => SessionKept'
<1> SUFFICES ASSUME Typed, Typed', Attached, SessionKept, [Next]_vars PROVE SessionKept'
  OBVIOUS
<1> USE DEF Rigid, Clients, Connections
<1>1. ASSUME NEW c \in Client,
             Begin(c) \/ lockBitbake(c) \/ CloseLock(c) \/ Poll(c)
      PROVE  SessionKept'
  <2>1. /\ UNCHANGED <<spc, ctrl, haveui, broken, srv>>
        /\ \E label \in {"lock", "got", "reconnect", "ready", "polled"} : Goto(c, label)
    BY <1>1 DEF Begin, lockBitbake, CloseLock, Poll
  <2> QED
    BY <2>1, GotoPc, ClientKept
<1>2. ASSUME NEW c \in Client, NoServer(c) PROVE SessionKept'
  BY <1>2, EndTyped, ClientKept DEF NoServer
<1>3. ASSUME NEW c \in Client, Fork(c) PROVE SessionKept'
  <2>1. PICK s \in Free : /\ srv' = [srv EXCEPT ![c] = s] /\ ServerGoto(s, "forked")
    BY <1>3 DEF Fork
  <2>2. /\ \A d \in Client \ {c} : srv'[d] = srv[d] /\ srv[d] # s
        /\ \A t \in Server \ {s} : spc'[t] = spc[t]
    BY <2>1 DEF Free, ServerGoto, Typed, TypeOK
  <2>3. UNCHANGED <<ctrl, haveui, broken>> /\ Goto(c, "parent")
    BY <1>3 DEF Fork
  <2>4. pc'[c] # "served" /\ \A d \in Client \ {c} : pc'[d] = pc[d]
    BY <2>3, GotoPc
  <2> QED
    BY <2>2, <2>3, <2>4, ClientKept
<1>4. ASSUME NEW c \in Client, Ready(c) \/ Reconnect(c) PROVE SessionKept'
  <2>1. /\ pc[c] \in {"ready", "reconnect"} /\ UNCHANGED <<spc, ctrl, haveui, broken>>
        /\ End(c, "done") \/ (UNCHANGED srv /\ \E label \in {"connect", "poll"} : Goto(c, label))
    BY <1>4 DEF Ready, Reconnect
  <2>2. CASE End(c, "done")
    BY <2>1, <2>2, EndTyped, ClientKept
  <2>3. CASE UNCHANGED srv /\ \E label \in {"connect", "poll"} : Goto(c, label)
    BY <2>1, <2>3, GotoPc, ClientKept
  <2> QED
    BY <2>1, <2>2, <2>3
<1>5. ASSUME NEW c \in Client,
             \/ NotReady(c) \/ ReadyLate(c) \/ Polled(c) \/ PollOver(c) \/ BacklogFull(c)
             \/ Refused(c)
      PROVE  SessionKept'
  <2>1. /\ pc[c] # "gave up" /\ UNCHANGED <<spc, ctrl, haveui, broken>> /\ Retry(c)
    BY <1>5 DEF NotReady, ReadyLate, Polled, PollOver, BacklogFull, Refused
  <2> QED
    BY <2>1, RetryTyped, ClientKept
<1>6. ASSUME NEW c \in Client, Connect(c) PROVE SessionKept'
  <2>1. pc[c] = "connect" /\ UNCHANGED <<spc, ctrl, haveui, broken>>
    BY <1>6 DEF Connect
  <2>2. CASE sock \in Listening
    <3>1. Goto(c, "reply") /\ srv' = [srv EXCEPT ![c] = sock]
      BY <1>6, <2>2 DEF Connect
    <3>2. \A d \in Client \ {c} : srv'[d] = srv[d]
      BY <3>1 DEF Typed, TypeOK
    <3> QED
      BY <2>1, <3>1, <3>2, GotoPc, ClientKept
  <2>3. CASE sock \notin Listening
    <3>1. Retry(c)
      BY <1>6, <2>3 DEF Connect
    <3> QED
      BY <2>1, <3>1, RetryTyped, ClientKept
  <2> QED
    BY <2>2, <2>3
<1>7. ASSUME NEW c \in Client, ReplyLate(c) PROVE SessionKept'
  BY <1>7, RetryTyped, HangUpKept DEF ReplyLate
<1>8. ASSUME NEW c \in Client, Finish(c) \/ Kill(c) PROVE SessionKept'
  <2>1. /\ pc[c] # "gave up" /\ End(c, "done") /\ UNCHANGED spc
        /\ \E as \in {Gone, Term} : HangUp(c, as)
    BY <1>8 DEF Finish, Kill
  <2> QED
    BY <2>1, EndTyped, HangUpKept
<1>9. ASSUME NEW s \in Server,
             \/ RemoveSocket(s) \/ Bind(s) \/ Started(s) \/ Stat(s) \/ Unlink(s) \/ CloseSocket(s)
             \/ Release(s) \/ Relock(s) \/ Terminate(s) \/ Expire(s) \/ Broken(s)
      PROVE  SessionKept'
  <2>1. /\ UNCHANGED <<pc, srv, ctrl, haveui>> /\ broken \subseteq broken'
        /\ spc[s] # "dead" /\ \A t \in Server \ {s} : spc'[t] = spc[t]
    BY <1>9 DEF RemoveSocket, Bind, Started, Stat, Unlink, CloseSocket, Release, Relock, Terminate,
                Expire, Broken, ServerGoto, Typed, TypeOK
  <2>2. spc[s] # "loop" \/ ctrl[s] \notin Client \/ ~haveui[s] \/ s \in broken'
    BY <1>9, ProcAssumption
       DEF RemoveSocket, Bind, Started, Stat, Unlink, CloseSocket, Release, Relock, Terminate,
           Expire, Broken, Special
  <2>3. \A c \in Client : Serves(s, c) => Serves(s, c)'
    BY <2>1, <2>2 DEF Serves
  <2> QED
    BY <2>1, <2>3, ServerKept
<1>10. ASSUME NEW s \in Server, Accept(s) \/ Receive(s) PROVE SessionKept'
  <2>1. /\ UNCHANGED <<pc, srv, spc, broken>>
        /\ ctrl[s] \in Client => ctrl'[s] = ctrl[s]
        /\ haveui[s] => haveui'[s]
        /\ \A t \in Server \ {s} : ctrl'[t] = ctrl[t] /\ haveui'[t] = haveui[t]
    BY <1>10, ProcAssumption DEF Accept, Receive, Special, Typed, TypeOK
  <2>2. \A c \in Client : Serves(s, c) => Serves(s, c)'
    BY <2>1 DEF Serves
  <2> QED
    BY <2>1, <2>2, ServerKept
<1>11. ASSUME NEW s \in Server, Reply(s) PROVE SessionKept'
  <2>1. /\ spc[s] = "loop" /\ haveui[s] /\ ctrl[s] \in Client /\ pc[ctrl[s]] = "reply"
        /\ Goto(ctrl[s], "served") /\ UNCHANGED <<srv, spc, ctrl, haveui, broken>>
    BY <1>11 DEF Reply
  <2>2. srv[ctrl[s]] = s
    BY <2>1 DEF Attached, Linked
  <2>3. \A c \in Client : c # ctrl[s] => pc'[c] = pc[c]
    BY <2>1, GotoPc
  <2> SUFFICES ASSUME NEW t \in Server, NEW c \in Client, pc'[c] = "served", srv'[c] = t
               PROVE  Serves(t, c)'
    BY ServesAllNext
  <2>4. CASE c = ctrl[s]
    BY <2>1, <2>2, <2>4 DEF Serves
  <2>5. CASE c # ctrl[s]
    <3>1. Serves(t, c)
      BY <2>1, <2>3, <2>5, ServesAll
    <3> QED
      BY <2>1, <3>1 DEF Serves
  <2> QED
    BY <2>4, <2>5
<1>12. ASSUME NEW s \in Server, Disconnect(s) PROVE SessionKept'
  <2>1. PICK idle \in BOOLEAN : disconnect_client(s, idle)
    BY <1>12 DEF Disconnect
  <2>2. spc[s] = "loop" /\ ctrl[s] \in {Gone, Term} /\ UNCHANGED <<pc, srv, broken>>
    BY <1>12 DEF Disconnect
  <2>3. \A t \in Server \ {s} : spc'[t] = spc[t] /\ ctrl'[t] = ctrl[t] /\ haveui'[t] = haveui[t]
    BY <2>1 DEF disconnect_client, ServerGoto, Typed, TypeOK
  <2>4. \A c \in Client : Serves(s, c) => Serves(s, c)'
    BY <2>2, ProcAssumption DEF Serves, Special
  <2> QED
    BY <2>2, <2>3, <2>4, ServerKept
<1>13. ASSUME NEW s \in Server, Crash(s) \/ NotStarted(s) \/ Leave(s) \/ RemoveLock(s) PROVE SessionKept'
  <2>1. /\ UNCHANGED <<pc, srv>> /\ spc'[s] = "dead" /\ broken' = broken \ {s}
        /\ \A t \in Server \ {s} : spc'[t] = spc[t] /\ ctrl'[t] = ctrl[t] /\ haveui'[t] = haveui[t]
    BY <1>13 DEF Crash, NotStarted, Leave, RemoveLock, Dies, ServerGoto, Typed, TypeOK
  <2>2. \A c \in Client : Serves(s, c)'
    BY <2>1 DEF Serves
  <2> QED
    BY <2>1, <2>2, ServerKept
<1>14. CASE UNCHANGED vars
  BY <1>14 DEF vars, SessionKept
<1> QED
  BY <1>1, <1>2, <1>3, <1>4, <1>5, <1>6, <1>7, <1>8, <1>9, <1>10, <1>11, <1>12, <1>13, <1>14
     DEF Next, ClientStep, ServerStep, ClientLate, ServerFault

-----------------------------------------------------------------------------
(* The theorems.                                                            *)

LEMMA InitKept == Init => Attached /\ SessionKept
<1> SUFFICES ASSUME Init PROVE Attached /\ SessionKept
  OBVIOUS
<1>1. \A s \in Server : Linked(s) = {None}
  BY DEF Init, Linked, Within
<1>2. \A c \in Client : c # None /\ pc[c] = "absent"
  BY ProcAssumption DEF Init, Special
<1> QED
  BY <1>1, <1>2 DEF Attached, SessionKept

Inv == Typed /\ Locked /\ Accounted /\ Attached /\ SessionKept

LEMMA Invariant == Spec => []Inv
<1>1. Init => Inv
  BY InitTyped, InitLocked, InitAccounted, InitKept DEF Inv
<1>2. Inv /\ [Next]_vars => Inv'
  BY TypedStep, LockedStep, AccountedStep, AttachedStep, KeptStep DEF Inv
<1> QED
  BY <1>1, <1>2, PTL DEF Spec

\* Every command and every server is at some place of the code, the connections in the
\* lists of a server come from commands, and who waits for a retry has one left.
THEOREM TypeCorrect == Spec => []TypeOK
<1>1. Inv => TypeOK
  BY DEF Inv, Typed
<1> QED
  BY <1>1, Invariant, PTL

\* Whatever is killed and however often the commands try again, a server that can be
\* talked to has the lock of the build directory, and the socket file in it is its own.
THEOREM OneReachableServer == Spec => []ServerReachable
<1>1. Inv => ServerReachable
  BY DEF Inv, Locked, ServersLock, OwnSocket, Holding, Bound, ServerReachable
<1> QED
  BY <1>1, Invariant, PTL

\* The socket file that a command finds is that of a server which listens, however many
\* servers have come and gone, or some server was killed or ended before its loop with
\* its file there and no server has been started since.
THEOREM NothingLeft == Spec => []NoLitter
<1>1. Inv => NoLitter
  BY DEF Inv, Typed, TypeOK, Accounted, Bound, Listening, NoLitter
<1> QED
  BY <1>1, Invariant, PTL

\* The server of a command that was answered goes on for this command: no other client,
\* timeout or order to terminate ends the session, only the end of the server process.
THEOREM SessionsKept == Spec => []SessionKept
<1>1. Inv => SessionKept
  BY DEF Inv
<1> QED
  BY <1>1, Invariant, PTL
=============================================================================
