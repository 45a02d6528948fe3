------------------------------ MODULE ProcessServer ------------------------------
(****************************************************************************)
(* How the bitbake commands of one build directory find, start, share and   *)
(* end their server: setup_bitbake and BitBakeServer on the side of the     *)
(* command, execServer and ProcessServer.main on that of the server.  They  *)
(* meet at bitbake.lock, held by the server as long as it lives, and at     *)
(* bitbake.sock.  A session asks nothing of the server but setFeatures.     *)
(*                                                                          *)
(* lockfile and unlockfile are taken for what LockFile shows of them.       *)
(****************************************************************************)
EXTENDS Integers, Sequences, FiniteSets

CONSTANTS
    Client,         \* bitbake commands
    Server,         \* bound: processes that may be servers at one time
    Settings,       \* what the commands are, BB_SERVER_TIMEOUT, the socket file that is
                    \* there; bounds: the retries, and how often something goes wrong
    MaxBacklog      \* what listen(1) makes room for

Kind == {"nobody", "ui", "kill", "server only"}
\* Not set; so many seconds; a server that stays (-1).
Timeout == {"none", "some", "never"}
None == "none"
Stale == "stale"    \* a socket file that nobody listens on
Gone == "gone"      \* a connection that its client has closed
Term == "term"      \* the same, with an order to terminate in its pipe

Special == {None, Stale, Gone, Term}

ASSUME ProcAssumption == Client \cap Server = {} /\ (Client \cup Server) \cap Special = {}
ASSUME SettingsAssumption ==
    Settings \subseteq [kind : [Client -> Kind], timeout : Timeout, sock : {None, Stale},
                     retries : Nat \ {0}, faults : Nat]
ASSUME BacklogAssumption == MaxBacklog \in Nat

VARIABLES
    kind,
    timeout,
    pc,         \* where a client is
    retries,    \* how many of its retries are left
    srv,        \* the server that it started or is connected to
    told,       \* the clients that have the word of their server that it is ready
    spc,        \* where a server is
    lockers,    \* the processes that hold bitbake.lock open and locked
    sock,       \* whose bitbake.sock is
    backlog,    \* connections that the server has not accepted
    newconns,   \* those accepted while it serves another
    ctrl,       \* controllersock
    haveui,
    hadanyui,
    broken,     \* the servers that end because of an exception
    faults,     \* how often something may still go wrong
    \* history, for the properties
    litter      \* a server was killed, or did not get to its loop, with its socket
                \* file there, and no server has been started since

vars == <<kind, timeout, pc, retries, srv, told, spc, lockers, sock, backlog,
          newconns, ctrl, haveui, hadanyui, broken, faults, litter>>

Rigid == <<kind, timeout>>
Clients == <<pc, retries, srv, told>>
Connections == <<backlog, newconns, ctrl, haveui, hadanyui, broken>>

ClientPc == {"absent", "lock", "got", "parent", "ready", "reconnect", "poll",
             "polled", "connect", "reply", "served", "done", "gave up"}
ServerPc == {"dead", "forked", "bind", "boot", "loop", "stat", "unlink", "close",
             "release", "relock", "relocked"}

TypeOK ==
    /\ kind \in [Client -> Kind]
    /\ timeout \in Timeout
    /\ pc \in [Client -> ClientPc]
    /\ retries \in [Client -> Nat]
    /\ srv \in [Client -> Server \cup {None}]
    /\ told \subseteq Client
    /\ spc \in [Server -> ServerPc]
    /\ lockers \subseteq Client \cup Server
    /\ sock \in Server \cup {None, Stale}
    /\ backlog \in [Server -> Seq(Client \cup {Gone})]
    /\ newconns \in [Server -> Seq(Client \cup {Gone})]
    /\ ctrl \in [Server -> Client \cup {None, Gone, Term}]
    /\ haveui \in [Server -> BOOLEAN]
    /\ hadanyui \in [Server -> BOOLEAN]
    /\ faults \in Nat
    /\ broken \subseteq Server
    /\ litter \in BOOLEAN

\* Nobody is there; an earlier server may have been killed.
Init ==
    /\ \E setting \in Settings :
          /\ kind = setting.kind
          /\ timeout = setting.timeout
          /\ faults = setting.faults
          /\ sock = setting.sock
          /\ litter = (setting.sock = Stale)
          /\ retries = [c \in Client |-> setting.retries]
    /\ pc = [c \in Client |-> "absent"]
    /\ srv = [c \in Client |-> None]
    /\ told = {}
    /\ spc = [s \in Server |-> "dead"]
    /\ lockers = {}
    /\ backlog = [s \in Server |-> <<>>]
    /\ newconns = backlog
    /\ ctrl = [s \in Server |-> None]
    /\ haveui = [s \in Server |-> FALSE]
    /\ hadanyui = haveui
    /\ broken = {}

-----------------------------------------------------------------------------

Goto(c, label) == pc' = [pc EXCEPT ![c] = label]
ServerGoto(s, label) == spc' = [spc EXCEPT ![s] = label]

\* A process is killed, or its work cannot be ended.
Fault == faults > 0 /\ faults' = faults - 1

\* A connection of c, wherever it is, is closed by c.
Hung(conns, c) == [i \in DOMAIN conns |-> IF conns[i] = c THEN Gone ELSE conns[i]]
HangUp(c, as) ==
    /\ backlog' = [s \in Server |-> Hung(backlog[s], c)]
    /\ newconns' = [s \in Server |-> Hung(newconns[s], c)]
    /\ ctrl' = [s \in Server |-> IF ctrl[s] = c THEN as ELSE ctrl[s]]
    /\ UNCHANGED <<haveui, hadanyui, broken>>

Within(conns) == {conns[i] : i \in DOMAIN conns}
Linked(s) == Within(backlog[s]) \cup Within(newconns[s]) \cup {ctrl[s]}
Listening == {s \in Server : spc[s] \in {"boot", "loop", "stat", "unlink", "close"}}

\* Mutant: the retries are counted and not looked at.
X_Retry(c) ==
    /\ retries' = [retries EXCEPT ![c] = @ - 1]
    /\ srv' = [srv EXCEPT ![c] = None]
    /\ told' = told \ {c}
    /\ Goto(c, "lock")

\* What goes wrong costs one of the retries.
Retry(c) ==
    /\ retries' = [retries EXCEPT ![c] = @ - 1]
    /\ srv' = [srv EXCEPT ![c] = None]
    /\ told' = told \ {c}
    /\ Goto(c, IF retries[c] = 1 THEN "gave up" ELSE "lock")

End(c, label) ==
    /\ Goto(c, label)
    /\ srv' = [srv EXCEPT ![c] = None]
    /\ told' = told \ {c}
    /\ UNCHANGED retries

-----------------------------------------------------------------------------
(* The command: setup_bitbake.                                              *)

Begin(c) ==
    /\ pc[c] = "absent" /\ kind[c] # "nobody"
    /\ Goto(c, "lock")
    /\ UNCHANGED <<Rigid, retries, srv, told, spc, lockers, sock, Connections, faults, litter>>

\* lockBitbake takes the lock without waiting, or else there is a server.
lockBitbake(c) ==
    /\ pc[c] = "lock"
    /\ IF lockers = {} THEN Goto(c, "got") /\ lockers' = {c}
                      ELSE Goto(c, "reconnect") /\ UNCHANGED lockers
    /\ UNCHANGED <<Rigid, retries, srv, told, spc, sock, Connections, faults, litter>>

\* There is no server to terminate.
NoServer(c) ==
    /\ pc[c] = "got" /\ kind[c] = "kill"
    /\ End(c, "done")
    /\ lockers' = lockers \ {c}
    /\ UNCHANGED <<Rigid, spc, sock, Connections, faults, litter>>

Free == {s \in Server : spc[s] = "dead" /\ \A c \in Client : srv[c] # s}

\* BitBakeServer: createDaemon.  The server has the open lock file as well.
Fork(c) ==
    /\ pc[c] = "got" /\ kind[c] # "kill"
    /\ Free # {}
    /\ LET s == CHOOSE s \in Free : TRUE IN
          /\ srv' = [srv EXCEPT ![c] = s]
          /\ ServerGoto(s, "forked")
          /\ lockers' = lockers \cup {s}
    /\ Goto(c, "parent")
    /\ UNCHANGED <<Rigid, retries, told, sock, Connections, faults, litter>>

\* Mutant: the lock is given up with unlockfile.
X_CloseLock(c) ==
    /\ pc[c] = "parent"
    /\ Goto(c, "ready")
    /\ lockers' = {}
    /\ UNCHANGED <<Rigid, retries, srv, told, spc, sock, Connections, faults, litter>>

CloseLock(c) ==
    /\ pc[c] = "parent"
    /\ Goto(c, "ready")
    /\ lockers' = lockers \ {c}
    /\ UNCHANGED <<Rigid, retries, srv, told, spc, sock, Connections, faults, litter>>

\* The server says that it is ready,
Ready(c) ==
    /\ pc[c] = "ready" /\ c \in told
    /\ IF kind[c] = "server only" THEN End(c, "done")
       ELSE Goto(c, "connect") /\ UNCHANGED <<retries, srv, told>>
    /\ UNCHANGED <<Rigid, spc, lockers, sock, Connections, faults, litter>>

\* it ends without,
NotReady(c) ==
    /\ pc[c] = "ready" /\ c \notin told /\ spc[srv[c]] = "dead"
    /\ Retry(c)
    /\ UNCHANGED <<Rigid, spc, lockers, sock, Connections, faults, litter>>

\* or it takes more than 95 seconds.
ReadyLate(c) ==
    /\ pc[c] = "ready" /\ c \notin told /\ spc[srv[c]] # "dead"
    /\ Retry(c)
    /\ UNCHANGED <<Rigid, spc, lockers, sock, Connections, faults, litter>>

\* Somebody has the lock: is there a socket?
Reconnect(c) ==
    /\ pc[c] = "reconnect"
    /\ IF sock = None THEN Goto(c, "poll") /\ UNCHANGED <<retries, srv, told>>
       ELSE IF kind[c] = "server only" THEN End(c, "done")
       ELSE Goto(c, "connect") /\ UNCHANGED <<retries, srv, told>>
    /\ UNCHANGED <<Rigid, spc, lockers, sock, Connections, faults, litter>>

\* There is not: the lock is tried for five seconds.
Poll(c) ==
    /\ pc[c] = "poll" /\ lockers = {}
    /\ Goto(c, "polled")
    /\ lockers' = {c}
    /\ UNCHANGED <<Rigid, retries, srv, told, spc, sock, Connections, faults, litter>>

Polled(c) ==
    /\ pc[c] = "polled"
    /\ Retry(c)
    /\ lockers' = lockers \ {c}
    /\ UNCHANGED <<Rigid, spc, sock, Connections, faults, litter>>

\* Five seconds are over.
PollOver(c) ==
    /\ pc[c] = "poll"
    /\ Retry(c)
    /\ UNCHANGED <<Rigid, spc, lockers, sock, Connections, faults, litter>>

-----------------------------------------------------------------------------
(* The command: connectProcessServer, and the session.                      *)

\* connect, sendfds, and the command setFeatures, which goes to a pipe.
Connect(c) ==
    /\ pc[c] = "connect"
    /\ IF sock \in Listening
       THEN /\ Len(backlog[sock]) < MaxBacklog
            /\ backlog' = [backlog EXCEPT ![sock] = Append(@, c)]
            /\ Goto(c, "reply")
            /\ srv' = [srv EXCEPT ![c] = sock]
            /\ UNCHANGED <<retries, told>>
       ELSE Retry(c) /\ UNCHANGED backlog
    /\ UNCHANGED <<Rigid, spc, lockers, sock, newconns, ctrl, haveui, hadanyui, broken,
                   faults, litter>>

\* The backlog is full, and connect fails at once (EAGAIN).
BacklogFull(c) ==
    /\ pc[c] = "connect"
    /\ sock \in Listening /\ Len(backlog[sock]) >= MaxBacklog
    /\ Retry(c)
    /\ UNCHANGED <<Rigid, spc, lockers, sock, Connections, faults, litter>>

\* The server has closed the connection or is dead.
Refused(c) ==
    /\ pc[c] = "reply" /\ c \notin Linked(srv[c])
    /\ Retry(c)
    /\ UNCHANGED <<Rigid, spc, lockers, sock, Connections, faults, litter>>

\* There is no reply within sixty seconds.
ReplyLate(c) ==
    /\ pc[c] = "reply" /\ c \in Linked(srv[c])
    /\ Retry(c)
    /\ HangUp(c, Gone)
    /\ UNCHANGED <<Rigid, spc, lockers, sock, faults, litter>>

\* The session is over, on either side.  terminateServer is sent and all is closed.
Finish(c) ==
    /\ pc[c] = "served"
    /\ End(c, "done")
    /\ HangUp(c, IF kind[c] = "kill" THEN Term ELSE Gone)
    /\ UNCHANGED <<Rigid, spc, lockers, sock, faults, litter>>

\* The user ends the command.
Kill(c) ==
    /\ pc[c] \notin {"absent", "done", "gave up"}
    /\ Fault
    /\ End(c, "done")
    /\ HangUp(c, Gone)
    /\ lockers' = lockers \ {c}
    /\ UNCHANGED <<Rigid, spc, sock, litter>>

-----------------------------------------------------------------------------
(* The server: execServer, up to the loop.                                  *)

RemoveSocket(s) ==
    /\ spc[s] = "forked"
    /\ ServerGoto(s, "bind")
    /\ sock' = None
    /\ litter' = FALSE
    /\ UNCHANGED <<Rigid, Clients, lockers, Connections, faults>>

Bind(s) ==
    /\ spc[s] = "bind"
    /\ ServerGoto(s, "boot")
    /\ sock' = s
    /\ UNCHANGED <<Rigid, Clients, lockers, Connections, faults, litter>>

\* Who started it and still has the other end of its pipe.
Starters(s) == {c \in Client : srv[c] = s /\ pc[c] \in {"parent", "ready"}}

\* The cooker is made and the command is told.
Started(s) ==
    /\ spc[s] = "boot" /\ Starters(s) # {}
    /\ ServerGoto(s, "loop")
    /\ told' = told \cup Starters(s)
    /\ UNCHANGED <<Rigid, pc, retries, srv, lockers, sock, Connections, faults, litter>>

\* The process ends: whatever it had open is closed.  Its files stay.
Dies(s) ==
    /\ ServerGoto(s, "dead")
    /\ lockers' = lockers \ {s}
    /\ sock' = IF sock = s THEN Stale ELSE sock
    /\ backlog' = [backlog EXCEPT ![s] = <<>>]
    /\ newconns' = [newconns EXCEPT ![s] = <<>>]
    /\ ctrl' = [ctrl EXCEPT ![s] = None]
    /\ haveui' = [haveui EXCEPT ![s] = FALSE]
    /\ hadanyui' = [hadanyui EXCEPT ![s] = FALSE]
    /\ broken' = broken \ {s}

\* The cooker cannot be made; or it is, but the command that started the server has
\* given up waiting, or was killed, and the pipe to it is broken.
NotStarted(s) ==
    /\ spc[s] = "boot"
    /\ Dies(s)
    /\ litter' = TRUE
    /\ UNCHANGED <<Rigid, Clients, faults>>

\* Where a server is when its socket file is there.
Bound == {"boot", "loop", "stat", "unlink"}

\* The process is killed.
Crash(s) ==
    /\ spc[s] # "dead"
    /\ Fault
    /\ Dies(s)
    /\ litter' = (litter \/ spc[s] \in Bound)
    /\ UNCHANGED <<Rigid, Clients>>

-----------------------------------------------------------------------------
(* ProcessServer.main.                                                      *)

Accept(s) ==
    /\ spc[s] = "loop" /\ backlog[s] # <<>>
    /\ backlog' = [backlog EXCEPT ![s] = Tail(@)]
    /\ IF ctrl[s] = None
       THEN ctrl' = [ctrl EXCEPT ![s] = Head(backlog[s])] /\ UNCHANGED newconns
       ELSE newconns' = [newconns EXCEPT ![s] = Append(@, Head(backlog[s]))] /\ UNCHANGED ctrl
    /\ UNCHANGED <<Rigid, Clients, spc, lockers, sock, haveui, hadanyui, broken,
                   faults, litter>>

\* recvfds: the pipes arrive, even of a client that has gone since.
Receive(s) ==
    /\ spc[s] = "loop" /\ ctrl[s] # None /\ ~haveui[s]
    /\ haveui' = [haveui EXCEPT ![s] = TRUE]
    /\ hadanyui' = [hadanyui EXCEPT ![s] = TRUE]
    /\ UNCHANGED <<Rigid, Clients, spc, lockers, sock, backlog, newconns, ctrl, broken,
                   faults, litter>>

\* setFeatures is run and answered.
Reply(s) ==
    /\ spc[s] = "loop" /\ haveui[s] /\ ctrl[s] \in Client /\ pc[ctrl[s]] = "reply"
    /\ Goto(ctrl[s], "served")
    /\ UNCHANGED <<Rigid, retries, srv, told, spc, lockers, sock, Connections, faults, litter>>

\* disconnect_client: the last that came is next, or the server is not needed any
\* more.  It leaves as well when commands are still running after thirty seconds.
disconnect_client(s, idle) ==
    /\ haveui' = [haveui EXCEPT ![s] = FALSE]
    /\ IF newconns[s] # <<>> /\ idle
       THEN /\ ctrl' = [ctrl EXCEPT ![s] = newconns[s][Len(newconns[s])]]
            /\ newconns' = [newconns EXCEPT ![s] = SubSeq(@, 1, Len(@) - 1)]
            /\ UNCHANGED spc
       ELSE /\ ctrl' = [ctrl EXCEPT ![s] = None]
            /\ UNCHANGED newconns
            /\ IF ~idle \/ (timeout = "none" /\ backlog[s] = <<>>)
               THEN ServerGoto(s, "stat") ELSE UNCHANGED spc

\* Mutant: a client that closes is not seen once its pipes were received.
X_Disconnect(s) ==
    /\ spc[s] = "loop" /\ ctrl[s] \in {Gone, Term} /\ ~haveui[s]
    /\ UNCHANGED faults
    /\ disconnect_client(s, TRUE)
    /\ UNCHANGED <<Rigid, Clients, lockers, sock, backlog, hadanyui, broken, litter>>

\* The client has closed its socket, or its pipe.  When both the order to terminate
\* and the end of the socket are there, the socket is looked at first.
Disconnect(s) ==
    /\ spc[s] = "loop" /\ ctrl[s] \in {Gone, Term}
    /\ \/ UNCHANGED faults /\ disconnect_client(s, TRUE)
       \/ haveui[s] /\ Fault /\ disconnect_client(s, FALSE)
    /\ UNCHANGED <<Rigid, Clients, lockers, sock, backlog, hadanyui, broken, litter>>

\* terminateServer was read before the socket was closed.
Terminate(s) ==
    /\ spc[s] = "loop" /\ haveui[s] /\ ctrl[s] = Term
    /\ ServerGoto(s, "stat")
    /\ UNCHANGED <<Rigid, Clients, lockers, sock, Connections, faults, litter>>

\* Mutant: whether there is a user is not asked.
X_Expire(s) ==
    /\ spc[s] = "loop"
    /\ timeout = "some" \/ (timeout = "none" /\ ~hadanyui[s])
    /\ ServerGoto(s, "stat")
    /\ UNCHANGED <<Rigid, Clients, lockers, sock, Connections, faults, litter>>

\* There was no client for the timeout, or never one for maxuiwait.  One
\* may have come just now.
Expire(s) ==
    /\ spc[s] = "loop" /\ ~haveui[s]
    /\ timeout = "some" \/ (timeout = "none" /\ ~hadanyui[s])
    /\ ServerGoto(s, "stat")
    /\ UNCHANGED <<Rigid, Clients, lockers, sock, Connections, faults, litter>>

\* The idle thread ended with an exception.
Broken(s) ==
    /\ spc[s] = "loop"
    /\ Fault
    /\ ServerGoto(s, "stat")
    /\ broken' = broken \cup {s}
    /\ UNCHANGED <<Rigid, Clients, lockers, sock, backlog, newconns, ctrl, haveui, hadanyui,
                   litter>>

-----------------------------------------------------------------------------
(* The end of the server.                                                   *)

\* The socket file is its own: the same inode.
Stat(s) ==
    /\ spc[s] = "stat"
    /\ ServerGoto(s, IF sock = s THEN "unlink" ELSE "close")
    /\ UNCHANGED <<Rigid, Clients, lockers, sock, Connections, faults, litter>>

\* Mutant: the socket file is left.
X_Unlink(s) ==
    /\ spc[s] = "unlink"
    /\ ServerGoto(s, "close")
    /\ UNCHANGED <<Rigid, Clients, lockers, sock, Connections, faults, litter>>

Unlink(s) ==
    /\ spc[s] = "unlink"
    /\ ServerGoto(s, "close")
    /\ sock' = None
    /\ UNCHANGED <<Rigid, Clients, lockers, Connections, faults, litter>>

\* Who waits in the backlog is refused.  Then the cooker shuts down.
CloseSocket(s) ==
    /\ spc[s] = "close"
    /\ ServerGoto(s, "release")
    /\ backlog' = [backlog EXCEPT ![s] = <<>>]
    /\ UNCHANGED <<Rigid, Clients, lockers, sock, newconns, ctrl, haveui, hadanyui, broken,
                   faults, litter>>

\* lock.close()
Release(s) ==
    /\ spc[s] = "release"
    /\ ServerGoto(s, "relock")
    /\ lockers' = lockers \ {s}
    /\ UNCHANGED <<Rigid, Clients, sock, Connections, faults, litter>>

\* The lock is taken again, to remove the file.
Relock(s) ==
    /\ spc[s] = "relock" /\ lockers = {}
    /\ ServerGoto(s, "relocked")
    /\ lockers' = {s}
    /\ UNCHANGED <<Rigid, Clients, sock, Connections, faults, litter>>

\* Somebody has it, and the comparison of the pid in the file raises TypeError,
\* whether or not there is a new server; or a command that waited removed the file.
Leave(s) ==
    /\ spc[s] = "relock"
    /\ Dies(s)
    /\ UNCHANGED <<Rigid, Clients, faults, litter>>

RemoveLock(s) ==
    /\ spc[s] = "relocked"
    /\ Dies(s)
    /\ UNCHANGED <<Rigid, Clients, faults, litter>>

-----------------------------------------------------------------------------

ClientStep(c) ==
    \/ lockBitbake(c) \/ NoServer(c) \/ Fork(c) \/ CloseLock(c)
    \/ Ready(c) \/ NotReady(c) \/ Reconnect(c) \/ Poll(c) \/ Polled(c) \/ PollOver(c)
    \/ Connect(c) \/ BacklogFull(c) \/ Refused(c) \/ Finish(c)

ServerStep(s) ==
    \/ RemoveSocket(s) \/ Bind(s) \/ Started(s) \/ NotStarted(s)
    \/ Accept(s) \/ Receive(s) \/ Reply(s)
    \/ Disconnect(s) \/ Terminate(s) \/ Expire(s) \/ Stat(s) \/ Unlink(s)
    \/ CloseSocket(s) \/ Release(s) \/ Relock(s) \/ Leave(s) \/ RemoveLock(s)

ClientLate(c) == ReadyLate(c) \/ ReplyLate(c) \/ Kill(c)
ServerFault(s) == Crash(s) \/ Broken(s)

Next ==
    \/ \E c \in Client : Begin(c) \/ ClientStep(c) \/ ClientLate(c)
    \/ \E s \in Server : ServerStep(s) \/ ServerFault(s)

Spec == Init /\ [][Next]_vars
FairSpec == Spec /\ (\A c \in Client : WF_vars(ClientStep(c)))
                 /\ (\A s \in Server : WF_vars(ServerStep(s)))

-----------------------------------------------------------------------------
(* Properties.                                                              *)

\* A server that can be talked to has the lock of the build directory, and the socket
\* file in it is its own.  So there is one server at most, and who finds the lock
\* taken and a socket file talks to the one that has the lock, or to nobody.
ServerReachable ==
    \A s \in Server :
        /\ spc[s] \in Bound => s \in lockers /\ sock = s
        /\ spc[s] \in {"forked", "bind", "close", "release"} => s \in lockers

\* A session is not cut off: the server of a command that was answered goes on, and
\* for this command, until it is killed or breaks down.
SessionKept ==
    \A c \in Client : pc[c] = "served" =>
        \/ spc[srv[c]] = "loop" /\ ctrl[srv[c]] = c /\ haveui[srv[c]]
        \/ spc[srv[c]] = "dead" \/ srv[c] \in broken

\* A command that finds a socket file finds a server that listens on it, and nothing is
\* left of the servers that ended by themselves.  Only a server that was killed, or that
\* ended before its loop, leaves its file, and the next one that starts removes it.
NoLitter == sock = None \/ sock \in Listening \/ litter

\* Every command ends, although its server may end at any time, and so does every
\* server, except one that was told to stay; it has then nobody to serve.
EveryoneEnds ==
    <>[](/\ \A c \in Client : pc[c] \in {"absent", "done", "gave up"}
         /\ \A s \in Server :
               spc[s] = "dead" \/ (timeout = "never" /\ spc[s] = "loop" /\ Linked(s) = {None}))
=============================================================================
