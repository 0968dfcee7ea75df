------------------------------- MODULE Server -------------------------------
(***************************************************************************)
(* The BitBake server of a build directory and the commands that use it    *)
(* (bb.server.process, setup_bitbake, bb.command).  A client takes the     *)
(* lock bitbake.lock and starts a server, which then holds it, or connects *)
(* to bitbake.sock and tries again when that fails.  The server's main     *)
(* loop serves one client at a time; an idle thread runs its asynchronous  *)
(* commands.  Without a timeout a server ends with its last client.        *)
(***************************************************************************)
EXTENDS Integers, Sequences, FiniteSets

CONSTANTS
    Clients,    \* bitbake processes in one build directory
    Servers,    \* numbers for server processes, which are used again
    NoOne,
    Tries,      \* how often a client tries (8)
    Settings,   \* pairs of each client's commands, sequences of "query", "build"
                \* and "kill", and whether BB_SERVER_TIMEOUT is set
    MaxFaults   \* bound: killed processes, errors, interrupts, and waits for a
                \* process that is not stuck that time out

ASSUME ServerAssumption ==
    /\ Servers \subseteq Nat /\ Clients \cap Servers = {}
    /\ NoOne \notin Clients \cup Servers
    /\ Tries \in Nat \ {0} /\ MaxFaults \in Nat
    /\ Settings \subseteq [Clients -> Seq({"query", "build", "kill"}) \ {<<>>}] \X BOOLEAN

\* A client's connection of its n-th try, and its n-th command.
Conns == Clients \X (1..Tries)
NoConn == <<NoOne, 0>>

VARIABLES
    plan,       \* of the settings: the commands, and whether a server stays
    stays,      \* without a client until the timeout
    lock,       \* who holds bitbake.lock
    written,    \* the server that bitbake.lock names
    socket,     \* the server whose socket bitbake.sock is, or was
    server, client, conn,
    faults

settings == <<plan, stays>>
files == <<lock, written, socket>>
vars == <<settings, files, server, client, conn, faults>>

\* main      off, ready, serve, set, drop, close, release
\* hold      controllersock
\* queue     newconnections
\* ui        the client with the command channel; hadui: hadanyui
\* cmd       currentAsyncCommand
\* funs      _idlefuns: "run" is runAsyncCommand, "build" buildTargetsIdle
\* fires     the command whose end the idle thread has yet to tell; ends: it
\*           removes runAsyncCommand after that
\* unsent    ui_queue: what was fired while there was no client
NoServer == [main |-> "off", quit |-> FALSE, hold |-> NoConn, queue |-> <<>>,
             ui |-> NoConn, hadui |-> FALSE, cmd |-> NoConn, funs |-> {},
             state |-> "initial", fires |-> NoConn, ends |-> FALSE, unsent |-> <<>>]

\* to        the server; server and client: their ends are open; fds: not read
NoLink == [to |-> NoOne, server |-> FALSE, accepted |-> FALSE, client |-> FALSE,
           fds |-> FALSE, cmds |-> <<>>, replies |-> <<>>, events |-> <<>>]

NoClient == [pc |-> "lock", try |-> 1, done |-> 0, interrupted |-> FALSE]

Init ==
    /\ \E setting \in Settings : plan = setting[1] /\ stays = setting[2]
    /\ lock = NoOne /\ written = NoOne /\ socket = NoOne
    /\ server = [s \in Servers |-> NoServer]
    /\ client = [c \in Clients |-> NoClient]
    /\ conn = [i \in Conns |-> NoLink]
    /\ faults = 0

Mine(c) == <<c, client[c].try>>
Job(c) == plan[c][client[c].done + 1]
Goes(c, pc) == client' = [client EXCEPT ![c].pc = pc]
Becomes(s, main) == server' = [server EXCEPT ![s].main = main]

\* One end of a connection closes: what it had not read is lost.
Left(k) ==
    IF k.server THEN [k EXCEPT !.client = FALSE, !.replies = <<>>, !.events = <<>>] ELSE NoLink
Shut(k) ==
    IF k.client THEN [k EXCEPT !.server = FALSE, !.fds = FALSE, !.cmds = <<>>] ELSE NoLink
Drops(c) == conn' = [conn EXCEPT ![Mine(c)] = Left(@)]
Answer(k, reply) == IF k.client THEN [k EXCEPT !.replies = Append(@, reply)] ELSE k
Tell(k, ended) == IF k.client THEN [k EXCEPT !.events = @ \o ended] ELSE k

Faulty == faults < MaxFaults /\ faults' = faults + 1

\* The next try, or the last has failed (bb.fatal).
Again(c) ==
    client' = [client EXCEPT ![c].pc = IF client[c].try = Tries THEN "fatal" ELSE "lock",
                             ![c].try = IF @ = Tries THEN @ ELSE @ + 1]

-----------------------------------------------------------------------------
(* setup_bitbake *)

\* lockBitbake: who gets the lock starts a server, unless it is to end one.
Lock(c) ==
    /\ client[c].pc = "lock" /\ lock = NoOne
    /\ IF Job(c) = "kill"
       THEN Goes(c, "done") /\ UNCHANGED lock
       ELSE Goes(c, "start") /\ lock' = c
    /\ UNCHANGED <<settings, written, socket, server, conn, faults>>

NoLock(c) ==
    /\ client[c].pc = "lock" /\ lock # NoOne
    /\ Goes(c, IF socket = NoOne THEN "wait" ELSE "connect")
    /\ UNCHANGED <<settings, files, server, conn, faults>>

\* No socket: who gets the lock lets it go again and tries anew.
Wait(c) ==
    /\ client[c].pc = "wait" /\ lock = NoOne
    /\ lock' = c
    /\ Goes(c, "unlock")
    /\ UNCHANGED <<settings, written, socket, server, conn, faults>>

Unlock(c) ==
    /\ client[c].pc = "unlock"
    /\ lock' = NoOne /\ written' = NoOne
    /\ Again(c)
    /\ UNCHANGED <<settings, socket, server, conn, faults>>

WaitTimesOut(c) ==
    /\ client[c].pc = "wait" /\ Faulty
    /\ Again(c)
    /\ UNCHANGED <<settings, files, server, conn>>

\* BitBakeServer: the daemon keeps the lock, and binds its socket; one that is
\* there was left by a server that was killed.
Start(c, s) ==
    /\ client[c].pc = "start"
    /\ server[s].main = "off" /\ \A t \in Servers : server[t].main = "off" => s <= t
    /\ lock' = s /\ socket' = s
    /\ server' = [server EXCEPT ![s] = [NoServer EXCEPT !.main = "ready", !.ui = Mine(c)]]
    /\ Goes(c, "starting")
    /\ UNCHANGED <<settings, written, conn, faults>>

Listens == {"ready", "serve", "set", "drop"}

\* connectProcessServer, up to the reply to setFeatures
Connect(c) ==
    /\ client[c].pc = "connect"
    /\ socket # NoOne /\ server[socket].main \in Listens
    /\ conn' = [conn EXCEPT ![Mine(c)] =
                   [NoLink EXCEPT !.to = socket, !.server = TRUE, !.client = TRUE,
                                  !.fds = TRUE, !.cmds = <<"features">>]]
    /\ Goes(c, "reply")
    /\ UNCHANGED <<settings, files, server, faults>>

Refused(c) ==
    /\ client[c].pc = "connect"
    /\ socket # NoOne => server[socket].main \notin Listens
    /\ Again(c)
    /\ UNCHANGED <<settings, files, server, conn, faults>>

Connected(c) ==
    /\ client[c].pc = "reply" /\ conn[Mine(c)].replies # <<>>
    /\ conn' = [conn EXCEPT ![Mine(c)].replies = Tail(@)]
    /\ Goes(c, "connected")
    /\ UNCHANGED <<settings, files, server, faults>>

\* EOF, or no reply in 60 seconds
NoReply(c) ==
    /\ client[c].pc = "reply" /\ conn[Mine(c)].replies = <<>>
    /\ Again(c)
    /\ Drops(c)
    /\ UNCHANGED <<settings, files, server>>

ConnectEnds(c) == ~conn[Mine(c)].server /\ NoReply(c) /\ UNCHANGED faults
ReplyTimesOut(c) == conn[Mine(c)].server /\ NoReply(c) /\ Faulty

-----------------------------------------------------------------------------
(* The user interface *)

\* A command is sent; to kill a server, it is sent and the connection closed.
Send(c) ==
    /\ client[c].pc = "connected"
    /\ LET sent == IF conn[Mine(c)].server
                   THEN [conn[Mine(c)] EXCEPT !.cmds = Append(@, Job(c))]
                   ELSE conn[Mine(c)]
       IN  conn' = [conn EXCEPT ![Mine(c)] = IF Job(c) = "kill" THEN Left(sent) ELSE sent]
    /\ Goes(c, IF Job(c) = "kill" THEN "done" ELSE "sent")
    /\ UNCHANGED <<settings, files, server, faults>>

\* The reply to the command: it runs now, or the server is busy.
Replied(c) ==
    /\ client[c].pc = "sent" /\ conn[Mine(c)].replies # <<>>
    /\ IF Head(conn[Mine(c)].replies) = "ok"
       THEN conn' = [conn EXCEPT ![Mine(c)].replies = <<>>] /\ Goes(c, "running")
       ELSE Drops(c) /\ Goes(c, "refused")
    /\ UNCHANGED <<settings, files, server, faults>>

\* Control-C, once: stateShutdown
Interrupt(c) ==
    /\ client[c].pc = "running" /\ ~client[c].interrupted
    /\ conn[Mine(c)].server /\ Faulty
    /\ client' = [client EXCEPT ![c].interrupted = TRUE]
    /\ conn' = [conn EXCEPT ![Mine(c)].cmds = Append(@, "shutdown")]
    /\ UNCHANGED <<settings, files, server>>

\* CommandCompleted or CommandFailed: the next command, or the end.
Completed(c) ==
    /\ client[c].pc = "running" /\ conn[Mine(c)].events # <<>>
    /\ LET last == client[c].done + 1 = Len(plan[c])
           read == [conn[Mine(c)] EXCEPT !.events = Tail(@)]
       IN  /\ client' = [client EXCEPT ![c].done = IF last THEN @ ELSE @ + 1,
                                       ![c].pc = IF last THEN "done" ELSE "connected"]
           /\ conn' = [conn EXCEPT ![Mine(c)] = IF last THEN Left(read) ELSE read]
    /\ UNCHANGED <<settings, files, server, faults>>

ServerGone(c) ==
    /\ client[c].pc \in {"sent", "running"} /\ ~conn[Mine(c)].server
    /\ conn[Mine(c)].replies = <<>> /\ conn[Mine(c)].events = <<>>
    /\ Goes(c, "lost")
    /\ Drops(c)
    /\ UNCHANGED <<settings, files, server, faults>>

Ended == {"done", "fatal", "lost", "refused", "dead"}

ClientDies(c) ==
    /\ client[c].pc \notin Ended /\ Faulty
    /\ lock' = IF lock = c THEN NoOne ELSE lock
    /\ Goes(c, "dead")
    /\ Drops(c)
    /\ UNCHANGED <<settings, written, socket, server>>

-----------------------------------------------------------------------------
(* execServer *)

Starter(s) == server[s].ui[1]

\* The cooker is there; the client that waits for this is told.
Ready(s) ==
    /\ server[s].main = "ready" /\ client[Starter(s)].pc = "starting"
    /\ written' = s
    /\ server' = [server EXCEPT ![s].main = "serve", ![s].ui = NoConn]
    /\ Goes(Starter(s), "connect")
    /\ UNCHANGED <<settings, lock, socket, conn, faults>>

\* A server process ends: its ends of connections close.
Exit(s) ==
    /\ server' = [server EXCEPT ![s] = NoServer]
    /\ conn' = [i \in Conns |-> IF conn[i].to = s THEN Shut(conn[i]) ELSE conn[i]]

\* The configuration cannot be read, or the client that would be told is gone:
\* the server exits, and its lock drops.
Fail(s) ==
    /\ server[s].main = "ready"
    /\ Exit(s)
    /\ lock' = NoOne
    /\ \/ client[Starter(s)].pc = "starting" /\ Again(Starter(s)) /\ Faulty
       \/ client[Starter(s)].pc # "starting" /\ UNCHANGED <<client, faults>>
    /\ UNCHANGED <<settings, written, socket>>
StartFails(s) ==
    server[s].main = "ready" /\ client[Starter(s)].pc # "starting" /\ Fail(s)

ServerDies(s) ==
    /\ server[s].main \notin {"off", "ready"} /\ Faulty
    /\ Exit(s)
    /\ lock' = IF lock = s THEN NoOne ELSE lock
    /\ UNCHANGED <<settings, written, socket, client>>

-----------------------------------------------------------------------------
(* ProcessServer.main *)

Serves(s) == server[s].main = "serve" /\ ~server[s].quit
Backlog(s) == {i \in Conns : conn[i].to = s /\ conn[i].server /\ ~conn[i].accepted}
IdleCheck(s) == server[s].funs = {} /\ server[s].cmd = NoConn
Around == <<settings, files, client>>

Accept(s) ==
    /\ Serves(s)
    /\ \E i \in Backlog(s) :
          /\ conn' = [conn EXCEPT ![i].accepted = TRUE]
          /\ server' = IF server[s].hold = NoConn
                       THEN [server EXCEPT ![s].hold = i]
                       ELSE [server EXCEPT ![s].queue = Append(@, i)]
    /\ UNCHANGED <<Around, faults>>

\* The pipes of a client come over its connection; it is the user interface.
Register(s) ==
    /\ Serves(s) /\ server[s].hold # NoConn /\ conn[server[s].hold].fds
    /\ server' = [server EXCEPT ![s].ui = server[s].hold, ![s].hadui = TRUE]
    /\ conn' = [conn EXCEPT ![server[s].hold].fds = FALSE]
    /\ UNCHANGED <<Around, faults>>

\* disconnect_client: EOF on the connection, which may hide a command, or on
\* the command channel.  The connection goes first ...
Disconnect(s) ==
    /\ Serves(s)
    /\ LET hold == server[s].hold
           ui == server[s].ui
       IN  /\ \/ hold # NoConn /\ ~conn[hold].fds /\ ~conn[hold].client
              \/ ui # NoConn /\ conn[ui].cmds = <<>> /\ ~conn[ui].client
           /\ server' = [server EXCEPT ![s].main = "drop", ![s].hold = NoConn]
    /\ UNCHANGED <<Around, conn, faults>>

\* ... and when the idle thread has nothing left, or 30 seconds have passed,
\* the user interface goes, the cooker is reset (clientComplete), and the latest
\* connection that waits is taken.  With none, and no timeout, the server ends.
Dropped(s, quits, state) ==
    LET old == server[s]
        takes == old.queue # <<>> /\ ~quits
        rest == IF takes THEN SubSeq(old.queue, 1, Len(old.queue) - 1) ELSE old.queue
    IN  /\ server' = [server EXCEPT
               ![s].main = "serve", ![s].ui = NoConn, ![s].state = state,
               ![s].hold = IF takes THEN old.queue[Len(old.queue)] ELSE NoConn,
               ![s].queue = rest,
               ![s].quit = @ \/ quits \/ (~takes /\ ~stays /\ Backlog(s) = {})]
        /\ conn' = [conn EXCEPT ![old.ui] = Shut(@)]
        /\ UNCHANGED Around

\* Faulty variants: the idle thread is not waited for, or the cooker not reset.
DropAtOnce(s) ==
    /\ server[s].main = "drop"
    /\ Dropped(s, server[s].quit, "initial") /\ UNCHANGED faults
DropKeepsState(s) ==
    /\ server[s].main = "drop" /\ IdleCheck(s)
    /\ Dropped(s, server[s].quit, server[s].state) /\ UNCHANGED faults

Drop(s) ==
    /\ server[s].main = "drop" /\ IdleCheck(s)
    /\ Dropped(s, server[s].quit, "initial") /\ UNCHANGED faults

DropTimesOut(s) ==
    /\ server[s].main = "drop" /\ ~IdleCheck(s)
    /\ Dropped(s, TRUE, "initial") /\ UNCHANGED faults

\* runCommand: a synchronous command is done and answered, an asynchronous
\* one waits for the idle thread (set_async_cmd).
Command(s) ==
    /\ Serves(s) /\ server[s].ui # NoConn /\ conn[server[s].ui].cmds # <<>>
    /\ LET ui == server[s].ui
           command == Head(conn[ui].cmds)
           rest == [conn[ui] EXCEPT !.cmds = Tail(@)]
       IN  /\ conn' = [conn EXCEPT ![ui] = IF command = "features" THEN Answer(rest, "ok")
                                                                   ELSE rest]
           /\ server' = [server EXCEPT
                  ![s].state = IF command = "shutdown" THEN "shutdown" ELSE @,
                  ![s].quit = @ \/ command = "kill",
                  ![s].main = IF command \in {"query", "build"} THEN "set" ELSE @]
    /\ UNCHANGED <<Around, faults>>

\* The command is known by its client and its number.
SetCmd(s) ==
    LET ui == server[s].ui
    IN  /\ server' = [server EXCEPT ![s].main = "serve", ![s].funs = @ \cup {"run"},
                                    ![s].cmd = <<ui[1], client[ui[1]].done + 1>>]
        /\ conn' = [conn EXCEPT ![ui] = Answer(@, "ok")]
        /\ UNCHANGED <<Around, faults>>

\* Faulty variant: only the command is looked at, not the idle functions.
SetAsyncEarly(s) == server[s].main = "set" /\ server[s].cmd = NoConn /\ SetCmd(s)

SetAsync(s) == server[s].main = "set" /\ IdleCheck(s) /\ SetCmd(s)

Busy(s) ==
    /\ server[s].main = "set" /\ ~IdleCheck(s) /\ Faulty
    /\ Becomes(s, "serve")
    /\ conn' = [conn EXCEPT ![server[s].ui] = Answer(@, "busy")]
    /\ UNCHANGED Around

TimedOut(s) ==
    /\ Serves(s) /\ server[s].ui = NoConn
    /\ server' = [server EXCEPT ![s].quit = TRUE]
    /\ UNCHANGED <<Around, conn, faults>>

\* Faulty variant: only a server with a timeout ends without a client.
TimeOutWhenSet(s) == stays /\ TimedOut(s)

\* With a timeout: no client for so long.  Without: there never was one.
TimeOut(s) == (stays \/ ~server[s].hadui) /\ TimedOut(s)

\* The main loop is left, and the idle thread has ended.
Leaves(s) ==
    server[s].main = "serve" /\ server[s].quit /\ server[s].fires = NoConn /\ ~server[s].ends

\* The socket is removed, if it is this server's, and closed with all that has
\* not been accepted ...
Closed(s) ==
    conn' = [i \in Conns |-> IF i \in Backlog(s) THEN Shut(conn[i]) ELSE conn[i]]

Leave(s) ==
    /\ Leaves(s)
    /\ socket' = IF socket = s THEN NoOne ELSE socket
    /\ Closed(s)
    /\ Becomes(s, "close")
    /\ UNCHANGED <<settings, lock, written, client, faults>>

\* ... then the lock is released ...
Release(s) ==
    /\ server[s].main = "close"
    /\ lock' = NoOne
    /\ Becomes(s, "release")
    /\ UNCHANGED <<settings, written, socket, client, conn, faults>>

\* Faulty variant: the socket is removed last, whoever's it is by then.
GoneUnlinks(s) ==
    /\ server[s].main = "release"
    /\ lock = NoOne \/ written # s
    /\ written' = IF lock = NoOne THEN NoOne ELSE written
    /\ socket' = NoOne
    /\ Exit(s)
    /\ UNCHANGED <<settings, lock, client, faults>>

\* ... and the lock file removed, if no other process has the lock.  One that
\* has it is waited for until its server has written its number; an empty file
\* ends the wait too, by an exception.
Gone(s) ==
    /\ server[s].main = "release"
    /\ \/ lock = NoOne /\ written' = NoOne
       \/ lock # NoOne /\ written # s /\ UNCHANGED written
    /\ Exit(s)
    /\ UNCHANGED <<settings, lock, socket, client, faults>>

-----------------------------------------------------------------------------
(* The idle thread: its functions, one at a time *)

Works(s) ==
    server[s].main \in {"serve", "set", "drop"} /\ server[s].fires = NoConn /\ ~server[s].ends
Runs(s, fun) == Works(s) /\ ~server[s].quit /\ fun \in server[s].funs

\* finishAsyncCommand: the cooker is reset and the command cleared, which wakes
\* who waits for that; the event is still to be fired.
Finish(s, fun, ends) ==
    server' = [server EXCEPT ![s].funs = IF ends THEN @ ELSE @ \ {fun},
                             ![s].state = "initial", ![s].cmd = NoConn,
                             ![s].fires = server[s].cmd, ![s].ends = ends]

\* runAsyncCommand: a build goes on in buildTargetsIdle, a query ends at once,
\* and its function stays for a moment.
RunAsync(s) ==
    /\ Runs(s, "run")
    /\ LET cmd == server[s].cmd
           query == plan[cmd[1]][cmd[2]] = "query"
       IN  \/ server[s].state = "shutdown" /\ Finish(s, "run", FALSE)
           \/ server[s].state # "shutdown" /\ query /\ Finish(s, "run", TRUE)
           \/ /\ server[s].state # "shutdown" /\ ~query
              /\ server' = [server EXCEPT ![s].funs = {"build"}]
    /\ UNCHANGED <<Around, conn, faults>>

\* buildTargetsIdle, in the end; an exception in it ends the server.
Build(s) ==
    /\ Runs(s, "build")
    /\ Finish(s, "build", FALSE)
    /\ UNCHANGED <<Around, conn, faults>>

Breaks(s) ==
    /\ Runs(s, "build") /\ Faulty
    /\ server' = [server EXCEPT ![s].funs = {}, ![s].quit = TRUE]
    /\ UNCHANGED <<Around, conn>>

\* The end of the command is told to the user interface of this moment.
Fire(s) ==
    /\ server[s].fires # NoConn
    /\ LET ui == server[s].ui
           ended == Append(server[s].unsent, server[s].fires)
       IN  /\ server' = [server EXCEPT ![s].fires = NoConn,
                                       ![s].unsent = IF ui = NoConn THEN ended ELSE <<>>]
           /\ conn' = IF ui = NoConn THEN conn ELSE [conn EXCEPT ![ui] = Tell(@, ended)]
    /\ UNCHANGED <<Around, faults>>

RunEnds(s) ==
    /\ server[s].fires = NoConn /\ server[s].ends
    /\ server' = [server EXCEPT ![s].funs = @ \ {"run"}, ![s].ends = FALSE]
    /\ UNCHANGED <<Around, conn, faults>>

\* Any event that is fired brings those that were not sent.
Flush(s) ==
    /\ server[s].ui # NoConn /\ server[s].main # "ready" /\ server[s].unsent # <<>>
    /\ conn' = [conn EXCEPT ![server[s].ui] = Tell(@, server[s].unsent)]
    /\ server' = [server EXCEPT ![s].unsent = <<>>]
    /\ UNCHANGED <<Around, faults>>

-----------------------------------------------------------------------------
Acts(c) ==
    \/ Lock(c) \/ NoLock(c) \/ Wait(c) \/ Unlock(c) \/ (\E s \in Servers : Start(c, s))
    \/ Connect(c) \/ Refused(c) \/ Connected(c) \/ ConnectEnds(c)
    \/ Send(c) \/ Replied(c) \/ Completed(c) \/ ServerGone(c)
Loop(s) ==
    \/ Ready(s) \/ StartFails(s) \/ Accept(s) \/ Register(s) \/ Disconnect(s) \/ Drop(s)
    \/ Command(s) \/ SetAsync(s) \/ TimeOut(s) \/ Leave(s) \/ Release(s) \/ Gone(s)
IdleThread(s) == RunAsync(s) \/ Build(s) \/ Fire(s) \/ RunEnds(s) \/ Flush(s)

Next ==
    \/ \E c \in Clients :
          Acts(c) \/ WaitTimesOut(c) \/ ReplyTimesOut(c) \/ Interrupt(c) \/ ClientDies(c)
    \/ \E s \in Servers :
          Loop(s) \/ IdleThread(s) \/ DropTimesOut(s) \/ Busy(s)
          \/ Fail(s) \/ Breaks(s) \/ ServerDies(s)

Spec == Init /\ [][Next]_vars

\* Each process and thread goes on when it can, and a server that waits for a
\* client does so for no longer than it should; no other wait need time out,
\* and nothing need break or be killed.
FairSpec ==
    /\ Spec
    /\ \A c \in Clients : WF_vars(Acts(c))
    /\ \A s \in Servers : WF_vars(Loop(s)) /\ WF_vars(IdleThread(s))

-----------------------------------------------------------------------------
(* Properties *)

\* While a server listens, bitbake.sock is its socket: one that ends, or was
\* killed before, takes no other's away.
SocketStands == \A s \in Servers : server[s].main \in Listens => socket = s

\* A cooker that is shutting down does so for the client it serves: one that
\* the client before interrupted has been reset.
FreshCooker ==
    \A s \in Servers : server[s].state = "shutdown" =>
        server[s].ui # NoConn /\ client[server[s].ui[1]].interrupted

\* No client is taken while a command of the one before still runs.
OneAtATime ==
    [][\A s \in Servers :
          server'[s].hold # server[s].hold /\ server'[s].hold # NoConn
          => server[s].cmd = NoConn /\ server[s].funs = {}]_vars

\* Each client comes to an end, without any timeout of its own: no command is
\* lost, and no connection left unanswered.
ClientsEnd == \A c \in Clients : <>(client[c].pc \in Ended)

\* A server without a timeout does not stay when its clients are gone.
NoServerStays == ~stays => <>[](\A s \in Servers : server[s].main = "off")
=============================================================================
