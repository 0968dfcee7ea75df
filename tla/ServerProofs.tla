---------------------------- MODULE ServerProofs ----------------------------
(***************************************************************************)
(* Server, for any number of clients, servers, tries and faults: while a   *)
(* server listens its socket can be found, and no client is taken before   *)
(* the command of the last one is over.                                    *)
(*                                                                         *)
(* The first follows from who has the lock: a server from its start until  *)
(* it releases it, and a client while it starts one.  The second follows   *)
(* from what a main loop without a client knows of the idle thread.  That  *)
(* a cooker shuts down for the client it serves only follows from both     *)
(* ends: a client makes each connection once and a server takes its pipes  *)
(* once, so that the user interface does not change before the reset.      *)
(***************************************************************************)
EXTENDS Server, TLAPS

\* The functions and fields the arguments are about are there.
Fields == {"main", "quit", "hold", "ui", "cmd", "funs"}
Shape ==
    /\ DOMAIN server = Servers /\ \A s \in Servers : Fields \subseteq DOMAIN server[s]
    /\ DOMAIN client = Clients /\ \A c \in Clients : "pc" \in DOMAIN client[c]

\* A server has bitbake.lock from its start until it releases it, a client
\* while it starts one or tries anew.
Holds(s) == server[s].main \notin {"off", "release"}
HasLock(c) == client[c].pc \in {"start", "unlock"}
LockHeld ==
    /\ \A s \in Servers : Holds(s) => lock = s
    /\ \A c \in Clients : HasLock(c) => lock = c

LockInv == Shape /\ LockHeld /\ SocketStands

\* At first nobody has the lock.
LEMMA InitLock == Init => LockInv
BY ServerAssumption
   DEF Init, LockInv, Shape, Fields, LockHeld, Holds, HasLock, SocketStands, Listens,
       NoServer, NoClient

\* What a client does keeps it.
LEMMA ActsLock ==
    ASSUME LockInv, NEW c \in Clients, Acts(c) PROVE LockInv'
<1> USE ServerAssumption
        DEF LockInv, Shape, Fields, LockHeld, Holds, HasLock, SocketStands,
            settings, files, Goes
<1>1. CASE Lock(c)
  BY <1>1 DEF Lock
<1>2. CASE NoLock(c)
  BY <1>2 DEF NoLock
<1>3. CASE Wait(c)
  BY <1>3 DEF Wait
<1>4. CASE Unlock(c)
  BY <1>4 DEF Unlock, Again
<1>5. CASE \E s \in Servers : Start(c, s)
  BY <1>5 DEF Start, NoServer, Listens
<1>6. CASE Connect(c)
  BY <1>6 DEF Connect
<1>7. CASE Refused(c)
  BY <1>7 DEF Refused, Again
<1>8. CASE Connected(c)
  BY <1>8 DEF Connected
<1>9. CASE ConnectEnds(c)
  BY <1>9 DEF ConnectEnds, NoReply, Again
<1>10. CASE Send(c)
  BY <1>10 DEF Send
<1>11. CASE Replied(c)
  BY <1>11 DEF Replied
<1>12. CASE Completed(c)
  BY <1>12 DEF Completed
<1>13. CASE ServerGone(c)
  BY <1>13 DEF ServerGone
<1> QED
  BY <1>1, <1>2, <1>3, <1>4, <1>5, <1>6, <1>7, <1>8, <1>9, <1>10, <1>11, <1>12, <1>13
     DEF Acts

\* The main loop keeps it.
LEMMA LoopLock ==
    ASSUME LockInv, NEW s \in Servers, Loop(s) PROVE LockInv'
<1> USE ServerAssumption
        DEF LockInv, Shape, Fields, LockHeld, Holds, HasLock, SocketStands, Listens,
            settings, files, Around, Becomes
<1>1. CASE Ready(s)
  BY <1>1 DEF Ready, Goes, Starter
<1>2. CASE StartFails(s)
  BY <1>2 DEF StartFails, Fail, Exit, Again, NoServer
<1>3. CASE Accept(s)
  BY <1>3 DEF Accept
<1>4. CASE Register(s)
  BY <1>4 DEF Register
<1>5. CASE Disconnect(s)
  BY <1>5 DEF Disconnect, Serves
<1>6. CASE Drop(s)
  BY <1>6 DEF Drop, Dropped
<1>7. CASE Command(s)
  BY <1>7 DEF Command, Serves
<1>8. CASE SetAsync(s)
  BY <1>8 DEF SetAsync, SetCmd
<1>9. CASE TimeOut(s)
  BY <1>9 DEF TimeOut, TimedOut
<1>10. CASE Leave(s)
  BY <1>10 DEF Leave, Leaves, Closed
<1>11. CASE Release(s)
  BY <1>11 DEF Release
<1>12. CASE Gone(s)
  BY <1>12 DEF Gone, Exit, NoServer
<1> QED
  BY <1>1, <1>2, <1>3, <1>4, <1>5, <1>6, <1>7, <1>8, <1>9, <1>10, <1>11, <1>12 DEF Loop

\* So does the idle thread.
LEMMA IdleLock ==
    ASSUME LockInv, NEW s \in Servers, IdleThread(s) PROVE LockInv'
<1> USE ServerAssumption
        DEF LockInv, Shape, Fields, LockHeld, Holds, HasLock, SocketStands, Listens,
            settings, files, Around, Becomes
<1>1. CASE RunAsync(s)
  BY <1>1 DEF RunAsync, Finish
<1>2. CASE Build(s)
  BY <1>2 DEF Build, Finish
<1>3. CASE Fire(s)
  BY <1>3 DEF Fire
<1>4. CASE RunEnds(s)
  BY <1>4 DEF RunEnds
<1>5. CASE Flush(s)
  BY <1>5 DEF Flush
<1> QED
  BY <1>1, <1>2, <1>3, <1>4, <1>5 DEF IdleThread

\* So does a wait of a client that times out, an interrupt, or its death.
LEMMA ClientFaultLock ==
    ASSUME LockInv, NEW c \in Clients,
           WaitTimesOut(c) \/ ReplyTimesOut(c) \/ Interrupt(c) \/ ClientDies(c)
    PROVE  LockInv'
<1> USE ServerAssumption
        DEF LockInv, Shape, Fields, LockHeld, Holds, HasLock, SocketStands, Listens,
            settings, files, Around, Becomes
<1>1. CASE WaitTimesOut(c)
  BY <1>1 DEF WaitTimesOut, Again
<1>2. CASE ReplyTimesOut(c)
  BY <1>2 DEF ReplyTimesOut, NoReply, Again
<1>3. CASE Interrupt(c)
  BY <1>3 DEF Interrupt
<1>4. CASE ClientDies(c)
  BY <1>4 DEF ClientDies, Goes
<1> QED
  BY <1>1, <1>2, <1>3, <1>4

\* So does a wait of a server that times out, an error, or its death.
LEMMA ServerFaultLock ==
    ASSUME LockInv, NEW s \in Servers,
           DropTimesOut(s) \/ Busy(s) \/ Fail(s) \/ Breaks(s) \/ ServerDies(s)
    PROVE  LockInv'
<1> USE ServerAssumption
        DEF LockInv, Shape, Fields, LockHeld, Holds, HasLock, SocketStands, Listens,
            settings, files, Around, Becomes
<1>1. CASE DropTimesOut(s)
  BY <1>1 DEF DropTimesOut, Dropped
<1>2. CASE Busy(s)
  BY <1>2 DEF Busy
<1>3. CASE Fail(s)
  BY <1>3 DEF Fail, Exit, Again, NoServer
<1>4. CASE Breaks(s)
  BY <1>4 DEF Breaks
<1>5. CASE ServerDies(s)
  BY <1>5 DEF ServerDies, Exit, NoServer
<1> QED
  BY <1>1, <1>2, <1>3, <1>4, <1>5

\* Every step keeps it.
LEMMA NextLock == LockInv /\ [Next]_vars => LockInv'
<1> SUFFICES ASSUME LockInv, [Next]_vars PROVE LockInv'
  OBVIOUS
<1>1. CASE UNCHANGED vars
  BY <1>1 DEF vars, settings, files, LockInv, Shape, LockHeld, Holds, HasLock, SocketStands
<1>2. CASE Next
  BY <1>2, ActsLock, ClientFaultLock, LoopLock, IdleLock, ServerFaultLock DEF Next
<1> QED
  BY <1>1, <1>2

\* The lock is with the server that runs, or the client that is to start one or
\* to try anew: no two of them have it, whoever ends, dies or fails.
THEOREM LockInvariant == Spec => []LockInv
BY InitLock, NextLock, PTL DEF Spec

\* While a server listens, bitbake.sock is its socket.
THEOREM SocketInvariant == Spec => []SocketStands
BY LockInvariant, PTL DEF LockInv

-----------------------------------------------------------------------------
(* The main loop and the idle thread *)

\* A main loop that serves has the connection of its user interface; one that
\* has none, and goes on, has an idle thread with nothing to do.
IdleAlone ==
    \A s \in Servers :
       /\ server[s].main = "set" => server[s].hold # NoConn
       /\ server[s].main = "serve" /\ server[s].ui # NoConn => server[s].hold # NoConn
       /\ server[s].main \in {"ready", "serve"} /\ server[s].hold = NoConn /\ ~server[s].quit
             => IdleCheck(s)

IdleInv == Shape /\ IdleAlone

\* At first no server runs.
LEMMA InitIdle == Init => IdleInv
BY DEF Init, IdleInv, Shape, Fields, IdleAlone, NoServer, NoClient

\* What a client does leaves the servers alone, or starts one.
LEMMA ActsIdle ==
    ASSUME IdleInv, NEW c \in Clients, Acts(c) PROVE IdleInv'
<1> USE DEF IdleInv, Shape, Fields, IdleAlone, IdleCheck, settings, files, Around, Becomes,
            Goes
<1>1. CASE Lock(c)
  BY <1>1 DEF Lock
<1>2. CASE NoLock(c)
  BY <1>2 DEF NoLock
<1>3. CASE Wait(c)
  BY <1>3 DEF Wait
<1>4. CASE Unlock(c)
  BY <1>4 DEF Unlock, Again
<1>5. CASE \E s \in Servers : Start(c, s)
  BY <1>5 DEF Start, NoServer
<1>6. CASE Connect(c)
  BY <1>6 DEF Connect
<1>7. CASE Refused(c)
  BY <1>7 DEF Refused, Again
<1>8. CASE Connected(c)
  BY <1>8 DEF Connected
<1>9. CASE ConnectEnds(c)
  BY <1>9 DEF ConnectEnds, NoReply, Again
<1>10. CASE Send(c)
  BY <1>10 DEF Send
<1>11. CASE Replied(c)
  BY <1>11 DEF Replied
<1>12. CASE Completed(c)
  BY <1>12 DEF Completed
<1>13. CASE ServerGone(c)
  BY <1>13 DEF ServerGone
<1> QED
  BY <1>1, <1>2, <1>3, <1>4, <1>5, <1>6, <1>7, <1>8, <1>9, <1>10, <1>11, <1>12, <1>13
     DEF Acts

\* The main loop waits for the idle thread before it lets a client go.
LEMMA LoopIdle ==
    ASSUME IdleInv, NEW s \in Servers, Loop(s) PROVE IdleInv'
<1> USE DEF IdleInv, Shape, Fields, IdleAlone, IdleCheck, settings, files, Around, Becomes,
            Goes
<1>1. CASE Ready(s)
  BY <1>1 DEF Ready, Starter
<1>2. CASE StartFails(s)
  BY <1>2 DEF StartFails, Fail, Exit, Again, NoServer
<1>3. CASE Accept(s)
  BY <1>3 DEF Accept, Serves
<1>4. CASE Register(s)
  BY <1>4 DEF Register, Serves
<1>5. CASE Disconnect(s)
  BY <1>5 DEF Disconnect, Serves
<1>6. CASE Drop(s)
  <2> DEFINE old == server[s]
             takes == old.queue # <<>> /\ ~old.quit
             hold == IF takes THEN old.queue[Len(old.queue)] ELSE NoConn
             queue == IF takes THEN SubSeq(old.queue, 1, Len(old.queue) - 1) ELSE old.queue
             quit == old.quit \/ old.quit \/ (~takes /\ ~stays /\ Backlog(s) = {})
  <2>1. server' = [server EXCEPT ![s].main = "serve", ![s].ui = NoConn,
                                 ![s].state = "initial", ![s].hold = hold,
                                 ![s].queue = queue, ![s].quit = quit]
    BY <1>6 DEF Drop, Dropped
  <2>2. IdleCheck(s) /\ UNCHANGED client
    BY <1>6 DEF Drop, Dropped
  <2> HIDE DEF hold, queue, quit
  <2> QED
    BY <2>1, <2>2
<1>7. CASE Command(s)
  <2> DEFINE command == Head(conn[server[s].ui].cmds)
             state == IF command = "shutdown" THEN "shutdown" ELSE server[s].state
             quit == server[s].quit \/ command = "kill"
             main == IF command \in {"query", "build"} THEN "set" ELSE server[s].main
  <2>1. server' = [server EXCEPT ![s].state = state, ![s].quit = quit, ![s].main = main]
    BY <1>7 DEF Command
  <2>2. server[s].ui # NoConn /\ server[s].main = "serve" /\ server[s].hold # NoConn
    BY <1>7 DEF Command, Serves
  <2>3. UNCHANGED client
    BY <1>7 DEF Command
  <2>4. main \in {"set", server[s].main} /\ (~quit => ~server[s].quit)
    OBVIOUS
  <2> HIDE DEF state, quit, main
  <2> QED
    BY <2>1, <2>2, <2>3, <2>4
<1>8. CASE SetAsync(s)
  BY <1>8 DEF SetAsync, SetCmd
<1>9. CASE TimeOut(s)
  BY <1>9 DEF TimeOut, TimedOut, Serves
<1>10. CASE Leave(s)
  BY <1>10 DEF Leave, Leaves, Closed
<1>11. CASE Release(s)
  BY <1>11 DEF Release
<1>12. CASE Gone(s)
  BY <1>12 DEF Gone, Exit, NoServer
<1> QED
  BY <1>1, <1>2, <1>3, <1>4, <1>5, <1>6, <1>7, <1>8, <1>9, <1>10, <1>11, <1>12 DEF Loop

\* The idle thread begins nothing of its own.
LEMMA ThreadIdle ==
    ASSUME IdleInv, NEW s \in Servers, IdleThread(s) PROVE IdleInv'
<1> USE DEF IdleInv, Shape, Fields, IdleAlone, IdleCheck, settings, files, Around, Becomes,
            Goes
<1>1. CASE RunAsync(s)
  BY <1>1 DEF RunAsync, Runs, Works, Finish
<1>2. CASE Build(s)
  BY <1>2 DEF Build, Runs, Works, Finish
<1>3. CASE Fire(s)
  BY <1>3 DEF Fire
<1>4. CASE RunEnds(s)
  BY <1>4 DEF RunEnds
<1>5. CASE Flush(s)
  BY <1>5 DEF Flush
<1> QED
  BY <1>1, <1>2, <1>3, <1>4, <1>5 DEF IdleThread

\* A client that waits in vain, interrupts or dies leaves the servers alone.
LEMMA ClientFaultIdle ==
    ASSUME IdleInv, NEW c \in Clients,
           WaitTimesOut(c) \/ ReplyTimesOut(c) \/ Interrupt(c) \/ ClientDies(c)
    PROVE  IdleInv'
<1> USE DEF IdleInv, Shape, Fields, IdleAlone, IdleCheck, settings, files, Around, Becomes,
            Goes
<1>1. CASE WaitTimesOut(c)
  BY <1>1 DEF WaitTimesOut, Again
<1>2. CASE ReplyTimesOut(c)
  BY <1>2 DEF ReplyTimesOut, NoReply, Again
<1>3. CASE Interrupt(c)
  BY <1>3 DEF Interrupt
<1>4. CASE ClientDies(c)
  BY <1>4 DEF ClientDies
<1> QED
  BY <1>1, <1>2, <1>3, <1>4

\* A server that no longer waits for its idle thread goes on to its end.
LEMMA ServerFaultIdle ==
    ASSUME IdleInv, NEW s \in Servers,
           DropTimesOut(s) \/ Busy(s) \/ Fail(s) \/ Breaks(s) \/ ServerDies(s)
    PROVE  IdleInv'
<1> USE DEF IdleInv, Shape, Fields, IdleAlone, IdleCheck, settings, files, Around, Becomes,
            Goes
<1>1. CASE DropTimesOut(s)
  BY <1>1 DEF DropTimesOut, Dropped
<1>2. CASE Busy(s)
  BY <1>2 DEF Busy
<1>3. CASE Fail(s)
  BY <1>3 DEF Fail, Exit, Again, NoServer
<1>4. CASE Breaks(s)
  BY <1>4 DEF Breaks
<1>5. CASE ServerDies(s)
  BY <1>5 DEF ServerDies, Exit, NoServer
<1> QED
  BY <1>1, <1>2, <1>3, <1>4, <1>5

\* Every step keeps what a main loop knows of the idle thread.
LEMMA NextIdle == IdleInv /\ [Next]_vars => IdleInv'
<1> SUFFICES ASSUME IdleInv, [Next]_vars PROVE IdleInv'
  OBVIOUS
<1>1. CASE UNCHANGED vars
  BY <1>1 DEF vars, settings, files, IdleInv, Shape, IdleAlone, IdleCheck
<1>2. CASE Next
  BY <1>2, ActsIdle, ClientFaultIdle, LoopIdle, ThreadIdle, ServerFaultIdle DEF Next
<1> QED
  BY <1>1, <1>2

\* A main loop that has no client and goes on has an idle thread with nothing
\* to do.
THEOREM IdleInvariant == Spec => []IdleInv
BY InitIdle, NextIdle, PTL DEF Spec

\* A step that takes a client finds nothing running.
LEMMA TakesWhenIdle ==
    ASSUME IdleInv, Next, NEW s \in Servers,
           server'[s].hold # server[s].hold, server'[s].hold # NoConn
    PROVE  server[s].cmd = NoConn /\ server[s].funs = {}
<1> USE DEF IdleInv, Shape, Fields, IdleAlone, IdleCheck, settings, files, Around, Becomes,
            Goes
<1>1. ASSUME NEW c \in Clients, Acts(c) PROVE FALSE
  <2>1. CASE \E t \in Servers : Start(c, t)
    BY <2>1 DEF Start, NoServer
  <2>2. CASE Lock(c) \/ NoLock(c) \/ Wait(c) \/ Unlock(c) \/ Refused(c)
    BY <2>2 DEF Lock, NoLock, Wait, Unlock, Refused
  <2>3. CASE Connect(c) \/ Connected(c) \/ ConnectEnds(c)
    BY <2>3 DEF Connect, Connected, ConnectEnds, NoReply
  <2>4. CASE Send(c) \/ Replied(c) \/ Completed(c) \/ ServerGone(c)
    BY <2>4 DEF Send, Replied, Completed, ServerGone
  <2> QED
    BY <1>1, <2>1, <2>2, <2>3, <2>4 DEF Acts
<1>2. ASSUME NEW c \in Clients,
             WaitTimesOut(c) \/ ReplyTimesOut(c) \/ Interrupt(c) \/ ClientDies(c)
      PROVE  FALSE
  BY <1>2 DEF WaitTimesOut, ReplyTimesOut, NoReply, Interrupt, ClientDies
<1>3. ASSUME NEW t \in Servers, Loop(t) PROVE IdleCheck(s)
  <2>1. CASE Accept(t)
    BY <2>1 DEF Accept, Serves
  <2>2. CASE Drop(t)
    BY <2>2 DEF Drop, Dropped
  <2>3. CASE Command(t)
    BY <2>3 DEF Command
  <2>4. CASE Disconnect(t)
    BY <2>4 DEF Disconnect
  <2>5. CASE Register(t) \/ SetAsync(t) \/ Ready(t)
    BY <2>5 DEF Register, SetAsync, SetCmd, Ready
  <2>6. CASE StartFails(t) \/ Gone(t)
    BY <2>6 DEF StartFails, Fail, Gone, Exit, NoServer
  <2>7. CASE TimeOut(t) \/ Leave(t) \/ Release(t)
    BY <2>7 DEF TimeOut, TimedOut, Leave, Release
  <2> QED
    BY <1>3, <2>1, <2>2, <2>3, <2>4, <2>5, <2>6, <2>7 DEF Loop
<1>4. ASSUME NEW t \in Servers, IdleThread(t) PROVE FALSE
  BY <1>4 DEF IdleThread, RunAsync, Build, Finish, Fire, RunEnds, Flush
<1>5. ASSUME NEW t \in Servers,
             DropTimesOut(t) \/ Busy(t) \/ Fail(t) \/ Breaks(t) \/ ServerDies(t)
      PROVE  FALSE
  <2>1. CASE DropTimesOut(t)
    BY <2>1 DEF DropTimesOut, Dropped
  <2>2. CASE Busy(t) \/ Breaks(t)
    BY <2>2 DEF Busy, Breaks
  <2>3. CASE Fail(t) \/ ServerDies(t)
    BY <2>3 DEF Fail, ServerDies, Exit, NoServer
  <2> QED
    BY <1>5, <2>1, <2>2, <2>3
<1> QED
  BY <1>1, <1>2, <1>3, <1>4, <1>5 DEF Next

\* No client is taken while a command of the one before still runs.
THEOREM OneAtATimeHolds == Spec => OneAtATime
<1>1. IdleInv /\ [Next]_vars =>
        [\A s \in Servers :
            server'[s].hold # server[s].hold /\ server'[s].hold # NoConn
            => server[s].cmd = NoConn /\ server[s].funs = {}]_vars
  BY TakesWhenIdle
<1> QED
  BY <1>1, IdleInvariant, PTL DEF Spec, OneAtATime

-----------------------------------------------------------------------------
(* The cooker, and the interrupts of clients *)

Words == {"features", "query", "build", "kill", "shutdown"}
Link(k) ==
    /\ {"to", "server", "accepted", "client", "fds", "cmds", "replies", "events"} \subseteq DOMAIN k
    /\ k.cmds \in Seq(Words)
\* Connections, what clients have in hand, and what servers have.
Links == DOMAIN conn = Conns /\ \A i \in Conns : Link(conn[i])
Plans ==
    /\ DOMAIN plan = Clients
    /\ DOMAIN client = Clients
    /\ \A c \in Clients :
       /\ plan[c] \in Seq({"query", "build", "kill"})
       /\ {"pc", "try", "done", "interrupted"} \subseteq DOMAIN client[c]
       /\ client[c].try \in 1 .. Tries
       /\ client[c].done \in Nat /\ client[c].done < Len(plan[c])
Hands ==
    /\ DOMAIN server = Servers
    /\ \A s \in Servers :
       /\ {"main", "quit", "hold", "queue", "ui", "hadui", "cmd", "funs", "state", "fires",
           "ends", "unsent"} \subseteq DOMAIN server[s]
       /\ server[s].hold \in Conns \cup {NoConn}
       /\ server[s].ui \in Conns \cup {NoConn}
       /\ server[s].queue \in Seq(Conns)
       /\ server[s].main = "ready" => server[s].ui \in Conns
Typed == Links /\ Plans /\ Hands

\* A connection that only loses: m is what is left of k.
HasShutdown(k) == \E j \in DOMAIN k.cmds : k.cmds[j] = "shutdown"
Less(m, k) ==
    /\ Link(m) /\ m.to \in {k.to, NoOne} /\ (m.fds => k.fds)
    /\ HasShutdown(m) => HasShutdown(k)

\* What the operations on a connection leave.
LEMMA LessOps ==
    ASSUME NEW k, Link(k)
    PROVE  /\ Less(k, k) /\ Less(NoLink, k) /\ Less(Left(k), k) /\ Less(Shut(k), k)
           /\ \A r : Less(Answer(k, r), k) /\ Less(Tell(k, r), k)
           /\ \A r : Less([k EXCEPT !.replies = r], k) /\ Less([k EXCEPT !.events = r], k)
           /\ Less([k EXCEPT !.fds = FALSE], k) /\ Less([k EXCEPT !.accepted = TRUE], k)
           /\ k.cmds # <<>> => Less([k EXCEPT !.cmds = Tail(@)], k)
<1> USE DEF Less, Link, HasShutdown
<1>1. Less(k, k)
  OBVIOUS
<1>2. Less(NoLink, k)
  BY DEF NoLink
<1>3. Less(Left(k), k)
  BY <1>2 DEF Left
<1>4. Less(Shut(k), k)
  BY <1>2 DEF Shut
<1>5. \A r : Less(Answer(k, r), k) /\ Less(Tell(k, r), k)
  BY DEF Answer, Tell
<1>6. \A r : Less([k EXCEPT !.replies = r], k) /\ Less([k EXCEPT !.events = r], k)
  OBVIOUS
<1>7. Less([k EXCEPT !.fds = FALSE], k) /\ Less([k EXCEPT !.accepted = TRUE], k)
  OBVIOUS
<1>8. ASSUME k.cmds # <<>> PROVE Less([k EXCEPT !.cmds = Tail(@)], k)
  <2>1. /\ Tail(k.cmds) \in Seq(Words) /\ DOMAIN Tail(k.cmds) = 1 .. Len(k.cmds) - 1
        /\ DOMAIN k.cmds = 1 .. Len(k.cmds) /\ Len(k.cmds) \in Nat
        /\ \A j \in 1 .. Len(k.cmds) - 1 : Tail(k.cmds)[j] = k.cmds[j + 1]
    BY <1>8
  <2> QED
    BY <2>1
<1> QED
  BY <1>1, <1>2, <1>3, <1>4, <1>5, <1>6, <1>7, <1>8

\* What is left of what is left.
LEMMA LessLess ==
    ASSUME NEW k, NEW m, NEW n, Less(m, k), Less(n, m) PROVE Less(n, k)
BY DEF Less

\* The connection of a client's try.
LEMMA MineIn == ASSUME Plans, NEW c \in Clients PROVE Mine(c) \in Conns
BY DEF Mine, Conns, Plans

\* Whose it is, and of which try.
LEMMA MineIs ==
    ASSUME NEW c
    PROVE  Mine(c)[1] = c /\ Mine(c)[2] = client[c].try
BY DEF Mine

\* Where a client's next connection is not made yet.
Before == {"lock", "start", "starting", "wait", "unlock", "connect"}
Ahead(i) ==
    i[2] > client[i[1]].try \/ (i[2] = client[i[1]].try /\ client[i[1]].pc \in Before)

\* What a step does to a connection: it only loses what is open, sent or not yet
\* read, or it is made, or something is sent.
Made(i) ==
    /\ Link(conn'[i]) /\ ~HasShutdown(conn'[i])
    /\ Ahead(i) /\ ~Ahead(i)'
Sent(i) ==
    /\ Link(conn'[i]) /\ conn'[i].to = conn[i].to /\ (conn'[i].fds => conn[i].fds)
    /\ HasShutdown(conn'[i]) => HasShutdown(conn[i]) \/ client'[i[1]].interrupted
LinkStep ==
    /\ DOMAIN conn' = Conns
    /\ \A i \in Conns : Less(conn'[i], conn[i]) \/ Made(i) \/ Sent(i)

\* Steps that touch no connection.
LEMMA LinksStay ==
    ASSUME Links, conn' = conn PROVE LinkStep
BY LessOps DEF Links, LinkStep

\* Steps that take from one connection.
LEMMA LinkLess ==
    ASSUME Links, NEW i \in Conns, NEW k, Less(k, conn[i]),
           conn' = [conn EXCEPT ![i] = k]
    PROVE  LinkStep
BY LessOps DEF Links, LinkStep

\* Steps that shut connections.
LEMMA LinksExit ==
    ASSUME Links, NEW T,
           conn' = [i \in Conns |-> IF i \in T THEN Shut(conn[i]) ELSE conn[i]]
    PROVE  LinkStep
BY LessOps DEF Links, LinkStep

\* What is sent comes last.
LEMMA AppendWord ==
    ASSUME NEW q \in Seq(Words), NEW w \in Words
    PROVE  /\ Append(q, w) \in Seq(Words)
           /\ \A v : (\E j \in DOMAIN Append(q, w) : Append(q, w)[j] = v)
                        => v = w \/ \E j \in DOMAIN q : q[j] = v
OBVIOUS

\* Which changes of a connection take nothing else, whether it is there or not.
LEMMA LinkChange ==
    ASSUME Links, NEW i,
           \/ conn' = [conn EXCEPT ![i] = Left(@)] \/ conn' = [conn EXCEPT ![i] = Shut(@)]
           \/ \E r : conn' = [conn EXCEPT ![i] = Answer(@, r)]
           \/ \E r : conn' = [conn EXCEPT ![i] = Tell(@, r)]
           \/ \E r : conn' = [conn EXCEPT ![i].replies = r]
           \/ conn' = [conn EXCEPT ![i].fds = FALSE]
           \/ conn' = [conn EXCEPT ![i].accepted = TRUE]
    PROVE  LinkStep
<1> USE LessOps DEF Links, LinkStep
<1>1. CASE conn' = [conn EXCEPT ![i] = Left(@)]
  BY <1>1
<1>2. CASE conn' = [conn EXCEPT ![i] = Shut(@)]
  BY <1>2
<1>3. ASSUME NEW r, conn' = [conn EXCEPT ![i] = Answer(@, r)] PROVE LinkStep
  BY <1>3
<1>4. ASSUME NEW r, conn' = [conn EXCEPT ![i] = Tell(@, r)] PROVE LinkStep
  BY <1>4
<1>5. ASSUME NEW r, conn' = [conn EXCEPT ![i].replies = r] PROVE LinkStep
  BY <1>5
<1>6. CASE conn' = [conn EXCEPT ![i].fds = FALSE]
  BY <1>6
<1>7. CASE conn' = [conn EXCEPT ![i].accepted = TRUE]
  BY <1>7
<1> QED
  BY <1>1, <1>2, <1>3, <1>4, <1>5, <1>6, <1>7

\* Every step does one of these to each connection.
LEMMA StepLinks ==
    ASSUME Typed, Next
    PROVE  LinkStep
<1>0. Links /\ Plans /\ Hands
  BY DEF Typed
<1>1. ASSUME NEW c \in Clients, Lock(c) PROVE LinkStep
  BY <1>1, <1>0, LinksStay DEF Lock
<1>2. ASSUME NEW c \in Clients, NoLock(c) PROVE LinkStep
  BY <1>2, <1>0, LinksStay DEF NoLock
<1>3. ASSUME NEW c \in Clients, Wait(c) PROVE LinkStep
  BY <1>3, <1>0, LinksStay DEF Wait
<1>4. ASSUME NEW c \in Clients, Unlock(c) PROVE LinkStep
  BY <1>4, <1>0, LinksStay DEF Unlock, Again
<1>5. ASSUME NEW c \in Clients, NEW s \in Servers, Start(c, s) PROVE LinkStep
  BY <1>5, <1>0, LinksStay DEF Start, NoServer
<1>6. ASSUME NEW c \in Clients, Connect(c) PROVE LinkStep
  <2>1. conn' = [conn EXCEPT ![Mine(c)] =
                    [NoLink EXCEPT !.to = socket, !.server = TRUE, !.client = TRUE,
                                   !.fds = TRUE, !.cmds = <<"features">>]]
        /\ client[c].pc = "connect" /\ client' = [client EXCEPT ![c].pc = "reply"]
    BY <1>6 DEF Connect, Goes
  <2> DEFINE k == [NoLink EXCEPT !.to = socket, !.server = TRUE, !.client = TRUE,
                                 !.fds = TRUE, !.cmds = <<"features">>]
  <2>2. Link(k) /\ ~HasShutdown(k)
    <3>1. <<"features">> \in Seq(Words)
      BY DEF Words
    <3> QED
      BY <3>1 DEF NoLink, Link, HasShutdown
  <2> HIDE DEF k
  <2>i. PICK i : i = Mine(c)
    OBVIOUS
  <2>3. i \in Conns /\ i[1] = c /\ i[2] = client[c].try /\ client[c].try \in Nat
    BY <1>0, <2>i, MineIn, MineIs DEF Plans
  <2>4. client'[c].pc = "reply" /\ client'[c].try = client[c].try
    BY <1>0, <2>1 DEF Plans
  <2>5. Ahead(i) /\ ~Ahead(i)'
    BY <2>1, <2>3, <2>4 DEF Ahead, Before
  <2>6. conn' = [conn EXCEPT ![i] = k]
    BY <2>1, <2>i DEF k
  <2> QED
    BY <1>0, <2>2, <2>3, <2>5, <2>6, LessOps DEF LinkStep, Made, Links
<1>7. ASSUME NEW c \in Clients, Refused(c) PROVE LinkStep
  BY <1>7, <1>0, LinksStay DEF Refused, Again
<1>8. ASSUME NEW c \in Clients, Connected(c) PROVE LinkStep
  BY <1>8, <1>0, LinkChange DEF Connected
<1>9. ASSUME NEW c \in Clients, ConnectEnds(c) PROVE LinkStep
  BY <1>9, <1>0, LinkChange DEF ConnectEnds, NoReply, Drops
<1>10. ASSUME NEW c \in Clients, Send(c) PROVE LinkStep
  <2> DEFINE k == conn[Mine(c)]
             m == [k EXCEPT !.cmds = Append(@, Job(c))]
             n == IF k.server THEN m ELSE k
  <2>1. Mine(c) \in Conns /\ Link(k)
    BY <1>0, MineIn DEF Links
  <2>2. Job(c) \in {"query", "build", "kill"}
    BY <1>0 DEF Job, Plans
  <2>3. Link(m) /\ m.to = k.to /\ m.fds = k.fds /\ (HasShutdown(m) => HasShutdown(k))
    BY <2>1, <2>2, AppendWord DEF Link, HasShutdown, Words
  <2> HIDE DEF k, m
  <2>4. Link(n) /\ n.to = k.to /\ n.fds = k.fds /\ (HasShutdown(n) => HasShutdown(k))
    BY <2>1, <2>3
  <2> HIDE DEF n
  <2>5. Less(n, k) /\ Less(Left(n), k)
    BY <2>4, LessOps, LessLess DEF Less
  <2>6. conn' = [conn EXCEPT ![Mine(c)] = Left(n)] \/ conn' = [conn EXCEPT ![Mine(c)] = n]
    BY <1>10 DEF Send, k, m, n
  <2> QED
    BY <2>1, <2>5, <2>6, <1>0, LinkLess DEF k
<1>11. ASSUME NEW c \in Clients, Replied(c) PROVE LinkStep
  BY <1>11, <1>0, LinkChange DEF Replied, Drops
<1>12. ASSUME NEW c \in Clients, Completed(c) PROVE LinkStep
  <2> DEFINE k == [conn[Mine(c)] EXCEPT !.events = Tail(@)]
  <2>0. Mine(c) \in Conns /\ Link(conn[Mine(c)])
    BY <1>0, MineIn DEF Links
  <2>a. Less(k, conn[Mine(c)])
    BY <2>0, LessOps
  <2>1. Less(k, conn[Mine(c)]) /\ Less(Left(k), conn[Mine(c)])
    <3> HIDE DEF k
    <3>1. Link(k)
      BY <2>a DEF Less
    <3>2. Less(Left(k), k)
      BY <3>1, LessOps
    <3> QED
      BY <2>a, <3>2, LessLess
  <2>2. conn' = [conn EXCEPT ![Mine(c)] = k] \/ conn' = [conn EXCEPT ![Mine(c)] = Left(k)]
    BY <1>12 DEF Completed
  <2> HIDE DEF k
  <2> QED
    BY <1>0, <2>0, <2>1, <2>2, LinkLess
<1>13. ASSUME NEW c \in Clients, ServerGone(c) PROVE LinkStep
  BY <1>13, <1>0, LinkChange DEF ServerGone, Drops
<1>14. ASSUME NEW c \in Clients, WaitTimesOut(c) PROVE LinkStep
  BY <1>14, <1>0, LinksStay DEF WaitTimesOut, Again
<1>15. ASSUME NEW c \in Clients, ReplyTimesOut(c) PROVE LinkStep
  BY <1>15, <1>0, LinkChange DEF ReplyTimesOut, NoReply, Drops
<1>16. ASSUME NEW c \in Clients, Interrupt(c) PROVE LinkStep
  <2> DEFINE k == conn[Mine(c)]
             m == [k EXCEPT !.cmds = Append(@, "shutdown")]
  <2>1. Mine(c) \in Conns /\ Link(k)
    BY <1>0, MineIn DEF Links
  <2>2. Link(m) /\ m.to = k.to /\ m.fds = k.fds
    BY <2>1, AppendWord DEF Link, Words
  <2> HIDE DEF k, m
  <2>3. conn' = [conn EXCEPT ![Mine(c)] = m] /\ client'[c].interrupted
    BY <1>16, <1>0 DEF Interrupt, k, m, Plans
  <2> QED
    BY <1>0, <2>1, <2>2, <2>3, MineIs, LessOps DEF LinkStep, Sent, Links, k
<1>17. ASSUME NEW c \in Clients, ClientDies(c) PROVE LinkStep
  BY <1>17, <1>0, LinkChange DEF ClientDies, Drops
<1>18. ASSUME NEW s \in Servers, Ready(s) PROVE LinkStep
  BY <1>18, <1>0, LinksStay DEF Ready, Starter
<1>19. ASSUME NEW s \in Servers, StartFails(s) PROVE LinkStep
  <2>1. conn' = [i \in Conns |->
                    IF i \in {j \in Conns : conn[j].to = s} THEN Shut(conn[i]) ELSE conn[i]]
    BY <1>19 DEF StartFails, Fail, Exit
  <2> QED
    BY <1>0, <2>1, LinksExit
<1>20. ASSUME NEW s \in Servers, Accept(s) PROVE LinkStep
  BY <1>20, <1>0, LinkChange DEF Accept
<1>21. ASSUME NEW s \in Servers, Register(s) PROVE LinkStep
  BY <1>21, <1>0, LinkChange DEF Register
<1>22. ASSUME NEW s \in Servers, Disconnect(s) PROVE LinkStep
  BY <1>22, <1>0, LinksStay DEF Disconnect, Serves
<1>23. ASSUME NEW s \in Servers, Drop(s) PROVE LinkStep
  BY <1>23, <1>0, LinkChange DEF Drop, Dropped
<1>24. ASSUME NEW s \in Servers, Command(s) PROVE LinkStep
  <2> DEFINE ui == server[s].ui
             rest == [conn[ui] EXCEPT !.cmds = Tail(@)]
  <2>1. ui \in Conns /\ conn[ui].cmds # <<>> /\ Link(conn[ui])
    BY <1>0, <1>24 DEF Command, Hands, Links
  <2>a. Less(rest, conn[ui])
    BY <2>1, LessOps
  <2>2. Less(rest, conn[ui]) /\ Less(Answer(rest, "ok"), conn[ui])
    <3> HIDE DEF rest
    <3>1. Link(rest)
      BY <2>a DEF Less
    <3>2. Less(Answer(rest, "ok"), rest)
      BY <3>1, LessOps
    <3> QED
      BY <2>a, <3>2, LessLess
  <2>3. \/ conn' = [conn EXCEPT ![ui] = rest]
        \/ conn' = [conn EXCEPT ![ui] = Answer(rest, "ok")]
    BY <1>24 DEF Command
  <2> HIDE DEF ui, rest
  <2> QED
    BY <1>0, <2>1, <2>2, <2>3, LinkLess
<1>25. ASSUME NEW s \in Servers, SetAsync(s) PROVE LinkStep
  BY <1>25, <1>0, LinkChange DEF SetAsync, SetCmd
<1>26. ASSUME NEW s \in Servers, TimeOut(s) PROVE LinkStep
  BY <1>26, <1>0, LinksStay DEF TimeOut, TimedOut, Serves
<1>27. ASSUME NEW s \in Servers, Leave(s) PROVE LinkStep
  BY <1>27, <1>0, LinksExit DEF Leave, Closed
<1>28. ASSUME NEW s \in Servers, Release(s) PROVE LinkStep
  BY <1>28, <1>0, LinksStay DEF Release
<1>29. ASSUME NEW s \in Servers, Gone(s) PROVE LinkStep
  <2>1. conn' = [i \in Conns |->
                    IF i \in {j \in Conns : conn[j].to = s} THEN Shut(conn[i]) ELSE conn[i]]
    BY <1>29 DEF Gone, Exit
  <2> QED
    BY <1>0, <2>1, LinksExit
<1>30. ASSUME NEW s \in Servers, RunAsync(s) PROVE LinkStep
  BY <1>30, <1>0, LinksStay DEF RunAsync, Runs, Works, Finish
<1>31. ASSUME NEW s \in Servers, Build(s) PROVE LinkStep
  BY <1>31, <1>0, LinksStay DEF Build, Runs, Works, Finish
<1>32. ASSUME NEW s \in Servers, Fire(s) PROVE LinkStep
  BY <1>32, <1>0, LinkChange, LinksStay DEF Fire
<1>33. ASSUME NEW s \in Servers, RunEnds(s) PROVE LinkStep
  BY <1>33, <1>0, LinksStay DEF RunEnds
<1>34. ASSUME NEW s \in Servers, Flush(s) PROVE LinkStep
  BY <1>34, <1>0, LinkChange DEF Flush
<1>35. ASSUME NEW s \in Servers, DropTimesOut(s) PROVE LinkStep
  BY <1>35, <1>0, LinkChange DEF DropTimesOut, Dropped
<1>36. ASSUME NEW s \in Servers, Busy(s) PROVE LinkStep
  BY <1>36, <1>0, LinkChange DEF Busy
<1>37. ASSUME NEW s \in Servers, Fail(s) PROVE LinkStep
  <2>1. conn' = [i \in Conns |->
                    IF i \in {j \in Conns : conn[j].to = s} THEN Shut(conn[i]) ELSE conn[i]]
    BY <1>37 DEF Fail, Exit
  <2> QED
    BY <1>0, <2>1, LinksExit
<1>38. ASSUME NEW s \in Servers, Breaks(s) PROVE LinkStep
  BY <1>38, <1>0, LinksStay DEF Breaks, Runs, Works
<1>39. ASSUME NEW s \in Servers, ServerDies(s) PROVE LinkStep
  <2>1. conn' = [i \in Conns |->
                    IF i \in {j \in Conns : conn[j].to = s} THEN Shut(conn[i]) ELSE conn[i]]
    BY <1>39 DEF ServerDies, Exit
  <2> QED
    BY <1>0, <2>1, LinksExit
<1> QED
  BY <1>1, <1>2, <1>3, <1>4, <1>5, <1>6, <1>7, <1>8, <1>9, <1>10, <1>11, <1>12, <1>13,
     <1>14, <1>15, <1>16, <1>17, <1>18, <1>19, <1>20, <1>21, <1>22, <1>23, <1>24, <1>25, <1>26,
     <1>27, <1>28, <1>29, <1>30, <1>31, <1>32, <1>33, <1>34, <1>35, <1>36, <1>37, <1>38, <1>39
  DEF Next, Acts, Loop, IdleThread

\* A client's tries only go up, each connection is made once, and an interrupt is
\* never taken back.
ClientsStep ==
    /\ Plans' /\ plan' = plan
    /\ \A i \in Conns : /\ Ahead(i)' => Ahead(i)
                        /\ client[i[1]].interrupted => client'[i[1]].interrupted
\* Who starts a server is a client.
LEMMA StarterIn ==
    ASSUME Hands, NEW s \in Servers, server[s].main = "ready" PROVE Starter(s) \in Clients
BY DEF Hands, Starter, Conns

\* The next try, or no other.
LEMMA AgainIs ==
    ASSUME Plans, plan' = plan, NEW c \in Clients, Again(c)
    PROVE  ClientsStep
<1>1. /\ DOMAIN client' = Clients /\ \A d \in Clients \ {c} : client'[d] = client[d]
      /\ {"pc", "try", "done", "interrupted"} \subseteq DOMAIN client'[c]
      /\ client'[c].done = client[c].done /\ client'[c].interrupted = client[c].interrupted
      /\ client[c].try # Tries => client'[c].try = client[c].try + 1
      /\ client[c].try = Tries => client'[c].try = client[c].try /\ client'[c].pc = "fatal"
  BY DEF Again, Plans
<1>2. Tries \in Nat \ {0} /\ client[c].try \in 1 .. Tries
  BY ServerAssumption DEF Plans
<1>a. client'[c].try \in 1 .. Tries
  BY <1>1, <1>2
<1>3. Plans'
  BY <1>1, <1>a DEF Plans
<1>4. ASSUME NEW i \in Conns, Ahead(i)' PROVE Ahead(i)
  <2>1. i[1] \in Clients /\ i[2] \in Nat /\ client[i[1]].try \in Nat
    BY <1>2 DEF Conns, Plans
  <2> QED
    BY <1>1, <1>2, <1>4, <2>1 DEF Ahead, Before
<1>5. \A i \in Conns : i[1] \in Clients
  BY DEF Conns
<1> QED
  BY <1>1, <1>3, <1>4, <1>5 DEF ClientsStep

\* A client goes on in its try.
LEMMA GoesIs ==
    ASSUME Plans, plan' = plan, NEW c \in Clients, NEW pc, Goes(c, pc),
           pc \in Before => client[c].pc \in Before
    PROVE  ClientsStep
<1>1. /\ DOMAIN client' = Clients /\ \A d \in Clients \ {c} : client'[d] = client[d]
      /\ {"pc", "try", "done", "interrupted"} \subseteq DOMAIN client'[c]
      /\ client'[c].done = client[c].done /\ client'[c].interrupted = client[c].interrupted
      /\ client'[c].try = client[c].try /\ client'[c].pc = pc
  BY DEF Goes, Plans
<1>2. Plans'
  BY <1>1 DEF Plans
<1>3. \A i \in Conns : i[1] \in Clients /\ (Ahead(i)' => Ahead(i))
  BY <1>1 DEF Ahead, Conns
<1> QED
  BY <1>1, <1>2, <1>3 DEF ClientsStep

\* Steps of servers leave the clients alone.
LEMMA ClientsStay ==
    ASSUME Plans, plan' = plan, client' = client
    PROVE  ClientsStep
BY DEF ClientsStep, Plans, Ahead

\* Every step does this to the clients.
LEMMA StepClients ==
    ASSUME Typed, Next
    PROVE  ClientsStep
<1>0. Links /\ Plans /\ Hands
  BY DEF Typed
<1>1. ASSUME NEW c \in Clients, Lock(c) PROVE ClientsStep
  BY <1>1, <1>0, GoesIs DEF Lock, settings, files, Before
<1>2. ASSUME NEW c \in Clients, NoLock(c) PROVE ClientsStep
  BY <1>2, <1>0, GoesIs DEF NoLock, settings, files, Before
<1>3. ASSUME NEW c \in Clients, Wait(c) PROVE ClientsStep
  BY <1>3, <1>0, GoesIs DEF Wait, settings, files, Before
<1>4. ASSUME NEW c \in Clients, Unlock(c) PROVE ClientsStep
  BY <1>4, <1>0, AgainIs DEF Unlock, settings
<1>5. ASSUME NEW c \in Clients, NEW s \in Servers, Start(c, s) PROVE ClientsStep
  BY <1>5, <1>0, GoesIs DEF Start, settings, files, Before
<1>6. ASSUME NEW c \in Clients, Connect(c) PROVE ClientsStep
  BY <1>6, <1>0, GoesIs DEF Connect, settings, files, Before
<1>7. ASSUME NEW c \in Clients, Refused(c) PROVE ClientsStep
  BY <1>7, <1>0, AgainIs DEF Refused, settings
<1>8. ASSUME NEW c \in Clients, Connected(c) PROVE ClientsStep
  BY <1>8, <1>0, GoesIs DEF Connected, settings, files, Before
<1>9. ASSUME NEW c \in Clients, ConnectEnds(c) PROVE ClientsStep
  BY <1>9, <1>0, AgainIs DEF ConnectEnds, NoReply, settings
<1>10. ASSUME NEW c \in Clients, Send(c) PROVE ClientsStep
  BY <1>10, <1>0, GoesIs DEF Send, settings, files, Before
<1>11. ASSUME NEW c \in Clients, Replied(c) PROVE ClientsStep
  BY <1>11, <1>0, GoesIs DEF Replied, settings, files, Before
<1>12. ASSUME NEW c \in Clients, Completed(c) PROVE ClientsStep
  <2> DEFINE last == client[c].done + 1 = Len(plan[c])
             done == IF last THEN client[c].done ELSE client[c].done + 1
             pc == IF last THEN "done" ELSE "connected"
  <2>1. plan' = plan /\ client' = [client EXCEPT ![c].done = done, ![c].pc = pc]
    BY <1>12 DEF Completed, settings
  <2>2. done \in Nat /\ done < Len(plan[c]) /\ pc \notin Before
    BY <1>0 DEF Plans, Before
  <2> HIDE DEF done, pc
  <2>3. /\ DOMAIN client' = Clients /\ \A d \in Clients \ {c} : client'[d] = client[d]
        /\ {"pc", "try", "done", "interrupted"} \subseteq DOMAIN client'[c]
        /\ client'[c].done = done /\ client'[c].interrupted = client[c].interrupted
        /\ client'[c].try = client[c].try /\ client'[c].pc = pc
    BY <1>0, <2>1 DEF Plans
  <2>4. Plans'
    BY <1>0, <2>1, <2>2, <2>3 DEF Plans
  <2>5. \A i \in Conns : i[1] \in Clients /\ (Ahead(i)' => Ahead(i))
    BY <2>2, <2>3 DEF Ahead, Conns
  <2> QED
    BY <2>1, <2>3, <2>4, <2>5 DEF ClientsStep
<1>13. ASSUME NEW c \in Clients, ServerGone(c) PROVE ClientsStep
  BY <1>13, <1>0, GoesIs DEF ServerGone, settings, files, Before
<1>14. ASSUME NEW c \in Clients, WaitTimesOut(c) PROVE ClientsStep
  BY <1>14, <1>0, AgainIs DEF WaitTimesOut, settings
<1>15. ASSUME NEW c \in Clients, ReplyTimesOut(c) PROVE ClientsStep
  BY <1>15, <1>0, AgainIs DEF ReplyTimesOut, NoReply, settings
<1>16. ASSUME NEW c \in Clients, Interrupt(c) PROVE ClientsStep
  <2>1. plan' = plan /\ client' = [client EXCEPT ![c].interrupted = TRUE]
    BY <1>16 DEF Interrupt, settings
  <2>2. Plans'
    BY <1>0, <2>1 DEF Plans
  <2>3. \A i \in Conns : i[1] \in Clients /\ (Ahead(i)' => Ahead(i))
    BY <1>0, <2>1 DEF Ahead, Conns, Plans
  <2> QED
    BY <1>0, <2>1, <2>2, <2>3 DEF ClientsStep, Plans
<1>17. ASSUME NEW c \in Clients, ClientDies(c) PROVE ClientsStep
  BY <1>17, <1>0, GoesIs DEF ClientDies, settings, files, Before
<1>18. ASSUME NEW s \in Servers, Ready(s) PROVE ClientsStep
  <2>1. Starter(s) \in Clients
    BY <1>0, <1>18, StarterIn DEF Ready
  <2> QED
    BY <1>18, <1>0, <2>1, GoesIs DEF Ready, settings, Before
<1>19. ASSUME NEW s \in Servers, StartFails(s) PROVE ClientsStep
  <2>1. Starter(s) \in Clients
    BY <1>0, <1>19, StarterIn DEF StartFails
  <2> QED
    BY <1>19, <1>0, <2>1, AgainIs, ClientsStay DEF StartFails, Fail, settings
<1>20. ASSUME NEW s \in Servers, Accept(s) PROVE ClientsStep
  BY <1>20, <1>0, ClientsStay DEF Accept, Serves, Backlog, settings, files, Around
<1>21. ASSUME NEW s \in Servers, Register(s) PROVE ClientsStep
  BY <1>21, <1>0, ClientsStay DEF Register, Serves, settings, files, Around
<1>22. ASSUME NEW s \in Servers, Disconnect(s) PROVE ClientsStep
  BY <1>22, <1>0, ClientsStay DEF Disconnect, Serves, settings, files, Around
<1>23. ASSUME NEW s \in Servers, Drop(s) PROVE ClientsStep
  BY <1>23, <1>0, ClientsStay DEF Drop, Dropped, settings, files, Around
<1>24. ASSUME NEW s \in Servers, Command(s) PROVE ClientsStep
  BY <1>24, <1>0, ClientsStay DEF Command, Serves, settings, files, Around
<1>25. ASSUME NEW s \in Servers, SetAsync(s) PROVE ClientsStep
  BY <1>25, <1>0, ClientsStay DEF SetAsync, SetCmd, settings, files, Around
<1>26. ASSUME NEW s \in Servers, TimeOut(s) PROVE ClientsStep
  BY <1>26, <1>0, ClientsStay DEF TimeOut, TimedOut, Serves, settings, files, Around
<1>27. ASSUME NEW s \in Servers, Leave(s) PROVE ClientsStep
  BY <1>27, <1>0, ClientsStay DEF Leave, Leaves, Closed, settings, files, Around
<1>28. ASSUME NEW s \in Servers, Release(s) PROVE ClientsStep
  BY <1>28, <1>0, ClientsStay DEF Release, settings, files, Around
<1>29. ASSUME NEW s \in Servers, Gone(s) PROVE ClientsStep
  BY <1>29, <1>0, ClientsStay DEF Gone, Exit, NoServer, settings, files, Around
<1>30. ASSUME NEW s \in Servers, RunAsync(s) PROVE ClientsStep
  BY <1>30, <1>0, ClientsStay DEF RunAsync, Runs, Works, Finish, settings, files, Around
<1>31. ASSUME NEW s \in Servers, Build(s) PROVE ClientsStep
  BY <1>31, <1>0, ClientsStay DEF Build, Runs, Works, Finish, settings, files, Around
<1>32. ASSUME NEW s \in Servers, Fire(s) PROVE ClientsStep
  BY <1>32, <1>0, ClientsStay DEF Fire, settings, files, Around
<1>33. ASSUME NEW s \in Servers, RunEnds(s) PROVE ClientsStep
  BY <1>33, <1>0, ClientsStay DEF RunEnds, settings, files, Around
<1>34. ASSUME NEW s \in Servers, Flush(s) PROVE ClientsStep
  BY <1>34, <1>0, ClientsStay DEF Flush, settings, files, Around
<1>35. ASSUME NEW s \in Servers, DropTimesOut(s) PROVE ClientsStep
  BY <1>35, <1>0, ClientsStay DEF DropTimesOut, Dropped, settings, files, Around
<1>36. ASSUME NEW s \in Servers, Busy(s) PROVE ClientsStep
  BY <1>36, <1>0, ClientsStay DEF Busy, settings, files, Around
<1>37. ASSUME NEW s \in Servers, Fail(s) PROVE ClientsStep
  <2>1. Starter(s) \in Clients
    BY <1>0, <1>37, StarterIn DEF Fail
  <2> QED
    BY <1>37, <1>0, <2>1, AgainIs, ClientsStay DEF Fail, settings
<1>38. ASSUME NEW s \in Servers, Breaks(s) PROVE ClientsStep
  BY <1>38, <1>0, ClientsStay DEF Breaks, Runs, Works, settings, files, Around
<1>39. ASSUME NEW s \in Servers, ServerDies(s) PROVE ClientsStep
  BY <1>39, <1>0, ClientsStay DEF ServerDies, Exit, NoServer, settings, files, Around
<1> QED
  BY <1>1, <1>2, <1>3, <1>4, <1>5, <1>6, <1>7, <1>8, <1>9, <1>10, <1>11, <1>12, <1>13,
     <1>14, <1>15, <1>16, <1>17, <1>18, <1>19, <1>20, <1>21, <1>22, <1>23, <1>24, <1>25, <1>26,
     <1>27, <1>28, <1>29, <1>30, <1>31, <1>32, <1>33, <1>34, <1>35, <1>36, <1>37, <1>38, <1>39
  DEF Next, Acts, Loop, IdleThread

\* What a server's main loop may take next.
Comes(s, i) ==
    \/ i = server[s].hold \/ \E j \in 1 .. Len(server[s].queue) : i = server[s].queue[j]
    \/ i \in Backlog(s)
Takes(s) ==
    /\ server'[s].hold = NoConn \/ (server'[s].hold \in Conns /\ Comes(s, server'[s].hold))
    /\ server'[s].queue \in Seq(Conns)
    /\ \A j \in 1 .. Len(server'[s].queue) : Comes(s, server'[s].queue[j])

\* What a step does to the user interface and the cooker: the loop goes on with
\* both, or resets the cooker, or has no user interface and starts, or takes a
\* user interface, or is told by it to shut down.
Calm(s) ==
    /\ server'[s].ui = server[s].ui /\ server'[s].hold \in {server[s].hold, NoConn}
    /\ server'[s].state \in {server[s].state, "initial"}
    /\ server'[s].main = "ready" <=> server[s].main = "ready"
Resets(s) ==
    /\ server'[s].ui = NoConn /\ server'[s].main # "ready"
    /\ server'[s].state = "initial" \/ (server'[s].state = server[s].state /\ server[s].main = "ready")
Starts(s) ==
    /\ server'[s].main = "ready" /\ server'[s].ui \in Conns /\ server'[s].state = "initial"
Accepts(s) ==
    /\ server[s].main = "serve" /\ server[s].hold = NoConn
    /\ server'[s].main = "serve" /\ server'[s].ui = server[s].ui
    /\ server'[s].state = server[s].state
Registers(s) ==
    /\ server[s].main = "serve" /\ server[s].hold # NoConn /\ conn[server[s].hold].fds
    /\ server'[s].main = "serve" /\ server'[s].hold = server[s].hold
    /\ server'[s].ui = server[s].hold /\ ~conn'[server[s].hold].fds
    /\ server'[s].state = server[s].state
ShutsDown(s) ==
    /\ server[s].main = "serve" /\ server'[s].main # "ready" /\ server[s].ui # NoConn
    /\ server'[s].ui = server[s].ui /\ server'[s].hold = server[s].hold
    /\ HasShutdown(conn[server[s].ui]) /\ server'[s].state = "shutdown"
ServersStep ==
    /\ DOMAIN server' = Servers
    /\ \A s \in Servers :
       /\ {"main", "quit", "hold", "queue", "ui", "hadui", "cmd", "funs", "state", "fires",
           "ends", "unsent"} \subseteq DOMAIN server'[s]
       /\ Takes(s)
       /\ \/ Calm(s) \/ Resets(s) \/ Starts(s) \/ Accepts(s) \/ Registers(s) \/ ShutsDown(s)

\* Servers that a step leaves alone.
LEMMA ServersStay ==
    ASSUME Hands, server' = server PROVE ServersStep
BY DEF Hands, ServersStep, Takes, Comes, Calm

\* What is left of a queue when its last entry is taken.
LEMMA Remains ==
    ASSUME NEW q \in Seq(Conns), q # <<>>
    PROVE  /\ q[Len(q)] \in Conns /\ Len(q) \in 1 .. Len(q)
           /\ SubSeq(q, 1, Len(q) - 1) \in Seq(Conns)
           /\ \A j \in 1 .. Len(SubSeq(q, 1, Len(q) - 1)) :
                 j \in 1 .. Len(q) /\ SubSeq(q, 1, Len(q) - 1)[j] = q[j]
OBVIOUS

\* A command that is finished resets the cooker.
LEMMA FinishIs ==
    ASSUME Hands, NEW s \in Servers, NEW fun, NEW ends, Finish(s, fun, ends)
    PROVE  ServersStep
<1> DEFINE funs == IF ends THEN server[s].funs ELSE server[s].funs \ {fun}
           cmd == server[s].cmd
<1>1. server' = [server EXCEPT ![s].funs = funs, ![s].state = "initial", ![s].cmd = NoConn,
                               ![s].fires = cmd, ![s].ends = ends]
  BY DEF Finish
<1> HIDE DEF funs, cmd
<1> QED
  BY <1>1 DEF Hands, ServersStep, Takes, Comes, Calm

\* Every step does this to the servers.
LEMMA StepServers ==
    ASSUME Typed, Next
    PROVE  ServersStep
<1>0. Links /\ Plans /\ Hands
  BY DEF Typed
<1>1. ASSUME NEW c \in Clients, Lock(c) PROVE ServersStep
  BY <1>1, <1>0, ServersStay DEF Lock
<1>2. ASSUME NEW c \in Clients, NoLock(c) PROVE ServersStep
  BY <1>2, <1>0, ServersStay DEF NoLock
<1>3. ASSUME NEW c \in Clients, Wait(c) PROVE ServersStep
  BY <1>3, <1>0, ServersStay DEF Wait
<1>4. ASSUME NEW c \in Clients, Unlock(c) PROVE ServersStep
  BY <1>4, <1>0, ServersStay DEF Unlock, Again
<1>5. ASSUME NEW c \in Clients, NEW s \in Servers, Start(c, s) PROVE ServersStep
  BY <1>5, <1>0, MineIn DEF Start, NoServer, Hands, ServersStep, Takes, Comes, Calm,
     Starts
<1>6. ASSUME NEW c \in Clients, Connect(c) PROVE ServersStep
  BY <1>6, <1>0, ServersStay DEF Connect, NoLink
<1>7. ASSUME NEW c \in Clients, Refused(c) PROVE ServersStep
  BY <1>7, <1>0, ServersStay DEF Refused, Again
<1>8. ASSUME NEW c \in Clients, Connected(c) PROVE ServersStep
  BY <1>8, <1>0, ServersStay DEF Connected
<1>9. ASSUME NEW c \in Clients, ConnectEnds(c) PROVE ServersStep
  BY <1>9, <1>0, ServersStay DEF ConnectEnds, NoReply, Drops, Again
<1>10. ASSUME NEW c \in Clients, Send(c) PROVE ServersStep
  BY <1>10, <1>0, ServersStay DEF Send
<1>11. ASSUME NEW c \in Clients, Replied(c) PROVE ServersStep
  BY <1>11, <1>0, ServersStay DEF Replied, Drops
<1>12. ASSUME NEW c \in Clients, Completed(c) PROVE ServersStep
  BY <1>12, <1>0, ServersStay DEF Completed
<1>13. ASSUME NEW c \in Clients, ServerGone(c) PROVE ServersStep
  BY <1>13, <1>0, ServersStay DEF ServerGone, Drops
<1>14. ASSUME NEW c \in Clients, WaitTimesOut(c) PROVE ServersStep
  BY <1>14, <1>0, ServersStay DEF WaitTimesOut, Again
<1>15. ASSUME NEW c \in Clients, ReplyTimesOut(c) PROVE ServersStep
  BY <1>15, <1>0, ServersStay DEF ReplyTimesOut, NoReply, Drops, Again
<1>16. ASSUME NEW c \in Clients, Interrupt(c) PROVE ServersStep
  BY <1>16, <1>0, ServersStay DEF Interrupt
<1>17. ASSUME NEW c \in Clients, ClientDies(c) PROVE ServersStep
  BY <1>17, <1>0, ServersStay DEF ClientDies, Drops
<1>18. ASSUME NEW s \in Servers, Ready(s) PROVE ServersStep
  BY <1>18, <1>0 DEF Ready, Starter, Hands, ServersStep, Takes, Comes, Calm, Resets,
     Accepts, Registers, Becomes
<1>19. ASSUME NEW s \in Servers, StartFails(s) PROVE ServersStep
  BY <1>19, <1>0 DEF StartFails, Fail, Exit, Again, NoServer, Hands, ServersStep, Takes,
     Comes, Calm, Resets, Accepts, Registers, Becomes
<1>20. ASSUME NEW s \in Servers, Accept(s) PROVE ServersStep
  BY <1>20, <1>0 DEF Accept, Serves, Backlog, Hands, ServersStep, Takes, Comes, Calm,
     Resets, Accepts, Registers, Becomes
<1>21. ASSUME NEW s \in Servers, Register(s) PROVE ServersStep
  <2>1. ~conn'[server[s].hold].fds
    BY <1>0, <1>21 DEF Register, Links, Link, Hands
  <2>2. Registers(s)
    BY <1>0, <1>21, <2>1 DEF Register, Serves, Registers, Hands
  <2>3. \A t \in Servers : t # s => Calm(t)
    BY <1>0, <1>21 DEF Register, Calm, Hands
  <2> QED
    BY <1>0, <1>21, <2>2, <2>3 DEF Register, Hands, ServersStep, Takes, Comes
<1>22. ASSUME NEW s \in Servers, Disconnect(s) PROVE ServersStep
  BY <1>22, <1>0 DEF Disconnect, Serves, Hands, ServersStep, Takes, Comes, Calm, Resets,
     Accepts, Registers, Becomes
<1>23. ASSUME NEW s \in Servers, Drop(s) PROVE ServersStep
  <2> DEFINE q == server[s].queue
             takes == q # <<>> /\ ~server[s].quit
             hold == IF takes THEN q[Len(q)] ELSE NoConn
             queue == IF takes THEN SubSeq(q, 1, Len(q) - 1) ELSE q
             quit == server[s].quit \/ server[s].quit \/ (~takes /\ ~stays /\ Backlog(s) = {})
  <2>1. server' = [server EXCEPT ![s].main = "serve", ![s].ui = NoConn,
                                 ![s].state = "initial", ![s].hold = hold,
                                 ![s].queue = queue, ![s].quit = quit]
    BY <1>23 DEF Drop, Dropped
  <2>2. /\ hold = NoConn \/ (hold \in Conns /\ \E j \in 1 .. Len(q) : hold = q[j])
        /\ queue \in Seq(Conns)
        /\ \A j \in 1 .. Len(queue) : \E k \in 1 .. Len(q) : queue[j] = q[k]
    BY <1>0, Remains DEF Hands
  <2> HIDE DEF hold, queue, quit
  <2>3. Takes(s)
    BY <1>0, <2>1, <2>2 DEF Hands, Takes, Comes
  <2>4. Resets(s)
    BY <1>0, <2>1 DEF Hands, Resets
  <2>5. \A t \in Servers : t # s => Calm(t) /\ Takes(t)
    BY <1>0, <2>1 DEF Hands, Calm, Takes, Comes
  <2> QED
    BY <1>0, <2>1, <2>3, <2>4, <2>5 DEF Hands, ServersStep
<1>24. ASSUME NEW s \in Servers, Command(s) PROVE ServersStep
  <2> DEFINE ui == server[s].ui
             command == Head(conn[ui].cmds)
             state == IF command = "shutdown" THEN "shutdown" ELSE server[s].state
             quit == server[s].quit \/ command = "kill"
             main == IF command \in {"query", "build"} THEN "set" ELSE server[s].main
  <2>1. server' = [server EXCEPT ![s].state = state, ![s].quit = quit, ![s].main = main]
    BY <1>24 DEF Command
  <2>2. /\ server[s].main = "serve" /\ ui # NoConn /\ ui \in Conns
        /\ conn[ui].cmds \in Seq(Words) /\ conn[ui].cmds # <<>>
    BY <1>0, <1>24 DEF Command, Serves, Hands, Links, Link
  <2>3. 1 \in DOMAIN conn[ui].cmds /\ command = conn[ui].cmds[1]
    BY <2>2
  <2>4. command = "shutdown" => HasShutdown(conn[ui])
    BY <2>3 DEF HasShutdown
  <2>5. /\ main # "ready" /\ state \in {server[s].state, "shutdown"}
        /\ state = "shutdown" => state = server[s].state \/ HasShutdown(conn[ui])
    BY <2>2, <2>4
  <2> HIDE DEF state, quit, main
  <2>6. Calm(s) \/ ShutsDown(s)
    BY <1>0, <2>1, <2>2, <2>5 DEF Hands, Calm, ShutsDown
  <2>7. \A t \in Servers : t # s => Calm(t)
    BY <1>0, <2>1 DEF Hands, Calm
  <2> QED
    BY <1>0, <2>1, <2>6, <2>7 DEF Hands, ServersStep, Takes, Comes
<1>25. ASSUME NEW s \in Servers, SetAsync(s) PROVE ServersStep
  BY <1>25, <1>0 DEF SetAsync, SetCmd, Hands, ServersStep, Takes, Comes, Calm, Resets,
     Accepts, Registers, Becomes
<1>26. ASSUME NEW s \in Servers, TimeOut(s) PROVE ServersStep
  BY <1>26, <1>0 DEF TimeOut, TimedOut, Serves, Hands, ServersStep, Takes, Comes, Calm,
     Resets, Accepts, Registers, Becomes
<1>27. ASSUME NEW s \in Servers, Leave(s) PROVE ServersStep
  BY <1>27, <1>0 DEF Leave, Leaves, Closed, Hands, ServersStep, Takes, Comes, Calm,
     Resets, Accepts, Registers, Becomes
<1>28. ASSUME NEW s \in Servers, Release(s) PROVE ServersStep
  BY <1>28, <1>0 DEF Release, Hands, ServersStep, Takes, Comes, Calm, Resets, Accepts,
     Registers, Becomes
<1>29. ASSUME NEW s \in Servers, Gone(s) PROVE ServersStep
  BY <1>29, <1>0 DEF Gone, Exit, NoServer, Hands, ServersStep, Takes, Comes, Calm, Resets,
     Accepts, Registers, Becomes
<1>30. ASSUME NEW s \in Servers, RunAsync(s) PROVE ServersStep
  <2>1. CASE \E fun, ends : Finish(s, fun, ends)
    BY <1>0, <2>1, FinishIs
  <2>2. CASE server' = [server EXCEPT ![s].funs = {"build"}]
    BY <1>0, <2>2 DEF Hands, ServersStep, Takes, Comes, Calm
  <2> QED
    BY <1>30, <2>1, <2>2 DEF RunAsync
<1>31. ASSUME NEW s \in Servers, Build(s) PROVE ServersStep
  BY <1>31, <1>0, FinishIs DEF Build
<1>32. ASSUME NEW s \in Servers, Fire(s) PROVE ServersStep
  BY <1>32, <1>0 DEF Fire, Hands, ServersStep, Takes, Comes, Calm, Resets, Accepts,
     Registers, Becomes
<1>33. ASSUME NEW s \in Servers, RunEnds(s) PROVE ServersStep
  BY <1>33, <1>0 DEF RunEnds, Hands, ServersStep, Takes, Comes, Calm, Resets, Accepts,
     Registers, Becomes
<1>34. ASSUME NEW s \in Servers, Flush(s) PROVE ServersStep
  BY <1>34, <1>0 DEF Flush, Hands, ServersStep, Takes, Comes, Calm, Resets, Accepts,
     Registers, Becomes
<1>35. ASSUME NEW s \in Servers, DropTimesOut(s) PROVE ServersStep
  BY <1>35, <1>0 DEF DropTimesOut, Dropped, Hands, ServersStep, Takes, Comes, Calm,
     Resets, Accepts, Registers, Becomes
<1>36. ASSUME NEW s \in Servers, Busy(s) PROVE ServersStep
  BY <1>36, <1>0 DEF Busy, Hands, ServersStep, Takes, Comes, Calm, Resets, Accepts,
     Registers, Becomes
<1>37. ASSUME NEW s \in Servers, Fail(s) PROVE ServersStep
  BY <1>37, <1>0 DEF Fail, Exit, Again, NoServer, Hands, ServersStep, Takes, Comes, Calm,
     Resets, Accepts, Registers, Becomes
<1>38. ASSUME NEW s \in Servers, Breaks(s) PROVE ServersStep
  BY <1>38, <1>0 DEF Breaks, Runs, Works, Hands, ServersStep, Takes, Comes, Calm, Resets,
     Accepts, Registers, Becomes
<1>39. ASSUME NEW s \in Servers, ServerDies(s) PROVE ServersStep
  BY <1>39, <1>0 DEF ServerDies, Exit, NoServer, Hands, ServersStep, Takes, Comes, Calm,
     Resets, Accepts, Registers, Becomes
<1> QED
  BY <1>1, <1>2, <1>3, <1>4, <1>5, <1>6, <1>7, <1>8, <1>9, <1>10, <1>11, <1>12, <1>13,
     <1>14, <1>15, <1>16, <1>17, <1>18, <1>19, <1>20, <1>21, <1>22, <1>23, <1>24, <1>25, <1>26,
     <1>27, <1>28, <1>29, <1>30, <1>31, <1>32, <1>33, <1>34, <1>35, <1>36, <1>37, <1>38, <1>39
  DEF Next, Acts, Loop, IdleThread

\* A client that has still to connect in a try is known to no server.
Unknown ==
    \A i \in Conns : Ahead(i) =>
       /\ conn[i].to = NoOne
       /\ \A s \in Servers : /\ server[s].hold # i
                             /\ \A j \in 1 .. Len(server[s].queue) : server[s].queue[j] # i
\* A command to shut down is of an interrupt.
Interrupted == \A i \in Conns : HasShutdown(conn[i]) => client[i[1]].interrupted
\* A client's pipes are taken once, and by a server that has no user interface.
OnePipe ==
    \A s \in Servers :
       server[s].main # "ready" /\ server[s].ui # NoConn /\ server[s].hold # NoConn
          => ~conn[server[s].hold].fds
Unshut == \A s \in Servers : server[s].main = "ready" => server[s].state # "shutdown"

\* What the argument needs in every state.
FreshInv == IdleInv /\ Typed /\ Unknown /\ Interrupted /\ OnePipe /\ Unshut /\ FreshCooker

\* Together they keep what the theorem needs.
LEMMA FreshStep ==
    ASSUME FreshInv, Next, LinkStep, ClientsStep, ServersStep
    PROVE  Typed' /\ Unknown' /\ Interrupted' /\ OnePipe' /\ Unshut' /\ FreshCooker'
<1>0. Links /\ Plans /\ Hands /\ Plans'
  BY DEF FreshInv, Typed, ClientsStep
<1>i. \A i \in Conns : i[1] \in Clients
  BY DEF Conns
<1>n. NoConn \notin Conns
  BY ServerAssumption DEF NoConn, Conns
<1>1. Links'
  BY DEF LinkStep, Less, Made, Sent, Links
<1>k. \A s \in Servers :
        Calm(s) \/ Resets(s) \/ Starts(s) \/ Accepts(s) \/ Registers(s) \/ ShutsDown(s)
  BY DEF ServersStep
<1>2. Hands'
  <2> SUFFICES ASSUME NEW s \in Servers
               PROVE  /\ server'[s].hold \in Conns \cup {NoConn}
                      /\ server'[s].ui \in Conns \cup {NoConn}
                      /\ server'[s].queue \in Seq(Conns)
                      /\ server'[s].main = "ready" => server'[s].ui \in Conns
    BY DEF Hands, ServersStep
  <2>1. server'[s].hold \in Conns \cup {NoConn} /\ server'[s].queue \in Seq(Conns)
    BY DEF ServersStep, Takes
  <2>2. /\ server'[s].ui \in Conns \cup {NoConn}
        /\ server'[s].main = "ready" => server'[s].ui \in Conns
    BY <1>0, <1>k DEF Hands, Calm, Resets, Starts, Accepts, Registers, ShutsDown
  <2> QED
    BY <2>1, <2>2
<1>3. Typed'
  BY <1>0, <1>1, <1>2 DEF Typed
<1>4. Unknown'
  <2> SUFFICES ASSUME NEW i \in Conns, Ahead(i)'
               PROVE  /\ conn'[i].to = NoOne
                      /\ \A s \in Servers :
                            /\ server'[s].hold # i
                            /\ \A j \in 1 .. Len(server'[s].queue) : server'[s].queue[j] # i
    BY DEF Unknown
  <2>1. /\ Ahead(i) /\ conn[i].to = NoOne
        /\ \A s \in Servers : /\ server[s].hold # i
                              /\ \A j \in 1 .. Len(server[s].queue) : server[s].queue[j] # i
    BY DEF ClientsStep, FreshInv, Unknown
  <2>2. conn'[i].to = NoOne
    BY <2>1 DEF LinkStep, Less, Made, Sent
  <2>3. \A s \in Servers : ~Comes(s, i)
    BY <2>1, ServerAssumption DEF Comes, Backlog
  <2>4. \A s \in Servers :
           /\ server'[s].hold # i
           /\ \A j \in 1 .. Len(server'[s].queue) : server'[s].queue[j] # i
    BY <1>n, <2>3 DEF ServersStep, Takes
  <2> QED
    BY <2>2, <2>4
<1>5. Interrupted'
  BY DEF FreshInv, Interrupted, LinkStep, Less, Made, Sent, ClientsStep
<1>6. OnePipe'
  <2> SUFFICES ASSUME NEW s \in Servers, server'[s].main # "ready", server'[s].ui # NoConn,
                      server'[s].hold # NoConn
               PROVE  ~conn'[server'[s].hold].fds
    BY DEF OnePipe
  <2>1. CASE Calm(s) \/ ShutsDown(s)
    <3>1. server'[s].hold = server[s].hold /\ server[s].hold \in Conns
      BY <1>0, <2>1 DEF Calm, ShutsDown, Hands
    <3>2. ~conn[server[s].hold].fds
      BY <2>1, <3>1 DEF Calm, ShutsDown, FreshInv, OnePipe
    <3>3. ~Made(server[s].hold)
      BY <3>1 DEF Made, FreshInv, Unknown
    <3> QED
      BY <3>1, <3>2, <3>3 DEF LinkStep, Less, Sent
  <2>2. CASE Accepts(s)
    BY <2>2 DEF Accepts, FreshInv, IdleInv, IdleAlone
  <2>3. CASE Registers(s)
    BY <2>3 DEF Registers
  <2> QED
    BY <1>k, <2>1, <2>2, <2>3 DEF Resets, Starts
<1>7. Unshut'
  BY <1>k DEF Calm, Resets, Starts, Accepts, Registers, ShutsDown, FreshInv, Unshut
<1>8. FreshCooker'
  <2> SUFFICES ASSUME NEW s \in Servers, server'[s].state = "shutdown"
               PROVE  server'[s].ui # NoConn /\ client'[server'[s].ui[1]].interrupted
    BY DEF FreshCooker
  <2>1. CASE Calm(s) \/ Accepts(s)
    <3>1. /\ server[s].state = "shutdown" /\ server'[s].ui = server[s].ui
      BY <2>1 DEF Calm, Accepts
    <3>2. /\ server[s].ui \in Conns /\ client[server[s].ui[1]].interrupted
      BY <1>0, <3>1 DEF FreshInv, FreshCooker, Hands
    <3> QED
      BY <1>n, <3>1, <3>2 DEF ClientsStep
  <2>2. CASE Registers(s)
    BY <2>2 DEF Registers, FreshInv, FreshCooker, OnePipe
  <2>3. CASE ShutsDown(s)
    <3>1. server[s].ui \in Conns /\ server'[s].ui = server[s].ui
      BY <1>0, <2>3 DEF ShutsDown, Hands
    <3>2. client[server[s].ui[1]].interrupted
      BY <2>3, <3>1 DEF ShutsDown, FreshInv, Interrupted
    <3> QED
      BY <1>n, <3>1, <3>2 DEF ClientsStep
  <2>4. CASE Resets(s)
    BY <2>4 DEF Resets, FreshInv, Unshut
  <2> QED
    BY <1>k, <2>1, <2>2, <2>3, <2>4 DEF Starts
<1> QED
  BY <1>3, <1>4, <1>5, <1>6, <1>7, <1>8

\* At first nobody is connected.
LEMMA InitFresh == Init => FreshInv
<1> SUFFICES ASSUME Init PROVE FreshInv
  OBVIOUS
<1> USE ServerAssumption DEF Init
<1>e. <<>> \in Seq(Words) /\ <<>> \in Seq(Conns)
  OBVIOUS
<1>1. Links
  <2>1. Link(NoLink)
    BY <1>e DEF Link, NoLink
  <2>2. conn = [i \in Conns |-> NoLink]
    OBVIOUS
  <2> QED
    BY <2>1, <2>2 DEF Links
<1>2. Plans
  <2>1. DOMAIN plan = Clients /\ \A c \in Clients :
            plan[c] \in Seq({"query", "build", "kill"}) /\ plan[c] # <<>>
    OBVIOUS
  <2>2. \A c \in Clients : Len(plan[c]) \in Nat /\ 0 < Len(plan[c])
    BY <2>1
  <2> QED
    BY <2>1, <2>2 DEF Plans, NoClient
<1>3. Hands
  <2>1. server = [s \in Servers |-> NoServer]
    OBVIOUS
  <2>2. /\ {"main", "quit", "hold", "queue", "ui", "hadui", "cmd", "funs", "state", "fires",
           "ends", "unsent"} \subseteq DOMAIN NoServer
        /\ NoServer.hold = NoConn /\ NoServer.ui = NoConn /\ NoServer.queue = <<>>
        /\ NoServer.main = "off"
    BY DEF NoServer
  <2> QED
    BY <1>e, <2>1, <2>2 DEF Hands
<1>4. Unknown
  BY DEF Unknown, NoServer, NoLink, Conns, NoConn
<1>5. Interrupted
  BY DEF Interrupted, HasShutdown, NoLink
<1>6. OnePipe /\ Unshut /\ FreshCooker
  BY DEF OnePipe, Unshut, FreshCooker, NoServer
<1> QED
  BY <1>1, <1>2, <1>3, <1>4, <1>5, <1>6, InitIdle DEF FreshInv, Typed

\* Every step keeps it.
LEMMA NextFresh == FreshInv /\ [Next]_vars => FreshInv'
<1>1. ASSUME FreshInv, Next PROVE FreshInv'
  <2>1. LinkStep /\ ClientsStep /\ ServersStep
    BY <1>1, StepLinks, StepClients, StepServers DEF FreshInv
  <2>2. IdleInv'
    BY <1>1, NextIdle DEF FreshInv
  <2> QED
    BY <1>1, <2>1, <2>2, FreshStep DEF FreshInv
<1>2. ASSUME FreshInv, UNCHANGED vars PROVE FreshInv'
  <2>1. UNCHANGED <<plan, server, client, conn>> /\ IdleInv'
    BY <1>2, NextIdle DEF vars, settings, FreshInv
  <2>2. Typed'
    BY <1>2, <2>1 DEF FreshInv, Typed, Links, Plans, Hands
  <2> QED
    BY <1>2, <2>1, <2>2
    DEF FreshInv, Unknown, Ahead, Interrupted, OnePipe, Unshut, FreshCooker
<1> QED
  BY <1>1, <1>2

\* A cooker that is shutting down does so for the client it serves, for any number
\* of clients, tries, servers and faults.
THEOREM FreshCookerHolds == Spec => []FreshCooker
<1>1. Spec => []FreshInv
  BY InitFresh, NextFresh, PTL DEF Spec
<1> QED
  BY <1>1, PTL DEF FreshInv
=============================================================================
