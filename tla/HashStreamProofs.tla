-------------------------- MODULE HashStreamProofs --------------------------
(***************************************************************************)
(* Answered, for every number of queries, every size of the pipes and of   *)
(* the queue, any number of losses, and whatever the server knows.         *)
(*                                                                         *)
(* What is answered, what is on its way and what is yet to send are at     *)
(* any time one run of numbers: each place between the two ends of the     *)
(* batch holds consecutive queries and takes up where the place before it  *)
(* ends (InFlight, Waits, Ahead).  Only the two places between server and  *)
(* upstream server have gaps: there are, in order, those of the queries in *)
(* UpstreamQueue that the server does not know (Upstream).  So the query   *)
(* that process_results() awaits is the first of them.                     *)
(***************************************************************************)
EXTENDS HashStream, TLAPS

\* s holds the numbers that follow n.
Run(s, n) == s \in Seq(Nat) /\ \A i \in 1..Len(s) : s[i] = n + i

\* x takes up where such a run ends.
Follows(x, s, n) == x = n + Len(s) + 1

\* A place for one query counts if it is taken.
One(place) == IF place = None THEN 0 ELSE 1

\* The last query that is past each place.
Here == Len(results)
Piped == Here + Len(toClient)
Queued == Piped + Len(server.queue)
Taken == Queued + One(server.awaits)
Handled == Taken + Len(server.answers)
Received == Handled + One(server.hand)
Written == Received + Len(toServer)

\* The fields of the records, and the numbers the client counts with.
Shape ==
    /\ {"pc", "again"} \subseteq DOMAIN sender
    /\ {"hand", "queue", "answers", "awaits", "asked", "replies"} \subseteq DOMAIN server
    /\ fed \in Nat /\ filled \in Nat /\ item \in Nat /\ filled <= fed /\ fed <= NumQueries
    /\ server.hand \in Nat /\ server.awaits \in Nat

\* What is on its way: queries in the order they were asked.
InFlight ==
    /\ Run(results, 0) /\ Run(toClient, Here) /\ Run(server.queue, Piped)
    /\ server.awaits # None => server.awaits = Queued + 1 /\ server.awaits \notin known
    /\ Run(server.answers, Taken)
    /\ server.hand # None => server.hand = Handled + 1
    /\ Run(toServer, Received)
    /\ ~upstream => server.answers = <<>> /\ server.awaits = None

\* The client's own account, and how it fits what is on its way.
Waits ==
    /\ Run(pending, Here) /\ Run(sender.again, Written)
    /\ filled = Here + Len(pending) + One(item) /\ (item # None => item = filled)

\* What the sender has sent, and has to send again, is what is pending.
Ahead ==
    /\ sender.pc \in {"off", "resend", "take", "sent", "ended"}
    /\ sender.pc = "off" => sender.again = <<>> /\ toServer = <<>> /\ toClient = <<>>
                            /\ server = NoServer
    /\ sender.pc \in {"resend", "take", "ended"}
          => Written + Len(sender.again) = Here + Len(pending)
    /\ sender.pc = "sent" => Written = Here + Len(pending) + 1
    /\ sender.pc # "resend" => sender.again = <<>>
    /\ sender.pc = "sent" => item # None
    /\ reader = "read" => Len(pending) > 0

\* What has ended is done.
Ends ==
    /\ fillDone => filled = NumQueries
    /\ sendDone => fillDone /\ item = None
    /\ reader = "ended" => sendDone /\ pending = <<>>
    /\ outcome = "ok" => Len(results) = NumQueries

\* s holds ever greater numbers.
Rises(s) == s \in Seq(Nat) /\ \A i, j \in 1..Len(s) : i < j => s[i] < s[j]

\* m is in s.
In(m, s) == \E i \in 1..Len(s) : s[i] = m

\* All but what is upstream.
Base == Shape /\ InFlight /\ Waits /\ Ahead /\ Ends

\* What is asked upstream, and replied, is what the server does not know, in order.
Upstream ==
    /\ Rises(server.replies) /\ Rises(server.asked)
    /\ \A m, n \in Nat : In(m, server.replies) /\ In(n, server.asked) => m < n
    /\ \A m \in Nat : (Queued < m /\ m <= Handled /\ m \notin known)
                         <=> (In(m, server.replies) \/ In(m, server.asked))

\* What comes from the upstream server is what is awaited.
Matched == server.awaits # None /\ server.replies # <<>>
              => Head(server.replies) = server.awaits

\* The inductive invariant.
Inv == Base /\ Upstream

\* Taking the first of a run leaves a run (asyncio.Queue.get, a pipe that is read).
LEMMA RunTail ==
    ASSUME NEW n \in Nat, NEW s, Run(s, n), s # <<>>
    PROVE  /\ Head(s) = n + 1 /\ Run(Tail(s), n + 1) /\ Len(s) \in Nat \ {0}
           /\ Len(Tail(s)) = Len(s) - 1 /\ n + 1 \in Nat
<1>1. s \in Seq(Nat) /\ Len(s) \in Nat \ {0} /\ \A i \in 1..Len(s) : s[i] = n + i
  BY DEF Run
<1>2. /\ Tail(s) \in Seq(Nat) /\ Len(Tail(s)) = Len(s) - 1
      /\ \A i \in 1..Len(Tail(s)) : Tail(s)[i] = s[i + 1]
  BY <1>1
<1>3. Head(s) = s[1]
  BY <1>1
<1>4. \A i \in 1..Len(Tail(s)) : i + 1 \in 1..Len(s) /\ n + (i + 1) = (n + 1) + i
  BY <1>1, <1>2
<1> QED
  BY <1>1, <1>2, <1>3, <1>4 DEF Run

\* What takes up where a run ends prolongs it (Queue.put, a pipe that is written).
LEMMA RunAppend ==
    ASSUME NEW n \in Nat, NEW s, Run(s, n), NEW x, Follows(x, s, n)
    PROVE  Run(Append(s, x), n) /\ Len(Append(s, x)) = Len(s) + 1 /\ Append(s, x) # <<>>
<1>1. s \in Seq(Nat) /\ Len(s) \in Nat /\ \A i \in 1..Len(s) : s[i] = n + i
  BY DEF Run
<1>2. /\ Append(s, x) \in Seq(Nat) /\ Len(Append(s, x)) = Len(s) + 1
      /\ \A i \in 1..Len(s) : Append(s, x)[i] = s[i]
      /\ Append(s, x)[Len(s) + 1] = x
  BY <1>1 DEF Follows
<1>3. \A i \in 1..Len(s) + 1 : Append(s, x)[i] = n + i
  <2> SUFFICES ASSUME NEW i \in 1..Len(s) + 1 PROVE Append(s, x)[i] = n + i
    OBVIOUS
  <2>1. CASE i = Len(s) + 1
    BY <1>1, <1>2, <2>1 DEF Follows
  <2>2. CASE i \in 1..Len(s)
    BY <1>1, <1>2, <2>2
  <2> QED
    BY <1>1, <2>1, <2>2
<1>4. Append(s, x) # <<>>
  BY <1>1, <1>2
<1> QED
  BY <1>1, <1>2, <1>3, <1>4 DEF Run

\* A run has a length, and no length only if it is empty.
LEMMA RunLen ==
    ASSUME NEW n, NEW s, Run(s, n)
    PROVE  Len(s) \in Nat /\ (s = <<>> <=> Len(s) = 0)
BY DEF Run

\* What is empty is a run, wherever it starts.
LEMMA RunEmpty == \A n : Run(<<>>, n) /\ Len(<<>>) = 0
BY DEF Run

\* The first of a rising sequence is its least; the rest of it rises.
LEMMA RiseTail ==
    ASSUME NEW s, Rises(s), s # <<>>
    PROVE  /\ Rises(Tail(s)) /\ Head(s) \in Nat /\ In(Head(s), s)
           /\ \A m \in Nat : In(m, s) => Head(s) <= m
           /\ \A m \in Nat : In(m, Tail(s)) <=> In(m, s) /\ m # Head(s)
<1>1. s \in Seq(Nat) /\ Len(s) \in Nat \ {0} /\ Head(s) = s[1]
      /\ \A i \in 1..Len(s) : s[i] \in Nat
  BY DEF Rises
<1>2. /\ Tail(s) \in Seq(Nat) /\ Len(Tail(s)) = Len(s) - 1
      /\ \A i \in 1..Len(Tail(s)) : Tail(s)[i] = s[i + 1] /\ i + 1 \in 1..Len(s)
  BY <1>1
<1>3. \A i, j \in 1..Len(s) : i < j => s[i] < s[j]
  BY DEF Rises
<1>4. Rises(Tail(s))
  <2>1. \A i, j \in 1..Len(Tail(s)) : i < j => Tail(s)[i] < Tail(s)[j]
    BY <1>1, <1>2, <1>3
  <2> QED
    BY <1>2, <2>1 DEF Rises
<1>5. In(Head(s), s)
  BY <1>1 DEF In
<1>6. \A i \in 1..Len(s) : i = 1 \/ (s[1] < s[i] /\ i - 1 \in 1..Len(Tail(s)) /\ Tail(s)[i - 1] = s[i])
  BY <1>1, <1>2, <1>3
<1>7. \A m \in Nat : In(m, s) => Head(s) <= m
  BY <1>1, <1>6 DEF In
<1>8. ASSUME NEW m \in Nat PROVE In(m, Tail(s)) <=> In(m, s) /\ m # Head(s)
  <2>1. In(m, Tail(s)) => In(m, s) /\ m # Head(s)
    <3> SUFFICES ASSUME In(m, Tail(s)) PROVE In(m, s) /\ m # Head(s)
      OBVIOUS
    <3>1. PICK i \in 1..Len(Tail(s)) : Tail(s)[i] = m
      BY DEF In
    <3>2. i + 1 \in 1..Len(s) /\ s[i + 1] = m /\ i + 1 # 1
      BY <1>2, <3>1
    <3>3. s[1] < s[i + 1]
      BY <1>6, <3>2
    <3>4. m # s[1]
      BY <1>1, <3>2, <3>3
    <3> QED
      BY <1>1, <3>2, <3>4 DEF In
  <2>2. In(m, s) /\ m # Head(s) => In(m, Tail(s))
    BY <1>1, <1>6 DEF In
  <2> QED
    BY <2>1, <2>2
<1> QED
  BY <1>1, <1>4, <1>5, <1>7, <1>8

\* A rising sequence rises with a greater number at its end.
LEMMA RiseAppend ==
    ASSUME NEW s, Rises(s), NEW x \in Nat, \A m \in Nat : In(m, s) => m < x
    PROVE  /\ Rises(Append(s, x))
           /\ \A m \in Nat : In(m, Append(s, x)) <=> In(m, s) \/ m = x
<1>1. s \in Seq(Nat) /\ Len(s) \in Nat /\ \A i \in 1..Len(s) : s[i] \in Nat
  BY DEF Rises
<1>2. /\ Append(s, x) \in Seq(Nat) /\ Len(Append(s, x)) = Len(s) + 1
      /\ \A i \in 1..Len(s) : Append(s, x)[i] = s[i] /\ i \in 1..Len(s) + 1
      /\ Append(s, x)[Len(s) + 1] = x
  BY <1>1
<1>3. \A i \in 1..Len(s) + 1 : i \in 1..Len(s) \/ i = Len(s) + 1
  BY <1>1
<1>4. \A i \in 1..Len(s) : s[i] < x
  BY <1>1 DEF In
<1>5. \A i, j \in 1..Len(s) : i < j => s[i] < s[j]
  BY DEF Rises
<1>6. ASSUME NEW i \in 1..Len(s) + 1, NEW j \in 1..Len(s) + 1, i < j
      PROVE  Append(s, x)[i] < Append(s, x)[j]
  <2>1. i \in 1..Len(s)
    BY <1>1, <1>6
  <2>2. CASE j \in 1..Len(s)
    BY <1>2, <1>5, <1>6, <2>1, <2>2
  <2>3. CASE j = Len(s) + 1
    BY <1>2, <1>4, <2>1, <2>3
  <2> QED
    BY <1>3, <2>2, <2>3
<1>7. Rises(Append(s, x))
  BY <1>2, <1>6 DEF Rises
<1>8. ASSUME NEW m \in Nat PROVE In(m, Append(s, x)) <=> In(m, s) \/ m = x
  <2>1. In(m, Append(s, x)) => In(m, s) \/ m = x
    BY <1>2, <1>3 DEF In
  <2>2. In(m, s) => In(m, Append(s, x))
    BY <1>2 DEF In
  <2>3. Len(s) + 1 \in 1..Len(Append(s, x))
    BY <1>1, <1>2
  <2>4. In(x, Append(s, x))
    BY <1>2, <2>3 DEF In
  <2> QED
    BY <2>1, <2>2, <2>4
<1> QED
  BY <1>7, <1>8

\* What is empty rises.
LEMMA RiseEmpty == Rises(<<>>) /\ \A m : ~In(m, <<>>)
BY DEF Rises, In

\* The numbers the steps count with.
Lens ==
    /\ Here \in Nat /\ Piped \in Nat /\ Queued \in Nat /\ Taken \in Nat
    /\ Handled \in Nat /\ Received \in Nat /\ Written \in Nat
    /\ Len(results) \in Nat /\ Len(toClient) \in Nat /\ Len(server.queue) \in Nat
    /\ Len(server.answers) \in Nat /\ Len(toServer) \in Nat
    /\ Len(pending) \in Nat /\ Len(sender.again) \in Nat
    /\ (toClient = <<>> <=> Len(toClient) = 0)
    /\ (server.queue = <<>> <=> Len(server.queue) = 0)
    /\ (server.answers = <<>> <=> Len(server.answers) = 0)
    /\ (toServer = <<>> <=> Len(toServer) = 0)
    /\ (pending = <<>> <=> Len(pending) = 0)
    /\ (sender.again = <<>> <=> Len(sender.again) = 0)

\* All the places and lengths are numbers.
LEMMA Lengths == Base => Lens
<1> SUFFICES ASSUME Base PROVE Lens
  OBVIOUS
<1>1. /\ Len(results) \in Nat /\ Len(toClient) \in Nat /\ Len(server.queue) \in Nat
      /\ Len(server.answers) \in Nat /\ Len(toServer) \in Nat
      /\ Len(pending) \in Nat /\ Len(sender.again) \in Nat
      /\ (toClient = <<>> <=> Len(toClient) = 0)
      /\ (server.queue = <<>> <=> Len(server.queue) = 0)
      /\ (server.answers = <<>> <=> Len(server.answers) = 0)
      /\ (toServer = <<>> <=> Len(toServer) = 0)
      /\ (pending = <<>> <=> Len(pending) = 0)
      /\ (sender.again = <<>> <=> Len(sender.again) = 0)
  BY RunLen DEF Base, InFlight, Waits
<1>2. \A p : One(p) \in Nat
  BY DEF One
<1>3. Here \in Nat /\ Piped \in Nat /\ Queued \in Nat
  <2>1. Here \in Nat
    BY <1>1 DEF Here
  <2>2. Piped \in Nat
    BY <1>1, <2>1 DEF Piped
  <2> QED
    BY <1>1, <2>1, <2>2 DEF Queued
<1>4. Taken \in Nat /\ Handled \in Nat
  BY <1>1, <1>2, <1>3 DEF Taken, Handled
<1>5. Received \in Nat /\ Written \in Nat
  BY <1>1, <1>2, <1>4 DEF Received, Written
<1> QED
  BY <1>1, <1>3, <1>4, <1>5 DEF Lens

\* The first reply of the upstream server is the one process_results() awaits:
\* queries before it are answered, those after it are asked later.
LEMMA AwaitedFirst ==
    ASSUME Base, Upstream
    PROVE  Matched
<1> SUFFICES ASSUME server.awaits # None, server.replies # <<>>
             PROVE  Head(server.replies) = server.awaits
  BY DEF Matched
<1>1. /\ server.awaits = Queued + 1 /\ server.awaits \notin known
      /\ Taken = Queued + 1 /\ Handled = Taken + Len(server.answers)
  BY DEF Base, InFlight, Taken, Handled, One
<1>2. Queued \in Nat /\ Taken \in Nat /\ Handled \in Nat
  BY Lengths DEF Lens
<1>3. PICK n \in Nat : n = Len(server.answers)
  BY Lengths DEF Lens
<1>4. Handled = Taken + n
  BY <1>1, <1>3
<1>5. Handled = Queued + 1 + n
  BY <1>1, <1>2, <1>4
<1>6. server.awaits \in Nat /\ Queued < server.awaits /\ server.awaits <= Handled
  <2>1. Queued + 1 \in Nat /\ Queued < Queued + 1 /\ Queued + 1 <= Handled
    BY <1>2, <1>5
  <2> QED
    BY <1>1, <2>1
<1>7. In(server.awaits, server.replies) \/ In(server.awaits, server.asked)
  BY <1>1, <1>6 DEF Upstream
<1>8. /\ Head(server.replies) \in Nat /\ In(Head(server.replies), server.replies)
      /\ \A m \in Nat : In(m, server.replies) => Head(server.replies) <= m
  BY RiseTail DEF Upstream
<1>9. Queued < Head(server.replies)
  BY <1>8 DEF Upstream
<1>10. CASE In(server.awaits, server.replies)
  BY <1>1, <1>2, <1>6, <1>8, <1>9, <1>10
<1>11. CASE In(server.awaits, server.asked)
  <2>1. Head(server.replies) < server.awaits
    BY <1>6, <1>8, <1>11 DEF Upstream
  <2> QED
    BY <1>1, <1>2, <1>8, <1>9, <2>1
<1> QED
  BY <1>7, <1>10, <1>11

\* Every step of client, server, upstream server and network keeps the
\* invariant: it moves one query on from one place to the next.
LEMMA NextInv ==
    ASSUME Inv, Next
    PROVE  Inv'
<1>1. Lens
  BY Lengths DEF Inv
<1>2. Shape /\ InFlight /\ Waits /\ Ahead /\ Ends
  BY DEF Inv, Base
<1>3. Matched
  BY AwaitedFirst DEF Inv
<1>4. Upstream
  BY DEF Inv
<1>5. /\ fed \in Nat /\ filled \in Nat /\ item \in Nat /\ NumQueries \in Nat
      /\ server.hand \in Nat /\ server.awaits \in Nat
  BY <1>2, HashStreamAssumption DEF Shape

<1>6. CASE Feed
  <2>1. Here' = Here /\ Piped' = Piped /\ Queued' = Queued /\ Taken' = Taken
        /\ Handled' = Handled /\ Received' = Received /\ Written' = Written
    BY <1>6, <1>1, <1>5, <1>2 DEF Feed, At, Fits, Locked, Here, Piped, Queued, Taken,
       Handled, Received, Written, Lens, Shape
  <2>2. Run(results', 0) /\ Run(toClient', Here') /\ Run(server.queue', Piped')
        /\ Run(server.answers', Taken') /\ Run(toServer', Received') /\ Run(pending', Here')
        /\ Run(sender.again', Written')
    BY <1>6, <1>1, <1>5, <1>2, <1>3, <2>1, RunEmpty DEF Feed, NoServer, client, Lens,
       InFlight, Waits, Shape
  <2>3. Shape'
    BY <1>6, <1>1, <1>5, <1>2, RunTail DEF Feed, At, Fits, Lens, Queries, Shape
  <2>4. InFlight'
    BY <1>6, <1>1, <1>5, <1>2, <1>3, <2>1, <2>2 DEF Feed, InFlight, Shape
  <2>5. Waits'
    BY <1>6, <1>1, <1>5, <1>2, <2>1, <2>2 DEF Feed, At, client, One, Waits, Ahead
  <2>6. Ahead'
    BY <1>6, <1>1, <1>5, <1>2, <1>3, <2>1, <2>2 DEF Feed, NoServer, client, Lens, Ahead
  <2>7. Ends'
    BY <1>6, <1>1, <1>5, <1>2 DEF Feed, At, Fits, Locked, One, Here, Ends, Waits
  <2>8. Upstream'
    BY <1>6, <1>4, <2>1 DEF Feed, Upstream, Shape
  <2> QED
    BY <2>3, <2>4, <2>5, <2>6, <2>7, <2>8 DEF Inv, Base
<1>7. CASE Fill
  <2>1. /\ filled' = filled + 1 /\ item' = filled + 1 /\ filled + 1 \in Nat
          /\ filled + 1 <= fed /\ fed' = fed /\ fed <= NumQueries
    BY <1>7, <1>2, <1>5 DEF Fill, At, Fits, Shape
  <2>2. item' # None /\ One(item') = 1 /\ One(item) = 0
    BY <1>7, <1>2, <1>5, <2>1 DEF Fill, At, Fits, Locked, None, NoServer, client, One
  <2>3. filled = Here + Len(pending)
    BY <1>7, <1>2, <1>3, <1>1, <1>5, <2>1, <2>2 DEF Fill, NoServer, client, Waits, Lens
  <2>4. Here' = Here /\ Piped' = Piped /\ Queued' = Queued /\ Taken' = Taken
        /\ Handled' = Handled /\ Received' = Received /\ Written' = Written
    BY <1>7, <2>1, <2>2, <2>3, RunTail, RunAppend, RunEmpty DEF Fill, NoServer, client,
       One, Here, Piped, Queued, Taken, Handled, Received, Written, Lens, Shape
  <2>5. Run(results', 0) /\ Run(toClient', Here') /\ Run(server.queue', Piped')
        /\ Run(server.answers', Taken') /\ Run(toServer', Received') /\ Run(pending', Here')
        /\ Run(sender.again', Written')
    BY <1>7, <2>1, <2>2, <2>3, <1>1, <1>5, <1>2, <1>3, <2>4, RunEmpty DEF Fill, At,
       client, Lens, InFlight, Waits
  <2>6. Shape'
    BY <1>7, <2>1, <2>2, <2>3, <1>1, <1>5, <1>2, RunTail DEF Fill, At, Fits, Locked,
       Queries, Shape
  <2>7. InFlight'
    BY <1>7, <2>1, <2>2, <2>3, <1>1, <1>5, <1>2, <1>3, <2>4, <2>5 DEF Fill, At, client,
       Lens, One, InFlight
  <2>8. Waits'
    BY <1>7, <2>1, <2>2, <2>3, <1>1, <1>5, <1>2, <2>4, <2>5 DEF Fill, At, Fits, One,
       Waits, Ahead, Shape
  <2>9. Ahead'
    BY <1>7, <2>1, <2>2, <2>3, <1>1, <1>5, <1>2, <1>3, <2>4, <2>5 DEF Fill, At, client,
       Lens, Ahead, Shape
  <2>10. Ends'
    BY <1>7, <2>1, <2>2, <2>3, <1>1, <1>5, <1>2, <2>4, <2>5, <2>8, <2>9 DEF Fill, At,
       Fits, Locked, None, NoServer, client, Lens, One, Here, Ends, Waits, Ahead, Shape
  <2>11. Upstream'
    BY <1>7, <2>1, <1>4, <2>4 DEF Fill, At, client, Upstream, Shape
  <2> QED
    BY <2>6, <2>7, <2>8, <2>9, <2>10, <2>11 DEF Inv, Base
<1>8. CASE FillEnds
  <2>1. Here' = Here /\ Piped' = Piped /\ Queued' = Queued /\ Taken' = Taken
        /\ Handled' = Handled /\ Received' = Received /\ Written' = Written
    BY <1>8, <1>1, <1>5, <1>2 DEF FillEnds, At, Fits, Locked, Here, Piped, Queued, Taken,
       Handled, Received, Written, Lens, Shape
  <2>2. Run(results', 0) /\ Run(toClient', Here') /\ Run(server.queue', Piped')
        /\ Run(server.answers', Taken') /\ Run(toServer', Received') /\ Run(pending', Here')
        /\ Run(sender.again', Written')
    BY <1>8, <1>1, <1>5, <1>2, <1>3, <2>1, RunEmpty DEF FillEnds, NoServer, client, Lens,
       InFlight, Waits, Shape
  <2>3. Shape'
    BY <1>8, <1>1, <1>5, <1>2, RunTail DEF FillEnds, At, Fits, Lens, Queries, Shape
  <2>4. InFlight'
    BY <1>8, <1>1, <1>5, <1>2, <1>3, <2>1, <2>2 DEF FillEnds, InFlight, Shape
  <2>5. Waits'
    BY <1>8, <1>1, <1>5, <1>2, <2>1, <2>2 DEF FillEnds, At, client, One, Waits, Ahead
  <2>6. Ahead'
    BY <1>8, <1>1, <1>5, <1>2, <1>3, <2>1, <2>2 DEF FillEnds, NoServer, client, Lens,
       Ahead
  <2>7. Ends'
    BY <1>8, <1>1, <1>5, <1>2 DEF FillEnds, At, Fits, Locked, One, Here, Ends, Waits
  <2>8. Upstream'
    BY <1>8, <1>4, <2>1 DEF FillEnds, Upstream, Shape
  <2> QED
    BY <2>3, <2>4, <2>5, <2>6, <2>7, <2>8 DEF Inv, Base
<1>9. CASE Connect
  <2>1. toServer = <<>> /\ toClient = <<>> /\ server = NoServer
    BY <1>9, <1>2, <1>5 DEF Connect, At, Fits, Ahead
  <2>2. /\ Piped = Here /\ Queued = Here /\ Taken = Here /\ Handled = Here
          /\ Received = Here /\ Written = Here
    BY <1>5, <2>1, RunEmpty DEF Connect, NoServer, client, One, Here, Piped, Queued,
       Taken, Handled, Received, Written, Lens
  <2>3. Here' = Here /\ Piped' = Piped /\ Queued' = Queued /\ Taken' = Taken
        /\ Handled' = Handled /\ Received' = Received /\ Written' = Written
    BY <1>9, <2>1, <2>2, <1>1, RunAppend, RunEmpty DEF Connect, At, client, One, Here,
       Piped, Queued, Taken, Handled, Received, Written, Lens, Shape
  <2>4. Run(results', 0) /\ Run(toClient', Here') /\ Run(server.queue', Piped')
        /\ Run(server.answers', Taken') /\ Run(toServer', Received') /\ Run(pending', Here')
        /\ Run(sender.again', Written')
    BY <1>9, <2>1, <2>2, <1>1, <1>5, <1>2, <1>3, <2>3, RunEmpty DEF Connect, At, Fits,
       Lens, InFlight, Waits, Shape
  <2>5. Shape'
    BY <1>9, <2>1, <2>2, <1>1, <1>5, <1>2, RunTail DEF Connect, Shape
  <2>6. InFlight'
    BY <1>9, <2>1, <2>2, <1>1, <2>4 DEF Connect, At, Fits, Locked, None, NoServer, client,
       Lens, One, InFlight, Shape
  <2>7. Waits'
    BY <1>9, <2>1, <2>2, <1>1, <1>5, <1>2, <2>3, <2>4 DEF Connect, At, Fits, Locked,
       Waits, Ahead, Shape
  <2>8. Ahead'
    BY <1>9, <2>1, <2>2, <1>1, <1>5, <1>2, <1>3, <2>3, <2>4 DEF Connect, At, Fits, Lens,
       Ahead, Shape
  <2>9. Ends'
    BY <1>9, <2>1, <2>2, <1>1, <1>5, <1>2, <2>3, <2>4, <2>7, <2>8 DEF Connect, At, Ends,
       Waits, Ahead, Shape
  <2>10. Upstream'
    BY <1>9, <2>1, <2>2, <1>4, <2>3 DEF Connect, At, Fits, Upstream, Shape
  <2> QED
    BY <2>5, <2>6, <2>7, <2>8, <2>9, <2>10 DEF Inv, Base
<1>10. CASE Send
  <2>1. Len(sender.again) = 0 /\ Written + Len(sender.again) = Here + Len(pending)
    BY <1>10, <1>2, <1>5 DEF Send, At, Fits, Ahead
  <2>2. filled = Here + Len(pending) + One(item) /\ item = filled /\ One(item) = 1
    BY <1>10, <1>2, <1>5, <2>1 DEF Send, At, client, Waits, One
  <2>3. item = Written + 1
    BY <1>3, <1>1, <1>5, <2>1, <2>2 DEF Send, NoServer, client, Lens
  <2>4. Written = Received + Len(toServer) /\ Run(toServer, Received)
    BY <1>10, <1>2, <1>3, <1>1 DEF None, NoServer, client, Written, InFlight
  <2>5. Follows(item, toServer, Received)
    BY <2>3, <2>4 DEF Lens, Follows
  <2>6. Run(Append(toServer, item), Received)
        /\ Len(Append(toServer, item)) = Len(toServer) + 1
    BY <1>1, <1>5, <2>3, <2>4, <2>5, RunAppend DEF Lens
  <2>7. Here' = Here /\ Piped' = Piped /\ Queued' = Queued /\ Taken' = Taken
        /\ Handled' = Handled /\ Received' = Received /\ Written' = Written + 1
    BY <1>10, <2>1, <2>2, <2>3, <1>5, <1>2, <1>3, RunTail, RunAppend, RunEmpty DEF Send,
       At, client, One, Here, Piped, Queued, Taken, Handled, Received, Written, Lens,
       Shape
  <2>8. Run(results', 0) /\ Run(toClient', Here') /\ Run(server.queue', Piped')
        /\ Run(server.answers', Taken') /\ Run(toServer', Received') /\ Run(pending', Here')
        /\ Run(sender.again', Written')
    BY <1>10, <2>1, <2>2, <2>3, <2>4, <2>5, <2>6, <1>1, <1>5, <1>2, <1>3, <2>7, RunEmpty
       DEF Send, At, Fits, Lens, InFlight, Waits, Shape
  <2>9. Shape'
    BY <1>10, <2>1, <2>2, <2>3, <1>5, <1>2, RunTail DEF Send, At, Fits, Locked, None,
       Shape
  <2>10. InFlight'
    BY <1>10, <2>1, <2>2, <2>3, <1>5, <1>2, <1>3, <2>7, <2>8 DEF Send, At, Fits, Lens,
       One, InFlight, Shape
  <2>11. Waits'
    BY <1>10, <2>1, <2>2, <2>3, <1>5, <1>2, <2>7, <2>8 DEF Send, At, Fits, Locked, Waits,
       Ahead, Shape
  <2>12. Ahead'
    BY <1>10, <2>1, <2>2, <2>3, <1>5, <1>2, <1>3, <2>7, <2>8 DEF Send, At, Fits, Lens,
       Ahead, Shape
  <2>13. Ends'
    BY <1>10, <2>1, <2>2, <2>3, <1>5, <1>2, <2>7, <2>8, <2>11, <2>12 DEF Send, At, Ends,
       Waits, Ahead, Shape
  <2>14. Upstream'
    BY <1>10, <2>1, <2>2, <2>3, <2>4, <2>5, <2>6, <1>4, <2>7 DEF Send, At, Fits, Upstream,
       Shape
  <2> QED
    BY <2>9, <2>10, <2>11, <2>12, <2>13, <2>14 DEF Inv, Base
<1>11. CASE Sent
  <2>1. /\ sender'.pc = "take" /\ sender'.again = sender.again /\ item' = 0
        /\ filled' = filled
          /\ pending' = Append(pending, item) /\ reader' = reader /\ toServer' = toServer
          /\ toClient' = toClient /\ server' = server
    BY <1>11, <1>2, <1>5 DEF Sent, At, Fits, Locked, None, NoServer, client
  <2>2. item # None /\ Len(sender.again) = 0
    BY <1>11, <1>2, <1>5, <2>1 DEF Sent, At, client, Ahead
  <2>3. filled = Here + Len(pending) + One(item) /\ item = filled /\ One(item) = 1
    BY <1>11, <1>2, <1>5, <2>1, <2>2 DEF Sent, NoServer, client, Waits, One
  <2>4. item = Here + Len(pending) + 1 /\ Run(pending, Here)
    BY <1>11, <1>2, <1>3, <1>1, <1>5, <2>1, <2>2, <2>3 DEF None, NoServer, client, Waits
  <2>5. Follows(item, pending, Here)
    BY <2>4 DEF Lens, Follows
  <2>6. Run(Append(pending, item), Here) /\ Len(Append(pending, item)) = Len(pending) + 1
    BY <1>1, <1>5, <2>3, <2>4, <2>5, RunAppend DEF Lens
  <2>7. One(item') = 0 /\ filled = Here + Len(pending) + 1 /\ item' = 0 /\ filled' = filled
        /\ Here' = Here /\ pending' = Append(pending, item)
    BY <1>11, <1>2, <1>3, <1>1, <1>5, <2>1, <2>2, <2>3, <2>4, <2>5, <2>6 DEF Sent,
       NoServer, client, One, Here
  <2>8. Written = Here + Len(pending) + 1
    BY <1>11, <1>2, <1>3, <1>1 DEF Sent, At, Fits, Locked, None, NoServer, client, Ahead
  <2>9. Here' = Here /\ Piped' = Piped /\ Queued' = Queued /\ Taken' = Taken
        /\ Handled' = Handled /\ Received' = Received /\ Written' = Written
    BY <1>11, <2>1, <2>2, <2>3 DEF Sent, At, Fits, Locked, Here, Piped, Queued, Taken,
       Handled, Received, Written, Lens, Shape
  <2>10. Run(results', 0) /\ Run(toClient', Here') /\ Run(server.queue', Piped')
         /\ Run(server.answers', Taken') /\ Run(toServer', Received')
         /\ Run(pending', Here') /\ Run(sender.again', Written')
    BY <1>11, <2>1, <2>2, <2>3, <2>4, <2>5, <2>6, <2>7, <2>8, <1>1, <1>5, <1>2, <1>3,
       <2>9, RunEmpty DEF Sent, NoServer, client, Lens, InFlight, Waits, Shape
  <2>11. Shape'
    BY <1>11, <2>1, <2>2, <2>3, <2>8, <1>1, <1>5, <1>2, RunTail DEF Sent, At, Fits, Lens,
       Queries, Shape
  <2>12. InFlight'
    BY <1>11, <2>1, <2>2, <2>3, <2>8, <1>1, <1>5, <1>2, <1>3, <2>9, <2>10 DEF Sent,
       InFlight, Shape
  <2>13. Waits'
    BY <2>7, <2>8, <1>1, <1>5, <1>2, <2>9, <2>10 DEF Waits, Lens, One
  <2>14. Ahead'
    BY <2>1, <2>2, <2>3, <2>4, <2>5, <2>6, <2>7, <2>8, <1>1, <1>5, <1>2, <1>3, <2>9, <2>10
       DEF Ahead, Lens
  <2>15. Ends'
    BY <1>11, <2>1, <2>2, <2>3, <2>8, <1>1, <1>5, <1>2 DEF Sent, At, Fits, Locked, One,
       Here, Ends, Waits, Ahead, Shape
  <2>16. Upstream'
    BY <1>11, <2>1, <2>2, <2>3, <2>8, <1>4, <2>9 DEF Sent, NoServer, client, Upstream,
       Shape
  <2> QED
    BY <2>11, <2>12, <2>13, <2>14, <2>15, <2>16 DEF Inv, Base
<1>12. CASE SendEnds
  <2>1. Here' = Here /\ Piped' = Piped /\ Queued' = Queued /\ Taken' = Taken
        /\ Handled' = Handled /\ Received' = Received /\ Written' = Written
    BY <1>12, <1>1, <1>5, <1>2 DEF SendEnds, At, Fits, Locked, Here, Piped, Queued, Taken,
       Handled, Received, Written, Lens, Shape
  <2>2. Run(results', 0) /\ Run(toClient', Here') /\ Run(server.queue', Piped')
        /\ Run(server.answers', Taken') /\ Run(toServer', Received') /\ Run(pending', Here')
        /\ Run(sender.again', Written')
    BY <1>12, <1>1, <1>5, <1>2, <1>3, <2>1, RunEmpty DEF SendEnds, At, Fits, Locked, None,
       NoServer, client, Lens, InFlight, Waits, Shape
  <2>3. Shape'
    BY <1>12, <1>1, <1>5, <1>2, RunTail DEF SendEnds, At, Fits, Lens, Queries, Shape
  <2>4. InFlight'
    BY <1>12, <1>1, <1>5, <1>2, <1>3, <2>1, <2>2 DEF SendEnds, InFlight, Shape
  <2>5. Waits'
    BY <1>12, <1>1, <1>5, <1>2, <2>1, <2>2 DEF SendEnds, At, client, One, Waits, Ahead
  <2>6. Ahead'
    BY <1>12, <1>1, <1>5, <1>2, <1>3, <2>1, <2>2 DEF SendEnds, At, Fits, Locked, None,
       NoServer, client, Lens, Ahead
  <2>7. Ends'
    BY <1>12, <1>1, <1>5, <1>2 DEF SendEnds, At, Fits, Locked, One, Here, Ends, Waits
  <2>8. Upstream'
    BY <1>12, <1>4, <2>1 DEF SendEnds, Upstream, Shape
  <2> QED
    BY <2>3, <2>4, <2>5, <2>6, <2>7, <2>8 DEF Inv, Base
<1>13. CASE Recv
  <2>1. Here' = Here /\ Piped' = Piped /\ Queued' = Queued /\ Taken' = Taken
        /\ Handled' = Handled /\ Received' = Received /\ Written' = Written
    BY <1>13, <1>1, <1>5, <1>2 DEF Recv, At, Fits, Locked, Here, Piped, Queued, Taken,
       Handled, Received, Written, Lens, Shape
  <2>2. Run(results', 0) /\ Run(toClient', Here') /\ Run(server.queue', Piped')
        /\ Run(server.answers', Taken') /\ Run(toServer', Received') /\ Run(pending', Here')
        /\ Run(sender.again', Written')
    BY <1>13, <1>1, <1>5, <1>2, <1>3, <2>1, RunEmpty DEF Recv, NoServer, client, Lens,
       InFlight, Waits, Shape
  <2>3. Shape'
    BY <1>13, <1>1, <1>5, <1>2, RunTail DEF Recv, At, Fits, Lens, Queries, Shape
  <2>4. InFlight'
    BY <1>13, <1>1, <1>5, <1>2, <1>3, <2>1, <2>2 DEF Recv, InFlight, Shape
  <2>5. Waits'
    BY <1>13, <1>1, <1>5, <1>2, <2>1, <2>2 DEF Recv, At, client, One, Waits, Ahead
  <2>6. Ahead'
    BY <1>13, <1>1, <1>5, <1>2, <1>3, <2>1, <2>2 DEF Recv, NoServer, client, Lens, Ahead
  <2>7. Ends'
    BY <1>13, <1>1, <1>5, <1>2 DEF Recv, At, Fits, Locked, One, Here, Ends, Waits
  <2>8. Upstream'
    BY <1>13, <1>4, <2>1 DEF Recv, Upstream, Shape
  <2> QED
    BY <2>3, <2>4, <2>5, <2>6, <2>7, <2>8 DEF Inv, Base
<1>14. CASE Read
  <2>1. /\ sender' = sender /\ server' = server /\ toServer' = toServer
        /\ toClient' = Tail(toClient)
          /\ pending' = Tail(pending) /\ reader' = "wait" /\ item' = item /\ filled' = filled
          /\ fillDone' = fillDone /\ sendDone' = sendDone /\ outcome' = outcome
    BY <1>14, <1>2, <1>5 DEF Read, At, Fits
  <2>2. Len(pending) > 0
    BY <1>14, <1>2, <1>5, <2>1 DEF Read, At, client, Ahead
  <2>3. Run(toClient, Here) /\ Run(pending, Here) /\ Run(results, 0) /\ Len(pending) > 0
        /\ pending # <<>>
    BY <1>14, <1>2, <1>3, <1>1, <1>5, <2>1, <2>2 DEF Read, NoServer, client, InFlight,
       Waits
  <2>4. toClient # <<>>
    BY <1>14, <1>2 DEF Read, At, Fits, Locked
  <2>5. /\ Head(toClient) = Here + 1 /\ Run(Tail(toClient), Here + 1)
          /\ Len(Tail(toClient)) = Len(toClient) - 1 /\ Len(toClient) \in Nat \ {0}
    BY <1>1, <1>5, <2>3, <2>4, RunTail DEF Lens
  <2>6. /\ Head(pending) = Here + 1 /\ Run(Tail(pending), Here + 1)
          /\ Len(Tail(pending)) = Len(pending) - 1 /\ Len(pending) \in Nat \ {0}
    BY <1>1, <1>5, <2>3, <2>4, <2>5, RunTail DEF Lens
  <2>7. Head(toClient) = 0 + Len(results) + 1 /\ 0 \in Nat
    BY <2>4, <2>5, <2>6 DEF Read, NoServer, client, Here, Lens
  <2>8. Follows(Head(toClient), results, 0)
    BY <2>7 DEF Lens, Follows
  <2>9. Run(Append(results, Head(toClient)), 0)
        /\ Len(Append(results, Head(toClient))) = Len(results) + 1
    BY <2>3, <2>4, <2>7, <2>8, RunAppend DEF Lens
  <2>10. Len(results) = Here
    BY DEF client, Here
  <2>11. sender.pc # "off"
    BY <1>14, <1>2, <1>3, <1>1, <2>8, <2>9, <2>10 DEF Read, NoServer, client, Ahead
  <2>12. outcome # "ok"
    BY <1>14, <1>2, <1>3, <1>1, <2>4, <2>5, <2>6, <2>7 DEF None, NoServer, client, Ends,
       Waits, One, Here, Shape
  <2>13. filled = Here + Len(pending) + One(item) /\ (item # None => item = filled)
    BY <1>14, <1>2, <1>3, <1>1 DEF Waits, One
  <2>14. Here' = Here + 1 /\ Piped' = Piped /\ Queued' = Queued /\ Taken' = Taken
         /\ Handled' = Handled /\ Received' = Received /\ Written' = Written
    BY <1>14, <2>1, <2>2, <2>3, <1>2, <1>3, RunTail, RunAppend, RunEmpty DEF Read, At,
       Fits, Locked, None, NoServer, client, One, Here, Piped, Queued, Taken, Handled,
       Received, Written, Lens, Shape
  <2>15. Run(results', 0) /\ Run(toClient', Here') /\ Run(server.queue', Piped')
         /\ Run(server.answers', Taken') /\ Run(toServer', Received')
         /\ Run(pending', Here') /\ Run(sender.again', Written')
    BY <1>14, <2>1, <2>2, <2>3, <2>4, <2>5, <2>6, <2>7, <2>8, <2>9, <2>10, <2>11, <1>2,
       <1>3, <2>14, RunEmpty DEF Read, At, Fits, Locked, None, NoServer, client, Lens,
       InFlight, Waits, Shape
  <2>16. Shape'
    BY <1>14, <2>1, <2>2, <2>3, <1>2, RunTail DEF Read, At, client, Lens, Queries, Shape
  <2>17. InFlight'
    BY <1>14, <2>1, <2>2, <2>3, <1>2, <1>3, <2>14, <2>15 DEF Read, At, Fits, Locked, None,
       NoServer, client, Lens, One, InFlight, Shape
  <2>18. Waits'
    BY <1>14, <2>1, <2>2, <2>3, <2>8, <2>9, <2>10, <2>11, <1>2, <2>14, <2>15 DEF Read, At,
       Fits, Locked, None, NoServer, client, One, Waits, Ahead, Shape
  <2>19. Ahead'
    <3>1. Written' = Written /\ Here' + Len(pending') = Here + Len(pending)
      BY <2>1, <2>6, <2>14, <1>1 DEF Lens
    <3> QED
      BY <2>1, <3>1, <1>2 DEF Ahead
  <2>20. Ends'
    BY <2>1, <2>2, <2>3, <2>4, <2>9, <2>10, <2>11, <2>12, <2>13, <1>1, <1>5, <1>2 DEF
       Ends, Lens, Waits, Ahead
  <2>21. Upstream'
    BY <1>14, <2>1, <2>2, <2>3, <2>12, <2>13, <1>4, <2>14 DEF Read, At, Fits, Locked,
       None, NoServer, client, Upstream, Shape
  <2> QED
    BY <2>16, <2>17, <2>18, <2>19, <2>20, <2>21 DEF Inv, Base
<1>15. CASE RecvEnds
  <2>1. Here' = Here /\ Piped' = Piped /\ Queued' = Queued /\ Taken' = Taken
        /\ Handled' = Handled /\ Received' = Received /\ Written' = Written
    BY <1>15, <1>1, <1>5, <1>2 DEF RecvEnds, At, Fits, Locked, Here, Piped, Queued, Taken,
       Handled, Received, Written, Lens, Shape
  <2>2. Run(results', 0) /\ Run(toClient', Here') /\ Run(server.queue', Piped')
        /\ Run(server.answers', Taken') /\ Run(toServer', Received') /\ Run(pending', Here')
        /\ Run(sender.again', Written')
    BY <1>15, <1>1, <1>5, <1>2, <1>3, <2>1, RunEmpty DEF RecvEnds, NoServer, client, Lens,
       InFlight, Waits, Shape
  <2>3. Shape'
    BY <1>15, <1>1, <1>5, <1>2, RunTail DEF RecvEnds, At, Fits, Lens, Queries, Shape
  <2>4. InFlight'
    BY <1>15, <1>1, <1>5, <1>2, <1>3, <2>1, <2>2 DEF RecvEnds, InFlight, Shape
  <2>5. Waits'
    BY <1>15, <1>1, <1>5, <1>2, <2>1, <2>2 DEF RecvEnds, At, client, One, Waits, Ahead
  <2>6. Ahead'
    BY <1>15, <1>1, <1>5, <1>2, <1>3, <2>1, <2>2 DEF RecvEnds, NoServer, client, Lens,
       Ahead
  <2>7. Ends'
    BY <1>15, <1>1, <1>5, <1>2 DEF RecvEnds, At, Fits, Locked, One, Here, Ends, Waits
  <2>8. Upstream'
    BY <1>15, <1>4, <2>1 DEF RecvEnds, Upstream, Shape
  <2> QED
    BY <2>3, <2>4, <2>5, <2>6, <2>7, <2>8 DEF Inv, Base
<1>16. CASE StreamEnds
  <2>1. Here' = Here /\ Piped' = Piped /\ Queued' = Queued /\ Taken' = Taken
        /\ Handled' = Handled /\ Received' = Received /\ Written' = Written
    BY <1>16, <1>1, <1>5, <1>2 DEF StreamEnds, At, Fits, Locked, None, NoServer, client,
       One, Here, Piped, Queued, Taken, Handled, Received, Written, Lens, Shape
  <2>2. Run(results', 0) /\ Run(toClient', Here') /\ Run(server.queue', Piped')
        /\ Run(server.answers', Taken') /\ Run(toServer', Received') /\ Run(pending', Here')
        /\ Run(sender.again', Written')
    BY <1>16, <1>1, <1>5, <1>2, <1>3, <2>1, RunEmpty DEF StreamEnds, NoServer, client,
       Lens, InFlight, Waits, Shape
  <2>3. Shape'
    BY <1>16, <1>1, <1>5, <1>2, RunTail DEF StreamEnds, At, Fits, Locked, None, NoServer,
       client, Lens, Queries, Shape
  <2>4. InFlight'
    BY <1>16, <1>1, <1>5, <1>2, <1>3, <2>1, <2>2 DEF StreamEnds, InFlight, Shape
  <2>5. Waits'
    BY <1>16, <1>1, <1>5, <1>2, <2>1, <2>2 DEF StreamEnds, At, client, One, Waits, Ahead
  <2>6. Ahead'
    BY <1>16, <1>1, <1>5, <1>2, <1>3, <2>1, <2>2 DEF StreamEnds, NoServer, client, Lens,
       Ahead
  <2>7. Ends'
    BY <1>16, <1>1, <1>5, <1>2 DEF StreamEnds, At, Fits, Locked, None, NoServer, client,
       Lens, One, Here, Ends, Waits
  <2>8. Upstream'
    BY <1>16, <1>4, <2>1 DEF StreamEnds, Upstream, Shape
  <2> QED
    BY <2>3, <2>4, <2>5, <2>6, <2>7, <2>8 DEF Inv, Base
<1>17. CASE ServerRecv
  <2>1. toServer # <<>> /\ Run(toServer, Received)
    BY <1>17, <1>2, <1>5 DEF ServerRecv, At, Fits, InFlight
  <2>2. /\ Head(toServer) = Received + 1 /\ Run(Tail(toServer), Received + 1)
          /\ Len(Tail(toServer)) = Len(toServer) - 1 /\ Len(toServer) \in Nat \ {0}
    BY <1>1, <2>1, RunTail DEF Lens
  <2>3. Received = Handled + 0
    BY <1>17, <1>2, <1>5, <2>1, <2>2 DEF ServerRecv, NoServer, client, Received, One
  <2>4. Head(toServer) # 0 /\ Head(toServer) \in Nat
    BY <1>1, <2>2, <2>3 DEF Lens
  <2>5. One(Head(toServer)) = 1 /\ One(0) = 0
    BY <2>4 DEF One, None
  <2>6. Here' = Here /\ Piped' = Piped /\ Queued' = Queued /\ Taken' = Taken
        /\ Handled' = Handled /\ Received' = Received + 1 /\ Written' = Written
    BY <1>17, <2>1, <2>2, <2>3, <1>2, <1>3, RunTail, RunAppend, RunEmpty DEF ServerRecv,
       At, Fits, Locked, None, NoServer, client, One, Here, Piped, Queued, Taken, Handled,
       Received, Written, Lens, Shape
  <2>7. Run(results', 0) /\ Run(toClient', Here') /\ Run(server.queue', Piped')
        /\ Run(server.answers', Taken') /\ Run(toServer', Received') /\ Run(pending', Here')
        /\ Run(sender.again', Written')
    BY <1>17, <2>1, <2>2, <2>3, <1>2, <1>3, <2>6, RunEmpty DEF ServerRecv, At, Fits,
       Locked, None, NoServer, client, Lens, InFlight, Waits, Shape
  <2>8. Shape'
    BY <1>17, <2>1, <2>2, <2>3, <2>4, <2>5, <1>1, <1>5, <1>2, RunTail DEF ServerRecv, At,
       client, Lens, Queries, Shape
  <2>9. InFlight'
    BY <1>17, <2>1, <2>2, <2>3, <2>4, <2>5, <1>1, <1>5, <1>2, <1>3, <2>6, <2>7 DEF
       ServerRecv, At, Fits, Locked, None, NoServer, client, Lens, One, InFlight, Shape
  <2>10. Waits'
    BY <1>17, <2>1, <2>2, <2>3, <1>2, <2>6, <2>7 DEF ServerRecv, NoServer, client, One,
       Waits
  <2>11. Ahead'
    BY <1>17, <2>1, <2>2, <2>3, <1>2, <1>3, <2>6, <2>7 DEF ServerRecv, At, Fits, Locked,
       None, NoServer, client, Lens, Ahead, Shape
  <2>12. Ends'
    BY <1>17, <2>1, <2>2, <2>3, <1>2, <2>6, <2>7, <2>10, <2>11 DEF ServerRecv, At, Fits,
       Locked, None, NoServer, client, Lens, One, Here, Ends, Waits, Ahead, Shape
  <2>13. Upstream'
    BY <1>17, <2>1, <2>2, <2>3, <2>4, <2>5, <1>4, <2>6 DEF ServerRecv, At, Fits, Locked,
       None, NoServer, client, Upstream
  <2> QED
    BY <2>8, <2>9, <2>10, <2>11, <2>12, <2>13 DEF Inv, Base
<1>18. CASE ServerQueues
  <2>1. server.hand = Handled + 1 /\ Run(server.queue, Piped)
    BY <1>18, <1>2, <1>5 DEF ServerQueues, At, Fits, InFlight
  <2>2. Handled = Queued /\ Taken = Queued
    BY <1>18, <1>2, <1>3, <1>1, <1>5, <2>1, RunEmpty DEF ServerQueues, At, Fits, Locked,
       None, NoServer, client, InFlight, Handled, Taken, One, Lens
  <2>3. Queued = Piped + Len(server.queue)
    BY DEF Queued
  <2>4. Follows(server.hand, server.queue, Piped)
    BY <2>1, <2>2, <2>3 DEF Lens, Follows
  <2>5. Run(Append(server.queue, server.hand), Piped)
        /\ Len(Append(server.queue, server.hand)) = Len(server.queue) + 1
    BY <1>1, <1>5, <2>1, <2>2, <2>3, <2>4, RunAppend DEF Lens
  <2>6. One(server.hand) = 1 /\ One(0) = 0
    BY <1>18, <1>2, <1>3, <1>1, <2>4, <2>5 DEF ServerQueues, At, Fits, Locked, None,
       NoServer, client, One
  <2>7. Here' = Here /\ Piped' = Piped /\ Queued' = Queued + 1 /\ Taken' = Taken + 1
        /\ Handled' = Handled + 1 /\ Received' = Received /\ Written' = Written
    BY <1>18, <2>1, <2>2, <2>3, <1>5, <1>2, <1>3, RunTail, RunAppend, RunEmpty DEF
       ServerQueues, At, client, One, Here, Piped, Queued, Taken, Handled, Received,
       Written, Lens, Shape
  <2>8. Run(results', 0) /\ Run(toClient', Here') /\ Run(server.queue', Piped')
        /\ Run(server.answers', Taken') /\ Run(toServer', Received') /\ Run(pending', Here')
        /\ Run(sender.again', Written')
    BY <1>18, <2>1, <2>2, <2>3, <2>4, <2>5, <2>6, <1>1, <1>5, <1>2, <1>3, <2>7, RunEmpty
       DEF ServerQueues, At, Fits, Locked, None, NoServer, client, Lens, InFlight, Waits,
       Shape
  <2>9. Shape'
    BY <1>18, <2>1, <2>2, <2>3, <1>5, <1>2, RunTail DEF ServerQueues, At, Fits, Locked,
       None, NoServer, client, Lens, Queries, Shape
  <2>10. InFlight'
    BY <1>18, <2>1, <2>2, <2>3, <1>5, <1>2, <1>3, <2>7, <2>8 DEF ServerQueues, At, Fits,
       Lens, One, InFlight, Shape
  <2>11. Waits'
    BY <1>18, <2>1, <2>2, <2>3, <1>5, <1>2, <2>7, <2>8 DEF ServerQueues, At, Fits, Locked,
       None, NoServer, client, One, Waits, Ahead, Shape
  <2>12. Ahead'
    BY <1>18, <2>1, <2>2, <2>3, <1>5, <1>2, <1>3, <2>7, <2>8 DEF ServerQueues, At, Fits,
       Locked, None, NoServer, client, Lens, Ahead, Shape
  <2>13. Ends'
    BY <1>18, <2>1, <2>2, <2>3, <1>5, <1>2, <2>7, <2>8, <2>11, <2>12 DEF ServerQueues, At,
       client, Lens, One, Here, Ends, Waits, Ahead, Shape
  <2>14. Upstream'
    <3>1. /\ server'.replies = server.replies /\ server'.asked = server.asked
          /\ upstream' = upstream /\ known' = known
      BY <1>18, <2>1 DEF ServerQueues, Shape
    <3>2. \A m \in Nat : ~(Queued < m /\ m <= Handled) /\ ~(Queued' < m /\ m <= Handled')
      BY <2>7, <2>2, <1>1 DEF Lens
    <3> QED
      BY <3>1, <3>2, <1>4 DEF Upstream
  <2> QED
    BY <2>9, <2>10, <2>11, <2>12, <2>13, <2>14 DEF Inv, Base
<1>19. CASE ServerAsks
  <2>1. server.hand = Handled + 1 /\ Run(server.answers, Taken)
    BY <1>19, <1>2, <1>5 DEF ServerAsks, At, Fits, InFlight
  <2>2. Handled = Taken + Len(server.answers)
    BY DEF Handled
  <2>3. Follows(server.hand, server.answers, Taken)
    BY <2>1, <2>2 DEF Follows
  <2>4. Run(Append(server.answers, server.hand), Taken)
        /\ Len(Append(server.answers, server.hand)) = Len(server.answers) + 1
    BY <1>1, <2>1, <2>2, <2>3, RunAppend DEF Lens
  <2>5. One(server.hand) = 1 /\ One(0) = 0
    BY <1>19, <1>2, <1>3, <1>1, <2>4 DEF ServerAsks, At, Fits, Locked, None, NoServer,
       client, One
  <2>6. Here' = Here /\ Piped' = Piped /\ Queued' = Queued /\ Taken' = Taken
        /\ Handled' = Handled + 1 /\ Received' = Received /\ Written' = Written
    BY <1>19, <2>1, <2>2, <2>3, <1>2, <1>3, RunTail, RunAppend, RunEmpty DEF ServerAsks,
       At, Fits, Locked, None, NoServer, client, One, Here, Piped, Queued, Taken, Handled,
       Received, Written, Lens, Shape
  <2>7. Run(results', 0) /\ Run(toClient', Here') /\ Run(server.queue', Piped')
        /\ Run(server.answers', Taken') /\ Run(toServer', Received') /\ Run(pending', Here')
        /\ Run(sender.again', Written')
    BY <1>19, <2>1, <2>2, <2>3, <2>4, <2>5, <1>1, <1>5, <1>2, <1>3, <2>6, RunEmpty DEF
       ServerAsks, At, Fits, Locked, None, NoServer, client, Lens, InFlight, Waits, Shape
  <2>8. Shape'
    BY <1>19, <2>1, <2>2, <2>3, <1>2, RunTail DEF ServerAsks, At, Fits, Locked, None,
       NoServer, client, Lens, Queries, Shape
  <2>9. InFlight'
    BY <1>19, <2>1, <2>2, <2>3, <1>2, <1>3, <2>6, <2>7 DEF ServerAsks, At, Fits, Locked,
       One, InFlight, Shape
  <2>10. Waits'
    BY <1>19, <2>1, <2>2, <2>3, <1>2, <2>6, <2>7 DEF ServerAsks, NoServer, client, One,
       Waits
  <2>11. Ahead'
    BY <1>19, <2>1, <2>2, <2>3, <1>2, <1>3, <2>6, <2>7 DEF ServerAsks, At, Fits, Locked,
       None, NoServer, client, Lens, Ahead, Shape
  <2>12. Ends'
    BY <1>19, <2>1, <2>2, <2>3, <1>2, <2>6, <2>7, <2>10, <2>11 DEF ServerAsks, At, Fits,
       Locked, None, NoServer, client, Lens, One, Here, Ends, Waits, Ahead, Shape
  <2>13. Upstream'
    <3>1. /\ server'.replies = server.replies /\ known' = known
          /\ server'.asked = IF server.hand \in known THEN server.asked
                                                     ELSE Append(server.asked, server.hand)
      BY <1>19, <2>1, <1>2 DEF ServerAsks
    <3>2. /\ server.hand = Handled + 1 /\ Queued' = Queued /\ Handled' = Handled + 1
          /\ Queued \in Nat /\ Handled \in Nat /\ Queued <= Handled
      <4>1. PICK n \in Nat : n = Len(server.answers)
        BY <1>1 DEF Lens
      <4>2. Handled = Taken + n /\ Taken = Queued + One(server.awaits)
        BY <4>1 DEF Handled, Taken
      <4>3. One(server.awaits) \in Nat
        BY DEF One
      <4>4. Queued \in Nat /\ Handled \in Nat /\ Taken \in Nat
        BY <1>1 DEF Lens
      <4>5. Queued <= Handled
        BY <4>2, <4>3, <4>4
      <4> QED
        BY <2>1, <2>6, <4>4, <4>5
    <3>3. \A m \in Nat : Queued < m /\ m <= Handled + 1
                           <=> (Queued < m /\ m <= Handled) \/ m = Handled + 1
      BY <3>2
    <3>4. CASE server.hand \in known
      BY <3>1, <3>2, <3>4, <1>4 DEF Upstream
    <3>5. CASE server.hand \notin known
      <4>1. \A m \in Nat : In(m, server.replies) \/ In(m, server.asked) => m <= Handled
        BY <1>4 DEF Upstream
      <4>2. server.hand \in Nat /\ \A m \in Nat : m <= Handled => m < server.hand
        BY <3>2
      <4>3. /\ Rises(Append(server.asked, server.hand))
            /\ \A m \in Nat : In(m, Append(server.asked, server.hand))
                                  <=> In(m, server.asked) \/ m = server.hand
        BY <4>2, <1>4, RiseAppend DEF Upstream
      <4>4. server'.asked = Append(server.asked, server.hand)
        BY <3>1, <3>5
      <4> QED
        BY <3>1, <3>2, <4>3, <4>4, <1>4 DEF Upstream
    <3> QED
      BY <3>4, <3>5
  <2> QED
    BY <2>8, <2>9, <2>10, <2>11, <2>12, <2>13 DEF Inv, Base
<1>20. CASE UpstreamReplies
  <2>1. Here' = Here /\ Piped' = Piped /\ Queued' = Queued /\ Taken' = Taken
        /\ Handled' = Handled /\ Received' = Received /\ Written' = Written
    BY <1>20, <1>1, <1>5, <1>2 DEF UpstreamReplies, At, Fits, Locked, None, NoServer,
       client, One, Here, Piped, Queued, Taken, Handled, Received, Written, Lens, Shape
  <2>2. Run(results', 0) /\ Run(toClient', Here') /\ Run(server.queue', Piped')
        /\ Run(server.answers', Taken') /\ Run(toServer', Received') /\ Run(pending', Here')
        /\ Run(sender.again', Written')
    BY <1>20, <1>1, <1>5, <1>2, <1>3, <2>1, RunEmpty DEF UpstreamReplies, NoServer,
       client, Lens, InFlight, Waits, Shape
  <2>3. Shape'
    BY <1>20, <1>1, <1>5, <1>2, RunTail DEF UpstreamReplies, At, Fits, Locked, None,
       NoServer, client, Lens, Queries, Shape
  <2>4. InFlight'
    BY <1>20, <1>1, <1>5, <1>2, <1>3, <2>1, <2>2 DEF UpstreamReplies, InFlight, Shape
  <2>5. Waits'
    BY <1>20, <1>1, <1>5, <1>2, <2>1, <2>2 DEF UpstreamReplies, At, client, One, Waits,
       Ahead
  <2>6. Ahead'
    BY <1>20, <1>1, <1>5, <1>2, <1>3, <2>1, <2>2 DEF UpstreamReplies, NoServer, client,
       Lens, Ahead
  <2>7. Ends'
    BY <1>20, <1>1, <1>5, <1>2 DEF UpstreamReplies, At, Fits, Locked, None, NoServer,
       client, Lens, One, Here, Ends, Waits
  <2>8. Upstream'
    <3> DEFINE h == Head(server.asked)
    <3>1. /\ server'.replies = Append(server.replies, h)
          /\ server'.asked = Tail(server.asked)
          /\ known' = known /\ server.asked # <<>>
      BY <1>20 DEF UpstreamReplies
    <3>2. /\ Rises(Tail(server.asked)) /\ h \in Nat /\ In(h, server.asked)
          /\ \A m \in Nat : In(m, server.asked) => h <= m
          /\ \A m \in Nat : In(m, Tail(server.asked)) <=> In(m, server.asked) /\ m # h
      BY <3>1, <1>4, RiseTail DEF Upstream
    <3> HIDE DEF h
    <3>3. /\ Rises(Append(server.replies, h))
          /\ \A m \in Nat : In(m, Append(server.replies, h)) <=> In(m, server.replies) \/ m = h
      BY <3>2, <1>4, RiseAppend DEF Upstream
    <3>4. \A m, n \in Nat : In(m, server'.replies) /\ In(n, server'.asked) => m < n
      BY <3>1, <3>2, <3>3, <1>4 DEF Upstream
    <3>5. \A m \in Nat : In(m, server'.replies) \/ In(m, server'.asked)
                            <=> In(m, server.replies) \/ In(m, server.asked)
      BY <3>1, <3>2, <3>3
    <3> QED
      BY <3>1, <3>2, <3>3, <3>4, <3>5, <2>1, <1>4 DEF Upstream
  <2> QED
    BY <2>3, <2>4, <2>5, <2>6, <2>7, <2>8 DEF Inv, Base
<1>21. CASE ServerReplied
  <2>1. Head(server.replies) = Queued + 1 /\ Run(server.queue, Piped)
    BY <1>21, <1>2, <1>3, <1>1, <1>5 DEF ServerReplied, At, Fits, InFlight, Matched
  <2>2. Taken = Queued + 1 /\ Queued = Piped + Len(server.queue)
    BY <1>21, <1>2, <1>5, <2>1 DEF ServerReplied, At, client, Taken, Queued, One
  <2>3. Follows(Head(server.replies), server.queue, Piped)
    BY <2>1, <2>2 DEF Follows
  <2>4. Run(Append(server.queue, Head(server.replies)), Piped)
        /\ Len(Append(server.queue, Head(server.replies))) = Len(server.queue) + 1
    BY <1>1, <2>1, <2>2, <2>3, RunAppend DEF Lens
  <2>5. One(0) = 0
    BY DEF Locked, None, NoServer, client, One
  <2>6. Here' = Here /\ Piped' = Piped /\ Queued' = Queued + 1 /\ Taken' = Taken
        /\ Handled' = Handled /\ Received' = Received /\ Written' = Written
    BY <1>21, <2>1, <2>2, <2>3, <1>2, <1>3, RunTail, RunAppend, RunEmpty DEF
       ServerReplied, At, Fits, Locked, None, NoServer, client, One, Here, Piped, Queued,
       Taken, Handled, Received, Written, Lens, Shape
  <2>7. Run(results', 0) /\ Run(toClient', Here') /\ Run(server.queue', Piped')
        /\ Run(server.answers', Taken') /\ Run(toServer', Received') /\ Run(pending', Here')
        /\ Run(sender.again', Written')
    BY <1>21, <2>1, <2>2, <2>3, <2>4, <2>5, <1>1, <1>5, <1>2, <1>3, <2>6, RunEmpty DEF
       ServerReplied, At, Fits, Locked, None, NoServer, client, Lens, InFlight, Waits,
       Shape
  <2>8. Shape'
    BY <1>21, <2>1, <2>2, <2>3, <1>2, RunTail DEF ServerReplied, At, Fits, Locked, None,
       NoServer, client, Lens, Queries, Shape
  <2>9. InFlight'
    BY <1>21, <2>1, <2>2, <2>3, <1>2, <1>3, <2>6, <2>7 DEF ServerReplied, At, Fits,
       Locked, One, InFlight, Shape
  <2>10. Waits'
    BY <1>21, <2>1, <2>2, <2>3, <1>2, <2>6, <2>7 DEF ServerReplied, NoServer, client, One,
       Waits
  <2>11. Ahead'
    BY <1>21, <2>1, <2>2, <2>3, <1>2, <1>3, <2>6, <2>7 DEF ServerReplied, At, Fits,
       Locked, None, NoServer, client, Lens, Ahead, Shape
  <2>12. Ends'
    BY <1>21, <2>1, <2>2, <2>3, <1>2, <2>6, <2>7, <2>10, <2>11 DEF ServerReplied, At,
       Fits, Locked, None, NoServer, client, Lens, One, Here, Ends, Waits, Ahead, Shape
  <2>13. Upstream'
    <3> DEFINE h == Head(server.replies)
    <3>1. /\ server'.replies = Tail(server.replies) /\ server'.asked = server.asked
          /\ known' = known /\ server.replies # <<>>
      BY <1>21, <2>1, <1>2 DEF ServerReplied
    <3>2. /\ Rises(Tail(server.replies)) /\ h \in Nat /\ In(h, server.replies)
          /\ \A m \in Nat : In(m, Tail(server.replies)) <=> In(m, server.replies) /\ m # h
      BY <3>1, <1>4, RiseTail DEF Upstream
    <3>3. h = Queued + 1 /\ Queued' = h /\ Handled' = Handled /\ Queued \in Nat
          /\ Handled \in Nat
      BY <2>1, <2>6, <1>1 DEF Lens
    <3> HIDE DEF h
    <3>4. \A m \in Nat : Queued' < m /\ m <= Handled' <=> Queued < m /\ m <= Handled
          /\ m # h
      BY <3>3
    <3>5. ~In(h, server.asked)
      BY <3>2, <1>4 DEF Upstream
    <3>6. \A m \in Nat : In(m, server'.replies) \/ In(m, server'.asked)
                            <=> (In(m, server.replies) \/ In(m, server.asked)) /\ m # h
      BY <3>1, <3>2, <3>5
    <3>7. \A m, n \in Nat : In(m, server'.replies) /\ In(n, server'.asked) => m < n
      BY <3>1, <3>2, <1>4 DEF Upstream
    <3> QED
      BY <3>1, <3>2, <3>4, <3>6, <3>7, <1>4 DEF Upstream
  <2> QED
    BY <2>8, <2>9, <2>10, <2>11, <2>12, <2>13 DEF Inv, Base
<1>22. CASE ServerSends
  <2>1. server.queue # <<>> /\ Run(server.queue, Piped) /\ Run(toClient, Here)
    BY <1>22, <1>2, <1>5 DEF ServerSends, At, Fits, InFlight
  <2>2. /\ Head(server.queue) = Piped + 1 /\ Run(Tail(server.queue), Piped + 1)
          /\ Len(Tail(server.queue)) = Len(server.queue) - 1 /\ Len(server.queue) \in Nat \ {0}
    BY <1>1, <2>1, RunTail DEF Lens
  <2>3. Piped = Here + Len(toClient)
    BY DEF Piped
  <2>4. Follows(Head(server.queue), toClient, Here)
    BY <2>2, <2>3 DEF Lens, Follows
  <2>5. Run(Append(toClient, Head(server.queue)), Here)
        /\ Len(Append(toClient, Head(server.queue))) = Len(toClient) + 1
    BY <1>1, <1>5, <2>1, <2>2, <2>3, <2>4, RunAppend DEF Lens
  <2>6. Here' = Here /\ Piped' = Piped + 1 /\ Queued' = Queued /\ Taken' = Taken
        /\ Handled' = Handled /\ Received' = Received /\ Written' = Written
    BY <1>22, <2>1, <2>2, <2>3, <1>2, <1>3, RunTail, RunAppend, RunEmpty DEF ServerSends,
       At, Fits, Locked, None, NoServer, client, One, Here, Piped, Queued, Taken, Handled,
       Received, Written, Lens, Shape
  <2>7. Run(results', 0) /\ Run(toClient', Here') /\ Run(server.queue', Piped')
        /\ Run(server.answers', Taken') /\ Run(toServer', Received') /\ Run(pending', Here')
        /\ Run(sender.again', Written')
    BY <1>22, <2>1, <2>2, <2>3, <2>4, <2>5, <1>1, <1>5, <1>2, <1>3, <2>6, RunEmpty DEF
       ServerSends, At, Fits, Locked, None, NoServer, client, Lens, InFlight, Waits, Shape
  <2>8. Shape'
    BY <1>22, <2>1, <2>2, <2>3, <1>2, RunTail DEF ServerSends, At, client, Lens, Queries,
       Shape
  <2>9. InFlight'
    BY <1>22, <2>1, <2>2, <2>3, <1>2, <1>3, <2>6, <2>7 DEF ServerSends, At, Fits, Locked,
       One, InFlight, Shape
  <2>10. Waits'
    BY <1>22, <2>1, <2>2, <2>3, <1>2, <2>6, <2>7 DEF ServerSends, NoServer, client, One,
       Waits
  <2>11. Ahead'
    BY <1>22, <2>1, <2>2, <2>3, <1>2, <1>3, <2>6, <2>7 DEF ServerSends, At, Fits, Locked,
       None, NoServer, client, Lens, Ahead, Shape
  <2>12. Ends'
    BY <1>22, <2>1, <2>2, <2>3, <1>2, <2>6, <2>7, <2>10, <2>11 DEF ServerSends, At, Fits,
       Locked, None, NoServer, client, Lens, One, Here, Ends, Waits, Ahead, Shape
  <2>13. Upstream'
    BY <1>22, <2>1, <2>2, <2>3, <2>4, <2>5, <1>4, <2>6 DEF ServerSends, At, Fits, Locked,
       None, NoServer, client, Upstream
  <2> QED
    BY <2>8, <2>9, <2>10, <2>11, <2>12, <2>13 DEF Inv, Base
<1>23. CASE Lose
  <2>1. Here' = Here /\ Piped' = Here /\ Queued' = Here /\ Taken' = Here /\ Handled' = Here
        /\ Received' = Here /\ Written' = Here
    BY <1>23, <1>1, <1>5, <1>2 DEF Lose, At, Fits, Locked, None, NoServer, client, One,
       Here, Piped, Queued, Taken, Handled, Received, Written, Lens, Shape
  <2>2. Run(results', 0) /\ Run(toClient', Here') /\ Run(server.queue', Piped')
        /\ Run(server.answers', Taken') /\ Run(toServer', Received') /\ Run(pending', Here')
        /\ Run(sender.again', Written')
    BY <1>23, <1>1, <1>5, <1>2, <1>3, <2>1, RunEmpty DEF Lose, NoServer, client, Lens,
       InFlight, Waits, Shape
  <2>3. Shape'
    BY <1>23, <1>1, <1>5, <1>2, RunTail DEF Lose, At, Fits, Locked, None, NoServer,
       client, Lens, Queries, Shape
  <2>4. InFlight'
    BY <1>23, <1>1, <1>5, <1>2, <1>3, <2>1, <2>2 DEF Lose, NoServer, client, Lens, One,
       InFlight, Shape
  <2>5. Waits'
    BY <1>23, <1>1, <1>5, <1>2, <2>1, <2>2 DEF Lose, At, client, One, Waits, Ahead
  <2>6. Ahead'
    BY <1>23, <1>1, <1>5, <1>2, <1>3, <2>1, <2>2 DEF Lose, NoServer, client, Lens, Ahead
  <2>7. Ends'
    BY <1>23, <1>1, <1>5, <1>2 DEF Lose, At, Fits, Locked, One, Here, Ends, Waits
  <2>8. Upstream'
    <3>1. server'.replies = <<>> /\ server'.asked = <<>>
      BY <1>23 DEF Lose, NoServer
    <3>2. \A m \in Nat : ~(Queued' < m /\ m <= Handled')
      BY <2>1, <1>1 DEF Lens
    <3> QED
      BY <3>1, <3>2, RiseEmpty DEF Upstream
  <2> QED
    BY <2>3, <2>4, <2>5, <2>6, <2>7, <2>8 DEF Inv, Base
<1>24. CASE Resend /\ sender.again = <<>>
  <2>1. Written + Len(sender.again) = Here + Len(pending)
    BY <1>24, <1>2, <1>5 DEF Resend, At, Fits, Ahead
  <2>2. Here' = Here /\ Piped' = Piped /\ Queued' = Queued /\ Taken' = Taken
        /\ Handled' = Handled /\ Received' = Received /\ Written' = Written
    BY <1>24, <2>1, <1>1, <1>5, RunEmpty DEF Resend, At, Fits, One, Here, Piped, Queued,
       Taken, Handled, Received, Written, Lens, Shape
  <2>3. Run(results', 0) /\ Run(toClient', Here') /\ Run(server.queue', Piped')
        /\ Run(server.answers', Taken') /\ Run(toServer', Received') /\ Run(pending', Here')
        /\ Run(sender.again', Written')
    BY <1>24, <2>1, <1>1, <1>5, <1>2, <1>3, <2>2, RunEmpty DEF Resend, At, Fits, Locked,
       InFlight, Waits, Shape
  <2>4. Shape'
    BY <1>24, <2>1, <1>2, RunTail DEF Resend, At, client, Lens, Queries, Shape
  <2>5. InFlight'
    BY <1>24, <2>1, <1>1, <1>5, <1>2, <1>3, <2>2, <2>3 DEF Resend, At, Fits, Locked, One,
       InFlight, Shape
  <2>6. Waits'
    BY <1>24, <2>1, <1>1, <1>5, <1>2, <2>2, <2>3 DEF Resend, NoServer, client, One, Waits
  <2>7. Ahead'
    BY <1>24, <2>1, <1>1, <1>5, <1>2, <1>3, <2>2, <2>3 DEF Resend, At, Fits, Locked,
       Ahead, Shape
  <2>8. Ends'
    BY <1>24, <2>1, <1>1, <1>5, <1>2, <2>2, <2>3, <2>6, <2>7 DEF Resend, At, Fits, Lens,
       One, Here, Ends
  <2>9. Upstream'
    BY <1>24, <2>1, <1>4, <2>2 DEF Resend, At, Fits, Locked, None, NoServer, client,
       Upstream
  <2> QED
    BY <2>4, <2>5, <2>6, <2>7, <2>8, <2>9 DEF Inv, Base
<1>25. CASE Resend /\ sender.again # <<>>
  <2>1. /\ server' = server /\ toServer' = Append(toServer, Head(sender.again))
        /\ results' = results
          /\ toClient' = toClient /\ sender'.pc = "resend" /\ sender'.again = Tail(sender.again)
          /\ reader' = reader /\ pending' = pending
    BY <1>25, <1>2, <1>5 DEF Resend, At, Fits, Shape
  <2>2. Written + Len(sender.again) = Here + Len(pending) /\ Run(sender.again, Written)
    BY <1>25, <1>2 DEF client, Ahead, Waits
  <2>3. sender.again # <<>>
    BY <1>25, <1>2
  <2>4. /\ Head(sender.again) = Written + 1 /\ Run(Tail(sender.again), Written + 1)
          /\ Len(Tail(sender.again)) = Len(sender.again) - 1 /\ Len(sender.again) \in Nat \ {0}
    BY <1>1, <2>1, <2>2, <2>3, RunTail DEF Lens
  <2>5. Written = Received + Len(toServer) /\ Run(toServer, Received)
    BY <1>25, <1>2, <1>3, <1>1 DEF Written, InFlight
  <2>6. Follows(Head(sender.again), toServer, Received)
    BY <2>3, <2>4, <2>5 DEF Lens, Follows
  <2>7. Run(Append(toServer, Head(sender.again)), Received)
        /\ Len(Append(toServer, Head(sender.again))) = Len(toServer) + 1
    BY <1>1, <1>5, <2>1, <2>2, <2>5, <2>6, RunAppend DEF Lens
  <2>8. Here' = Here /\ Piped' = Piped /\ Queued' = Queued /\ Taken' = Taken
        /\ Handled' = Handled /\ Received' = Received /\ Written' = Written + 1
    <3>1. /\ Here' = Here /\ Piped' = Piped /\ Queued' = Queued /\ Taken' = Taken
          /\ Handled' = Handled /\ Received' = Received
      BY <2>1 DEF One, Here, Piped, Queued, Taken, Handled, Received
    <3>2. Written' = Received + Len(toServer')
      BY <3>1 DEF Written
    <3> QED
      BY <3>1, <3>2, <2>1, <2>5, <2>7, <1>1 DEF Lens
  <2>9. Run(results', 0) /\ Run(toClient', Here') /\ Run(server.queue', Piped')
        /\ Run(server.answers', Taken') /\ Run(toServer', Received') /\ Run(pending', Here')
        /\ Run(sender.again', Written')
    BY <1>25, <2>1, <2>2, <2>3, <2>4, <2>5, <2>6, <2>7, <1>1, <1>5, <1>2, <1>3, <2>8,
       RunEmpty DEF Resend, At, client, Lens, InFlight, Waits, Shape
  <2>10. Shape'
    BY <1>25, <2>1, <2>2, <2>3, <1>1, <1>5, <1>2, RunTail DEF Resend, At, Fits, Locked,
       Queries, Shape
  <2>11. InFlight'
    BY <1>25, <2>1, <2>2, <2>3, <1>1, <1>5, <1>2, <1>3, <2>8, <2>9 DEF Resend, At, client,
       Lens, One, InFlight, Shape
  <2>12. Waits'
    BY <1>25, <2>1, <2>2, <2>3, <1>1, <1>5, <1>2, <2>8, <2>9 DEF Resend, At, Fits, One,
       Waits, Ahead, Shape
  <2>13. Ahead'
    <3>1. Len(sender'.again) = Len(Tail(sender.again)) /\ Len(pending') = Len(pending)
      BY <2>1
    <3>2. Len(sender'.again) = Len(sender.again) - 1
      BY <3>1, <2>4
    <3>3. Here \in Nat /\ Written \in Nat /\ Len(pending) \in Nat
          /\ Len(sender.again) \in Nat
      BY <1>1 DEF Lens
    <3>4. PICK n \in Nat : n = Len(sender.again)
      BY <3>3
    <3>5. PICK p \in Nat : p = Len(pending)
      BY <3>3
    <3>6. Written + n = Here + p
      BY <2>2, <3>4, <3>5
    <3>7. Written' + (n - 1) = Here' + p
      BY <3>3, <3>6, <2>8
    <3>8. Written' + Len(sender'.again) = Here' + Len(pending')
      BY <3>1, <3>2, <3>7, <3>4, <3>5
    <3> QED
      BY <2>1, <3>8, <1>2 DEF Ahead
  <2>14. Ends'
    BY <1>25, <2>1, <2>2, <2>3, <1>1, <1>5, <1>2, <2>8, <2>9, <2>12, <2>13 DEF Resend,
       Here, Ends, Waits, Ahead, Shape
  <2>15. Upstream'
    BY <1>25, <2>1, <2>2, <2>3, <1>4, <2>8 DEF Resend, At, client, Upstream, Shape
  <2> QED
    BY <2>10, <2>11, <2>12, <2>13, <2>14, <2>15 DEF Inv, Base
<1>26. CASE ServerTakes /\ Head(server.answers) \in known
  <2>1. server.answers # <<>> /\ Run(server.answers, Taken) /\ Run(server.queue, Piped)
    BY <1>26, <1>2, <1>5 DEF ServerTakes, At, Fits, InFlight
  <2>2. /\ Head(server.answers) = Taken + 1 /\ Run(Tail(server.answers), Taken + 1)
          /\ Len(Tail(server.answers)) = Len(server.answers) - 1
          /\ Len(server.answers) \in Nat \ {0}
    BY <1>1, <2>1, RunTail DEF Lens
  <2>3. Taken = Queued + 0 /\ Queued = Piped + Len(server.queue)
    BY <1>26, <1>2, <1>3, <1>1, <1>5, <2>1, <2>2 DEF ServerTakes, NoServer, client, Taken,
       Queued, One
  <2>4. Head(server.answers) # 0 /\ Head(server.answers) \in Nat
    <3>1. Taken \in Nat
      BY <1>1 DEF Lens
    <3> QED
      BY <2>2, <3>1
  <2>5. One(Head(server.answers)) = 1 /\ One(0) = 0
    BY <2>4 DEF One, None
  <2>6. Follows(Head(server.answers), server.queue, Piped)
    BY <2>1, <2>2, <2>3, <2>4, <2>5 DEF Lens, Follows
  <2>7. Run(Append(server.queue, Head(server.answers)), Piped)
        /\ Len(Append(server.queue, Head(server.answers))) = Len(server.queue) + 1
    BY <1>1, <1>5, <2>1, <2>2, <2>5, <2>6, RunAppend DEF Lens
  <2>8. Here' = Here /\ Piped' = Piped /\ Queued' = Queued + 1 /\ Taken' = Taken + 1
        /\ Handled' = Handled /\ Received' = Received /\ Written' = Written
    BY <1>26, <2>1, <2>2, <2>3, <1>1, <1>5, <1>2, <1>3, RunTail, RunAppend, RunEmpty DEF
       ServerTakes, NoServer, client, One, Here, Piped, Queued, Taken, Handled, Received,
       Written, Lens, Shape
  <2>9. Run(results', 0) /\ Run(toClient', Here') /\ Run(server.queue', Piped')
        /\ Run(server.answers', Taken') /\ Run(toServer', Received') /\ Run(pending', Here')
        /\ Run(sender.again', Written')
    BY <1>26, <2>1, <2>2, <2>3, <2>4, <2>5, <2>6, <2>7, <1>1, <1>5, <1>2, <1>3, <2>8,
       RunEmpty DEF ServerTakes, At, client, Lens, InFlight, Waits, Shape
  <2>10. Shape'
    BY <1>26, <2>1, <2>2, <2>3, <1>1, <1>5, <1>2, RunTail DEF ServerTakes, At, Fits,
       Locked, None, NoServer, client, Lens, Queries, Shape
  <2>11. InFlight'
    BY <1>26, <2>1, <2>2, <2>3, <1>1, <1>5, <1>2, <1>3, <2>8, <2>9 DEF ServerTakes, At,
       client, Lens, One, InFlight, Shape
  <2>12. Waits'
    BY <1>26, <2>1, <2>2, <2>3, <1>1, <1>5, <1>2, <2>8, <2>9 DEF ServerTakes, At, Fits,
       Locked, None, NoServer, client, One, Waits, Ahead, Shape
  <2>13. Ahead'
    BY <1>26, <2>1, <2>2, <2>3, <1>1, <1>5, <1>2, <1>3, <2>8, <2>9 DEF ServerTakes, At,
       Fits, Locked, None, NoServer, client, Lens, Ahead, Shape
  <2>14. Ends'
    BY <1>26, <2>1, <2>2, <2>3, <1>1, <1>5, <1>2, <2>8, <2>9, <2>12, <2>13 DEF
       ServerTakes, NoServer, client, Lens, One, Here, Ends, Waits, Ahead, Shape
  <2>15. Upstream'
    <3>1. server'.replies = server.replies /\ server'.asked = server.asked /\ known' = known
      BY <1>26, <2>1, <1>2 DEF ServerTakes, Shape
    <3>2. Queued \in Nat /\ Handled \in Nat /\ Queued + 1 \in known
      BY <1>26, <2>1, <1>1, <2>2, <2>3 DEF Lens
    <3>3. \A m \in Nat : Queued' < m /\ m <= Handled'
                           <=> Queued < m /\ m <= Handled /\ m # Queued + 1
      BY <3>2, <2>8
    <3> QED
      BY <3>1, <3>2, <3>3, <1>4 DEF Upstream
  <2> QED
    BY <2>10, <2>11, <2>12, <2>13, <2>14, <2>15 DEF Inv, Base
<1>27. CASE ServerTakes /\ Head(server.answers) \notin known
  <2>1. /\ server'.queue = server.queue /\ server'.awaits = Head(server.answers)
          /\ server'.answers = Tail(server.answers) /\ server'.hand = server.hand
          /\ toServer' = toServer /\ toClient' = toClient /\ results' = results
    BY <1>27, <1>2, <1>5 DEF ServerTakes, At, Fits, Locked, None, NoServer, client
  <2>2. server.answers # <<>> /\ Run(server.answers, Taken) /\ Run(server.queue, Piped)
    BY <1>27, <1>2, <1>5, <2>1 DEF ServerTakes, At, client, InFlight
  <2>3. /\ Head(server.answers) = Taken + 1 /\ Run(Tail(server.answers), Taken + 1)
          /\ Len(Tail(server.answers)) = Len(server.answers) - 1
          /\ Len(server.answers) \in Nat \ {0}
    BY <1>1, <2>2, RunTail DEF Lens
  <2>4. Taken = Queued + 0 /\ Queued = Piped + Len(server.queue)
    BY <1>27, <1>2, <1>3, <1>1 DEF ServerTakes, At, Fits, Locked, None, NoServer, client,
       Taken, Queued, One
  <2>5. Head(server.answers) # 0 /\ Head(server.answers) \in Nat
    BY <1>1, <1>5, <2>1, <2>2, <2>3, <2>4 DEF Lens
  <2>6. One(Head(server.answers)) = 1 /\ One(0) = 0
    BY <2>5 DEF One, None
  <2>7. Follows(Head(server.answers), server.queue, Piped)
    BY <2>3, <2>4 DEF Lens, Follows
  <2>8. Run(Append(server.queue, Head(server.answers)), Piped)
        /\ Len(Append(server.queue, Head(server.answers))) = Len(server.queue) + 1
    BY <1>1, <1>5, <2>1, <2>2, <2>7, RunAppend DEF Lens
  <2>9. Here' = Here /\ Piped' = Piped /\ Queued' = Queued /\ Taken' = Taken + 1
        /\ Handled' = Handled /\ Received' = Received /\ Written' = Written
    <3>1. Here' = Here /\ Piped' = Piped /\ Queued' = Queued
      BY <2>1 DEF Here, Piped, Queued
    <3>2. Taken' = Queued + One(Head(server.answers))
      BY <2>1, <3>1 DEF Taken
    <3>3. Taken' = Taken + 1
      BY <3>2, <2>4, <2>6, <1>1
    <3>4. PICK n \in Nat : n = Len(server.answers)
      BY <1>1 DEF Lens
    <3>5. Handled' = Taken' + (n - 1) /\ Handled = Taken + n
      BY <2>1, <2>3, <3>4 DEF Handled
    <3>6. Taken \in Nat
      BY <1>1 DEF Lens
    <3>7. Handled' = Handled
      BY <3>3, <3>5, <3>6
    <3>8. Received' = Received /\ Written' = Written
      BY <2>1, <3>7 DEF Received, Written
    <3> QED
      BY <3>1, <3>3, <3>7, <3>8
  <2>10. Run(results', 0) /\ Run(toClient', Here') /\ Run(server.queue', Piped')
         /\ Run(server.answers', Taken') /\ Run(toServer', Received')
         /\ Run(pending', Here') /\ Run(sender.again', Written')
    BY <1>27, <2>1, <2>2, <2>3, <2>8, <1>1, <1>5, <1>2, <1>3, <2>9, RunEmpty DEF
       ServerTakes, NoServer, client, Lens, InFlight, Waits, Shape
  <2>11. Shape'
    BY <1>27, <2>1, <2>2, <2>3, <2>4, <2>5, <2>6, <2>7, <2>8, <1>1, <1>5, <1>2, RunTail
       DEF ServerTakes, At, Fits, Locked, None, NoServer, client, Lens, Queries, Shape
  <2>12. InFlight'
    BY <1>27, <2>1, <2>2, <2>3, <2>4, <2>5, <2>6, <2>7, <2>8, <1>1, <1>5, <1>2, <1>3,
       <2>9, <2>10 DEF ServerTakes, NoServer, client, Lens, One, InFlight, Shape
  <2>13. Waits'
    BY <1>27, <2>1, <2>2, <2>3, <2>8, <1>1, <1>5, <1>2, <2>9, <2>10 DEF ServerTakes, At,
       client, One, Waits, Ahead, Shape
  <2>14. Ahead'
    BY <1>27, <2>1, <2>2, <2>3, <2>8, <1>1, <1>5, <1>2, <1>3, <2>9, <2>10 DEF ServerTakes,
       NoServer, client, Lens, Ahead, Shape
  <2>15. Ends'
    BY <1>27, <2>1, <2>2, <2>3, <2>8, <1>1, <1>5, <1>2 DEF ServerTakes, At, Fits, Locked,
       None, NoServer, client, Lens, One, Here, Ends, Waits, Ahead, Shape
  <2>16. Upstream'
    BY <1>27, <2>1, <2>2, <2>3, <2>8, <1>4, <2>9 DEF ServerTakes, NoServer, client,
       Upstream, Shape
  <2> QED
    BY <2>11, <2>12, <2>13, <2>14, <2>15, <2>16 DEF Inv, Base
<1> QED
  BY <1>6, <1>7, <1>8, <1>9, <1>10, <1>11, <1>12, <1>13, <1>14, <1>15, <1>16, <1>17,
     <1>18, <1>19, <1>20, <1>21, <1>22, <1>23, <1>24, <1>25, <1>26, <1>27 DEF Next,
     Caller, Sender, Reader, Receives, Replies, Sends

\* Nothing is on its way when a batch begins.
LEMMA InitInv ==
    ASSUME Init
    PROVE  Inv
<1>1. /\ Here = 0 /\ Piped = 0 /\ Queued = 0 /\ Taken = 0 /\ Handled = 0 /\ Received = 0
      /\ Written = 0
  BY RunEmpty DEF Init, NoServer, None, One, Here, Piped, Queued, Taken, Handled,
     Received,
     Written
<1>2. Shape
  BY HashStreamAssumption DEF Init, NoServer, None, Shape
<1>3. InFlight
  BY <1>1, RunEmpty DEF Init, NoServer, None, InFlight
<1>4. Waits
  BY <1>1, RunEmpty DEF Init, None, One, Waits
<1>5. Ahead
  BY <1>1, RunEmpty DEF Init, Ahead
<1>6. Ends
  BY <1>1 DEF Init, Ends, None
<1>7. Upstream
  BY <1>1, RiseEmpty DEF Init, NoServer, Upstream
<1> QED
  BY <1>2, <1>3, <1>4, <1>5, <1>6, <1>7 DEF Inv, Base

\* The queries of a batch are one run, from those answered to those yet to
\* send, at any time and with any losses (client.py:200, Batch).
THEOREM SpecInv == Spec => []Inv
<1>1. Init => Inv
  BY InitInv
<1>2. ASSUME Inv, UNCHANGED vars PROVE Inv'
  <2>1. /\ Here' = Here /\ Piped' = Piped /\ Queued' = Queued /\ Taken' = Taken
        /\ Handled' = Handled /\ Received' = Received /\ Written' = Written
    BY <1>2 DEF vars, client, Here, Piped, Queued, Taken, Handled, Received, Written
  <2> QED
    BY <1>2, <2>1 DEF Inv, Base, Shape, InFlight, Waits, Ahead, Ends, Upstream, vars,
       client
<1>3. Inv /\ [Next]_vars => Inv'
  BY <1>2, NextInv
<1> QED
  BY <1>1, <1>3, PTL DEF Spec

\* The k-th answer is the one to the k-th query, and a batch that returns has
\* all its answers, for every number of queries, size of the buffers and number of
\* lost connections (client.py:257, check).
THEOREM SpecAnswered == Spec => []Answered
<1>1. Inv => Answered
  <2> SUFFICES ASSUME Inv PROVE Answered
    OBVIOUS
  <2>1. Run(results, 0) /\ (outcome = "ok" => Len(results) = NumQueries)
    BY DEF Inv, Base, InFlight, Ends
  <2>2. results \in Seq(Nat) /\ \A i \in 1..Len(results) : results[i] = i
    BY <2>1 DEF Run
  <2>3. results = [i \in 1..Len(results) |-> i]
    BY <2>2
  <2> QED
    BY <2>1, <2>3 DEF Answered, Numbers
<1> QED
  BY <1>1, SpecInv, PTL

=============================================================================
