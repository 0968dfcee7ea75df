----------------------------- MODULE HashStream -----------------------------
(***************************************************************************)
(* A batch of queries to the hash equivalence server.  The client sends    *)
(* queries and reads answers at the same time (Batch), over pipes that     *)
(* hold so much; when the connection is lost it makes another one and      *)
(* repeats what was not answered.  The server reads and answers at the     *)
(* same time, too; what only its upstream server knows is asked there,     *)
(* without waiting, and still answered in order (UpstreamQueue).           *)
(* Queries are numbered; an answer carries the number of its query.        *)
(***************************************************************************)
EXTENDS Integers, Sequences

CONSTANTS
    NumQueries,     \* queries of the batch
    PipeSize,       \* messages that fit into a direction of the connection
    QueueSize,      \* size of the server's queue (1000)
    Retries,        \* how often the client connects again (3)
    Upstreams       \* with, without an upstream server: subset of BOOLEAN

ASSUME HashStreamAssumption ==
    /\ NumQueries \in Nat /\ Retries \in Nat
    /\ PipeSize \in Nat \ {0} /\ QueueSize \in Nat \ {0}
    /\ Upstreams \subseteq BOOLEAN

None == 0
Queries == 1..NumQueries

VARIABLES
    upstream,   \* the server has an upstream server
    known,      \* queries that the server can answer by itself
    fed,        \* number of queries the caller has put into send_queue
    filled,     \* number of queries fill() has taken from there
    item, pending, fillDone, sendDone,  \* of the batch
    results,    \* recv_queue
    sender,     \* send(): its place, and what it has yet to send again
    reader,     \* recv(): its place
    losses,     \* how often the connection was lost
    outcome,    \* of the batch: "open", "ok", "error"
    toServer, toClient,     \* the connection
    server      \* the server's tasks for this stream

client == <<fed, filled, item, pending, fillDone, sendDone, results, sender, reader>>
vars == <<upstream, known, client, losses, outcome, toServer, toClient, server>>

\* hand       the message that recv() has read and not yet queued
\* queue      of the answers to send
\* answers    UpstreamQueue.pending: queries, answered here or not
\* awaits     the query whose answer process_results() takes from upstream
\* asked      queries on their way through the upstream server
\* replies    answers that have come from there
NoServer == [hand |-> None, queue |-> <<>>, answers |-> <<>>, awaits |-> None,
             asked |-> <<>>, replies |-> <<>>]

Init ==
    /\ upstream \in Upstreams
    /\ known \in IF upstream THEN SUBSET Queries ELSE {Queries}
    /\ fed = 0 /\ filled = 0
    /\ item = None /\ pending = <<>> /\ fillDone = FALSE /\ sendDone = FALSE
    /\ results = <<>>
    /\ sender = [pc |-> "off", again |-> <<>>] /\ reader = "off"
    /\ losses = 0 /\ outcome = "open"
    /\ toServer = <<>> /\ toClient = <<>>
    /\ server = NoServer

Fits(pipe) == Len(pipe) < PipeSize
At(place) == [sender EXCEPT !.pc = place]

\* The batch's lock is only held across an await while messages are repeated.
Locked == sender.pc = "resend"

-----------------------------------------------------------------------------
(* The caller, and fill(), which does not end with a connection. *)

\* stream.batch: its queries come one by one, then done().
Feed ==
    /\ fed < NumQueries
    /\ fed' = fed + 1
    /\ UNCHANGED <<upstream, known, filled, item, pending, fillDone, sendDone, results,
                   sender, reader, losses, outcome, toServer, toClient, server>>

Fill ==
    /\ filled < fed /\ item = None /\ ~Locked
    /\ filled' = filled + 1
    /\ item' = filled'
    /\ UNCHANGED <<upstream, known, fed, pending, fillDone, sendDone, results, sender,
                   reader, losses, outcome, toServer, toClient, server>>

FillEnds ==
    /\ fed = NumQueries /\ filled = fed /\ ~Locked /\ ~fillDone
    /\ fillDone' = TRUE
    /\ UNCHANGED <<upstream, known, fed, filled, item, pending, sendDone, results, sender,
                   reader, losses, outcome, toServer, toClient, server>>

-----------------------------------------------------------------------------
(* send() and recv() of one connection *)

\* _send_wrapper connects, sets the mode and runs both.
Connect ==
    /\ outcome = "open" /\ sender.pc = "off"
    /\ sender' = [pc |-> "resend", again |-> pending]
    /\ reader' = "wait"
    /\ UNCHANGED <<upstream, known, fed, filled, item, pending, fillDone, sendDone, results,
                   losses, outcome, toServer, toClient, server>>

Resend ==
    /\ sender.pc = "resend"
    /\ IF sender.again = <<>>
       THEN sender' = At("take") /\ UNCHANGED toServer
       ELSE /\ Fits(toServer)
            /\ toServer' = Append(toServer, Head(sender.again))
            /\ sender' = [sender EXCEPT !.again = Tail(@)]
    /\ UNCHANGED <<upstream, known, fed, filled, item, pending, fillDone, sendDone, results,
                   reader, losses, outcome, toClient, server>>

Send ==
    /\ sender.pc = "take" /\ item # None /\ Fits(toServer)
    /\ toServer' = Append(toServer, item)
    /\ sender' = At("sent")
    /\ UNCHANGED <<upstream, known, fed, filled, item, pending, fillDone, sendDone, results,
                   reader, losses, outcome, toClient, server>>

Sent ==
    /\ sender.pc = "sent"
    /\ pending' = Append(pending, item)
    /\ item' = None
    /\ sender' = At("take")
    /\ UNCHANGED <<upstream, known, fed, filled, fillDone, sendDone, results, reader, losses,
                   outcome, toServer, toClient, server>>

SendEnds ==
    /\ sender.pc = "take" /\ item = None /\ fillDone
    /\ sendDone' = TRUE
    /\ sender' = At("ended")
    /\ UNCHANGED <<upstream, known, fed, filled, item, pending, fillDone, results, reader,
                   losses, outcome, toServer, toClient, server>>

\* Faulty variant: answers are read when all queries are sent.
RecvAfterSend ==
    /\ reader = "wait" /\ ~Locked
    /\ pending # <<>> /\ sendDone
    /\ reader' = "read"
    /\ UNCHANGED <<upstream, known, fed, filled, item, pending, fillDone, sendDone, results,
                   sender, losses, outcome, toServer, toClient, server>>

Recv ==
    /\ reader = "wait" /\ ~Locked
    /\ pending # <<>>
    /\ reader' = "read"
    /\ UNCHANGED <<upstream, known, fed, filled, item, pending, fillDone, sendDone, results,
                   sender, losses, outcome, toServer, toClient, server>>

Read ==
    /\ reader = "read" /\ toClient # <<>>
    /\ results' = Append(results, Head(toClient))
    /\ toClient' = Tail(toClient)
    /\ pending' = Tail(pending)
    /\ reader' = "wait"
    /\ UNCHANGED <<upstream, known, fed, filled, item, fillDone, sendDone, sender, losses,
                   outcome, toServer, server>>

RecvEnds ==
    /\ reader = "wait" /\ ~Locked
    /\ pending = <<>> /\ sendDone
    /\ reader' = "ended"
    /\ UNCHANGED <<upstream, known, fed, filled, item, pending, fillDone, sendDone, results,
                   sender, losses, outcome, toServer, toClient, server>>

\* proc() returns, and the batch with it.
StreamEnds ==
    /\ outcome = "open" /\ sender.pc = "ended" /\ reader = "ended"
    /\ outcome' = "ok"
    /\ UNCHANGED <<upstream, known, client, losses, toServer, toClient, server>>

\* The connection breaks: the server restarts or is left by its upstream
\* server, or no data come for the timeout.  send() and recv() are cancelled
\* where they wait; the last exception goes to the caller.
Lose ==
    /\ outcome = "open" /\ sender.pc # "off" /\ losses <= Retries
    /\ losses' = losses + 1
    /\ outcome' = IF losses = Retries THEN "error" ELSE "open"
    /\ sender' = [pc |-> "off", again |-> <<>>]
    /\ reader' = "off"
    /\ toServer' = <<>> /\ toClient' = <<>>
    /\ server' = NoServer
    /\ UNCHANGED <<upstream, known, fed, filled, item, pending, fillDone, sendDone, results>>

-----------------------------------------------------------------------------
(* The server: _stream_queue_handler, with its tasks recv() and process() *)

ServerRecv ==
    /\ server.hand = None /\ toServer # <<>>
    /\ server' = [server EXCEPT !.hand = Head(toServer)]
    /\ toServer' = Tail(toServer)
    /\ UNCHANGED <<upstream, known, client, losses, outcome, toClient>>

\* _stream_handler: the answer is queued, if the queue is not full.
ServerQueues ==
    /\ ~upstream /\ server.hand # None /\ Len(server.queue) < QueueSize
    /\ server' = [server EXCEPT !.queue = Append(@, server.hand), !.hand = None]
    /\ UNCHANGED <<upstream, known, client, losses, outcome, toServer, toClient>>

\* Faulty variant: what is known is answered at once.
ServerAsksOrAnswers ==
    /\ upstream /\ server.hand # None
    /\ server' =
          IF server.hand \in known
          THEN [server EXCEPT !.queue = Append(@, server.hand), !.hand = None]
          ELSE [server EXCEPT !.asked = Append(@, server.hand), !.hand = None,
                              !.answers = Append(@, server.hand)]
    /\ UNCHANGED <<upstream, known, client, losses, outcome, toServer, toClient>>

\* UpstreamQueue.handler
ServerAsks ==
    /\ upstream /\ server.hand # None
    /\ server' = [server EXCEPT
                     !.asked = IF server.hand \in known THEN @ ELSE Append(@, server.hand),
                     !.answers = Append(@, server.hand),
                     !.hand = None]
    /\ UNCHANGED <<upstream, known, client, losses, outcome, toServer, toClient>>

\* The upstream server answers the stream that this server opened to it: that
\* is a batch like this one.
UpstreamReplies ==
    /\ server.asked # <<>>
    /\ server' = [server EXCEPT !.replies = Append(@, Head(server.asked)), !.asked = Tail(@)]
    /\ UNCHANGED <<upstream, known, client, losses, outcome, toServer, toClient>>

\* process_results: an answer known here goes on, for another it waits.
ServerTakes ==
    /\ server.answers # <<>> /\ server.awaits = None
    /\ LET m == Head(server.answers)
       IN  server' = [server EXCEPT
                         !.answers = Tail(@),
                         !.queue = IF m \in known THEN Append(@, m) ELSE @,
                         !.awaits = IF m \in known THEN None ELSE m]
    /\ UNCHANGED <<upstream, known, client, losses, outcome, toServer, toClient>>

ServerReplied ==
    /\ server.awaits # None /\ server.replies # <<>>
    /\ server' = [server EXCEPT !.queue = Append(@, Head(server.replies)),
                                !.replies = Tail(@), !.awaits = None]
    /\ UNCHANGED <<upstream, known, client, losses, outcome, toServer, toClient>>

ServerSends ==
    /\ server.queue # <<>> /\ Fits(toClient)
    /\ toClient' = Append(toClient, Head(server.queue))
    /\ server' = [server EXCEPT !.queue = Tail(@)]
    /\ UNCHANGED <<upstream, known, client, losses, outcome, toServer>>

-----------------------------------------------------------------------------
Caller == Feed \/ Fill \/ FillEnds
Sender == Connect \/ Resend \/ Send \/ Sent \/ SendEnds
Reader == Recv \/ Read \/ RecvEnds \/ StreamEnds
Receives == ServerRecv \/ ServerQueues \/ ServerAsks
Replies == ServerTakes \/ ServerReplied
Sends == ServerSends

Next ==
    Caller \/ Sender \/ Reader \/ Receives \/ Replies \/ Sends \/ UpstreamReplies \/ Lose

Spec == Init /\ [][Next]_vars

\* Each task of either event loop runs when it can; the caller gives all its
\* queries; the upstream server answers.  Connections need not be lost.
FairSpec ==
    /\ Spec
    /\ WF_vars(Caller) /\ WF_vars(Sender) /\ WF_vars(Reader)
    /\ WF_vars(Receives) /\ WF_vars(Replies) /\ WF_vars(Sends) /\ WF_vars(UpstreamReplies)

-----------------------------------------------------------------------------
(* Properties *)

Numbers(n) == [i \in 1..n |-> i]

\* The k-th answer is the one to the k-th query, though some are known here and
\* some only upstream, and though connections break with queries in flight; and
\* a batch that returns has all its answers (client.py:257, check).
Answered ==
    /\ results = Numbers(Len(results))
    /\ outcome = "ok" => Len(results) = NumQueries

\* The batch ends, though no buffer holds all its queries: client, server and
\* upstream server never all wait for each other, also while queries are
\* repeated with the batch's lock held.
Completes == <>(outcome # "open")
=============================================================================
