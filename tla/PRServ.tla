------------------------------- MODULE PRServ -------------------------------
(***************************************************************************)
(* The PR service: gives each output of a package a revision.  A server    *)
(* keeps its values in a table and may ask an upstream server.  Handlers   *)
(* of different connections interleave at their awaits, and the upstream   *)
(* server serves others meanwhile.  Modelled for one version and pkgarch.  *)
(***************************************************************************)
EXTENDS Revision

CONSTANTS
    Conns,          \* connections of the server's clients
    Checksums,      \* output hashes; numbers, in the order of the index
    Histories,      \* the modes clients ask for: subset of BOOLEAN
    Setups,         \* how the server may be set up: records, see below
    MaxUpstream     \* bound on the size of the upstream server's table

\* Setups are records: the server has an upstream server, is read_only, has
\* rows that an earlier session left, and has an upstream server with rows up;
\* bitbake-prserv-tool may import some rows, and clients make so many requests.
ASSUME PRServAssumption ==
    /\ Checksums \subseteq Nat
    /\ Histories \subseteq BOOLEAN
    /\ MaxUpstream \in Nat
    /\ \A s \in Setups :
          /\ s.upstream \in BOOLEAN /\ s.readonly \in BOOLEAN /\ s.requests \in Nat
          /\ s.requests + MaxUpstream <= MaxField
          /\ \A r \in s.rows \cup s.up \cup s.imports : \A i \in DOMAIN r.value :
                r.value[i] + s.requests + MaxUpstream <= MaxField

VARIABLES
    setup,      \* the server's setup
    rows,       \* the server's table
    up,         \* the upstream server's table
    conn,       \* the handler of each connection
    requests,   \* how many requests were made
    given       \* the answers clients have received

vars == <<setup, rows, up, conn, requests, given>>

\* idle        no request
\* known       handle_get_pr awaits max_package_pr
\* testknown   awaits test_pr, for a checksum the server knows
\* package     awaits test_package, for one it does not know
\* testnew     awaits test_pr
\* newmax      awaits max_package_pr a second time
\* reply       the handler returned
\* failed      the handler raised an exception
\*
\* floor serves the properties only: Top when the request was made.
Idle == [pc |-> "idle", checksum |-> 0, history |-> FALSE, old |-> None,
         waits |-> FALSE, answer |-> None, value |-> None,
         floor |-> None]

Row(checksum, value) == [checksum |-> checksum, value |-> value]

\* The highest answer so far to requests without history.
Top == FoldSet(LAMBDA g, top : IF ~g.history /\ Lower(top, g.value) THEN g.value ELSE top,
               None, given)

Init ==
    /\ setup \in Setups
    /\ rows = setup.rows
    /\ up = setup.up
    /\ conn = [c \in Conns |-> Idle]
    /\ requests = 0
    /\ given = {}

-----------------------------------------------------------------------------
(* Ends and awaits of a handler. *)

\* store_value
Store(checksum, value) ==
    rows' = IF setup.readonly THEN rows ELSE rows \cup {Row(checksum, value)}

\* return {"value": value}, or the await of an answer from upstream.
Return(h, value) == [h EXCEPT !.pc = "reply", !.value = value]
Await(h, what) == [h EXCEPT !.pc = what, !.waits = TRUE]

\* A handler that does not ask upstream: table.get_value.
GetValue(c, h) ==
    LET value == NextValue(rows, h.checksum, h.history)
    IN  /\ Store(h.checksum, value)
        /\ conn' = [conn EXCEPT ![c] = Return(h, value)]

Resumes(c, pc) == conn[c].pc = pc /\ ~conn[c].waits

-----------------------------------------------------------------------------
(* handle_get_pr, from one await to the next *)

Request(c, checksum, history) ==
    /\ conn[c].pc = "idle" /\ requests < setup.requests
    /\ requests' = requests + 1
    /\ LET h == [Idle EXCEPT !.checksum = checksum, !.history = history,
                             !.old = FindValue(rows, checksum, history),
                             !.floor = Top]
       IN  IF setup.upstream
           THEN conn' = [conn EXCEPT ![c] = Await(h, "known")] /\ UNCHANGED rows
           ELSE GetValue(c, h)
    /\ UNCHANGED <<up, given, setup>>

\* The upstream server handles max_package_pr, test_package or test_pr (which
\* asks without history).
UpstreamAnswers(c) ==
    /\ conn[c].waits
    /\ conn' = [conn EXCEPT ![c].waits = FALSE, ![c].answer =
                   IF conn[c].pc \in {"testknown", "testnew"}
                   THEN FindValue(up, conn[c].checksum, FALSE)
                   ELSE MaxValue(up)]
    /\ UNCHANGED <<rows, up, requests, given, setup>>

\* The value for a checksum the server knows, before it is compared with the
\* greatest one upstream.
AtLeastLocal(old) ==
    LET max == MaxValue(rows) IN IF Smaller(old, max) THEN Increase(max) ELSE old

\* revision_smaller fails if upstream does not know the package.
KnownHere(c) ==
    /\ Resumes(c, "known")
    /\ LET h == conn[c]
           value == AtLeastLocal(h.old)
       IN  CASE h.old # None /\ h.history -> GetValue(c, h)
             [] h.old # None /\ ~h.history /\ h.answer = None ->
                   /\ conn' = [conn EXCEPT ![c].pc = "failed"]
                   /\ UNCHANGED rows
             [] h.old # None /\ ~h.history /\ h.answer # None /\ Smaller(value, h.answer) ->
                   /\ conn' = [conn EXCEPT ![c] =
                                  [Await(h, "testknown") EXCEPT !.value = h.answer]]
                   /\ UNCHANGED rows
             [] h.old # None /\ ~h.history /\ h.answer # None /\ ~Smaller(value, h.answer) ->
                   /\ IF value = h.old THEN UNCHANGED rows ELSE Store(h.checksum, value)
                   /\ conn' = [conn EXCEPT ![c] = Return(h, value)]
             [] OTHER -> /\ conn' = [conn EXCEPT ![c] = Await(h, "package")]
                         /\ UNCHANGED rows
    /\ UNCHANGED <<up, requests, given, setup>>

\* Upstream has a greater value: take that, or a new one below it.
KnownTested(c) ==
    /\ Resumes(c, "testknown")
    /\ LET h == conn[c]
           value == IF h.answer = None THEN Append(h.value, 0) ELSE h.value
       IN  /\ Store(h.checksum, value)
           /\ conn' = [conn EXCEPT ![c] = Return(h, value)]
    /\ UNCHANGED <<up, requests, given, setup>>

\* A package of this server only is handled as without an upstream server.
PackageTested(c) ==
    /\ Resumes(c, "package")
    /\ IF conn[c].answer = None
       THEN GetValue(c, conn[c])
       ELSE conn' = [conn EXCEPT ![c] = Await(@, "testnew")] /\ UNCHANGED rows
    /\ UNCHANGED <<up, requests, given, setup>>

NewTested(c) ==
    /\ Resumes(c, "testnew")
    /\ LET h == conn[c]
       IN  IF h.answer = None
           THEN conn' = [conn EXCEPT ![c] = Await(h, "newmax")] /\ UNCHANGED rows
           ELSE /\ Store(h.checksum, h.answer)
                /\ conn' = [conn EXCEPT ![c] = Return(h, h.answer)]
    /\ UNCHANGED <<up, requests, given, setup>>

\* Faulty variant: the value is computed from the table of before the await.
NewValueStale(c) ==
    /\ Resumes(c, "newmax")
    /\ LET h == conn[c]
           value == Append(h.answer, 0)
       IN  /\ Store(h.checksum, value)
           /\ conn' = [conn EXCEPT ![c] = Return(h, value)]
    /\ UNCHANGED <<up, requests, given, setup>>

\* New to both: a new value below the greatest one upstream.
NewValue(c) ==
    /\ Resumes(c, "newmax")
    /\ LET h == conn[c]
           value == FindNewSubvalue(rows, h.answer)
       IN  /\ Store(h.checksum, value)
           /\ conn' = [conn EXCEPT ![c] = Return(h, value)]
    /\ UNCHANGED <<up, requests, given, setup>>

Reply(c) ==
    /\ conn[c].pc = "reply"
    /\ given' = given \cup {[checksum |-> conn[c].checksum, history |-> conn[c].history,
                             value |-> conn[c].value]}
    /\ conn' = [conn EXCEPT ![c] = Idle]
    /\ UNCHANGED <<rows, up, requests, setup>>

\* The connection closes: after an exception, when the upstream server or the
\* client is gone, or when the server stops.  Its client may ask again.
Close(c) ==
    /\ conn[c].pc # "idle"
    /\ conn' = [conn EXCEPT ![c] = Idle]
    /\ UNCHANGED <<rows, up, requests, given, setup>>

-----------------------------------------------------------------------------
\* handle_import_one
ImportOne(r) ==
    /\ r \notin rows
    /\ Store(r.checksum, r.value)
    /\ UNCHANGED <<up, conn, requests, given, setup>>

\* The upstream server serves a client of its own.
UpstreamServes(checksum) ==
    LET r == Row(checksum, NextValue(up, checksum, FALSE))
    IN  /\ setup.upstream
        /\ Cardinality(up) < MaxUpstream
        /\ up' = up \cup {r}
        /\ UNCHANGED <<rows, conn, requests, given, setup>>

Handle(c) ==
    \/ KnownHere(c) \/ KnownTested(c)
    \/ PackageTested(c) \/ NewTested(c) \/ NewValue(c)

Next ==
    \/ \E c \in Conns :
          \/ \E checksum \in Checksums, history \in Histories :
                Request(c, checksum, history)
          \/ UpstreamAnswers(c) \/ Handle(c) \/ Reply(c) \/ Close(c)
    \/ \E r \in setup.imports : ImportOne(r)
    \/ \E checksum \in Checksums : UpstreamServes(checksum)

Spec == Init /\ [][Next]_vars

-----------------------------------------------------------------------------
(* Properties *)

\* Of a server on its own: without history, a request never gets a value below
\* one that some client had received when the request was made: a package's PR
\* never goes backwards.
NeverDecremented ==
    ~setup.upstream =>
    \A c \in Conns : conn[c].pc = "reply" /\ ~conn[c].history =>
        ~Lower(conn[c].value, conn[c].floor)

\* Two different outputs of a package never carry the same PR, if nothing is
\* imported and there is no upstream server.
OneOutputPerValue ==
    ~setup.upstream =>
    \A r, s \in rows : r.value = s.value => r.checksum = s.checksum

\* With history, the same output gets the same value every time, whatever other
\* requests, with and without history, have added meanwhile, if the server has
\* no upstream server.
HistoryStable ==
    ~setup.upstream =>
    \A g, h \in given : g.history /\ h.history /\ g.checksum = h.checksum =>
        g.value = h.value

TakenByOther(value, checksum) ==
    \E r \in rows : r.value = value /\ r.checksum # checksum

\* The value made for an output new to both servers is not that of another
\* output, whatever the server stored while the handler waited for upstream.
FreshIsNew ==
    [][\A c \in Conns : conn[c].pc = "newmax" /\ conn'[c].pc = "reply" =>
          ~TakenByOther(conn'[c].value, conn[c].checksum)]_vars

=============================================================================
