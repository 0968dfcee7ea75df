----------------------------- MODULE HashEquiv ------------------------------
(***************************************************************************)
(* The hash equivalence server: tasks report the hash of their output, and *)
(* tasks whose outputs are equal get the same unihash.  Its database is    *)
(* changed by handlers that interleave only where they await the upstream  *)
(* server, by the worker that copies mappings from there, and by the       *)
(* administrator, who removes rows and collects garbage.  One method.      *)
(***************************************************************************)
EXTENDS Integers, Sequences, FiniteSetsExt

CONSTANTS
    Conns,          \* connections of the server's clients
    Hashes,         \* taskhashes, which also serve as unihashes
    Outhashes,      \* hashes of a task's output
    Marks,          \* marks of garbage collectors
    Upstreams,      \* with, without an upstream server: subset of BOOLEAN
    None,           \* no hash, no mark
    Budgets         \* bounds on the requests of clients, on the reports to
                    \* the upstream server and on the administrator's requests

ASSUME HashEquivAssumption ==
    /\ Upstreams \subseteq BOOLEAN
    /\ None \notin Hashes \cup Marks \cup Outhashes
    /\ Budgets \subseteq [requests: Nat, up: Nat, admin: Nat]

VARIABLES
    upstream,   \* the server has an upstream server
    local,      \* the server's database
    up,         \* the upstream server's database
    conn,       \* the handler of each connection
    backfill,   \* backfill_queue
    worker,     \* backfill_worker_task
    unfinished, \* the queue's count of items not yet done
    running,    \* the server serves
    left,       \* how often clients, others upstream and the administrator may ask
    told,       \* per taskhash, what the last report was answered
    kept,       \* taskhashes that were inserted or marked since the mark was set
    touched     \* what else changed the tables: "removed" rows, "foreign" unihashes

vars == <<upstream, local, up, conn, backfill, worker, unfinished, running, left,
          told, kept, touched>>

-----------------------------------------------------------------------------
(* The database: unihashes, by taskhash, and outhashes. *)

\* A row that was inserted before there was a mark has an empty one.
Unmarked == "unmarked"
NoRow == [unihash |-> None, mark |-> Unmarked]
Empty == [unihashes |-> [t \in Hashes |-> NoRow], outhashes |-> {}, mark |-> None]

Unihash(db, t) == db.unihashes[t].unihash
Mapped(db, t) == Unihash(db, t) # None
CurrentMark(db) == IF db.mark = None THEN Unmarked ELSE db.mark

\* Faulty variant: a new row carries no mark.
InsertUnmarked(db, t, u) ==
    IF Mapped(db, t) THEN db
    ELSE [db EXCEPT !.unihashes[t] = [unihash |-> u, mark |-> Unmarked]]

\* INSERT OR IGNORE: a taskhash keeps its unihash.
InsertUnihash(db, t, u) ==
    IF Mapped(db, t) THEN db
    ELSE [db EXCEPT !.unihashes[t] = [unihash |-> u, mark |-> CurrentMark(db)]]

Row(t, o, created) == [taskhash |-> t, outhash |-> o, created |-> created]

InsertOuthash(db, row) ==
    IF \E r \in db.outhashes : r.taskhash = row.taskhash /\ r.outhash = row.outhash
    THEN db ELSE [db EXCEPT !.outhashes = @ \cup {row}]

Oldest(rows) == CHOOSE r \in rows : \A s \in rows : r.created <= s.created

\* Rows with an output, of tasks that have a unihash.
Joined(db, o) == {r \in db.outhashes : r.outhash = o /\ Mapped(db, r.taskhash)}
OfTask(db, t) == {r \in db.outhashes : r.taskhash = t /\ Mapped(db, t)}

\* get_equivalent_for_outhash
Equivalent(db, o, t) == {r \in Joined(db, o) : r.taskhash # t}

\* A row of the join, as a query answers it.
Found(db, rows) ==
    IF rows = {} THEN None
    ELSE LET r == Oldest(rows)
         IN  [taskhash |-> r.taskhash, outhash |-> r.outhash, created |-> r.created,
              unihash |-> Unihash(db, r.taskhash)]

\* update_unified
UpdateUnified(db, d) ==
    IF d = None THEN db
    ELSE InsertOuthash(InsertUnihash(db, d.taskhash, d.unihash),
                       Row(d.taskhash, d.outhash, d.created))

-----------------------------------------------------------------------------
(* Steps of the server: what every change of the database does to the      *)
(* history variables, and how handlers wait for upstream and reply.        *)

Idle == [pc |-> "idle", taskhash |-> None, outhash |-> None,
         waits |-> FALSE, answer |-> None, due |-> {}]

\* The database becomes db, which puts the mark on the rows of marked.
Write(db, marked) ==
    LET new == {t \in Hashes : Mapped(db, t) /\ ~Mapped(local, t)}
    IN  /\ local' = db
        /\ kept' = CASE db.mark = None -> {}
                     [] db.mark # None /\ db.mark # local.mark -> marked
                     [] OTHER -> {t \in kept \cup new \cup marked : Mapped(db, t)}

Same == UNCHANGED <<local, kept>>

\* The time: later than that of any row.
Now == 1 + Max({0} \cup {r.created : r \in local.outhashes \cup up.outhashes})

Tell(t, u) == told' = [told EXCEPT ![t] = u]

Reply(c) == conn' = [conn EXCEPT ![c] = Idle]
Await(c, h) == conn' = [conn EXCEPT ![c] = [h EXCEPT !.waits = TRUE]]

Resumes(c, pc) == running /\ conn[c].pc = pc /\ ~conn[c].waits

\* A request that asks for taskhash t or outhash o, or reports both.
Request(pc, t, o) == [Idle EXCEPT !.pc = pc, !.taskhash = t, !.outhash = o]

Asks(c) ==
    /\ running /\ conn[c].pc = "idle" /\ left.requests > 0
    /\ left' = [left EXCEPT !.requests = @ - 1]
    /\ UNCHANGED <<upstream, up, running>>

Init ==
    /\ upstream \in Upstreams
    /\ local = Empty /\ up = Empty
    /\ conn = [c \in Conns |-> Idle]
    /\ backfill = <<>> /\ unfinished = 0
    /\ worker = [item |-> None, waits |-> FALSE, answer |-> None]
    /\ running = TRUE
    /\ left \in Budgets
    /\ told = [t \in Hashes |-> None]
    /\ kept = {} /\ touched = {}

-----------------------------------------------------------------------------
(* Queries: get and get-outhash.  What only upstream knows is stored.      *)

\* handle_get; "getall" asks for the task's output, too.
Get(c, pc, t) ==
    /\ Asks(c)
    /\ LET known == IF pc = "get" THEN Mapped(local, t) ELSE OfTask(local, t) # {}
       IN  IF upstream /\ ~known THEN Await(c, Request(pc, t, None)) ELSE Reply(c)
    /\ Same /\ UNCHANGED <<backfill, worker, unfinished, told, touched>>

\* handle_get_outhash; without with_unihash any row with the output will do.
GetOuthash(c, o, withUnihash) ==
    /\ Asks(c)
    /\ LET known == IF withUnihash THEN Joined(local, o) # {}
                    ELSE \E r \in local.outhashes : r.outhash = o
       IN  IF upstream /\ ~known THEN Await(c, Request("getout", None, o))
           ELSE Reply(c)
    /\ Same /\ UNCHANGED <<backfill, worker, unfinished, told, touched>>

\* A taskhash that upstream does not know either raises an exception, which
\* closes the connection.
GetResumes(c) ==
    /\ Resumes(c, "get")
    /\ LET h == conn[c]
       IN  IF h.answer = None
           THEN conn' = [conn EXCEPT ![c].pc = "failed"] /\ Same /\ UNCHANGED touched
           ELSE /\ Reply(c)
                /\ Write(InsertUnihash(local, h.taskhash, h.answer), {})
                /\ touched' = touched \cup {"foreign"}
    /\ UNCHANGED <<upstream, up, backfill, worker, unfinished, running, left, told>>

\* get_unihash with all, get_outhash, and report_readonly.
UnifiedResumes(c) ==
    /\ \E pc \in {"getall", "getout"} : Resumes(c, pc)
    /\ Reply(c)
    /\ Write(UpdateUnified(local, conn[c].answer), {})
    /\ touched' = touched \cup {"foreign"}
    /\ UNCHANGED <<upstream, up, backfill, worker, unfinished, running, left, told>>

\* handle_get_stream, for one line of the stream.
GetStream(c, t) ==
    /\ Asks(c)
    /\ IF upstream /\ ~Mapped(local, t)
       THEN Await(c, Request("stream", t, None)) ELSE Reply(c)
    /\ Same /\ UNCHANGED <<backfill, worker, unfinished, told, touched>>

\* get_upstream_result: what upstream knows is left to the backfill worker.
StreamResumes(c) ==
    /\ Resumes(c, "stream")
    /\ Reply(c)
    /\ IF conn[c].answer = None THEN UNCHANGED <<backfill, unfinished>>
       ELSE /\ backfill' = Append(backfill, conn[c].taskhash)
            /\ unfinished' = unfinished + 1
    /\ Same
    /\ UNCHANGED <<upstream, up, worker, running, left, told, touched>>

-----------------------------------------------------------------------------
(* Reports *)

\* The reply to a report is what the table says then; others may have been
\* there first.
Stored(c, t, db) == Write(db, {}) /\ Tell(t, Unihash(db, t)) /\ Reply(c)

\* Faulty variant: a report that comes again finds its row, and nothing to do.
ReportOnce(c, t, o) ==
    /\ Asks(c)
    /\ LET db == InsertOuthash(local, Row(t, o, Now))
           rows == Equivalent(db, o, t)
       IN  CASE db = local -> Same /\ Tell(t, t) /\ Reply(c)
             [] db # local /\ rows # {} ->
                   Stored(c, t, InsertUnihash(db, t, Unihash(db, Oldest(rows).taskhash)))
             [] db # local /\ rows = {} /\ ~upstream -> Stored(c, t, InsertUnihash(db, t, t))
             [] OTHER -> /\ Write(db, {}) /\ UNCHANGED told
                         /\ Await(c, Request("report", t, o))
    /\ UNCHANGED <<backfill, worker, unfinished, touched>>

\* Faulty variant: outputs are not compared.
ReportOwn(c, t, o) ==
    /\ Asks(c)
    /\ LET db == InsertOuthash(local, Row(t, o, Now))
       IN  IF upstream
           THEN /\ Write(db, {}) /\ UNCHANGED told
                /\ Await(c, Request("report", t, o))
           ELSE Stored(c, t, InsertUnihash(db, t, t))
    /\ UNCHANGED <<backfill, worker, unfinished, touched>>

\* handle_report, up to its await.  Clients report the taskhash as unihash, as
\* siggen.py does unless the server told it another.  insert_outhash of the
\* SQLite database is true for a row that is there, too: a new cursor has no
\* lastrowid.
Report(c, t, o) ==
    /\ Asks(c)
    /\ LET db == InsertOuthash(local, Row(t, o, Now))
           rows == Equivalent(db, o, t)
       IN  CASE rows # {} ->
                   Stored(c, t, InsertUnihash(db, t, Unihash(db, Oldest(rows).taskhash)))
             [] rows = {} /\ ~upstream -> Stored(c, t, InsertUnihash(db, t, t))
             [] OTHER -> /\ Write(db, {}) /\ UNCHANGED told
                         /\ Await(c, Request("report", t, o))
    /\ UNCHANGED <<backfill, worker, unfinished, touched>>

ReportResumes(c) ==
    /\ Resumes(c, "report")
    /\ LET h == conn[c]
           u == IF h.answer = None THEN h.taskhash ELSE h.answer.unihash
       IN  Stored(c, h.taskhash, InsertUnihash(local, h.taskhash, u))
    /\ UNCHANGED <<upstream, up, backfill, worker, unfinished, running, left, touched>>

\* A report from a client that may only read: get_outhash.
ReportReadonly(c, o) == GetOuthash(c, o, TRUE)

\* handle_equivreport
ReportEquiv(c, t, u) ==
    /\ Asks(c)
    /\ Stored(c, t, InsertUnihash(local, t, u))
    /\ touched' = touched \cup {"foreign"}
    /\ UNCHANGED <<backfill, worker, unfinished>>

-----------------------------------------------------------------------------
(* The upstream server *)

\* It reads its database at one moment between request and resumption.
UpstreamSays(pc, t, o) ==
    CASE pc \in {"get", "stream"} -> Unihash(up, t)
      [] pc = "getall" -> Found(up, OfTask(up, t))
      [] pc \in {"getout", "report"} -> Found(up, Joined(up, o))

UpstreamAnswers(c) ==
    /\ running /\ conn[c].waits
    /\ LET h == conn[c]
       IN  conn' = [conn EXCEPT ![c].waits = FALSE,
                                ![c].answer = UpstreamSays(h.pc, h.taskhash, h.outhash)]
    /\ Same
    /\ UNCHANGED <<upstream, up, backfill, worker, unfinished, running, left, told,
                   touched>>

\* Another of its clients reports to it.
UpstreamReport(t, o) ==
    /\ upstream /\ left.up > 0
    /\ left' = [left EXCEPT !.up = @ - 1]
    /\ LET db == InsertOuthash(up, Row(t, o, Now))
           rows == Equivalent(db, o, t)
           u == IF rows = {} THEN t ELSE Unihash(db, Oldest(rows).taskhash)
       IN  up' = InsertUnihash(db, t, u)
    /\ Same
    /\ UNCHANGED <<upstream, conn, backfill, worker, unfinished, running, told, touched>>

-----------------------------------------------------------------------------
(* backfill_worker_task *)

Pending == {backfill[i] : i \in DOMAIN backfill} \cup ({worker.item} \ {None})

\* Whoever waits for the queue goes on when nothing is left in it (join).
Release(items) ==
    [c \in Conns |-> IF conn[c].pc = "join" /\ items = 0
                     THEN [conn[c] EXCEPT !.pc = "joined"] ELSE conn[c]]

\* Faulty variant: what the worker takes counts as done.
WorkerTakesDone ==
    /\ running /\ worker.item = None /\ backfill # <<>>
    /\ worker' = [item |-> Head(backfill), waits |-> TRUE, answer |-> None]
    /\ backfill' = Tail(backfill)
    /\ conn' = Release(Len(backfill) - 1)
    /\ Same
    /\ UNCHANGED <<upstream, up, unfinished, running, left, told, touched>>

WorkerTakes ==
    /\ running /\ worker.item = None /\ backfill # <<>>
    /\ worker' = [item |-> Head(backfill), waits |-> TRUE, answer |-> None]
    /\ backfill' = Tail(backfill)
    /\ Same
    /\ UNCHANGED <<upstream, up, conn, unfinished, running, left, told, touched>>

WorkerAnswered ==
    /\ running /\ worker.waits
    /\ worker' = [worker EXCEPT !.waits = FALSE,
                                !.answer = UpstreamSays("get", worker.item, None)]
    /\ Same
    /\ UNCHANGED <<upstream, up, conn, backfill, unfinished, running, left, told, touched>>

WorkerInserts ==
    /\ running /\ worker.item # None /\ ~worker.waits
    /\ IF worker.answer = None THEN Same
       ELSE Write(InsertUnihash(local, worker.item, worker.answer), {})
    /\ worker' = [item |-> None, waits |-> FALSE, answer |-> None]
    /\ unfinished' = unfinished - 1
    /\ conn' = Release(unfinished - 1)
    /\ touched' = touched \cup {"foreign"}
    /\ UNCHANGED <<upstream, up, backfill, running, left, told>>

\* handle_backfill_wait
BackfillWait(c) ==
    /\ Asks(c) /\ upstream
    /\ conn' = [conn EXCEPT ![c] = [Idle EXCEPT !.due = Pending,
                               !.pc = IF unfinished = 0 THEN "joined" ELSE "join"]]
    /\ Same /\ UNCHANGED <<backfill, worker, unfinished, told, touched>>

-----------------------------------------------------------------------------
(* The administrator: remove and garbage collection *)

Administers ==
    /\ running /\ left.admin > 0
    /\ left' = [left EXCEPT !.admin = @ - 1]
    /\ UNCHANGED <<upstream, up, conn, backfill, worker, unfinished, running>>

\* The unihash rows of T go, and with them what reports were told.
Unmap(db, T) ==
    [db EXCEPT !.unihashes = [t \in Hashes |-> IF t \in T THEN NoRow ELSE @[t]]]
Forget(T) == told' = [t \in Hashes |-> IF t \in T THEN None ELSE told[t]]

\* handle_remove with one column in its condition: the unihash rows of T go, and
\* the outhash rows in gone.
Remove(T, gone) ==
    /\ Administers
    /\ Write([Unmap(local, T) EXCEPT !.outhashes = @ \ gone], {})
    /\ Forget(T)
    /\ touched' = touched \cup {"removed"}

RemoveAny ==
    \/ \E t \in Hashes : Remove({t}, {r \in local.outhashes : r.taskhash = t})
    \/ \E u \in Hashes : Remove({t \in Hashes : Unihash(local, t) = u}, {})
    \/ \E o \in Outhashes : Remove({}, {r \in local.outhashes : r.outhash = o})

\* handle_gc_mark: the mark becomes the current one; the rows of one unihash
\* get it.
GcMark(m, u) ==
    /\ Administers
    /\ LET T == {t \in Hashes : Unihash(local, t) = u}
       IN  Write([local EXCEPT !.mark = m,
                     !.unihashes = [t \in Hashes |->
                         IF t \in T THEN [@[t] EXCEPT !.mark = m] ELSE @[t]]], T)
    /\ UNCHANGED <<told, touched>>

\* handle_gc_sweep, which refuses any other mark than the current one.
GcSweep ==
    /\ Administers /\ local.mark # None
    /\ LET T == {t \in Hashes : Mapped(local, t) /\ local.unihashes[t].mark # local.mark}
       IN  Write([Unmap(local, T) EXCEPT !.mark = None], {}) /\ Forget(T)
    /\ touched' = touched \cup {"removed"}

\* handle_clean_unused: the age it is given is added to the present, so that
\* rows of any age go.
CleanUnused ==
    /\ Administers
    /\ Write([local EXCEPT !.outhashes = {r \in @ : Mapped(local, r.taskhash)}], {})
    /\ touched' = touched \cup {"removed"}
    /\ UNCHANGED told

-----------------------------------------------------------------------------
(* Ends *)

\* The client leaves, or the handler raises an exception: the upstream server
\* does not answer, or does not know the task.
Close(c) ==
    /\ conn[c].pc # "idle"
    /\ Reply(c)
    /\ Same
    /\ UNCHANGED <<upstream, up, backfill, worker, unfinished, running, left, told,
                   touched>>

\* The server is killed, or ends because its worker cannot reach upstream.
ServerEnds ==
    /\ running
    /\ running' = FALSE
    /\ conn' = [c \in Conns |-> Idle]
    /\ backfill' = <<>> /\ unfinished' = 0
    /\ worker' = [item |-> None, waits |-> FALSE, answer |-> None]
    /\ Same
    /\ UNCHANGED <<upstream, up, left, told, touched>>

\* It starts again on its database.
Restart ==
    /\ ~running
    /\ running' = TRUE
    /\ Same
    /\ UNCHANGED <<upstream, up, conn, backfill, worker, unfinished, left, told, touched>>

Client(c) ==
    \/ \E t \in Hashes : Get(c, "get", t) \/ Get(c, "getall", t) \/ GetStream(c, t)
    \/ \E o \in Outhashes : GetOuthash(c, o, FALSE) \/ ReportReadonly(c, o)
    \/ \E t \in Hashes, o \in Outhashes : Report(c, t, o)
    \/ \E t, u \in Hashes : ReportEquiv(c, t, u)
    \/ BackfillWait(c)

Handler(c) ==
    UpstreamAnswers(c) \/ GetResumes(c) \/ UnifiedResumes(c) \/ StreamResumes(c)
        \/ ReportResumes(c)

Worker == WorkerTakes \/ WorkerAnswered \/ WorkerInserts

Admin ==
    RemoveAny \/ GcSweep \/ CleanUnused
        \/ \E m \in Marks, u \in Hashes : GcMark(m, u)

Next ==
    \/ \E c \in Conns : Client(c) \/ Handler(c) \/ Close(c)
    \/ \E t \in Hashes, o \in Outhashes : UpstreamReport(t, o)
    \/ Worker \/ Admin \/ ServerEnds \/ Restart

Spec == Init /\ [][Next]_vars

-----------------------------------------------------------------------------
(* Properties *)

\* What a report was answered stays the unihash of its task until an
\* administrator removes it, however reports, queries that await upstream and
\* the backfill worker are interleaved, cut off and repeated: the sstate object
\* is stored under that name.
ReportStands == \A t \in Hashes : told[t] # None => Unihash(local, t) = told[t]

\* Tasks of which one output is known, the same one, have one unihash, whatever
\* the order of the reports; without upstream server, removals, and mappings
\* that no output led to.
Single(t, o) ==
    Mapped(local, t) /\ {r.outhash : r \in {s \in local.outhashes : s.taskhash = t}} = {o}
Agree ==
    \A o \in Outhashes, s, t \in Hashes :
        Single(s, o) /\ Single(t, o) => Unihash(local, s) = Unihash(local, t)
Converged == ~upstream /\ touched = {} => Agree

\* A sweep removes nothing that was inserted or marked after its mark was set,
\* also by handlers that had waited for upstream when it was.
SweepKeeps ==
    [][local.mark # None /\ local'.mark = None =>
          \A t \in kept : Unihash(local', t) = Unihash(local, t)]_vars

\* When backfill-wait answers, what the queue held at its call is in the
\* server's own table.
WaitMeansLocal ==
    \A c \in Conns : conn[c].pc = "joined" =>
        \A t \in conn[c].due : Mapped(local, t) \/ "removed" \in touched

=============================================================================
