--------------------------- MODULE HashEquivProofs ---------------------------
(***************************************************************************)
(* HashEquiv, for any number of connections, hashes and requests.  No type *)
(* of an answer matters to what is proved: every change of the database is *)
(* one of four kinds, and what a client was told, what a sweep keeps and   *)
(* what a wait awaited depend only on the kind.                            *)
(***************************************************************************)
EXTENDS HashEquiv, TLAPS

-----------------------------------------------------------------------------
(* Shapes *)

Db(db) ==
    /\ {"unihashes", "outhashes", "mark"} \subseteq DOMAIN db
    /\ DOMAIN db.unihashes = Hashes
    /\ \A t \in Hashes : {"unihash", "mark"} \subseteq DOMAIN db.unihashes[t]
Handlers(f) ==
    /\ DOMAIN f = Conns
    /\ \A c \in Conns :
          {"pc", "taskhash", "outhash", "waits", "answer", "due"} \subseteq DOMAIN f[c]
Shape ==
    /\ Db(local) /\ Db(up)
    /\ Handlers(conn)
    /\ {"item", "waits", "answer"} \subseteq DOMAIN worker
    /\ DOMAIN told = Hashes

-----------------------------------------------------------------------------
(* What the database's operators do *)

\* d is db with some rows more, which carry its mark.
Extends(d, db) ==
    /\ Db(d) /\ d.mark = db.mark
    /\ \A t \in Hashes : Mapped(db, t) => d.unihashes[t] = db.unihashes[t]
    /\ \A t \in Hashes : ~Mapped(db, t) /\ Mapped(d, t) =>
          d.unihashes[t].mark = CurrentMark(db)

\* A taskhash keeps its unihash, and the other rows stay.
LEMMA InsertUnihashExtends ==
    ASSUME NEW db, Db(db), NEW t, NEW u
    PROVE  Extends(InsertUnihash(db, t, u), db)
<1>1. CASE Mapped(db, t)
  BY <1>1 DEF InsertUnihash, Extends
<1>2. CASE ~Mapped(db, t)
  <2> DEFINE d == InsertUnihash(db, t, u)
  <2>1. d = [db EXCEPT !.unihashes[t] = [unihash |-> u, mark |-> CurrentMark(db)]]
    BY <1>2 DEF InsertUnihash
  <2>2. /\ {"unihashes", "outhashes", "mark"} \subseteq DOMAIN d /\ d.mark = db.mark
        /\ d.unihashes = [db.unihashes EXCEPT ![t] = [unihash |-> u, mark |-> CurrentMark(db)]]
    BY <2>1 DEF Db
  <2> HIDE DEF d
  <2>3. \A s \in Hashes : s # t => d.unihashes[s] = db.unihashes[s]
    BY <2>2 DEF Db
  <2>4. t \in Hashes => d.unihashes[t] = [unihash |-> u, mark |-> CurrentMark(db)]
    BY <2>2 DEF Db
  <2>5. Db(d)
    BY <2>2, <2>3, <2>4 DEF Db
  <2> QED
    BY <1>2, <2>2, <2>3, <2>4, <2>5 DEF Extends, Mapped, Unihash, d
<1> QED
  BY <1>1, <1>2

\* A row of an output changes no unihash.
LEMMA InsertOuthashIs ==
    ASSUME NEW db, Db(db), NEW row
    PROVE  LET d == InsertOuthash(db, row)
           IN  Db(d) /\ d.unihashes = db.unihashes /\ d.mark = db.mark
BY DEF InsertOuthash, Db

\* So neither do both, one after the other, and update_unified.
LEMMA ExtendsBoth ==
    ASSUME NEW db, Db(db), NEW row, NEW t, NEW u
    PROVE  /\ Extends(InsertOuthash(db, row), db)
           /\ Extends(InsertUnihash(InsertOuthash(db, row), t, u), db)
           /\ Extends(InsertOuthash(InsertUnihash(db, t, u), row), db)
<1> DEFINE d == InsertOuthash(db, row)
           e == InsertUnihash(db, t, u)
<1>1. Db(d) /\ d.unihashes = db.unihashes /\ d.mark = db.mark
  BY InsertOuthashIs
<1>2. Extends(e, db) /\ Db(e)
  BY InsertUnihashExtends DEF Extends
<1>3. Extends(InsertUnihash(d, t, u), d)
  BY <1>1, InsertUnihashExtends
<1>4. /\ Db(InsertOuthash(e, row)) /\ InsertOuthash(e, row).unihashes = e.unihashes
      /\ InsertOuthash(e, row).mark = e.mark
  BY <1>2, InsertOuthashIs
<1> HIDE DEF d, e
<1> USE DEF Extends, Mapped, Unihash, CurrentMark
<1>5. Extends(d, db)
  BY <1>1
<1>6. Extends(InsertUnihash(d, t, u), db)
  BY <1>1, <1>3
<1>7. Extends(InsertOuthash(e, row), db)
  BY <1>2, <1>4
<1> QED
  BY <1>5, <1>6, <1>7 DEF d, e

\* So does update_unified.
LEMMA UpdateUnifiedExtends ==
    ASSUME NEW db, Db(db), NEW d
    PROVE  Extends(UpdateUnified(db, d), db)
BY ExtendsBoth DEF UpdateUnified, Extends

-----------------------------------------------------------------------------
(* What a step does to the database, and to what was told of it *)

Fresh == {t \in Hashes : Mapped(local', t) /\ ~Mapped(local, t)}

Grows ==
    /\ Extends(local', local)
    /\ local.mark = None => kept' = {}
    /\ kept' \subseteq kept \cup Fresh
    /\ \/ told' = told
       \/ \E t : told' = [told EXCEPT ![t] = Unihash(local', t)]
Drops ==
    /\ Db(local') /\ local'.mark \in {local.mark, None} /\ "removed" \in touched'
    /\ local'.mark = None => kept' = {}
    /\ kept' \subseteq {t \in kept : Mapped(local', t)}
    /\ \E T \in SUBSET Hashes :
          /\ \A t \in Hashes :
                local'.unihashes[t] = IF t \in T THEN NoRow ELSE local.unihashes[t]
          /\ told' = [t \in Hashes |-> IF t \in T THEN None ELSE told[t]]
          /\ local'.mark # local.mark => \A t \in T : local.unihashes[t].mark # local.mark
Remarks ==
    /\ Db(local') /\ local'.mark # None /\ told' = told
    /\ \E T \in SUBSET Hashes :
          /\ \A t \in T : Mapped(local, t) /\ local'.unihashes[t].mark = local'.mark
          /\ \A t \in Hashes \ T : local'.unihashes[t] = local.unihashes[t]
          /\ \A t \in Hashes : Unihash(local', t) = Unihash(local, t)
          /\ IF local'.mark = local.mark THEN kept' \subseteq kept \cup T ELSE kept' = T

\* A write of more rows, and a reply that tells of it.
LEMMA WriteGrows ==
    ASSUME Shape, NEW db, Extends(db, local), Write(db, {}),
           told' = told \/ (\E t : told' = [told EXCEPT ![t] = Unihash(db, t)])
    PROVE  Grows
<1>1. local' = db /\ db.mark = local.mark
  BY DEF Write, Extends
<1>2. CASE db.mark = None
  BY <1>1, <1>2 DEF Write, Grows
<1>3. CASE db.mark # None
  BY <1>1, <1>3 DEF Write, Grows, Fresh
<1> QED
  BY <1>2, <1>3

Kinds == Grows \/ Drops \/ Remarks \/ (local' = local /\ kept' = kept /\ told' = told)
ClientStep(c) == Client(c) \/ Handler(c) \/ Close(c)

\* Who reports, awaits, resumes or copies only adds rows.
LEMMA ClientKind ==
    ASSUME Shape, NEW c \in Conns, ClientStep(c)
    PROVE  Kinds
<1> USE DEF Same
<1>1. ASSUME NEW t \in Hashes, NEW pc, Get(c, pc, t) PROVE Kinds
  BY <1>1 DEF Get, Kinds
<1>2. ASSUME NEW t \in Hashes, GetStream(c, t) PROVE Kinds
  BY <1>2 DEF GetStream, Kinds
<1>3. ASSUME NEW o \in Outhashes, NEW w, GetOuthash(c, o, w) PROVE Kinds
  BY <1>3 DEF GetOuthash, Kinds
<1>4. ASSUME NEW t \in Hashes, NEW o \in Outhashes, Report(c, t, o) PROVE Kinds
  <2> DEFINE db == InsertOuthash(local, Row(t, o, Now))
             rows == Equivalent(db, o, t)
             u == Unihash(db, Oldest(rows).taskhash)
  <2>1. \/ Stored(c, t, InsertUnihash(db, t, u))
        \/ Stored(c, t, InsertUnihash(db, t, t))
        \/ Write(db, {}) /\ UNCHANGED told
    BY <1>4 DEF Report
  <2>2. /\ Extends(db, local) /\ Extends(InsertUnihash(db, t, u), local)
        /\ Extends(InsertUnihash(db, t, t), local)
    BY ExtendsBoth DEF Shape
  <2> HIDE DEF db, u
  <2> QED
    BY <2>1, <2>2, WriteGrows DEF Stored, Tell, Kinds
<1>5. ASSUME NEW t \in Hashes, NEW u \in Hashes, ReportEquiv(c, t, u) PROVE Kinds
  BY <1>5, InsertUnihashExtends, WriteGrows DEF ReportEquiv, Stored, Tell, Kinds, Shape
<1>6. CASE BackfillWait(c)
  BY <1>6 DEF BackfillWait, Kinds
<1>7. CASE UpstreamAnswers(c)
  BY <1>7 DEF UpstreamAnswers, Kinds
<1>8. CASE GetResumes(c)
  BY <1>8, InsertUnihashExtends, WriteGrows DEF GetResumes, Kinds, Shape
<1>9. CASE UnifiedResumes(c)
  BY <1>9, UpdateUnifiedExtends, WriteGrows DEF UnifiedResumes, Kinds, Shape
<1>10. CASE StreamResumes(c)
  BY <1>10 DEF StreamResumes, Kinds
<1>11. CASE ReportResumes(c)
  BY <1>11, InsertUnihashExtends, WriteGrows DEF ReportResumes, Stored, Tell, Kinds, Shape
<1>12. CASE Close(c)
  BY <1>12 DEF Close, Kinds
<1> QED
  BY <1>1, <1>2, <1>3, <1>4, <1>5, <1>6, <1>7, <1>8, <1>9, <1>10, <1>11, <1>12
  DEF ClientStep, Client, Handler, ReportReadonly

\* A write that only takes rows.
LEMMA WriteDrops ==
    ASSUME Shape, NEW db, Db(db), Write(db, {}), db.mark \in {local.mark, None},
           "removed" \in touched',
           NEW T \in SUBSET Hashes,
           \A t \in Hashes :
              db.unihashes[t] = IF t \in T THEN NoRow ELSE local.unihashes[t],
           told' = [t \in Hashes |-> IF t \in T THEN None ELSE told[t]],
           db.mark # local.mark => \A t \in T : local.unihashes[t].mark # local.mark
    PROVE  Drops
<1>1. local' = db
  BY DEF Write
<1>2. \A t \in Hashes : Mapped(db, t) => Mapped(local, t)
  BY DEF Mapped, Unihash, NoRow
<1>3. CASE db.mark = None
  BY <1>1, <1>3 DEF Write, Drops
<1>4. CASE db.mark # None
  <2>1. kept' = {t \in kept : Mapped(db, t)}
    BY <1>1, <1>2, <1>4 DEF Write
  <2> QED
    BY <1>1, <1>4, <2>1 DEF Drops
<1> QED
  BY <1>3, <1>4

\* The rows of T are empty then, and the others stay.
LEMMA UnmapIs ==
    ASSUME NEW db, Db(db), NEW T
    PROVE  LET d == Unmap(db, T)
           IN  /\ Db(d) /\ d.mark = db.mark /\ d.outhashes = db.outhashes
               /\ \A t \in Hashes :
                     d.unihashes[t] = IF t \in T THEN NoRow ELSE db.unihashes[t]
BY DEF Unmap, Db, NoRow

\* A removal takes the rows, and what was told of them.
LEMMA RemoveKind ==
    ASSUME Shape, NEW T \in SUBSET Hashes, NEW gone, Remove(T, gone)
    PROVE  Drops
<1> DEFINE d == Unmap(local, T)
           db == [d EXCEPT !.outhashes = @ \ gone]
<1>1. Write(db, {}) /\ told' = [t \in Hashes |-> IF t \in T THEN None ELSE told[t]]
      /\ "removed" \in touched'
  BY DEF Remove, Forget
<1>2. /\ Db(d) /\ d.mark = local.mark
      /\ \A t \in Hashes :
            d.unihashes[t] = IF t \in T THEN NoRow ELSE local.unihashes[t]
  BY UnmapIs DEF Shape
<1> HIDE DEF d
<1>3. Db(db) /\ db.mark = local.mark /\ db.unihashes = d.unihashes
  BY <1>2 DEF Db
<1> HIDE DEF db
<1> QED
  BY <1>1, <1>2, <1>3, WriteDrops

\* The administrator's requests: clean-unused leaves the unihashes alone.
LEMMA AdminKind ==
    ASSUME Shape, Admin
    PROVE  Kinds
<1>1. CASE RemoveAny
  <2>1. \E T \in SUBSET Hashes : \E gone : Remove(T, gone)
    <3>1. \A T : T \in SUBSET Hashes <=> \A t \in T : t \in Hashes
      OBVIOUS
    <3> QED
      BY <1>1, <3>1 DEF RemoveAny
  <2> QED
    BY <2>1, RemoveKind DEF Kinds
<1>2. CASE GcSweep
  <2> DEFINE T == {t \in Hashes : Mapped(local, t) /\ local.unihashes[t].mark # local.mark}
             d == Unmap(local, T)
             db == [d EXCEPT !.mark = None]
  <2>1. Write(db, {}) /\ told' = [t \in Hashes |-> IF t \in T THEN None ELSE told[t]]
        /\ "removed" \in touched'
    BY <1>2 DEF GcSweep, Forget
  <2>2. /\ Db(d) /\ d.mark = local.mark
        /\ \A t \in Hashes :
              d.unihashes[t] = IF t \in T THEN NoRow ELSE local.unihashes[t]
    BY UnmapIs DEF Shape
  <2> HIDE DEF d
  <2>3. Db(db) /\ db.mark = None /\ db.unihashes = d.unihashes
    BY <2>2 DEF Db
  <2> HIDE DEF db
  <2>4. T \in SUBSET Hashes /\ \A t \in T : local.unihashes[t].mark # local.mark
    OBVIOUS
  <2> HIDE DEF T
  <2> QED
    BY <2>1, <2>2, <2>3, <2>4, WriteDrops DEF Kinds
<1>3. CASE CleanUnused
  <2> DEFINE rest == {r \in local.outhashes : Mapped(local, r.taskhash)}
             db == [local EXCEPT !.outhashes = rest]
  <2>1. Write(db, {}) /\ told' = told
    BY <1>3 DEF CleanUnused
  <2> HIDE DEF rest
  <2>2. Db(db) /\ db.mark = local.mark /\ db.unihashes = local.unihashes
    BY DEF Db, Shape
  <2> HIDE DEF db
  <2>3. Extends(db, local)
    BY <2>2 DEF Extends, Mapped, Unihash
  <2> QED
    BY <2>1, <2>3, WriteGrows DEF Kinds
<1>4. ASSUME NEW m \in Marks, NEW u \in Hashes, GcMark(m, u) PROVE Kinds
  <2> DEFINE T == {t \in Hashes : Unihash(local, t) = u}
             rows == [t \in Hashes |->
                         IF t \in T THEN [local.unihashes[t] EXCEPT !.mark = m]
                         ELSE local.unihashes[t]]
             db == [local EXCEPT !.mark = m, !.unihashes = rows]
  <2>1. Write(db, T) /\ told' = told
    BY <1>4 DEF GcMark
  <2>2. /\ {"unihashes", "outhashes", "mark"} \subseteq DOMAIN db
        /\ db.mark = m /\ db.unihashes = rows
    BY DEF Db, Shape
  <2>3. u # None /\ m # None
    BY HashEquivAssumption
  <2>4. /\ \A t \in T : t \in Hashes /\ Mapped(local, t)
        /\ \A t \in T : rows[t] = [local.unihashes[t] EXCEPT !.mark = m]
        /\ \A t \in Hashes \ T : rows[t] = local.unihashes[t]
        /\ DOMAIN rows = Hashes
    BY <2>3 DEF Mapped
  <2> HIDE DEF db, rows
  <2>5. /\ \A t \in T : rows[t].mark = m /\ rows[t].unihash = local.unihashes[t].unihash
        /\ \A t \in Hashes : {"unihash", "mark"} \subseteq DOMAIN rows[t]
    BY <2>4 DEF Db, Shape
  <2>6. Db(db)
    BY <2>2, <2>4, <2>5 DEF Db
  <2>7. \A t \in Hashes : Unihash(db, t) = Unihash(local, t)
    BY <2>2, <2>4, <2>5 DEF Unihash
  <2>8. /\ local' = db /\ (m # local.mark => kept' = T)
        /\ m = local.mark => kept' \subseteq kept \cup T
    <3>1. local' = db
      BY <2>1 DEF Write
    <3>2. {t \in Hashes : Mapped(db, t) /\ ~Mapped(local, t)} = {}
      BY <2>7 DEF Mapped
    <3> HIDE DEF T
    <3>3. CASE m # local.mark
      BY <2>1, <2>2, <2>3, <3>3 DEF Write
    <3>4. CASE m = local.mark
      BY <2>1, <2>2, <2>3, <3>2, <3>4 DEF Write
    <3> QED
      BY <3>1, <3>3, <3>4
  <2>9. T \in SUBSET Hashes
    OBVIOUS
  <2> HIDE DEF T
  <2> QED
    BY <2>1, <2>2, <2>3, <2>4, <2>5, <2>6, <2>7, <2>8, <2>9 DEF Remarks, Kinds
<1> QED
  BY <1>1, <1>2, <1>3, <1>4 DEF Admin

\* Every step is of one of the kinds.
LEMMA StepKind ==
    ASSUME Shape, Next
    PROVE  Kinds
<1> USE DEF Same
<1>1. ASSUME NEW t \in Hashes, NEW o \in Outhashes, UpstreamReport(t, o) PROVE Kinds
  BY <1>1 DEF UpstreamReport, Kinds
<1>2. CASE WorkerTakes
  BY <1>2 DEF WorkerTakes, Kinds
<1>3. CASE WorkerAnswered
  BY <1>3 DEF WorkerAnswered, Kinds
<1>4. CASE WorkerInserts
  BY <1>4, InsertUnihashExtends, WriteGrows DEF WorkerInserts, Kinds, Shape
<1>5. CASE ServerEnds
  BY <1>5 DEF ServerEnds, Kinds
<1>6. CASE Restart
  BY <1>6 DEF Restart, Kinds
<1> QED
  BY <1>1, <1>2, <1>3, <1>4, <1>5, <1>6, ClientKind, AdminKind DEF Next, Worker, ClientStep

-----------------------------------------------------------------------------
(* What else a step does *)

\* Handlers, databases and the worker keep their fields, upstream keeps its
\* mappings, and what was removed stays on record.
UpGrows == Db(up') /\ \A t \in Hashes : Mapped(up, t) => Mapped(up', t)
Records ==
    /\ Handlers(conn') /\ {"item", "waits", "answer"} \subseteq DOMAIN worker'
    /\ UpGrows /\ touched \subseteq touched' /\ upstream' = upstream

\* A handler that is given a new state.
LEMMA HandlerSet ==
    ASSUME Shape, NEW c \in Conns, NEW h,
           {"pc", "taskhash", "outhash", "waits", "answer", "due"} \subseteq DOMAIN h,
           conn' = [conn EXCEPT ![c] = h]
    PROVE  Handlers(conn')
BY DEF Shape, Handlers

\* A handler that replies or awaits has its fields.
LEMMA ReplyOrAwait ==
    ASSUME Shape, NEW c \in Conns, NEW pc, NEW t, NEW o,
           Reply(c) \/ Await(c, Request(pc, t, o)) \/ conn' = conn
    PROVE  Handlers(conn')
<1>1. CASE Reply(c)
  BY <1>1, HandlerSet DEF Reply, Idle
<1>2. CASE Await(c, Request(pc, t, o))
  BY <1>2, HandlerSet DEF Await, Request, Idle
<1> QED
  BY <1>1, <1>2 DEF Shape

\* Every step keeps the shapes, upstream's mappings and what is on record.
LEMMA StepRecords ==
    ASSUME Shape, Next
    PROVE  Records
<1> USE DEF Asks
<1>0. worker' = worker => {"item", "waits", "answer"} \subseteq DOMAIN worker'
  BY DEF Shape
<1>u. up' = up => UpGrows
  BY DEF Shape, UpGrows, Mapped, Unihash
<1>1. ASSUME NEW c \in Conns, NEW t \in Hashes, NEW pc, Get(c, pc, t) PROVE Records
  BY <1>0, <1>u, <1>1, ReplyOrAwait DEF Get, Records
<1>2. ASSUME NEW c \in Conns, NEW t \in Hashes, GetStream(c, t) PROVE Records
  BY <1>0, <1>u, <1>2, ReplyOrAwait DEF GetStream, Records
<1>3. ASSUME NEW c \in Conns, NEW o \in Outhashes, NEW w, GetOuthash(c, o, w)
      PROVE  Records
  BY <1>0, <1>u, <1>3, ReplyOrAwait DEF GetOuthash, Records
<1>4. ASSUME NEW c \in Conns, NEW t \in Hashes, NEW o \in Outhashes, Report(c, t, o)
      PROVE  Records
  BY <1>0, <1>u, <1>4, ReplyOrAwait DEF Report, Stored, Records
<1>5. ASSUME NEW c \in Conns, NEW t \in Hashes, NEW u \in Hashes, ReportEquiv(c, t, u)
      PROVE  Records
  BY <1>0, <1>u, <1>5, ReplyOrAwait DEF ReportEquiv, Stored, Records
<1>6. ASSUME NEW c \in Conns, BackfillWait(c) PROVE Records
  <2> DEFINE h == [Idle EXCEPT !.due = Pending,
                               !.pc = IF unfinished = 0 THEN "joined" ELSE "join"]
  <2>1. {"pc", "taskhash", "outhash", "waits", "answer", "due"} \subseteq DOMAIN h
    BY DEF Idle
  <2>2. conn' = [conn EXCEPT ![c] = h]
    BY <1>6 DEF BackfillWait
  <2> HIDE DEF h
  <2> QED
    BY <1>0, <1>u, <1>6, <2>1, <2>2, HandlerSet DEF BackfillWait, Records
<1>7. ASSUME NEW c \in Conns, UpstreamAnswers(c) PROVE Records
  <2>1. /\ conn' = [conn EXCEPT ![c].waits = FALSE, ![c].answer =
                       UpstreamSays(conn[c].pc, conn[c].taskhash, conn[c].outhash)]
        /\ UNCHANGED <<upstream, worker, up, touched>>
    BY <1>7 DEF UpstreamAnswers
  <2>2. Handlers(conn')
    BY <2>1 DEF Handlers, Shape
  <2> QED
    BY <1>0, <1>u, <2>1, <2>2 DEF Records
<1>8. ASSUME NEW c \in Conns, GetResumes(c) PROVE Records
  <2>1. CASE Reply(c)
    BY <1>0, <1>u, <1>8, <2>1, ReplyOrAwait DEF GetResumes, Records
  <2>2. CASE conn' = [conn EXCEPT ![c].pc = "failed"]
    BY <1>0, <1>u, <1>8, <2>2 DEF GetResumes, Records, Shape, Handlers
  <2> QED
    BY <1>8, <2>1, <2>2 DEF GetResumes
<1>9. ASSUME NEW c \in Conns, UnifiedResumes(c) PROVE Records
  BY <1>0, <1>u, <1>9, ReplyOrAwait DEF UnifiedResumes, Records
<1>10. ASSUME NEW c \in Conns, StreamResumes(c) PROVE Records
  BY <1>0, <1>u, <1>10, ReplyOrAwait DEF StreamResumes, Records
<1>11. ASSUME NEW c \in Conns, ReportResumes(c) PROVE Records
  BY <1>0, <1>u, <1>11, ReplyOrAwait DEF ReportResumes, Stored, Records
<1>12. ASSUME NEW c \in Conns, Close(c) PROVE Records
  BY <1>0, <1>u, <1>12, ReplyOrAwait DEF Close, Records
<1>13. ASSUME NEW t \in Hashes, NEW o \in Outhashes, UpstreamReport(t, o) PROVE Records
  <2> DEFINE db == InsertOuthash(up, Row(t, o, Now))
  <2>1. \E u : up' = InsertUnihash(db, t, u)
    BY <1>13 DEF UpstreamReport
  <2>2. Extends(up', up)
    BY <2>1, ExtendsBoth DEF Shape
  <2>3. UpGrows
    BY <2>2 DEF Extends, UpGrows, Mapped, Unihash
  <2> QED
    BY <1>0, <1>13, <2>3 DEF UpstreamReport, Records, Shape
<1>14. CASE WorkerTakes
  BY <1>u, <1>14 DEF WorkerTakes, Records, Shape
<1>15. CASE WorkerAnswered
  BY <1>u, <1>15 DEF WorkerAnswered, Records, Shape
<1>16. CASE WorkerInserts
  <2>1. \A c \in Conns :
           Release(unfinished - 1)[c] \in {conn[c], [conn[c] EXCEPT !.pc = "joined"]}
    BY DEF Release
  <2>2. Handlers(conn')
    BY <1>16, <2>1 DEF WorkerInserts, Release, Shape, Handlers
  <2> QED
    BY <1>u, <1>16, <2>2 DEF WorkerInserts, Records
<1>17. CASE Admin
  BY <1>0, <1>u, <1>17 DEF Admin, RemoveAny, Remove, GcSweep, CleanUnused, GcMark, Administers,
     Records, Shape
<1>18. CASE ServerEnds
  BY <1>u, <1>18 DEF ServerEnds, Records, Handlers, Idle
<1>19. CASE Restart
  BY <1>0, <1>u, <1>19 DEF Restart, Records, Shape
<1> QED
  BY <1>1, <1>2, <1>3, <1>4, <1>5, <1>6, <1>7, <1>8, <1>9, <1>10, <1>11, <1>12, <1>13,
     <1>14, <1>15, <1>16, <1>17, <1>18, <1>19
  DEF Next, Client, Handler, ReportReadonly, Worker

-----------------------------------------------------------------------------
(* What was told, and what a sweep keeps *)

\* Rows that were inserted or marked since the mark was set carry it.
Marked ==
    \A t \in kept :
       /\ t \in Hashes /\ local.mark # None
       /\ Mapped(local, t) /\ local.unihashes[t].mark = local.mark

\* So the shapes stay.
LEMMA ShapeKeeps ==
    ASSUME Shape, Kinds, Records
    PROVE  Shape'
<1>1. Db(local') /\ DOMAIN told' = Hashes
  BY DEF Kinds, Grows, Extends, Drops, Remarks, Shape
<1> QED
  BY <1>1 DEF Records, UpGrows, Shape

\* What was told is in the table, whatever kind of step is taken.
LEMMA ToldKeeps ==
    ASSUME Shape, ReportStands, Kinds
    PROVE  ReportStands'
<1> USE DEF ReportStands, Shape, Mapped, Unihash
<1>1. CASE Grows
  BY <1>1 DEF Grows, Extends
<1>2. CASE Drops
  BY <1>2 DEF Drops
<1>3. CASE Remarks
  BY <1>3 DEF Remarks
<1> QED
  BY <1>1, <1>2, <1>3 DEF Kinds

\* A row that is kept carries the mark, whatever kind of step is taken.
LEMMA MarkedKeeps ==
    ASSUME Shape, Marked, Kinds
    PROVE  Marked'
<1> USE DEF Marked, Shape, Mapped, Unihash
<1>1. CASE Grows
  BY <1>1 DEF Grows, Extends, Fresh, CurrentMark
<1>2. CASE Drops
  BY <1>2 DEF Drops, NoRow
<1>3. CASE Remarks
  BY <1>3 DEF Remarks
<1> QED
  BY <1>1, <1>2, <1>3 DEF Kinds

\* A sweep is the only step that unsets the mark.
LEMMA SweepStep ==
    ASSUME Shape, Marked, Kinds, local.mark # None, local'.mark = None, NEW t \in kept
    PROVE  Unihash(local', t) = Unihash(local, t)
BY DEF Kinds, Grows, Extends, Drops, Remarks, Marked, Unihash

-----------------------------------------------------------------------------
(* The backfill queue *)

\* Items that are not done are in the queue or with the worker.
Counted ==
    /\ backfill \in Seq(Hashes) /\ worker.item \in Hashes \cup {None}
    /\ unfinished = Len(backfill) + IF worker.item = None THEN 0 ELSE 1
\* What is to be copied is known upstream, so that the worker will be told.
FromUp ==
    /\ \A c \in Conns : conn[c].pc = "stream" =>
          /\ conn[c].taskhash \in Hashes
          /\ ~conn[c].waits /\ conn[c].answer # None => Mapped(up, conn[c].taskhash)
    /\ \A t \in Pending : Mapped(up, t)
    /\ worker.item # None /\ ~worker.waits => worker.answer # None
\* Whatever waits, waits for hashes.
Due == \A c \in Conns : conn[c].pc \in {"join", "joined"} => conn[c].due \subseteq Hashes
\* What a wait is for is copied, removed again, or yet to come.
Awaited ==
    \A c \in Conns : \A t \in conn[c].due :
       /\ conn[c].pc = "joined" => Mapped(local, t) \/ "removed" \in touched
       /\ conn[c].pc = "join" => t \in Pending \/ Mapped(local, t) \/ "removed" \in touched

\* A unihash goes only if that is on record.
LEMMA MappedStays ==
    ASSUME Shape, Kinds, Records, NEW t \in Hashes,
           Mapped(local, t) \/ "removed" \in touched
    PROVE  Mapped(local', t) \/ "removed" \in touched'
BY DEF Shape, Kinds, Grows, Extends, Drops, Remarks, Records, Mapped, Unihash

\* The elements of a queue.
Elements(q) == {q[i] : i \in DOMAIN q}
\* When it grows ...
LEMMA AppendElements ==
    ASSUME NEW q \in Seq(Hashes), NEW t \in Hashes
    PROVE  /\ Append(q, t) \in Seq(Hashes) /\ Len(Append(q, t)) = Len(q) + 1
           /\ Elements(Append(q, t)) = Elements(q) \cup {t}
<1>1. /\ Append(q, t) \in Seq(Hashes) /\ Len(Append(q, t)) = Len(q) + 1
      /\ \A i \in 1 .. Len(q) : Append(q, t)[i] = q[i]
      /\ Append(q, t)[Len(q) + 1] = t
  OBVIOUS
<1>2. DOMAIN q = 1 .. Len(q) /\ DOMAIN Append(q, t) = 1 .. (Len(q) + 1) /\ Len(q) \in Nat
  BY <1>1
<1> QED
  BY <1>1, <1>2 DEF Elements
\* ... and when it shrinks.
LEMMA TailElements ==
    ASSUME NEW q \in Seq(Hashes), q # <<>>
    PROVE  /\ Head(q) \in Hashes /\ Tail(q) \in Seq(Hashes) /\ Len(Tail(q)) = Len(q) - 1
           /\ Elements(q) = Elements(Tail(q)) \cup {Head(q)}
<1>1. /\ Head(q) = q[1] /\ Tail(q) \in Seq(Hashes) /\ Len(Tail(q)) = Len(q) - 1
      /\ \A i \in 1 .. Len(q) - 1 : Tail(q)[i] = q[i + 1]
      /\ Len(q) \in Nat \ {0} /\ Head(q) \in Hashes
  OBVIOUS
<1>2. DOMAIN q = 1 .. Len(q) /\ DOMAIN Tail(q) = 1 .. Len(q) - 1
  BY <1>1
<1>3. Elements(q) \subseteq Elements(Tail(q)) \cup {Head(q)}
  <2> SUFFICES ASSUME NEW i \in 1 .. Len(q), i # 1 PROVE q[i] \in Elements(Tail(q))
    BY <1>1, <1>2 DEF Elements
  <2>1. i - 1 \in 1 .. Len(q) - 1 /\ Tail(q)[i - 1] = q[i]
    BY <1>1
  <2> QED
    BY <1>2, <2>1 DEF Elements
<1>4. Elements(Tail(q)) \cup {Head(q)} \subseteq Elements(q)
  BY <1>1, <1>2 DEF Elements
<1> QED
  BY <1>1, <1>3, <1>4

\* Pending, by Elements.
LEMMA PendingIs == Pending = Elements(backfill) \cup ({worker.item} \ {None})
BY DEF Pending, Elements

\* Steps that leave the queue alone, and what they do to a handler.
Moves(c) ==
    \/ conn'[c] = conn[c]
    \/ conn'[c].pc \notin {"stream", "join", "joined"}
    \/ /\ conn'[c].pc = "stream" /\ conn'[c].taskhash \in Hashes
       /\ conn'[c].waits /\ conn'[c].due = {}
    \/ /\ conn'[c].pc = conn[c].pc /\ conn'[c].taskhash = conn[c].taskhash
       /\ conn'[c].due = conn[c].due /\ ~conn'[c].waits
       /\ conn'[c].answer = UpstreamSays(conn[c].pc, conn[c].taskhash, conn[c].outhash)
Quiet == UNCHANGED <<backfill, worker, unfinished>> /\ \A c \in Conns : Moves(c)
OfQueue(c) == BackfillWait(c) \/ StreamResumes(c)

\* A handler that replies or awaits waits for no item of the queue.
LEMMA ReplyOrAwaitMoves ==
    ASSUME Shape, NEW c \in Conns, NEW pc, NEW t, NEW o,
           Reply(c) \/ Await(c, Request(pc, t, o)) \/ conn' = conn,
           pc = "stream" => t \in Hashes, pc \notin {"join", "joined"}
    PROVE  \A d \in Conns : Moves(d)
<1>1. CASE Reply(c)
  BY <1>1 DEF Reply, Idle, Moves, Shape, Handlers
<1>2. CASE Await(c, Request(pc, t, o))
  BY <1>2 DEF Await, Request, Idle, Moves, Shape, Handlers
<1>3. CASE conn' = conn
  BY <1>3 DEF Moves
<1> QED
  BY <1>1, <1>2, <1>3

\* Only backfill-wait, a stream that resumes, the worker and the end change the queue.
LEMMA QuietSteps ==
    ASSUME Shape, Next
    PROVE  \/ Quiet \/ \E c \in Conns : OfQueue(c)
           \/ WorkerTakes \/ WorkerAnswered \/ WorkerInserts \/ ServerEnds
<1> USE DEF Asks, Quiet
<1>1. ASSUME NEW c \in Conns, NEW t \in Hashes, NEW pc \in {"get", "getall"}, Get(c, pc, t)
      PROVE  Quiet
  BY <1>1, ReplyOrAwaitMoves DEF Get
<1>2. ASSUME NEW c \in Conns, NEW t \in Hashes, GetStream(c, t) PROVE Quiet
  BY <1>2, ReplyOrAwaitMoves DEF GetStream
<1>3. ASSUME NEW c \in Conns, NEW o \in Outhashes, NEW w, GetOuthash(c, o, w)
      PROVE  Quiet
  BY <1>3, ReplyOrAwaitMoves DEF GetOuthash
<1>4. ASSUME NEW c \in Conns, NEW t \in Hashes, NEW o \in Outhashes, Report(c, t, o)
      PROVE  Quiet
  BY <1>4, ReplyOrAwaitMoves DEF Report, Stored
<1>5. ASSUME NEW c \in Conns, NEW t \in Hashes, NEW u \in Hashes, ReportEquiv(c, t, u)
      PROVE  Quiet
  BY <1>5, ReplyOrAwaitMoves DEF ReportEquiv, Stored
<1>6. ASSUME NEW c \in Conns, UpstreamAnswers(c) PROVE Quiet
  <2>1. conn' = [conn EXCEPT ![c].waits = FALSE, ![c].answer =
                    UpstreamSays(conn[c].pc, conn[c].taskhash, conn[c].outhash)]
    BY <1>6 DEF UpstreamAnswers
  <2>2. \A d \in Conns : Moves(d)
    BY <2>1 DEF Moves, Shape, Handlers
  <2> QED
    BY <1>6, <2>2 DEF UpstreamAnswers
<1>7. ASSUME NEW c \in Conns, GetResumes(c) PROVE Quiet
  <2>1. CASE Reply(c)
    BY <1>7, <2>1, ReplyOrAwaitMoves DEF GetResumes
  <2>2. CASE conn' = [conn EXCEPT ![c].pc = "failed"]
    BY <1>7, <2>2 DEF GetResumes, Moves, Shape, Handlers
  <2> QED
    BY <1>7, <2>1, <2>2 DEF GetResumes
<1>8. ASSUME NEW c \in Conns, UnifiedResumes(c) PROVE Quiet
  BY <1>8, ReplyOrAwaitMoves DEF UnifiedResumes
<1>9. ASSUME NEW c \in Conns, ReportResumes(c) PROVE Quiet
  BY <1>9, ReplyOrAwaitMoves DEF ReportResumes, Stored
<1>10. ASSUME NEW c \in Conns, Close(c) PROVE Quiet
  BY <1>10, ReplyOrAwaitMoves DEF Close
<1>11. ASSUME NEW t \in Hashes, NEW o \in Outhashes, UpstreamReport(t, o) PROVE Quiet
  BY <1>11 DEF UpstreamReport, Moves
<1>12. CASE Admin
  BY <1>12 DEF Admin, RemoveAny, Remove, GcSweep, CleanUnused, GcMark, Administers, Moves
<1>13. CASE Restart
  BY <1>13 DEF Restart, Moves
<1> QED
  BY <1>1, <1>2, <1>3, <1>4, <1>5, <1>6, <1>7, <1>8, <1>9, <1>10, <1>11, <1>12, <1>13
  DEF Next, Client, Handler, ReportReadonly, Worker, OfQueue

\* The count goes up with the queue, and down when the worker is done.
LEMMA CountedKeeps ==
    ASSUME Shape, Counted, FromUp, Next
    PROVE  Counted'
<1> USE HashEquivAssumption DEF Counted, Shape
<1>1. CASE Quiet
  BY <1>1 DEF Quiet
<1>2. ASSUME NEW c \in Conns, BackfillWait(c) PROVE Counted'
  BY <1>2 DEF BackfillWait, Asks
<1>3. ASSUME NEW c \in Conns, StreamResumes(c) PROVE Counted'
  <2>1. CASE conn[c].answer = None
    BY <1>3, <2>1 DEF StreamResumes
  <2>2. CASE conn[c].answer # None
    BY <1>3, <2>2, AppendElements DEF StreamResumes, FromUp, Resumes
  <2> QED
    BY <2>1, <2>2
<1>4. CASE WorkerTakes
  BY <1>4, TailElements DEF WorkerTakes
<1>5. CASE WorkerAnswered
  BY <1>5 DEF WorkerAnswered
<1>6. CASE WorkerInserts
  BY <1>6 DEF WorkerInserts
<1>7. CASE ServerEnds
  BY <1>7 DEF ServerEnds
<1> QED
  BY <1>1, <1>2, <1>3, <1>4, <1>5, <1>6, <1>7, QuietSteps DEF OfQueue

\* What upstream knows it goes on knowing.
LEMMA FromUpKeeps ==
    ASSUME Shape, Counted, FromUp, Records, Next
    PROVE  FromUp'
<1> USE HashEquivAssumption DEF FromUp, Shape
<1>0. \A t \in Hashes : Mapped(up, t) => Mapped(up', t)
  BY DEF Records, UpGrows
<1>p. Pending \subseteq Hashes
  BY PendingIs DEF Counted, Elements
<1>1. CASE Quiet
  <2>1. ASSUME NEW c \in Conns
        PROVE  conn'[c].pc = "stream" =>
                  /\ conn'[c].taskhash \in Hashes
                  /\ ~conn'[c].waits /\ conn'[c].answer # None =>
                        Mapped(up', conn'[c].taskhash)
    <3>1. CASE conn'[c] = conn[c]
      BY <1>0, <3>1
    <3>2. CASE conn'[c].waits /\ conn'[c].taskhash \in Hashes
      BY <3>2
    <3>3. CASE /\ conn'[c].pc = conn[c].pc /\ conn'[c].taskhash = conn[c].taskhash
               /\ conn'[c].answer = UpstreamSays(conn[c].pc, conn[c].taskhash, conn[c].outhash)
      BY <1>0, <3>3 DEF UpstreamSays, Mapped
    <3> QED
      BY <1>1, <3>1, <3>2, <3>3 DEF Quiet, Moves
  <2>2. \A t \in Pending' : Mapped(up', t)
    BY <1>0, <1>p, <1>1 DEF Quiet, Pending
  <2> QED
    BY <1>1, <2>1, <2>2 DEF Quiet
<1>2. ASSUME NEW c \in Conns, BackfillWait(c) PROVE FromUp'
  <2>1. /\ UNCHANGED <<backfill, worker>> /\ \A d \in Conns : d # c => conn'[d] = conn[d]
        /\ conn'[c].pc # "stream"
    BY <1>2 DEF BackfillWait, Idle, Handlers
  <2> QED
    BY <1>0, <1>p, <2>1 DEF Pending
<1>3. ASSUME NEW c \in Conns, StreamResumes(c) PROVE FromUp'
  <2>1. /\ worker' = worker /\ \A d \in Conns : d # c => conn'[d] = conn[d]
        /\ conn'[c].pc # "stream"
    BY <1>3 DEF StreamResumes, Reply, Idle, Handlers
  <2>2. \A t \in Pending' : t \in Pending \/ (Mapped(up, t) /\ t \in Hashes)
    <3>1. CASE backfill' = backfill
      <4>1. Pending' = Pending
        BY <2>1, <3>1 DEF Pending
      <4> QED
        BY <4>1, Zenon
    <3>2. CASE /\ backfill' = Append(backfill, conn[c].taskhash)
               /\ conn[c].taskhash \in Hashes /\ Mapped(up, conn[c].taskhash)
      BY <2>1, <3>2, AppendElements, PendingIs DEF Counted, Pending, Elements
    <3> QED
      BY <1>3, <3>1, <3>2 DEF StreamResumes, Resumes
  <2> QED
    BY <1>0, <1>p, <2>1, <2>2
<1>4. CASE WorkerTakes
  <2>1. Pending' \subseteq Pending
    BY <1>4, TailElements DEF WorkerTakes, Counted, Pending, Elements
  <2> QED
    BY <1>0, <1>p, <1>4, <2>1 DEF WorkerTakes
<1>5. CASE WorkerAnswered
  <2>1. worker'.item = worker.item /\ worker'.answer = Unihash(up, worker.item)
    BY <1>5 DEF WorkerAnswered, UpstreamSays
  <2>2. Pending' = Pending /\ conn' = conn
    BY <1>5, <2>1 DEF WorkerAnswered, Pending
  <2>3. worker.item # None => worker'.answer # None
    BY <2>1 DEF Pending, Mapped
  <2> QED
    BY <1>0, <1>p, <2>1, <2>2, <2>3
<1>6. CASE WorkerInserts
  <2>1. Pending' \subseteq Pending
    BY <1>6 DEF WorkerInserts, Pending
  <2>2. \A c \in Conns : conn'[c] = conn[c] \/ conn'[c].pc = "joined"
    BY <1>6 DEF WorkerInserts, Release, Handlers
  <2> QED
    BY <1>0, <1>p, <1>6, <2>1, <2>2 DEF WorkerInserts
<1>7. CASE ServerEnds
  BY <1>7 DEF ServerEnds, Idle, Pending
<1> QED
  BY <1>1, <1>2, <1>3, <1>4, <1>5, <1>6, <1>7, QuietSteps DEF OfQueue

\* What the worker takes off the queue it inserts before it is counted as done.
LEMMA AwaitedKeeps ==
    ASSUME Shape, Counted, FromUp, Awaited, Due, Kinds, Records, Next
    PROVE  Awaited'
<1> USE HashEquivAssumption DEF Awaited, Due, Shape
<1> DEFINE There(t) == Mapped(local, t) \/ "removed" \in touched
<1>0. \A t \in Hashes : There(t) => There(t)'
  BY MappedStays
<1> HIDE DEF There
<1>p. Pending \subseteq Hashes
  BY PendingIs DEF Counted, Elements
<1> SUFFICES ASSUME NEW c \in Conns, NEW t \in conn'[c].due
             PROVE  /\ conn'[c].pc = "joined" => There(t)'
                    /\ conn'[c].pc = "join" => t \in Pending' \/ There(t)'
  BY DEF There
<1>i. /\ conn[c].pc = "joined" /\ t \in conn[c].due => There(t)
      /\ conn[c].pc = "join" /\ t \in conn[c].due => t \in Pending \/ There(t)
  BY DEF There
<1>1. CASE Quiet
  <2>1. Pending' = Pending
    BY <1>1 DEF Quiet, Pending
  <2>2. Moves(c)
    BY <1>1 DEF Quiet
  <2> QED
    BY <1>0, <1>i, <2>1, <2>2 DEF Moves
<1>2. ASSUME NEW d \in Conns, BackfillWait(d)
      PROVE  /\ conn'[c].pc = "joined" => There(t)'
             /\ conn'[c].pc = "join" => t \in Pending' \/ There(t)'
  <2>1. Pending' = Pending
    BY <1>2 DEF BackfillWait, Pending
  <2>2. CASE c # d
    BY <1>0, <1>i, <1>2, <2>1, <2>2 DEF BackfillWait, Handlers
  <2>3. CASE c = d
    <3>1. conn'[c].due = Pending /\ (conn'[c].pc = "joined" => unfinished = 0)
      BY <1>2, <2>3 DEF BackfillWait, Idle, Handlers
    <3>2. unfinished = 0 => Pending = {}
      BY DEF Counted, Pending
    <3> QED
      BY <2>1, <3>1, <3>2
  <2> QED
    BY <2>2, <2>3
<1>3. ASSUME NEW d \in Conns, StreamResumes(d)
      PROVE  /\ conn'[c].pc = "joined" => There(t)'
             /\ conn'[c].pc = "join" => t \in Pending' \/ There(t)'
  <2>1. Pending \subseteq Pending'
    <3>1. CASE backfill' = backfill
      BY <1>3, <3>1 DEF StreamResumes, Pending
    <3>2. CASE conn[d].taskhash \in Hashes /\ backfill' = Append(backfill, conn[d].taskhash)
      BY <1>3, <3>2, AppendElements DEF StreamResumes, Counted, Pending, Elements
    <3> QED
      BY <1>3, <3>1, <3>2 DEF StreamResumes, Resumes, FromUp
  <2> QED
    BY <1>0, <1>i, <1>3, <2>1 DEF StreamResumes, Reply, Idle, Handlers
<1>4. CASE WorkerTakes
  <2>1. /\ backfill # <<>> /\ backfill \in Seq(Hashes) /\ worker.item = None
        /\ backfill' = Tail(backfill) /\ worker'.item = Head(backfill) /\ conn' = conn
    BY <1>4 DEF WorkerTakes, Counted
  <2>2. /\ Head(backfill) \in Hashes
        /\ Elements(backfill) = Elements(Tail(backfill)) \cup {Head(backfill)}
    BY <2>1, TailElements
  <2>3. Pending = Elements(backfill) \cup ({worker.item} \ {None})
    BY PendingIs
  <2>4. Pending' = Elements(backfill') \cup ({worker'.item} \ {None})
    BY DEF Pending, Elements
  <2>5. Pending \subseteq Pending'
    BY <2>1, <2>2, <2>3, <2>4
  <2> QED
    BY <1>0, <1>i, <2>1, <2>5
<1>5. CASE WorkerAnswered
  <2>1. Pending' = Pending /\ conn' = conn
    BY <1>5 DEF WorkerAnswered, Pending
  <2> QED
    BY <1>0, <1>i, <2>1
<1>6. CASE WorkerInserts
  <2>1. ASSUME NEW i, i = worker.item PROVE i \in Hashes /\ There(i)'
    <3>1. worker.item \in Hashes /\ worker.answer # None
      BY <1>6 DEF WorkerInserts, Counted, FromUp
    <3>2. local' = InsertUnihash(local, worker.item, worker.answer)
      BY <1>6, <3>1 DEF WorkerInserts, Write
    <3>3. Mapped(local', i)
      BY <2>1, <3>1, <3>2 DEF InsertUnihash, Mapped, Unihash, Db
    <3> QED
      BY <2>1, <3>1, <3>3 DEF There
  <2>2. Pending \subseteq Pending' \cup {worker.item}
    BY <1>6 DEF WorkerInserts, Pending
  <2>3. unfinished - 1 = 0 => Pending' = {}
    BY <1>6 DEF WorkerInserts, Counted, Pending
  <2>4. /\ conn'[c].due = conn[c].due
        /\ \/ conn'[c].pc = conn[c].pc
           \/ conn'[c].pc = "joined" /\ conn[c].pc = "join" /\ unfinished - 1 = 0
    BY <1>6 DEF WorkerInserts, Release, Handlers
  <2>5. t \in Pending => There(t)' \/ t \in Pending'
    BY <2>1, <2>2
  <2> QED
    BY <1>0, <1>i, <2>3, <2>4, <2>5
<1>7. CASE ServerEnds
  BY <1>7 DEF ServerEnds, Idle
<1> QED
  BY <1>1, <1>2, <1>3, <1>4, <1>5, <1>6, <1>7, QuietSteps DEF OfQueue

-----------------------------------------------------------------------------
(* Without upstream server, and without mappings that no output led to *)

\* The first row of an output, whose task gave it its unihash.
First(db, o, r) ==
    /\ r \in db.outhashes /\ r.outhash = o
    /\ \A s \in db.outhashes : s.outhash = o /\ s # r => r.created < s.created
Times == {0} \cup {r.created : r \in local.outhashes \cup up.outhashes}
Dated == Times \subseteq Nat /\ \E m \in Times : \A x \in Times : m >= x
\* Every row is of a task with a unihash, every task with a unihash has a row, and
\* a task with one output has the unihash of the first task that had it.
Follows ==
    /\ \A r \in local.outhashes : r.taskhash \in Hashes /\ Mapped(local, r.taskhash)
    /\ \A t \in Hashes : Mapped(local, t) => \E r \in local.outhashes : r.taskhash = t
    /\ \A o \in Outhashes : \A s \in local.outhashes : s.outhash = o =>
          \E r \in local.outhashes :
             /\ First(local, o, r)
             /\ \A t \in Hashes :
                   Single(t, o) => Unihash(local, t) = Unihash(local, r.taskhash)
Alone == ~upstream /\ touched = {}
Reported == (\A c \in Conns : conn[c].pc # "report") /\ Dated /\ Follows

\* One output: there is a row, and all rows are with it.
LEMMA SingleIs ==
    ASSUME NEW t, NEW o
    PROVE  Single(t, o) <=>
              /\ Mapped(local, t) /\ \E r \in local.outhashes : r.taskhash = t
              /\ \A r \in local.outhashes : r.taskhash = t => r.outhash = o
BY DEF Single

\* The time is later than that of any row.
LEMMA NowIsLater ==
    ASSUME Dated
    PROVE  Now \in Nat /\ \A r \in local.outhashes \cup up.outhashes :
                             r.created \in Nat /\ r.created < Now
<1> DEFINE T == {0} \cup {r.created : r \in local.outhashes \cup up.outhashes}
<1>1. T = Times
  BY DEF Times
<1>2. Now = 1 + Max(T)
  BY DEF Now
<1> HIDE DEF T
<1>3. Max(T) \in T /\ \A x \in T : Max(T) >= x
  BY <1>1 DEF Dated, Max
<1>4. T \subseteq Nat /\ \A r \in local.outhashes \cup up.outhashes : r.created \in T
  BY <1>1 DEF Dated, Times
<1>5. Max(T) \in Nat
  BY <1>3, <1>4
<1>6. \A r \in local.outhashes \cup up.outhashes : r.created \in Nat /\ Max(T) >= r.created
  BY <1>3, <1>4
<1> QED
  BY <1>2, <1>5, <1>6

\* The steps without upstream server that leave no trace in touched.
LEMMA LocalSteps ==
    ASSUME Shape, Next, ~upstream, touched' = {}, \A c \in Conns : conn[c].pc # "report"
    PROVE  /\ ~upstream' /\ up' = up
           /\ \/ local' = local
              \/ \E c \in Conns, t \in Hashes, o \in Outhashes : Report(c, t, o)
              \/ \E m \in Marks, u \in Hashes : GcMark(m, u)
<1> DEFINE G == /\ ~upstream' /\ up' = up
                /\ \/ local' = local
                   \/ \E c \in Conns, t \in Hashes, o \in Outhashes : Report(c, t, o)
                   \/ \E m \in Marks, u \in Hashes : GcMark(m, u)
<1> USE DEF Asks, Same
<1>1. ASSUME NEW c \in Conns, NEW t \in Hashes, NEW pc, Get(c, pc, t) PROVE G
  BY <1>1 DEF Get
<1>2. ASSUME NEW c \in Conns, NEW t \in Hashes, GetStream(c, t) PROVE G
  BY <1>2 DEF GetStream
<1>3. ASSUME NEW c \in Conns, NEW o \in Outhashes, NEW w, GetOuthash(c, o, w) PROVE G
  BY <1>3 DEF GetOuthash
<1>4. ASSUME NEW c \in Conns, NEW t \in Hashes, NEW o \in Outhashes, Report(c, t, o) PROVE G
  <2>1. UNCHANGED <<upstream, up>>
    BY <1>4 DEF Report
  <2> QED
    BY <1>4, <2>1
<1>5. ASSUME NEW c \in Conns, NEW t \in Hashes, NEW u \in Hashes, ReportEquiv(c, t, u)
      PROVE  G
  BY <1>5 DEF ReportEquiv
<1>6. ASSUME NEW c \in Conns, BackfillWait(c) PROVE G
  BY <1>6 DEF BackfillWait
<1>7. ASSUME NEW c \in Conns, UpstreamAnswers(c) PROVE G
  BY <1>7 DEF UpstreamAnswers
<1>8. ASSUME NEW c \in Conns, GetResumes(c) PROVE G
  BY <1>8 DEF GetResumes
<1>9. ASSUME NEW c \in Conns, UnifiedResumes(c) PROVE G
  BY <1>9 DEF UnifiedResumes
<1>10. ASSUME NEW c \in Conns, StreamResumes(c) PROVE G
  BY <1>10 DEF StreamResumes
<1>11. ASSUME NEW c \in Conns, ReportResumes(c) PROVE G
  BY <1>11 DEF ReportResumes, Resumes
<1>12. ASSUME NEW c \in Conns, Close(c) PROVE G
  BY <1>12 DEF Close
<1>13. ASSUME NEW t \in Hashes, NEW o \in Outhashes, UpstreamReport(t, o) PROVE G
  BY <1>13 DEF UpstreamReport
<1>14. CASE WorkerTakes \/ WorkerAnswered \/ WorkerInserts \/ ServerEnds \/ Restart
  BY <1>14 DEF WorkerTakes, WorkerAnswered, WorkerInserts, ServerEnds, Restart
<1>15. CASE RemoveAny \/ GcSweep \/ CleanUnused
  BY <1>15 DEF RemoveAny, Remove, GcSweep, CleanUnused
<1>16. ASSUME NEW m \in Marks, NEW u \in Hashes, GcMark(m, u) PROVE G
  BY <1>16 DEF GcMark, Administers
<1> QED
  BY <1>1, <1>2, <1>3, <1>4, <1>5, <1>6, <1>7, <1>8, <1>9, <1>10, <1>11, <1>12, <1>13,
     <1>14, <1>15, <1>16 DEF Next, Client, Handler, ReportReadonly, Worker, Admin

\* No report awaits: none is sent on without upstream server.
LEMMA NoReportAwaits ==
    ASSUME Shape, Next, ~upstream, \A c \in Conns : conn[c].pc # "report"
    PROVE  \A c \in Conns : conn'[c].pc # "report"
<1> DEFINE G == \A c \in Conns : conn'[c].pc # "report"
<1>r. ASSUME NEW c \in Conns, Reply(c) PROVE G
  BY <1>r DEF Reply, Idle, Shape, Handlers
<1>1. ASSUME NEW c \in Conns, NEW t \in Hashes, NEW pc \in {"get", "getall"}, Get(c, pc, t)
      PROVE  G
  BY <1>1, <1>r DEF Get
<1>2. ASSUME NEW c \in Conns, NEW t \in Hashes, GetStream(c, t) PROVE G
  BY <1>2, <1>r DEF GetStream
<1>3. ASSUME NEW c \in Conns, NEW o \in Outhashes, NEW w, GetOuthash(c, o, w) PROVE G
  BY <1>3, <1>r DEF GetOuthash
<1>4. ASSUME NEW c \in Conns, NEW t \in Hashes, NEW o \in Outhashes, Report(c, t, o) PROVE G
  <2>1. Reply(c)
    BY <1>4 DEF Report, Stored
  <2> QED
    BY <1>r, <2>1
<1>5. ASSUME NEW c \in Conns, NEW t \in Hashes, NEW u \in Hashes, ReportEquiv(c, t, u)
      PROVE  G
  BY <1>5, <1>r DEF ReportEquiv, Stored
<1>6. ASSUME NEW c \in Conns, BackfillWait(c) PROVE G
  BY <1>6 DEF BackfillWait
<1>7. ASSUME NEW c \in Conns, UpstreamAnswers(c) PROVE G
  BY <1>7 DEF UpstreamAnswers, Shape, Handlers
<1>8. ASSUME NEW c \in Conns, GetResumes(c) PROVE G
  BY <1>8, <1>r DEF GetResumes, Shape, Handlers
<1>9. ASSUME NEW c \in Conns,
             UnifiedResumes(c) \/ StreamResumes(c) \/ ReportResumes(c) \/ Close(c)
      PROVE  G
  BY <1>9, <1>r DEF UnifiedResumes, StreamResumes, ReportResumes, Stored, Close
<1>10. ASSUME NEW t \in Hashes, NEW o \in Outhashes, UpstreamReport(t, o) PROVE G
  BY <1>10 DEF UpstreamReport
<1>11. CASE WorkerTakes \/ WorkerAnswered \/ Restart
  BY <1>11 DEF WorkerTakes, WorkerAnswered, Restart
<1>12. CASE WorkerInserts
  BY <1>12 DEF WorkerInserts, Release, Shape, Handlers
<1>13. CASE ServerEnds
  BY <1>13 DEF ServerEnds, Idle
<1>14. CASE Admin
  BY <1>14 DEF Admin, RemoveAny, Remove, GcSweep, CleanUnused, GcMark, Administers
<1> QED
  BY <1>1, <1>2, <1>3, <1>4, <1>5, <1>6, <1>7, <1>8, <1>9, <1>10, <1>11, <1>12, <1>13,
     <1>14 DEF Next, Client, Handler, ReportReadonly, Worker

\* A row is added, of now, and its task has the unihash of the first row with the
\* output, if it had none before.
LEMMA AddRow ==
    ASSUME Dated, Follows, NEW t \in Hashes, NEW o \in Outhashes,
           \A r \in local.outhashes : ~(r.taskhash = t /\ r.outhash = o),
           up' = up, local'.outhashes = local.outhashes \cup {Row(t, o, Now)},
           \A s \in Hashes : s # t => Unihash(local', s) = Unihash(local, s),
           Mapped(local', t),
           Mapped(local, t) => Unihash(local', t) = Unihash(local, t),
           ~Mapped(local, t) => \A r : First(local, o, r) =>
                                   Unihash(local', t) = Unihash(local, r.taskhash)
    PROVE  Dated' /\ Follows'
<1> DEFINE n == Row(t, o, Now)
<1>n. n.taskhash = t /\ n.outhash = o /\ n.created = Now
  BY DEF Row
<1> HIDE DEF n
<1>r. local'.outhashes = local.outhashes \cup {n}
  BY DEF n
<1>l. Now \in Nat /\ \A r \in local.outhashes \cup up.outhashes :
                       r.created \in Nat /\ r.created < Now
  BY NowIsLater
<1>1. Dated'
  <2>1. Times' = Times \cup {Now}
    BY <1>r, <1>n DEF Times
  <2>2. \A x \in Times : x \in Nat /\ x <= Now
    BY <1>l DEF Times
  <2> QED
    BY <1>l, <2>1, <2>2 DEF Dated
<1>m. \A s \in Hashes : Mapped(local, s) =>
         Mapped(local', s) /\ Unihash(local', s) = Unihash(local, s)
  BY DEF Mapped
<1>2. \A r \in local'.outhashes : r.taskhash \in Hashes /\ Mapped(local', r.taskhash)
  BY <1>m, <1>n, <1>r DEF Follows
<1>3. \A s \in Hashes : Mapped(local', s) => \E r \in local'.outhashes : r.taskhash = s
  <2> SUFFICES ASSUME NEW s \in Hashes, s # t, Mapped(local', s)
               PROVE  \E r \in local'.outhashes : r.taskhash = s
    BY <1>n, <1>r
  <2>1. Mapped(local, s)
    BY DEF Mapped
  <2> QED
    BY <1>r, <2>1 DEF Follows
<1>4. ASSUME NEW p \in Outhashes, NEW s \in Hashes, s # t, Single(s, p)'
      PROVE  Single(s, p) /\ Unihash(local', s) = Unihash(local, s)
  <2>1. /\ Mapped(local', s) /\ \A r \in local'.outhashes : r.taskhash = s => r.outhash = p
        /\ \E r \in local'.outhashes : r.taskhash = s
    BY <1>4 DEF Single
  <2>2. Mapped(local, s)
    BY <1>4, <2>1 DEF Mapped
  <2> QED
    BY <1>4, <1>n, <1>r, <2>1, <2>2, SingleIs
<1>5. ASSUME NEW p \in Outhashes, Single(t, p)' PROVE p = o /\ ~Mapped(local, t)
  <2>1. \A r \in local'.outhashes : r.taskhash = t => r.outhash = p
    BY <1>5 DEF Single
  <2> QED
    BY <1>n, <1>r, <2>1 DEF Follows
<1>6. ASSUME NEW p \in Outhashes, NEW r, First(local, p, r) PROVE First(local', p, r)
  BY <1>6, <1>l, <1>n, <1>r DEF First
<1>7. ASSUME NEW p \in Outhashes, NEW q \in local'.outhashes, q.outhash = p
      PROVE  \E r \in local'.outhashes :
                /\ First(local', p, r)
                /\ \A s \in Hashes :
                      Single(s, p)' => Unihash(local', s) = Unihash(local', r.taskhash)
  <2>1. CASE \E s \in local.outhashes : s.outhash = p
    <3>1. PICK r : /\ First(local, p, r)
                   /\ \A s \in Hashes :
                         Single(s, p) => Unihash(local, s) = Unihash(local, r.taskhash)
      BY <2>1 DEF Follows
    <3>2. r.taskhash \in Hashes /\ Unihash(local', r.taskhash) = Unihash(local, r.taskhash)
      BY <1>m, <3>1 DEF First, Follows
    <3>3. \A s \in Hashes : Single(s, p)' => Unihash(local', s) = Unihash(local, r.taskhash)
      BY <1>4, <1>5, <3>1
    <3> QED
      BY <1>6, <3>1, <3>2, <3>3 DEF First
  <2>2. CASE \A s \in local.outhashes : s.outhash # p
    <3>1. p = o /\ First(local', p, n)
      BY <1>7, <1>n, <1>r, <2>2 DEF First
    <3>2. \A s \in Hashes : Single(s, p)' => s = t
      BY <1>4, <2>2, SingleIs
    <3> QED
      BY <1>n, <1>r, <3>1, <3>2
  <2> QED
    BY <2>1, <2>2
<1> QED
  BY <1>1, <1>2, <1>3, <1>7 DEF Follows

\* The first row of an output is the oldest, of all that a task sees that is not
\* itself among them.
LEMMA OldestIsFirst ==
    ASSUME Dated, NEW o \in Outhashes, NEW r, First(local, o, r), NEW rows,
           rows = {s \in local.outhashes : s.outhash = o}
    PROVE  Oldest(rows) = r
<1>1. r \in rows /\ \A s \in rows : s = r \/ r.created < s.created
  BY DEF First
<1>2. \A s \in rows : s.created \in Nat
  BY DEF Dated, Times
<1>3. \A s \in rows : r.created <= s.created
  BY <1>1, <1>2
<1>4. \A q \in rows : (\A s \in rows : q.created <= s.created) => q = r
  BY <1>1, <1>2
<1> QED
  BY <1>1, <1>3, <1>4 DEF Oldest

\* Marks of rows do not matter.
LEMMA SameRows ==
    ASSUME Dated, Follows, up' = up, local'.outhashes = local.outhashes,
           \A s \in Hashes : Unihash(local', s) = Unihash(local, s)
    PROVE  Dated' /\ Follows'
<1>1. Dated'
  <2>1. Times' = Times
    BY DEF Times
  <2> QED
    BY <2>1 DEF Dated
<1>2. \A s \in Hashes : Mapped(local', s) <=> Mapped(local, s)
  BY DEF Mapped
<1>3. \A s \in Hashes, o \in Outhashes : Single(s, o)' => Single(s, o)
  BY <1>2 DEF Single
<1>4. \A o, r : First(local, o, r) => First(local', o, r) /\ r \in local.outhashes
  BY DEF First
<1>5. ASSUME NEW o \in Outhashes, NEW s \in local'.outhashes, s.outhash = o
      PROVE  \E r \in local'.outhashes :
                /\ First(local', o, r)
                /\ \A t \in Hashes :
                      Single(t, o)' => Unihash(local', t) = Unihash(local', r.taskhash)
  <2>1. PICK r : /\ First(local, o, r)
                 /\ \A t \in Hashes :
                       Single(t, o) => Unihash(local, t) = Unihash(local, r.taskhash)
    BY <1>5 DEF Follows
  <2>2. r.taskhash \in Hashes
    BY <1>4, <2>1 DEF Follows
  <2> QED
    BY <1>3, <1>4, <2>1, <2>2
<1> QED
  BY <1>1, <1>2, <1>5 DEF Follows

\* A report without upstream server adds such a row, or has its row already.
LEMMA ReportFollows ==
    ASSUME Shape, Dated, Follows, ~upstream, up' = up,
           NEW c \in Conns, NEW t \in Hashes, NEW o \in Outhashes, Report(c, t, o)
    PROVE  Dated' /\ Follows'
<1> DEFINE db == InsertOuthash(local, Row(t, o, Now))
           rows == Equivalent(db, o, t)
           u == IF rows = {} THEN t ELSE Unihash(db, Oldest(rows).taskhash)
<1>1. local' = InsertUnihash(db, t, u)
  <2>1. \/ rows # {} /\ Stored(c, t, InsertUnihash(db, t, Unihash(db, Oldest(rows).taskhash)))
        \/ rows = {} /\ Stored(c, t, InsertUnihash(db, t, t))
    BY DEF Report
  <2> HIDE DEF rows, db
  <2> QED
    BY <2>1 DEF Stored, Write
<1>2. Db(db) /\ db.unihashes = local.unihashes
  BY InsertOuthashIs DEF Shape
<1>3. CASE \E r \in local.outhashes : r.taskhash = t /\ r.outhash = o
  <2>1. db = local /\ Mapped(local, t)
    BY <1>3 DEF InsertOuthash, Follows, Row
  <2>2. local' = local
    BY <1>1, <2>1 DEF InsertUnihash
  <2> QED
    BY <2>2, SameRows
<1>4. CASE ~\E r \in local.outhashes : r.taskhash = t /\ r.outhash = o
  <2> DEFINE n == Row(t, o, Now)
  <2>n. n.taskhash = t /\ n.outhash = o
    BY DEF Row
  <2>1. db.outhashes = local.outhashes \cup {n}
    BY <1>4, <2>n DEF InsertOuthash, Shape, Db
  <2>2. \A s \in Hashes :
           Unihash(db, s) = Unihash(local, s) /\ (Mapped(db, s) <=> Mapped(local, s))
    BY <1>2 DEF Unihash, Mapped
  <2> HIDE DEF n
  <2>3. ~Mapped(local, t) => rows = {s \in local.outhashes : s.outhash = o}
    <3> SUFFICES ASSUME ~Mapped(local, t)
                 PROVE  rows = {s \in local.outhashes : s.outhash = o}
      OBVIOUS
    <3>1. \A s \in local.outhashes : s.taskhash # t /\ Mapped(db, s.taskhash)
      BY <2>2 DEF Follows
    <3> QED
      BY <2>n, <2>1, <3>1 DEF Equivalent, Joined
  <2> HIDE DEF db, rows
  <2>4. Extends(local', db)
    BY <1>1, <1>2, InsertUnihashExtends
  <2>5. /\ local'.outhashes = db.outhashes
        /\ \A s \in Hashes : s # t => Unihash(local', s) = Unihash(db, s)
    BY <1>1, <1>2 DEF InsertUnihash, Unihash, Db
  <2>6. ~Mapped(local, t) => Unihash(local', t) = u
    BY <1>1, <1>2, <2>2 DEF InsertUnihash, Unihash, Db
  <2>7. ~Mapped(local, t) => \A r : First(local, o, r) => u = Unihash(local, r.taskhash)
    <3> SUFFICES ASSUME ~Mapped(local, t), NEW r, First(local, o, r)
                 PROVE  u = Unihash(local, r.taskhash)
      OBVIOUS
    <3>1. Oldest(rows) = r
      BY <2>3, OldestIsFirst
    <3>2. rows # {} /\ r.taskhash \in Hashes
      BY <2>3 DEF First, Follows
    <3> QED
      BY <2>2, <3>1, <3>2
  <2>8. ~Mapped(local, t) => u # None
    <3> SUFFICES ASSUME ~Mapped(local, t) PROVE u # None
      OBVIOUS
    <3>1. CASE rows = {}
      BY <3>1, HashEquivAssumption
    <3>2. CASE rows # {}
      <4>1. PICK r : First(local, o, r)
        BY <2>3, <3>2 DEF Follows
      <4>2. Mapped(local, r.taskhash)
        BY <4>1 DEF First, Follows
      <4> QED
        BY <2>7, <4>1, <4>2 DEF Mapped
    <3> QED
      BY <3>1, <3>2
  <2>9. Mapped(local, t) => Unihash(local', t) = Unihash(local, t)
    BY <2>2, <2>4 DEF Extends, Unihash
  <2>10. Mapped(local', t)
    BY <2>6, <2>8, <2>9 DEF Mapped
  <2> QED
    BY <1>4, <2>1, <2>2, <2>5, <2>6, <2>7, <2>9, <2>10, AddRow DEF n
<1> QED
  BY <1>3, <1>4

\* So every task follows the first of its output, as long as there are only reports.
LEMMA ReportedKeeps ==
    ASSUME Shape, Next, Records, Alone => Reported, Alone'
    PROVE  Reported'
<1>1. Alone /\ Reported
  BY DEF Alone, Records
<1>2. \A c \in Conns : conn'[c].pc # "report"
  BY <1>1, NoReportAwaits DEF Alone, Reported
<1>3. /\ up' = up
      /\ \/ local' = local
         \/ \E c \in Conns, t \in Hashes, o \in Outhashes : Report(c, t, o)
         \/ \E m \in Marks, u \in Hashes : GcMark(m, u)
  BY <1>1, LocalSteps DEF Alone, Reported
<1>4. Dated' /\ Follows'
  <2>1. CASE local' = local
    BY <1>1, <1>3, <2>1, SameRows DEF Reported
  <2>2. CASE \E c \in Conns, t \in Hashes, o \in Outhashes : Report(c, t, o)
    BY <1>1, <1>3, <2>2, ReportFollows DEF Alone, Reported
  <2>3. ASSUME NEW m \in Marks, NEW u \in Hashes, GcMark(m, u) PROVE Dated' /\ Follows'
    <3> DEFINE T == {t \in Hashes : Unihash(local, t) = u}
               f == [t \in Hashes |->
                        IF t \in T THEN [local.unihashes[t] EXCEPT !.mark = m]
                        ELSE local.unihashes[t]]
    <3>1. local' = [local EXCEPT !.mark = m, !.unihashes = f]
      BY <2>3 DEF GcMark, Write
    <3>2. \A t \in Hashes : f[t].unihash = local.unihashes[t].unihash
      BY DEF Shape, Db
    <3> HIDE DEF f
    <3>3. local'.outhashes = local.outhashes /\ local'.unihashes = f
      BY <3>1 DEF Shape, Db
    <3> QED
      BY <1>1, <1>3, <3>2, <3>3, SameRows DEF Reported, Unihash
  <2> QED
    BY <1>3, <2>1, <2>2, <2>3
<1> QED
  BY <1>2, <1>4 DEF Reported

\* Two tasks with one output follow the same task.
LEMMA FollowsConverged == (Alone => Reported) => Converged
<1> SUFFICES ASSUME Alone, Reported, NEW o \in Outhashes, NEW s \in Hashes, NEW t \in Hashes,
                    Single(s, o), Single(t, o)
             PROVE  Unihash(local, s) = Unihash(local, t)
  BY DEF Converged, Alone, Agree
<1>1. PICK q \in local.outhashes : q.taskhash = s /\ q.outhash = o
  BY SingleIs
<1>2. PICK r : \A h \in Hashes : Single(h, o) => Unihash(local, h) = Unihash(local, r.taskhash)
  BY <1>1 DEF Reported, Follows
<1> QED
  BY <1>2

-----------------------------------------------------------------------------
(* Theorems *)

\* Shapes, tables, the queue, and where nothing but reports fills the tables.
Inv ==
    /\ Shape /\ ReportStands /\ Marked
    /\ Counted /\ FromUp /\ Awaited /\ Due
    /\ Alone => Reported

\* What is pending when a wait begins are hashes.
LEMMA DueKeeps ==
    ASSUME Shape, Counted, Due, Next
    PROVE  Due'
<1> USE DEF Due, Shape
<1>1. CASE Quiet
  BY <1>1 DEF Quiet, Moves
<1>2. ASSUME NEW c \in Conns, BackfillWait(c) PROVE Due'
  <2>1. conn'[c].due = Pending /\ Pending \subseteq Hashes
    BY <1>2, PendingIs DEF BackfillWait, Idle, Handlers, Counted, Elements
  <2> QED
    BY <1>2, <2>1 DEF BackfillWait, Handlers
<1>3. ASSUME NEW c \in Conns, StreamResumes(c) PROVE Due'
  BY <1>3 DEF StreamResumes, Reply, Idle, Handlers
<1>4. CASE WorkerTakes \/ WorkerAnswered
  BY <1>4 DEF WorkerTakes, WorkerAnswered
<1>5. CASE WorkerInserts
  BY <1>5 DEF WorkerInserts, Release, Handlers
<1>6. CASE ServerEnds
  BY <1>6 DEF ServerEnds, Idle
<1> QED
  BY <1>1, <1>2, <1>3, <1>4, <1>5, <1>6, QuietSteps DEF OfQueue

\* At first the tables and the queue are empty.
LEMMA InitInv == Init => Inv
<1> SUFFICES ASSUME Init PROVE Inv
  OBVIOUS
<1> USE HashEquivAssumption DEF Init
<1>1. Db(Empty) /\ \A t \in Hashes : ~Mapped(Empty, t)
  BY DEF Db, Empty, NoRow, Mapped, Unihash
<1>2. Empty.outhashes = {}
  BY DEF Empty
<1>3. Shape
  BY <1>1 DEF Shape, Handlers, Idle
<1>4. ReportStands /\ Marked
  BY DEF ReportStands, Marked
<1>5. Counted /\ FromUp /\ Awaited /\ Due
  BY DEF Counted, FromUp, Awaited, Due, Idle, Pending
<1>6. Reported
  <2>1. Times = {0}
    BY <1>2 DEF Times
  <2>2. Follows
    BY <1>1, <1>2 DEF Follows
  <2> QED
    BY <2>1, <2>2 DEF Reported, Dated, Idle
<1> QED
  BY <1>3, <1>4, <1>5, <1>6 DEF Inv

\* Every step keeps it.
LEMMA NextInv == Inv /\ [Next]_vars => Inv'
<1>1. ASSUME Inv, Next PROVE Inv'
  <2>1. Kinds /\ Records
    BY <1>1, StepKind, StepRecords DEF Inv
  <2>2. Shape' /\ ReportStands' /\ Marked'
    BY <1>1, <2>1, ShapeKeeps, ToldKeeps, MarkedKeeps DEF Inv
  <2>3. Counted' /\ FromUp' /\ Due'
    BY <1>1, <2>1, CountedKeeps, FromUpKeeps, DueKeeps DEF Inv
  <2>4. Awaited'
    BY <1>1, <2>1, AwaitedKeeps DEF Inv, Due
  <2>5. Alone' => Reported'
    BY <1>1, <2>1, ReportedKeeps DEF Inv
  <2> QED
    BY <2>2, <2>3, <2>4, <2>5 DEF Inv
<1>2. ASSUME Inv, UNCHANGED vars PROVE Inv'
  <2>1. /\ UNCHANGED <<upstream, local, up, conn, backfill, worker, unfinished>>
        /\ UNCHANGED <<told, kept, touched>>
    BY <1>2 DEF vars
  <2>2. Shape' /\ ReportStands' /\ Marked'
    BY <1>2, <2>1 DEF Inv, Shape, ReportStands, Marked
  <2>3. Pending' = Pending
    BY <2>1 DEF Pending
  <2>4. Counted' /\ FromUp' /\ Awaited' /\ Due'
    BY <1>2, <2>1, <2>3 DEF Inv, Counted, FromUp, Awaited, Due
  <2>5. Alone' => Reported'
    BY <1>2, <2>1, SameRows DEF Inv, Alone, Reported
  <2> QED
    BY <2>2, <2>4, <2>5 DEF Inv
<1> QED
  BY <1>1, <1>2

\* The invariant holds in every reachable state.
THEOREM SpecInv == Spec => []Inv
BY InitInv, NextInv, PTL DEF Spec

\* What a report was answered stays the unihash of its task until an administrator
\* removes it, for any number of handlers, reports, resumptions and crashes.
THEOREM SpecReportStands == Spec => []ReportStands
BY SpecInv, PTL DEF Inv

\* Without upstream server, tasks whose only output is the same have one unihash,
\* in whatever order they were reported.
THEOREM SpecConverged == Spec => []Converged
<1>1. Inv => Converged
  BY FollowsConverged DEF Inv
<1> QED
  BY <1>1, SpecInv, PTL

\* A backfill-wait that is answered finds the server's table filled with what the
\* queue held at its call.
THEOREM SpecWaitMeansLocal == Spec => []WaitMeansLocal
<1>1. Inv => WaitMeansLocal
  BY DEF Inv, Awaited, WaitMeansLocal
<1> QED
  BY <1>1, SpecInv, PTL

\* A sweep removes no unihash that was inserted or marked since its mark was set.
THEOREM SpecSweepKeeps == Spec => SweepKeeps
<1>1. Inv /\ [Next]_vars =>
        [local.mark # None /\ local'.mark = None =>
            \A t \in kept : Unihash(local', t) = Unihash(local, t)]_vars
  BY StepKind, SweepStep DEF Inv
<1> QED
  BY <1>1, SpecInv, PTL DEF Spec, SweepKeeps
=============================================================================
