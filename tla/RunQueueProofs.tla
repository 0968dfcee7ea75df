--------------------------- MODULE RunQueueProofs ---------------------------
(*******************************************************************************)
(* Proofs about RunQueue for every task graph, every number of tasks and       *)
(* every setting.  The type of the task bookkeeping, the order of the tasks    *)
(* and the limit on what is counted need the setscene bookkeeping only for     *)
(* the set of running setscene tasks, q.live (IInv).  That a setscene task     *)
(* never runs beside a task whose output it would overwrite, and that what a   *)
(* running task needs is there, rest on what the two queues know of each       *)
(* other (Queues).  That no more runs than is counted rests on both (Workers). *)
(* That -f runs what it was asked for rests on stamps (ForcedOpen).            *)
(* How a build ends rests on the ledger of all that waits, runs and is done    *)
(* (Ledger): with it the queue implements Build.  What a complete build leaves *)
(* on disk rests on the ages of stamps under the hashes tasks will have (Kept).*)
(*******************************************************************************)
EXTENDS RunQueue, TLAPS, FiniteSetTheorems, NaturalsInduction, WellFoundedInduction

-----------------------------------------------------------------------------
(* What the operators of SceneQueue do to q.live: nothing. *)

\* The same setscene tasks run in r as in p.
SameLive(r, p) == "live" \in DOMAIN r /\ r.live = p.live

\* Counting settled setscene tasks (scenequeue_updatecounters) leaves the
\* running ones alone.
LEMMA UpdateCountersLive ==
    ASSUME NEW p, "live" \in DOMAIN p, NEW S
    PROVE  SameLive(UpdateCounters(p, S), p)
BY DEF UpdateCounters, SameLive

\* So does taking in a restored one (sq_task_complete).
LEMMA CompleteLive ==
    ASSUME NEW p, "live" \in DOMAIN p, NEW S
    PROVE  SameLive(SqTaskComplete(p, S), p)
<1> DEFINE r == [p EXCEPT !.covered = @ \cup S]
<1>1. SameLive(r, p)
  BY DEF SameLive
<1>2. SameLive(UpdateCounters(r, S), r)
  BY <1>1, UpdateCountersLive DEF SameLive
<1> QED
  BY <1>1, <1>2 DEF SqTaskComplete, SameLive

\* So does a skipped one (sq_task_skip).
LEMMA SkipLive ==
    ASSUME NEW p, "live" \in DOMAIN p, NEW S
    PROVE  SameLive(SqTaskSkip(p, S), p)
<1> DEFINE r == [p EXCEPT !.running = @ \cup S, !.buildable = @ \cup S]
<1>1. SameLive(r, p)
  BY DEF SameLive
<1>2. SameLive(SqTaskComplete(r, S), r)
  BY <1>1, CompleteLive DEF SameLive
<1> QED
  BY <1>1, <1>2 DEF SqTaskSkip, SameLive

\* So does a failed one, with all it takes along (sq_task_failoutright).
LEMMA FailLive ==
    ASSUME NEW p, "live" \in DOMAIN p, NEW st, NEW S
    PROVE  SameLive(SqTaskFail(p, st, S), p)
<1> DEFINE F == Unavailable(p, st, S)
           r == [p EXCEPT !.running = @ \cup F, !.buildable = @ \cup F,
                          !.notcovered = @ \cup F]
<1>1. SameLive(r, p)
  BY DEF SameLive
<1> HIDE DEF F
<1>2. SameLive(UpdateCounters(r, F), r)
  BY <1>1, UpdateCountersLive DEF SameLive
<1> QED
  BY <1>1, <1>2 DEF SqTaskFail, SameLive, F

\* So does looking at stamps and hashes again (update_scenequeue_data).
LEMMA SceneDataLive ==
    ASSUME NEW p, "live" \in DOMAIN p, NEW st, NEW T, NEW valid
    PROVE  SameLive(UpdateSceneData(p, st, T, valid), p)
<1> DEFINE stamped == {t \in T : SceneStamped(st, t)}
           r == IF stamped = {} THEN p ELSE SqTaskSkip(p, stamped)
<1>1. SameLive(r, p)
  BY SkipLive DEF SameLive
<1> HIDE DEF stamped
<1> QED
  BY <1>1 DEF UpdateSceneData, SameLive, stamped

\* So does letting a deferred setscene task go (task_completeoutright).
LEMMA ReleaseLive ==
    ASSUME NEW p, "live" \in DOMAIN p, NEW st, NEW t, NEW valid
    PROVE  SameLive(ReleaseDeferred(p, st, t, valid), p)
<1>1. \A f, d : SameLive(UpdateSceneData([p EXCEPT !.deferred = f], st, {d}, valid), p)
  <2> TAKE f, d
  <2> DEFINE r == [p EXCEPT !.deferred = f]
  <2>1. SameLive(r, p)
    BY DEF SameLive
  <2> HIDE DEF r
  <2>2. SameLive(UpdateSceneData(r, st, {d}, valid), r)
    BY <2>1, SceneDataLive DEF SameLive
  <2> QED
    BY <2>1, <2>2 DEF SameLive, r
<1> QED
  BY <1>1 DEF ReleaseDeferred, SameLive

\* So does taking an entry out of sq_deferred.
LEMMA UndeferLive ==
    ASSUME NEW p, "live" \in DOMAIN p, NEW t
    PROVE  SameLive(Undefer(p, t), p)
BY DEF Undefer, SameLive

\* Tasks going back into the queue leave the running setscene tasks alone.
LEMMA RequeueLive ==
    ASSUME "live" \in DOMAIN q, NEW M, NEW hash, NEW valid
    PROVE  SameLive(Requeue(M, hash, valid), q)
<1> DEFINE below == (UNION {SqCovered[t] : t \in M}) \ (complete \cup Unskippable)
           q1 == [q EXCEPT !.done = @ \ (M \cup below),
                        !.buildable = @ \ M, !.running = @ \ M, !.outright = @ \ M,
                        !.covered = @ \ M, !.notcovered = @ \ M, !.notneeded = @ \ M,
                        !.stamp = [t \in Setscene |-> IF t \in M THEN hash[t] ELSE @[t]]]
           lost == {t \in M : HardDepsRev[t] \cap q1.notcovered # {}}
           ready == {t \in M : \/ SqRevdeps[t] = {}
                               \/ t \notin lost /\ SqRevdeps[t] \subseteq Settled(q1)}
           q2 == [q1 EXCEPT !.buildable = @ \cup ready,
                            !.deferred = Merge(@, DeferredAfter(M, hash))]
           st == Stamps(files', hash)
           q3 == UpdateSceneData(q2, st, M, valid)
<1>1. SameLive(q1, q)
  BY DEF SameLive
<1> HIDE DEF q1
<1>2. SameLive(q2, q1)
  BY <1>1 DEF SameLive
<1> HIDE DEF q2, st, lost
<1>3. SameLive(q3, q2)
  BY <1>2, SceneDataLive DEF SameLive
<1> HIDE DEF q3
<1>4. SameLive(SqTaskFail(q3, st, lost), q3)
  BY <1>3, FailLive DEF SameLive
<1>5. Requeue(M, hash, valid) = SqTaskFail(q3, st, lost)
  BY DEF Requeue, q1, q2, st, lost, q3
<1> QED
  BY <1>1, <1>2, <1>3, <1>4, <1>5 DEF SameLive

-----------------------------------------------------------------------------
(* The inductive invariant.  ThreadLimit needs to know that q.live is a     *)
(* field of the record q, and DepsFirst that a task is only ever marked     *)
(* buildable when all it depends on is complete.                            *)

\* What may be built needs nothing that is not complete.
BuildableReady == \A t \in buildable : Depends[t] \subseteq complete

\* The inductive invariant of order and limit.
IInv ==
    /\ TaskTypeOK
    /\ "live" \in DOMAIN q
    /\ BuildableReady
    /\ DepsFirst
    /\ ThreadLimit

\* Fewer setscene tasks running count for less.
LEMMA FewerLive ==
    ASSUME NEW S, NEW T, S \subseteq T, T \subseteq Setscene
    PROVE  Cardinality(S) \in Nat /\ Cardinality(T) \in Nat
           /\ Cardinality(S) <= Cardinality(T)
BY GraphAssumption, FS_Subset, FS_CardinalityType DEF GraphAssumption

\* One more setscene task running counts for one at most.
LEMMA OneMoreLive ==
    ASSUME NEW S, S \subseteq Setscene, NEW t \in Setscene
    PROVE  /\ Cardinality(S) \in Nat /\ Cardinality(S \cup {t}) \in Nat
           /\ Cardinality(S \cup {t}) <= Cardinality(S) + 1
BY GraphAssumption, FS_Subset, FS_CardinalityType, FS_AddElement DEF GraphAssumption

-----------------------------------------------------------------------------
\* Nothing runs when a build starts, and only what needs nothing is buildable.
LEMMA InitIInv == Init => IInv
<1> SUFFICES ASSUME Init PROVE IInv
  OBVIOUS
<1> USE GraphAssumption, RunQueueAssumption DEF GraphAssumption, RunQueueAssumption
<1>1. PICK valid \in SUBSET Setscene : q = InitQueue(valid)
  BY DEF Init
<1>2. "live" \in DOMAIN q /\ q.live = {}
  <2> DEFINE q0 == [covered |-> {}, notcovered |-> {}, running |-> {}, live |-> {},
               buildable |-> {s \in Setscene : SqRevdeps[s] = {}},
               done |-> Unskippable \ Setscene,
               needed |-> {}, hdeferred |-> {}, notneeded |-> {}, outright |-> {},
               deferred |-> DeferredAfter(Setscene, InitUni),
               update |-> TRUE,
               stamp |-> [s \in Setscene |-> InitUni[s]]]
  <2>1. "live" \in DOMAIN q0 /\ q0.live = {}
    OBVIOUS
  <2> HIDE DEF q0
  <2>2. SameLive(UpdateSceneData(q0, stamps, Setscene, valid), q0)
    BY <2>1, SceneDataLive
  <2>3. InitQueue(valid) = UpdateSceneData(q0, stamps, Setscene, valid)
    BY DEF InitQueue, q0
  <2> QED
    BY <1>1, <2>1, <2>2, <2>3 DEF SameLive
<1>3. TaskTypeOK
  BY <1>2 DEF Init, TaskTypeOK, Pcs, InFlight
<1>4. BuildableReady /\ DepsFirst
  BY DEF Init, BuildableReady, DepsFirst
<1>5. ThreadLimit
  BY <1>2, FS_EmptySet DEF Init, ThreadLimit
<1> QED
  BY <1>2, <1>3, <1>4, <1>5 DEF IInv

-----------------------------------------------------------------------------
(* One lemma for each group of actions. *)

\* Steps that leave the tasks and the running setscene tasks alone.
LEMMA IdleStep ==
    ASSUME IInv,
           taskVars' = taskVars, SameLive(q', q),
           state' \in {"running", "cleanup", "failed", "complete"}, pc' \in Pcs,
           sqdone' \in BOOLEAN, updated' \subseteq updated, pending' \subseteq Setscene,
           buildStamps' = buildStamps
    PROVE  IInv'
<1>1. "live" \in DOMAIN q' /\ q'.live = q.live
  BY DEF SameLive
<1>2. TaskTypeOK'
  BY <1>1 DEF IInv, TaskTypeOK, taskVars, InFlight
<1>3. BuildableReady' /\ DepsFirst'
  BY DEF IInv, BuildableReady, DepsFirst, taskVars
<1>4. ThreadLimit'
  BY <1>1 DEF IInv, ThreadLimit, taskVars
<1> QED
  BY <1>1, <1>2, <1>3, <1>4 DEF IInv

\* A task becomes complete: what becomes buildable has all it needs.
LEMMA CompleteOutrightStep ==
    ASSUME IInv, NEW t \in Tasks, NEW built, NEW ran,
           TaskCompleteOutright(t, built, ran),
           built = buildable, ran \in {running, running \cup {t}},
           Depends[t] \subseteq complete \/ ran = running
    PROVE  /\ SameLive(q', q)
           /\ {buildable', running', complete'} \subseteq SUBSET Tasks
           /\ BuildableReady' /\ DepsFirst'
<1>1. SameLive(q', q)
  BY ReleaseLive DEF TaskCompleteOutright, IInv
<1>2. RevDeps[t] = {r \in Tasks : t \in Depends[r]}
  BY DEF RevDeps
<1>3. {buildable', running', complete'} \subseteq SUBSET Tasks
  BY <1>2 DEF TaskCompleteOutright, IInv, TaskTypeOK
<1>4. BuildableReady'
  BY <1>2 DEF TaskCompleteOutright, IInv, BuildableReady
<1>5. DepsFirst'
  BY DEF TaskCompleteOutright, IInv, DepsFirst
<1> QED
  BY <1>1, <1>3, <1>4, <1>5

\* A worker's answer about a setscene task: one fewer of them runs.
LEMMA SceneExitStep ==
    ASSUME IInv, NEW t \in Tasks, NEW ok \in BOOLEAN, SceneExit(t, ok)
    PROVE  /\ "live" \in DOMAIN q' /\ q'.live \subseteq q.live
           /\ taskVars' = taskVars
           /\ state' \in {"running", "cleanup", "failed", "complete"}
<1> DEFINE r == IF ok THEN SqTaskComplete(q, {t}) ELSE SqTaskFail(q, stamps, {t})
<1>1. SameLive(r, q)
  BY CompleteLive, FailLive DEF IInv
<1> HIDE DEF r
<1>2. q' = [r EXCEPT !.live = @ \ {t}]
  BY DEF SceneExit, r
<1> QED
  BY <1>1, <1>2 DEF SceneExit, SameLive, IInv, TaskTypeOK, taskVars

\* A worker's answer about a task: one fewer runs, whether it failed or not.
LEMMA TaskExitStep ==
    ASSUME IInv, NEW t \in Tasks, NEW ok \in BOOLEAN, TaskExit(t, ok)
    PROVE  /\ SameLive(q', q)
           /\ {buildable', running', complete', tasksrun', failed'} \subseteq SUBSET Tasks
           /\ BuildableReady' /\ DepsFirst'
           /\ active' \in Int /\ active' <= active
           /\ state' \in {"running", "cleanup", "failed", "complete"}
<1> USE RunQueueAssumption DEF RunQueueAssumption, IInv, TaskTypeOK
<1>1. CASE ok
  <2>1. TaskComplete(t, active, running) /\ state' = state
    BY <1>1 DEF TaskExit
  <2>2. TaskCompleteOutright(t, buildable, running)
    BY <2>1 DEF TaskComplete
  <2>3. /\ SameLive(q', q)
        /\ {buildable', running', complete'} \subseteq SUBSET Tasks
        /\ BuildableReady' /\ DepsFirst'
    BY <2>2, CompleteOutrightStep
  <2> QED
    BY <2>1, <2>3 DEF TaskComplete
<1>2. CASE ~ok
  <2>1. TaskFail(t) /\ UNCHANGED <<q, buildable, running, complete, tasksrun>>
    BY <1>2 DEF TaskExit
  <2> QED
    BY <2>1 DEF TaskFail, SameLive, BuildableReady, DepsFirst
<1> QED
  BY <1>1, <1>2

\* Any answer of a worker keeps the invariant.
LEMMA ExitStep ==
    ASSUME IInv, NEW t \in Tasks, NEW ok \in BOOLEAN, ExitMessage(t, ok)
    PROVE  IInv'
<1>1. pc' = pc /\ sqdone' = sqdone /\ updated' = updated /\ pending' = pending
      /\ DOMAIN buildStamps' \subseteq DOMAIN buildStamps
  BY DEF ExitMessage, Drop, coverVars, hashVars
<1>2. CASE SceneExit(t, ok)
  <2>1. /\ "live" \in DOMAIN q' /\ q'.live \subseteq q.live
        /\ taskVars' = taskVars
        /\ state' \in {"running", "cleanup", "failed", "complete"}
    BY <1>2, SceneExitStep
  <2>2. TaskTypeOK'
    BY <1>1, <2>1 DEF IInv, TaskTypeOK, taskVars, InFlight
  <2>3. BuildableReady' /\ DepsFirst'
    BY <2>1 DEF IInv, BuildableReady, DepsFirst, taskVars
  <2>4. ThreadLimit'
    <3>1. Cardinality(q'.live) <= Cardinality(q.live)
          /\ Cardinality(q'.live) \in Nat /\ Cardinality(q.live) \in Nat
      BY <2>1, FewerLive DEF IInv, TaskTypeOK
    <3> QED
      BY <2>1, <3>1, RunQueueAssumption
      DEF IInv, ThreadLimit, TaskTypeOK, taskVars, RunQueueAssumption
  <2> QED
    BY <2>1, <2>2, <2>3, <2>4 DEF IInv
<1>3. CASE TaskExit(t, ok)
  <2>1. /\ SameLive(q', q)
        /\ {buildable', running', complete', tasksrun', failed'} \subseteq SUBSET Tasks
        /\ BuildableReady' /\ DepsFirst'
        /\ active' \in Int /\ active' <= active
        /\ state' \in {"running", "cleanup", "failed", "complete"}
    BY <1>3, TaskExitStep
  <2>2. TaskTypeOK'
    BY <1>1, <2>1 DEF IInv, TaskTypeOK, InFlight, SameLive
  <2>3. ThreadLimit'
    <3>1. Cardinality(q.live) \in Nat /\ q'.live = q.live
      BY <2>1, FewerLive DEF IInv, TaskTypeOK, SameLive
    <3> QED
      BY <2>1, <3>1, RunQueueAssumption
      DEF IInv, ThreadLimit, TaskTypeOK, RunQueueAssumption
  <2> QED
    BY <2>1, <2>2, <2>3 DEF IInv, SameLive
<1> QED
  BY <1>2, <1>3 DEF ExitMessage

-----------------------------------------------------------------------------
\* The steps between the calls of execute(), and the messages that only queue
\* a new hash.
LEMMA CallStep ==
    ASSUME IInv,
           \/ Call \/ Finish \/ Shutdown \/ ForceShutdown \/ ReadDone
           \/ \E t \in Tasks, h \in Hashes : UniHashMessage(t, h)
           \/ Done \/ UNCHANGED vars
    PROVE  IInv'
<1> USE DEF IInv, TaskTypeOK, Pcs
<1>1. SameLive(q, q)
  BY DEF SameLive
<1>2. CASE Call \/ Finish \/ Shutdown \/ ForceShutdown \/ ReadDone \/ Done \/ UNCHANGED vars
  <2>1. q' = q /\ taskVars' = taskVars /\ sqdone' = sqdone /\ hashVars' = hashVars
        /\ buildStamps' = buildStamps
    BY <1>2 DEF Call, Finish, Shutdown, ForceShutdown, ReadDone, Done, vars
  <2>2. pc' \in Pcs /\ state' \in {"running", "cleanup", "failed", "complete"}
    BY <1>2 DEF Call, Finish, Shutdown, ForceShutdown, ReadDone, Done, vars, Return,
                Verdict
  <2> QED
    BY <1>1, <2>1, <2>2, IdleStep DEF hashVars
<1>3. ASSUME NEW t \in Tasks, NEW h \in Hashes, UniHashMessage(t, h) PROVE IInv'
  <2>1. TaskTypeOK'
    BY <1>3 DEF UniHashMessage, taskVars, InFlight
  <2> QED
    BY <1>3, <2>1 DEF UniHashMessage, BuildableReady, DepsFirst, ThreadLimit, taskVars
<1> QED
  BY <1>2, <1>3

\* Migrations put setscene tasks back into the queue; no task changes.  A
\* task named in failed there is one of those.
LEMMA MigrateStep ==
    ASSUME IInv, Migrate
    PROVE  IInv'
<1> DEFINE queue(hash) ==
             {t \in pending \cup
                     ({d \in DependOn(DOMAIN Rehashed) :
                          hash[d] # Merge(uni, Rehashed)[d]} \cap Setscene) : ~TooLate(t)}
           M(hash) == {t \in queue(hash) : ~Blocked(t)}
           halt(hash) == {t \in M(hash) : NeedsRerun(t)}
           pick(hash) == CHOOSE t \in halt(hash) : TRUE
<1>1. PICK hash \in NewHashes(Rehashed) :
          /\ pending' = queue(hash) \ M(hash)
          /\ failed' = failed \cup (IF halt(hash) = {} THEN {} ELSE {pick(hash)})
          /\ state' = IF halt(hash) = {} THEN state ELSE "cleanup"
          /\ sqdone' = (sqdone /\ (M(hash) = {} \/ halt(hash) # {}))
          /\ \/ q' = q
             \/ \E valid \in SUBSET M(hash) :
                   LET r == IF M(hash) = {} THEN q ELSE Requeue(M(hash), hash, valid)
                   IN  q' = [r EXCEPT !.needed = {}, !.hdeferred = {}, !.update = TRUE]
  BY Zenon DEF Migrate
<1>2. queue(hash) \subseteq Setscene
  BY DEF IInv, TaskTypeOK
<1>3. SameLive(q', q)
  <2>1. CASE q' = q
    BY <2>1 DEF SameLive, IInv
  <2>2. ASSUME NEW valid,
               q' = [(IF M(hash) = {} THEN q ELSE Requeue(M(hash), hash, valid))
                        EXCEPT !.needed = {}, !.hdeferred = {}, !.update = TRUE]
        PROVE  SameLive(q', q)
    <3> DEFINE r == IF M(hash) = {} THEN q ELSE Requeue(M(hash), hash, valid)
    <3>1. SameLive(r, q)
      BY RequeueLive DEF SameLive, IInv
    <3>2. q' = [r EXCEPT !.needed = {}, !.hdeferred = {}, !.update = TRUE]
      BY <2>2
    <3> HIDE DEF r
    <3> QED
      BY <3>1, <3>2 DEF SameLive
  <2> QED
    BY <1>1, <2>1, <2>2
<1>4. failed' \subseteq Tasks
  <2>1. halt(hash) # {} => pick(hash) \in Tasks
    BY <1>2, GraphAssumption DEF GraphAssumption
  <2> HIDE DEF halt, pick
  <2> QED
    BY <1>1, <2>1 DEF IInv, TaskTypeOK
<1>5. pending' \subseteq Setscene /\ sqdone' \in BOOLEAN
      /\ state' \in {"running", "cleanup", "failed", "complete"}
  BY <1>1, <1>2 DEF IInv, TaskTypeOK
<1>6. /\ buildable' = buildable /\ running' = running /\ complete' = complete
      /\ tasksrun' = tasksrun /\ active' = active /\ buildStamps' = buildStamps
      /\ updated' \subseteq updated /\ pc' = "scene"
  BY DEF Migrate
<1>7. TaskTypeOK'
  BY <1>3, <1>4, <1>5, <1>6 DEF IInv, TaskTypeOK, Pcs, InFlight, SameLive
<1>8. BuildableReady' /\ DepsFirst' /\ ThreadLimit'
  BY <1>3, <1>6 DEF IInv, BuildableReady, DepsFirst, ThreadLimit, SameLive
<1> QED
  BY <1>3, <1>7, <1>8 DEF IInv, SameLive

\* The setscene part of execute(): at most one more setscene task runs.
LEMMA SceneStepInv ==
    ASSUME IInv, SceneStep
    PROVE  IInv'
<1> USE DEF IInv, TaskTypeOK, Pcs
<1>1. UNCHANGED <<sqdone, taskVars, coverVars, hashVars, files>>
  BY DEF SceneStep, SceneNotNeeded, SceneHardWait, SceneFail, SceneSkip, SceneStart,
         SceneNone, SceneUnchanged
<1>2. ASSUME NEW t \in Setscene, SceneNotNeeded(t) PROVE IInv'
  <2> DEFINE r == [SqTaskSkip(q, {t}) EXCEPT !.notneeded = @ \cup {t}]
  <2>1. SameLive(r, q)
    BY SkipLive DEF SameLive
  <2> HIDE DEF r
  <2>2. q' = Undefer(r, t)
    BY <1>2 DEF SceneNotNeeded, r
  <2>3. SameLive(q', q)
    BY <2>1, <2>2, UndeferLive DEF SameLive
  <2> QED
    BY <1>1, <1>2, <2>3, IdleStep DEF SceneNotNeeded, Return, hashVars
<1>3. ASSUME NEW t \in Setscene, SceneHardWait(t) PROVE IInv'
  <2>1. SameLive(q', q)
    BY <1>3 DEF SceneHardWait, SameLive
  <2>2. pc' \in Pcs /\ state' = state /\ buildStamps' = buildStamps
    BY <1>3 DEF SceneHardWait, Return, SceneLoop
  <2> QED
    BY <1>1, <2>1, <2>2, IdleStep DEF hashVars
<1>4. ASSUME NEW t \in Setscene, SceneFail(t) \/ SceneSkip(t) PROVE IInv'
  <2>1. SameLive(Undefer(q, t), q)
    BY UndeferLive
  <2>2. SameLive(q', q)
    <3> DEFINE r == Undefer(q, t)
    <3>1. q' \in {SqTaskFail(r, stamps, {t}), SqTaskSkip(r, {t})}
      BY <1>4 DEF SceneFail, SceneSkip
    <3> HIDE DEF r
    <3>2. "live" \in DOMAIN r
      BY <2>1 DEF SameLive, r
    <3>3. SameLive(q', r)
      BY <3>1, <3>2, FailLive, SkipLive
    <3> QED
      BY <2>1, <3>3 DEF SameLive, r
  <2> QED
    BY <1>1, <1>4, <2>2, IdleStep DEF SceneFail, SceneSkip, Return, hashVars
<1>5. ASSUME NEW t \in Setscene, SceneStart(t) PROVE IInv'
  <2>1. "live" \in DOMAIN q' /\ q'.live = q.live \cup {t}
    <3>1. SameLive(Undefer(q, t), q)
      BY UndeferLive
    <3> DEFINE r == Undefer(q, t)
    <3>2. q' = [r EXCEPT !.running = @ \cup {t}, !.live = @ \cup {t}]
      BY <1>5 DEF SceneStart
    <3> HIDE DEF r
    <3> QED
      BY <3>1, <3>2 DEF SameLive, r
  <2>2. active + Cardinality(q.live) < NumberTasks
    BY <1>5 DEF SceneStart, SceneLoop, CanStart
  <2>3. ThreadLimit'
    BY <1>1, <2>1, <2>2, OneMoreLive, RunQueueAssumption
    DEF ThreadLimit, taskVars, RunQueueAssumption
  <2>4. DOMAIN buildStamps' = DOMAIN buildStamps \cup {t}
    BY <1>5 DEF SceneStart, Merge
  <2>5. pc' \in Pcs /\ state' = state
    BY <1>5 DEF SceneStart, Return
  <2>6. TaskTypeOK'
    BY <1>1, <2>1, <2>4, <2>5, GraphAssumption
    DEF GraphAssumption, taskVars, hashVars, InFlight
  <2> QED
    BY <1>1, <2>1, <2>3, <2>6 DEF BuildableReady, DepsFirst, taskVars
<1>6. CASE SceneNone
  BY <1>1, <1>6, IdleStep DEF SceneNone, SameLive, hashVars
<1> QED
  BY <1>2, <1>3, <1>4, <1>5, <1>6 DEF SceneStep

\* The end of the setscene part: tasks become buildable when what they depend
\* on is complete.
LEMMA HoldoffStep ==
    ASSUME IInv, Holdoff
    PROVE  IInv'
<1> USE DEF IInv, TaskTypeOK, Pcs
<1>1. /\ "live" \in DOMAIN q' /\ q'.live = q.live
      /\ buildable' \subseteq
             buildable \cup {t \in Tasks : Depends[t] \subseteq complete}
  <2>1. CASE q.update
    BY <2>1 DEF Holdoff, UpdateHoldoff
  <2>2. CASE ~q.update
    BY <2>2 DEF Holdoff
  <2> QED
    BY <2>1, <2>2
<1>2. /\ UNCHANGED <<running, complete, tasksrun, failed, active, hashVars, files, buildStamps>>
      /\ sqdone' \in BOOLEAN /\ pc' \in Pcs
      /\ state' \in {"running", "cleanup", "failed", "complete"}
  BY DEF Holdoff, Return
<1>3. TaskTypeOK'
  BY <1>1, <1>2 DEF hashVars, InFlight
<1>4. BuildableReady' /\ DepsFirst' /\ ThreadLimit'
  BY <1>1, <1>2 DEF BuildableReady, DepsFirst, ThreadLimit
<1> QED
  BY <1>1, <1>3, <1>4

\* The task part of execute(): a task starts, is skipped or fails.
LEMMA TaskStepInv ==
    ASSUME IInv, TaskStep
    PROVE  IInv'
<1> USE RunQueueAssumption DEF RunQueueAssumption, IInv, TaskTypeOK, Pcs
<1>1. UNCHANGED <<sqdone, hashVars>>
  BY DEF TaskStep, TaskUnexpected, TaskSkip, TaskNoExec, TaskStart, TaskUnchanged,
         Wait, ForceDeferred, Stop
<1>2. \A t \in TaskChoice : t \in buildable /\ Depends[t] \subseteq complete
  BY DEF TaskChoice, Buildable, BuildableReady
<1>3. TaskChoice # {} => active + Cardinality(q.live) < NumberTasks
  BY DEF TaskChoice, CanStart
<1>4. Cardinality(q.live) \in Nat
  BY FewerLive
<1>5. ASSUME NEW t \in Tasks, TaskUnexpected(t) PROVE IInv'
  <2>1. TaskFail(t) /\ pc' = "call"
        /\ UNCHANGED <<q, buildable, running, complete, tasksrun, buildStamps>>
    BY <1>5 DEF TaskUnexpected
  <2>2. active' \in Int /\ active' <= active
    BY <2>1 DEF TaskFail
  <2>3. TaskTypeOK'
    BY <1>1, <2>1, <2>2 DEF TaskFail, hashVars, InFlight
  <2> QED
    BY <1>4, <2>1, <2>2, <2>3 DEF BuildableReady, DepsFirst, ThreadLimit
<1>6. ASSUME NEW t \in Tasks, TaskSkip(t) PROVE IInv'
  <2>1. TaskCompleteOutright(t, buildable, running \cup {t}) /\ Depends[t] \subseteq complete
    BY <1>2, <1>6 DEF TaskSkip
  <2>2. /\ SameLive(q', q)
        /\ {buildable', running', complete'} \subseteq SUBSET Tasks
        /\ BuildableReady' /\ DepsFirst'
    BY <2>1, CompleteOutrightStep
  <2>3. TaskTypeOK'
    BY <1>1, <1>6, <2>2 DEF TaskSkip, Return, hashVars, InFlight, SameLive
  <2> QED
    BY <1>6, <2>2, <2>3 DEF TaskSkip, ThreadLimit, SameLive
<1>7. ASSUME NEW t \in Tasks, TaskNoExec(t) PROVE IInv'
  <2>1. TaskComplete(t, active + 1, running \cup {t}) /\ Depends[t] \subseteq complete
    BY <1>2, <1>7 DEF TaskNoExec
  <2>2. TaskCompleteOutright(t, buildable, running \cup {t}) /\ active' = active
    BY <2>1 DEF TaskComplete
  <2>3. /\ SameLive(q', q)
        /\ {buildable', running', complete'} \subseteq SUBSET Tasks
        /\ BuildableReady' /\ DepsFirst'
    BY <2>1, <2>2, CompleteOutrightStep
  <2>4. TaskTypeOK'
    BY <1>1, <1>7, <2>1, <2>2, <2>3
    DEF TaskNoExec, TaskComplete, Return, hashVars, InFlight, SameLive
  <2> QED
    BY <2>2, <2>3, <2>4 DEF ThreadLimit, SameLive
<1>8. ASSUME NEW t \in Tasks, TaskStart(t) PROVE IInv'
  <2>1. t \in TaskChoice /\ running' = running \cup {t} /\ active' = active + 1
        /\ UNCHANGED <<q, buildable, complete, tasksrun, failed>>
        /\ pc' \in Pcs /\ state' = state
    BY <1>8 DEF TaskStart, Return
  <2>2. DOMAIN buildStamps' = DOMAIN buildStamps \cup {t}
    BY <1>8 DEF TaskStart, Merge
  <2>3. TaskTypeOK'
    BY <1>1, <2>1, <2>2 DEF hashVars, InFlight
  <2>4. BuildableReady' /\ DepsFirst'
    BY <1>2, <2>1 DEF BuildableReady, DepsFirst
  <2>5. ThreadLimit'
    BY <1>3, <1>4, <2>1 DEF ThreadLimit
  <2> QED
    BY <2>1, <2>3, <2>4, <2>5
<1>9. CASE Wait \/ ForceDeferred \/ Stop
  <2>1. SameLive(q', q)
    BY <1>9, UndeferLive DEF Wait, ForceDeferred, Stop, SameLive
  <2>2. /\ taskVars' = taskVars /\ buildStamps' = buildStamps /\ pc' \in Pcs
        /\ state' \in {"running", "cleanup", "failed", "complete"}
    BY <1>9 DEF Wait, ForceDeferred, Stop, Return
  <2> QED
    BY <1>1, <2>1, <2>2, IdleStep DEF hashVars
<1> QED
  BY <1>5, <1>6, <1>7, <1>8, <1>9 DEF TaskStep

-----------------------------------------------------------------------------
\* Every step preserves the inductive invariant.
LEMMA NextIInv == IInv /\ [Next]_vars => IInv'
<1> SUFFICES ASSUME IInv, [Next]_vars PROVE IInv'
  OBVIOUS
<1>1. CASE Server
  BY <1>1, CallStep, MigrateStep, SceneStepInv, HoldoffStep, TaskStepInv DEF Server
<1>2. ASSUME NEW t \in Tasks, NEW ok \in BOOLEAN, ExitMessage(t, ok) PROVE IInv'
  BY <1>2, ExitStep
<1>3. ASSUME NEW t \in Tasks, NEW h \in Hashes, UniHashMessage(t, h) PROVE IInv'
  BY <1>3, CallStep
<1>4. CASE Shutdown \/ ForceShutdown \/ Done \/ UNCHANGED vars
  BY <1>4, CallStep
<1> QED
  BY <1>1, <1>2, <1>3, <1>4 DEF Next

\* The inductive invariant holds in every reachable state.
LEMMA SpecIInv == Spec => []IInv
BY InitIInv, NextIInv, PTL DEF Spec

\* The task bookkeeping holds tasks, the queues of execute() pairs of tasks and
\* hashes, in every build of every task graph.
THEOREM SpecTaskTypeOK == Spec => []TaskTypeOK
<1>1. IInv => TaskTypeOK
  BY DEF IInv
<1> QED
  BY <1>1, SpecIInv, PTL

\* No task is started or skipped before all it depends on is complete, however
\* the answers of the workers, hash changes and setscene tasks interleave.
THEOREM SpecDepsFirst == Spec => []DepsFirst
<1>1. IInv => DepsFirst
  BY DEF IInv
<1> QED
  BY <1>1, SpecIInv, PTL

\* BB_NUMBER_THREADS bounds the tasks and setscene tasks that run together,
\* for every value of it.
THEOREM SpecThreadLimit == Spec => []ThreadLimit
<1>1. IInv => ThreadLimit
  BY DEF IInv
<1> QED
  BY <1>1, SpecIInv, PTL

-----------------------------------------------------------------------------
(* Walks over a finite set: sq_task_fail and build_scenequeue_data.          *)

\* A set of numbers has a least one: they are well-founded.
LEMMA Least ==
    ASSUME NEW T \in SUBSET Nat, T # {}
    PROVE  \E m \in T : \A k \in T : m <= k
<1>1. IsWellFoundedOn(OpToRel(<, Nat), Nat)
  BY NatLessThanWellFounded
<1>2. PICK m \in T : \A k \in T : ~ (<<k, m>> \in OpToRel(<, Nat))
  BY <1>1, WFMin
<1>3. \A k \in T : ~ (k < m)
  BY <1>2 DEF OpToRel
<1> QED BY <1>3

\* Sets that a step does not enlarge.
Closed(T, step) == {C \in SUBSET T : step[C] = C}

\* f takes steps from a set until they add nothing.
Spreads(f, T, step) ==
    f = [Y \in SUBSET T |-> IF step[Y] = Y THEN Y ELSE f[step[Y]]]

\* What every closed set around Y has, for each Y.
Shared(T, step) ==
    [Y \in SUBSET T |->
        {x \in T : \A C \in Closed(T, step) : Y \subseteq C => x \in C}]

\* In a finite set, steps that only add, and add no less to more, end in the least
\* closed set: the recursive walks over the task graph all have this form.
LEMMA Spreading ==
    ASSUME NEW T, IsFiniteSet(T), NEW step \in [SUBSET T -> SUBSET T],
           \A Y \in SUBSET T : Y \subseteq step[Y],
           \A Y, Z \in SUBSET T : Y \subseteq Z => step[Y] \subseteq step[Z],
           NEW X \in SUBSET T
    PROVE  /\ \E f : Spreads(f, T, step)
           /\ \A f : Spreads(f, T, step) =>
                /\ X \subseteq f[X] /\ f[X] \in Closed(T, step)
                /\ \A C \in Closed(T, step) : X \subseteq C => f[X] \subseteq C
<1> DEFINE g == Shared(T, step)
<1>1. \A Y \in SUBSET T : step[Y] \in SUBSET T
  OBVIOUS
<1>2. ASSUME NEW Y \in SUBSET T, step[Y] = Y PROVE g[Y] = Y
  BY <1>2 DEF Shared, Closed
<1>3. ASSUME NEW Y \in SUBSET T PROVE g[Y] = g[step[Y]]
  <2>1. \A C \in Closed(T, step) : Y \subseteq C <=> step[Y] \subseteq C
    BY <1>1 DEF Closed
  <2> QED
    BY <1>1, <2>1 DEF Shared
<1>4. Spreads(g, T, step)
  <2>1. g = [Y \in SUBSET T |-> g[Y]]
    BY DEF Shared
  <2>2. \A Y \in SUBSET T : g[Y] = IF step[Y] = Y THEN Y ELSE g[step[Y]]
    BY <1>2, <1>3
  <2> HIDE DEF g
  <2> QED
    BY <2>1, <2>2 DEF Spreads
<1> SUFFICES ASSUME NEW f, Spreads(f, T, step)
             PROVE  /\ X \subseteq f[X] /\ f[X] \in Closed(T, step)
                    /\ \A C \in Closed(T, step) : X \subseteq C => f[X] \subseteq C
  BY <1>4
<1>5. Spreads(f, T, step)
  OBVIOUS
<1>6. \A Y \in SUBSET T : f[Y] = IF step[Y] = Y THEN Y ELSE f[step[Y]]
  BY <1>5 DEF Spreads
<1> DEFINE bad == {Y \in SUBSET T : f[Y] # g[Y]}
           sizes == {Cardinality(T \ Y) : Y \in bad}
<1>7. bad = {}
  <2> SUFFICES ASSUME bad # {} PROVE FALSE
    OBVIOUS
  <2>1. \A Y \in SUBSET T : IsFiniteSet(T \ Y) /\ Cardinality(T \ Y) \in Nat
    BY FS_Subset, FS_CardinalityType
  <2>2. sizes \in SUBSET Nat /\ sizes # {}
    BY <2>1
  <2>3. PICK m \in sizes : \A k \in sizes : m <= k
    BY <2>2, Least
  <2>4. PICK Y \in bad : m = Cardinality(T \ Y)
    BY <2>3
  <2> HIDE DEF g
  <2>5. f[Y] # g[Y] /\ Y \in SUBSET T
    BY <2>4
  <2>6. step[Y] # Y /\ f[Y] = f[step[Y]]
    BY <1>2, <1>6, <2>5
  <2>7. step[Y] \in bad
    BY <1>1, <1>3, <2>5, <2>6
  <2>8. Cardinality(T \ step[Y]) \in sizes
    BY <2>7
  <2>9. T \ step[Y] \in SUBSET (T \ Y) /\ T \ step[Y] # T \ Y
    BY <1>1, <2>5, <2>6
  <2> DEFINE old == T \ Y
             new == T \ step[Y]
  <2>10. /\ IsFiniteSet(old) /\ Cardinality(old) \in Nat /\ Cardinality(new) \in Nat
    BY <1>1, <2>1, <2>5
  <2>11. Cardinality(old) <= Cardinality(new)
    BY <2>3, <2>4, <2>8
  <2>12. new \in SUBSET old /\ new # old
    BY <2>9
  <2> HIDE DEF old, new
  <2>13. Cardinality(new) <= Cardinality(old) /\ Cardinality(new) # Cardinality(old)
    BY <2>10, <2>12, FS_Subset
  <2> QED
    BY <2>10, <2>11, <2>13
<1>8. f[X] = g[X]
  BY <1>7
<1>9. X \subseteq g[X] /\ g[X] \in SUBSET T
  BY DEF Shared
<1>10. \A C \in Closed(T, step) : X \subseteq C => g[X] \subseteq C
  BY DEF Shared
<1>11. step[g[X]] = g[X]
  <2>1. \A C \in Closed(T, step) : X \subseteq C => step[g[X]] \subseteq C
    BY <1>9, <1>10 DEF Closed
  <2>2. step[g[X]] \subseteq T
    BY <1>1, <1>9
  <2>3. step[g[X]] \subseteq g[X]
    BY <2>1, <2>2 DEF Shared
  <2> QED
    BY <1>9, <2>3
<1>12. g[X] \in Closed(T, step)
  BY <1>9, <1>11 DEF Closed
<1> HIDE DEF g
<1> QED
  BY <1>8, <1>9, <1>10, <1>12

\* Exposed(X) holds X and, of those that are no setscene tasks, what they depend on.
LEMMA ExposedClosed ==
    ASSUME NEW X \in SUBSET Tasks
    PROVE  /\ X \subseteq Exposed(X) /\ Exposed(X) \subseteq Tasks
           /\ \A t \in Exposed(X) \ Setscene : Depends[t] \subseteq Exposed(X)
<1> DEFINE more(Y) == Y \cup UNION {Depends[t] : t \in Y \ Setscene}
           step == [Y \in SUBSET Tasks |-> more(Y)]
           Walk(f) == f = [Y \in SUBSET Tasks |-> IF more(Y) = Y THEN Y ELSE f[more(Y)]]
           end == (CHOOSE f : Walk(f))[X]
<1>1. IsFiniteSet(Tasks) /\ Depends \in [Tasks -> SUBSET Tasks]
  BY GraphAssumption DEF GraphAssumption
<1>2. \A Y \in SUBSET Tasks : more(Y) \in SUBSET Tasks /\ Y \subseteq more(Y)
  BY <1>1
<1>3. \A Y, Z \in SUBSET Tasks : Y \subseteq Z => more(Y) \subseteq more(Z)
  BY <1>1
<1>4. Exposed(X) = end
  BY DEF Exposed
<1>5. \A C \in SUBSET Tasks : more(C) = C => \A t \in C \ Setscene : Depends[t] \subseteq C
  OBVIOUS
<1> HIDE DEF more
<1>6. \A Y \in SUBSET Tasks : step[Y] = more(Y)
  OBVIOUS
<1>7. step \in [SUBSET Tasks -> SUBSET Tasks]
  BY <1>2
<1>8. ASSUME NEW f PROVE Walk(f) <=> Spreads(f, Tasks, step)
  <2>1. [Y \in SUBSET Tasks |-> IF more(Y) = Y THEN Y ELSE f[more(Y)]]
        = [Y \in SUBSET Tasks |-> IF step[Y] = Y THEN Y ELSE f[step[Y]]]
    BY <1>6
  <2> QED
    BY <2>1 DEF Spreads
<1> HIDE DEF step, Walk
<1>9. /\ \E f : Spreads(f, Tasks, step)
      /\ \A f : Spreads(f, Tasks, step) => X \subseteq f[X] /\ f[X] \in Closed(Tasks, step)
  <2>1. \A Y \in SUBSET Tasks : Y \subseteq step[Y]
    BY <1>2, <1>6
  <2>2. \A Y, Z \in SUBSET Tasks : Y \subseteq Z => step[Y] \subseteq step[Z]
    BY <1>3, <1>6
  <2> QED
    BY <1>1, <1>7, <2>1, <2>2, Spreading
<1>10. X \subseteq end /\ end \in Closed(Tasks, step)
  BY <1>8, <1>9
<1> QED
  BY <1>4, <1>5, <1>6, <1>10 DEF Closed

\* What is left to build when setscene task s is restored reaches down to the
\* setscene tasks below it, and what cannot be skipped reaches as far.
LEMMA CoveredClosed ==
    /\ \A s \in Setscene :
          /\ SqCovered[s] \subseteq Tasks \ Setscene
          /\ Depends[s] \ Setscene \subseteq SqCovered[s]
          /\ \A t \in SqCovered[s] : Depends[t] \ Setscene \subseteq SqCovered[s]
    /\ Cantskip \subseteq Unskippable /\ Unskippable \subseteq Tasks
    /\ \A t \in Unskippable \ Setscene : Depends[t] \subseteq Unskippable
<1> USE GraphAssumption DEF GraphAssumption
<1>1. ASSUME NEW s \in Setscene
      PROVE  /\ SqCovered[s] \subseteq Tasks \ Setscene
             /\ Depends[s] \ Setscene \subseteq SqCovered[s]
             /\ \A t \in SqCovered[s] : Depends[t] \ Setscene \subseteq SqCovered[s]
  <2>1. Depends[s] \in SUBSET Tasks
    OBVIOUS
  <2>2. SqCovered[s] = Exposed(Depends[s]) \ Setscene
    BY DEF SqCovered
  <2> QED
    BY <2>1, <2>2, ExposedClosed
<1>2. {t \in Tasks : RevDeps[t] = {}} \cup Cantskip \in SUBSET Tasks
  BY DEF Cantskip
<1> QED
  BY <1>1, <1>2, ExposedClosed DEF Unskippable

-----------------------------------------------------------------------------
(* What the operators of SceneQueue do to the settled setscene tasks.       *)

\* No setscene task names another in its [depends] flag: sq_harddeps is empty.
NoHardDeps == \A s \in Setscene : HardDepsRev[s] = {}

\* A failure takes along none but unsettled tasks, and none at all if there
\* are no dependencies between setscene tasks (the walk of sq_task_fail).
LEMMA UnavailableOpen ==
    ASSUME NEW p, NEW st, NEW S \in SUBSET Setscene
    PROVE  /\ S \subseteq Unavailable(p, st, S)
           /\ Unavailable(p, st, S) \subseteq S \cup (Setscene \ Settled(p))
           /\ NoHardDeps => Unavailable(p, st, S) \subseteq S
<1> DEFINE open(d) == d \notin Settled(p) /\ ~SceneStamped(st, d)
           more(F) == F \cup {d \in UNION {HardDeps[f] : f \in F} : open(d)}
           step == [F \in SUBSET Setscene |-> more(F)]
           Walk(f) == f = [F \in SUBSET Setscene |-> IF more(F) = F THEN F ELSE f[more(F)]]
           end == (CHOOSE f : Walk(f))[S]
           C == S \cup (Setscene \ Settled(p))
<1>1. IsFiniteSet(Setscene)
  BY GraphAssumption, FS_Subset DEF GraphAssumption
<1>2. \A f \in Setscene : HardDeps[f] \subseteq Setscene
  BY DEF HardDeps
<1>3. Unavailable(p, st, S) = end
  BY DEF Unavailable
<1>4. C \in SUBSET Setscene /\ S \subseteq C /\ more(C) = C
  BY <1>2
<1>5. NoHardDeps => more(S) = S
  <2>1. NoHardDeps => \A f \in S : HardDeps[f] = {}
    BY DEF HardDeps, NoHardDeps
  <2> QED
    BY <2>1
<1> HIDE DEF open
<1>6. \A F \in SUBSET Setscene : more(F) \in SUBSET Setscene /\ F \subseteq more(F)
  BY <1>2
<1>7. \A F, G \in SUBSET Setscene : F \subseteq G => more(F) \subseteq more(G)
  OBVIOUS
<1> HIDE DEF more
<1>8. \A F \in SUBSET Setscene : step[F] = more(F)
  OBVIOUS
<1>9. step \in [SUBSET Setscene -> SUBSET Setscene]
  BY <1>6
<1>10. ASSUME NEW f PROVE Walk(f) <=> Spreads(f, Setscene, step)
  <2>1. [F \in SUBSET Setscene |-> IF more(F) = F THEN F ELSE f[more(F)]]
        = [F \in SUBSET Setscene |-> IF step[F] = F THEN F ELSE f[step[F]]]
    BY <1>8
  <2> QED
    BY <2>1 DEF Spreads
<1> HIDE DEF step, Walk, C
<1>11. /\ \E f : Spreads(f, Setscene, step)
       /\ \A f : Spreads(f, Setscene, step) =>
             /\ S \subseteq f[S]
             /\ \A D \in Closed(Setscene, step) : S \subseteq D => f[S] \subseteq D
  <2>1. \A F \in SUBSET Setscene : F \subseteq step[F]
    BY <1>6, <1>8
  <2>2. \A F, G \in SUBSET Setscene : F \subseteq G => step[F] \subseteq step[G]
    BY <1>7, <1>8
  <2> QED
    BY <1>1, <1>9, <2>1, <2>2, Spreading
<1>12. /\ S \subseteq end
       /\ \A D \in Closed(Setscene, step) : S \subseteq D => end \subseteq D
  BY <1>10, <1>11
<1>13. end \subseteq C
  BY <1>4, <1>8, <1>12 DEF Closed
<1>14. NoHardDeps => end \subseteq S
  BY <1>5, <1>8, <1>12 DEF Closed
<1> QED
  BY <1>3, <1>12, <1>13, <1>14 DEF C

\* The fields the rest is about.
Fields == {"covered", "notcovered", "running", "live", "deferred", "update"}

\* r is p with more tasks settled, which are no longer up for choice then: C may
\* be among the restored ones now; of the restored ones none but N fails, and
\* nothing else does if no setscene task depends on another.
Moved(r, p, C, N) ==
    /\ Fields \subseteq DOMAIN r
    /\ r.live = p.live
    /\ p.covered \subseteq r.covered /\ r.covered \subseteq p.covered \cup C
    /\ p.notcovered \subseteq r.notcovered
    /\ r.notcovered \subseteq p.notcovered \cup Setscene
    /\ r.notcovered \cap p.covered \subseteq p.notcovered \cup N
    /\ NoHardDeps => r.notcovered \subseteq p.notcovered \cup N
    /\ p.running \subseteq r.running
    /\ Settled(r) \subseteq r.running \cup Settled(p)
    /\ DOMAIN r.deferred \subseteq DOMAIN p.deferred
    /\ p.update => r.update
    /\ r.update \/ (r.covered = p.covered /\ r.notcovered = p.notcovered)

\* Such steps compose.
LEMMA MovedTrans ==
    ASSUME NEW o, NEW p, NEW r, NEW A, NEW B, NEW C, NEW D, NEW E, NEW F,
           Moved(p, o, A, B), Moved(r, p, C, D), A \cup C \subseteq E, B \cup D \subseteq F
    PROVE  Moved(r, o, E, F)
BY DEF Moved, Settled

\* They may restore fewer than they may.
LEMMA MovedMore ==
    ASSUME NEW p, NEW r, NEW C, NEW N, NEW D, Moved(r, p, C, N), C \subseteq D
    PROVE  Moved(r, p, D, N)
BY DEF Moved

\* r is p but for what became buildable or was processed.
Counted(r, p) ==
    /\ Fields \subseteq DOMAIN r
    /\ r.live = p.live /\ r.covered = p.covered /\ r.notcovered = p.notcovered
    /\ r.running = p.running /\ r.deferred = p.deferred /\ r.update = TRUE

\* Counting settled setscene tasks settles none.
LEMMA CountersSame ==
    ASSUME NEW p, Fields \subseteq DOMAIN p, NEW S
    PROVE  Counted(UpdateCounters(p, S), p)
BY DEF UpdateCounters, Counted, Fields

\* Taking in a restored setscene task settles that one.
LEMMA CompleteMoved ==
    ASSUME NEW p, Fields \subseteq DOMAIN p, NEW S, S \subseteq p.running
    PROVE  Moved(SqTaskComplete(p, S), p, S, {})
<1> DEFINE r == [p EXCEPT !.covered = @ \cup S]
           u == UpdateCounters(r, S)
<1>1. /\ DOMAIN r = DOMAIN p
      /\ r.live = p.live /\ r.covered = p.covered \cup S /\ r.notcovered = p.notcovered
      /\ r.running = p.running /\ r.deferred = p.deferred
  BY DEF Fields
<1>2. SqTaskComplete(p, S) = u
  BY DEF SqTaskComplete
<1> HIDE DEF r
<1>3. /\ Fields \subseteq DOMAIN u
      /\ u.live = p.live /\ u.covered = p.covered \cup S /\ u.notcovered = p.notcovered
      /\ u.running = p.running /\ u.deferred = p.deferred /\ u.update = TRUE
  <2>1. Counted(u, r)
    BY <1>1, CountersSame
  <2> QED
    BY <1>1, <2>1 DEF Counted
<1> HIDE DEF u
<1> QED
  BY <1>2, <1>3 DEF Moved, Settled

\* Skipping one settles that one.
LEMMA SkipMoved ==
    ASSUME NEW p, Fields \subseteq DOMAIN p, NEW S
    PROVE  Moved(SqTaskSkip(p, S), p, S, {})
<1> DEFINE r == [p EXCEPT !.running = @ \cup S, !.buildable = @ \cup S]
<1>1. /\ DOMAIN r = DOMAIN p
      /\ r.live = p.live /\ r.covered = p.covered /\ r.notcovered = p.notcovered
      /\ r.running = p.running \cup S /\ r.deferred = p.deferred /\ r.update = p.update
  BY DEF Fields
<1>2. SqTaskSkip(p, S) = SqTaskComplete(r, S)
  BY DEF SqTaskSkip
<1> HIDE DEF r
<1>3. Moved(r, p, {}, {})
  BY <1>1 DEF Moved, Settled
<1>4. Moved(SqTaskComplete(r, S), r, S, {})
  BY <1>1, CompleteMoved
<1> QED
  BY <1>2, <1>3, <1>4, MovedTrans

\* A failure settles the failed tasks, and what it makes unavailable.
LEMMA FailMoved ==
    ASSUME NEW p, Fields \subseteq DOMAIN p, NEW st, NEW S \in SUBSET Setscene
    PROVE  Moved(SqTaskFail(p, st, S), p, {}, S)
<1> DEFINE F == Unavailable(p, st, S)
           r == [p EXCEPT !.running = @ \cup F, !.buildable = @ \cup F,
                          !.notcovered = @ \cup F]
           u == UpdateCounters(r, F)
<1>1. F \subseteq S \cup (Setscene \ Settled(p)) /\ (NoHardDeps => F \subseteq S)
  BY UnavailableOpen
<1>2. SqTaskFail(p, st, S) = u
  BY DEF SqTaskFail
<1> HIDE DEF F
<1>3. /\ DOMAIN r = DOMAIN p
      /\ r.live = p.live /\ r.covered = p.covered /\ r.notcovered = p.notcovered \cup F
      /\ r.running = p.running \cup F /\ r.deferred = p.deferred
  BY DEF Fields
<1> HIDE DEF r
<1>4. /\ Fields \subseteq DOMAIN u
      /\ u.live = p.live /\ u.covered = p.covered /\ u.notcovered = p.notcovered \cup F
      /\ u.running = p.running \cup F /\ u.deferred = p.deferred /\ u.update = TRUE
  <2>1. Counted(u, r)
    BY <1>3, CountersSame
  <2> QED
    BY <1>3, <2>1 DEF Counted
<1> HIDE DEF u
<1> QED
  BY <1>1, <1>2, <1>4 DEF Moved, Settled

\* update_scenequeue_data settles those with a stamp of the tasks it looks at.
LEMMA SceneDataMoved ==
    ASSUME NEW p, Fields \subseteq DOMAIN p, NEW st, NEW T, NEW valid
    PROVE  Moved(UpdateSceneData(p, st, T, valid), p, {t \in T : SceneStamped(st, t)}, {})
<1> DEFINE stamped == {t \in T : SceneStamped(st, t)}
           r == IF stamped = {} THEN p ELSE SqTaskSkip(p, stamped)
           u == UpdateSceneData(p, st, T, valid)
<1>1. Moved(p, p, stamped, {})
  BY DEF Moved, Settled
<1>2. Moved(SqTaskSkip(p, stamped), p, stamped, {})
  BY SkipMoved
<1> HIDE DEF stamped
<1>3. Moved(r, p, stamped, {})
  BY <1>1, <1>2
<1> HIDE DEF r
<1>4. u = [r EXCEPT !.outright =
            (@ \ T) \cup {t \in T \ (valid \cup stamped) :
                             t \notin Settled(r) \cup DOMAIN r.deferred}]
  BY DEF UpdateSceneData, r, stamped
<1> HIDE DEF u
<1>5. /\ DOMAIN u = DOMAIN r
      /\ u.live = r.live /\ u.covered = r.covered /\ u.notcovered = r.notcovered
      /\ u.running = r.running /\ u.deferred = r.deferred /\ u.update = r.update
  BY <1>3, <1>4 DEF Moved, Fields
<1>6. Moved(u, p, stamped, {})
  BY <1>3, <1>5 DEF Moved, Settled
<1> QED
  BY <1>6 DEF u, stamped

\* Letting deferred duplicates go settles none.
LEMMA DeferredMoved ==
    ASSUME NEW p, Fields \subseteq DOMAIN p, NEW f, DOMAIN f \subseteq DOMAIN p.deferred
    PROVE  Moved([p EXCEPT !.deferred = f], p, {}, {})
<1> DEFINE r == [p EXCEPT !.deferred = f]
<1>1. /\ DOMAIN r = DOMAIN p
      /\ r.live = p.live /\ r.covered = p.covered /\ r.notcovered = p.notcovered
      /\ r.running = p.running /\ r.deferred = f /\ r.update = p.update
  BY DEF Fields
<1> HIDE DEF r
<1>2. Moved(r, p, {}, {})
  BY <1>1 DEF Moved, Settled
<1> QED
  BY <1>2 DEF r

\* Letting go the duplicate of a completed task settles at most a deferred one,
\* which has a stamp then.
LEMMA ReleaseMoved ==
    ASSUME NEW p, Fields \subseteq DOMAIN p, NEW st, NEW t, NEW valid
    PROVE  Moved(ReleaseDeferred(p, st, t, valid), p,
                 {d \in DOMAIN p.deferred : SceneStamped(st, d)}, {})
<1> DEFINE D == {d \in DOMAIN p.deferred : SceneStamped(st, d)}
           waiting == {d \in DOMAIN p.deferred : p.deferred[d] = t}
           found == CHOOSE d \in waiting : TRUE
           after == [d \in DOMAIN p.deferred \ {found} |->
                        IF d \in waiting THEN found ELSE p.deferred[d]]
           r == [p EXCEPT !.deferred = after]
<1>1. Moved(p, p, D, {})
  BY DEF Moved, Settled
<1>2. CASE waiting = {}
  BY <1>1, <1>2 DEF ReleaseDeferred
<1>3. CASE waiting # {}
  <2>1. ReleaseDeferred(p, st, t, valid) = UpdateSceneData(r, st, {found}, valid)
    BY <1>3 DEF ReleaseDeferred
  <2>2. found \in DOMAIN p.deferred
    BY <1>3
  <2>3. DOMAIN after \subseteq DOMAIN p.deferred
    OBVIOUS
  <2> HIDE DEF after, found
  <2>4. Moved(r, p, {}, {})
    BY <2>3, DeferredMoved
  <2> HIDE DEF r
  <2> DEFINE F == {d \in {found} : SceneStamped(st, d)}
  <2>5. F \subseteq D
    BY <2>2
  <2>6. Moved(UpdateSceneData(r, st, {found}, valid), r, F, {})
    BY <2>4, SceneDataMoved DEF Moved
  <2> HIDE DEF F, D
  <2> QED
    BY <2>1, <2>4, <2>5, <2>6, MovedTrans DEF D
<1> QED
  BY <1>2, <1>3

\* A task that is taken up is no longer deferred.
LEMMA UndeferMoved ==
    ASSUME NEW p, Fields \subseteq DOMAIN p, NEW t
    PROVE  Moved(Undefer(p, t), p, {}, {}) /\ t \notin DOMAIN Undefer(p, t).deferred
<1> DEFINE f == [d \in DOMAIN p.deferred \ {t} |-> p.deferred[d]]
<1>1. Undefer(p, t) = [p EXCEPT !.deferred = f]
  BY DEF Undefer
<1>2. DOMAIN f \subseteq DOMAIN p.deferred /\ t \notin DOMAIN f
  OBVIOUS
<1> HIDE DEF f
<1>3. [p EXCEPT !.deferred = f].deferred = f
  BY DEF Fields
<1> QED
  BY <1>1, <1>2, <1>3, DeferredMoved

\* r is q with the tasks M back in the queue, of which C are restored already.
Reopened(r, M, C) ==
    /\ Fields \subseteq DOMAIN r
    /\ r.live = q.live
    /\ q.covered \ M \subseteq r.covered /\ r.covered \subseteq (q.covered \ M) \cup C
    /\ q.notcovered \ M \subseteq r.notcovered
    /\ r.notcovered \subseteq q.notcovered \cup Setscene
    /\ (r.notcovered \cap q.covered) \ M \subseteq q.notcovered
    /\ NoHardDeps => r.notcovered \subseteq q.notcovered \ M
    /\ q.running \ M \subseteq r.running
    /\ Settled(q) \subseteq q.running => Settled(r) \subseteq r.running
    /\ DOMAIN r.deferred \subseteq DOMAIN q.deferred \cup M

\* process_possible_migrations reopens the migrated tasks, and no others.
LEMMA RequeueMoved ==
    ASSUME Fields \subseteq DOMAIN q, NEW M \in SUBSET Setscene, NEW hash, NEW valid
    PROVE  /\ Reopened(Requeue(M, hash, valid), M,
                       {t \in M : SceneStamped(Stamps(files', hash), t)})
           /\ DOMAIN Requeue(M, hash, valid).deferred
                 \subseteq DOMAIN q.deferred \cup DOMAIN DeferredAfter(M, hash)
<1> DEFINE below == (UNION {SqCovered[t] : t \in M}) \ (complete \cup Unskippable)
           q1 == [q EXCEPT !.done = @ \ (M \cup below),
                        !.buildable = @ \ M, !.running = @ \ M, !.outright = @ \ M,
                        !.covered = @ \ M, !.notcovered = @ \ M, !.notneeded = @ \ M,
                        !.stamp = [t \in Setscene |-> IF t \in M THEN hash[t] ELSE @[t]]]
           lost == {t \in M : HardDepsRev[t] \cap q1.notcovered # {}}
           ready == {t \in M : \/ SqRevdeps[t] = {}
                               \/ t \notin lost /\ SqRevdeps[t] \subseteq Settled(q1)}
           again == DeferredAfter(M, hash)
           q2 == [q1 EXCEPT !.buildable = @ \cup ready,
                            !.deferred = Merge(@, again)]
           st == Stamps(files', hash)
           q3 == UpdateSceneData(q2, st, M, valid)
           C == {t \in M : SceneStamped(Stamps(files', hash), t)}
<1>1. /\ DOMAIN q1 = DOMAIN q
      /\ q1.live = q.live /\ q1.covered = q.covered \ M
      /\ q1.notcovered = q.notcovered \ M
      /\ q1.running = q.running \ M /\ q1.deferred = q.deferred
  BY DEF Fields
<1>2. Requeue(M, hash, valid) = SqTaskFail(q3, st, lost)
  BY DEF Requeue
<1>3. lost \subseteq M /\ (NoHardDeps => lost = {})
  BY DEF NoHardDeps
<1>4. DOMAIN again \subseteq M
  BY DEF DeferredAfter
<1> HIDE DEF q1, lost, ready, st, again
<1>5. /\ DOMAIN q2 = DOMAIN q
      /\ q2.live = q.live /\ q2.covered = q.covered \ M
      /\ q2.notcovered = q.notcovered \ M
      /\ q2.running = q.running \ M /\ q2.deferred = Merge(q.deferred, again)
  BY <1>1 DEF Fields
<1> HIDE DEF q2
<1>6. /\ DOMAIN q2.deferred = DOMAIN q.deferred \cup DOMAIN again
      /\ DOMAIN q2.deferred \subseteq DOMAIN q.deferred \cup M
  BY <1>4, <1>5 DEF Merge
<1>7. Moved(q3, q2, C, {})
  BY <1>5, SceneDataMoved DEF st
<1> HIDE DEF C
<1> HIDE DEF q3
<1>8. Moved(SqTaskFail(q3, st, lost), q3, {}, lost)
  BY <1>3, <1>7, FailMoved DEF Moved
<1>9. Moved(SqTaskFail(q3, st, lost), q2, C, lost)
  BY <1>7, <1>8, MovedTrans
<1> DEFINE r == SqTaskFail(q3, st, lost)
<1> HIDE DEF r
<1>10. Moved(r, q2, C, lost)
  BY <1>9 DEF r
<1>11. Reopened(r, M, C)
  BY <1>3, <1>5, <1>6, <1>10 DEF Moved, Reopened, Settled
<1>12. DOMAIN r.deferred \subseteq DOMAIN q.deferred \cup DOMAIN again
  BY <1>6, <1>10 DEF Moved
<1> QED
  BY <1>2, <1>11, <1>12 DEF r, C, again

-----------------------------------------------------------------------------
(* The inductive invariant of the two queues.                              *)

\* Setscene tasks that are settled or run have had their turn.
Turns ==
    /\ Fields \subseteq DOMAIN q
    /\ Settled(q) \cup q.live \subseteq q.running
    /\ q.live \cup Settled(q) \cup DOMAIN q.deferred \subseteq Setscene

\* A task that has started has no setscene task to come, is complete only if it
\* started, and is what a worker runs unless that is a setscene task.
Started ==
    /\ running \cap Setscene \subseteq Settled(q)
    /\ complete \subseteq running
    /\ InFlight \subseteq running \cup q.live

\* holdoff_tasks is up to date, or is about to be: no task is started that an
\* unsettled setscene task stands for.
HeldOff ==
    /\ \/ q.update
       \/ \A s \in Setscene \ Settled(q) :
             {s} \cup SqCovered[s] \subseteq holdoff \cup complete
    /\ pc = "tasks" => ~q.update

\* A setscene task whose outcome still counts runs alone.
OpenExclusive ==
    \A s \in q.live \ Settled(q) : s \notin running /\ RunningNow(SqCovered[s]) = {}

\* A setscene task that runs is not restored yet and no duplicate that waits.  If
\* none names dependencies, it has not failed either.
LiveOpen ==
    /\ q.live \cap (q.covered \cup DOMAIN q.deferred) = {}
    /\ NoHardDeps => q.live \cap q.notcovered = {}

\* If none names dependencies, what failed is not restored, now or later.
FailedForGood ==
    NoHardDeps => q.notcovered \cap (q.covered \cup DOMAIN q.deferred) = {}

\* Something needs task t itself, or a setscene task that failed.
Wanted(t) ==
    \/ t \in Unskippable
    \/ \E s \in q.notcovered : t \in SqCovered[s]

\* A task to be passed over is restored, or nothing needs it.  One that is not,
\* failed to be restored or is needed.
Marked ==
    ~q.update =>
        /\ \A t \in covered : IF t \in Setscene THEN t \in q.covered ELSE ~Wanted(t)
        /\ \A t \in notcovered : IF t \in Setscene THEN t \in q.notcovered ELSE Wanted(t)

\* A task was passed over for good: it is restored, or all that stand for it are.
PassedFor(p, t) ==
    IF t \in Setscene
    THEN t \in p.covered
    ELSE /\ t \notin Unskippable
         /\ \A s \in Setscene : t \in SqCovered[s] => s \in p.covered \ p.notcovered

\* A complete task ran or was passed over for good.
PassedOver == \A t \in complete \ tasksrun : PassedFor(q, t)

\* What a running task needs was run or found built, or the setscene queue is done
\* with it: what InputsPresent says, but for what was held not to be needed.
InputsMet ==
    \A t \in InFlight \ q.live : \A d \in Depends[t] : d \in tasksrun \/ d \in q.covered

\* The inductive invariant of what the two queues know of each other.
Queues ==
    /\ Turns /\ Started /\ HeldOff /\ OpenExclusive /\ LiveOpen /\ FailedForGood
    /\ Marked /\ PassedOver /\ InputsMet

\* When a build starts, what is restored already is settled, and nothing runs.
LEMMA InitSettled ==
    ASSUME Init
    PROVE  /\ Fields \subseteq DOMAIN q /\ q.live = {} /\ q.update
           /\ Settled(q) \subseteq q.running \cap Setscene
           /\ DOMAIN q.deferred \subseteq Setscene /\ (NoHardDeps => q.notcovered = {})
<1>1. PICK valid \in SUBSET Setscene : q = InitQueue(valid)
  BY DEF Init
<1> DEFINE q0 == [covered |-> {}, notcovered |-> {}, running |-> {}, live |-> {},
               buildable |-> {s \in Setscene : SqRevdeps[s] = {}},
               done |-> Unskippable \ Setscene,
               needed |-> {}, hdeferred |-> {}, notneeded |-> {}, outright |-> {},
               deferred |-> DeferredAfter(Setscene, InitUni),
               update |-> TRUE,
               stamp |-> [s \in Setscene |-> InitUni[s]]]
<1>2. /\ Fields \subseteq DOMAIN q0 /\ q0.live = {} /\ q0.update = TRUE
      /\ q0.covered = {} /\ q0.notcovered = {} /\ DOMAIN q0.deferred \subseteq Setscene
  BY DEF Fields, DeferredAfter
<1>3. InitQueue(valid) = UpdateSceneData(q0, stamps, Setscene, valid)
  BY DEF InitQueue
<1> HIDE DEF q0
<1>4. Moved(q, q0, Setscene, {})
  <2>1. Moved(q, q0, {t \in Setscene : SceneStamped(stamps, t)}, {})
    BY <1>1, <1>2, <1>3, SceneDataMoved
  <2> QED
    BY <2>1, MovedMore
<1> QED
  BY <1>2, <1>4 DEF Moved, Settled

\* The queues start with nothing running or complete.
LEMMA InitQueues ==
    ASSUME Init
    PROVE  Queues
<1>1. /\ Fields \subseteq DOMAIN q /\ q.live = {} /\ q.update
      /\ Settled(q) \subseteq q.running \cap Setscene
      /\ DOMAIN q.deferred \subseteq Setscene /\ (NoHardDeps => q.notcovered = {})
  BY InitSettled
<1>2. running = {} /\ complete = {} /\ InFlight = {} /\ pc = "call"
  BY DEF Init, InFlight
<1>3. Turns /\ Started /\ HeldOff /\ OpenExclusive
  BY <1>1, <1>2 DEF Turns, Started, HeldOff, OpenExclusive
<1>4. LiveOpen /\ FailedForGood
  BY <1>1 DEF LiveOpen, FailedForGood
<1>5. Marked /\ PassedOver /\ InputsMet
  BY <1>1, <1>2 DEF Marked, PassedOver, InputsMet
<1> QED
  BY <1>3, <1>4, <1>5 DEF Queues

\* What was passed over for good stays so while no restored task fails.
LEMMA PassedMoved ==
    ASSUME NEW p, NEW r, NEW C, NEW N, Moved(r, p, C, N), N \cap p.covered = {},
           NEW t, PassedFor(p, t)
    PROVE  PassedFor(r, t)
BY DEF Moved, PassedFor

\* Steps that restore some of C and fail N, none of which runs, and leave the
\* tasks alone, but for those that end.
LEMMA MovedQueues ==
    ASSUME Queues, NEW C \in SUBSET Setscene, NEW N \in SUBSET Setscene,
           Moved(q', q, C, N), (C \cup N) \cap q.live = {},
           N \cap (Settled(q) \cup C \cup DOMAIN q'.deferred) = {},
           NoHardDeps => C \cap q.notcovered = {},
           running' = running, complete' = complete, coverVars' = coverVars,
           tasksrun' = tasksrun, InFlight' \subseteq InFlight, pc' # "tasks"
    PROVE  Queues'
<1> USE DEF Queues
<1>1. Turns'
  BY DEF Turns, Moved, Settled
<1>2. Started'
  BY DEF Started, Moved, Settled
<1>3. HeldOff'
  BY DEF HeldOff, Moved, Settled, coverVars
<1>4. OpenExclusive'
  BY DEF OpenExclusive, RunningNow, Moved, Settled
<1>5. LiveOpen'
  BY DEF LiveOpen, Moved
<1>6. FailedForGood'
  BY DEF FailedForGood, Moved, Settled
<1>7. Marked'
  BY DEF Marked, Wanted, Moved, coverVars
<1>8. PassedOver'
  BY PassedMoved DEF PassedOver, Settled
<1>9. InputsMet'
  BY DEF InputsMet, Moved
<1> QED
  BY <1>1, <1>2, <1>3, <1>4, <1>5, <1>6, <1>7, <1>8, <1>9

\* Steps that leave the queues alone.
LEMMA SameQueues ==
    ASSUME Queues, q' = q, running' = running, complete' = complete,
           coverVars' = coverVars, tasksrun' = tasksrun,
           InFlight' = InFlight, pc' # "tasks" \/ pc' = pc
    PROVE  Queues'
<1> USE DEF Queues, coverVars
<1>1. Turns' /\ Started' /\ HeldOff' /\ OpenExclusive' /\ LiveOpen' /\ FailedForGood'
  BY DEF Turns, Started, HeldOff, OpenExclusive, LiveOpen, FailedForGood, RunningNow
<1>2. Marked' /\ PassedOver' /\ InputsMet'
  BY DEF Marked, Wanted, PassedOver, PassedFor, InputsMet
<1> QED
  BY <1>1, <1>2

\* A task completes, and lets a deferred setscene task go.
LEMMA OutrightQueues ==
    ASSUME Queues, NEW t \in Tasks, NEW built, NEW ran,
           TaskCompleteOutright(t, built, ran),
           running \subseteq ran, ran \subseteq running \cup {t}, t \in ran,
           t \notin running => pc = "tasks" /\ t \notin holdoff,
           t \in tasksrun' \/ (t \in covered /\ t \notin running),
           coverVars' = coverVars, tasksrun \subseteq tasksrun',
           InFlight' \subseteq InFlight, pc' # "tasks"
    PROVE  Queues'
<1> DEFINE C == DOMAIN q.deferred
<1>1. running' = ran /\ complete' = complete \cup {t}
  BY DEF TaskCompleteOutright
<1>2. Moved(q', q, C, {})
  <2> DEFINE D == {d \in C : SceneStamped(Stamps(files', uni), d)}
  <2>1. Moved(q', q, D, {}) /\ D \subseteq C
    BY ReleaseMoved DEF TaskCompleteOutright, Queues, Turns
  <2> HIDE DEF D, C
  <2> QED
    BY <2>1, MovedMore
<1> HIDE DEF C
<1> USE DEF Queues
<1>3. C \cap q.live = {} /\ (NoHardDeps => C \cap q.notcovered = {})
  BY DEF C, LiveOpen, FailedForGood
<1>4. ASSUME t \notin running
      PROVE  \A s \in Setscene \ Settled(q) : t # s /\ (t \in SqCovered[s] => t \in complete)
  BY <1>4 DEF HeldOff, Started
<1>5. Turns'
  <2>1. q'.covered \subseteq q.covered \cup Setscene
    BY <1>2 DEF C, Turns, Moved
  <2> QED
    BY <1>2, <2>1 DEF Turns, Moved, Settled
<1>6. Started'
  BY <1>1, <1>2, <1>4 DEF Started, Moved, Settled
<1>7. HeldOff'
  BY <1>1, <1>2 DEF HeldOff, Moved, Settled, coverVars
<1>8. OpenExclusive'
  BY <1>1, <1>2, <1>4, <1>6 DEF OpenExclusive, RunningNow, Moved, Started, Turns,
                                Settled
<1>9. LiveOpen'
  BY <1>2, <1>3 DEF LiveOpen, Moved, C
<1>10. FailedForGood'
  BY <1>2, <1>3 DEF FailedForGood, Moved, C
<1>11. Marked'
  BY <1>2 DEF Marked, Wanted, Moved, coverVars
<1>12. PassedOver'
  <2>1. ASSUME NEW d \in complete' \ tasksrun' PROVE PassedFor(q, d)
    <3>1. CASE d \in complete
      BY <2>1, <3>1 DEF PassedOver
    <3>2. CASE d = t /\ d \notin complete
      <4>1. t \in covered /\ t \notin running /\ ~q.update
        BY <2>1, <3>2 DEF HeldOff
      <4>2. IF t \in Setscene THEN t \in q.covered ELSE ~Wanted(t)
        BY <4>1 DEF Marked
      <4>3. \A s \in Setscene : t \in SqCovered[s] => s \in Settled(q)
        BY <1>4, <3>2, <4>1
      <4> QED
        BY <3>2, <4>2, <4>3 DEF PassedFor, Wanted, Settled
    <3> QED
      BY <1>1, <3>1, <3>2
  <2> QED
    BY <1>2, <2>1, PassedMoved DEF PassedOver
<1>13. InputsMet'
  BY <1>2 DEF InputsMet, Moved
<1> QED
  BY <1>5, <1>6, <1>7, <1>8, <1>9, <1>10, <1>11, <1>12, <1>13

\* A worker answers for a setscene task.
LEMMA SceneExitQueues ==
    ASSUME Queues, NEW t \in Tasks, NEW ok \in BOOLEAN, ExitMessage(t, ok), SceneExit(t, ok)
    PROVE  Queues'
<1> DEFINE r == IF ok THEN SqTaskComplete(q, {t}) ELSE SqTaskFail(q, stamps, {t})
<1>1. t \in q.live /\ t \in q.running /\ t \in Setscene
  BY DEF SceneExit, Queues, Turns
<1>2. Moved(r, q, {t}, {}) \/ Moved(r, q, {}, {t})
  <2>1. Moved(SqTaskComplete(q, {t}), q, {t}, {})
    BY <1>1, CompleteMoved DEF Queues, Turns
  <2>2. Moved(SqTaskFail(q, stamps, {t}), q, {}, {t})
    BY <1>1, FailMoved DEF Queues, Turns
  <2> QED
    BY <2>1, <2>2
<1>3. q' = [r EXCEPT !.live = @ \ {t}]
  BY DEF SceneExit
<1> HIDE DEF r
<1>4. /\ DOMAIN q' = DOMAIN r /\ q'.live = q.live \ {t}
      /\ q'.covered = r.covered /\ q'.notcovered = r.notcovered
      /\ q'.running = r.running /\ q'.deferred = r.deferred /\ q'.update = r.update
  BY <1>2, <1>3 DEF Moved, Fields
<1>5. /\ running' = running /\ complete' = complete /\ coverVars' = coverVars
      /\ pc' = pc /\ pc # "tasks" /\ InFlight' = InFlight \ {t} /\ tasksrun' = tasksrun
  BY DEF ExitMessage, SceneExit, Drop, InFlight, taskVars
<1> USE DEF Queues
<1>6. t \notin q.covered /\ t \notin DOMAIN q.deferred /\ (NoHardDeps => t \notin q.notcovered)
  BY <1>1 DEF LiveOpen
<1>7. Turns'
  BY <1>1, <1>2, <1>4 DEF Turns, Moved, Settled
<1>8. Started'
  BY <1>2, <1>4, <1>5 DEF Started, Moved, Settled
<1>9. HeldOff'
  BY <1>2, <1>4, <1>5 DEF HeldOff, Moved, Settled, coverVars
<1>10. OpenExclusive'
  BY <1>2, <1>4, <1>5 DEF OpenExclusive, RunningNow, Moved, Settled
<1>11. LiveOpen'
  BY <1>2, <1>4 DEF LiveOpen, Moved
<1>12. FailedForGood'
  BY <1>2, <1>4, <1>6 DEF FailedForGood, Moved
<1>13. Marked'
  BY <1>2, <1>4, <1>5 DEF Marked, Wanted, Moved, coverVars
<1>14. PassedOver'
  <2>1. \A d : PassedFor(q, d) => PassedFor(r, d)
    BY <1>2, <1>6, PassedMoved
  <2>2. \A d : PassedFor(r, d) <=> PassedFor(q', d)
    BY <1>4 DEF PassedFor
  <2> QED
    BY <1>5, <2>1, <2>2 DEF PassedOver
<1>15. InputsMet'
  BY <1>2, <1>4, <1>5 DEF InputsMet, Moved
<1> QED
  BY <1>7, <1>8, <1>9, <1>10, <1>11, <1>12, <1>13, <1>14, <1>15

\* A worker answers: for a setscene task, or for a task that has started.
LEMMA ExitQueues ==
    ASSUME Queues, NEW t \in Tasks, NEW ok \in BOOLEAN, ExitMessage(t, ok)
    PROVE  Queues'
<1>1. /\ pc' = pc /\ pc # "tasks" /\ coverVars' = coverVars /\ InFlight' \subseteq InFlight
      /\ t \in InFlight
  BY DEF ExitMessage, Drop, InFlight
<1>2. CASE SceneExit(t, ok)
  BY <1>2, SceneExitQueues
<1>3. CASE TaskExit(t, ok) /\ ok
  <2>1. /\ TaskCompleteOutright(t, buildable, running) /\ t \in running
        /\ tasksrun' = tasksrun \cup {t}
    BY <1>1, <1>3 DEF TaskExit, TaskComplete, Queues, Started
  <2> QED
    BY <1>1, <2>1, OutrightQueues
<1>4. CASE TaskExit(t, ok) /\ ~ok
  <2>1. q' = q /\ running' = running /\ complete' = complete /\ tasksrun' = tasksrun
    BY <1>4 DEF TaskExit
  <2>2. Moved(q, q, {}, {})
    BY DEF Moved, Queues, Turns, Settled
  <2> QED
    BY <1>1, <2>1, <2>2, MovedQueues
<1> QED
  BY <1>2, <1>3, <1>4 DEF ExitMessage

\* Migrations put back tasks that neither run nor have run, and stand for no task
\* that was passed over: the build halts instead.
LEMMA MigrateQueues ==
    ASSUME Queues, IInv, Migrate
    PROVE  Queues'
<1> DEFINE queue(hash) ==
             {t \in pending \cup
                     ({d \in DependOn(DOMAIN Rehashed) :
                          hash[d] # Merge(uni, Rehashed)[d]} \cap Setscene) : ~TooLate(t)}
           M(hash) == {t \in queue(hash) : ~Blocked(t)}
<1>1. PICK hash \in NewHashes(Rehashed) :
          \/ q' = q
          \/ /\ {t \in M(hash) : NeedsRerun(t)} = {}
             /\ \E valid \in SUBSET M(hash) :
                   LET r == IF M(hash) = {} THEN q ELSE Requeue(M(hash), hash, valid)
                   IN  q' = [r EXCEPT !.needed = {}, !.hdeferred = {}, !.update = TRUE]
  BY Zenon DEF Migrate
<1> DEFINE N == M(hash)
<1>2. /\ running' = running /\ complete' = complete /\ coverVars' = coverVars
      /\ tasksrun' = tasksrun /\ InFlight' = InFlight /\ pc' = "scene"
  BY DEF Migrate, InFlight
<1>3. CASE q' = q
  BY <1>2, <1>3, SameQueues
<1>4. ASSUME {t \in N : NeedsRerun(t)} = {}, NEW valid,
             q' = [(IF N = {} THEN q ELSE Requeue(N, hash, valid))
                      EXCEPT !.needed = {}, !.hdeferred = {}, !.update = TRUE]
      PROVE  Queues'
  <2> DEFINE r == IF N = {} THEN q ELSE Requeue(N, hash, valid)
  <2>1. N \subseteq Setscene /\ N \cap (running \cup q.live) = {}
    BY DEF IInv, TaskTypeOK, TooLate
  <2>2. \A s \in N : SqCovered[s] \cap complete \subseteq tasksrun
    BY <1>4 DEF NeedsRerun
  <2> HIDE DEF N
  <2> DEFINE C == {t \in N : SceneStamped(Stamps(files', hash), t)}
  <2>3. Reopened(r, N, C)
    <3>1. CASE N = {}
      BY <3>1 DEF Reopened, Queues, Turns, Settled
    <3>2. CASE N # {}
      BY <2>1, <3>2, RequeueMoved DEF Queues, Turns
    <3> QED
      BY <3>1, <3>2
  <2>4. q' = [r EXCEPT !.needed = {}, !.hdeferred = {}, !.update = TRUE]
    BY <1>4
  <2>20. C \subseteq N
    OBVIOUS
  <2> HIDE DEF r, C
  <2> USE <2>20
  <2>5. /\ DOMAIN q' = DOMAIN r /\ q'.live = r.live
        /\ q'.covered = r.covered /\ q'.notcovered = r.notcovered
        /\ q'.running = r.running /\ q'.deferred = r.deferred /\ q'.update = TRUE
    BY <2>3, <2>4 DEF Reopened, Fields
  <2> USE DEF Queues
  <2>6. Turns'
    BY <2>1, <2>3, <2>5 DEF Turns, Reopened, Settled
  <2>7. Started'
    BY <1>2, <2>1, <2>3, <2>5 DEF Started, Reopened, Settled
  <2>8. HeldOff'
    BY <1>2, <2>5 DEF HeldOff
  <2>9. OpenExclusive'
    BY <1>2, <2>1, <2>3, <2>5 DEF OpenExclusive, RunningNow, Reopened, Settled
  <2>10. LiveOpen'
    BY <2>1, <2>3, <2>5 DEF LiveOpen, Reopened
  <2>11. FailedForGood'
    BY <2>3, <2>5 DEF FailedForGood, Reopened
  <2>12. Marked'
    BY <2>5 DEF Marked
  <2>13. complete \cap N = {}
    BY <2>1 DEF Started
  <2>14. PassedOver'
    <3>1. ASSUME NEW d \in complete \ tasksrun PROVE PassedFor(q', d)
      <4>1. PassedFor(q, d) /\ d \notin N
        BY <2>13, <3>1 DEF PassedOver
      <4>2. \A s \in Setscene : d \in SqCovered[s] => s \notin N
        BY <2>2, <3>1
      <4> QED
        BY <2>3, <2>5, <4>1, <4>2 DEF PassedFor, Reopened
    <3> QED
      BY <1>2, <3>1 DEF PassedOver
  <2>15. InputsMet'
    <3>1. ASSUME NEW t \in InFlight \ q.live, NEW d \in Depends[t]
          PROVE  d \in tasksrun \/ d \in q'.covered
      <4>1. d \in complete
        BY <3>1 DEF Started, IInv, DepsFirst
      <4> QED
        BY <2>3, <2>5, <2>13, <3>1, <4>1 DEF InputsMet, Reopened
    <3> QED
      BY <1>2, <2>3, <2>5, <3>1 DEF InputsMet, Reopened
  <2> QED
    BY <2>6, <2>7, <2>8, <2>9, <2>10, <2>11, <2>12, <2>14, <2>15
<1> QED
  BY <1>1, <1>3, <1>4

\* A setscene task starts: it is unsettled, and nothing it stands for runs.
LEMMA SceneStartQueues ==
    ASSUME Queues, NEW t \in Setscene, SceneStart(t)
    PROVE  Queues'
<1> DEFINE r == Undefer(q, t)
<1>1. Moved(r, q, {}, {}) /\ t \notin DOMAIN r.deferred
  BY UndeferMoved DEF Queues, Turns
<1>2. q' = [r EXCEPT !.running = @ \cup {t}, !.live = @ \cup {t}]
  BY DEF SceneStart
<1> HIDE DEF r
<1>3. /\ DOMAIN q' = DOMAIN r /\ q'.live = q.live \cup {t}
      /\ q'.covered = r.covered /\ q'.notcovered = r.notcovered
      /\ q'.running = r.running \cup {t} /\ q'.deferred = r.deferred /\ q'.update = r.update
  BY <1>1, <1>2 DEF Moved, Fields
<1>4. /\ running' = running /\ complete' = complete /\ coverVars' = coverVars
      /\ tasksrun' = tasksrun /\ InFlight' = InFlight \cup {t} /\ pc' # "tasks"
  BY DEF SceneStart, SceneUnchanged, Return, taskVars, InFlight, Merge
<1>5. t \notin q.running /\ RunningNow(SqCovered[t]) = {}
  BY DEF SceneStart, SceneEligible, Candidates, Blocked
<1> USE DEF Queues
<1>6. t \notin running /\ t \notin Settled(q)
  BY <1>5 DEF Started, Turns
<1>7. r.covered = q.covered /\ r.notcovered = q.notcovered /\ r.update = q.update
  BY DEF r, Undefer, Turns, Fields
<1>8. Turns'
  BY <1>1, <1>3, <1>7 DEF Turns, Moved, Settled
<1>9. Started'
  BY <1>1, <1>3, <1>4 DEF Started, Moved, Settled
<1>10. HeldOff'
  BY <1>1, <1>3, <1>4 DEF HeldOff, Moved, Settled, coverVars
<1>11. OpenExclusive'
  BY <1>1, <1>3, <1>4, <1>5, <1>6 DEF OpenExclusive, RunningNow, Moved, Settled
<1>12. LiveOpen'
  BY <1>1, <1>3, <1>6, <1>7 DEF LiveOpen, Moved, Settled
<1>13. FailedForGood'
  BY <1>1, <1>3, <1>7 DEF FailedForGood, Moved
<1>14. Marked'
  BY <1>3, <1>4, <1>7 DEF Marked, Wanted, coverVars
<1>15. PassedOver'
  BY <1>3, <1>4, <1>7 DEF PassedOver, PassedFor
<1>16. InputsMet'
  BY <1>3, <1>4, <1>7 DEF InputsMet
<1> QED
  BY <1>8, <1>9, <1>10, <1>11, <1>12, <1>13, <1>14, <1>15, <1>16

\* The setscene half of execute() settles or starts tasks that had no turn.
LEMMA SceneQueues ==
    ASSUME Queues, SceneStep
    PROVE  Queues'
<1>1. ASSUME NEW t \in Setscene,
             SceneNotNeeded(t) \/ SceneHardWait(t) \/ SceneFail(t) \/ SceneSkip(t)
      PROVE  Queues'
  <2>1. /\ running' = running /\ complete' = complete /\ coverVars' = coverVars
        /\ tasksrun' = tasksrun /\ InFlight' = InFlight /\ pc' # "tasks"
    BY <1>1 DEF SceneNotNeeded, SceneHardWait, SceneFail, SceneSkip, SceneUnchanged,
                SceneLoop, Return, taskVars, InFlight
  <2>2. t \notin q.live /\ t \notin Settled(q)
    BY <1>1 DEF SceneNotNeeded, SceneHardWait, SceneFail, SceneSkip, SceneEligible,
                Candidates, Queues, Turns
  <2>3. \/ Moved(q', q, {t}, {})
        \/ Moved(q', q, {}, {t}) /\ t \notin DOMAIN q'.deferred
    <3>1. CASE SceneNotNeeded(t)
      <4> DEFINE s == SqTaskSkip(q, {t})
                 r == [s EXCEPT !.notneeded = @ \cup {t}]
      <4>1. Moved(s, q, {t}, {})
        BY SkipMoved DEF Queues, Turns
      <4> HIDE DEF s
      <4>2. /\ DOMAIN r = DOMAIN s /\ r.live = s.live
            /\ r.covered = s.covered /\ r.notcovered = s.notcovered
            /\ r.running = s.running /\ r.deferred = s.deferred /\ r.update = s.update
        BY <4>1 DEF Moved, Fields
      <4>3. q' = Undefer(r, t)
        BY <3>1 DEF SceneNotNeeded, s
      <4> HIDE DEF r
      <4>4. Moved(r, q, {t}, {})
        BY <4>1, <4>2 DEF Moved, Settled
      <4>5. Moved(Undefer(r, t), r, {}, {})
        BY <4>4, UndeferMoved DEF Moved
      <4> QED
        BY <4>3, <4>4, <4>5, MovedTrans
    <3>2. CASE SceneHardWait(t)
      <4>1. /\ DOMAIN q' = DOMAIN q /\ q'.live = q.live
            /\ q'.covered = q.covered /\ q'.notcovered = q.notcovered
            /\ q'.running = q.running /\ q'.deferred = q.deferred /\ q'.update = q.update
        BY <3>2 DEF SceneHardWait, Queues, Turns, Fields
      <4> QED
        BY <4>1 DEF Moved, Queues, Turns, Settled
    <3>3. CASE SceneFail(t) \/ SceneSkip(t)
      <4> DEFINE r == Undefer(q, t)
      <4>1. Moved(r, q, {}, {}) /\ t \notin DOMAIN r.deferred
        BY UndeferMoved DEF Queues, Turns
      <4>2. q' = SqTaskFail(r, stamps, {t}) \/ q' = SqTaskSkip(r, {t})
        BY <3>3 DEF SceneFail, SceneSkip
      <4> HIDE DEF r
      <4>3. Moved(q', r, {}, {t}) \/ Moved(q', r, {t}, {})
        BY <4>1, <4>2, FailMoved, SkipMoved DEF Moved
      <4>4. t \notin DOMAIN q'.deferred
        BY <4>1, <4>3 DEF Moved
      <4> QED
        BY <4>1, <4>3, <4>4, MovedTrans
    <3> QED
      BY <1>1, <3>1, <3>2, <3>3
  <2>4. CASE Moved(q', q, {t}, {})
    BY <2>1, <2>2, <2>4, MovedQueues DEF Settled
  <2>5. CASE Moved(q', q, {}, {t}) /\ t \notin DOMAIN q'.deferred
    BY <2>1, <2>2, <2>5, MovedQueues
  <2> QED
    BY <2>3, <2>4, <2>5
<1>2. ASSUME NEW t \in Setscene, SceneStart(t) PROVE Queues'
  BY <1>2, SceneStartQueues
<1>3. CASE SceneNone
  <2>1. /\ q' = q /\ pc' = "holdoff" /\ tasksrun' = tasksrun
        /\ running' = running /\ complete' = complete /\ coverVars' = coverVars
        /\ InFlight' = InFlight
    BY <1>3 DEF SceneNone, SceneUnchanged, taskVars, InFlight
  <2> QED
    BY <2>1, SameQueues
<1> QED
  BY <1>1, <1>2, <1>3 DEF SceneStep

\* update_holdofftasks holds off what the unsettled setscene tasks stand for, and
\* marks what is needed or failed before what is restored.
LEMMA HoldoffQueues ==
    ASSUME Queues, Holdoff
    PROVE  Queues'
<1>1. /\ running' = running /\ complete' = complete /\ InFlight' = InFlight
      /\ tasksrun' = tasksrun /\ pc = "holdoff"
  BY DEF Holdoff, InFlight
<1>2. CASE q.update
  <2> DEFINE open == Setscene \ Settled(q)
             need == q.notcovered \cup Cantskip \cup (Unskippable \ Setscene)
                        \cup UNION {SqCovered[s] : s \in q.notcovered}
             rest == q.covered \cup UNION {SqCovered[s] : s \in q.covered}
  <2>1. /\ holdoff' = open \cup ((UNION {SqCovered[s] : s \in open}) \ complete)
        /\ q' = [q EXCEPT !.update = FALSE]
        /\ notcovered' = need \cap q.done
        /\ covered' = (rest \ (need \cap q.done)) \cap q.done
    BY <1>2 DEF Holdoff, UpdateHoldoff
  <2>2. Settled(q) \subseteq Setscene
    BY DEF Queues, Turns
  <2>3. \A t \in need : IF t \in Setscene THEN t \in q.notcovered ELSE Wanted(t)
    <3>1. \A s \in q.notcovered : SqCovered[s] \cap Setscene = {}
      BY <2>2, CoveredClosed DEF Settled
    <3> QED
      BY <2>2, <3>1, CoveredClosed DEF Wanted, Cantskip, Settled
  <2>4. \A t \in rest \ need : IF t \in Setscene THEN t \in q.covered ELSE ~Wanted(t)
    <3>1. \A s \in q.covered : SqCovered[s] \cap Setscene = {}
      BY <2>2, CoveredClosed DEF Settled
    <3> QED
      BY <2>2, <3>1 DEF Wanted, Settled
  <2>5. covered' \subseteq rest \ need /\ notcovered' \subseteq need
    BY <2>1
  <2> HIDE DEF open, need, rest
  <2>6. /\ DOMAIN q' = DOMAIN q /\ q'.live = q.live
        /\ q'.covered = q.covered /\ q'.notcovered = q.notcovered
        /\ q'.running = q.running /\ q'.deferred = q.deferred /\ q'.update = FALSE
    BY <2>1 DEF Queues, Turns, Fields
  <2>7. Settled(q') = Settled(q)
    BY <2>6 DEF Settled
  <2>8. HeldOff'
    <3>1. ASSUME NEW s \in Setscene \ Settled(q)
          PROVE  {s} \cup SqCovered[s] \subseteq holdoff' \cup complete
      <4>1. s \in open
        BY DEF open
      <4>2. open \subseteq holdoff'
        BY <2>1
      <4>3. ASSUME NEW x \in SqCovered[s], x \notin complete PROVE x \in holdoff'
        BY <2>1, <4>1, <4>3
      <4> QED
        BY <4>1, <4>2, <4>3
    <3>2. ~q'.update
      BY <2>6
    <3> QED
      BY <1>1, <2>7, <3>1, <3>2 DEF HeldOff
  <2>9. Marked'
    BY <2>3, <2>4, <2>5, <2>6 DEF Marked, Wanted
  <2>10. PassedOver' /\ InputsMet'
    BY <1>1, <2>6 DEF Queues, PassedOver, PassedFor, InputsMet
  <2> QED
    BY <1>1, <2>6, <2>7, <2>8, <2>9, <2>10
    DEF Queues, Turns, Started, OpenExclusive, LiveOpen, FailedForGood, RunningNow
<1>3. CASE ~q.update
  <2>1. q' = q /\ coverVars' = coverVars
    BY <1>3 DEF Holdoff, coverVars
  <2>2. Turns' /\ Started' /\ OpenExclusive' /\ LiveOpen' /\ FailedForGood'
    BY <1>1, <2>1
    DEF Queues, Turns, Started, OpenExclusive, LiveOpen, FailedForGood, RunningNow
  <2>3. HeldOff' /\ Marked' /\ PassedOver' /\ InputsMet'
    BY <1>1, <1>3, <2>1
    DEF Queues, HeldOff, Marked, Wanted, PassedOver, PassedFor, InputsMet, coverVars
  <2> QED
    BY <2>2, <2>3 DEF Queues
<1> QED
  BY <1>2, <1>3

\* A task that starts is not held off, and what it depends on was built or is
\* restored: were it passed over, the task would be too.
LEMMA TaskStartQueues ==
    ASSUME Queues, IInv, NEW t \in Tasks, TaskStart(t)
    PROVE  Queues'
<1>1. /\ pc = "tasks" /\ t \in TaskChoice /\ q' = q /\ complete' = complete
      /\ running' = running \cup {t} /\ InFlight' = InFlight \cup {t}
      /\ tasksrun' = tasksrun /\ coverVars' = coverVars /\ t \notin covered
      /\ pc' # "tasks"
  BY DEF TaskStart, TaskUnchanged, Return, InFlight, Merge
<1>2. t \notin holdoff /\ t \notin running /\ t \in buildable /\ t \in notcovered
  BY <1>1 DEF TaskChoice, Buildable
<1> USE DEF Queues
<1>3. \A s \in Setscene \ Settled(q) : t # s /\ t \notin SqCovered[s]
  BY <1>1, <1>2 DEF HeldOff, Started
<1>4. ASSUME NEW d \in Depends[t], d \notin tasksrun PROVE d \in q.covered
  <2>1. PassedFor(q, d)
    BY <1>2, <1>4 DEF IInv, BuildableReady, PassedOver
  <2>2. IF t \in Setscene THEN t \in q.notcovered ELSE Wanted(t)
    BY <1>1, <1>2 DEF Marked, HeldOff
  <2>3. q.notcovered \subseteq Setscene
    BY DEF Turns, Settled
  <2>4. CASE d \notin Setscene
    <3>1. /\ d \notin Unskippable
          /\ \A s \in Setscene : d \in SqCovered[s] => s \notin q.notcovered
      BY <2>1, <2>4 DEF PassedFor
    <3>2. CASE t \in Setscene
      BY <1>4, <2>2, <2>4, <3>1, <3>2, CoveredClosed
    <3>3. CASE t \notin Setscene /\ t \in Unskippable
      BY <1>4, <3>1, <3>3, CoveredClosed
    <3>4. ASSUME NEW s \in q.notcovered, t \in SqCovered[s] PROVE FALSE
      BY <1>4, <2>3, <2>4, <3>1, <3>4, CoveredClosed
    <3> QED
      BY <2>2, <3>2, <3>3, <3>4 DEF Wanted
  <2> QED
    BY <2>1, <2>4 DEF PassedFor
<1>5. Turns' /\ LiveOpen' /\ FailedForGood' /\ PassedOver'
  BY <1>1 DEF Turns, LiveOpen, FailedForGood, PassedOver, PassedFor
<1>6. Started'
  BY <1>1, <1>3 DEF Started
<1>7. HeldOff' /\ Marked'
  BY <1>1 DEF HeldOff, Marked, Wanted, coverVars
<1>8. OpenExclusive'
  BY <1>1, <1>3 DEF OpenExclusive, RunningNow, Turns
<1>9. InputsMet'
  BY <1>1, <1>4 DEF InputsMet
<1> QED
  BY <1>5, <1>6, <1>7, <1>8, <1>9

\* The task half of execute().
LEMMA TaskQueues ==
    ASSUME Queues, IInv, TaskStep
    PROVE  Queues'
<1>1. coverVars' = coverVars
  BY DEF TaskStep, TaskUnexpected, TaskSkip, TaskNoExec, TaskStart, TaskUnchanged,
         Wait, ForceDeferred, Stop
<1>2. ASSUME NEW t \in Tasks, TaskUnexpected(t) PROVE Queues'
  <2>1. /\ q' = q /\ running' = running /\ complete' = complete /\ InFlight' = InFlight
        /\ tasksrun' = tasksrun /\ pc' # "tasks"
    BY <1>2 DEF TaskUnexpected, InFlight
  <2> QED
    BY <1>1, <2>1, SameQueues
<1>3. ASSUME NEW t \in Tasks, TaskSkip(t) \/ TaskNoExec(t) PROVE Queues'
  <2>1. /\ TaskCompleteOutright(t, buildable, running \cup {t})
        /\ pc = "tasks" /\ t \in TaskChoice
        /\ InFlight' = InFlight /\ pc' # "tasks"
        /\ tasksrun \subseteq tasksrun' /\ t \in tasksrun' \cup covered
    BY <1>3 DEF TaskSkip, TaskNoExec, TaskComplete, Return, InFlight
  <2>2. t \notin holdoff /\ t \notin running
    BY <2>1 DEF TaskChoice, Buildable
  <2> QED
    BY <1>1, <2>1, <2>2, OutrightQueues
<1>4. ASSUME NEW t \in Tasks, TaskStart(t) PROVE Queues'
  BY <1>4, TaskStartQueues
<1>5. CASE Wait \/ Stop
  <2>1. /\ q' = q /\ running' = running /\ complete' = complete /\ InFlight' = InFlight
        /\ tasksrun' = tasksrun /\ pc' # "tasks"
    BY <1>5 DEF Wait, Stop, Return, taskVars, InFlight
  <2> QED
    BY <1>1, <2>1, SameQueues
<1>6. CASE ForceDeferred
  <2>1. PICK t : q' = Undefer(q, t)
    BY <1>6 DEF ForceDeferred
  <2>2. Moved(q', q, {}, {})
    BY <2>1, UndeferMoved DEF Queues, Turns
  <2>3. /\ running' = running /\ complete' = complete /\ InFlight' = InFlight
        /\ tasksrun' = tasksrun /\ pc' # "tasks"
    BY <1>6 DEF ForceDeferred, Return, taskVars, InFlight
  <2> QED
    BY <1>1, <2>2, <2>3, MovedQueues
<1> QED
  BY <1>2, <1>3, <1>4, <1>5, <1>6 DEF TaskStep

\* Every step keeps the invariant of the queues.
LEMMA NextQueues ==
    ASSUME Queues, IInv, [Next]_vars
    PROVE  Queues'
<1>1. CASE Call \/ Finish \/ ReadDone \/ Shutdown \/ ForceShutdown \/ Done \/ UNCHANGED vars
  <2>1. /\ q' = q /\ running' = running /\ complete' = complete /\ coverVars' = coverVars
        /\ tasksrun' = tasksrun /\ InFlight' = InFlight
    BY <1>1 DEF Call, Finish, ReadDone, Shutdown, ForceShutdown, Done, vars,
                taskVars, InFlight
  <2>2. pc' # "tasks" \/ pc' = pc
    BY <1>1 DEF Call, Finish, ReadDone, Shutdown, ForceShutdown, Done, vars, Return
  <2> QED
    BY <2>1, <2>2, SameQueues
<1>2. ASSUME NEW t \in Tasks, NEW h \in Hashes, UniHashMessage(t, h) PROVE Queues'
  <2>1. /\ q' = q /\ running' = running /\ complete' = complete /\ coverVars' = coverVars
        /\ tasksrun' = tasksrun /\ InFlight' = InFlight /\ pc' = pc
    BY <1>2 DEF UniHashMessage, taskVars, InFlight
  <2> QED
    BY <2>1, SameQueues
<1>3. ASSUME NEW t \in Tasks, NEW ok \in BOOLEAN, ExitMessage(t, ok) PROVE Queues'
  BY <1>3, ExitQueues
<1>4. CASE Server
  BY <1>1, <1>4, MigrateQueues, SceneQueues, HoldoffQueues, TaskQueues DEF Server
<1> QED
  BY <1>1, <1>2, <1>3, <1>4 DEF Next

\* So it holds in every reachable state.
LEMMA SpecQueues == Spec => []Queues
BY InitQueues, NextQueues, SpecIInv, PTL DEF Spec

\* A setscene task whose outcome still counts never runs while the task itself,
\* or one whose output it would overwrite, runs, whatever the graph, the answers of
\* the workers and the changes of hashes.
THEOREM SpecOpenExclusive == Spec => []OpenExclusive
<1>1. Queues => OpenExclusive
  BY DEF Queues
<1> QED
  BY <1>1, SpecQueues, PTL

\* What a running task needs was run or found built, or is marked as covered: it was
\* not passed over, whatever is taken back into the queue (process_possible_migrations).
\* With dependencies between setscene tasks no more holds; else SpecInputsPresent does.
THEOREM SpecInputsMet == Spec => []InputsMet
<1>1. Queues => InputsMet
  BY DEF Queues
<1> QED
  BY <1>1, SpecQueues, PTL

\* If no setscene task names others as dependencies, that a setscene task runs alone
\* goes for each that runs.
THEOREM SpecSceneExclusive ==
    ASSUME NoHardDeps
    PROVE  Spec => []SceneExclusive
<1>1. Queues => SceneExclusive
  BY DEF Queues, OpenExclusive, LiveOpen, SceneExclusive, Settled
<1> QED
  BY <1>1, SpecQueues, PTL

\* If no setscene task names others as dependencies, none is both restored and
\* not, duplicates that waited for another build of the same task included.
THEOREM SpecDisjoint ==
    ASSUME NoHardDeps
    PROVE  Spec => []Disjoint
<1>1. Queues => Disjoint
  BY DEF Queues, FailedForGood, Disjoint
<1> QED
  BY <1>1, SpecQueues, PTL

-----------------------------------------------------------------------------
(* stats.active counts what the workers do, unless BB_SETSCENE_ENFORCE       *)
(* makes tasks fail that never started: task_fail counts those down too.     *)

\* What is counted is what the workers run of the tasks.
Counts ==
    /\ q.live \subseteq InFlight
    /\ active = Cardinality(InFlight \ q.live)

\* The build is over when the verdict is in; with --setscene-only no task ran.
Ends ==
    /\ state \in {"failed", "complete"} => pc = "done"
    /\ SetsceneOnly => InFlight \subseteq q.live

\* The count is right, and so is what it decides.
Workers == ~Enforce => Counts /\ Ends

\* BB_NUMBER_THREADS bounds what the workers run, not only what is counted.
WorkerLimit == ~Enforce => Cardinality(InFlight) <= NumberTasks

\* What the workers do are finite sets.
LEMMA FiniteWork ==
    ASSUME IInv
    PROVE  /\ IsFiniteSet(InFlight) /\ IsFiniteSet(q.live)
           /\ Cardinality(InFlight) \in Nat /\ Cardinality(q.live) \in Nat
BY GraphAssumption, FS_Subset, FS_CardinalityType DEF GraphAssumption, IInv, TaskTypeOK

\* When nothing is counted nothing is in a worker.
LEMMA NoneLeft ==
    ASSUME IInv, Counts, active + Cardinality(q.live) <= 0
    PROVE  InFlight = {}
<1>1. IsFiniteSet(InFlight \ q.live) /\ Cardinality(InFlight \ q.live) \in Nat
  BY FiniteWork, FS_Subset, FS_CardinalityType
<1>2. Cardinality(q.live) = 0 /\ Cardinality(InFlight \ q.live) = 0
  BY <1>1, FiniteWork DEF Counts
<1>3. q.live = {} /\ InFlight \ q.live = {}
  BY <1>1, <1>2, FiniteWork, FS_EmptySet
<1> QED
  BY <1>3

\* Steps that neither start a task in a worker nor hear from one.
LEMMA StillWork ==
    ASSUME Workers, options' = options, InFlight' = InFlight, q'.live = q.live,
           active' = active,
           \/ state' \notin {"failed", "complete"} /\ pc' # "done"
           \/ state' \in {"failed", "complete"} /\ pc' = "done" /\ ~sqdone'
                 /\ (state' = "complete" => InFlight = {})
           \/ state' \in {"failed", "complete"} /\ pc' = "done"
                 /\ (InFlight = {} \/ Interrupts)
           \/ state' = state /\ pc' = pc /\ sqdone' = sqdone
    PROVE  Workers'
BY DEF Workers, Counts, Ends, Enforce, Interrupts, SetsceneOnly

\* A worker answers: one task fewer is counted, and one fewer is in a worker.
LEMMA ExitWork ==
    ASSUME Workers, IInv, Queues, NEW t \in Tasks, NEW ok \in BOOLEAN, ExitMessage(t, ok)
    PROVE  Workers'
<1> SUFFICES ASSUME ~Enforce PROVE Counts' /\ Ends'
  BY DEF Workers, ExitMessage, Enforce
<1>1. Counts /\ Ends
  BY DEF Workers
<1>2. /\ InFlight' = InFlight \ {t} /\ t \in InFlight /\ options' = options /\ pc' = pc
      /\ pc # "done" /\ state \notin {"failed", "complete"}
  BY <1>1 DEF ExitMessage, Drop, InFlight, Ends
<1>3. CASE SceneExit(t, ok)
  <2> DEFINE r == IF ok THEN SqTaskComplete(q, {t}) ELSE SqTaskFail(q, stamps, {t})
  <2>1. SameLive(r, q)
    BY CompleteLive, FailLive DEF IInv
  <2>2. q' = [r EXCEPT !.live = @ \ {t}] /\ t \in q.live /\ active' = active
    BY <1>3 DEF SceneExit, taskVars
  <2> HIDE DEF r
  <2>3. q'.live = q.live \ {t}
    BY <2>1, <2>2 DEF SameLive
  <2>4. InFlight' \ q'.live = InFlight \ q.live
    BY <1>2, <2>2, <2>3
  <2>5. state' \notin {"failed", "complete"}
    BY <1>2, <1>3 DEF SceneExit
  <2> QED
    BY <1>1, <1>2, <2>2, <2>3, <2>4, <2>5 DEF Counts, Ends, SetsceneOnly, Interrupts
<1>4. CASE TaskExit(t, ok)
  <2> DEFINE old == InFlight \ q.live
  <2>1. t \in old /\ IsFiniteSet(old) /\ Cardinality(old) \in Nat
    BY <1>2, <1>4, FiniteWork, FS_Subset, FS_CardinalityType DEF TaskExit
  <2>2. Cardinality(old \ {t}) = Cardinality(old) - 1
    BY <2>1, FS_RemoveElement
  <2>3. Cardinality(old \ {t}) \in Nat
    BY <2>1, FS_RemoveElement, FS_CardinalityType
  <2>4. q'.live = q.live
    <3>1. CASE ok
      BY <1>4, <3>1, ReleaseLive DEF TaskExit, TaskComplete, TaskCompleteOutright,
                                     SameLive, IInv
    <3>2. CASE ~ok
      BY <1>4, <3>2 DEF TaskExit
    <3> QED
      BY <3>1, <3>2
  <2>5. active = Cardinality(old)
    BY <1>1 DEF Counts
  <2>6. active' = active - 1
    <3>1. active > -NumberTasks
      BY <2>2, <2>3, <2>5, <2>1, RunQueueAssumption DEF RunQueueAssumption
    <3> QED
      BY <1>4, <3>1 DEF TaskExit, TaskComplete, TaskFail
  <2>7. InFlight' \ q'.live = old \ {t}
    BY <1>2, <2>4
  <2>8. state' \notin {"failed", "complete"}
    BY <1>2, <1>4 DEF TaskExit, TaskFail
  <2>9. t \notin q.live
    BY <1>4 DEF TaskExit
  <2>10. Counts'
    BY <1>1, <1>2, <2>2, <2>4, <2>5, <2>6, <2>7, <2>9 DEF Counts
  <2>11. Ends'
    BY <1>1, <1>2, <2>4, <2>8 DEF Ends, SetsceneOnly, Interrupts
  <2> QED
    BY <2>10, <2>11
<1> QED
  BY <1>3, <1>4 DEF ExitMessage

\* The setscene half of execute() hands a worker a task that is in none.
LEMMA SceneWork ==
    ASSUME Workers, IInv, Queues, options' = options, SceneStep
    PROVE  Workers'
<1> SUFFICES ASSUME ~Enforce PROVE Workers'
  BY DEF Workers, Enforce
<1>1. Counts /\ Ends
  BY DEF Workers
<1>2. active' = active /\ sqdone' = sqdone /\ pc = "scene"
  BY DEF SceneStep, SceneNotNeeded, SceneHardWait, SceneFail, SceneSkip, SceneStart,
         SceneNone, SceneUnchanged, SceneLoop, taskVars
<1>3. state \notin {"failed", "complete"}
  BY <1>1, <1>2 DEF Ends
<1>4. state' = state /\ pc' # "done"
  BY <1>2, <1>3 DEF SceneStep, SceneNotNeeded, SceneHardWait, SceneFail, SceneSkip,
                    SceneStart, SceneNone, Return
<1>5. ASSUME NEW t \in Setscene,
             SceneNotNeeded(t) \/ SceneHardWait(t) \/ SceneFail(t) \/ SceneSkip(t)
      PROVE  Workers'
  <2>1. q'.live = q.live
    <3>1. CASE SceneNotNeeded(t)
      <4> DEFINE r == [SqTaskSkip(q, {t}) EXCEPT !.notneeded = @ \cup {t}]
      <4>1. SameLive(r, q)
        BY SkipLive DEF SameLive, IInv
      <4>2. q' = Undefer(r, t)
        BY <3>1 DEF SceneNotNeeded
      <4> HIDE DEF r
      <4> QED
        BY <4>1, <4>2, UndeferLive DEF SameLive
    <3>2. CASE SceneHardWait(t)
      BY <3>2 DEF SceneHardWait, IInv
    <3>3. CASE SceneFail(t) \/ SceneSkip(t)
      <4> DEFINE r == Undefer(q, t)
      <4>1. SameLive(r, q)
        BY UndeferLive DEF IInv
      <4>2. q' = SqTaskFail(r, stamps, {t}) \/ q' = SqTaskSkip(r, {t})
        BY <3>3 DEF SceneFail, SceneSkip
      <4> HIDE DEF r
      <4> QED
        BY <4>1, <4>2, FailLive, SkipLive DEF SameLive
    <3> QED
      BY <1>5, <3>1, <3>2, <3>3
  <2>2. InFlight' = InFlight
    BY <1>5 DEF SceneNotNeeded, SceneHardWait, SceneFail, SceneSkip, SceneUnchanged,
                InFlight
  <2> QED
    BY <1>2, <1>3, <1>4, <2>1, <2>2, StillWork
<1>6. ASSUME NEW t \in Setscene, SceneStart(t) PROVE Workers'
  <2>1. InFlight' = InFlight \cup {t}
    BY <1>6 DEF SceneStart, Merge, InFlight
  <2>2. q'.live = q.live \cup {t}
    <3> DEFINE r == Undefer(q, t)
    <3>1. SameLive(r, q)
      BY UndeferLive DEF IInv
    <3>2. q' = [r EXCEPT !.running = @ \cup {t}, !.live = @ \cup {t}]
      BY <1>6 DEF SceneStart
    <3> HIDE DEF r
    <3> QED
      BY <3>1, <3>2 DEF SameLive
  <2>3. t \notin InFlight
    <3>1. t \notin q.running
      BY <1>6 DEF SceneStart, SceneEligible, Candidates
    <3> QED
      BY <3>1 DEF Queues, Turns, Started
  <2>4. InFlight' \ q'.live = InFlight \ q.live
    BY <2>1, <2>2, <2>3
  <2>5. Counts'
    BY <1>1, <1>2, <2>1, <2>2, <2>4 DEF Counts
  <2>6. Ends'
    BY <1>1, <1>3, <1>4, <2>1, <2>2 DEF Ends, SetsceneOnly, Interrupts
  <2> QED
    BY <2>5, <2>6 DEF Workers
<1>7. CASE SceneNone
  <2>1. q' = q /\ InFlight' = InFlight
    BY <1>7 DEF SceneNone, InFlight
  <2> QED
    BY <1>2, <1>3, <1>4, <2>1, StillWork
<1> QED
  BY <1>5, <1>6, <1>7 DEF SceneStep

\* The task half of execute() hands a worker a task that is in none.
LEMMA TaskWork ==
    ASSUME NoHardDeps, Workers, IInv, Queues, options' = options, TaskStep
    PROVE  Workers'
<1> SUFFICES ASSUME ~Enforce PROVE Workers'
  BY DEF Workers, Enforce
<1>1. Counts /\ Ends
  BY DEF Workers
<1>2. pc = "tasks" /\ sqdone' = sqdone
  BY DEF TaskStep, TaskUnexpected, TaskSkip, TaskNoExec, TaskStart, TaskUnchanged,
         TaskNone, Wait, ForceDeferred, Stop
<1>3. state \notin {"failed", "complete"}
  BY <1>1, <1>2 DEF Ends
<1>4. ASSUME NEW t \in Tasks, TaskUnexpected(t) PROVE FALSE
  BY <1>4 DEF TaskUnexpected, Unexpected
<1>5. ASSUME NEW t \in Tasks, TaskSkip(t) \/ TaskNoExec(t) PROVE Workers'
  <2>1. /\ TaskCompleteOutright(t, buildable, running \cup {t}) /\ InFlight' = InFlight
        /\ state' = state /\ pc' # "done"
    BY <1>3, <1>5 DEF TaskSkip, TaskNoExec, TaskComplete, Return, InFlight
  <2>2. active' = active
    BY <1>5 DEF TaskSkip, TaskNoExec, TaskComplete, IInv, TaskTypeOK
  <2>3. q'.live = q.live
    BY <2>1, ReleaseLive DEF TaskCompleteOutright, SameLive, IInv
  <2> QED
    BY <1>3, <2>1, <2>2, <2>3, StillWork
<1>6. ASSUME NEW t \in Tasks, TaskStart(t) PROVE Workers'
  <2>1. /\ InFlight' = InFlight \cup {t} /\ q' = q /\ active' = active + 1
        /\ t \in TaskChoice /\ state' = state /\ pc' # "done"
    BY <1>3, <1>6 DEF TaskStart, Merge, Return, InFlight
  <2>2. t \notin running /\ t \notin holdoff /\ ~SetsceneOnly
    BY <2>1 DEF TaskChoice, Buildable
  <2>3. t \notin q.live
    BY <1>2, <2>2 DEF Queues, Turns, Started, HeldOff, LiveOpen, Settled
  <2>4. t \notin InFlight
    BY <2>2, <2>3 DEF Queues, Started
  <2> DEFINE old == InFlight \ q.live
  <2>5. IsFiniteSet(old)
    BY FiniteWork, FS_Subset
  <2>6. InFlight' \ q'.live = old \cup {t} /\ t \notin old
    BY <2>1, <2>3, <2>4
  <2>7. Cardinality(old \cup {t}) = Cardinality(old) + 1
    BY <2>5, <2>6, FS_AddElement
  <2>8. Counts'
    BY <1>1, <2>1, <2>6, <2>7 DEF Counts
  <2>9. Ends'
    BY <1>1, <1>3, <2>1, <2>2 DEF Ends, SetsceneOnly, Interrupts
  <2> QED
    BY <2>8, <2>9 DEF Workers
<1>7. CASE Wait
  <2>1. q' = q /\ InFlight' = InFlight /\ active' = active /\ state' = state /\ pc' # "done"
    BY <1>7 DEF Wait, taskVars, InFlight
  <2> QED
    BY <1>3, <2>1, StillWork
<1>8. CASE ForceDeferred
  <2>1. PICK t : q' = Undefer(q, t)
    BY <1>8 DEF ForceDeferred
  <2>2. q'.live = q.live
    BY <2>1, UndeferLive DEF SameLive, IInv
  <2>3. InFlight' = InFlight /\ active' = active /\ state' = state /\ pc' # "done"
    BY <1>3, <1>8 DEF ForceDeferred, taskVars, Return, InFlight
  <2> QED
    BY <1>3, <2>2, <2>3, StillWork
<1>9. CASE Stop
  <2>1. /\ q' = q /\ InFlight' = InFlight /\ active' = active /\ pc' = "done"
        /\ state' \in {"failed", "complete"} /\ active <= 0 /\ q.live = {}
    BY <1>9 DEF Stop, Return, taskVars, InFlight
  <2>2. InFlight = {}
    BY <1>1, <2>1, NoneLeft, FS_EmptySet DEF IInv, TaskTypeOK
  <2> QED
    BY <2>1, <2>2, StillWork
<1> QED
  BY <1>4, <1>5, <1>6, <1>7, <1>8, <1>9 DEF TaskStep

\* The end of the setscene queue ends the build only with its sanity check, or
\* with --setscene-only.
LEMMA HoldoffWork ==
    ASSUME Workers, IInv, options' = options, Holdoff
    PROVE  Workers'
<1> SUFFICES ASSUME ~Enforce PROVE Workers'
  BY DEF Workers, Enforce
<1>1. Counts /\ Ends
  BY DEF Workers
<1>2. q'.live = q.live /\ InFlight' = InFlight /\ active' = active
  <2>1. CASE q.update
    BY <2>1 DEF Holdoff, UpdateHoldoff, InFlight, IInv
  <2>2. CASE ~q.update
    BY <2>2 DEF Holdoff, InFlight
  <2> QED
    BY <2>1, <2>2
<1>3. state \notin {"failed", "complete"}
  BY <1>1 DEF Ends, Holdoff
<1>4. \/ state' = state /\ pc' # "done"
      \/ state' = "failed" /\ pc' = "done" /\ ~sqdone'
      \/ state' = "complete" /\ pc' = "done" /\ SetsceneOnly /\ q.live = {}
  BY DEF Holdoff, Return
<1>5. SetsceneOnly /\ q.live = {} => InFlight = {}
  BY <1>1 DEF Ends
<1> QED
  BY <1>2, <1>3, <1>4, <1>5, StillWork

\* Migrations start no task and end no build.
LEMMA MigrateWork ==
    ASSUME Workers, IInv, options' = options, Migrate
    PROVE  Workers'
<1> SUFFICES ASSUME ~Enforce PROVE Workers'
  BY DEF Workers, Enforce
<1> DEFINE queue(hash) ==
             {t \in pending \cup
                     ({d \in DependOn(DOMAIN Rehashed) :
                          hash[d] # Merge(uni, Rehashed)[d]} \cap Setscene) : ~TooLate(t)}
           M(hash) == {t \in queue(hash) : ~Blocked(t)}
<1>1. PICK hash \in NewHashes(Rehashed) :
          /\ state' = IF {t \in M(hash) : NeedsRerun(t)} = {} THEN state ELSE "cleanup"
          /\ \/ q' = q
             \/ \E valid \in SUBSET M(hash) :
                   LET r == IF M(hash) = {} THEN q ELSE Requeue(M(hash), hash, valid)
                   IN  q' = [r EXCEPT !.needed = {}, !.hdeferred = {}, !.update = TRUE]
  BY Zenon DEF Migrate
<1>2. q'.live = q.live
  <2>1. ASSUME NEW valid,
               q' = [(IF M(hash) = {} THEN q ELSE Requeue(M(hash), hash, valid))
                        EXCEPT !.needed = {}, !.hdeferred = {}, !.update = TRUE]
        PROVE  q'.live = q.live
    <3> DEFINE r == IF M(hash) = {} THEN q ELSE Requeue(M(hash), hash, valid)
    <3>1. SameLive(r, q)
      BY RequeueLive DEF SameLive, IInv
    <3>2. q' = [r EXCEPT !.needed = {}, !.hdeferred = {}, !.update = TRUE]
      BY <2>1
    <3> HIDE DEF r
    <3> QED
      BY <3>1, <3>2 DEF SameLive
  <2> QED
    BY <1>1, <2>1
<1>3. InFlight' = InFlight /\ active' = active /\ pc' = "scene" /\ pc = "migrate"
  BY DEF Migrate, InFlight
<1>4. state' \notin {"failed", "complete"}
  BY <1>1, <1>3 DEF Workers, Ends
<1> QED
  BY <1>2, <1>3, <1>4, StillWork

\* Every step keeps the count, if no setscene task names others as dependencies.
LEMMA NextWork ==
    ASSUME NoHardDeps, Workers, IInv, Queues, [Next]_vars
    PROVE  Workers'
<1>1. options' = options
  BY DEF Next, Server, ExitMessage, UniHashMessage, Shutdown, ForceShutdown, Done, vars
<1>2. CASE Call \/ ReadDone \/ Shutdown \/ Done \/ UNCHANGED vars
  <2>1. /\ q' = q /\ active' = active /\ InFlight' = InFlight /\ sqdone' = sqdone
    BY <1>2 DEF Call, ReadDone, Shutdown, Done, vars, taskVars, InFlight
  <2>2. \/ state' = state /\ pc' = pc
        \/ Enforce
        \/ state' \notin {"failed", "complete"} /\ pc' # "done"
    BY <1>2 DEF Call, ReadDone, Shutdown, Done, vars, Workers, Ends
  <2> QED
    BY <1>1, <2>1, <2>2, StillWork DEF Workers, Enforce
<1>3. CASE Finish \/ ForceShutdown
  <2>1. /\ q' = q /\ active' = active /\ InFlight' = InFlight /\ sqdone' = sqdone
    BY <1>3 DEF Finish, ForceShutdown, taskVars, InFlight
  <2>2. \/ state' = "cleanup" /\ pc' = "drain"
        \/ /\ state' \in {"failed", "complete"} /\ pc' = "done"
           /\ Interrupts \/ ~(active + Cardinality(q.live) > 0)
    BY <1>3 DEF Finish, ForceShutdown, Return, Verdict
  <2>3. Enforce \/ Interrupts \/ InFlight = {} \/ pc' # "done"
    BY <2>2, NoneLeft, FiniteWork DEF Workers, IInv, TaskTypeOK
  <2> QED
    BY <1>1, <2>1, <2>2, <2>3, StillWork DEF Workers, Enforce
<1>4. ASSUME NEW t \in Tasks, NEW h \in Hashes, UniHashMessage(t, h) PROVE Workers'
  <2>1. q' = q /\ active' = active /\ InFlight' = InFlight /\ sqdone' = sqdone
        /\ state' = state /\ pc' = pc
    BY <1>4 DEF UniHashMessage, taskVars, InFlight
  <2> QED
    BY <1>1, <2>1, StillWork
<1>5. ASSUME NEW t \in Tasks, NEW ok \in BOOLEAN, ExitMessage(t, ok) PROVE Workers'
  BY <1>5, ExitWork
<1>6. CASE Server
  BY <1>1, <1>2, <1>3, <1>6, MigrateWork, SceneWork, HoldoffWork, TaskWork DEF Server
<1> QED
  BY <1>2, <1>3, <1>4, <1>5, <1>6 DEF Next

\* No worker runs anything when the build starts.
LEMMA InitWork ==
    ASSUME Init
    PROVE  Workers
<1>1. InFlight = {} /\ active = 0 /\ state = "running" /\ pc = "call"
  BY DEF Init, InFlight
<1>2. q.live = {}
  BY InitSettled
<1> QED
  BY <1>1, <1>2, FS_EmptySet DEF Workers, Counts, Ends

\* So the count is right in every reachable state.
LEMMA SpecWorkers ==
    ASSUME NoHardDeps
    PROVE  Spec => []Workers
<1>1. Workers /\ IInv /\ Queues /\ [Next]_vars => Workers'
  BY NextWork
<1> QED
  BY <1>1, InitWork, SpecIInv, SpecQueues, PTL DEF Spec

\* No more tasks than BB_NUMBER_THREADS are in the workers, the setscene tasks
\* among them: none is handed out that another worker runs, and each answer
\* counts one down.
THEOREM SpecWorkerLimit ==
    ASSUME NoHardDeps
    PROVE  Spec => []WorkerLimit
<1>1. ASSUME IInv, Workers PROVE WorkerLimit
  <2> SUFFICES ASSUME ~Enforce PROVE Cardinality(InFlight) <= NumberTasks
    BY DEF WorkerLimit
  <2> DEFINE old == InFlight \ q.live
  <2>1. active = Cardinality(old) /\ q.live \subseteq InFlight
    BY <1>1 DEF Workers, Counts
  <2>2. IsFiniteSet(old) /\ IsFiniteSet(q.live) /\ IsFiniteSet(InFlight)
    BY <1>1, FiniteWork, FS_Subset
  <2>3. InFlight = old \cup q.live /\ old \cap q.live = {}
    BY <2>1
  <2> HIDE DEF old
  <2>4. Cardinality(old \cup q.live) = Cardinality(old) + Cardinality(q.live)
    <3>1. Cardinality(old \cap q.live) = 0
      BY <2>3, FS_EmptySet
    <3>2. Cardinality(old) \in Nat /\ Cardinality(q.live) \in Nat
      BY <2>2, FS_CardinalityType
    <3>3. Cardinality(old \cup q.live)
            = Cardinality(old) + Cardinality(q.live) - Cardinality(old \cap q.live)
      BY <2>2, FS_Union, Zenon
    <3> QED
      BY <3>1, <3>2, <3>3
  <2> QED
    BY <1>1, <2>1, <2>3, <2>4 DEF IInv, ThreadLimit
<1> QED
  BY <1>1, SpecWorkers, SpecIInv, PTL

-----------------------------------------------------------------------------
(* What -f asks for (force).                                                 *)

\* A current stamp is there: the walk of check_stamp_task has a result, and
\* asks for the task's own stamp first.
LEMMA StampNeeded ==
    ASSUME NEW st, NEW r \in BOOLEAN, NEW t \in Tasks, StampCurrent(st, r)[t]
    PROVE  st.task[t] # Absent
<1> DEFINE E(x) == {d \in Depends[x] : Recipe[d] = Recipe[x] /\ ~Restored(st, d)}
           own(x) == /\ st.task[x] # Absent /\ x \notin NoStamp
                     /\ \A d \in E(x) : st.task[d] # Absent /\ st.task[d] <= st.task[x]
           rest(f, x) == /\ st.task[x] # Absent
                         /\ x \notin NoStamp
                         /\ \A d \in Depends[x] :
                               Recipe[d] = Recipe[x] /\ ~Restored(st, d) =>
                                   /\ st.task[d] # Absent
                                   /\ st.task[d] <= st.task[x]
                                   /\ r => f[d]
           Walk(f) == f = [x \in Tasks |-> rest(f, x)]
           good(C) == \A x \in C : own(x) /\ E(x) \subseteq C
           g == [x \in Tasks |-> own(x) /\ (r => \E C \in SUBSET Tasks : x \in C /\ good(C))]
<1>1. \A x \in Tasks : Depends[x] \subseteq Tasks
  BY GraphAssumption DEF GraphAssumption
<1>2. StampCurrent(st, r) = CHOOSE f : Walk(f)
  BY DEF StampCurrent
<1>3. \A f, x : rest(f, x) <=> own(x) /\ (r => \A d \in E(x) : f[d])
  OBVIOUS
<1>4. \A x \in Tasks : E(x) \subseteq Tasks
  BY <1>1
<1> HIDE DEF own, E
<1>5. \A x \in Tasks : g[x] <=> rest(g, x)
  <2>1. ASSUME NEW x \in Tasks, g[x] PROVE rest(g, x)
    <3>1. own(x)
      BY <2>1
    <3>2. ASSUME r, NEW d \in E(x) PROVE g[d]
      <4>1. PICK C \in SUBSET Tasks : x \in C /\ good(C)
        BY <2>1, <3>2
      <4>2. d \in C /\ d \in Tasks
        BY <1>4, <3>2, <4>1
      <4> QED
        BY <4>1, <4>2
    <3> HIDE DEF rest, g
    <3> QED
      BY <1>3, <3>1, <3>2
  <2>2. ASSUME NEW x \in Tasks, rest(g, x) PROVE g[x]
    <3>1. own(x) /\ (r => \A d \in E(x) : g[d])
      <4> HIDE DEF rest, g
      <4> QED BY <1>3, <2>2
    <3>2. ASSUME r PROVE \E C \in SUBSET Tasks : x \in C /\ good(C)
      <4> DEFINE D == {y \in Tasks : \E C \in SUBSET Tasks : y \in C /\ good(C)}
                 N == D \cup {x}
      <4>1. \A y \in D : own(y) /\ E(y) \subseteq D
        <5> TAKE y \in D
        <5>1. PICK C \in SUBSET Tasks : y \in C /\ good(C)
          OBVIOUS
        <5>2. C \subseteq D
          BY <5>1
        <5> QED
          BY <5>1, <5>2
      <4>2. \A d \in Tasks : g[d] => d \in D
        BY <3>2
      <4>3. D \subseteq Tasks /\ x \in N /\ D \subseteq N /\ N \subseteq Tasks
        OBVIOUS
      <4>4. \A y \in N : y \in D \/ y = x
        OBVIOUS
      <4> HIDE DEF D, g, N
      <4>5. E(x) \subseteq D
        BY <1>4, <3>1, <3>2, <4>2
      <4>6. good(N)
        BY <3>1, <4>1, <4>3, <4>4, <4>5
      <4> HIDE DEF good
      <4> QED
        BY <4>3, <4>6
    <3> QED
      BY <3>1, <3>2
  <2> HIDE DEF rest, g
  <2> QED
    BY <2>1, <2>2
<1>6. \E f : Walk(f)
  <2>1. \A x \in Tasks : g[x] \in BOOLEAN /\ rest(g, x) \in BOOLEAN
    OBVIOUS
  <2> DEFINE h == [x \in Tasks |-> rest(g, x)]
  <2>2. \A x \in Tasks : h[x] = rest(g, x)
    OBVIOUS
  <2>4. g \in [Tasks -> BOOLEAN] /\ h \in [Tasks -> BOOLEAN]
    BY <2>1
  <2>5. \A x \in Tasks : g[x] = h[x]
    <3> HIDE DEF rest, g, h
    <3> QED BY <1>5, <2>1, <2>2
  <2>6. g = h
    <3> HIDE DEF rest, g, h
    <3> QED BY <2>4, <2>5
  <2>7. Walk(g)
    <3> HIDE DEF g
    <3> QED BY <2>6
  <2> HIDE DEF Walk, g
  <2> QED
    BY <2>7
<1>7. Walk(StampCurrent(st, r))
  <2> HIDE DEF Walk
  <2> QED BY <1>2, <1>6
<1>8. rest(StampCurrent(st, r), t)
  <2> DEFINE f == StampCurrent(st, r)
  <2>1. f = [x \in Tasks |-> rest(f, x)] /\ f[t]
    BY <1>7
  <2> HIDE DEF f
  <2>2. f[t] = rest(f, t)
    <3> HIDE DEF rest
    <3> QED BY <2>1
  <2>3. rest(f, t)
    <3> HIDE DEF rest
    <3> QED BY <2>1, <2>2
  <2> QED
    BY <2>3 DEF f
<1> QED
  BY <1>8

\* No other task shares the stamps of what was asked for, as a duplicate in another
\* multiconfig does, and no such task is a setscene task with nothing to execute.
ForcedAlone ==
    \A t \in Targets :
        /\ t \in NoExec => t \notin Setscene
        /\ \A u \in Tasks : StampBase[u] = StampBase[t] => u = t

\* The restored output of t has no stamp.
Bare(f, t) ==
    /\ {"task", "scene"} \subseteq DOMAIN f
    /\ StampBase[t] \in DOMAIN f.task \cap DOMAIN f.scene
    /\ f.scene[StampBase[t]] = NoFile

\* Neither does what t builds.
Unbuilt(f, t) == f.task[StampBase[t]] = NoFile

\* Without stamps nothing is current or restored, whatever the hashes.
LEMMA UnbuiltStale ==
    ASSUME ForcedAlone, NEW f, NEW h, NEW t \in Targets, Bare(f, t), Unbuilt(f, t)
    PROVE  /\ \A r \in BOOLEAN : ~StampCurrent(Stamps(f, h), r)[t]
           /\ t \in Setscene => ~SceneStamped(Stamps(f, h), t)
<1> DEFINE st == Stamps(f, h)
<1>1. t \in Tasks
  BY GraphAssumption DEF GraphAssumption
<1>2. AgeFor(NoFile, h[t]) = Absent
  BY DEF AgeFor, NoFile, Absent
<1>3. st.task[t] = Absent /\ (t \in Setscene => st.scene[t] = Absent)
  BY <1>1, <1>2 DEF Stamps, Bare, Unbuilt
<1> HIDE DEF st
<1>4. \A r \in BOOLEAN : ~StampCurrent(st, r)[t]
  BY <1>1, <1>3, StampNeeded
<1>5. t \in Setscene => ~SceneStamped(st, t)
  BY <1>3, <1>4 DEF SceneStamped, ForcedAlone
<1> QED
  BY <1>4, <1>5 DEF st

\* A task's stamp takes those of its setscene variant away, and touches no other's.
LEMMA MakeStampBare ==
    ASSUME ForcedAlone, NEW f, NEW t \in Targets, Bare(f, t), NEW x \in Tasks, NEW h
    PROVE  /\ Bare(MakeStamp(f, x, h), t)
           /\ x # t /\ Unbuilt(f, t) => Unbuilt(MakeStamp(f, x, h), t)
<1> DEFINE b == StampBase[t]
           c == StampBase[x]
           task == [f.task EXCEPT ![c] = <<h, New>>]
           scene == [f.scene EXCEPT ![c] = NoFile]
           g == MakeStamp(f, x, h)
<1>1. g = [f EXCEPT !.task[c] = <<h, New>>, !.scene[c] = NoFile]
  BY DEF MakeStamp
<1>2. DOMAIN g = DOMAIN f /\ g.task = task /\ g.scene = scene
  BY <1>1 DEF Bare
<1>3. x # t => c # b
  BY DEF ForcedAlone
<1>4. DOMAIN task = DOMAIN f.task /\ DOMAIN scene = DOMAIN f.scene
  OBVIOUS
<1>5. scene[b] = NoFile
  BY DEF Bare
<1>6. x # t => task[b] = f.task[b]
  BY <1>3
<1> HIDE DEF g, task, scene
<1>7. Bare(g, t)
  BY <1>2, <1>4, <1>5 DEF Bare
<1>8. x # t /\ Unbuilt(f, t) => Unbuilt(g, t)
  BY <1>2, <1>6 DEF Unbuilt
<1> QED
  BY <1>7, <1>8 DEF g

\* Setscene stamps of other tasks touch none of t's.
LEMMA SceneStampsBare ==
    ASSUME ForcedAlone, NEW f, NEW t \in Targets, Bare(f, t),
           NEW T \in SUBSET Tasks, t \notin T, NEW h
    PROVE  /\ Bare(MakeSceneStamps(f, T, h), t)
           /\ Unbuilt(f, t) => Unbuilt(MakeSceneStamps(f, T, h), t)
<1> DEFINE b == StampBase[t]
           named(c) == {u \in T : StampBase[u] = c}
           scene == [c \in DOMAIN f.scene |->
                        IF named(c) = {} THEN f.scene[c]
                        ELSE <<h[CHOOSE u \in named(c) : TRUE], New>>]
           g == MakeSceneStamps(f, T, h)
<1>1. g = [f EXCEPT !.scene = scene]
  BY DEF MakeSceneStamps
<1>2. DOMAIN g = DOMAIN f /\ g.task = f.task /\ g.scene = scene
  BY <1>1 DEF Bare
<1>3. named(b) = {}
  BY DEF ForcedAlone
<1>4. DOMAIN scene = DOMAIN f.scene /\ scene[b] = NoFile
  BY <1>3 DEF Bare
<1> HIDE DEF g, scene
<1>5. Bare(g, t)
  BY <1>2, <1>4 DEF Bare
<1>6. Unbuilt(f, t) => Unbuilt(g, t)
  BY <1>2 DEF Unbuilt
<1> QED
  BY <1>5, <1>6 DEF g

\* What was asked for is neither restored nor about to be, is complete only when
\* it was run, and has no stamp before it runs.
Unrestored(t) ==
    /\ t \notin q.covered \cup q.live
    /\ t \in complete => t \in tasksrun
    /\ Bare(files, t)
    /\ t \in running \/ Unbuilt(files, t)

\* The inductive invariant of -f.
ForcedOpen == Forced => \A t \in Targets : Unrestored(t)

\* No step that moves the setscene queue restores what was asked for.
LEMMA MovedForced ==
    ASSUME NEW t \in Targets, Unrestored(t), NEW C, NEW N, Moved(q', q, C, N), t \notin C,
           complete' = complete, tasksrun' = tasksrun, running' = running, files' = files
    PROVE  Unrestored(t)'
BY DEF Unrestored, Moved, Bare, Unbuilt

\* A forced build starts without the stamps of what was asked for.
LEMMA InitForced ==
    ASSUME ForcedAlone, Init
    PROVE  ForcedOpen
<1> SUFFICES ASSUME Forced, NEW t \in Targets PROVE Unrestored(t)
  BY DEF ForcedOpen
<1>1. PICK f \in Stamped : files = MakeSceneStamps(Invalidate(f), NoExec \cap Setscene, InitUni)
  BY DEF Init
<1>2. t \in Tasks /\ StampBase[t] \in DOMAIN f.task \cap DOMAIN f.scene
  BY GraphAssumption, RunQueueAssumption DEF GraphAssumption, RunQueueAssumption
<1> DEFINE T == Targets \cup DependOn(Targets)
           tainted == {StampBase[x] : x \in T}
           keep(old) == [b \in DOMAIN old |-> IF b \in tainted THEN NoFile ELSE old[b]]
           g == Invalidate(f)
<1>3. g = [task |-> keep(f.task), scene |-> keep(f.scene)]
  BY DEF Invalidate
<1>4. StampBase[t] \in tainted
  OBVIOUS
<1> HIDE DEF tainted
<1>5. Bare(g, t) /\ Unbuilt(g, t)
  BY <1>2, <1>3, <1>4 DEF Bare, Unbuilt
<1> HIDE DEF g
<1>6. NoExec \cap Setscene \in SUBSET Tasks /\ t \notin NoExec \cap Setscene
  BY GraphAssumption DEF GraphAssumption, ForcedAlone
<1>7. Bare(files, t) /\ Unbuilt(files, t)
  BY <1>1, <1>5, <1>6, SceneStampsBare DEF g
<1>8. q.live = {} /\ complete = {}
  BY InitSettled DEF Init
<1>9. PICK valid \in SUBSET Setscene : q = InitQueue(valid)
  BY DEF Init
<1> DEFINE q0 == [covered |-> {}, notcovered |-> {}, running |-> {}, live |-> {},
               buildable |-> {s \in Setscene : SqRevdeps[s] = {}},
               done |-> Unskippable \ Setscene,
               needed |-> {}, hdeferred |-> {}, notneeded |-> {}, outright |-> {},
               deferred |-> DeferredAfter(Setscene, InitUni),
               update |-> TRUE,
               stamp |-> [s \in Setscene |-> InitUni[s]]]
           C == {s \in Setscene : SceneStamped(stamps, s)}
<1>10. InitQueue(valid) = UpdateSceneData(q0, stamps, Setscene, valid)
  BY DEF InitQueue
<1>11. Fields \subseteq DOMAIN q0 /\ q0.covered = {}
  BY DEF Fields
<1> HIDE DEF q0
<1>12. Moved(q, q0, C, {})
  BY <1>9, <1>10, <1>11, SceneDataMoved
<1>13. t \notin C
  BY <1>7, UnbuiltStale DEF stamps
<1> HIDE DEF C
<1>14. t \notin q.covered
  BY <1>11, <1>12, <1>13 DEF Moved
<1> QED
  BY <1>7, <1>8, <1>14 DEF Unrestored

\* A completed task lets none go that was asked for, unless that may run.
LEMMA OutrightForced ==
    ASSUME ForcedAlone, NoHardDeps, Queues, NEW t \in Targets, Unrestored(t),
           NEW x \in Tasks, NEW built, NEW ran, TaskCompleteOutright(x, built, ran),
           running \subseteq ran, x \in ran, tasksrun \subseteq tasksrun',
           x = t => x \in tasksrun',
           files' = files \/ \E h : files' = MakeStamp(files, x, h),
           x \in running \/ x \in NoExec \/ files' = files
    PROVE  Unrestored(t)'
<1> DEFINE C == {d \in DOMAIN q.deferred : SceneStamped(Stamps(files', uni), d)}
<1>1. running' = ran /\ complete' = complete \cup {x}
  BY DEF TaskCompleteOutright
<1>2. Moved(q', q, C, {})
  BY ReleaseMoved DEF TaskCompleteOutright, Queues, Turns
<1>3. Bare(files', t) /\ (x # t /\ Unbuilt(files, t) => Unbuilt(files', t))
  BY MakeStampBare DEF Unrestored
<1>4. t \notin C
  <2>1. CASE t \in running
    BY <2>1 DEF Queues, Started, Turns, FailedForGood, Settled, Unrestored
  <2>2. CASE t \notin running /\ Unbuilt(files', t)
    BY <1>3, <2>2, UnbuiltStale DEF Queues, Turns
  <2>3. CASE t \notin running /\ x = t /\ x \in NoExec
    BY <2>3 DEF ForcedAlone, Queues, Turns
  <2> QED
    BY <1>3, <2>1, <2>2, <2>3 DEF Unrestored
<1> HIDE DEF C
<1>5. t \notin q'.covered \cup q'.live
  BY <1>2, <1>4 DEF Moved, Unrestored
<1>6. t \in complete' => t \in tasksrun'
  BY <1>1 DEF Unrestored
<1>7. t \in running' \/ Unbuilt(files', t)
  BY <1>1, <1>3 DEF Unrestored
<1>8. Bare(files, t)' /\ (t \in running \/ Unbuilt(files, t))'
  BY <1>3, <1>7 DEF Bare, Unbuilt
<1> QED
  BY <1>5, <1>6, <1>8 DEF Unrestored

\* Answers of the workers are for other setscene tasks, or for what was run.
LEMMA ExitForced ==
    ASSUME ForcedAlone, NoHardDeps, Queues, IInv, NEW t \in Targets, Unrestored(t),
           NEW x \in Tasks, NEW ok \in BOOLEAN, ExitMessage(x, ok)
    PROVE  Unrestored(t)'
<1>1. CASE SceneExit(x, ok)
  <2> DEFINE r == IF ok THEN SqTaskComplete(q, {x}) ELSE SqTaskFail(q, stamps, {x})
  <2>1. x \in q.live /\ x \in q.running /\ x \in Setscene /\ x # t
    BY <1>1 DEF SceneExit, Queues, Turns, Unrestored
  <2>2. Moved(r, q, {x}, {}) \/ Moved(r, q, {}, {x})
    <3>1. Moved(SqTaskComplete(q, {x}), q, {x}, {})
      BY <2>1, CompleteMoved DEF Queues, Turns
    <3>2. Moved(SqTaskFail(q, stamps, {x}), q, {}, {x})
      BY <2>1, FailMoved DEF Queues, Turns
    <3> QED
      BY <3>1, <3>2
  <2>3. q' = [r EXCEPT !.live = @ \ {x}]
    BY <1>1 DEF SceneExit
  <2> HIDE DEF r
  <2>4. q'.live = q.live \ {x} /\ q'.covered \subseteq q.covered \cup {x}
    BY <2>2, <2>3 DEF Moved, Fields
  <2>5. running' = running /\ complete' = complete /\ tasksrun' = tasksrun
    BY <1>1 DEF SceneExit, taskVars
  <2>6. \/ files' = files
        \/ files' = MakeSceneStamps(files, {x}, [u \in {x} |-> buildStamps[x][2]])
    BY <1>1 DEF SceneExit
  <2>7. Bare(files', t) /\ (Unbuilt(files, t) => Unbuilt(files', t))
    BY <2>1, <2>6, SceneStampsBare DEF Unrestored
  <2>8. Bare(files, t)' /\ (Unbuilt(files, t) => Unbuilt(files, t)')
    BY <2>7 DEF Bare, Unbuilt
  <2> QED
    BY <2>1, <2>4, <2>5, <2>8 DEF Unrestored
<1>2. CASE TaskExit(x, ok) /\ ok
  <2>1. x \in running
    BY <1>2 DEF TaskExit, ExitMessage, Queues, Started
  <2>2. /\ TaskCompleteOutright(x, buildable, running)
        /\ tasksrun' = tasksrun \cup {x}
        /\ files' = files \/ files' = MakeStamp(files, x, HashOf(x))
    BY <1>2 DEF TaskExit, TaskComplete
  <2> QED
    BY <2>1, <2>2, OutrightForced
<1>3. CASE TaskExit(x, ok) /\ ~ok
  <2>1. /\ q' = q /\ running' = running /\ complete' = complete /\ tasksrun' = tasksrun
        /\ files' = files
    BY <1>3 DEF TaskExit
  <2> QED
    BY <2>1 DEF Unrestored, Bare, Unbuilt
<1> QED
  BY <1>1, <1>2, <1>3 DEF ExitMessage

\* What goes back into the queue has not run, so it has no stamp if it was asked for.
LEMMA MigrateForced ==
    ASSUME ForcedAlone, Queues, IInv, NEW t \in Targets, Unrestored(t), Migrate
    PROVE  Unrestored(t)'
<1> DEFINE queue(hash) ==
             {d \in pending \cup
                     ({c \in DependOn(DOMAIN Rehashed) :
                          hash[c] # Merge(uni, Rehashed)[c]} \cap Setscene) : ~TooLate(d)}
           M(hash) == {d \in queue(hash) : ~Blocked(d)}
<1>1. PICK hash \in NewHashes(Rehashed) :
          /\ files' = MakeSceneStamps(files, M(hash) \cap NoExec, hash)
          /\ \/ q' = q
             \/ \E valid \in SUBSET M(hash) :
                   LET r == IF M(hash) = {} THEN q ELSE Requeue(M(hash), hash, valid)
                   IN  q' = [r EXCEPT !.needed = {}, !.hdeferred = {}, !.update = TRUE]
  BY Zenon DEF Migrate
<1> DEFINE N == M(hash)
<1>2. running' = running /\ complete' = complete /\ tasksrun' = tasksrun
  BY DEF Migrate
<1>3. N \cap (running \cup q.live) = {} /\ files' = MakeSceneStamps(files, N \cap NoExec, hash)
  BY <1>1 DEF TooLate
<1>4. N \subseteq pending \cup Setscene
  OBVIOUS
<1>5. \/ q' = q
      \/ \E valid :
            q' = [(IF N = {} THEN q ELSE Requeue(N, hash, valid))
                     EXCEPT !.needed = {}, !.hdeferred = {}, !.update = TRUE]
  BY <1>1
<1> HIDE DEF N
<1>6. N \in SUBSET Setscene
  BY <1>4 DEF IInv, TaskTypeOK
<1>7. Bare(files', t) /\ (Unbuilt(files, t) => Unbuilt(files', t))
  <2>1. N \cap NoExec \in SUBSET Tasks /\ t \notin N \cap NoExec
    BY <1>6, GraphAssumption DEF GraphAssumption, ForcedAlone
  <2> QED
    BY <1>3, <2>1, SceneStampsBare DEF Unrestored
<1>8. t \notin q'.covered \cup q'.live
  <2>1. ASSUME NEW valid, N # {},
               q' = [Requeue(N, hash, valid)
                        EXCEPT !.needed = {}, !.hdeferred = {}, !.update = TRUE]
        PROVE  t \notin q'.covered \cup q'.live
    <3> DEFINE r == Requeue(N, hash, valid)
               C == {d \in N : SceneStamped(Stamps(files', hash), d)}
    <3>1. Reopened(r, N, C)
      BY <1>6, RequeueMoved DEF Queues, Turns
    <3>2. t \notin C
      <4>1. ASSUME t \in N PROVE ~SceneStamped(Stamps(files', hash), t)
        BY <1>3, <1>6, <1>7, <4>1, UnbuiltStale DEF Unrestored
      <4> QED
        BY <4>1
    <3>3. q' = [r EXCEPT !.needed = {}, !.hdeferred = {}, !.update = TRUE]
      BY <2>1
    <3> HIDE DEF r, C
    <3>4. q'.live = r.live /\ q'.covered = r.covered
      BY <3>1, <3>3 DEF Reopened, Fields
    <3> QED
      BY <3>1, <3>2, <3>4 DEF Reopened, Unrestored
  <2>2. ASSUME q' = [q EXCEPT !.needed = {}, !.hdeferred = {}, !.update = TRUE]
        PROVE  t \notin q'.covered \cup q'.live
    BY <2>2 DEF Queues, Turns, Fields, Unrestored
  <2> QED
    BY <1>5, <2>1, <2>2 DEF Unrestored
<1>9. Bare(files, t)' /\ (Unbuilt(files, t) => Unbuilt(files, t)')
  BY <1>7 DEF Bare, Unbuilt
<1> QED
  BY <1>2, <1>8, <1>9 DEF Unrestored

\* With -f the setscene half of execute() fails what was asked for, or leaves it.
LEMMA SceneForced ==
    ASSUME Forced, Queues, NEW t \in Targets, Unrestored(t), SceneStep
    PROVE  Unrestored(t)'
<1>1. /\ running' = running /\ complete' = complete /\ tasksrun' = tasksrun
      /\ files' = files
  BY DEF SceneStep, SceneNotNeeded, SceneHardWait, SceneFail, SceneSkip, SceneStart,
         SceneNone, SceneUnchanged, taskVars
<1>2. ASSUME NEW x \in Setscene, SceneNotNeeded(x) PROVE Unrestored(t)'
  <2> DEFINE s == SqTaskSkip(q, {x})
             r == [s EXCEPT !.notneeded = @ \cup {x}]
  <2>1. Moved(s, q, {x}, {})
    BY SkipMoved DEF Queues, Turns
  <2>2. q' = Undefer(r, x) /\ x # t
    BY <1>2 DEF SceneNotNeeded
  <2> HIDE DEF s
  <2>3. /\ DOMAIN r = DOMAIN s /\ r.live = s.live
        /\ r.covered = s.covered /\ r.notcovered = s.notcovered
        /\ r.running = s.running /\ r.deferred = s.deferred /\ r.update = s.update
    BY <2>1 DEF Moved, Fields
  <2> HIDE DEF r
  <2>4. Moved(r, q, {x}, {})
    BY <2>1, <2>3 DEF Moved, Settled
  <2>5. Moved(Undefer(r, x), r, {}, {})
    BY <2>4, UndeferMoved DEF Moved
  <2>6. Moved(q', q, {x}, {})
    BY <2>2, <2>4, <2>5, MovedTrans
  <2> QED
    BY <1>1, <2>2, <2>6, MovedForced
<1>3. ASSUME NEW x \in Setscene, SceneHardWait(x) PROVE Unrestored(t)'
  <2>1. q'.live = q.live /\ q'.covered = q.covered
    BY <1>3 DEF SceneHardWait, Queues, Turns, Fields
  <2> QED
    BY <1>1, <2>1 DEF Unrestored, Bare, Unbuilt
<1>4. ASSUME NEW x \in Setscene, SceneFail(x) \/ SceneSkip(x) PROVE Unrestored(t)'
  <2> DEFINE r == Undefer(q, x)
  <2>1. Moved(r, q, {}, {})
    BY UndeferMoved DEF Queues, Turns
  <2>2. q' = SqTaskFail(r, stamps, {x}) \/ (q' = SqTaskSkip(r, {x}) /\ x # t)
    BY <1>4 DEF SceneFail, SceneSkip, SceneUnwanted
  <2> HIDE DEF r
  <2>3. Moved(q', r, {}, {x}) \/ (Moved(q', r, {x}, {}) /\ x # t)
    BY <2>1, <2>2, FailMoved, SkipMoved DEF Moved
  <2>4. Moved(q', q, {}, {x}) \/ (Moved(q', q, {x}, {}) /\ x # t)
    BY <2>1, <2>3, MovedTrans
  <2> QED
    BY <1>1, <2>4, MovedForced
<1>5. ASSUME NEW x \in Setscene, SceneStart(x) PROVE Unrestored(t)'
  <2> DEFINE r == Undefer(q, x)
  <2>1. Moved(r, q, {}, {})
    BY UndeferMoved DEF Queues, Turns
  <2>2. q' = [r EXCEPT !.running = @ \cup {x}, !.live = @ \cup {x}] /\ x # t
    BY <1>5 DEF SceneStart, SceneUnwanted
  <2> HIDE DEF r
  <2>3. q'.live = r.live \cup {x} /\ q'.covered = r.covered
    BY <2>1, <2>2 DEF Moved, Fields
  <2> QED
    BY <1>1, <2>1, <2>2, <2>3 DEF Moved, Unrestored, Bare, Unbuilt
<1>6. CASE SceneNone
  <2>1. q' = q
    BY <1>6 DEF SceneNone
  <2> QED
    BY <1>1, <2>1 DEF Unrestored, Bare, Unbuilt
<1> QED
  BY <1>2, <1>3, <1>4, <1>5, <1>6 DEF SceneStep

\* What was asked for is not skipped: it is not covered, and has no stamp.
LEMMA NotSkipped ==
    ASSUME ForcedAlone, NoHardDeps, Queues, NEW t \in Targets, Unrestored(t), TaskSkip(t)
    PROVE  FALSE
<1>1. t \notin running /\ Unbuilt(files, t) /\ Bare(files, t)
  BY DEF Unrestored, TaskSkip, TaskChoice, Buildable
<1>2. Stale(t)
  BY <1>1, UnbuiltStale DEF Stale, stamps
<1>3. t \in covered /\ ~q.update
  BY <1>2 DEF TaskSkip, Queues, HeldOff
<1>4. IF t \in Setscene THEN t \in q.covered ELSE ~Wanted(t)
  BY <1>3 DEF Queues, Marked
<1>5. t \in Cantskip \/ t \in Setscene
  BY DEF Cantskip
<1> QED
  BY <1>4, <1>5, CoveredClosed DEF Unrestored, Wanted

\* The task half of execute() runs it.
LEMMA TaskForced ==
    ASSUME ForcedAlone, NoHardDeps, Queues, NEW t \in Targets, Unrestored(t), TaskStep
    PROVE  Unrestored(t)'
<1>1. ASSUME NEW x \in Tasks, TaskUnexpected(x) \/ TaskStart(x) PROVE Unrestored(t)'
  <2>1. /\ q' = q /\ running \subseteq running' /\ complete' = complete
        /\ tasksrun' = tasksrun /\ files' = files
    BY <1>1 DEF TaskUnexpected, TaskStart
  <2> QED
    BY <2>1 DEF Unrestored, Bare, Unbuilt
<1>2. ASSUME NEW x \in Tasks, TaskSkip(x) PROVE Unrestored(t)'
  <2>1. /\ TaskCompleteOutright(x, buildable, running \cup {x}) /\ files' = files
        /\ pc = "tasks" /\ x \notin running /\ (x \in covered \/ ~Stale(x))
        /\ tasksrun' = IF x \in covered THEN tasksrun ELSE tasksrun \cup {x}
    BY <1>2 DEF TaskSkip, TaskChoice, Buildable
  <2>2. x # t
    BY <1>2, NotSkipped
  <2>3. tasksrun \subseteq tasksrun'
    BY <2>1
  <2> QED
    BY <2>1, <2>2, <2>3, OutrightForced
<1>3. ASSUME NEW x \in Tasks, TaskNoExec(x) PROVE Unrestored(t)'
  <2>1. /\ TaskCompleteOutright(x, buildable, running \cup {x}) /\ x \in NoExec
        /\ files' = files \/ files' = MakeStamp(files, x, uni[x])
        /\ tasksrun' = tasksrun \cup {x}
    BY <1>3 DEF TaskNoExec, TaskComplete
  <2> QED
    BY <2>1, OutrightForced
<1>4. CASE Wait \/ Stop
  <2>1. /\ q' = q /\ running' = running /\ complete' = complete
        /\ tasksrun' = tasksrun /\ files' = files
    BY <1>4 DEF Wait, Stop, taskVars
  <2> QED
    BY <2>1 DEF Unrestored, Bare, Unbuilt
<1>5. CASE ForceDeferred
  <2>1. PICK x : q' = Undefer(q, x)
    BY <1>5 DEF ForceDeferred
  <2>2. Moved(q', q, {}, {})
    BY <2>1, UndeferMoved DEF Queues, Turns
  <2>3. /\ running' = running /\ complete' = complete
        /\ tasksrun' = tasksrun /\ files' = files
    BY <1>5 DEF ForceDeferred, taskVars
  <2> QED
    BY <2>2, <2>3, MovedForced
<1> QED
  BY <1>1, <1>2, <1>3, <1>4, <1>5 DEF TaskStep

\* Every step leaves what was asked for unrestored.
LEMMA NextForced ==
    ASSUME ForcedAlone, NoHardDeps, Queues, IInv, ForcedOpen, [Next]_vars
    PROVE  ForcedOpen'
<1>1. options' = options
  BY DEF Next, Server, ExitMessage, UniHashMessage, Shutdown, ForceShutdown, Done, vars
<1> SUFFICES ASSUME Forced, NEW t \in Targets PROVE Unrestored(t)'
  BY <1>1 DEF ForcedOpen, Forced
<1>2. Unrestored(t)
  BY DEF ForcedOpen
<1>3. CASE Call \/ Finish \/ ReadDone \/ Shutdown \/ ForceShutdown \/ Done \/ UNCHANGED vars
  <2>1. /\ q' = q /\ running' = running /\ complete' = complete
        /\ tasksrun' = tasksrun /\ files' = files
    BY <1>3 DEF Call, Finish, ReadDone, Shutdown, ForceShutdown, Done, vars, taskVars
  <2> QED
    BY <1>2, <2>1 DEF Unrestored, Bare, Unbuilt
<1>4. ASSUME NEW x \in Tasks, NEW h \in Hashes, UniHashMessage(x, h) PROVE Unrestored(t)'
  <2>1. /\ q' = q /\ running' = running /\ complete' = complete
        /\ tasksrun' = tasksrun /\ files' = files
    BY <1>4 DEF UniHashMessage, taskVars
  <2> QED
    BY <1>2, <2>1 DEF Unrestored, Bare, Unbuilt
<1>5. ASSUME NEW x \in Tasks, NEW ok \in BOOLEAN, ExitMessage(x, ok) PROVE Unrestored(t)'
  BY <1>2, <1>5, ExitForced
<1>6. CASE Holdoff
  <2>1. /\ running' = running /\ complete' = complete
        /\ tasksrun' = tasksrun /\ files' = files
    BY <1>6 DEF Holdoff
  <2>2. q'.covered = q.covered /\ q'.live = q.live
    BY <1>6 DEF Holdoff, UpdateHoldoff, Queues, Turns, Fields
  <2> QED
    BY <1>2, <2>1, <2>2 DEF Unrestored, Bare, Unbuilt
<1>7. CASE Server
  BY <1>2, <1>3, <1>6, <1>7, MigrateForced, SceneForced, TaskForced DEF Server
<1> QED
  BY <1>3, <1>4, <1>5, <1>7 DEF Next

\* What was asked for has only started if it was begun (runQueueTaskStarted).
ForcedBegun == Forced => Targets \cap running \subseteq begun

\* A task that starts without being begun is one that is skipped.
LEMMA NextBegun ==
    ASSUME ForcedAlone, NoHardDeps, Queues, ForcedOpen, ForcedBegun, [Next]_vars
    PROVE  ForcedBegun'
<1>1. options' = options
  BY DEF Next, Server, ExitMessage, UniHashMessage, Shutdown, ForceShutdown, Done, vars
<1> SUFFICES ASSUME Forced, NEW t \in Targets, t \in running' PROVE t \in begun'
  BY <1>1 DEF ForcedBegun, Forced
<1>2. t \in running => t \in begun
  BY DEF ForcedBegun
<1>3. ASSUME running' \subseteq running /\ begun \subseteq begun' PROVE t \in begun'
  BY <1>2, <1>3
<1>4. CASE \/ Call \/ Finish \/ ReadDone \/ Shutdown \/ ForceShutdown \/ Done
           \/ UNCHANGED vars \/ Migrate \/ Holdoff \/ Wait \/ ForceDeferred \/ Stop
  BY <1>3, <1>4 DEF Call, Finish, ReadDone, Shutdown, ForceShutdown, Done, vars, taskVars,
                    Migrate, Holdoff, Wait, ForceDeferred, Stop
<1>5. CASE SceneStep
  BY <1>3, <1>5 DEF SceneStep, SceneNotNeeded, SceneHardWait, SceneFail, SceneSkip,
                    SceneStart, SceneNone, SceneUnchanged, taskVars
<1>6. ASSUME NEW x \in Tasks, \/ \E ok \in BOOLEAN : ExitMessage(x, ok)
                             \/ \E h \in Hashes : UniHashMessage(x, h)
      PROVE  t \in begun'
  BY <1>3, <1>6 DEF ExitMessage, SceneExit, TaskExit, TaskComplete, TaskCompleteOutright,
                    UniHashMessage, taskVars
<1>7. ASSUME NEW x \in Tasks, TaskUnexpected(x) PROVE t \in begun'
  BY <1>3, <1>7 DEF TaskUnexpected
<1>8. ASSUME NEW x \in Tasks, TaskSkip(x) PROVE t \in begun'
  <2>1. running' = running \cup {x} /\ begun' = begun
    BY <1>8 DEF TaskSkip, TaskCompleteOutright
  <2>2. x # t
    BY <1>8, NotSkipped DEF ForcedOpen
  <2> QED
    BY <1>2, <2>1, <2>2
<1>9. ASSUME NEW x \in Tasks, TaskNoExec(x) \/ TaskStart(x) PROVE t \in begun'
  <2>1. running' = running \cup {x} /\ begun' = begun \cup {x}
    BY <1>9 DEF TaskNoExec, TaskStart, TaskComplete, TaskCompleteOutright
  <2> QED
    BY <1>2, <2>1
<1> QED
  BY <1>4, <1>5, <1>6, <1>7, <1>8, <1>9 DEF Next, Server, TaskStep

\* A build that neither the user nor BB_SETSCENE_ENFORCE stops, and that is not for
\* setscene tasks only, winds down because a task failed, and is complete with
\* all tasks.
Verdicts ==
    /\ state \in {"failed", "complete"} => pc = "done"
    /\ ~(Interrupts \/ Enforce \/ SetsceneOnly) =>
          /\ state = "cleanup" => failed # {}
          /\ state = "complete" => complete = Tasks

\* Nothing is decided when the build starts.
LEMMA InitVerdicts == Init => Verdicts
BY DEF Init, Verdicts

\* Steps that leave the verdict to others.
LEMMA StillVerdicts ==
    ASSUME Verdicts, options' = options, failed' = failed,
           \/ state' = state /\ pc' = pc /\ complete' = complete
           \/ state \notin {"failed", "complete"} /\ state' = state
    PROVE  Verdicts'
BY DEF Verdicts, Interrupts, Enforce, SetsceneOnly

\* The verdict is decided by what is complete and what failed.
LEMMA NextVerdicts ==
    ASSUME Verdicts, IInv, [Next]_vars
    PROVE  Verdicts'
<1>1. options' = options
  BY DEF Next, Server, ExitMessage, UniHashMessage, Shutdown, ForceShutdown, Done, vars
<1>2. CASE Done \/ UNCHANGED vars
  BY <1>1, <1>2, StillVerdicts DEF Done, vars, taskVars
<1>3. CASE Call \/ ReadDone
  BY <1>1, <1>3, StillVerdicts DEF Call, ReadDone, taskVars, Verdicts
<1>4. CASE Finish
  BY <1>1, <1>4 DEF Finish, Return, Verdict, Verdicts, taskVars, Interrupts, Enforce,
                    SetsceneOnly
<1>5. CASE Shutdown \/ ForceShutdown
  BY <1>1, <1>5 DEF Shutdown, ForceShutdown, Return, Verdict, Verdicts, taskVars,
                    Interrupts, Enforce, SetsceneOnly
<1>6. ASSUME NEW x \in Tasks, NEW h \in Hashes, UniHashMessage(x, h) PROVE Verdicts'
  BY <1>1, <1>6, StillVerdicts DEF UniHashMessage, taskVars
<1>7. ASSUME NEW x \in Tasks, NEW ok \in BOOLEAN, ExitMessage(x, ok) PROVE Verdicts'
  <2>1. state \notin {"failed", "complete"} /\ pc' = pc
    BY <1>7 DEF ExitMessage, Verdicts
  <2>2. \/ state' = state /\ failed \subseteq failed'
        \/ state' = "cleanup" /\ (Enforce \/ failed' # {})
    BY <1>7 DEF ExitMessage, SceneExit, TaskExit, TaskComplete, TaskFail, taskVars
  <2> QED
    BY <1>1, <2>1, <2>2 DEF Verdicts, Interrupts, Enforce, SetsceneOnly
<1>8. CASE Migrate
  <2> DEFINE queue(hash) ==
               {t \in pending \cup
                       ({d \in DependOn(DOMAIN Rehashed) :
                            hash[d] # Merge(uni, Rehashed)[d]} \cap Setscene) : ~TooLate(t)}
             M(hash) == {t \in queue(hash) : ~Blocked(t)}
             halt(hash) == {t \in M(hash) : NeedsRerun(t)}
  <2>1. PICK hash \in NewHashes(Rehashed) :
            /\ failed' = failed \cup (IF halt(hash) = {} THEN {}
                                      ELSE {CHOOSE t \in halt(hash) : TRUE})
            /\ state' = IF halt(hash) = {} THEN state ELSE "cleanup"
    BY <1>8, Zenon DEF Migrate
  <2>2. pc = "migrate" /\ complete' = complete /\ failed \subseteq failed'
        /\ (state' = state \/ (state' = "cleanup" /\ failed' # {}))
    BY <1>8, <2>1 DEF Migrate
  <2> QED
    BY <1>1, <2>2 DEF Verdicts, Interrupts, Enforce, SetsceneOnly
<1>9. CASE SceneStep
  <2>1. pc = "scene" /\ failed' = failed /\ complete' = complete
    BY <1>9 DEF SceneStep, SceneNotNeeded, SceneHardWait, SceneFail, SceneSkip,
                SceneStart, SceneNone, SceneLoop, SceneUnchanged, taskVars
  <2>2. state' = state
    BY <1>9 DEF SceneStep, SceneNotNeeded, SceneHardWait, SceneFail, SceneSkip,
                SceneStart, SceneNone, Return
  <2> QED
    BY <1>1, <2>1, <2>2, StillVerdicts DEF Verdicts
<1>10. CASE Holdoff
  <2>1. pc = "holdoff" /\ failed' = failed /\ complete' = complete
    BY <1>10 DEF Holdoff
  <2>2. \/ state' = state
        \/ state' = "failed" /\ pc' = "done"
        \/ state' = "complete" /\ pc' = "done" /\ SetsceneOnly
    BY <1>10 DEF Holdoff, Return
  <2> QED
    BY <1>1, <2>1, <2>2 DEF Verdicts, Interrupts, Enforce, SetsceneOnly
<1>11. CASE Stop
  <2>1. /\ state' \in {"failed", "complete"} /\ pc' = "done" /\ complete' = complete
        /\ state' = "complete" => complete \cap running \cap buildable = Tasks
    BY <1>11 DEF Stop, Return, taskVars
  <2> QED
    BY <1>1, <2>1 DEF Verdicts, IInv, TaskTypeOK, Interrupts, Enforce, SetsceneOnly
<1>12. ASSUME NEW x \in Tasks, TaskUnexpected(x) PROVE Verdicts'
  BY <1>1, <1>12 DEF TaskUnexpected, Unexpected, TaskFail, Verdicts, Interrupts,
                     Enforce,
                     SetsceneOnly
<1>13. ASSUME NEW x \in Tasks, TaskSkip(x) \/ TaskNoExec(x) \/ TaskStart(x) PROVE Verdicts'
  <2>1. pc = "tasks" /\ failed' = failed /\ state' = state
    BY <1>13 DEF TaskSkip, TaskNoExec, TaskStart, TaskComplete, Return
  <2> QED
    BY <1>1, <2>1, StillVerdicts DEF Verdicts
<1>14. CASE Wait \/ ForceDeferred
  <2>1. pc = "tasks" /\ failed' = failed /\ state' = state
    BY <1>14 DEF Wait, ForceDeferred, TaskNone, Return, taskVars
  <2> QED
    BY <1>1, <2>1, StillVerdicts DEF Verdicts
<1>15. CASE Server
  BY <1>3, <1>4, <1>8, <1>9, <1>10, <1>11, <1>12, <1>13, <1>14, <1>15
  DEF Server, TaskStep
<1> QED
  BY <1>2, <1>5, <1>6, <1>7, <1>15 DEF Next

\* When a build that nothing cut short is complete, so is every task (Stop, finish).
CompleteIsAll ==
    pc = "done" /\ state = "complete" /\ ~(Interrupts \/ Enforce \/ SetsceneOnly) =>
        complete = Tasks

\* A build that ends complete, neither interrupted nor restricted to setscene tasks,
\* completed every task: the sanity check at the end of execute() has the last word.
THEOREM SpecCompleteIsAll == Spec => []CompleteIsAll
<1>1. Verdicts /\ IInv /\ [Next]_vars => Verdicts'
  BY NextVerdicts
<1>2. Verdicts => CompleteIsAll
  BY DEF Verdicts, CompleteIsAll
<1> QED
  BY <1>1, <1>2, InitVerdicts, SpecIInv, PTL DEF Spec

\* -f: what the user asked for was begun and completed when an uninterrupted build is
\* complete, not restored or found built, whatever stamps there were and whatever
\* other tasks report.
THEOREM SpecForcedRun ==
    ASSUME NoHardDeps, ForcedAlone
    PROVE  Spec => []ForcedRun
<1>1. Init => ForcedOpen /\ ForcedBegun
  BY InitForced DEF Init, ForcedBegun
<1>2. Queues /\ IInv /\ ForcedOpen /\ [Next]_vars => ForcedOpen'
  BY NextForced
<1>3. Queues /\ ForcedOpen /\ ForcedBegun /\ [Next]_vars => ForcedBegun'
  BY NextBegun
<1>4. CompleteIsAll /\ Queues /\ ForcedOpen /\ ForcedBegun => ForcedRun
  BY GraphAssumption DEF CompleteIsAll, Queues, Started, ForcedOpen, ForcedBegun,
                         Unrestored, ForcedRun, GraphAssumption
<1> QED
  BY <1>1, <1>2, <1>3, <1>4, SpecCompleteIsAll, SpecIInv, SpecQueues, PTL DEF Spec

-----------------------------------------------------------------------------
(* The task graph has ends: there is always a task to begin with, and one    *)
(* that nothing else needs.                                                  *)

\* DependOn(X) holds what depends on X directly, and all that depends on those.
LEMMA DependOnClosed ==
    ASSUME NEW X \in SUBSET Tasks
    PROVE  /\ DependOn(X) \subseteq Tasks
           /\ \A t \in X : RevDeps[t] \subseteq DependOn(X)
           /\ \A t \in DependOn(X) : RevDeps[t] \subseteq DependOn(X)
           /\ \A C \in SUBSET Tasks :
                 (\A t \in X \cup C : RevDeps[t] \subseteq C) => DependOn(X) \subseteq C
<1> DEFINE more(Y) == Y \cup UNION {RevDeps[t] : t \in Y}
           step == [Y \in SUBSET Tasks |-> more(Y)]
           Walk(f) == f = [Y \in SUBSET Tasks |-> IF more(Y) = Y THEN Y ELSE f[more(Y)]]
           from == UNION {RevDeps[t] : t \in X}
           end == (CHOOSE f : Walk(f))[from]
<1>1. IsFiniteSet(Tasks) /\ \A t \in Tasks : RevDeps[t] \subseteq Tasks
  BY GraphAssumption DEF GraphAssumption, RevDeps
<1>2. \A Y \in SUBSET Tasks : more(Y) \in SUBSET Tasks /\ Y \subseteq more(Y)
  BY <1>1
<1>3. \A Y, Z \in SUBSET Tasks : Y \subseteq Z => more(Y) \subseteq more(Z)
  OBVIOUS
<1>4. DependOn(X) = end
  BY DEF DependOn
<1>5. \A C \in SUBSET Tasks : more(C) = C <=> \A t \in C : RevDeps[t] \subseteq C
  OBVIOUS
<1>6. /\ from \in SUBSET Tasks /\ \A t \in X : RevDeps[t] \subseteq from
      /\ \A C : (\A t \in X : RevDeps[t] \subseteq C) => from \subseteq C
  BY <1>1
<1> HIDE DEF more, from
<1>7. \A Y \in SUBSET Tasks : step[Y] = more(Y)
  OBVIOUS
<1>8. step \in [SUBSET Tasks -> SUBSET Tasks]
  BY <1>2
<1>9. ASSUME NEW f PROVE Walk(f) <=> Spreads(f, Tasks, step)
  <2>1. [Y \in SUBSET Tasks |-> IF more(Y) = Y THEN Y ELSE f[more(Y)]]
        = [Y \in SUBSET Tasks |-> IF step[Y] = Y THEN Y ELSE f[step[Y]]]
    BY <1>7
  <2> QED
    BY <2>1 DEF Spreads
<1> HIDE DEF step, Walk
<1>10. /\ \E f : Spreads(f, Tasks, step)
       /\ \A f : Spreads(f, Tasks, step) =>
             /\ from \subseteq f[from] /\ f[from] \in Closed(Tasks, step)
             /\ \A C \in Closed(Tasks, step) : from \subseteq C => f[from] \subseteq C
  <2>1. \A Y \in SUBSET Tasks : Y \subseteq step[Y]
    BY <1>2, <1>7
  <2>2. \A Y, Z \in SUBSET Tasks : Y \subseteq Z => step[Y] \subseteq step[Z]
    BY <1>3, <1>7
  <2> QED
    BY <1>1, <1>6, <1>8, <2>1, <2>2, Spreading
<1>11. /\ from \subseteq end /\ end \in Closed(Tasks, step)
       /\ \A C \in Closed(Tasks, step) : from \subseteq C => end \subseteq C
  BY <1>9, <1>10
<1> HIDE DEF end
<1>12. end \subseteq Tasks /\ \A t \in end : RevDeps[t] \subseteq end
  BY <1>5, <1>7, <1>11 DEF Closed
<1>13. \A C \in SUBSET Tasks : (\A t \in X \cup C : RevDeps[t] \subseteq C) => end \subseteq C
  BY <1>5, <1>6, <1>7, <1>11 DEF Closed
<1> QED
  BY <1>4, <1>6, <1>11, <1>12, <1>13

\* What depends on a task that depends on t depends on t, and t does not.
LEMMA DependOnLess ==
    ASSUME NEW t \in Tasks, NEW r \in DependOn({t})
    PROVE  /\ r \in Tasks /\ DependOn({r}) \subseteq DependOn({t})
           /\ r \in DependOn({t}) \ DependOn({r})
<1>1. /\ DependOn({t}) \subseteq Tasks
      /\ \A x \in DependOn({t}) : RevDeps[x] \subseteq DependOn({t})
  BY DependOnClosed
<1>2. r \in Tasks
  BY <1>1
<1>3. \A C \in SUBSET Tasks :
         (\A x \in {r} \cup C : RevDeps[x] \subseteq C) => DependOn({r}) \subseteq C
  BY <1>2, DependOnClosed
<1>4. DependOn({r}) \subseteq DependOn({t})
  BY <1>1, <1>3
<1> QED
  BY <1>2, <1>4, Acyclic

\* Among finitely many sets there is one that holds none of the others.
LEMMA Smallest ==
    ASSUME NEW T, IsFiniteSet(T), NEW F \in [T -> SUBSET T],
           NEW X \in SUBSET T, X # {}
    PROVE  \E x \in X : \A y \in X : F[y] \subseteq F[x] => F[y] = F[x]
<1> DEFINE sizes == {Cardinality(F[x]) : x \in X}
<1>1. \A x \in T : IsFiniteSet(F[x]) /\ Cardinality(F[x]) \in Nat
  BY FS_Subset, FS_CardinalityType
<1>2. sizes \in SUBSET Nat /\ sizes # {}
  BY <1>1
<1>3. PICK m \in sizes : \A k \in sizes : m <= k
  BY <1>2, Least
<1>4. PICK x \in X : m = Cardinality(F[x])
  BY <1>3
<1>5. ASSUME NEW y \in X, F[y] \subseteq F[x] PROVE F[y] = F[x]
  <2> DEFINE A == F[x]
             B == F[y]
  <2>1. Cardinality(A) <= Cardinality(B)
    BY <1>3, <1>4
  <2>2. /\ IsFiniteSet(A) /\ Cardinality(A) \in Nat /\ Cardinality(B) \in Nat
        /\ B \in SUBSET A
    BY <1>1, <1>5
  <2> HIDE DEF A, B
  <2>3. Cardinality(B) <= Cardinality(A) /\ (Cardinality(B) = Cardinality(A) => B = A)
    BY <2>2, FS_Subset
  <2>4. Cardinality(B) = Cardinality(A)
    BY <2>1, <2>2, <2>3
  <2> QED
    BY <2>3, <2>4 DEF A, B
<1> QED
  BY <1>5

\* Every set of tasks has one that none of the others depends on ...
LEMMA Topmost ==
    ASSUME NEW X \in SUBSET Tasks, X # {}
    PROVE  \E t \in X : DependOn({t}) \cap X = {}
<1> DEFINE F == [t \in Tasks |-> DependOn({t})]
<1>1. F \in [Tasks -> SUBSET Tasks]
  BY DependOnClosed
<1>2. PICK t \in X : \A y \in X : F[y] \subseteq F[t] => F[y] = F[t]
  <2>1. IsFiniteSet(Tasks)
    BY GraphAssumption DEF GraphAssumption
  <2> HIDE DEF F
  <2> QED
    BY <1>1, <2>1, Smallest
<1>3. ASSUME NEW r \in DependOn({t}) \cap X PROVE FALSE
  <2>1. F[r] = F[t]
    BY <1>2, <1>3, DependOnLess
  <2> QED
    BY <1>3, <2>1, DependOnLess
<1> QED
  BY <1>3

\* ... and one that depends on none of the others.
LEMMA Lowest ==
    ASSUME NEW X \in SUBSET Tasks, X # {}
    PROVE  \E t \in X : Depends[t] \cap X = {}
<1> DEFINE F == [t \in Tasks |-> Tasks \ DependOn({t})]
<1>1. F \in [Tasks -> SUBSET Tasks]
  OBVIOUS
<1>2. PICK t \in X : \A y \in X : F[y] \subseteq F[t] => F[y] = F[t]
  <2>1. IsFiniteSet(Tasks)
    BY GraphAssumption DEF GraphAssumption
  <2> HIDE DEF F
  <2> QED
    BY <1>1, <2>1, Smallest
<1>3. ASSUME NEW d \in Depends[t] \cap X PROVE FALSE
  <2>1. t \in RevDeps[d]
    BY <1>3 DEF RevDeps
  <2>2. t \in DependOn({d})
    BY <1>3, <2>1, DependOnClosed
  <2>3. DependOn({t}) \subseteq DependOn({d}) /\ t \notin DependOn({t})
    BY <1>3, <2>2, DependOnLess
  <2>4. F[d] \subseteq F[t] /\ t \in F[t] /\ t \notin F[d]
    BY <1>3, <2>2, <2>3
  <2> QED
    BY <1>2, <1>3, <2>4
<1> QED
  BY <1>3

\* Exposed(X) has no more than X and what those of it that are no setscene tasks
\* depend on.
LEMMA ExposedLeast ==
    ASSUME NEW X \in SUBSET Tasks, NEW C \in SUBSET Tasks, X \subseteq C,
           \A t \in C \ Setscene : Depends[t] \subseteq C
    PROVE  Exposed(X) \subseteq C
<1> DEFINE more(Y) == Y \cup UNION {Depends[t] : t \in Y \ Setscene}
           step == [Y \in SUBSET Tasks |-> more(Y)]
           Walk(f) == f = [Y \in SUBSET Tasks |-> IF more(Y) = Y THEN Y ELSE f[more(Y)]]
           end == (CHOOSE f : Walk(f))[X]
<1>1. IsFiniteSet(Tasks) /\ Depends \in [Tasks -> SUBSET Tasks]
  BY GraphAssumption DEF GraphAssumption
<1>2. \A Y \in SUBSET Tasks : more(Y) \in SUBSET Tasks /\ Y \subseteq more(Y)
  BY <1>1
<1>3. \A Y, Z \in SUBSET Tasks : Y \subseteq Z => more(Y) \subseteq more(Z)
  BY <1>1
<1>4. Exposed(X) = end
  BY DEF Exposed
<1>5. more(C) = C
  OBVIOUS
<1> HIDE DEF more
<1>6. \A Y \in SUBSET Tasks : step[Y] = more(Y)
  OBVIOUS
<1>7. step \in [SUBSET Tasks -> SUBSET Tasks]
  BY <1>2
<1>8. ASSUME NEW f PROVE Walk(f) <=> Spreads(f, Tasks, step)
  <2>1. [Y \in SUBSET Tasks |-> IF more(Y) = Y THEN Y ELSE f[more(Y)]]
        = [Y \in SUBSET Tasks |-> IF step[Y] = Y THEN Y ELSE f[step[Y]]]
    BY <1>6
  <2> QED
    BY <2>1 DEF Spreads
<1> HIDE DEF step, Walk
<1>9. /\ \E f : Spreads(f, Tasks, step)
      /\ \A f : Spreads(f, Tasks, step) =>
            \A D \in Closed(Tasks, step) : X \subseteq D => f[X] \subseteq D
  <2>1. \A Y \in SUBSET Tasks : Y \subseteq step[Y]
    BY <1>2, <1>6
  <2>2. \A Y, Z \in SUBSET Tasks : Y \subseteq Z => step[Y] \subseteq step[Z]
    BY <1>3, <1>6
  <2> QED
    BY <1>1, <1>7, <2>1, <2>2, Spreading
<1>10. \A D \in Closed(Tasks, step) : X \subseteq D => end \subseteq D
  BY <1>8, <1>9
<1> QED
  BY <1>4, <1>5, <1>6, <1>10 DEF Closed

\* A setscene task that stands between s and what needs s depends on s.
LEMMA SqRevdepsAbove ==
    ASSUME NEW s \in Setscene
    PROVE  SqRevdeps[s] \subseteq Setscene \cap DependOn({s})
<1> SUFFICES ASSUME NEW r \in SqRevdeps[s] PROVE r \in DependOn({s}) /\ r \in Setscene
  OBVIOUS
<1> USE GraphAssumption DEF GraphAssumption
<1>1. r \in Setscene /\ s \in Exposed(Depends[r])
  BY DEF SqRevdeps
<1> DEFINE C == {x \in Tasks : r \in DependOn({x})}
<1>2. ASSUME NEW t \in Tasks, NEW x \in Depends[t] PROVE x \in Tasks /\ t \in DependOn({x})
  <2>1. x \in Tasks /\ t \in RevDeps[x]
    BY <1>2 DEF RevDeps
  <2> QED
    BY <2>1, DependOnClosed
<1>3. Depends[r] \in SUBSET Tasks /\ Depends[r] \subseteq C
  BY <1>1, <1>2
<1>4. ASSUME NEW t \in C PROVE Depends[t] \subseteq C
  BY <1>2, DependOnLess
<1>5. Exposed(Depends[r]) \subseteq C
  <2> HIDE DEF C
  <2>1. C \in SUBSET Tasks
    BY DEF C
  <2> QED
    BY <1>3, <1>4, <2>1, ExposedLeast
<1> QED
  BY <1>1, <1>5

\* What s stands for is needed by s itself or by a task that s stands for.
LEMMA CoveredParent ==
    ASSUME NEW s \in Setscene, NEW d \in SqCovered[s]
    PROVE  d \in Depends[s] \/ \E r \in SqCovered[s] : d \in Depends[r]
<1> USE GraphAssumption DEF GraphAssumption
<1> DEFINE X == Depends[s]
           C == X \cup UNION {Depends[r] : r \in Exposed(X) \ Setscene}
<1>1. SqCovered[s] = Exposed(X) \ Setscene
  BY DEF SqCovered
<1>2. X \in SUBSET Tasks
  OBVIOUS
<1>3. /\ X \subseteq Exposed(X) /\ Exposed(X) \subseteq Tasks
      /\ \A t \in Exposed(X) \ Setscene : Depends[t] \subseteq Exposed(X)
  BY <1>2, ExposedClosed
<1>4. X \subseteq C /\ C \in SUBSET Tasks /\ C \subseteq Exposed(X)
  BY <1>2, <1>3
<1>5. \A t \in C \ Setscene : Depends[t] \subseteq C
  BY <1>4
<1>6. Exposed(X) \subseteq C
  <2> HIDE DEF C
  <2> QED
    BY <1>2, <1>4, <1>5, ExposedLeast
<1> QED
  BY <1>1, <1>6

\* What has no setscene variant cannot be skipped or has a setscene task that stands
\* for it.
LEMMA Coverage ==
    \A t \in Tasks \ Setscene : t \in Unskippable \/ \E s \in Setscene : t \in SqCovered[s]
<1> DEFINE X == {t \in Tasks \ Setscene :
                    t \notin Unskippable /\ \A s \in Setscene : t \notin SqCovered[s]}
<1>1. CASE X = {}
  BY <1>1
<1>2. CASE X # {}
  <2>1. PICK t \in X : DependOn({t}) \cap X = {}
    BY <1>2, Topmost
  <2>2. RevDeps[t] \cap X = {}
    BY <2>1, DependOnClosed
  <2>3. {x \in Tasks : RevDeps[x] = {}} \cup Cantskip \in SUBSET Tasks
    BY GraphAssumption DEF Cantskip, GraphAssumption
  <2>4. RevDeps[t] # {}
    BY <2>3, ExposedClosed DEF Unskippable
  <2>5. PICK r \in RevDeps[t] : r \in Tasks /\ t \in Depends[r]
    BY <2>4 DEF RevDeps
  <2>6. r \notin X
    BY <2>2, <2>5
  <2> QED
    BY <2>5, <2>6, CoveredClosed
<1> QED
  BY <1>1, <1>2

-----------------------------------------------------------------------------
(* The walk of scenequeue_updatecounters.                                    *)

\* f follows next until it stops, and gives what was seen there.
Follows(f, A, next, seen) ==
    f = [x \in A |-> IF next[x] = x THEN seen[x] ELSE f[next[x]]]

\* What is seen on every set that holds x and all that follows.
Ahead(A, T, next, seen) ==
    [x \in A |-> {e \in T : \A C \in SUBSET A :
                       x \in C /\ (\A z \in C : next[z] \in C) => \E y \in C : e \in seen[y]}]

\* A walk that sees more of a finite set with every step stops, and what its steps
\* keep true is true where it stops.
LEMMA Following ==
    ASSUME NEW A, NEW T, IsFiniteSet(T),
           NEW next \in [A -> A], NEW seen \in [A -> SUBSET T],
           \A x \in A : /\ seen[x] \subseteq seen[next[x]]
                        /\ next[x] # x => seen[next[x]] # seen[x]
    PROVE  /\ \E f : Follows(f, A, next, seen)
           /\ \A f : Follows(f, A, next, seen) =>
                 \A I \in SUBSET A : (\A y \in I : next[y] \in I) =>
                    \A x \in I : \E y \in I :
                        next[y] = y /\ f[x] = seen[y] /\ seen[x] \subseteq seen[y]
<1> DEFINE g == Ahead(A, T, next, seen)
<1>1. ASSUME NEW x \in A, next[x] = x PROVE g[x] = seen[x]
  <2>1. g[x] \subseteq seen[x]
    <3>1. {x} \in SUBSET A /\ \A z \in {x} : next[z] \in {x}
      BY <1>1
    <3> QED
      BY <3>1 DEF Ahead
  <2>2. seen[x] \subseteq g[x]
    BY DEF Ahead
  <2> QED
    BY <2>1, <2>2
<1>2. ASSUME NEW x \in A PROVE g[x] = g[next[x]]
  <2>1. next[x] \in A
    OBVIOUS
  <2>2. g[next[x]] \subseteq g[x]
    BY <2>1 DEF Ahead
  <2>3. ASSUME NEW e \in g[x], NEW C \in SUBSET A, next[x] \in C,
               \A z \in C : next[z] \in C
        PROVE  \E y \in C : e \in seen[y]
    <3>1. C \cup {x} \in SUBSET A /\ \A z \in C \cup {x} : next[z] \in C \cup {x}
      BY <2>3
    <3>2. PICK y \in C \cup {x} : e \in seen[y]
      BY <3>1 DEF Ahead
    <3> QED
      BY <2>3, <3>2
  <2>4. g[x] \subseteq g[next[x]]
    BY <2>1, <2>3 DEF Ahead
  <2> QED
    BY <2>2, <2>4
<1>3. Follows(g, A, next, seen)
  <2>1. g = [x \in A |-> g[x]]
    BY DEF Ahead
  <2>2. \A x \in A : g[x] = IF next[x] = x THEN seen[x] ELSE g[next[x]]
    BY <1>1, <1>2
  <2> HIDE DEF g
  <2> QED
    BY <2>1, <2>2 DEF Follows
<1> HIDE DEF g
<1> SUFFICES ASSUME NEW f, Follows(f, A, next, seen), NEW I \in SUBSET A,
                    \A y \in I : next[y] \in I
             PROVE  \A x \in I : \E y \in I :
                        next[y] = y /\ f[x] = seen[y] /\ seen[x] \subseteq seen[y]
  BY <1>3
<1>4. \A x \in A : f[x] = IF next[x] = x THEN seen[x] ELSE f[next[x]]
  BY DEF Follows
<1> DEFINE good == {x \in I : \E y \in I : /\ next[y] = y
                                           /\ f[x] = seen[y] /\ seen[x] \subseteq seen[y]}
           bad == I \ good
           sizes == {Cardinality(T \ seen[x]) : x \in bad}
<1> HIDE DEF good
<1>5. ASSUME bad # {} PROVE FALSE
  <2>1. \A x \in A : IsFiniteSet(T \ seen[x]) /\ Cardinality(T \ seen[x]) \in Nat
    BY FS_Subset, FS_CardinalityType
  <2>2. sizes \in SUBSET Nat /\ sizes # {}
    <3>1. \A x \in bad : Cardinality(T \ seen[x]) \in Nat
      BY <2>1
    <3> HIDE DEF bad
    <3>2. ASSUME NEW k \in sizes PROVE k \in Nat
      <4>1. PICK x \in bad : k = Cardinality(T \ seen[x])
        OBVIOUS
      <4> QED
        BY <3>1, <4>1
    <3>3. PICK x : x \in bad
      BY <1>5
    <3>4. Cardinality(T \ seen[x]) \in sizes
      BY <3>3
    <3> QED
      BY <3>2, <3>4
  <2>3. PICK m \in sizes : \A k \in sizes : m <= k
    BY <2>2, Least
  <2>4. PICK x \in bad : m = Cardinality(T \ seen[x])
    BY <2>3
  <2>5. x \in A /\ x \in I /\ x \notin good
    BY <2>4
  <2>6. next[x] # x
    BY <1>4, <2>5 DEF good
  <2>7. next[x] \in I /\ next[x] \in A /\ f[x] = f[next[x]]
    BY <1>4, <2>5, <2>6
  <2>8. next[x] \notin good
    BY <2>5, <2>7 DEF good
  <2>9. Cardinality(T \ seen[next[x]]) \in sizes
    BY <2>7, <2>8
  <2> DEFINE old == T \ seen[x]
             new == T \ seen[next[x]]
  <2>10. /\ IsFiniteSet(old) /\ Cardinality(old) \in Nat /\ Cardinality(new) \in Nat
    BY <2>1, <2>5, <2>7
  <2>11. Cardinality(old) <= Cardinality(new)
    BY <2>3, <2>4, <2>9
  <2>12. new \in SUBSET old /\ new # old
    <3>1. /\ seen[x] \subseteq T /\ seen[next[x]] \subseteq T
          /\ seen[x] \subseteq seen[next[x]] /\ seen[x] # seen[next[x]]
      BY <2>5, <2>6, <2>7
    <3> QED
      BY <3>1
  <2> HIDE DEF old, new
  <2>13. Cardinality(new) <= Cardinality(old) /\ Cardinality(new) # Cardinality(old)
    BY <2>10, <2>12, FS_Subset
  <2> QED
    BY <2>10, <2>11, <2>13
<1>6. I \subseteq good
  BY <1>5
<1> QED
  BY <1>6 DEF good

\* With a task, all are processed that only processed tasks depend on.
Processed(done) == \A d \in Tasks \ Setscene : RevDeps[d] \subseteq done => d \in done

\* scenequeue_updatecounters marks the settled tasks as processed, and all that only
\* processed tasks depend on.
LEMMA DoneProcessed ==
    ASSUME NEW done \in SUBSET Tasks, NEW S \in SUBSET Tasks, Processed(done)
    PROVE  /\ done \cup S \subseteq DoneFrom(done, S)
           /\ DoneFrom(done, S) \subseteq Tasks
           /\ Processed(DoneFrom(done, S))
<1> DEFINE below(seen, next) == {d \in UNION {Depends[t] : t \in next} :
                                    d \notin Setscene \cup seen /\ RevDeps[d] \subseteq seen}
           A == (SUBSET Tasks) \X (SUBSET Tasks)
           new(at) == below(at[1], at[2])
           step(at) == <<at[1] \cup new(at), new(at)>>
           Walk(f) == f = [at \in A |-> IF new(at) = {} THEN at[1] ELSE f[step(at)]]
           end == (CHOOSE f : Walk(f))[<<done \cup S, S>>]
           next == [at \in A |-> IF new(at) = {} THEN at ELSE step(at)]
           seen == [at \in A |-> at[1]]
           I == {at \in A : \A d \in Tasks \ Setscene :
                     RevDeps[d] \subseteq at[1] /\ d \notin at[1] => RevDeps[d] \cap at[2] # {}}
<1>1. IsFiniteSet(Tasks) /\ \A t \in Tasks : Depends[t] \subseteq Tasks
  BY GraphAssumption DEF GraphAssumption
<1>2. DoneFrom(done, S) = end
  BY DEF DoneFrom
<1>3. \A at \in A : at[1] \in SUBSET Tasks /\ at[2] \in SUBSET Tasks /\ at = <<at[1], at[2]>>
  OBVIOUS
<1>4. \A at \in A : new(at) \in SUBSET Tasks /\ new(at) \cap at[1] = {}
  BY <1>1, <1>3
<1>5. ASSUME NEW at \in I PROVE new(at) # {} => step(at) \in I
  <2>1. \A d \in Tasks \ Setscene :
           RevDeps[d] \subseteq at[1] /\ d \notin at[1] => d \in new(at)
    BY DEF RevDeps
  <2>2. step(at) \in A
    BY <1>3, <1>4
  <2>3. step(at)[1] = at[1] \cup new(at) /\ step(at)[2] = new(at)
    OBVIOUS
  <2> HIDE DEF new, step
  <2> QED
    BY <2>1, <2>2, <2>3
<1>6. ASSUME NEW at \in I, new(at) = {} PROVE Processed(at[1])
  BY <1>6 DEF Processed, RevDeps
<1>7. <<done \cup S, S>> \in I
  <2>1. <<done \cup S, S>> \in A
    OBVIOUS
  <2> QED
    BY <2>1 DEF Processed
<1>8. \A at \in A : next[at] \in A /\ (next[at] = at <=> new(at) = {})
  <2> SUFFICES ASSUME NEW at \in A PROVE next[at] \in A /\ (next[at] = at <=> new(at) = {})
    OBVIOUS
  <2>1. next[at] = IF new(at) = {} THEN at ELSE step(at)
    OBVIOUS
  <2>2. step(at) \in A /\ step(at)[1] = at[1] \cup new(at)
    BY <1>3, <1>4
  <2>3. new(at) # {} => step(at)[1] # at[1]
    BY <1>4, <2>2
  <2> HIDE DEF next, new, step
  <2> QED
    BY <2>1, <2>2, <2>3
<1>9. \A at \in A : next[at] = IF new(at) = {} THEN at ELSE step(at)
  OBVIOUS
<1>10. \A at \in A : step(at)[1] = at[1] \cup new(at)
  OBVIOUS
<1> HIDE DEF new, step
<1>11. ASSUME NEW f PROVE Walk(f) <=> Follows(f, A, next, seen)
  <2>1. [at \in A |-> IF new(at) = {} THEN at[1] ELSE f[step(at)]]
        = [at \in A |-> IF next[at] = at THEN seen[at] ELSE f[next[at]]]
    <3>1. ASSUME NEW at \in A
          PROVE  (IF new(at) = {} THEN at[1] ELSE f[step(at)])
                 = IF next[at] = at THEN seen[at] ELSE f[next[at]]
      BY <1>8, <1>9
    <3> QED
      BY <3>1
  <2> QED
    BY <2>1 DEF Follows
<1>12. next \in [A -> A] /\ seen \in [A -> SUBSET Tasks]
  <2>1. next \in [A -> A]
    <3>1. next = [at \in A |-> next[at]]
      OBVIOUS
    <3> HIDE DEF next
    <3> QED
      BY <1>8, <3>1
  <2>2. seen \in [A -> SUBSET Tasks]
    BY <1>3
  <2> QED
    BY <2>1, <2>2
<1>13. \A at \in A : /\ seen[at] \subseteq seen[next[at]]
                     /\ next[at] # at => seen[next[at]] # seen[at]
  <2> SUFFICES ASSUME NEW at \in A
               PROVE  /\ seen[at] \subseteq seen[next[at]]
                      /\ next[at] # at => seen[next[at]] # seen[at]
    OBVIOUS
  <2>1. seen[at] = at[1] /\ seen[next[at]] = next[at][1]
    BY <1>8
  <2> HIDE DEF next, seen
  <2> QED
    BY <1>4, <1>8, <1>9, <1>10, <2>1
<1>14. I \in SUBSET A /\ \A at \in I : next[at] \in I
  <2>1. \A at \in I : at \in A
    OBVIOUS
  <2> HIDE DEF I
  <2> QED
    BY <1>5, <1>9, <2>1
<1>15. \A at \in A : seen[at] = at[1]
  OBVIOUS
<1> DEFINE from == <<done \cup S, S>>
<1>16. from[1] = done \cup S
  OBVIOUS
<1> HIDE DEF A, I, next, seen, Walk, from
<1>17. /\ \E f : Follows(f, A, next, seen)
       /\ \A f : Follows(f, A, next, seen) =>
             \A x \in I : \E y \in I :
                 next[y] = y /\ f[x] = seen[y] /\ seen[x] \subseteq seen[y]
  BY <1>1, <1>12, <1>13, <1>14, Following
<1>18. \E y \in I : next[y] = y /\ end = seen[y] /\ seen[from] \subseteq seen[y]
  <2> DEFINE w == CHOOSE f : Walk(f)
  <2>1. Walk(w)
    BY <1>11, <1>17
  <2>2. end = w[from]
    BY DEF from
  <2> HIDE DEF w, end
  <2>3. Follows(w, A, next, seen)
    BY <1>11, <2>1
  <2>4. from \in I
    BY <1>7 DEF from
  <2> QED
    BY <1>17, <2>2, <2>3, <2>4
<1>19. PICK y \in I : next[y] = y /\ end = y[1] /\ done \cup S \subseteq y[1]
  BY <1>7, <1>14, <1>15, <1>16, <1>18 DEF from
<1>20. y \in A /\ new(y) = {}
  BY <1>8, <1>14, <1>19
<1>21. y[1] \in SUBSET Tasks
  BY <1>3, <1>20
<1> QED
  BY <1>2, <1>6, <1>19, <1>20, <1>21

-----------------------------------------------------------------------------
(* What the operators of SceneQueue do to the rest of the bookkeeping.       *)

\* The bookkeeping of q adds up but for the tasks S, which have just been settled:
\* settled tasks are processed, those that had their turn are settled or run, and
\* one that only settled tasks need is up for choice.
Sound(p, S) ==
    /\ Fields \cup {"buildable", "done", "hdeferred"} \subseteq DOMAIN p
    /\ p.hdeferred = {}
    /\ p.done \subseteq Tasks /\ Processed(p.done) /\ Settled(p) \subseteq p.done \cup S
    /\ p.running \subseteq p.buildable \cap (Settled(p) \cup p.live)
    /\ p.buildable \subseteq Setscene
    /\ \A s \in Setscene : SqRevdeps[s] \subseteq Settled(p) \ S => s \in p.buildable

\* r is p with no fewer settled, and update_holdofftasks is due if anything changed.
Grown(r, p) ==
    /\ p.covered \subseteq r.covered /\ p.notcovered \subseteq r.notcovered
    /\ p.update => r.update
    /\ \/ r.update
       \/ r.covered = p.covered /\ r.notcovered = p.notcovered /\ r.done = p.done

\* Such steps compose.
LEMMA GrownTrans ==
    ASSUME NEW o, NEW p, NEW r, Grown(p, o), Grown(r, p)
    PROVE  Grown(r, o)
BY DEF Grown

\* Counting the settled tasks makes up for them.
LEMMA CountersSound ==
    ASSUME NoHardDeps, NEW p, NEW S \in SUBSET Setscene, Sound(p, S)
    PROVE  Sound(UpdateCounters(p, S), {}) /\ Counted(UpdateCounters(p, S), p)
<1> DEFINE u == UpdateCounters(p, S)
           more == {d \in UNION {SqDeps[s] : s \in S} : SqRevdeps[d] \subseteq Settled(p)}
           all == DoneFrom(p.done, S)
<1>1. Counted(u, p)
  BY CountersSame DEF Sound
<1>2. S \in SUBSET Tasks /\ p.done \in SUBSET Tasks
  BY GraphAssumption DEF GraphAssumption, Sound
<1>3. p.done \cup S \subseteq all /\ all \subseteq Tasks /\ Processed(all)
  BY <1>2, DoneProcessed DEF Sound
<1> HIDE DEF all
<1>4. ASSUME NEW s \in Setscene, SqRevdeps[s] \subseteq Settled(p)
      PROVE  s \in p.buildable \cup more
  <2>1. CASE SqRevdeps[s] \cap S = {}
    BY <1>4, <2>1 DEF Sound
  <2>2. CASE SqRevdeps[s] \cap S # {}
    <3>1. PICK x \in S : x \in SqRevdeps[s]
      BY <2>2
    <3>2. s \in SqDeps[x]
      BY <3>1 DEF SqDeps
    <3> QED
      BY <1>4, <3>1, <3>2
  <2> QED
    BY <2>1, <2>2
<1>5. more \subseteq Setscene
  BY DEF SqDeps
<1> HIDE DEF more
<1>6. u = [p EXCEPT !.buildable = @ \cup more, !.done = all,
                    !.hdeferred = IF \E s \in S : HardDeps[s] # {}
                                  THEN {d \in @ : ~(HardDepsRev[d] \subseteq Settled(p))}
                                  ELSE @,
                    !.update = TRUE]
  BY DEF UpdateCounters, more, all
<1>7. /\ DOMAIN u = DOMAIN p
      /\ u.buildable = p.buildable \cup more /\ u.done = all /\ u.hdeferred = {}
  BY <1>6 DEF Sound
<1> HIDE DEF u
<1>8. Settled(u) = Settled(p)
  BY <1>1 DEF Counted, Settled
<1>9. Sound(u, {})
  <2>1. /\ u.running \subseteq u.buildable \cap (Settled(u) \cup u.live)
        /\ u.buildable \subseteq Setscene
    BY <1>1, <1>5, <1>7, <1>8 DEF Sound, Counted
  <2>2. \A s \in Setscene : SqRevdeps[s] \subseteq Settled(u) \ {} => s \in u.buildable
    BY <1>4, <1>7, <1>8
  <2>3. Settled(u) \subseteq u.done \cup {}
    BY <1>3, <1>7, <1>8 DEF Sound
  <2> QED
    BY <1>3, <1>7, <2>1, <2>2, <2>3 DEF Sound
<1> QED
  BY <1>1, <1>9 DEF u

\* Settling tasks that had their turn.
LEMMA SettleSound ==
    ASSUME NoHardDeps, NEW p, NEW r, NEW S \in SUBSET Setscene, Sound(p, {}),
           /\ DOMAIN r = DOMAIN p /\ r.live = p.live /\ r.done = p.done /\ r.hdeferred = {}
           /\ p.covered \subseteq r.covered /\ p.notcovered \subseteq r.notcovered
           /\ Settled(r) = Settled(p) \cup S
           /\ p.buildable \subseteq r.buildable /\ r.buildable \subseteq p.buildable \cup S
           /\ r.running \subseteq p.running \cup S /\ r.running \subseteq r.buildable
    PROVE  /\ Sound(UpdateCounters(r, S), {}) /\ Counted(UpdateCounters(r, S), r)
           /\ Grown(UpdateCounters(r, S), p)
<1>1. Sound(r, S)
  BY DEF Sound
<1>2. Sound(UpdateCounters(r, S), {}) /\ Counted(UpdateCounters(r, S), r)
  BY <1>1, CountersSound
<1> QED
  BY <1>2 DEF Counted, Grown

\* So for one that was restored (sq_task_complete) ...
LEMMA CompleteSound ==
    ASSUME NoHardDeps, NEW p, Sound(p, {}), NEW S \in SUBSET Setscene, S \subseteq p.running
    PROVE  /\ Sound(SqTaskComplete(p, S), {}) /\ Grown(SqTaskComplete(p, S), p)
           /\ S \subseteq Settled(SqTaskComplete(p, S))
<1> DEFINE r == [p EXCEPT !.covered = @ \cup S]
<1>1. /\ DOMAIN r = DOMAIN p /\ r.live = p.live /\ r.done = p.done /\ r.hdeferred = {}
      /\ r.covered = p.covered \cup S /\ r.notcovered = p.notcovered
      /\ r.buildable = p.buildable /\ r.running = p.running
  BY DEF Sound, Fields
<1>2. SqTaskComplete(p, S) = UpdateCounters(r, S)
  BY DEF SqTaskComplete
<1> HIDE DEF r
<1>3. Settled(r) = Settled(p) \cup S /\ r.running \subseteq r.buildable
  BY <1>1 DEF Settled, Sound
<1>4. /\ Sound(UpdateCounters(r, S), {}) /\ Counted(UpdateCounters(r, S), r)
      /\ Grown(UpdateCounters(r, S), p)
  BY <1>1, <1>3, SettleSound
<1> QED
  BY <1>1, <1>2, <1>4 DEF Counted, Settled

\* ... for one that is skipped (sq_task_skip) ...
LEMMA SkipSound ==
    ASSUME NoHardDeps, NEW p, Sound(p, {}), NEW S \in SUBSET Setscene
    PROVE  Sound(SqTaskSkip(p, S), {}) /\ Grown(SqTaskSkip(p, S), p)
<1> DEFINE o == [p EXCEPT !.running = @ \cup S, !.buildable = @ \cup S]
           r == [o EXCEPT !.covered = @ \cup S]
<1>1. /\ DOMAIN o = DOMAIN p /\ o.live = p.live /\ o.done = p.done /\ o.hdeferred = {}
      /\ o.covered = p.covered /\ o.notcovered = p.notcovered
      /\ o.buildable = p.buildable \cup S /\ o.running = p.running \cup S
  BY DEF Sound, Fields
<1>2. SqTaskSkip(p, S) = UpdateCounters(r, S)
  BY DEF SqTaskSkip, SqTaskComplete
<1> HIDE DEF o
<1>3. /\ DOMAIN r = DOMAIN p /\ r.live = p.live /\ r.done = p.done /\ r.hdeferred = {}
      /\ r.covered = p.covered \cup S /\ r.notcovered = p.notcovered
      /\ r.buildable = p.buildable \cup S /\ r.running = p.running \cup S
  BY <1>1 DEF Sound, Fields
<1> HIDE DEF r
<1>4. Settled(r) = Settled(p) \cup S /\ r.running \subseteq r.buildable
  BY <1>3 DEF Settled, Sound
<1> QED
  BY <1>2, <1>3, <1>4, SettleSound

\* ... and for one that failed, which takes none along (sq_task_failoutright).
LEMMA FailSound ==
    ASSUME NoHardDeps, NEW p, Sound(p, {}), NEW st, NEW S \in SUBSET Setscene
    PROVE  /\ Sound(SqTaskFail(p, st, S), {}) /\ Grown(SqTaskFail(p, st, S), p)
           /\ S \subseteq Settled(SqTaskFail(p, st, S))
<1> DEFINE F == Unavailable(p, st, S)
           r == [p EXCEPT !.running = @ \cup F, !.buildable = @ \cup F,
                          !.notcovered = @ \cup F]
<1>1. F = S
  BY UnavailableOpen
<1>2. SqTaskFail(p, st, S) = UpdateCounters(r, F)
  BY DEF SqTaskFail
<1> HIDE DEF F
<1>3. /\ DOMAIN r = DOMAIN p /\ r.live = p.live /\ r.done = p.done /\ r.hdeferred = {}
      /\ r.covered = p.covered /\ r.notcovered = p.notcovered \cup S
      /\ r.buildable = p.buildable \cup S /\ r.running = p.running \cup S
  BY <1>1 DEF Sound, Fields
<1> HIDE DEF r
<1>4. Settled(r) = Settled(p) \cup S /\ r.running \subseteq r.buildable
  BY <1>3 DEF Settled, Sound
<1>5. /\ Sound(UpdateCounters(r, S), {}) /\ Counted(UpdateCounters(r, S), r)
      /\ Grown(UpdateCounters(r, S), p)
  BY <1>3, <1>4, SettleSound
<1> QED
  BY <1>1, <1>2, <1>3, <1>5 DEF Counted, Settled

\* Changing other fields changes nothing about it.
LEMMA OtherSound ==
    ASSUME NEW p, Sound(p, {}), NEW r,
           /\ DOMAIN r = DOMAIN p /\ r.live = p.live /\ r.done = p.done /\ r.hdeferred = {}
           /\ r.covered = p.covered /\ r.notcovered = p.notcovered
           /\ r.buildable = p.buildable /\ r.running = p.running /\ r.update = p.update
    PROVE  Sound(r, {}) /\ Grown(r, p)
<1>1. Settled(r) = Settled(p)
  BY DEF Settled
<1> QED
  BY <1>1 DEF Sound, Grown

\* update_scenequeue_data settles those with a stamp.
LEMMA SceneDataSound ==
    ASSUME NoHardDeps, NEW p, Sound(p, {}), NEW st, NEW T \in SUBSET Setscene, NEW valid
    PROVE  /\ Sound(UpdateSceneData(p, st, T, valid), {})
           /\ Grown(UpdateSceneData(p, st, T, valid), p)
<1> DEFINE stamped == {t \in T : SceneStamped(st, t)}
           r == IF stamped = {} THEN p ELSE SqTaskSkip(p, stamped)
           u == UpdateSceneData(p, st, T, valid)
<1>1. stamped \in SUBSET Setscene
  OBVIOUS
<1> HIDE DEF stamped
<1>2. Sound(r, {}) /\ Grown(r, p)
  BY <1>1, SkipSound DEF Grown
<1> HIDE DEF r
<1>3. u = [r EXCEPT !.outright =
            (@ \ T) \cup {t \in T \ (valid \cup stamped) :
                             t \notin Settled(r) \cup DOMAIN r.deferred}]
  BY DEF UpdateSceneData, r, stamped
<1> HIDE DEF u
<1>4. /\ DOMAIN u = DOMAIN r /\ u.live = r.live /\ u.done = r.done /\ u.hdeferred = {}
      /\ u.covered = r.covered /\ u.notcovered = r.notcovered
      /\ u.buildable = r.buildable /\ u.running = r.running /\ u.update = r.update
  BY <1>2, <1>3 DEF Sound, Fields
<1>5. Sound(u, {}) /\ Grown(u, r)
  BY <1>2, <1>4, OtherSound
<1> QED
  BY <1>2, <1>5, GrownTrans DEF u

\* Who waits for whom plays no part.
LEMMA DeferredSound ==
    ASSUME NEW p, Sound(p, {}), NEW f
    PROVE  Sound([p EXCEPT !.deferred = f], {}) /\ Grown([p EXCEPT !.deferred = f], p)
<1> DEFINE r == [p EXCEPT !.deferred = f]
<1>1. /\ DOMAIN r = DOMAIN p /\ r.live = p.live /\ r.done = p.done /\ r.hdeferred = {}
      /\ r.covered = p.covered /\ r.notcovered = p.notcovered
      /\ r.buildable = p.buildable /\ r.running = p.running /\ r.update = p.update
  BY DEF Sound, Fields
<1> HIDE DEF r
<1>2. Sound(r, {}) /\ Grown(r, p)
  BY <1>1, OtherSound
<1> QED
  BY <1>2 DEF r

\* Letting go of a duplicate settles it if it has a stamp (task_completeoutright).
LEMMA ReleaseSound ==
    ASSUME NoHardDeps, NEW p, Sound(p, {}), DOMAIN p.deferred \subseteq Setscene,
           NEW st, NEW t, NEW valid
    PROVE  /\ Sound(ReleaseDeferred(p, st, t, valid), {})
           /\ Grown(ReleaseDeferred(p, st, t, valid), p)
<1> DEFINE waiting == {d \in DOMAIN p.deferred : p.deferred[d] = t}
           found == CHOOSE d \in waiting : TRUE
           after == [d \in DOMAIN p.deferred \ {found} |->
                        IF d \in waiting THEN found ELSE p.deferred[d]]
           r == [p EXCEPT !.deferred = after]
<1>1. CASE waiting = {}
  BY <1>1 DEF ReleaseDeferred, Grown
<1>2. CASE waiting # {}
  <2>1. ReleaseDeferred(p, st, t, valid) = UpdateSceneData(r, st, {found}, valid)
    BY <1>2 DEF ReleaseDeferred
  <2>2. {found} \in SUBSET Setscene
    BY <1>2
  <2> HIDE DEF after, found
  <2>3. Sound(r, {}) /\ Grown(r, p)
    BY DeferredSound
  <2> HIDE DEF r
  <2>4. /\ Sound(UpdateSceneData(r, st, {found}, valid), {})
        /\ Grown(UpdateSceneData(r, st, {found}, valid), r)
    BY <2>2, <2>3, SceneDataSound
  <2> QED
    BY <2>1, <2>3, <2>4, GrownTrans
<1> QED
  BY <1>1, <1>2

\* Nor does it matter that a task is no longer deferred.
LEMMA UndeferSound ==
    ASSUME NEW p, Sound(p, {}), NEW t
    PROVE  /\ Sound(Undefer(p, t), {}) /\ Grown(Undefer(p, t), p)
           /\ Undefer(p, t).buildable = p.buildable /\ Undefer(p, t).running = p.running
<1> DEFINE f == [d \in DOMAIN p.deferred \ {t} |-> p.deferred[d]]
<1>1. Undefer(p, t) = [p EXCEPT !.deferred = f]
  BY DEF Undefer
<1> HIDE DEF f
<1>2. [p EXCEPT !.deferred = f].buildable = p.buildable
      /\ [p EXCEPT !.deferred = f].running = p.running
  BY DEF Sound, Fields
<1> QED
  BY <1>1, <1>2, DeferredSound

\* Back in the queue go the migrated tasks, and to be processed again what they
\* stand for and is not built yet.
LEMMA RequeueSound ==
    ASSUME NoHardDeps, Sound(q, {}), Settled(q) \subseteq Setscene, DepsFirst,
           complete \subseteq running, running \subseteq Tasks,
           NEW M \in SUBSET Setscene, M \cap q.live = {}, NEW hash, NEW valid
    PROVE  Sound(Requeue(M, hash, valid), {})
<1> DEFINE below == (UNION {SqCovered[t] : t \in M}) \ (complete \cup Unskippable)
           q1 == [q EXCEPT !.done = @ \ (M \cup below),
                        !.buildable = @ \ M, !.running = @ \ M, !.outright = @ \ M,
                        !.covered = @ \ M, !.notcovered = @ \ M, !.notneeded = @ \ M,
                        !.stamp = [t \in Setscene |-> IF t \in M THEN hash[t] ELSE @[t]]]
           lost == {t \in M : HardDepsRev[t] \cap q1.notcovered # {}}
           ready == {t \in M : \/ SqRevdeps[t] = {}
                               \/ t \notin lost /\ SqRevdeps[t] \subseteq Settled(q1)}
           again == DeferredAfter(M, hash)
           q2 == [q1 EXCEPT !.buildable = @ \cup ready,
                            !.deferred = Merge(@, again)]
           st == Stamps(files', hash)
           q3 == UpdateSceneData(q2, st, M, valid)
<1>1. /\ DOMAIN q1 = DOMAIN q /\ q1.live = q.live /\ q1.hdeferred = {}
      /\ q1.done = q.done \ (M \cup below)
      /\ q1.covered = q.covered \ M /\ q1.notcovered = q.notcovered \ M
      /\ q1.buildable = q.buildable \ M /\ q1.running = q.running \ M
  BY DEF Sound, Fields
<1>2. Requeue(M, hash, valid) = SqTaskFail(q3, st, lost)
  BY DEF Requeue
<1>3. lost = {}
  BY DEF NoHardDeps
<1>4. \A t \in M : SqRevdeps[t] \subseteq Settled(q1) => t \in ready
  BY <1>3
<1> HIDE DEF q1
<1>5. ready \subseteq M
  OBVIOUS
<1>6. /\ \A d \in below : d \notin Setscene /\ d \notin complete /\ d \notin Unskippable
      /\ \A d \in below : \E t \in M : d \in SqCovered[t]
      /\ \A t \in M : SqCovered[t] \subseteq below \cup complete \cup Unskippable
  BY CoveredClosed
<1> HIDE DEF ready, again, lost, st, below
<1>7. /\ DOMAIN q2 = DOMAIN q /\ q2.live = q.live /\ q2.hdeferred = {}
      /\ q2.done = q.done \ (M \cup below)
      /\ q2.covered = q.covered \ M /\ q2.notcovered = q.notcovered \ M
      /\ q2.buildable = (q.buildable \ M) \cup ready /\ q2.running = q.running \ M
  BY <1>1 DEF Sound, Fields
<1> HIDE DEF q2
<1>8. Processed(q.done \ (M \cup below))
  <2> SUFFICES ASSUME NEW d \in Tasks \ Setscene, RevDeps[d] \subseteq q.done \ (M \cup below)
               PROVE  d \in q.done \ (M \cup below)
    BY DEF Processed
  <2>1. d \in q.done /\ d \notin M
    BY DEF Sound, Processed
  <2>2. ASSUME d \in below PROVE FALSE
    <3>1. PICK t \in M : d \in SqCovered[t]
      BY <1>6, <2>2
    <3>2. t \in Tasks /\ SqCovered[t] \subseteq Tasks \ Setscene
      BY CoveredClosed, GraphAssumption DEF GraphAssumption
    <3>3. d \in Depends[t] \/ \E r \in SqCovered[t] : d \in Depends[r]
      BY <3>1, CoveredParent
    <3>4. d \notin Depends[t]
      BY <3>2 DEF RevDeps
    <3>5. PICK r \in SqCovered[t] : d \in Depends[r]
      BY <3>3, <3>4
    <3>6. r \in RevDeps[d] /\ r \in Tasks \ Setscene
      BY <3>2, <3>5 DEF RevDeps
    <3>7. r \in complete \cup Unskippable
      BY <1>6, <3>6
    <3> QED
      BY <1>6, <2>2, <3>5, <3>6, <3>7, CoveredClosed DEF DepsFirst
  <2> QED
    BY <2>1, <2>2
<1>9. Sound(q2, {})
  <2>1. Settled(q2) = Settled(q) \ M /\ Settled(q1) = Settled(q2)
    BY <1>1, <1>7 DEF Settled
  <2>2. Settled(q2) \subseteq q2.done \cup {}
    BY <1>6, <1>7, <2>1 DEF Sound, Settled
  <2>3. /\ q2.running \subseteq q2.buildable \cap (Settled(q2) \cup q2.live)
        /\ q2.buildable \subseteq Setscene
    BY <1>5, <1>7, <2>1 DEF Sound
  <2>4. \A s \in Setscene : SqRevdeps[s] \subseteq Settled(q2) \ {} => s \in q2.buildable
    BY <1>4, <1>7, <2>1 DEF Sound
  <2> QED
    BY <1>7, <1>8, <2>2, <2>3, <2>4 DEF Sound
<1>10. Sound(q3, {})
  BY <1>9, SceneDataSound
<1> HIDE DEF q3
<1> QED
  BY <1>2, <1>3, <1>10, FailSound

-----------------------------------------------------------------------------
(* The ledger of a build: nothing is lost between the queues.                *)

\* Nothing that an unsettled setscene task stands for runs, nor has it started.
Clear == \A s \in Setscene \ Settled(q) : s \notin running /\ RunningNow(SqCovered[s]) = {}

\* A migration that waits is that of a setscene task that failed.
Parked == pending \subseteq q.notcovered /\ Tasks \subseteq DOMAIN uni

\* A task that started is complete, failed or in a worker, and only one of these.
Accounts ==
    /\ running \subseteq buildable
    /\ ~Enforce =>
          /\ running \subseteq complete \cup failed \cup (InFlight \ q.live)
          /\ (InFlight \ q.live) \cap (complete \cup failed) = {}
          /\ failed \subseteq running

\* What update_holdofftasks left: the processed tasks that run or are covered are
\* known as such, and buildable once they can be, and no task is held off without
\* a setscene task to wait for.
UpTo(p, built, cov, not, hold) ==
    ~p.update =>
        /\ \A t \in p.done :
              (\/ t \in Settled(p) \cup (Unskippable \ Setscene)
               \/ \E s \in Settled(p) : t \in SqCovered[s]) => t \in cov \cup not
        /\ \A t \in Tasks \cap (cov \cup not) : Depends[t] \subseteq complete => t \in built
        /\ hold \subseteq UNION {{s} \cup SqCovered[s] : s \in Setscene \ Settled(p)}
UpToDate == UpTo(q, buildable, covered, notcovered, holdoff)

\* New hashes that wait in execute() are those of tasks that run.
Waiting ==
    pc \in {"scene", "holdoff", "tasks"} => \A u \in updated : u[1] \in RunningNow(Tasks)

\* The setscene queue is finished when all are settled; with --setscene-only the
\* build ends there.
Finished ==
    /\ sqdone => Setscene \subseteq Settled(q)
    /\ SetsceneOnly /\ Setscene # {} => ~sqdone

\* The look for a setscene task comes first, then that for the end of their queue.
Tried ==
    /\ pc \in {"holdoff", "tasks"} =>
          sqdone \/ ~CanStart(active, q.live) \/ q.live # {} \/ Candidates = {}
    /\ pc = "tasks" =>
          sqdone \/ q.live # {} \/ DOMAIN q.deferred # {} \/ updated # {} \/ holdoff # {}

\* A build winds down because it was told to stop at a failure.
StopsEarly == state = "cleanup" => Halt \/ Enforce \/ Interrupts

\* The inductive invariant of how a build ends.
Ledger ==
    /\ Sound(q, {})
    /\ Clear /\ Parked /\ Accounts /\ UpToDate /\ Waiting /\ Finished /\ Tried /\ StopsEarly

-----------------------------------------------------------------------------
\* What a build starts with adds up.
LEMMA InitLedger ==
    ASSUME NoHardDeps, Init
    PROVE  Ledger
<1> USE GraphAssumption, RunQueueAssumption DEF GraphAssumption, RunQueueAssumption
<1>1. PICK valid \in SUBSET Setscene : q = InitQueue(valid)
  BY DEF Init
<1> DEFINE q0 == [covered |-> {}, notcovered |-> {}, running |-> {}, live |-> {},
               buildable |-> {s \in Setscene : SqRevdeps[s] = {}},
               done |-> Unskippable \ Setscene,
               needed |-> {}, hdeferred |-> {}, notneeded |-> {}, outright |-> {},
               deferred |-> DeferredAfter(Setscene, InitUni),
               update |-> TRUE,
               stamp |-> [s \in Setscene |-> InitUni[s]]]
<1>2. InitQueue(valid) = UpdateSceneData(q0, stamps, Setscene, valid)
  BY DEF InitQueue
<1>3. /\ Fields \cup {"buildable", "done", "hdeferred"} \subseteq DOMAIN q0
      /\ q0.hdeferred = {} /\ q0.done = Unskippable \ Setscene /\ Settled(q0) = {}
      /\ q0.running = {} /\ q0.update = TRUE
      /\ q0.buildable = {s \in Setscene : SqRevdeps[s] = {}}
  BY DEF Fields, Settled
<1> HIDE DEF q0
<1>4. Processed(Unskippable \ Setscene)
  <2> SUFFICES ASSUME NEW d \in Tasks \ Setscene, RevDeps[d] \subseteq Unskippable \ Setscene
               PROVE  d \in Unskippable
    BY DEF Processed
  <2>1. CASE RevDeps[d] = {}
    <3>1. {t \in Tasks : RevDeps[t] = {}} \cup Cantskip \in SUBSET Tasks
      BY DEF Cantskip
    <3> QED
      BY <2>1, <3>1, ExposedClosed DEF Unskippable
  <2>2. CASE RevDeps[d] # {}
    <3>1. PICK r \in RevDeps[d] : r \in Tasks /\ d \in Depends[r]
      BY <2>2 DEF RevDeps
    <3> QED
      BY <3>1, CoveredClosed
  <2> QED
    BY <2>1, <2>2
<1>5. Sound(q0, {})
  BY <1>3, <1>4, CoveredClosed DEF Sound
<1>6. Sound(q, {}) /\ q.update
  <2>1. Sound(q, {}) /\ Grown(q, q0)
    BY <1>1, <1>2, <1>5, SceneDataSound
  <2> QED
    BY <1>3, <2>1 DEF Grown
<1>7. Clear /\ Parked /\ Accounts
  BY DEF Init, Clear, Parked, Accounts, RunningNow, InFlight
<1>8. UpToDate /\ Waiting /\ Tried /\ StopsEarly
  BY <1>6 DEF Init, UpToDate, UpTo, Waiting, Tried, StopsEarly
<1>9. Finished
  BY DEF Init, Finished
<1> QED
  BY <1>6, <1>7, <1>8, <1>9 DEF Ledger

\* Steps that leave the hashes and the coverage alone: what starts is not held off,
\* and what becomes complete makes all buildable that waited for it alone.
LEMMA KeepLedger ==
    ASSUME Ledger, options' = options, Sound(q', {}), Grown(q', q),
           pending' = pending, uni' = uni, sqdone' = sqdone, coverVars' = coverVars,
           complete \subseteq complete', buildable \subseteq buildable',
           \A t \in Tasks : Depends[t] \subseteq complete' =>
                                Depends[t] \subseteq complete \/ t \in buildable',
           \A x \in running' \ running, s \in Setscene \ Settled(q) :
              x # s /\ (x \in SqCovered[s] => x \in complete),
           Accounts', Waiting', Tried', StopsEarly'
    PROVE  Ledger'
<1> USE DEF Ledger
<1>1. Settled(q) \subseteq Settled(q')
  BY DEF Grown, Settled
<1>2. Clear'
  BY <1>1 DEF Clear, RunningNow
<1>3. Parked'
  BY DEF Parked, Grown
<1>4. UpToDate'
  <2>1. CASE q'.update
    BY <2>1 DEF UpToDate, UpTo
  <2>2. CASE ~q'.update
    <3>1. Settled(q') = Settled(q) /\ q'.done = q.done /\ ~q.update
      BY <2>2 DEF Grown, Settled
    <3>2. /\ \A t \in q'.done :
              (\/ t \in Settled(q') \cup (Unskippable \ Setscene)
               \/ \E s \in Settled(q') : t \in SqCovered[s]) => t \in covered' \cup notcovered'
          /\ holdoff' \subseteq UNION {{s} \cup SqCovered[s] : s \in Setscene \ Settled(q')}
      BY <3>1 DEF UpToDate, UpTo, coverVars
    <3>3. \A t \in Tasks \cap (covered' \cup notcovered') :
             Depends[t] \subseteq complete' => t \in buildable'
      BY <3>1 DEF UpToDate, UpTo, coverVars
    <3> QED
      BY <3>2, <3>3 DEF UpToDate, UpTo
  <2> QED
    BY <2>1, <2>2
<1>5. Finished'
  BY <1>1 DEF Finished, SetsceneOnly
<1> QED
  BY <1>2, <1>3, <1>4, <1>5

\* Steps between the calls of execute().
LEMMA IdleLedger ==
    ASSUME Ledger, [Next]_vars,
           \/ Call \/ Finish \/ ReadDone \/ Shutdown \/ ForceShutdown \/ Done
           \/ UNCHANGED vars \/ \E t \in Tasks, h \in Hashes : UniHashMessage(t, h)
    PROVE  Ledger'
<1>1. options' = options
  BY DEF Next, Server, ExitMessage, UniHashMessage, Shutdown, ForceShutdown, Done, vars
<1>2. /\ q' = q /\ pending' = pending /\ uni' = uni /\ sqdone' = sqdone
      /\ coverVars' = coverVars /\ taskVars' = taskVars /\ buildStamps' = buildStamps
  BY DEF Call, Finish, ReadDone, Shutdown, ForceShutdown, Done, UniHashMessage, vars,
         hashVars
<1>3. Grown(q', q) /\ Sound(q', {})
  BY <1>2 DEF Grown, Ledger
<1>4. Accounts'
  BY <1>1, <1>2 DEF Ledger, Accounts, taskVars, InFlight, Enforce
<1>5. CASE Done \/ UNCHANGED vars
  <2>1. Waiting' /\ Tried' /\ StopsEarly'
    BY <1>5 DEF Done, vars, Ledger, Waiting, Tried, StopsEarly, taskVars, coverVars,
                hashVars, RunningNow, CanStart, Candidates, InFlight, Halt, Enforce, Interrupts
  <2> QED
    BY <1>1, <1>2, <1>3, <1>4, <2>1, KeepLedger DEF taskVars
<1>6. CASE ReadDone
  <2>1. Waiting' /\ Tried' /\ StopsEarly'
    BY <1>1, <1>2, <1>6
    DEF ReadDone, Ledger, Waiting, Tried, StopsEarly, hashVars, Halt, Enforce,
        Interrupts
  <2> QED
    BY <1>1, <1>2, <1>3, <1>4, <2>1, KeepLedger DEF taskVars
<1>7. CASE \/ Call \/ Finish \/ Shutdown \/ ForceShutdown
           \/ \E t \in Tasks, h \in Hashes : UniHashMessage(t, h)
  <2>1. pc' \notin {"scene", "holdoff", "tasks"}
    BY <1>7 DEF Call, Finish, Shutdown, ForceShutdown, UniHashMessage, Return
  <2>2. StopsEarly'
    BY <1>1, <1>7 DEF Call, Finish, Shutdown, ForceShutdown, UniHashMessage, Return,
                      Verdict,
                      Ledger, StopsEarly, Halt, Enforce, Interrupts
  <2>3. Waiting' /\ Tried'
    BY <2>1 DEF Waiting, Tried
  <2> QED
    BY <1>1, <1>2, <1>3, <1>4, <2>2, <2>3, KeepLedger DEF taskVars
<1> QED
  BY <1>5, <1>6, <1>7

\* A task completes: the ledger of the setscene queue grows by a duplicate at most.
LEMMA OutrightSound ==
    ASSUME NoHardDeps, Ledger, Queues, IInv, NEW t \in Tasks, NEW ran,
           TaskCompleteOutright(t, buildable, ran),
           ran \in {running, running \cup {t}}, t \in buildable
    PROVE  /\ Sound(q', {}) /\ Grown(q', q) /\ q'.live = q.live
           /\ complete \subseteq complete' /\ buildable \subseteq buildable'
           /\ \A x \in Tasks : Depends[x] \subseteq complete' =>
                                Depends[x] \subseteq complete \/ x \in buildable'
           /\ complete' = complete \cup {t} /\ running' = ran
<1>1. /\ complete' = complete \cup {t} /\ running' = ran
      /\ buildable' = buildable \cup {r \in RevDeps[t] \ ran : Depends[r] \subseteq complete'}
  BY DEF TaskCompleteOutright
<1>2. Sound(q', {}) /\ Grown(q', q)
  BY ReleaseSound DEF TaskCompleteOutright, Ledger, Queues, Turns
<1>3. q'.live = q.live
  BY ReleaseLive DEF TaskCompleteOutright, IInv, SameLive
<1>4. ASSUME NEW x \in Tasks, Depends[x] \subseteq complete', x \notin buildable'
      PROVE  Depends[x] \subseteq complete
  <2>1. x \notin ran
    BY <1>1, <1>4 DEF Ledger, Accounts
  <2>2. x \notin RevDeps[t]
    BY <1>1, <1>4, <2>1
  <2> QED
    BY <1>1, <1>4, <2>2 DEF RevDeps
<1> QED
  BY <1>1, <1>2, <1>3, <1>4

\* A worker answers: what it had is complete, failed, or settled.
LEMMA ExitLedger ==
    ASSUME NoHardDeps, Ledger, Queues, IInv, NEW t \in Tasks, NEW ok \in BOOLEAN,
           ExitMessage(t, ok)
    PROVE  Ledger'
<1>1. /\ options' = options /\ pc' = pc /\ pc \notin {"scene", "holdoff", "tasks"}
      /\ pending' = pending /\ uni' = uni /\ sqdone' = sqdone /\ coverVars' = coverVars
      /\ InFlight' = InFlight \ {t} /\ t \in InFlight
  BY DEF ExitMessage, hashVars, Drop, InFlight
<1>2. Waiting' /\ Tried'
  BY <1>1 DEF Waiting, Tried
<1>3. StopsEarly'
  BY <1>1 DEF ExitMessage, SceneExit, TaskExit, TaskFail, TaskComplete, Ledger,
              StopsEarly,
              Halt, Enforce, Interrupts
<1>4. CASE SceneExit(t, ok)
  <2> DEFINE r == IF ok THEN SqTaskComplete(q, {t}) ELSE SqTaskFail(q, stamps, {t})
  <2>1. t \in q.live /\ t \in q.running /\ t \in Setscene /\ taskVars' = taskVars
    BY <1>4 DEF SceneExit, Queues, Turns
  <2>2. Sound(r, {}) /\ Grown(r, q) /\ t \in Settled(r)
    <3>1. {t} \in SUBSET Setscene /\ {t} \subseteq q.running
      BY <2>1
    <3> QED
      BY <3>1, CompleteSound, FailSound DEF Ledger
  <2>3. r.live = q.live
    BY CompleteLive, FailLive DEF IInv, SameLive
  <2>4. q' = [r EXCEPT !.live = @ \ {t}]
    BY <1>4 DEF SceneExit
  <2> HIDE DEF r
  <2>5. /\ DOMAIN q' = DOMAIN r /\ q'.live = q.live \ {t} /\ q'.done = r.done
        /\ q'.hdeferred = r.hdeferred /\ q'.update = r.update
        /\ q'.covered = r.covered /\ q'.notcovered = r.notcovered
        /\ q'.buildable = r.buildable /\ q'.running = r.running
    BY <2>2, <2>3, <2>4 DEF Sound, Fields
  <2>6. Sound(q', {}) /\ Grown(q', q)
    <3>1. Settled(q') = Settled(r)
      BY <2>5 DEF Settled
    <3> QED
      BY <2>2, <2>3, <2>5, <3>1 DEF Sound, Grown
  <2>7. Accounts'
    BY <1>1, <2>1, <2>5 DEF Ledger, Accounts, taskVars, Enforce
  <2> QED
    BY <1>1, <1>2, <1>3, <2>1, <2>6, <2>7, KeepLedger DEF taskVars
<1>5. CASE TaskExit(t, ok)
  <2>1. t \notin q.live /\ t \in running
    BY <1>1, <1>5 DEF TaskExit, Queues, Started
  <2>2. CASE ok
    <3>1. TaskCompleteOutright(t, buildable, running) /\ failed' = failed
      BY <1>5, <2>2 DEF TaskExit, TaskComplete
    <3>2. /\ Sound(q', {}) /\ Grown(q', q) /\ q'.live = q.live
          /\ complete \subseteq complete' /\ buildable \subseteq buildable'
          /\ \A x \in Tasks : Depends[x] \subseteq complete' =>
                               Depends[x] \subseteq complete \/ x \in buildable'
          /\ complete' = complete \cup {t} /\ running' = running
      BY <2>1, <3>1, OutrightSound DEF Ledger, Accounts
    <3>3. Accounts'
      BY <1>1, <2>1, <3>1, <3>2 DEF Ledger, Accounts, Enforce
    <3> QED
      BY <1>1, <1>2, <1>3, <3>2, <3>3, KeepLedger
  <2>3. CASE ~ok
    <3>1. /\ failed' = failed \cup {t} /\ q' = q /\ buildable' = buildable
          /\ running' = running /\ complete' = complete
      BY <1>5, <2>3 DEF TaskExit, TaskFail
    <3>2. Sound(q', {}) /\ Grown(q', q)
      BY <3>1 DEF Ledger, Grown
    <3>3. Accounts'
      BY <1>1, <2>1, <3>1 DEF Ledger, Accounts, Enforce
    <3> QED
      BY <1>1, <1>2, <1>3, <3>1, <3>2, <3>3, KeepLedger
  <2> QED
    BY <2>2, <2>3
<1> QED
  BY <1>4, <1>5 DEF ExitMessage

\* What the loop over the setscene tasks looks at is not settled, so that nothing it
\* stands for runs.
LEMMA CandidatesClear ==
    ASSUME Ledger, Queues, NEW t \in Setscene \cap Candidates
    PROVE  t \notin Settled(q) /\ t \notin running /\ t \notin q.live /\ ~Blocked(t)
           /\ t \in q.buildable
BY DEF Ledger, Clear, Queues, Turns, Candidates, Blocked

\* The setscene half of execute().
LEMMA SceneLedger ==
    ASSUME NoHardDeps, Ledger, Queues, IInv, SceneStep, options' = options
    PROVE  Ledger'
<1>1. /\ sqdone' = sqdone /\ taskVars' = taskVars /\ coverVars' = coverVars
      /\ hashVars' = hashVars /\ pc = "scene"
  BY DEF SceneStep, SceneNotNeeded, SceneHardWait, SceneFail, SceneSkip, SceneStart,
         SceneNone, SceneUnchanged, SceneLoop
<1>2. StopsEarly'
  BY DEF SceneStep, SceneNotNeeded, SceneHardWait, SceneFail, SceneSkip, SceneStart,
         SceneNone, Return, Ledger, StopsEarly, Halt, Enforce, Interrupts
<1>3. Waiting'
  BY <1>1 DEF Ledger, Waiting, hashVars, taskVars, RunningNow
<1>4. /\ pending' = pending /\ uni' = uni /\ complete' = complete /\ running' = running
      /\ buildable' = buildable /\ failed' = failed /\ active' = active
  BY <1>1 DEF hashVars, taskVars
<1>5. ASSUME NEW t \in Setscene, SceneNotNeeded(t) \/ SceneFail(t) \/ SceneSkip(t)
      PROVE  Ledger'
  <2>1. pc' \notin {"scene", "holdoff", "tasks"} /\ buildStamps' = buildStamps
    BY <1>5 DEF SceneNotNeeded, SceneFail, SceneSkip, Return
  <2>2. {t} \in SUBSET Setscene
    OBVIOUS
  <2>3. Sound(q', {}) /\ Grown(q', q) /\ q'.live = q.live
    <3>1. CASE SceneNotNeeded(t)
      <4> DEFINE s == SqTaskSkip(q, {t})
                 r == [s EXCEPT !.notneeded = @ \cup {t}]
      <4>1. Sound(s, {}) /\ Grown(s, q) /\ s.live = q.live
        BY <2>2, SkipSound, SkipLive DEF Ledger, IInv, SameLive
      <4> HIDE DEF s
      <4>2. /\ DOMAIN r = DOMAIN s /\ r.live = s.live /\ r.done = s.done
            /\ r.hdeferred = {} /\ r.update = s.update
            /\ r.covered = s.covered /\ r.notcovered = s.notcovered
            /\ r.buildable = s.buildable /\ r.running = s.running
        BY <4>1 DEF Sound, Fields
      <4>3. q' = Undefer(r, t)
        BY <3>1 DEF SceneNotNeeded, s
      <4> HIDE DEF r
      <4>4. Sound(r, {}) /\ Grown(r, s)
        BY <4>1, <4>2, OtherSound
      <4>5. "live" \in DOMAIN r
        BY <4>4 DEF Sound, Fields
      <4> QED
        BY <4>1, <4>2, <4>3, <4>4, <4>5, UndeferSound, UndeferLive, GrownTrans
        DEF SameLive
    <3>2. CASE SceneFail(t) \/ SceneSkip(t)
      <4> DEFINE r == Undefer(q, t)
      <4>1. Sound(r, {}) /\ Grown(r, q) /\ r.live = q.live /\ "live" \in DOMAIN r
        BY UndeferSound, UndeferLive DEF Ledger, IInv, SameLive
      <4>2. q' = SqTaskFail(r, stamps, {t}) \/ q' = SqTaskSkip(r, {t})
        BY <3>2 DEF SceneFail, SceneSkip
      <4> HIDE DEF r
      <4>3. Sound(q', {}) /\ Grown(q', r)
        BY <2>2, <4>1, <4>2, FailSound, SkipSound
      <4>4. q'.live = r.live
        BY <4>1, <4>2, FailLive, SkipLive DEF SameLive
      <4> QED
        BY <4>1, <4>3, <4>4, GrownTrans
    <3> QED
      BY <1>5, <3>1, <3>2
  <2>4. Accounts'
    BY <1>4, <2>1, <2>3 DEF Ledger, Accounts, Enforce, InFlight
  <2>5. Tried'
    BY <2>1 DEF Tried
  <2> QED
    BY <1>1, <1>2, <1>3, <1>4, <2>3, <2>4, <2>5, KeepLedger
<1>6. ASSUME NEW t \in Setscene, SceneHardWait(t) PROVE FALSE
  BY <1>6 DEF SceneHardWait, HardWait, NoHardDeps
<1>7. ASSUME NEW t \in Setscene, SceneStart(t) PROVE Ledger'
  <2> DEFINE r == Undefer(q, t)
  <2>1. /\ Sound(r, {}) /\ Grown(r, q) /\ r.live = q.live
        /\ r.buildable = q.buildable /\ r.running = q.running
    BY UndeferSound, UndeferLive DEF Ledger, IInv, SameLive
  <2>2. q' = [r EXCEPT !.running = @ \cup {t}, !.live = @ \cup {t}]
    BY <1>7 DEF SceneStart
  <2>3. t \in Candidates /\ InFlight' = InFlight \cup {t}
    BY <1>7 DEF SceneStart, SceneEligible, Merge, InFlight
  <2>4. t \notin running /\ t \notin q.live /\ t \in q.buildable
    BY <2>3, CandidatesClear
  <2> HIDE DEF r
  <2>5. /\ DOMAIN q' = DOMAIN r /\ q'.live = r.live \cup {t} /\ q'.done = r.done
        /\ q'.hdeferred = {} /\ q'.update = r.update
        /\ q'.covered = r.covered /\ q'.notcovered = r.notcovered
        /\ q'.buildable = r.buildable /\ q'.running = r.running \cup {t}
    BY <2>1, <2>2 DEF Sound, Fields
  <2>6. Sound(q', {}) /\ Grown(q', q)
    <3>1. Settled(q') = Settled(r)
      BY <2>5 DEF Settled
    <3> QED
      BY <2>1, <2>4, <2>5, <3>1 DEF Sound, Grown
  <2>7. Accounts'
    <3>1. InFlight' \ q'.live = InFlight \ q.live
      BY <2>1, <2>3, <2>4, <2>5 DEF Queues, Started
    <3> QED
      BY <1>4, <3>1 DEF Ledger, Accounts, Enforce
  <2>8. Tried'
    BY <1>7, <2>5 DEF SceneStart, Tried, Return
  <2> QED
    BY <1>1, <1>2, <1>3, <1>4, <2>6, <2>7, <2>8, KeepLedger
<1>8. CASE SceneNone
  <2>1. /\ q' = q /\ pc' = "holdoff" /\ buildStamps' = buildStamps
    BY <1>8 DEF SceneNone
  <2>2. SceneLoop => Candidates = {}
    <3>1. Candidates \subseteq Setscene
      BY DEF Ledger, Sound, Candidates
    <3> QED
      BY <1>8, <3>1, CandidatesClear DEF SceneNone
  <2>3. Tried'
    BY <1>1, <1>4, <2>1, <2>2 DEF Tried, SceneLoop, CanStart, Candidates, InFlight
  <2>4. Accounts'
    BY <1>4, <2>1 DEF Ledger, Accounts, Enforce, InFlight
  <2>5. Sound(q', {}) /\ Grown(q', q)
    BY <2>1 DEF Ledger, Grown
  <2> QED
    BY <1>1, <1>2, <1>3, <1>4, <2>3, <2>4, <2>5, KeepLedger
<1> QED
  BY <1>5, <1>6, <1>7, <1>8 DEF SceneStep

\* update_holdofftasks, and the end of the setscene queue: when nothing is held off
\* any more every setscene task is settled.
LEMMA HoldoffLedger ==
    ASSUME Ledger, Queues, IInv, Holdoff, options' = options
    PROVE  Ledger'
<1>1. /\ UNCHANGED <<running, complete, tasksrun, failed, active, hashVars, files, buildStamps>>
      /\ pc = "holdoff"
  BY DEF Holdoff
<1>2. Queues'
  BY HoldoffQueues
<1>3. /\ DOMAIN q' = DOMAIN q /\ q'.live = q.live /\ q'.done = q.done
      /\ q'.covered = q.covered /\ q'.notcovered = q.notcovered
      /\ q'.buildable = q.buildable /\ q'.running = q.running
      /\ q'.hdeferred = q.hdeferred /\ q'.deferred = q.deferred /\ q'.stamp = q.stamp
      /\ q'.update = FALSE
  <2>1. CASE q.update
    <3>1. q' = [q EXCEPT !.update = FALSE]
      BY <2>1 DEF Holdoff, UpdateHoldoff
    <3> QED
      BY <3>1 DEF Ledger, Sound, Fields
  <2>2. CASE ~q.update
    <3>1. q' = q
      BY <2>2 DEF Holdoff
    <3> QED
      BY <2>2, <3>1
  <2> QED
    BY <2>1, <2>2
<1>4. Settled(q') = Settled(q)
  BY <1>3 DEF Settled
<1>5. Sound(q', {})
  BY <1>3, <1>4 DEF Ledger, Sound
<1>6. buildable \subseteq buildable'
  BY DEF Holdoff, UpdateHoldoff
<1>7. Clear' /\ Parked' /\ Accounts'
  BY <1>1, <1>3, <1>4, <1>6
  DEF Ledger, Clear, Parked, Accounts, RunningNow, hashVars, Enforce, InFlight
<1>8. UpToDate'
  <2>1. CASE q.update
    <3> DEFINE open == Setscene \ Settled(q)
               need == q.notcovered \cup Cantskip \cup (Unskippable \ Setscene)
                          \cup UNION {SqCovered[s] : s \in q.notcovered}
               rest == q.covered \cup UNION {SqCovered[s] : s \in q.covered}
    <3>1. /\ holdoff' = open \cup ((UNION {SqCovered[s] : s \in open}) \ complete)
          /\ notcovered' = need \cap q.done
          /\ covered' = (rest \ (need \cap q.done)) \cap q.done
          /\ buildable' = buildable \cup
                {t \in Tasks : t \in notcovered' \cup covered' /\ Depends[t] \subseteq complete}
      BY <2>1 DEF Holdoff, UpdateHoldoff
    <3>2. \A t : (\/ t \in Settled(q) \cup (Unskippable \ Setscene)
                  \/ \E s \in Settled(q) : t \in SqCovered[s]) => t \in need \cup rest
      BY DEF Settled
    <3>3. holdoff' \subseteq UNION {{s} \cup SqCovered[s] : s \in Setscene \ Settled(q)}
      BY <3>1
    <3> HIDE DEF need, rest, open
    <3>4. covered' \cup notcovered' = (need \cup rest) \cap q.done
      BY <3>1
    <3>5. \A t \in q'.done :
              (\/ t \in Settled(q') \cup (Unskippable \ Setscene)
               \/ \E s \in Settled(q') : t \in SqCovered[s]) => t \in covered' \cup notcovered'
      BY <1>3, <1>4, <3>2, <3>4
    <3>6. \A t \in Tasks \cap (covered' \cup notcovered') :
             Depends[t] \subseteq complete' => t \in buildable'
      BY <1>1, <3>1
    <3> QED
      BY <1>4, <3>3, <3>5, <3>6 DEF UpToDate, UpTo
  <2>2. CASE ~q.update
    <3>1. UNCHANGED <<q, buildable, coverVars>>
      BY <2>2 DEF Holdoff
    <3> QED
      BY <1>1, <3>1 DEF Ledger, UpToDate, UpTo, coverVars, Settled
  <2> QED
    BY <2>1, <2>2
<1>9. Waiting'
  BY <1>1 DEF Ledger, Waiting, hashVars, RunningNow
<1>10. holdoff' = {} => Setscene \subseteq Settled(q')
  BY <1>2, <1>3 DEF Queues, HeldOff, Started
<1>11. Finished'
  BY <1>4, <1>10 DEF Holdoff, Ledger, Finished, SetsceneOnly
<1>12. Tried'
  <2>1. CASE pc' = "tasks"
    <3>1. sqdone \/ ~CanStart(active, q.live) \/ q.live # {} \/ Candidates = {}
      BY <1>1 DEF Ledger, Tried
    <3>2. sqdone => sqdone'
      BY DEF Holdoff
    <3>3. Candidates' = Candidates
      BY <1>1, <1>3 DEF Candidates, InFlight
    <3>4. sqdone' \/ q'.live # {} \/ DOMAIN q'.deferred # {} \/ updated' # {} \/ holdoff' # {}
      BY <1>1, <1>3, <2>1 DEF Holdoff, Return, hashVars
    <3> QED
      BY <1>1, <1>3, <2>1, <3>1, <3>2, <3>3, <3>4 DEF Tried, CanStart
  <2>2. CASE pc' # "tasks"
    <3>1. pc' # "holdoff"
      BY <2>2 DEF Holdoff, Return
    <3> QED
      BY <2>2, <3>1 DEF Tried
  <2> QED
    BY <2>1, <2>2
<1>13. StopsEarly'
  BY DEF Holdoff, Return, Ledger, StopsEarly, Halt, Enforce, Interrupts
<1> QED
  BY <1>5, <1>7, <1>8, <1>9, <1>11, <1>12, <1>13 DEF Ledger

\* The task half of execute(): what starts is not held off.
LEMMA TaskLedger ==
    ASSUME NoHardDeps, Ledger, Queues, IInv, TaskStep, options' = options
    PROVE  Ledger'
<1>1. /\ sqdone' = sqdone /\ coverVars' = coverVars /\ hashVars' = hashVars /\ pc = "tasks"
      /\ pending' = pending /\ uni' = uni
  BY DEF TaskStep, TaskUnexpected, TaskSkip, TaskNoExec, TaskStart, TaskUnchanged,
         Wait, ForceDeferred, Stop, TaskNone, hashVars
<1>2. pc' \notin {"scene", "holdoff", "tasks"}
  BY DEF TaskStep, TaskUnexpected, TaskSkip, TaskNoExec, TaskStart, Wait, ForceDeferred,
         Stop, Return
<1>3. Waiting' /\ Tried'
  BY <1>2 DEF Waiting, Tried
<1>4. StopsEarly'
  BY DEF TaskStep, TaskUnexpected, TaskSkip, TaskNoExec, TaskStart, Wait, ForceDeferred,
         Stop, Return, TaskFail, Ledger, StopsEarly, Halt, Enforce, Interrupts
<1>5. ASSUME NEW t \in TaskChoice
      PROVE  /\ t \in buildable /\ t \notin running
             /\ \A s \in Setscene \ Settled(q) : t # s /\ (t \in SqCovered[s] => t \in complete)
             /\ t \notin q.live
  <2>1. t \in buildable /\ t \notin running /\ t \notin holdoff
    BY DEF TaskChoice, Buildable
  <2>2. \A s \in Setscene \ Settled(q) : t # s /\ (t \in SqCovered[s] => t \in complete)
    BY <1>1, <2>1 DEF Queues, HeldOff, Started
  <2>3. t \notin q.live
    BY <2>2 DEF Queues, LiveOpen, Turns, Settled
  <2> QED
    BY <2>1, <2>2, <2>3
<1>6. ASSUME NEW t \in Tasks, TaskUnexpected(t) PROVE Ledger'
  <2>1. /\ q' = q /\ buildable' = buildable /\ running' = running /\ complete' = complete
    BY <1>6 DEF TaskUnexpected
  <2>2. Sound(q', {}) /\ Grown(q', q)
    BY <2>1 DEF Ledger, Grown
  <2>3. Accounts'
    BY <1>6, <2>1 DEF TaskUnexpected, Unexpected, Ledger, Accounts, Enforce
  <2> QED
    BY <1>1, <1>3, <1>4, <2>1, <2>2, <2>3, KeepLedger
<1>7. ASSUME NEW t \in Tasks, TaskSkip(t) \/ TaskNoExec(t) PROVE Ledger'
  <2>1. /\ TaskCompleteOutright(t, buildable, running \cup {t})
        /\ t \in TaskChoice /\ failed' = failed /\ buildStamps' = buildStamps
    BY <1>7 DEF TaskSkip, TaskNoExec, TaskComplete
  <2>2. /\ Sound(q', {}) /\ Grown(q', q) /\ q'.live = q.live
        /\ complete \subseteq complete' /\ buildable \subseteq buildable'
        /\ \A x \in Tasks : Depends[x] \subseteq complete' =>
                             Depends[x] \subseteq complete \/ x \in buildable'
        /\ complete' = complete \cup {t} /\ running' = running \cup {t}
    BY <1>5, <2>1, OutrightSound
  <2>3. Accounts'
    BY <1>5, <2>1, <2>2 DEF Ledger, Accounts, Enforce, InFlight, Queues, Started
  <2> QED
    BY <1>1, <1>3, <1>4, <1>5, <2>1, <2>2, <2>3, KeepLedger
<1>8. ASSUME NEW t \in Tasks, TaskStart(t) PROVE Ledger'
  <2>1. /\ t \in TaskChoice /\ q' = q /\ buildable' = buildable /\ complete' = complete
        /\ failed' = failed /\ running' = running \cup {t} /\ InFlight' = InFlight \cup {t}
    BY <1>8 DEF TaskStart, Merge, InFlight
  <2>2. Sound(q', {}) /\ Grown(q', q)
    BY <2>1 DEF Ledger, Grown
  <2>3. Accounts'
    BY <1>5, <2>1 DEF Ledger, Accounts, Enforce, Queues, Started
  <2> QED
    BY <1>1, <1>3, <1>4, <1>5, <2>1, <2>2, <2>3, KeepLedger
<1>9. CASE Wait \/ ForceDeferred \/ Stop
  <2>1. taskVars' = taskVars /\ buildStamps' = buildStamps
    BY <1>9 DEF Wait, ForceDeferred, Stop
  <2>2. Sound(q', {}) /\ Grown(q', q) /\ q'.live = q.live
    BY <1>9, UndeferSound, UndeferLive
    DEF Wait, ForceDeferred, Stop, Ledger, Grown, IInv, SameLive
  <2>3. Accounts'
    BY <2>1, <2>2 DEF Ledger, Accounts, Enforce, taskVars, InFlight
  <2> QED
    BY <1>1, <1>3, <1>4, <2>1, <2>2, <2>3, KeepLedger DEF taskVars
<1> QED
  BY <1>6, <1>7, <1>8, <1>9 DEF TaskStep

\* What process_possible_migrations changes: the hashes, and the setscene tasks N that
\* go back into the queue, none of which runs, ran, is restored or covers a running
\* task.  The others whose hash changed wait.  It never has to halt the build.
MigratedTo(hash, N) ==
    /\ hash \in NewHashes(Rehashed) /\ Tasks \subseteq DOMAIN hash
    /\ N \cap (running \cup q.live \cup q.covered) = {}
    /\ \A t \in N : RunningNow(SqCovered[t]) = {}
    /\ uni' = hash /\ files' = MakeSceneStamps(files, N \cap NoExec, hash)
    /\ pending' \subseteq q.notcovered \ N
    /\ failed' = failed /\ state' = state
    /\ sqdone' => sqdone /\ N = {}
    /\ \/ q' = q /\ N = {}
       \/ \E valid \in SUBSET N :
             LET r == IF N = {} THEN q ELSE Requeue(N, hash, valid)
             IN  q' = [r EXCEPT !.needed = {}, !.hdeferred = {}, !.update = TRUE]

\* Migrations put back only tasks that are not restored: their hashes are not
\* computed again, and those that waited had failed.  So none stands for a task
\* that was passed over, and the halt for such a task is out of reach.
LEMMA Migration ==
    ASSUME Ledger, Queues, IInv, Migrate, NoHardDeps
    PROVE  \E hash, N : N \in SUBSET Setscene /\ MigratedTo(hash, N)
<1> DEFINE changed(hash) == {t \in DependOn(DOMAIN Rehashed) :
                                hash[t] # Merge(uni, Rehashed)[t]}
           queue(hash) == {t \in pending \cup (changed(hash) \cap Setscene) : ~TooLate(t)}
           M(hash) == {t \in queue(hash) : ~Blocked(t)}
           halt(hash) == {t \in M(hash) : NeedsRerun(t)}
<1>1. PICK hash \in NewHashes(Rehashed) :
          /\ uni' = hash
          /\ pending' = queue(hash) \ M(hash)
          /\ files' = MakeSceneStamps(files, M(hash) \cap NoExec, hash)
          /\ failed' = failed \cup (IF halt(hash) = {} THEN {}
                                    ELSE {CHOOSE t \in halt(hash) : TRUE})
          /\ state' = IF halt(hash) = {} THEN state ELSE "cleanup"
          /\ sqdone' = (sqdone /\ (M(hash) = {} \/ halt(hash) # {}))
          /\ IF halt(hash) # {} \/ (M(hash) = {} /\ changed(hash) = {})
             THEN UNCHANGED q
             ELSE \E valid \in SUBSET M(hash) :
                     LET r == IF M(hash) = {} THEN q ELSE Requeue(M(hash), hash, valid)
                     IN  q' = [r EXCEPT !.needed = {}, !.hdeferred = {}, !.update = TRUE]
  BY Zenon DEF Migrate
<1> DEFINE N == M(hash)
           H == halt(hash)
<1>2. DependOn(DOMAIN Rehashed) \subseteq Tasks
  BY DependOnClosed DEF Rehashed
<1>3. Tasks \subseteq DOMAIN hash
  BY DEF NewHashes, Merge, Ledger, Parked
<1>4. ASSUME NEW t \in changed(hash) PROVE t \notin q.covered
  <2>1. t \in DependOn(DOMAIN Rehashed) /\ t \in Tasks
    BY <1>2, <1>4
  <2>2. PICK n \in [DependOn(DOMAIN Rehashed) \ (q.covered \cup q.live) -> Hashes] :
            hash = Merge(Merge(uni, Rehashed), n)
    BY DEF NewHashes
  <2> DEFINE old == Merge(uni, Rehashed)
  <2>3. t \in DOMAIN old
    BY <2>1 DEF Merge, Ledger, Parked
  <2>4. hash[t] # old[t]
    BY <1>4
  <2> HIDE DEF old
  <2>5. hash = Merge(old, n)
    BY <2>2 DEF old
  <2>6. t \in DOMAIN n
    BY <2>3, <2>4, <2>5 DEF Merge
  <2> QED
    BY <2>6
<1>5. N \subseteq queue(hash) /\ queue(hash) \subseteq Setscene /\ queue(hash) \cap q.covered = {}
  <2>1. pending \cap q.covered = {}
    BY DEF Ledger, Parked, Queues, FailedForGood
  <2>2. pending \subseteq Setscene
    BY DEF IInv, TaskTypeOK
  <2> HIDE DEF changed
  <2> QED
    BY <1>4, <2>1, <2>2
<1>6. N \cap (running \cup q.live) = {}
  BY DEF TooLate
<1>7. \A t \in N : RunningNow(SqCovered[t]) = {}
  BY DEF Blocked
<1>8. queue(hash) \ N \subseteq q.notcovered
  <2>1. \A t \in queue(hash) \ N : Blocked(t)
    OBVIOUS
  <2>2. \A t \in Setscene : Blocked(t) => t \in Settled(q)
    BY DEF Blocked, Ledger, Clear
  <2> QED
    BY <1>5, <2>1, <2>2 DEF Settled
<1>9. H = {}
  <2> SUFFICES ASSUME NEW t \in N, NeedsRerun(t) PROVE FALSE
    OBVIOUS
  <2>1. PICK d \in SqCovered[t] \cap complete : d \notin tasksrun
    BY DEF NeedsRerun
  <2>2. PassedFor(q, d)
    BY <2>1 DEF Queues, PassedOver
  <2>3. t \in Setscene /\ t \notin q.covered
    BY <1>5
  <2>4. d \notin Setscene
    BY <2>1, <2>3, CoveredClosed
  <2> QED
    BY <2>1, <2>2, <2>3, <2>4 DEF PassedFor
<1>10. /\ uni' = hash /\ pending' = queue(hash) \ N /\ failed' = failed /\ state' = state
       /\ files' = MakeSceneStamps(files, N \cap NoExec, hash)
       /\ sqdone' => sqdone /\ N = {}
       /\ \/ q' = q /\ N = {}
          \/ \E valid \in SUBSET N :
                LET r == IF N = {} THEN q ELSE Requeue(N, hash, valid)
                IN  q' = [r EXCEPT !.needed = {}, !.hdeferred = {}, !.update = TRUE]
  BY <1>1, <1>9
<1> DEFINE Q == queue(hash)
<1> HIDE DEF N, H, Q, changed
<1>11. MigratedTo(hash, N)
  BY <1>3, <1>5, <1>6, <1>7, <1>8, <1>10 DEF MigratedTo
<1> QED
  BY <1>5, <1>11

\* Migrations keep the ledger, fail no task and take no restored task back, nor one
\* that runs or stands for a task that does.
LEMMA MigrateLedger ==
    ASSUME NoHardDeps, Ledger, Queues, IInv, Migrate, options' = options
    PROVE  /\ Ledger'
           /\ failed' = failed /\ state' = state /\ q.covered \subseteq q'.covered
           /\ q'.live = q.live
           /\ \A s \in q.notcovered \ q'.notcovered :
                 s \notin running /\ RunningNow(SqCovered[s]) = {}
<1>1. PICK hash, N : N \in SUBSET Setscene /\ MigratedTo(hash, N)
  BY Migration
<1>2. /\ running' = running /\ complete' = complete /\ coverVars' = coverVars
      /\ buildable' = buildable /\ buildStamps' = buildStamps /\ pc' = "scene"
      /\ updated' = updated \ Reported
  BY DEF Migrate
<1>3. Tasks \subseteq DOMAIN hash
  BY <1>1 DEF MigratedTo
<1>4. N \subseteq Setscene /\ N \cap q.covered = {}
  BY <1>1 DEF MigratedTo
<1>5. N \cap (running \cup q.live) = {}
  BY <1>1 DEF MigratedTo
<1>6. \A t \in N : RunningNow(SqCovered[t]) = {}
  BY <1>1 DEF MigratedTo
<1>7. /\ uni' = hash /\ pending' \subseteq q.notcovered \ N
      /\ failed' = failed /\ state' = state
      /\ sqdone' => sqdone /\ N = {}
      /\ \/ q' = q /\ N = {}
         \/ \E valid \in SUBSET N :
               LET r == IF N = {} THEN q ELSE Requeue(N, hash, valid)
               IN  q' = [r EXCEPT !.needed = {}, !.hdeferred = {}, !.update = TRUE]
  BY <1>1 DEF MigratedTo
<1>8. ASSUME q' = q /\ N = {}
       PROVE  /\ Sound(q', {}) /\ q.covered \subseteq q'.covered
              /\ q.notcovered \ N \subseteq q'.notcovered
              /\ q'.live = q.live /\ (q'.update \/ q' = q)
  BY <1>8 DEF Ledger
<1>9. ASSUME NEW valid \in SUBSET N,
              q' = [(IF N = {} THEN q ELSE Requeue(N, hash, valid))
                       EXCEPT !.needed = {}, !.hdeferred = {}, !.update = TRUE]
       PROVE  /\ Sound(q', {}) /\ q.covered \subseteq q'.covered
              /\ q.notcovered \ N \subseteq q'.notcovered
              /\ q'.live = q.live /\ (q'.update \/ q' = q)
  <2> DEFINE r == IF N = {} THEN q ELSE Requeue(N, hash, valid)
             C == {t \in N : SceneStamped(Stamps(files', hash), t)}
  <2>1. N \in SUBSET Setscene
    BY <1>4
  <2>2. Sound(r, {})
    <3>1. Settled(q) \subseteq Setscene /\ complete \subseteq running
          /\ running \subseteq Tasks /\ DepsFirst
      BY DEF Queues, Turns, Started, IInv, TaskTypeOK
    <3>2. N \cap q.live = {} /\ Sound(q, {})
      BY <1>5 DEF Ledger
    <3> QED
      BY <2>1, <3>1, <3>2, RequeueSound
  <2>3. /\ q.covered \ N \subseteq r.covered /\ q.notcovered \ N \subseteq r.notcovered
        /\ r.live = q.live
    <3>1. CASE N = {}
      BY <3>1
    <3>2. CASE N # {}
      <4>1. Reopened(Requeue(N, hash, valid), N, C)
        BY <2>1, RequeueMoved DEF Queues, Turns
      <4> HIDE DEF C
      <4> QED
        BY <3>2, <4>1 DEF Reopened
    <3> QED
      BY <3>1, <3>2
  <2>4. q' = [r EXCEPT !.needed = {}, !.hdeferred = {}, !.update = TRUE]
    BY <1>9
  <2> HIDE DEF r
  <2>5. /\ DOMAIN q' = DOMAIN r /\ q'.live = r.live /\ q'.done = r.done /\ q'.hdeferred = {}
        /\ q'.covered = r.covered /\ q'.notcovered = r.notcovered
        /\ q'.buildable = r.buildable /\ q'.running = r.running /\ q'.update = TRUE
    BY <2>2, <2>4 DEF Sound, Fields
  <2>6. Sound(q', {})
    <3>1. Settled(q') = Settled(r)
      BY <2>5 DEF Settled
    <3> QED
      BY <2>2, <2>5, <3>1 DEF Sound
  <2>7. q.covered \cap N = {}
    BY <1>4
  <2> QED
    BY <2>3, <2>5, <2>6, <2>7
<1>10. /\ Sound(q', {}) /\ q.covered \subseteq q'.covered
       /\ q.notcovered \ N \subseteq q'.notcovered
       /\ q'.live = q.live /\ (q'.update \/ q' = q)
  BY <1>7, <1>8, <1>9
<1>11. Settled(q) \ N \subseteq Settled(q')
  BY <1>10 DEF Settled
<1>12. Clear'
  BY <1>2, <1>5, <1>6, <1>11 DEF Ledger, Clear, RunningNow
<1>13. Parked'
  BY <1>3, <1>7, <1>10 DEF Parked
<1>14. Accounts'
  BY <1>2, <1>7, <1>10 DEF Ledger, Accounts, Enforce, InFlight
<1>15. UpToDate'
  BY <1>2, <1>10 DEF Ledger, UpToDate, UpTo, coverVars
<1>16. Waiting'
  <2>1. \A u \in updated \ Reported : u[1] \in RunningNow(Tasks)
    BY DEF Reported
  <2> QED
    BY <1>2, <2>1 DEF Waiting, RunningNow
<1>17. Finished'
  BY <1>7, <1>11 DEF Ledger, Finished, SetsceneOnly
<1>18. Tried' /\ StopsEarly'
  BY <1>2, <1>7 DEF Tried, StopsEarly, Ledger, Halt, Enforce, Interrupts
<1>19. \A s \in q.notcovered \ q'.notcovered :
            s \notin running /\ RunningNow(SqCovered[s]) = {}
  BY <1>5, <1>6, <1>10
<1> QED
  BY <1>7, <1>10, <1>12, <1>13, <1>14, <1>15, <1>16, <1>17, <1>18, <1>19 DEF Ledger

\* Every step keeps the ledger.
LEMMA NextLedger ==
    ASSUME NoHardDeps, Ledger, Queues, IInv, [Next]_vars
    PROVE  Ledger'
<1>1. options' = options
  BY DEF Next, Server, ExitMessage, UniHashMessage, Shutdown, ForceShutdown, Done, vars
<1>2. CASE Server
  BY <1>1, <1>2, IdleLedger, MigrateLedger, SceneLedger, HoldoffLedger, TaskLedger
  DEF Server
<1>3. ASSUME NEW t \in Tasks, NEW ok \in BOOLEAN, ExitMessage(t, ok) PROVE Ledger'
  BY <1>3, ExitLedger
<1>4. CASE \/ Shutdown \/ ForceShutdown \/ Done \/ UNCHANGED vars
           \/ \E t \in Tasks, h \in Hashes : UniHashMessage(t, h)
  BY <1>4, IdleLedger
<1> QED
  BY <1>2, <1>3, <1>4 DEF Next

-----------------------------------------------------------------------------
(* How a build ends.                                                         *)

\* The ledger adds up in every reachable state.
LEMMA SpecLedger ==
    ASSUME NoHardDeps
    PROVE  Spec => []Ledger
<1>1. Init => Ledger
  BY InitLedger
<1>2. Ledger /\ Queues /\ IInv /\ [Next]_vars => Ledger'
  BY NextLedger
<1> QED
  BY <1>1, <1>2, SpecIInv, SpecQueues, PTL DEF Spec

\* When all setscene tasks are settled all tasks are processed.
LEMMA AllProcessed ==
    ASSUME NEW p, Sound(p, {}), Setscene \subseteq Settled(p)
    PROVE  p.done = Tasks
<1> DEFINE X == Tasks \ p.done
<1>1. p.done \subseteq Tasks /\ Processed(p.done) /\ Setscene \subseteq p.done
  BY DEF Sound
<1>2. CASE X = {}
  BY <1>1, <1>2
<1>3. CASE X # {}
  <2>1. PICK t \in X : DependOn({t}) \cap X = {}
    BY <1>3, Topmost
  <2>2. {t} \in SUBSET Tasks
    OBVIOUS
  <2>3. RevDeps[t] \subseteq DependOn({t}) /\ DependOn({t}) \subseteq Tasks
    BY <2>2, DependOnClosed
  <2>4. RevDeps[t] \subseteq p.done
    BY <2>1, <2>3
  <2> QED
    BY <1>1, <2>4 DEF Processed
<1> QED
  BY <1>2, <1>3

\* Then the sanity check of the setscene queue finds nothing, if update_holdofftasks
\* ran since and no duplicate and no new hash waits.
LEMMA NoSceneError ==
    ASSUME NEW p, NEW built, NEW cov, NEW not, NEW hold,
           Sound(p, {}), UpTo(p, built, cov, not, hold), ~p.update,
           Setscene \subseteq Settled(p), Settled(p) \subseteq p.running,
           DOMAIN p.deferred = {}, updated = {}
    PROVE  /\ ~SceneError(p, built, cov, not, hold)
           /\ Tasks \subseteq cov \cup not /\ hold = {}
<1>1. p.done = Tasks
  BY AllProcessed
<1>2. hold = {}
  BY DEF UpTo
<1>3. ASSUME NEW t \in Tasks PROVE t \in cov \cup not
  <2>1. \/ t \in Settled(p) \cup (Unskippable \ Setscene)
        \/ \E s \in Settled(p) : t \in SqCovered[s]
    BY Coverage
  <2> QED
    BY <1>1, <2>1 DEF UpTo
<1>4. \A t \in Tasks : Depends[t] = {} => t \in built
  BY <1>3 DEF UpTo
<1>5. Setscene \subseteq p.buildable /\ Setscene \subseteq p.running
  BY DEF Sound
<1> QED
  BY <1>1, <1>2, <1>3, <1>4, <1>5 DEF SceneError

\* So the end of the setscene queue is never an error.
LEMMA HoldoffFine ==
    ASSUME Ledger, Queues, IInv, Holdoff, options' = options
    PROVE  \/ state' = state
           \/ SetsceneOnly /\ state' = "complete" /\ q.live = {}
<1>1. Ledger' /\ Queues'
  BY HoldoffLedger, HoldoffQueues
<1>2. ASSUME q.live = {}, DOMAIN q.deferred = {}, updated = {}, holdoff' = {}
      PROVE  ~SceneError(q', buildable', covered', notcovered', holdoff')
  <2>1. /\ DOMAIN q'.deferred = {} /\ ~q'.update
    <3>1. CASE q.update
      <4>1. q' = [q EXCEPT !.update = FALSE]
        BY <3>1 DEF Holdoff, UpdateHoldoff
      <4> QED
        BY <1>2, <4>1 DEF Ledger, Sound, Fields
    <3>2. CASE ~q.update
      <4>1. q' = q
        BY <3>2 DEF Holdoff
      <4> QED
        BY <1>2, <3>2, <4>1
    <3> QED
      BY <3>1, <3>2
  <2>2. Setscene \subseteq Settled(q')
    BY <1>1, <1>2, <2>1 DEF Queues, HeldOff, Started
  <2>3. Settled(q') \subseteq q'.running /\ Sound(q', {})
    BY <1>1 DEF Queues, Turns, Ledger
  <2>4. UpTo(q', buildable', covered', notcovered', holdoff')
    <3>1. complete' = complete
      BY DEF Holdoff
    <3> QED
      BY <1>1, <3>1 DEF Ledger, UpToDate, UpTo
  <2> QED
    BY <1>2, <2>1, <2>2, <2>3, <2>4, NoSceneError
<1> QED
  BY <1>2 DEF Holdoff, Return

-----------------------------------------------------------------------------
\* The build may stop: no task runs, and none can be started.
Idle ==
    /\ pc = "tasks" /\ TaskChoice = {}
    /\ active <= 0 /\ q.live = {} /\ InFlight = {} /\ DOMAIN q.deferred = {}

\* When it may, and its tasks were counted right, no worker runs anything.
LEMMA StopIdle ==
    ASSUME IInv, Workers, ~Enforce, Stop
    PROVE  Idle
<1>1. Counts
  BY DEF Workers
<1>2. active \in Int
  BY DEF IInv, TaskTypeOK
<1>3. q.live = {} /\ active <= 0
  BY DEF Stop
<1>4. Cardinality(q.live) = 0
  BY <1>3, FS_EmptySet
<1>5. InFlight = {}
  BY <1>1, <1>2, <1>3, <1>4, NoneLeft
<1> QED
  BY <1>2, <1>3, <1>5 DEF Idle, Stop, TaskNone

\* Then all setscene tasks are settled: of those that are not, one at the top would
\* have been started first.
LEMMA IdleSettled ==
    ASSUME Ledger, IInv, Idle
    PROVE  Setscene \subseteq Settled(q)
<1> DEFINE X == Setscene \ Settled(q)
<1>1. CASE sqdone
  BY <1>1 DEF Ledger, Finished
<1>2. CASE ~sqdone
  <2>1. Cardinality(q.live) = 0 /\ active \in Int /\ NumberTasks \in Nat \ {0}
    BY FS_EmptySet, RunQueueAssumption DEF Idle, IInv, TaskTypeOK, RunQueueAssumption
  <2>2. CanStart(active, q.live)
    BY <2>1 DEF CanStart, Idle
  <2>3. Candidates = {}
    BY <1>2, <2>2 DEF Ledger, Tried, Idle
  <2>4. SUFFICES ASSUME X # {} PROVE FALSE
    OBVIOUS
  <2>5. X \in SUBSET Tasks
    BY GraphAssumption DEF GraphAssumption
  <2>6. PICK t \in X : DependOn({t}) \cap X = {}
    BY <2>4, <2>5, Topmost
  <2>7. SqRevdeps[t] \subseteq Setscene \cap DependOn({t})
    BY SqRevdepsAbove
  <2>8. SqRevdeps[t] \subseteq Settled(q)
    BY <2>6, <2>7
  <2>9. t \in q.buildable
    BY <2>8 DEF Ledger, Sound
  <2>10. t \notin q.running /\ t \notin q.hdeferred
    BY DEF Ledger, Sound, Idle
  <2> QED
    BY <2>3, <2>9, <2>10 DEF Candidates, Idle
<1> QED
  BY <1>1, <1>2

\* And whatever could still be built has started.
LEMMA IdleNoneReady ==
    ASSUME Ledger, Queues, IInv, Idle, ~SetsceneOnly, NEW t \in Tasks,
           Depends[t] \subseteq complete
    PROVE  t \in running
<1>1. Setscene \subseteq Settled(q) /\ ~q.update
  BY IdleSettled DEF Queues, HeldOff, Idle
<1>2. holdoff = {}
  BY <1>1 DEF Ledger, UpToDate, UpTo
<1>3. t \in q.done
  BY <1>1, AllProcessed DEF Ledger
<1>4. t \in covered \cup notcovered
  <2>1. \/ t \in Settled(q) \cup (Unskippable \ Setscene)
        \/ \E s \in Settled(q) : t \in SqCovered[s]
    BY <1>1, Coverage
  <2> QED
    BY <1>1, <1>3, <2>1 DEF Ledger, UpToDate, UpTo
<1>5. t \in buildable
  BY <1>1, <1>4 DEF Ledger, UpToDate, UpTo
<1>6. CanStart(active, q.live)
  <2>1. Cardinality(q.live) = 0 /\ active \in Int /\ NumberTasks \in Nat \ {0}
    BY FS_EmptySet, RunQueueAssumption DEF Idle, IInv, TaskTypeOK, RunQueueAssumption
  <2> QED
    BY <2>1 DEF CanStart, Idle
<1>7. Buildable = {}
  BY <1>6 DEF Idle, TaskChoice
<1> QED
  BY <1>2, <1>4, <1>5, <1>7 DEF Buildable, Idle

\* If none failed, all tasks are complete, and the sanity checks find nothing.
LEMMA IdleComplete ==
    ASSUME Ledger, Queues, IInv, Idle, ~Enforce, ~SetsceneOnly, failed = {}
    PROVE  /\ complete = Tasks /\ complete \cap running \cap buildable = Tasks
           /\ ~SceneError(q, buildable, covered, notcovered, holdoff)
<1>1. running = complete /\ running \subseteq buildable /\ running \subseteq Tasks
  BY DEF Ledger, Accounts, Idle, Queues, Started, IInv, TaskTypeOK
<1>2. complete = Tasks
  <2> DEFINE X == Tasks \ complete
  <2> SUFFICES ASSUME X # {} PROVE FALSE
    BY <1>1
  <2>1. PICK t \in X : Depends[t] \cap X = {}
    BY Lowest
  <2>2. Depends[t] \subseteq complete
    BY <2>1, GraphAssumption DEF GraphAssumption
  <2> QED
    BY <1>1, <2>2, IdleNoneReady
<1>3. updated = {}
  <2>1. RunningNow(Tasks) = {}
    BY <1>1 DEF RunningNow
  <2> QED
    BY <2>1 DEF Ledger, Waiting, Idle
<1>4. Settled(q) \subseteq q.running /\ Setscene \subseteq Settled(q) /\ ~q.update
  BY IdleSettled DEF Queues, Turns, HeldOff, Idle
<1>5. ~SceneError(q, buildable, covered, notcovered, holdoff)
  BY <1>3, <1>4, NoSceneError DEF Ledger, UpToDate, Idle
<1> QED
  BY <1>1, <1>2, <1>5

\* With --setscene-only the build stops there only after a failure: otherwise the
\* end of the setscene queue was the end of the build.
LEMMA IdleFailed ==
    ASSUME Ledger, Queues, IInv, Idle, ~Enforce, SetsceneOnly, Setscene # {}
    PROVE  failed # {}
<1>1. Setscene \subseteq Settled(q) /\ ~q.update
  BY IdleSettled DEF Queues, HeldOff, Idle
<1>2. holdoff = {}
  BY <1>1 DEF Ledger, UpToDate, UpTo
<1>3. updated # {}
  BY <1>2 DEF Ledger, Finished, Tried, Idle
<1>4. PICK u \in updated : u[1] \in RunningNow(Tasks)
  BY <1>3 DEF Ledger, Waiting, Idle
<1> QED
  BY <1>4 DEF Ledger, Accounts, Idle, RunningNow

\* Few steps end a build: they bring the verdict in and change no task.
LEMMA EndsBy ==
    ASSUME Verdicts, [Next]_vars, pc # "done", pc' = "done"
    PROVE  /\ options' = options /\ failed' = failed /\ running' = running
           /\ complete' = complete /\ InFlight' = InFlight
           /\ state' \in {"failed", "complete"}
           /\ Finish \/ ForceShutdown \/ Holdoff \/ Stop
<1>1. options' = options
  BY DEF Next, Server, ExitMessage, UniHashMessage, Shutdown, ForceShutdown, Done, vars
<1>2. state \notin {"failed", "complete"}
  BY DEF Verdicts
<1>3. ~(Call \/ ReadDone \/ Shutdown \/ Done \/ UNCHANGED vars)
  BY DEF Call, ReadDone, Shutdown, Done, vars
<1>4. \A t \in Tasks : /\ \A h \in Hashes : ~UniHashMessage(t, h)
                       /\ \A ok \in BOOLEAN : ~ExitMessage(t, ok)
  BY DEF UniHashMessage, ExitMessage
<1>5. ~Migrate
  BY DEF Migrate
<1>6. ~SceneStep
  BY <1>2 DEF SceneStep, SceneNotNeeded, SceneHardWait, SceneFail, SceneSkip,
              SceneStart, SceneNone, Return, SceneLoop
<1>7. TaskStep => Stop
  BY <1>2 DEF TaskStep, TaskUnexpected, TaskSkip, TaskNoExec, TaskStart, Wait,
              ForceDeferred, Return
<1>8. Finish \/ ForceShutdown \/ Holdoff \/ Stop
  BY <1>3, <1>4, <1>5, <1>6, <1>7 DEF Next, Server
<1>9. state' \in {"failed", "complete"}
  BY <1>8 DEF Finish, ForceShutdown, Holdoff, Stop, Return, Verdict
<1>10. /\ failed' = failed /\ running' = running /\ complete' = complete
       /\ buildStamps' = buildStamps
  BY <1>8 DEF Finish, ForceShutdown, Holdoff, Stop, taskVars
<1> QED
  BY <1>1, <1>8, <1>9, <1>10 DEF InFlight

\* After the end nothing happens.
LEMMA AfterEnd ==
    ASSUME [Next]_vars, pc = "done"
    PROVE  UNCHANGED vars
<1>1. ~(Call \/ Finish \/ ReadDone \/ Migrate \/ Holdoff \/ Shutdown \/ ForceShutdown)
  BY DEF Call, Finish, ReadDone, Migrate, Holdoff, Shutdown, ForceShutdown
<1>2. ~SceneStep
  BY DEF SceneStep, SceneNotNeeded, SceneHardWait, SceneFail, SceneSkip, SceneStart,
         SceneNone, SceneLoop
<1>3. ~TaskStep
  BY DEF TaskStep, TaskUnexpected, TaskSkip, TaskNoExec, TaskStart, Wait, ForceDeferred,
         Stop, TaskNone
<1>4. \A t \in Tasks : /\ \A h \in Hashes : ~UniHashMessage(t, h)
                       /\ \A ok \in BOOLEAN : ~ExitMessage(t, ok)
  BY DEF UniHashMessage, ExitMessage
<1> QED
  BY <1>1, <1>2, <1>3, <1>4 DEF Next, Server, Done

\* A build that nobody interrupts ends with idle workers.
EndsIdle == ~(Enforce \/ Interrupts) => Drained

\* Each way to end has seen to that.
LEMMA NextEndsIdle ==
    ASSUME EndsIdle, Verdicts, Workers, Ledger, Queues, IInv, [Next]_vars
    PROVE  EndsIdle'
<1>1. CASE pc = "done"
  BY <1>1, AfterEnd DEF EndsIdle, Drained, vars, Enforce, Interrupts, InFlight
<1>2. CASE pc # "done"
  <2> SUFFICES ASSUME ~Enforce, ~Interrupts, pc' = "done" PROVE InFlight = {}
    <3>1. pc' = "done" => options' = options /\ InFlight' = InFlight
      BY <1>2, EndsBy
    <3> QED
      BY <3>1 DEF EndsIdle, Drained, Enforce, Interrupts
  <2>1. Finish \/ Holdoff \/ Stop
    BY <1>2, EndsBy DEF ForceShutdown
  <2>2. ASSUME Finish PROVE InFlight = {}
    <3>1. ~(active + Cardinality(q.live) > 0)
      BY <2>2 DEF Finish
    <3> QED
      BY <3>1, NoneLeft, FiniteWork DEF Workers, IInv, TaskTypeOK
  <2>3. ASSUME Holdoff PROVE InFlight = {}
    <3>1. SetsceneOnly /\ q.live = {}
      <4>1. state' # state /\ options' = options
        BY <1>2, EndsBy DEF Verdicts
      <4> QED
        BY <2>3, <4>1, HoldoffFine
    <3> QED
      BY <3>1 DEF Workers, Ends
  <2>4. Stop => InFlight = {}
    BY StopIdle DEF Idle
  <2> QED
    BY <2>1, <2>2, <2>3, <2>4
<1> QED
  BY <1>1, <1>2

\* No build ends with a task in a worker, unless the user interrupts it or
\* BB_SETSCENE_ENFORCE makes task_fail count down tasks that never started: finish(),
\* the end of the setscene queue and the end of execute() wait for all answers.
THEOREM SpecDrained ==
    ASSUME NoHardDeps
    PROVE  Spec => [](~(Enforce \/ Interrupts) => Drained)
<1>1. Init => EndsIdle /\ Verdicts
  BY InitVerdicts DEF Init, EndsIdle, Drained
<1>2. EndsIdle /\ Verdicts /\ Workers /\ Ledger /\ Queues /\ IInv /\ [Next]_vars
         => EndsIdle' /\ Verdicts'
  BY NextEndsIdle, NextVerdicts
<1> QED
  BY <1>1, <1>2, SpecWorkers, SpecLedger, SpecIInv, SpecQueues, PTL DEF Spec, EndsIdle

\* Builds without BB_SETSCENE_ENFORCE; one restricted to setscene tasks has some.
Whole == ~Enforce /\ (SetsceneOnly => Setscene # {})

\* A build that failed has a task that did.
TrueFailure == Whole => SanityHolds

\* The verdict of a step that ends the build.
LEMMA NextTrueFailure ==
    ASSUME TrueFailure, Verdicts, Workers, Ledger, Queues, IInv, [Next]_vars
    PROVE  TrueFailure'
<1>1. CASE pc = "done"
  BY <1>1, AfterEnd
  DEF TrueFailure, Whole, SanityHolds, vars, taskVars, Enforce, SetsceneOnly
<1>2. CASE pc # "done" /\ pc' # "done"
  BY <1>2, NextVerdicts DEF Verdicts, TrueFailure, SanityHolds
<1>3. CASE pc # "done" /\ pc' = "done"
  <2>1. options' = options /\ failed' = failed
    BY <1>3, EndsBy
  <2> SUFFICES ASSUME Whole, state' = "failed" PROVE failed # {}
    BY <2>1 DEF TrueFailure, SanityHolds, Whole, Enforce, SetsceneOnly
  <2>2. CASE Finish \/ ForceShutdown
    <3>1. Return(Verdict) \/ state' = state
      BY <2>2 DEF Finish, ForceShutdown
    <3> QED
      BY <1>3, <3>1 DEF Return, Verdict, Verdicts
  <2>3. ~Holdoff
    BY <1>3, <2>1, HoldoffFine DEF Verdicts
  <2>4. CASE Stop
    <3>1. Idle
      BY <2>4, StopIdle DEF Whole
    <3>2. CASE SetsceneOnly
      BY <3>1, <3>2, IdleFailed DEF Whole
    <3>3. CASE ~SetsceneOnly
      <4>1. \/ failed # {}
            \/ SceneError(q, buildable, covered, notcovered, holdoff)
            \/ complete \cap running \cap buildable # Tasks
        BY <2>4 DEF Stop, Return
      <4> QED
        BY <3>1, <3>3, <4>1, IdleComplete DEF Whole
    <3> QED
      BY <3>2, <3>3
  <2> QED
    BY <1>3, <2>2, <2>3, <2>4, EndsBy
<1> QED
  BY <1>1, <1>2, <1>3

\* A build fails only if a task did: whatever the graph, the answers and the changes
\* of hashes, the sanity checks never find setscene tasks or tasks left behind
\* (summarise_scenequeue_errors and the end of execute()).
THEOREM SpecSanityHolds ==
    ASSUME NoHardDeps
    PROVE  Spec => [](~Enforce /\ (SetsceneOnly => Setscene # {}) => SanityHolds)
<1>1. Init => TrueFailure /\ Verdicts
  BY InitVerdicts DEF Init, TrueFailure, SanityHolds
<1>2. TrueFailure /\ Verdicts /\ Workers /\ Ledger /\ Queues /\ IInv /\ [Next]_vars
         => TrueFailure' /\ Verdicts'
  BY NextTrueFailure, NextVerdicts
<1>3. TrueFailure => (~Enforce /\ (SetsceneOnly => Setscene # {}) => SanityHolds)
  BY DEF TrueFailure, Whole
<1> QED
  BY <1>1, <1>2, <1>3, SpecWorkers, SpecLedger, SpecIInv, SpecQueues, PTL DEF Spec

-----------------------------------------------------------------------------
(* What is restored stays restored.                                          *)

\* Restored, failed and running setscene tasks are all that still.
Onward(p, r) ==
    p.covered \subseteq r.covered /\ p.notcovered \subseteq r.notcovered /\ p.live \subseteq r.live

\* A step that only moves the setscene queue on leaves such tasks alone.
LEMMA MovedOnward ==
    ASSUME NEW p, NEW r, NEW C, NEW S, Moved(r, p, C, S)
    PROVE  Fields \subseteq DOMAIN r /\ Onward(p, r)
BY DEF Moved, Onward

\* Completing a task moves the setscene queue on.
LEMMA OutrightOnward ==
    ASSUME Queues, NEW t, NEW built, NEW ran, TaskCompleteOutright(t, built, ran)
    PROVE  Onward(q, q')
<1>1. PICK valid : q' = ReleaseDeferred(q, Stamps(files', uni), t, valid)
  BY DEF TaskCompleteOutright
<1>2. Moved(q', q, {d \in DOMAIN q.deferred : SceneStamped(Stamps(files', uni), d)}, {})
  BY <1>1, ReleaseMoved DEF Queues, Turns
<1> QED
  BY <1>2, MovedOnward

\* The setscene part of execute() takes no task back.
LEMMA SceneOnward ==
    ASSUME Queues, SceneStep
    PROVE  Onward(q, q')
<1>1. Fields \subseteq DOMAIN q
  BY DEF Queues, Turns
<1>2. ASSUME NEW t, NEW p, Fields \subseteq DOMAIN p, Onward(q, p)
      PROVE  LET r == Undefer(p, t)
             IN  Fields \subseteq DOMAIN r /\ Onward(q, r)
  BY <1>2, UndeferMoved, MovedOnward DEF Onward
<1>3. Onward(q, q)
  BY DEF Onward
<1>4. ASSUME NEW t \in Setscene, SceneNotNeeded(t) PROVE Onward(q, q')
  <2> DEFINE s == SqTaskSkip(q, {t})
             r == [s EXCEPT !.notneeded = @ \cup {t}]
  <2>1. Fields \subseteq DOMAIN s /\ Onward(q, s)
    BY <1>1, SkipMoved, MovedOnward
  <2>2. q' = Undefer(r, t)
    BY <1>4 DEF SceneNotNeeded
  <2> HIDE DEF s
  <2>3. DOMAIN r = DOMAIN s /\ Onward(q, r)
    BY <2>1 DEF Fields, Onward
  <2> HIDE DEF r
  <2> QED
    BY <1>2, <2>1, <2>2, <2>3
<1>5. ASSUME NEW t \in Setscene, SceneFail(t) \/ SceneSkip(t) PROVE Onward(q, q')
  <2> DEFINE r == Undefer(q, t)
  <2>1. Fields \subseteq DOMAIN r /\ Onward(q, r)
    BY <1>1, <1>2, <1>3
  <2>2. q' = SqTaskFail(r, stamps, {t}) \/ q' = SqTaskSkip(r, {t})
    BY <1>5 DEF SceneFail, SceneSkip
  <2> HIDE DEF r
  <2>3. {t} \in SUBSET Setscene
    OBVIOUS
  <2>4. Onward(r, q')
    BY <2>1, <2>2, <2>3, FailMoved, SkipMoved, MovedOnward
  <2> QED
    BY <2>1, <2>4 DEF Onward
<1>6. ASSUME NEW t \in Setscene, SceneStart(t) PROVE Onward(q, q')
  <2> DEFINE r == Undefer(q, t)
  <2>1. Fields \subseteq DOMAIN r /\ Onward(q, r)
    BY <1>1, <1>2, <1>3
  <2>2. q' = [r EXCEPT !.running = @ \cup {t}, !.live = @ \cup {t}]
    BY <1>6 DEF SceneStart
  <2> HIDE DEF r
  <2> QED
    BY <2>1, <2>2 DEF Fields, Onward
<1>7. ASSUME NEW t \in Setscene, SceneHardWait(t) PROVE Onward(q, q')
  BY <1>1, <1>7 DEF SceneHardWait, Fields, Onward
<1> QED
  BY <1>3, <1>4, <1>5, <1>6, <1>7 DEF SceneStep, SceneNone, Onward

\* Neither does the task half.
LEMMA TaskOnward ==
    ASSUME Queues, TaskStep
    PROVE  Onward(q, q')
<1>1. ASSUME NEW t \in Tasks, TaskSkip(t) \/ TaskNoExec(t)
      PROVE  Onward(q, q')
  BY <1>1, OutrightOnward DEF TaskSkip, TaskNoExec, TaskComplete
<1>2. ASSUME ForceDeferred PROVE Onward(q, q')
  BY <1>2, UndeferMoved, MovedOnward DEF ForceDeferred, Queues, Turns
<1>3. ASSUME q' = q PROVE Onward(q, q')
  BY <1>3 DEF Onward
<1>4. ASSUME NEW t \in Tasks, TaskUnexpected(t) \/ TaskStart(t) PROVE q' = q
  BY <1>4 DEF TaskUnexpected, TaskStart
<1>5. Wait \/ Stop => q' = q
  BY DEF Wait, Stop
<1> QED
  BY <1>1, <1>2, <1>3, <1>4, <1>5 DEF TaskStep

\* Nor do the answers of the workers; a setscene task runs until its own.
LEMMA ExitOnward ==
    ASSUME Queues, NEW t \in Tasks, NEW ok \in BOOLEAN, ExitMessage(t, ok)
    PROVE  /\ q.covered \subseteq q'.covered /\ q.notcovered \subseteq q'.notcovered
           /\ q.live \subseteq q'.live \cup {t}
<1>1. CASE SceneExit(t, ok)
  <2> DEFINE r == IF ok THEN SqTaskComplete(q, {t}) ELSE SqTaskFail(q, stamps, {t})
  <2>1. {t} \subseteq q.running /\ {t} \in SUBSET Setscene /\ Fields \subseteq DOMAIN q
    BY <1>1 DEF SceneExit, Queues, Turns
  <2>2. Moved(r, q, {t}, {}) \/ Moved(r, q, {}, {t})
    <3>1. Moved(SqTaskComplete(q, {t}), q, {t}, {})
      BY <2>1, CompleteMoved
    <3>2. Moved(SqTaskFail(q, stamps, {t}), q, {}, {t})
      BY <2>1, FailMoved
    <3> QED
      BY <3>1, <3>2
  <2>3. q' = [r EXCEPT !.live = @ \ {t}]
    BY <1>1 DEF SceneExit
  <2> HIDE DEF r
  <2>4. Fields \subseteq DOMAIN r /\ Onward(q, r)
    BY <2>2, MovedOnward
  <2> QED
    BY <2>3, <2>4 DEF Fields, Onward
<1>2. CASE TaskExit(t, ok)
  BY <1>2, OutrightOnward DEF TaskExit, TaskComplete, Onward
<1> QED
  BY <1>1, <1>2 DEF ExitMessage

\* A change of hashes reaches no restored task, for the queue computes their hashes
\* no more, and what waited to go back into the queue was not restored
\* (process_possible_migrations).
LEMMA CoveredKept ==
    ASSUME NoHardDeps, Ledger, Queues, IInv, [Next]_vars
    PROVE  q.covered \subseteq q'.covered
<1>1. options' = options
  BY DEF Next, Server, ExitMessage, UniHashMessage, Shutdown, ForceShutdown, Done, vars
<1>2. CASE Migrate
  BY <1>1, <1>2, MigrateLedger
<1>3. CASE SceneStep \/ TaskStep
  BY <1>3, SceneOnward, TaskOnward DEF Onward
<1>4. ASSUME NEW t \in Tasks, NEW ok \in BOOLEAN, ExitMessage(t, ok)
      PROVE  q.covered \subseteq q'.covered
  BY <1>4, ExitOnward
<1>5. CASE Holdoff
  BY <1>5 DEF Holdoff, UpdateHoldoff, Queues, Turns, Fields
<1>6. CASE \/ Call \/ Finish \/ ReadDone \/ Shutdown \/ ForceShutdown \/ Done
           \/ UNCHANGED vars \/ \E t \in Tasks, h \in Hashes : UniHashMessage(t, h)
  BY <1>6 DEF Call, Finish, ReadDone, Shutdown, ForceShutdown, Done, UniHashMessage, vars
<1> QED
  BY <1>2, <1>3, <1>4, <1>5, <1>6 DEF Next, Server

\* What was restored is not taken back.
THEOREM SpecCoveredStays ==
    ASSUME NoHardDeps
    PROVE  Spec => CoveredStays
<1>1. Ledger /\ Queues /\ IInv /\ [Next]_vars => [q.covered \subseteq q'.covered]_vars
  BY CoveredKept
<1> QED
  BY <1>1, SpecLedger, SpecIInv, SpecQueues, PTL DEF Spec, CoveredStays

-----------------------------------------------------------------------------
(* The inputs of what runs are there: nothing that runs needs a setscene task *)
(* that was held not to be needed, unless that was run.                       *)

\* The same setscene tasks are held not to be needed in r as in p.
SameUnneeded(r, p) == "notneeded" \in DOMAIN r /\ r.notneeded = p.notneeded

\* Settling and failing setscene tasks, and looking at stamps and hashes again, leave
\* those alone (sq_task_skip, sq_task_failoutright, update_scenequeue_data).
LEMMA CompleteUnneeded ==
    ASSUME NEW p, "notneeded" \in DOMAIN p, NEW S
    PROVE  SameUnneeded(SqTaskComplete(p, S), p)
<1> DEFINE r == [p EXCEPT !.covered = @ \cup S]
<1>1. SameUnneeded(r, p)
  BY DEF SameUnneeded
<1> HIDE DEF r
<1>2. SameUnneeded(UpdateCounters(r, S), r)
  BY <1>1 DEF UpdateCounters, SameUnneeded
<1> QED
  BY <1>1, <1>2 DEF SqTaskComplete, SameUnneeded, r

LEMMA SkipUnneeded ==
    ASSUME NEW p, "notneeded" \in DOMAIN p, NEW S
    PROVE  SameUnneeded(SqTaskSkip(p, S), p)
<1> DEFINE r == [p EXCEPT !.running = @ \cup S, !.buildable = @ \cup S]
<1>1. SameUnneeded(r, p)
  BY DEF SameUnneeded
<1> HIDE DEF r
<1>2. SameUnneeded(SqTaskComplete(r, S), r)
  BY <1>1, CompleteUnneeded DEF SameUnneeded
<1> QED
  BY <1>1, <1>2 DEF SqTaskSkip, SameUnneeded, r

LEMMA FailUnneeded ==
    ASSUME NEW p, "notneeded" \in DOMAIN p, NEW st, NEW S
    PROVE  SameUnneeded(SqTaskFail(p, st, S), p)
<1> DEFINE F == Unavailable(p, st, S)
           r == [p EXCEPT !.running = @ \cup F, !.buildable = @ \cup F,
                          !.notcovered = @ \cup F]
<1>1. SameUnneeded(r, p)
  BY DEF SameUnneeded
<1> HIDE DEF F
<1>2. SameUnneeded(UpdateCounters(r, F), r)
  BY <1>1 DEF UpdateCounters, SameUnneeded
<1> QED
  BY <1>1, <1>2 DEF SqTaskFail, SameUnneeded, F

LEMMA SceneDataUnneeded ==
    ASSUME NEW p, "notneeded" \in DOMAIN p, NEW st, NEW T, NEW valid
    PROVE  SameUnneeded(UpdateSceneData(p, st, T, valid), p)
<1> DEFINE stamped == {t \in T : SceneStamped(st, t)}
           r == IF stamped = {} THEN p ELSE SqTaskSkip(p, stamped)
<1>1. SameUnneeded(r, p)
  BY SkipUnneeded DEF SameUnneeded
<1> HIDE DEF stamped
<1> QED
  BY <1>1 DEF UpdateSceneData, SameUnneeded, stamped

\* So does completing a task, which may let a deferred setscene task go.
LEMMA OutrightUnneeded ==
    ASSUME "notneeded" \in DOMAIN q,
           NEW t, NEW built, NEW ran, TaskCompleteOutright(t, built, ran)
    PROVE  SameUnneeded(q', q)
<1>1. \A f, d, st, valid :
          SameUnneeded(UpdateSceneData([q EXCEPT !.deferred = f], st, {d}, valid), q)
  <2> TAKE f, d, st, valid
  <2> DEFINE r == [q EXCEPT !.deferred = f]
  <2>1. SameUnneeded(r, q)
    BY DEF SameUnneeded
  <2> HIDE DEF r
  <2>2. SameUnneeded(UpdateSceneData(r, st, {d}, valid), r)
    BY <2>1, SceneDataUnneeded DEF SameUnneeded
  <2> QED
    BY <2>1, <2>2 DEF SameUnneeded, r
<1>2. SameUnneeded(q, q)
  BY DEF SameUnneeded
<1>3. \A st, valid : SameUnneeded(ReleaseDeferred(q, st, t, valid), q)
  BY <1>1, <1>2 DEF ReleaseDeferred
<1> QED
  BY <1>3 DEF TaskCompleteOutright

\* So does letting one go that is looked at.
LEMMA UndeferUnneeded ==
    ASSUME NEW p, "notneeded" \in DOMAIN p, NEW t
    PROVE  SameUnneeded(Undefer(p, t), p)
BY DEF Undefer, SameUnneeded

\* What goes back into the queue is no longer held not to be needed.
LEMMA RequeueUnneeded ==
    ASSUME "notneeded" \in DOMAIN q, NEW M, NEW hash, NEW valid
    PROVE  LET r == Requeue(M, hash, valid)
           IN  "notneeded" \in DOMAIN r /\ r.notneeded = q.notneeded \ M
<1> DEFINE below == (UNION {SqCovered[t] : t \in M}) \ (complete \cup Unskippable)
           q1 == [q EXCEPT !.done = @ \ (M \cup below),
                        !.buildable = @ \ M, !.running = @ \ M, !.outright = @ \ M,
                        !.covered = @ \ M, !.notcovered = @ \ M, !.notneeded = @ \ M,
                        !.stamp = [t \in Setscene |-> IF t \in M THEN hash[t] ELSE @[t]]]
           lost == {t \in M : HardDepsRev[t] \cap q1.notcovered # {}}
           ready == {t \in M : \/ SqRevdeps[t] = {}
                               \/ t \notin lost /\ SqRevdeps[t] \subseteq Settled(q1)}
           q2 == [q1 EXCEPT !.buildable = @ \cup ready,
                            !.deferred = Merge(@, DeferredAfter(M, hash))]
           st == Stamps(files', hash)
           q3 == UpdateSceneData(q2, st, M, valid)
<1>1. "notneeded" \in DOMAIN q1 /\ q1.notneeded = q.notneeded \ M
  OBVIOUS
<1>2. Requeue(M, hash, valid) = SqTaskFail(q3, st, lost)
  BY DEF Requeue
<1> HIDE DEF q1
<1>3. SameUnneeded(q2, q1)
  BY <1>1 DEF SameUnneeded
<1> HIDE DEF q2, st, lost
<1>4. SameUnneeded(q3, q2)
  BY <1>3, SceneDataUnneeded DEF SameUnneeded
<1> HIDE DEF q3
<1>5. SameUnneeded(SqTaskFail(q3, st, lost), q3)
  BY <1>4, FailUnneeded DEF SameUnneeded
<1> QED
  BY <1>1, <1>2, <1>3, <1>4, <1>5 DEF SameUnneeded

-----------------------------------------------------------------------------
\* Nothing that is built needs s.
Passed(s) == s \notin Unskippable /\ SqRevdeps[s] \subseteq q.covered

\* All that needs what is held not to be needed is restored.
Unneeded == "notneeded" \in DOMAIN q /\ \A s \in q.notneeded : Passed(s)

\* A task that a worker runs was chosen to: no setscene task restores it or covers it.
Picked ==
    \A t \in InFlight \ q.live :
        /\ t \notin complete
        /\ IF t \in Setscene THEN t \in q.notcovered ELSE Wanted(t)

\* What a task that is about to run, or runs, depends on was run, or restored since
\* something that is built needs it.
LEMMA Inputs ==
    ASSUME NoHardDeps, Queues, NEW t \in Tasks,
           IF t \in Setscene THEN t \in q.notcovered ELSE Wanted(t),
           NEW d \in Depends[t], d \in complete
    PROVE  d \in tasksrun \/ (d \in q.covered /\ d \in Setscene /\ ~Passed(d))
<1> SUFFICES ASSUME d \notin tasksrun
             PROVE  d \in q.covered /\ d \in Setscene /\ ~Passed(d)
  OBVIOUS
<1>1. PassedFor(q, d) /\ d \in Tasks
  BY GraphAssumption DEF Queues, PassedOver, GraphAssumption
<1>2. \A s \in q.notcovered : s \in Setscene /\ s \notin q.covered
  BY DEF Queues, Turns, Settled, FailedForGood
<1>3. CASE t \in Setscene
  <2>1. Depends[t] \subseteq Exposed(Depends[t])
    BY GraphAssumption, ExposedClosed DEF GraphAssumption
  <2>2. d \in Setscene
    BY <1>1, <1>2, <1>3, CoveredClosed DEF PassedFor
  <2>3. t \in SqRevdeps[d]
    BY <1>3, <2>1, <2>2 DEF SqRevdeps
  <2> QED
    BY <1>1, <1>2, <1>3, <2>2, <2>3 DEF PassedFor, Passed
<1>4. CASE t \in Unskippable \ Setscene
  <2>1. d \in Unskippable
    BY <1>4, CoveredClosed
  <2> QED
    BY <1>1, <2>1 DEF PassedFor, Passed
<1>5. ASSUME t \notin Setscene, NEW s \in q.notcovered, t \in SqCovered[s]
      PROVE  d \in q.covered /\ d \in Setscene /\ ~Passed(d)
  <2>1. s \in Setscene /\ s \notin q.covered
    BY <1>2, <1>5
  <2>2. d \in Setscene
    BY <1>1, <1>5, <2>1, CoveredClosed DEF PassedFor
  <2>3. t \in Exposed(Depends[s]) /\ Depends[s] \in SUBSET Tasks
    BY <1>5, <2>1, GraphAssumption DEF SqCovered, GraphAssumption
  <2>4. d \in Exposed(Depends[s])
    BY <1>5, <2>3, ExposedClosed
  <2>5. s \in SqRevdeps[d]
    BY <2>1, <2>2, <2>4 DEF SqRevdeps
  <2> QED
    BY <1>1, <2>1, <2>2, <2>5 DEF PassedFor, Passed
<1> QED
  BY <1>3, <1>4, <1>5 DEF Wanted

\* Nothing is held not to be needed when a build starts, and nothing runs.
LEMMA InitUnneeded ==
    ASSUME Init
    PROVE  Unneeded /\ Picked
<1>1. PICK valid \in SUBSET Setscene : q = InitQueue(valid)
  BY DEF Init
<1> DEFINE q0 == [covered |-> {}, notcovered |-> {}, running |-> {}, live |-> {},
               buildable |-> {s \in Setscene : SqRevdeps[s] = {}},
               done |-> Unskippable \ Setscene,
               needed |-> {}, hdeferred |-> {}, notneeded |-> {}, outright |-> {},
               deferred |-> DeferredAfter(Setscene, InitUni),
               update |-> TRUE,
               stamp |-> [s \in Setscene |-> InitUni[s]]]
<1>2. "notneeded" \in DOMAIN q0 /\ q0.notneeded = {}
  OBVIOUS
<1>3. InitQueue(valid) = UpdateSceneData(q0, stamps, Setscene, valid)
  BY DEF InitQueue
<1> HIDE DEF q0
<1>4. Unneeded
  BY <1>1, <1>2, <1>3, SceneDataUnneeded DEF Unneeded, SameUnneeded
<1>5. Picked
  BY DEF Init, InFlight, Picked
<1> QED
  BY <1>4, <1>5

\* Only SceneNotNeeded adds to what is held not to be needed.
LEMMA SceneUnneeded ==
    ASSUME "notneeded" \in DOMAIN q, SceneStep
    PROVE  /\ "notneeded" \in DOMAIN q'
           /\ \A s \in q'.notneeded \ q.notneeded : s \in Setscene /\ SceneNotNeeded(s)
<1>1. ASSUME NEW t \in Setscene, SceneNotNeeded(t)
      PROVE  "notneeded" \in DOMAIN q' /\ q'.notneeded = q.notneeded \cup {t}
  <2> DEFINE p == SqTaskSkip(q, {t})
             r == [p EXCEPT !.notneeded = @ \cup {t}]
  <2>1. SameUnneeded(p, q)
    BY SkipUnneeded
  <2>2. q' = Undefer(r, t)
    BY <1>1 DEF SceneNotNeeded
  <2> HIDE DEF p
  <2>3. "notneeded" \in DOMAIN r /\ r.notneeded = q.notneeded \cup {t}
    BY <2>1 DEF SameUnneeded
  <2> HIDE DEF r
  <2> QED
    BY <2>2, <2>3, UndeferUnneeded DEF SameUnneeded
<1>2. ASSUME NEW t \in Setscene, SceneFail(t) \/ SceneSkip(t) \/ SceneStart(t)
      PROVE  SameUnneeded(q', q)
  <2> DEFINE r == Undefer(q, t)
  <2>1. SameUnneeded(r, q)
    BY UndeferUnneeded
  <2>2. \/ q' = SqTaskFail(r, stamps, {t}) \/ q' = SqTaskSkip(r, {t})
        \/ q' = [r EXCEPT !.running = @ \cup {t}, !.live = @ \cup {t}]
    BY <1>2 DEF SceneFail, SceneSkip, SceneStart
  <2> HIDE DEF r
  <2>3. CASE q' = SqTaskFail(r, stamps, {t}) \/ q' = SqTaskSkip(r, {t})
    <3>1. SameUnneeded(q', r)
      BY <2>1, <2>3, FailUnneeded, SkipUnneeded DEF SameUnneeded
    <3> QED
      BY <2>1, <3>1 DEF SameUnneeded
  <2>4. CASE q' = [r EXCEPT !.running = @ \cup {t}, !.live = @ \cup {t}]
    BY <2>1, <2>4 DEF SameUnneeded
  <2> QED
    BY <2>2, <2>3, <2>4
<1>3. ASSUME NEW t \in Setscene, SceneHardWait(t) PROVE SameUnneeded(q', q)
  BY <1>3 DEF SceneHardWait, SameUnneeded
<1>4. SceneNone => q' = q
  BY DEF SceneNone
<1> QED
  BY <1>1, <1>2, <1>3, <1>4 DEF SceneStep, SameUnneeded

\* Of the steps outside the setscene part none adds to it.
LEMMA OtherUnneeded ==
    ASSUME "notneeded" \in DOMAIN q, [Next]_vars, ~SceneStep
    PROVE  "notneeded" \in DOMAIN q' /\ q'.notneeded \subseteq q.notneeded
<1>1. CASE \/ Call \/ Finish \/ ReadDone \/ Shutdown \/ ForceShutdown \/ Done
           \/ UNCHANGED vars \/ \E t \in Tasks, h \in Hashes : UniHashMessage(t, h)
  BY <1>1 DEF Call, Finish, ReadDone, Shutdown, ForceShutdown, Done, UniHashMessage, vars
<1>2. ASSUME NEW t \in Tasks, NEW ok \in BOOLEAN, SceneExit(t, ok)
      PROVE  SameUnneeded(q', q)
  <2> DEFINE r == IF ok THEN SqTaskComplete(q, {t}) ELSE SqTaskFail(q, stamps, {t})
  <2>1. SameUnneeded(r, q)
    BY CompleteUnneeded, FailUnneeded
  <2>2. q' = [r EXCEPT !.live = @ \ {t}]
    BY <1>2 DEF SceneExit
  <2> HIDE DEF r
  <2> QED
    BY <2>1, <2>2 DEF SameUnneeded
<1>3. ASSUME NEW t \in Tasks, NEW ok \in BOOLEAN, TaskExit(t, ok)
      PROVE  SameUnneeded(q', q)
  BY <1>3, OutrightUnneeded DEF TaskExit, TaskComplete, SameUnneeded
<1>4. CASE Holdoff
  BY <1>4 DEF Holdoff, UpdateHoldoff
<1>5. CASE TaskStep
  <2>1. ASSUME NEW t \in Tasks, TaskSkip(t) \/ TaskNoExec(t) PROVE SameUnneeded(q', q)
    BY <2>1, OutrightUnneeded DEF TaskSkip, TaskNoExec, TaskComplete
  <2>2. ASSUME ForceDeferred PROVE SameUnneeded(q', q)
    BY <2>2, UndeferUnneeded DEF ForceDeferred
  <2>3. ASSUME NEW t \in Tasks, TaskUnexpected(t) \/ TaskStart(t) PROVE q' = q
    BY <2>3 DEF TaskUnexpected, TaskStart
  <2>4. Wait \/ Stop => q' = q
    BY DEF Wait, Stop
  <2> QED
    BY <1>5, <2>1, <2>2, <2>3, <2>4 DEF TaskStep, SameUnneeded
<1>6. CASE Migrate
  <2> DEFINE queue(hash) ==
               {t \in pending \cup
                       ({d \in DependOn(DOMAIN Rehashed) :
                            hash[d] # Merge(uni, Rehashed)[d]} \cap Setscene) : ~TooLate(t)}
             M(hash) == {t \in queue(hash) : ~Blocked(t)}
  <2>1. PICK hash \in NewHashes(Rehashed) :
            \/ q' = q
            \/ \E valid \in SUBSET M(hash) :
                  LET r == IF M(hash) = {} THEN q ELSE Requeue(M(hash), hash, valid)
                  IN  q' = [r EXCEPT !.needed = {}, !.hdeferred = {}, !.update = TRUE]
    BY <1>6, Zenon DEF Migrate
  <2> DEFINE N == M(hash)
  <2> HIDE DEF N
  <2>2. ASSUME NEW valid,
               q' = [(IF N = {} THEN q ELSE Requeue(N, hash, valid))
                        EXCEPT !.needed = {}, !.hdeferred = {}, !.update = TRUE]
        PROVE  "notneeded" \in DOMAIN q' /\ q'.notneeded \subseteq q.notneeded
    <3> DEFINE r == IF N = {} THEN q ELSE Requeue(N, hash, valid)
    <3>1. "notneeded" \in DOMAIN r /\ r.notneeded \subseteq q.notneeded
      BY RequeueUnneeded
    <3>2. q' = [r EXCEPT !.needed = {}, !.hdeferred = {}, !.update = TRUE]
      BY <2>2
    <3> HIDE DEF r
    <3> QED
      BY <3>1, <3>2
  <2> QED
    BY <2>1, <2>2 DEF N
<1> QED
  BY <1>1, <1>2, <1>3, <1>4, <1>5, <1>6 DEF Next, Server, ExitMessage, SameUnneeded

\* What is held not to be needed stays so, for what is restored stays restored.
LEMMA NextUnneeded ==
    ASSUME NoHardDeps, Ledger, Queues, IInv, Unneeded, [Next]_vars
    PROVE  Unneeded'
<1>1. q.covered \subseteq q'.covered
  BY CoveredKept
<1>2. ASSUME NEW s \in q.notneeded PROVE Passed(s)'
  BY <1>1 DEF Unneeded, Passed
<1>3. ASSUME NEW s, SceneNotNeeded(s) PROVE Passed(s)'
  BY <1>1, <1>3 DEF SceneNotNeeded, Passed
<1>4. CASE SceneStep
  BY <1>2, <1>3, <1>4, SceneUnneeded DEF Unneeded
<1>5. CASE ~SceneStep
  BY <1>2, <1>5, OtherUnneeded DEF Unneeded
<1> QED
  BY <1>4, <1>5

\* A task that runs is wanted while no setscene task that it or what stands for it
\* failed with goes back into the queue, and complete only after its worker answered.
LEMMA StillPicked ==
    ASSUME Picked, NEW t \in InFlight \ q.live, t \notin complete',
           \A s \in q.notcovered \ q'.notcovered : s # t /\ t \notin SqCovered[s]
    PROVE  /\ t \notin complete'
           /\ (IF t \in Setscene THEN t \in q.notcovered ELSE Wanted(t))'
<1>1. t \in Setscene => t \in q'.notcovered
  BY DEF Picked
<1>2. t \notin Setscene => Wanted(t)'
  BY DEF Picked, Wanted
<1> QED
  BY <1>1, <1>2

\* No step makes what runs needless: a setscene task does not go back into the queue
\* while it, or a task it stands for, runs (process_possible_migrations).
LEMMA NextPicked ==
    ASSUME NoHardDeps, Ledger, Queues, IInv, Picked, [Next]_vars
    PROVE  Picked'
<1>1. \A t \in InFlight \ q.live : t \in running /\ t \notin complete
  BY DEF Queues, Started, Picked
<1>2. ASSUME q.notcovered \subseteq q'.notcovered, InFlight' \ q'.live \subseteq InFlight \ q.live,
             complete' \cap (InFlight' \ q'.live) \subseteq complete
      PROVE  Picked'
  <2>1. ASSUME NEW t \in InFlight' \ q'.live
        PROVE  /\ t \notin complete'
               /\ (IF t \in Setscene THEN t \in q.notcovered ELSE Wanted(t))'
    BY <1>1, <1>2, <2>1, StillPicked
  <2> QED
    BY <2>1 DEF Picked
<1>3. CASE \/ Call \/ Finish \/ ReadDone \/ Shutdown \/ ForceShutdown \/ Done
           \/ UNCHANGED vars \/ \E t \in Tasks, h \in Hashes : UniHashMessage(t, h)
  BY <1>2, <1>3 DEF Call, Finish, ReadDone, Shutdown, ForceShutdown, Done, UniHashMessage,
                    vars, taskVars, InFlight
<1>4. ASSUME NEW t \in Tasks, NEW ok \in BOOLEAN, ExitMessage(t, ok) PROVE Picked'
  <2>1. InFlight' = InFlight \ {t}
    BY <1>4 DEF ExitMessage, Drop, InFlight
  <2>2. complete' \subseteq complete \cup {t}
    BY <1>4 DEF ExitMessage, SceneExit, TaskExit, TaskComplete, TaskCompleteOutright, taskVars
  <2> QED
    BY <1>2, <1>4, <2>1, <2>2, ExitOnward
<1>5. CASE SceneStep
  <2>1. complete' = complete
    BY <1>5 DEF SceneStep, SceneNotNeeded, SceneHardWait, SceneFail, SceneSkip, SceneStart,
                SceneNone, SceneUnchanged, taskVars
  <2>2. Onward(q, q')
    BY <1>5, SceneOnward
  <2>3. ASSUME NEW t \in Setscene, SceneStart(t)
        PROVE  InFlight' \subseteq InFlight \cup {t} /\ t \in q'.live
    <3>1. DOMAIN buildStamps' = DOMAIN buildStamps \cup {t}
      BY <2>3 DEF SceneStart, Merge
    <3> DEFINE r == Undefer(q, t)
    <3>2. Fields \subseteq DOMAIN r
      BY UndeferMoved DEF Moved, Queues, Turns
    <3>3. q' = [r EXCEPT !.running = @ \cup {t}, !.live = @ \cup {t}]
      BY <2>3 DEF SceneStart
    <3> HIDE DEF r
    <3> QED
      BY <3>1, <3>2, <3>3 DEF InFlight, Fields
  <2>4. ASSUME ~\E t \in Setscene : SceneStart(t) PROVE InFlight' = InFlight
    BY <1>5, <2>4 DEF SceneStep, SceneNotNeeded, SceneHardWait, SceneFail, SceneSkip,
                      SceneNone, InFlight
  <2>5. InFlight' \ q'.live \subseteq InFlight \ q.live
    BY <2>2, <2>3, <2>4 DEF Onward
  <2> QED
    BY <1>2, <2>1, <2>2, <2>5 DEF Onward
<1>6. CASE Holdoff
  <2>1. q'.notcovered = q.notcovered /\ q'.live = q.live
    BY <1>6 DEF Holdoff, UpdateHoldoff, Queues, Turns, Fields
  <2> QED
    BY <1>2, <1>6, <2>1 DEF Holdoff, InFlight
<1>7. ASSUME NEW t \in Tasks, TaskStart(t) PROVE Picked'
  <2>1. InFlight' = InFlight \cup {t}
    BY <1>7 DEF TaskStart, Merge, InFlight
  <2>2. UNCHANGED <<q, complete>>
    BY <1>7 DEF TaskStart
  <2>3. t \notin complete
    BY <1>7 DEF TaskStart, TaskChoice, Buildable, Queues, Started
  <2>4. IF t \in Setscene THEN t \in q.notcovered ELSE Wanted(t)
    BY <1>7 DEF TaskStart, TaskChoice, Buildable, Queues, HeldOff, Marked
  <2> QED
    BY <2>1, <2>2, <2>3, <2>4 DEF Picked, Wanted
<1>8. ASSUME NEW t \in Tasks, TaskSkip(t) \/ TaskNoExec(t) PROVE Picked'
  <2>1. InFlight' = InFlight /\ complete' = complete \cup {t} /\ t \notin running
    BY <1>8 DEF TaskSkip, TaskNoExec, TaskComplete, TaskCompleteOutright, TaskChoice,
                Buildable, InFlight
  <2>2. Onward(q, q')
    BY <1>8, OutrightOnward DEF TaskSkip, TaskNoExec, TaskComplete
  <2> QED
    BY <1>1, <1>2, <2>1, <2>2 DEF Onward
<1>9. CASE Wait \/ Stop \/ ForceDeferred \/ \E t \in Tasks : TaskUnexpected(t)
  <2>1. Onward(q, q')
    BY <1>9, TaskOnward DEF TaskStep
  <2>2. InFlight' = InFlight /\ complete' = complete
    BY <1>9 DEF Wait, Stop, ForceDeferred, TaskUnexpected, taskVars, InFlight
  <2> QED
    BY <1>2, <2>1, <2>2 DEF Onward
<1>10. CASE Migrate /\ options' = options
  <2>1. /\ q'.live = q.live
        /\ \A s \in q.notcovered \ q'.notcovered :
              s \notin running /\ RunningNow(SqCovered[s]) = {}
    BY <1>10, MigrateLedger
  <2>2. InFlight' = InFlight /\ complete' = complete
    BY <1>10 DEF Migrate, InFlight
  <2>3. ASSUME NEW t \in InFlight' \ q'.live
        PROVE  /\ t \notin complete'
               /\ (IF t \in Setscene THEN t \in q.notcovered ELSE Wanted(t))'
    <3>1. t \in InFlight \ q.live /\ t \in running /\ t \notin complete
      BY <1>1, <2>1, <2>2, <2>3
    <3>2. \A s \in q.notcovered \ q'.notcovered : s # t /\ t \notin SqCovered[s]
      BY <2>1, <3>1 DEF RunningNow
    <3> QED
      BY <2>2, <3>1, <3>2, StillPicked
  <2> QED
    BY <2>3 DEF Picked
<1> QED
  BY <1>3, <1>4, <1>5, <1>6, <1>7, <1>8, <1>9, <1>10 DEF Next, Server, TaskStep

\* If no setscene task names others as dependencies, what a running task needs was run
\* or found built, or is restored or found so, not merely passed over or held not to be
\* needed: what runs is wanted, and whatever needs what was held not to be needed is
\* restored and stays so.
THEOREM SpecInputsPresent ==
    ASSUME NoHardDeps
    PROVE  Spec => []InputsPresent
<1>1. Ledger /\ Queues /\ IInv /\ Unneeded /\ [Next]_vars => Unneeded'
  BY NextUnneeded
<1>2. Ledger /\ Queues /\ IInv /\ Picked /\ [Next]_vars => Picked'
  BY NextPicked
<1>3. ASSUME Queues, IInv, Unneeded, Picked PROVE InputsPresent
  <2> SUFFICES ASSUME NEW t \in InFlight \ q.live, NEW d \in Depends[t], d \notin tasksrun
               PROVE  d \in q.covered \ q.notneeded
    BY DEF InputsPresent
  <2>1. t \in Tasks /\ d \in complete
    BY <1>3 DEF IInv, TaskTypeOK, DepsFirst, Queues, Started
  <2>2. IF t \in Setscene THEN t \in q.notcovered ELSE Wanted(t)
    BY <1>3 DEF Picked
  <2>3. d \in q.covered /\ ~Passed(d)
    BY <1>3, <2>1, <2>2, Inputs
  <2> QED
    BY <1>3, <2>3 DEF Unneeded
<1> QED
  BY <1>1, <1>2, <1>3, InitUnneeded, SpecLedger, SpecIInv, SpecQueues, PTL DEF Spec

-----------------------------------------------------------------------------
(* After a complete build the stamps of what was asked for are there.  The   *)
(* ages of stamps are taken for the hash a task will have; they are kept     *)
(* while the hashes of tasks above change.                                   *)

\* No duplicates, as other multiconfigs have: each task has stamps of its own, and
\* no two setscene tasks have a recipe and task name in common.
NoDuplicates ==
    /\ \A t, u \in Tasks : StampBase[t] = StampBase[u] => t = u
    /\ \A s, t \in Setscene : Class[s] = Class[t] => s = t

\* The tasks whose stamps last: neither t nor what it is compared with is nostamp.
Lasts(t) ==
    /\ t \notin NoStamp
    /\ \A d \in Depends[t] : Recipe[d] = Recipe[t] => d \notin NoStamp

\* The build asks for tasks with stamps that last, also to be compared with.
Lasting == \A t \in Unskippable : Lasts(t)

\* The shelves have a place for the stamps of every task, and each stamp an age.
Shelf(f) ==
    /\ {"task", "scene"} \subseteq DOMAIN f
    /\ \A t \in Tasks :
          /\ StampBase[t] \in DOMAIN f.task \cap DOMAIN f.scene
          /\ f.task[StampBase[t]][2] \in 0..2 /\ f.scene[StampBase[t]][2] \in 0..2

\* The hash a task will have: the one it reported, if that is not yet taken over.
GoalOf(reports, hash, t) ==
    IF \E u \in reports : u[1] = t THEN (CHOOSE u \in reports : u[1] = t)[2] ELSE hash[t]
Goal(t) == GoalOf(updated, uni, t)
TaskAge(t) == AgeFor(files.task[StampBase[t]], Goal(t))
SceneAge(t) == AgeFor(files.scene[StampBase[t]], Goal(t))
HasStamp(t) == TaskAge(t) # Absent \/ SceneAge(t) # Absent

\* d is no reason to build t again.
Agrees(t, d) ==
    \/ d \in Setscene /\ SceneAge(d) > TaskAge(d)
    \/ TaskAge(d) # Absent /\ TaskAge(d) <= TaskAge(t)

\* t has the stamp of what it built, and no dependency is a reason to build it again.
WellBuilt(t) ==
    /\ t \notin NoStamp => TaskAge(t) # Absent
    /\ Lasts(t) => \A d \in Depends[t] : Recipe[d] = Recipe[t] => Agrees(t, d)

\* What is run was chosen to: no setscene task restores it or covers it.
Chosen ==
    /\ tasksrun \subseteq complete
    /\ (tasksrun \cup (InFlight \ q.live)) \cap Setscene \subseteq q.notcovered
    /\ \A t \in InFlight \ (q.live \cup Setscene) : Wanted(t)

\* Only a task that runs reports a hash, once, and nothing above it runs yet.
Reports ==
    \A u \in updated :
        /\ u[1] \in running \cap q.notcovered
        /\ DependOn({u[1]}) \cap running = {}
        /\ \A v \in updated : v[1] = u[1] => v = u

\* The workers have the current hashes of what they run.
Sent == \A t \in InFlight : buildStamps[t][2] = uni[t]

\* The inductive invariant behind NothingLeft.
Kept ==
    /\ Shelf(files) /\ DOMAIN q.deferred = {}
    /\ Chosen /\ Reports /\ Sent
    /\ \A t \in tasksrun : WellBuilt(t)
    /\ \A s \in q.covered : HasStamp(s) \/ Passed(s)

\* Without duplicates no setscene task is deferred to another.
LEMMA NoneDeferred ==
    ASSUME NoDuplicates, NEW T \in SUBSET Setscene, NEW hash
    PROVE  DOMAIN DeferredAfter(T, hash) = {}
<1> SUFFICES ASSUME NEW d \in T, NEW s \in Setscene,
                    Index(s, InitUni[s]) = Index(d, hash[d]),
                    First(Index(d, hash[d])) # d
             PROVE  FALSE
  BY DEF DeferredAfter
<1>1. First(Index(d, hash[d])) \in Setscene
      /\ Index(First(Index(d, hash[d])), InitUni[First(Index(d, hash[d]))]) = Index(d, hash[d])
  BY DEF First
<1>2. Class[First(Index(d, hash[d]))] = Class[d]
  BY <1>1 DEF Index
<1> QED
  BY <1>1, <1>2 DEF NoDuplicates

\* The stamps g are those of f but for a new one of the task t.
Reshelved(g, f, t, h) ==
    /\ Shelf(g)
    /\ g.task[StampBase[t]] = <<h, New>>
    /\ \A x \in Tasks \ {t} : /\ g.task[StampBase[x]] = f.task[StampBase[x]]
                              /\ g.scene[StampBase[x]] = f.scene[StampBase[x]]

\* A task's stamp is new and touches no other's.
LEMMA MakeStampShelf ==
    ASSUME NoDuplicates, NEW f, Shelf(f), NEW t \in Tasks, NEW h
    PROVE  Reshelved(MakeStamp(f, t, h), f, t, h)
<1> DEFINE c == StampBase[t]
           task == [f.task EXCEPT ![c] = <<h, New>>]
           scene == [f.scene EXCEPT ![c] = NoFile]
           g == MakeStamp(f, t, h)
<1>1. g = [f EXCEPT !.task[c] = <<h, New>>, !.scene[c] = NoFile]
  BY DEF MakeStamp
<1>2. DOMAIN g = DOMAIN f /\ g.task = task /\ g.scene = scene
  BY <1>1 DEF Shelf
<1>3. \A x \in Tasks \ {t} : StampBase[x] # c
  BY DEF NoDuplicates
<1>4. DOMAIN task = DOMAIN f.task /\ DOMAIN scene = DOMAIN f.scene
  OBVIOUS
<1>5. task[c] = <<h, New>> /\ scene[c] = NoFile
  BY DEF Shelf
<1>6. \A x \in Tasks \ {t} : /\ task[StampBase[x]] = f.task[StampBase[x]]
                             /\ scene[StampBase[x]] = f.scene[StampBase[x]]
  BY <1>3
<1>7. <<h, New>>[2] \in 0..2 /\ NoFile[2] \in 0..2
  BY DEF New, NoFile, Absent
<1> HIDE DEF g, task, scene
<1>8. Shelf(g)
  BY <1>2, <1>4, <1>5, <1>6, <1>7 DEF Shelf
<1> QED
  BY <1>2, <1>5, <1>6, <1>8 DEF g, Reshelved

\* The stamps g are those of f but for new setscene stamps of the tasks T.
Restamped(g, f, T, h) ==
    /\ Shelf(g) /\ g.task = f.task
    /\ \A x \in T : g.scene[StampBase[x]] = <<h[x], New>>
    /\ \A x \in Tasks \ T : g.scene[StampBase[x]] = f.scene[StampBase[x]]

\* Setscene stamps of the tasks T are new, and touch no other's.
LEMMA SceneStampsShelf ==
    ASSUME NoDuplicates, NEW f, Shelf(f), NEW T \in SUBSET Tasks, NEW h
    PROVE  Restamped(MakeSceneStamps(f, T, h), f, T, h)
<1> DEFINE named(c) == {u \in T : StampBase[u] = c}
           scene == [c \in DOMAIN f.scene |->
                        IF named(c) = {} THEN f.scene[c]
                        ELSE <<h[CHOOSE u \in named(c) : TRUE], New>>]
           g == MakeSceneStamps(f, T, h)
<1>1. g = [f EXCEPT !.scene = scene]
  BY DEF MakeSceneStamps
<1>2. DOMAIN g = DOMAIN f /\ g.task = f.task /\ g.scene = scene
  BY <1>1 DEF Shelf
<1>3. \A x \in T : named(StampBase[x]) = {x}
  BY DEF NoDuplicates
<1>4. \A x \in Tasks \ T : named(StampBase[x]) = {}
  BY DEF NoDuplicates
<1>5. DOMAIN scene = DOMAIN f.scene /\ \A x \in Tasks : StampBase[x] \in DOMAIN f.scene
  BY DEF Shelf
<1>6. \A x \in T : scene[StampBase[x]] = <<h[x], New>>
  <2> TAKE x \in T
  <2>1. named(StampBase[x]) = {x} /\ StampBase[x] \in DOMAIN f.scene
    BY <1>3, <1>5
  <2>2. (CHOOSE u \in named(StampBase[x]) : TRUE) = x
    BY <2>1
  <2> QED
    BY <2>1, <2>2
<1>7. \A x \in Tasks \ T : scene[StampBase[x]] = f.scene[StampBase[x]]
  BY <1>4, <1>5
<1>8. \A a : <<a, New>>[2] \in 0..2
  BY DEF New
<1> HIDE DEF g, scene
<1>9. Shelf(g)
  BY <1>2, <1>5, <1>6, <1>7, <1>8 DEF Shelf
<1> QED
  BY <1>2, <1>6, <1>7, <1>9 DEF g, Restamped

\* If what the tasks R depend on is complete, none of R is above a task that is not.
LEMMA AboveIdle ==
    ASSUME NEW R \in SUBSET Tasks, NEW K \in SUBSET R, \A x \in R : Depends[x] \subseteq K,
           NEW t \in Tasks, t \notin K
    PROVE  DependOn({t}) \cap R = {}
<1> DEFINE C == Tasks \ R
<1>1. C \in SUBSET Tasks
  OBVIOUS
<1>2. \A x \in {t} \cup C : RevDeps[x] \subseteq C
  BY DEF RevDeps
<1> HIDE DEF C
<1>3. DependOn({t}) \subseteq C
  BY <1>1, <1>2, DependOnClosed
<1> QED
  BY <1>3 DEF C

\* What depends on tasks X depends on one of them.
LEMMA DependOnOne ==
    ASSUME NEW X \in SUBSET Tasks, NEW r \in DependOn(X)
    PROVE  \E x \in X : r \in DependOn({x})
<1> DEFINE C == UNION {DependOn({x}) : x \in X}
<1>1. C \in SUBSET Tasks
  <2>1. \A x \in X : DependOn({x}) \subseteq Tasks
    BY DependOnClosed
  <2> QED
    BY <2>1
<1>2. \A x \in X \cup C : RevDeps[x] \subseteq C
  <2>1. \A x \in X : RevDeps[x] \subseteq DependOn({x})
    BY DependOnClosed
  <2>2. \A x \in X : \A y \in DependOn({x}) : RevDeps[y] \subseteq DependOn({x})
    BY DependOnClosed
  <2> QED
    BY <2>1, <2>2
<1> HIDE DEF C
<1>3. DependOn(X) \subseteq C
  BY <1>1, <1>2, DependOnClosed
<1> QED
  BY <1>3 DEF C

\* A task's stamp is current when the stamps it is compared with agree.
LEMMA CurrentWhen ==
    ASSUME NEW st, NEW t \in Tasks
    PROVE  StampCurrent(st, FALSE)[t] <=>
              /\ st.task[t] # Absent /\ t \notin NoStamp
              /\ \A d \in Depends[t] : Recipe[d] = Recipe[t] /\ ~Restored(st, d) =>
                    st.task[d] # Absent /\ st.task[d] <= st.task[t]
<1> DEFINE own(x) == /\ st.task[x] # Absent /\ x \notin NoStamp
                     /\ \A d \in Depends[x] : Recipe[d] = Recipe[x] /\ ~Restored(st, d) =>
                           st.task[d] # Absent /\ st.task[d] <= st.task[x]
           rest(f, x) == /\ st.task[x] # Absent
                         /\ x \notin NoStamp
                         /\ \A d \in Depends[x] :
                               Recipe[d] = Recipe[x] /\ ~Restored(st, d) =>
                                   /\ st.task[d] # Absent
                                   /\ st.task[d] <= st.task[x]
                                   /\ FALSE => f[d]
           Walk(f) == f = [x \in Tasks |-> rest(f, x)]
           g == [x \in Tasks |-> own(x)]
<1>1. StampCurrent(st, FALSE) = CHOOSE f : Walk(f)
  BY DEF StampCurrent
<1>2. \A f, x : rest(f, x) = own(x)
  OBVIOUS
<1> HIDE DEF rest, own
<1>3. Walk(g)
  BY <1>2
<1>4. Walk(StampCurrent(st, FALSE))
  <2> HIDE DEF Walk, g
  <2> QED BY <1>1, <1>3
<1>5. StampCurrent(st, FALSE)[t] = own(t)
  BY <1>2, <1>4
<1> QED
  BY <1>5 DEF own

\* The ages of a task's stamps, for the hash it will have, stay as they are.
Still(x) == TaskAge(x)' = TaskAge(x) /\ SceneAge(x)' = SceneAge(x)

\* A task that agreed with its inputs does while the ages stay.
LEMMA StillBuilt ==
    ASSUME NEW t \in Tasks, WellBuilt(t), Still(t), \A d \in Depends[t] : Still(d)
    PROVE  WellBuilt(t)'
<1>1. \A d \in Depends[t] : Agrees(t, d) => Agrees(t, d)'
  BY DEF Agrees, Still
<1>2. TaskAge(t)' = TaskAge(t)
  BY DEF Still
<1> QED
  BY <1>1, <1>2 DEF WellBuilt, Lasts

\* What a step must do to keep the invariant.
LEMMA KeepKept ==
    ASSUME Kept, IInv, Queues,
           Shelf(files'), DOMAIN q'.deferred = {}, q.covered \subseteq q'.covered,
           \A x \in complete \cup q.covered : Still(x),
           \A t \in tasksrun' \ tasksrun : WellBuilt(t)',
           \A s \in q'.covered \ q.covered : (HasStamp(s) \/ Passed(s))',
           Chosen', Reports', Sent'
    PROVE  Kept'
<1>1. ASSUME NEW t \in tasksrun PROVE WellBuilt(t)'
  <2>1. t \in Tasks /\ t \in complete /\ t \in running
    BY <1>1 DEF Kept, Chosen, IInv, TaskTypeOK, Queues, Started
  <2>2. \A d \in Depends[t] : Still(d)
    BY <2>1 DEF IInv, DepsFirst
  <2> QED
    BY <1>1, <2>1, <2>2, StillBuilt DEF Kept
<1>2. ASSUME NEW s \in q.covered PROVE (HasStamp(s) \/ Passed(s))'
  <2>1. Passed(s) => Passed(s)'
    BY DEF Passed
  <2>2. HasStamp(s) => HasStamp(s)'
    BY <1>2 DEF HasStamp, Still
  <2> QED
    BY <1>2, <2>1, <2>2 DEF Kept
<1>3. \A t \in tasksrun' : WellBuilt(t)'
  BY <1>1
<1>4. \A s \in q'.covered : (HasStamp(s) \/ Passed(s))'
  BY <1>2
<1> QED
  BY <1>3, <1>4 DEF Kept

\* The hash of a task that has reported none is its current one.
LEMMA GoalIs ==
    ASSUME NEW reports, NEW hash, NEW t
    PROVE  /\ (\A u \in reports : u[1] # t) => GoalOf(reports, hash, t) = hash[t]
           /\ \A u \in reports : u[1] = t /\ (\A v \in reports : v[1] = t => v = u) =>
                  GoalOf(reports, hash, t) = u[2]
<1>1. (\A u \in reports : u[1] # t) => GoalOf(reports, hash, t) = hash[t]
  BY DEF GoalOf
<1>2. ASSUME NEW u \in reports, u[1] = t, \A v \in reports : v[1] = t => v = u
      PROVE  GoalOf(reports, hash, t) = u[2]
  <2>1. (CHOOSE v \in reports : v[1] = t) = u
    BY <1>2
  <2> QED
    BY <1>2, <2>1 DEF GoalOf
<1> QED
  BY <1>1, <1>2

\* A task that no report is on its way for has its hash.
LEMMA GoalSettled ==
    ASSUME Reports, NEW t, t \notin running \cap q.notcovered
    PROVE  Goal(t) = uni[t]
<1>1. \A u \in updated : u[1] # t
  BY DEF Reports
<1> QED
  BY <1>1, GoalIs DEF Goal

\* The ages stay when neither the stamps nor the hashes change.
LEMMA SameStill ==
    ASSUME NEW x, files' = files, uni' = uni, updated' = updated
    PROVE  Still(x)
BY DEF Still, TaskAge, SceneAge, Goal

\* A task that just got a stamp is well built: the stamps of what it depends on are
\* there, and none is newer.
LEMMA FreshBuilt ==
    ASSUME NoHardDeps, Queues, Kept, NEW t \in Tasks,
           IF t \in Setscene THEN t \in q.notcovered ELSE Wanted(t),
           Depends[t] \subseteq complete, Shelf(files'),
           \A x \in complete \cup q.covered : Still(x),
           t \notin NoStamp => TaskAge(t)' = New
    PROVE  WellBuilt(t)'
<1>1. ASSUME Lasts(t), NEW d \in Depends[t], Recipe[d] = Recipe[t] PROVE Agrees(t, d)'
  <2>1. d \in Tasks /\ d \notin NoStamp /\ t \notin NoStamp
    BY <1>1, GraphAssumption DEF Lasts, GraphAssumption
  <2>2. TaskAge(t)' = 2 /\ TaskAge(d)' \in 0..2 /\ SceneAge(d)' \in 0..2
    BY <2>1 DEF Shelf, TaskAge, SceneAge, AgeFor, Absent, New
  <2>3. HasStamp(d)
    <3>1. CASE d \in tasksrun
      BY <2>1, <3>1 DEF Kept, WellBuilt, HasStamp
    <3>2. CASE d \notin tasksrun
      BY <1>1, <3>2, Inputs DEF Kept
    <3> QED
      BY <3>1, <3>2
  <2>4. TaskAge(d) = Absent => d \in Setscene
    <3>1. CASE d \in tasksrun
      BY <2>1, <3>1 DEF Kept, WellBuilt
    <3>2. CASE d \notin tasksrun
      BY <1>1, <3>2, Inputs
    <3> QED
      BY <3>1, <3>2
  <2>5. Still(d)
    OBVIOUS
  <2>6. TaskAge(d)' # Absent \/ (d \in Setscene /\ SceneAge(d)' # Absent)
    BY <2>3, <2>4, <2>5 DEF HasStamp, Still
  <2>7. \/ TaskAge(d)' # Absent /\ TaskAge(d)' <= TaskAge(t)'
        \/ d \in Setscene /\ SceneAge(d)' > TaskAge(d)'
    <3>1. \A a, b \in 0..2 : a # Absent \/ b # Absent => (a # Absent /\ a <= 2) \/ b > a
      BY DEF Absent
    <3>2. CASE TaskAge(d)' # Absent
      <4>1. TaskAge(d)' <= 2
        BY <2>2
      <4> QED
        BY <2>2, <3>2, <4>1
    <3>3. CASE TaskAge(d)' = Absent
      BY <2>2, <2>6, <3>1, <3>3
    <3> QED
      BY <3>2, <3>3
  <2> QED
    BY <2>7 DEF Agrees
<1>2. Lasts(t)' = Lasts(t)
  BY DEF Lasts
<1> QED
  BY <1>1, <1>2 DEF WellBuilt, New, Absent

\* A step that starts no task and moves the setscene queue forward keeps the invariant
\* if what it settles as covered has stamps or is needed by nothing.
LEMMA MovedKept ==
    ASSUME NoHardDeps, Kept, IInv, Queues,
           uni' = uni, updated' = updated, tasksrun' = tasksrun, complete' = complete,
           running' = running, Shelf(files'),
           \A x \in complete \cup q.covered : Still(x),
           q.covered \subseteq q'.covered, q.notcovered \subseteq q'.notcovered,
           DOMAIN q'.deferred \subseteq DOMAIN q.deferred,
           InFlight' \ q'.live \subseteq InFlight \ q.live, Sent',
           \A s \in q'.covered \ q.covered : (HasStamp(s) \/ Passed(s))'
    PROVE  Kept'
<1>1. \A t : Wanted(t) => Wanted(t)'
  BY DEF Wanted
<1>2. Chosen'
  BY <1>1 DEF Kept, Chosen
<1>3. Reports'
  BY DEF Kept, Reports
<1>4. DOMAIN q'.deferred = {}
  BY DEF Kept
<1> QED
  BY <1>2, <1>3, <1>4, KeepKept

\* Steps that change nothing the invariant is about.
LEMMA IdleKept ==
    ASSUME NoHardDeps, Kept, IInv, Queues,
           UNCHANGED <<files, uni, updated, tasksrun, complete, running, buildStamps>>,
           q'.covered = q.covered, q'.notcovered = q.notcovered, q'.live = q.live,
           q'.deferred = q.deferred
    PROVE  Kept'
<1>1. Shelf(files') /\ \A x : Still(x)
  BY SameStill DEF Kept
<1>2. Sent'
  BY DEF Kept, Sent, InFlight
<1> QED
  BY <1>1, <1>2, MovedKept DEF InFlight

\* A step that settles setscene tasks C as restored and changes no hash or stamp
\* keeps the invariant if those have stamps or are needed by nothing.
LEMMA SettleKept ==
    ASSUME NoHardDeps, Kept, IInv, Queues, Queues',
           UNCHANGED <<files, uni, updated, tasksrun, complete, running, buildStamps>>,
           NEW C, NEW N, Moved(q', q, C, N),
           \A s \in C : SceneAge(s) # Absent \/ Passed(s)
    PROVE  Kept'
<1>1. Shelf(files') /\ \A x : Still(x)
  BY SameStill DEF Kept
<1>2. Sent'
  BY DEF Kept, Sent, InFlight
<1>3. ASSUME NEW s \in q'.covered \ q.covered PROVE (HasStamp(s) \/ Passed(s))'
  <2>1. SceneAge(s)' # Absent \/ Passed(s)
    BY <1>1, <1>3 DEF Moved, Still
  <2>2. Passed(s) => Passed(s)'
    BY DEF Passed, Moved
  <2> QED
    BY <2>1, <2>2 DEF HasStamp
<1> QED
  BY <1>1, <1>2, <1>3, MovedKept DEF InFlight, Moved

\* A setscene task that starts has its hash sent to the worker; one that is skipped
\* has its stamp, or nothing that is built needs it.
LEMMA SceneKept ==
    ASSUME NoHardDeps, Kept, IInv, Queues, Queues', SceneStep
    PROVE  Kept'
<1>1. UNCHANGED <<files, uni, updated, tasksrun, complete, running>>
  BY DEF SceneStep, SceneNotNeeded, SceneHardWait, SceneFail, SceneSkip, SceneStart,
         SceneNone, SceneUnchanged, taskVars, hashVars
<1>2. ASSUME NEW x \in Setscene, SceneNotNeeded(x) PROVE Kept'
  <2> DEFINE s == SqTaskSkip(q, {x})
             r == [s EXCEPT !.notneeded = @ \cup {x}]
  <2>1. Moved(s, q, {x}, {})
    BY SkipMoved DEF Queues, Turns
  <2>2. q' = Undefer(r, x) /\ Passed(x) /\ buildStamps' = buildStamps
    BY <1>2 DEF SceneNotNeeded, Passed
  <2> HIDE DEF s
  <2>3. /\ DOMAIN r = DOMAIN s /\ r.live = s.live
        /\ r.covered = s.covered /\ r.notcovered = s.notcovered
        /\ r.running = s.running /\ r.deferred = s.deferred /\ r.update = s.update
    BY <2>1 DEF Moved, Fields
  <2> HIDE DEF r
  <2>4. Moved(r, q, {x}, {})
    BY <2>1, <2>3 DEF Moved, Settled
  <2>5. Moved(Undefer(r, x), r, {}, {})
    BY <2>4, UndeferMoved DEF Moved
  <2>6. Moved(q', q, {x}, {})
    BY <2>2, <2>4, <2>5, MovedTrans
  <2> QED
    BY <1>1, <2>2, <2>6, SettleKept
<1>3. ASSUME NEW x \in Setscene, SceneHardWait(x) PROVE Kept'
  BY <1>3 DEF SceneHardWait, Candidates, HardWait, NoHardDeps
<1>4. ASSUME NEW x \in Setscene, SceneFail(x) \/ SceneSkip(x) PROVE Kept'
  <2> DEFINE r == Undefer(q, x)
  <2>1. Moved(r, q, {}, {})
    BY UndeferMoved DEF Queues, Turns
  <2>2. /\ \/ q' = SqTaskFail(r, stamps, {x})
           \/ q' = SqTaskSkip(r, {x}) /\ stamps.scene[x] # Absent
        /\ buildStamps' = buildStamps
    BY <1>4 DEF SceneFail, SceneSkip
  <2> HIDE DEF r
  <2>3. Moved(q', r, {}, {x}) \/ (Moved(q', r, {x}, {}) /\ stamps.scene[x] # Absent)
    BY <2>1, <2>2, FailMoved, SkipMoved DEF Moved
  <2>4. Moved(q', q, {}, {x}) \/ (Moved(q', q, {x}, {}) /\ stamps.scene[x] # Absent)
    BY <2>1, <2>3, MovedTrans
  <2>5. stamps.scene[x] # Absent /\ Moved(q', q, {x}, {}) => SceneAge(x) # Absent
    <3>1. x \notin q.notcovered
      <4>1. x \notin q.running
        BY <1>4 DEF SceneFail, SceneSkip, SceneEligible, Candidates
      <4> QED
        BY <4>1 DEF Queues, Turns, Settled
    <3>2. Goal(x) = uni[x]
      BY <3>1, GoalSettled DEF Kept
    <3> QED
      BY <3>2 DEF SceneAge, stamps, Stamps
  <2> QED
    BY <1>1, <2>2, <2>4, <2>5, SettleKept
<1>5. ASSUME NEW x \in Setscene, SceneStart(x) PROVE Kept'
  <2> DEFINE r == Undefer(q, x)
  <2>1. Moved(r, q, {}, {})
    BY UndeferMoved DEF Queues, Turns
  <2>2. q' = [r EXCEPT !.running = @ \cup {x}, !.live = @ \cup {x}]
    BY <1>5 DEF SceneStart
  <2> HIDE DEF r
  <2>3. /\ q'.live = r.live \cup {x} /\ q'.covered = r.covered
        /\ q'.notcovered = r.notcovered /\ q'.deferred = r.deferred
    BY <2>1, <2>2 DEF Moved, Fields
  <2>4. /\ q'.covered = q.covered /\ q.notcovered \subseteq q'.notcovered
        /\ q'.live = q.live \cup {x} /\ DOMAIN q'.deferred \subseteq DOMAIN q.deferred
    BY <2>1, <2>3 DEF Moved
  <2>5. buildStamps' = Merge(buildStamps, [u \in {x} |-> Stamp(x, TRUE)])
    BY <1>5 DEF SceneStart
  <2>6. InFlight' = InFlight \cup {x}
    BY <2>5 DEF Merge, InFlight
  <2>7. \A t \in InFlight' : buildStamps'[t] = IF t = x THEN Stamp(x, TRUE) ELSE buildStamps[t]
    BY <2>5 DEF Merge, InFlight
  <2>8. Sent'
    BY <1>1, <2>6, <2>7 DEF Sent, Kept, Stamp
  <2>9. Shelf(files') /\ \A y : Still(y)
    BY <1>1, SameStill DEF Kept
  <2> QED
    BY <1>1, <2>4, <2>6, <2>8, <2>9, MovedKept
<1>6. CASE SceneNone
  <2>1. q' = q /\ buildStamps' = buildStamps
    BY <1>6 DEF SceneNone
  <2> QED
    BY <1>1, <2>1, IdleKept
<1> QED
  BY <1>2, <1>3, <1>4, <1>5, <1>6 DEF SceneStep

\* What a worker puts into a stamp is the hash the task will have.
LEMMA HashGoal ==
    ASSUME Sent, NEW t \in InFlight
    PROVE  HashOf(t) = Goal(t)
BY DEF Sent, HashOf, Goal, GoalOf

\* Nothing is deferred to a task that completes.
LEMMA NoneReleased ==
    ASSUME NEW p, NEW st, NEW t, NEW valid, DOMAIN p.deferred = {}
    PROVE  ReleaseDeferred(p, st, t, valid) = p
BY DEF ReleaseDeferred

\* The answer of a worker that ran a setscene task: its stamp is for its current hash.
LEMMA SceneExitKept ==
    ASSUME NoHardDeps, NoDuplicates, Kept, IInv, Queues, Queues', Ledger,
           NEW t \in Tasks, NEW ok \in BOOLEAN, ExitMessage(t, ok), SceneExit(t, ok)
    PROVE  Kept'
<1> DEFINE r == IF ok THEN SqTaskComplete(q, {t}) ELSE SqTaskFail(q, stamps, {t})
<1>1. /\ UNCHANGED <<uni, updated, tasksrun, complete, running>>
      /\ q' = [r EXCEPT !.live = @ \ {t}] /\ t \in q.live /\ t \in InFlight
      /\ buildStamps' = Drop(buildStamps, t)
      /\ files' = IF ok THEN MakeSceneStamps(files, {t}, [u \in {t} |-> buildStamps[t][2]])
                  ELSE files
  BY DEF ExitMessage, SceneExit, hashVars, taskVars
<1>2. t \in Setscene /\ t \in q.running
  BY <1>1 DEF Queues, Turns
<1>3. IF ok THEN Moved(r, q, {t}, {}) ELSE Moved(r, q, {}, {t})
  BY <1>2, CompleteMoved, FailMoved DEF Queues, Turns
<1> HIDE DEF r
<1>4. /\ q'.covered = r.covered /\ q'.notcovered = r.notcovered
      /\ q'.deferred = r.deferred /\ q'.live = q.live \ {t}
  BY <1>1, <1>3 DEF Moved, Fields
<1>5. /\ q.covered \subseteq q'.covered /\ q.notcovered \subseteq q'.notcovered
      /\ DOMAIN q'.deferred \subseteq DOMAIN q.deferred
      /\ q'.covered \ q.covered \subseteq (IF ok THEN {t} ELSE {})
  BY <1>3, <1>4 DEF Moved
<1>6. t \notin complete \cup q.covered \cup q.notcovered
  <2>1. t \notin Settled(q)
    BY <1>1 DEF Queues, LiveOpen, Settled
  <2>2. t \notin running
    BY <1>2, <2>1 DEF Ledger, Clear
  <2> QED
    BY <2>1, <2>2 DEF Queues, Started, Settled
<1>7. InFlight' = InFlight \ {t} /\ \A u \in InFlight' : buildStamps'[u] = buildStamps[u]
  BY <1>1 DEF Drop, InFlight
<1>8. Sent'
  BY <1>1, <1>7 DEF Kept, Sent
<1>9. /\ Shelf(files') /\ files'.task = files.task
      /\ ok => files'.scene[StampBase[t]] = <<uni[t], New>>
      /\ \A x \in Tasks \ {t} : files'.scene[StampBase[x]] = files.scene[StampBase[x]]
  <2>1. CASE ok
    <3>1. files' = MakeSceneStamps(files, {t}, [u \in {t} |-> buildStamps[t][2]])
      BY <1>1, <2>1
    <3>2. buildStamps[t][2] = uni[t]
      BY <1>1 DEF Kept, Sent
    <3> DEFINE h == [u \in {t} |-> buildStamps[t][2]]
    <3>3. {t} \in SUBSET Tasks /\ t \in {t} /\ h[t] = uni[t]
      BY <3>2
    <3> HIDE DEF h
    <3>4. /\ Shelf(files') /\ files'.task = files.task
          /\ \A x \in {t} : files'.scene[StampBase[x]] = <<h[x], New>>
          /\ \A x \in Tasks \ {t} : files'.scene[StampBase[x]] = files.scene[StampBase[x]]
      <4>1. Shelf(files) /\ files' = MakeSceneStamps(files, {t}, h)
        BY <3>1 DEF Kept, h
      <4>2. {t} \in SUBSET Tasks
        BY <3>3
      <4>3. Restamped(MakeSceneStamps(files, {t}, h), files, {t}, h)
        BY <4>1, <4>2, SceneStampsShelf
      <4> QED
        BY <4>1, <4>3 DEF Restamped
    <3> QED
      BY <3>3, <3>4
  <2>2. CASE ~ok
    BY <1>1, <2>2 DEF Kept
  <2> QED
    BY <2>1, <2>2
<1>10. \A x \in Tasks \ {t} : Still(x)
  BY <1>1, <1>9 DEF Still, TaskAge, SceneAge, Goal
<1>11. complete \cup q.covered \subseteq Tasks \ {t}
  BY <1>6, GraphAssumption DEF GraphAssumption, IInv, TaskTypeOK, Queues, Turns, Settled
<1>12. ASSUME NEW s \in q'.covered \ q.covered PROVE (HasStamp(s) \/ Passed(s))'
  <2>1. ok /\ s = t
    BY <1>5, <1>12
  <2>2. Goal(t) = uni[t]
    BY <1>6, GoalSettled DEF Kept
  <2>3. Goal(t)' = uni[t]
    BY <1>1, <2>2 DEF Goal
  <2>4. SceneAge(t)' = New
    BY <1>9, <2>1, <2>3 DEF SceneAge, AgeFor
  <2> QED
    BY <2>1, <2>4 DEF HasStamp, New, Absent
<1> QED
  BY <1>1, <1>4, <1>5, <1>7, <1>8, <1>9, <1>10, <1>11, <1>12, MovedKept

\* The answer of a worker that ran a task: what it stamps is well built.
LEMMA TaskExitKept ==
    ASSUME NoHardDeps, NoDuplicates, ~Enforce, Kept, IInv, Queues, Queues', Ledger,
           NEW t \in Tasks, NEW ok \in BOOLEAN, ExitMessage(t, ok), TaskExit(t, ok)
    PROVE  Kept'
<1>1. /\ UNCHANGED <<uni, updated, running>> /\ t \in InFlight \ q.live
      /\ buildStamps' = Drop(buildStamps, t)
  BY DEF ExitMessage, TaskExit, hashVars, TaskComplete, TaskCompleteOutright
<1>2. InFlight' = InFlight \ {t} /\ \A u \in InFlight' : buildStamps'[u] = buildStamps[u]
  BY <1>1 DEF Drop, InFlight
<1>3. Sent'
  BY <1>1, <1>2 DEF Kept, Sent
<1>4. t \notin complete /\ t \in running
  BY <1>1 DEF Ledger, Accounts, Queues, Started
<1>5. IF t \in Setscene THEN t \in q.notcovered ELSE Wanted(t)
  BY <1>1 DEF Kept, Chosen
<1>6. t \notin q.covered
  BY <1>5 DEF Queues, Turns, Settled, FailedForGood
<1>7. CASE ~ok
  <2>1. UNCHANGED <<q, complete, tasksrun, files>>
    BY <1>7 DEF TaskExit
  <2>2. Shelf(files') /\ \A x : Still(x)
    BY <1>1, <2>1, SameStill DEF Kept
  <2> QED
    BY <1>1, <1>2, <1>3, <2>1, <2>2, MovedKept
<1>8. CASE ok
  <2>1. /\ files' = IF t \in NoStamp THEN files ELSE MakeStamp(files, t, HashOf(t))
        /\ complete' = complete \cup {t} /\ tasksrun' = tasksrun \cup {t}
        /\ \E valid : q' = ReleaseDeferred(q, Stamps(files', uni), t, valid)
    BY <1>8 DEF TaskExit, TaskComplete, TaskCompleteOutright
  <2>2. q' = q
    BY <2>1, NoneReleased DEF Kept
  <2>3. HashOf(t) = Goal(t)
    BY <1>1, HashGoal DEF Kept
  <2>14. Reshelved(MakeStamp(files, t, Goal(t)), files, t, Goal(t))
    BY MakeStampShelf DEF Kept
  <2>4. /\ Shelf(files')
        /\ t \notin NoStamp => files'.task[StampBase[t]] = <<Goal(t), New>>
        /\ \A x \in Tasks \ {t} : /\ files'.task[StampBase[x]] = files.task[StampBase[x]]
                                  /\ files'.scene[StampBase[x]] = files.scene[StampBase[x]]
    BY <2>1, <2>3, <2>14 DEF Kept, Reshelved
  <2>5. \A x \in Tasks \ {t} : Still(x)
    BY <1>1, <2>4 DEF Still, TaskAge, SceneAge, Goal
  <2>6. complete \cup q.covered \subseteq Tasks \ {t}
    BY <1>4, <1>6, GraphAssumption DEF GraphAssumption, IInv, TaskTypeOK, Queues, Turns, Settled
  <2>7. \A x \in complete \cup q.covered : Still(x)
    BY <2>5, <2>6
  <2>8. t \notin NoStamp => TaskAge(t)' = New
    BY <1>1, <2>4 DEF TaskAge, Goal, AgeFor
  <2>9. Depends[t] \subseteq complete
    BY <1>4 DEF IInv, DepsFirst
  <2>10. WellBuilt(t)'
    BY <1>5, <2>4, <2>7, <2>8, <2>9, FreshBuilt
  <2>11. Chosen'
    <3>1. t \in Setscene => t \in q.notcovered
      BY <1>5
    <3> QED
      BY <1>2, <2>1, <2>2, <3>1 DEF Kept, Chosen, Wanted
  <2>12. Reports'
    BY <1>1, <2>2 DEF Kept, Reports
  <2>13. DOMAIN q'.deferred = {} /\ q'.covered = q.covered
    BY <2>2 DEF Kept
  <2> QED
    BY <1>3, <2>1, <2>4, <2>7, <2>10, <2>11, <2>12, <2>13, KeepKept
<1> QED
  BY <1>7, <1>8

\* A task that reports a new hash runs, and has built nothing yet.
LEMMA ReportKept ==
    ASSUME NoHardDeps, Kept, IInv, Queues, Queues', Ledger, ~Enforce,
           NEW t \in Tasks, NEW h \in Hashes, UniHashMessage(t, h)
    PROVE  Kept'
<1>1. /\ UNCHANGED <<q, complete, tasksrun, running, files, uni, buildStamps>>
      /\ t \in (InFlight \cap Setscene) \ q.live
      /\ \A u \in updated : u[1] # t
      /\ updated' = updated \cup {<<t, h>>}
  BY DEF UniHashMessage, taskVars
<1>2. t \in running /\ t \notin complete /\ t \in q.notcovered
  BY <1>1 DEF Kept, Chosen, Ledger, Accounts, Queues, Started
<1>3. DependOn({t}) \cap running = {}
  BY <1>2, AboveIdle DEF Queues, Started, IInv, TaskTypeOK, DepsFirst
<1>4. Reports'
  <2>1. \A u \in updated' : u \in updated \/ u = <<t, h>>
    BY <1>1
  <2>2. <<t, h>>[1] = t
    OBVIOUS
  <2>3. \A u \in updated : /\ u[1] \in running \cap q.notcovered
                           /\ DependOn({u[1]}) \cap running = {}
                           /\ \A v \in updated : v[1] = u[1] => v = u
    BY DEF Kept, Reports
  <2> SUFFICES ASSUME NEW u \in updated'
               PROVE  /\ u[1] \in running \cap q.notcovered
                      /\ DependOn({u[1]}) \cap running = {}
                      /\ \A v \in updated' : v[1] = u[1] => v = u
    BY <1>1 DEF Reports
  <2>4. CASE u \in updated
    BY <1>1, <2>1, <2>2, <2>3, <2>4
  <2>5. CASE u = <<t, h>>
    BY <1>1, <1>2, <1>3, <2>1, <2>2, <2>5
  <2> QED
    BY <2>1, <2>4, <2>5
<1>5. ASSUME NEW x, x # t PROVE Still(x)
  <2>1. GoalOf(updated', uni, x) = GoalOf(updated, uni, x)
    <3>1. CASE \A u \in updated : u[1] # x
      <4>1. \A u \in updated' : u[1] # x
        BY <1>1, <1>5, <3>1
      <4> QED
        BY <3>1, <4>1, GoalIs
    <3>2. ASSUME NEW u \in updated, u[1] = x PROVE GoalOf(updated', uni, x) = GoalOf(updated, uni, x)
      <4>1. \A v \in updated : v[1] = x => v = u
        BY <3>2 DEF Kept, Reports
      <4>2. u \in updated' /\ \A v \in updated' : v[1] = x => v = u
        BY <1>1, <1>5, <3>2, <4>1
      <4> QED
        BY <3>2, <4>1, <4>2, GoalIs
    <3> QED
      BY <3>1, <3>2
  <2> QED
    BY <1>1, <2>1 DEF Still, TaskAge, SceneAge, Goal
<1>6. t \notin q.covered
  BY <1>2 DEF Queues, FailedForGood
<1>7. Chosen' /\ Sent'
  BY <1>1 DEF Kept, Chosen, Sent, InFlight, Wanted
<1>8. Shelf(files') /\ DOMAIN q'.deferred = {} /\ q'.covered = q.covered
  BY <1>1 DEF Kept
<1> QED
  BY <1>1, <1>2, <1>4, <1>5, <1>6, <1>7, <1>8, KeepKept

\* Which hashes change: nothing is deferred, so that a report changes its task's own
\* and those of what depends on it, except what is restored already or runs as a
\* setscene task.
LEMMA HashChanges ==
    ASSUME Kept, Ledger, NEW hash \in NewHashes(Rehashed), NEW x \in Tasks,
           x \notin DependOn(DOMAIN Rehashed) \ (q.covered \cup q.live)
    PROVE  /\ (\A u \in Reported : u[1] = x => u[2] = uni[x]) => hash[x] = uni[x]
           /\ \A u \in Reported : u[1] = x /\ u[2] # uni[x] => hash[x] = u[2]
<1> DEFINE now == {u \in Reported : u[2] # uni[u[1]]}
           source(t) == {u \in now : u[1] = t}
<1>1. Rehashed = [t \in {t \in Tasks : source(t) # {}} |-> (CHOOSE u \in source(t) : TRUE)[2]]
  BY DEF Rehashed, Kept
<1>2. PICK n \in [DependOn(DOMAIN Rehashed) \ (q.covered \cup q.live) -> Hashes] :
          hash = Merge(Merge(uni, Rehashed), n)
  BY DEF NewHashes
<1>3. x \notin DOMAIN n
  BY <1>2
<1> DEFINE old == Merge(uni, Rehashed)
<1>4. x \in DOMAIN old /\ old[x] = IF x \in DOMAIN Rehashed THEN Rehashed[x] ELSE uni[x]
  BY DEF Merge, Ledger, Parked
<1> HIDE DEF old
<1>5. hash[x] = old[x]
  <2>1. hash = Merge(old, n)
    BY <1>2 DEF old
  <2> QED
    BY <1>3, <1>4, <2>1 DEF Merge
<1>6. ASSUME \A u \in Reported : u[1] = x => u[2] = uni[x] PROVE hash[x] = uni[x]
  <2>1. source(x) = {}
    BY <1>6
  <2>2. x \notin DOMAIN Rehashed
    BY <1>1, <2>1
  <2> QED
    BY <1>4, <1>5, <2>2
<1>7. ASSUME NEW u \in Reported, u[1] = x, u[2] # uni[x] PROVE hash[x] = u[2]
  <2>1. \A v \in updated : v[1] = x => v = u
    BY <1>7 DEF Kept, Reports, Reported
  <2>2. Reported \subseteq updated
    BY DEF Reported
  <2>3. source(x) = {u}
    BY <1>7, <2>1, <2>2
  <2>4. x \in DOMAIN Rehashed /\ Rehashed[x] = (CHOOSE v \in source(x) : TRUE)[2]
    BY <1>1, <2>3
  <2>5. (CHOOSE v \in source(x) : TRUE) = u
    BY <2>3
  <2> QED
    BY <1>4, <1>5, <2>4, <2>5
<1> QED
  BY <1>6, <1>7

\* No hash changes that a stamp has, or that a worker will put into one: the reported
\* ones are taken over, and what they reach has not been started.
LEMMA MigrateGoal ==
    ASSUME NoHardDeps, Kept, Ledger, Queues, IInv,
           NEW hash \in NewHashes(Rehashed), uni' = hash, updated' = updated \ Reported,
           NEW x \in Tasks, x \in running \cup q.covered \cup q.live
    PROVE  /\ Goal(x)' = Goal(x)
           /\ x \in q.live \cup (running \ complete) => hash[x] = uni[x]
<1>1. x \notin DependOn(DOMAIN Rehashed) \ (q.covered \cup q.live)
  <2> SUFFICES ASSUME x \in running, x \in DependOn(DOMAIN Rehashed) PROVE FALSE
    OBVIOUS
  <2>1. DOMAIN Rehashed \in SUBSET Tasks
    BY DEF Rehashed
  <2>2. PICK y \in DOMAIN Rehashed : x \in DependOn({y})
    BY <2>1, DependOnOne
  <2>3. PICK u \in updated : u[1] = y
    BY DEF Rehashed, Kept, Reported
  <2> QED
    BY <2>2, <2>3 DEF Kept, Reports
<1>2. /\ (\A u \in Reported : u[1] = x => u[2] = uni[x]) => hash[x] = uni[x]
      /\ \A u \in Reported : u[1] = x /\ u[2] # uni[x] => hash[x] = u[2]
  BY <1>1, HashChanges
<1>3. Reported \subseteq updated
  BY DEF Reported
<1>4. GoalOf(updated \ Reported, hash, x) = GoalOf(updated, uni, x)
  <2>1. CASE \A u \in updated : u[1] # x
    <3>1. \A u \in updated \ Reported : u[1] # x
      BY <2>1
    <3>2. hash[x] = uni[x]
      BY <1>2, <1>3, <2>1
    <3> QED
      BY <2>1, <3>1, <3>2, GoalIs
  <2>2. ASSUME NEW u \in updated, u[1] = x
        PROVE  GoalOf(updated \ Reported, hash, x) = GoalOf(updated, uni, x)
    <3>1. \A v \in updated : v[1] = x => v = u
      BY <2>2 DEF Kept, Reports
    <3>2. GoalOf(updated, uni, x) = u[2]
      BY <2>2, <3>1, GoalIs
    <3>3. CASE u \in Reported
      <4>1. \A v \in updated \ Reported : v[1] # x
        BY <3>1, <3>3
      <4>2. hash[x] = u[2]
        BY <1>2, <1>3, <2>2, <3>1, <3>3
      <4>3. GoalOf(updated \ Reported, hash, x) = hash[x]
        BY <4>1, GoalIs
      <4> QED
        BY <3>2, <4>2, <4>3
    <3>4. CASE u \notin Reported
      <4>1. u \in updated \ Reported /\ \A v \in updated \ Reported : v[1] = x => v = u
        BY <3>1, <3>4
      <4>2. GoalOf(updated \ Reported, hash, x) = u[2]
        BY <2>2, <4>1, GoalIs
      <4> QED
        BY <3>2, <4>2
    <3> QED
      BY <3>3, <3>4
  <2> QED
    BY <2>1, <2>2
<1>5. ASSUME x \in q.live \cup (running \ complete) PROVE hash[x] = uni[x]
  <2>1. \A u \in Reported : u[1] # x
    <3> SUFFICES ASSUME NEW u \in Reported, u[1] = x PROVE FALSE
      OBVIOUS
    <3>1. x \in running \cap q.notcovered /\ x \notin RunningNow(Tasks)
      BY <1>3 DEF Kept, Reports, Reported
    <3>2. x \notin q.live
      BY <3>1 DEF Queues, LiveOpen
    <3> QED
      BY <1>5, <3>1, <3>2 DEF RunningNow
  <2> QED
    BY <1>2, <2>1
<1> QED
  BY <1>4, <1>5 DEF Goal

\* What goes back into the queue for a new hash was not run, and is not restored; if it
\* settles at once it has a stamp for its new hash.
LEMMA MigrateKept ==
    ASSUME NoHardDeps, NoDuplicates, ~Enforce, Kept, IInv, Queues, Ledger, Queues', Migrate,
           q.covered \subseteq q'.covered
    PROVE  Kept'
<1>1. PICK hash, N : N \in SUBSET Setscene /\ MigratedTo(hash, N)
  BY Migration
<1>2. /\ UNCHANGED <<running, complete, tasksrun, buildStamps>>
      /\ updated' = updated \ Reported
  BY DEF Migrate
<1>3. /\ hash \in NewHashes(Rehashed) /\ uni' = hash
      /\ N \cap (running \cup q.live \cup q.covered) = {}
      /\ \A t \in N : RunningNow(SqCovered[t]) = {}
      /\ files' = MakeSceneStamps(files, N \cap NoExec, hash)
  BY <1>1 DEF MigratedTo
<1>4. N \cap NoExec \in SUBSET Tasks
  BY <1>1, GraphAssumption DEF GraphAssumption
<1>5. Restamped(files', files, N \cap NoExec, hash)
  BY <1>3, <1>4, SceneStampsShelf DEF Kept
<1> DEFINE C == {t \in N : SceneStamped(Stamps(files', hash), t)}
<1>6. /\ q'.live = q.live /\ DOMAIN q'.deferred = {}
      /\ q.notcovered \ N \subseteq q'.notcovered
      /\ q'.covered \ q.covered \subseteq C
  <2>1. CASE q' = q /\ N = {}
    BY <2>1 DEF Kept
  <2>2. ASSUME NEW valid \in SUBSET N,
               q' = [(IF N = {} THEN q ELSE Requeue(N, hash, valid))
                        EXCEPT !.needed = {}, !.hdeferred = {}, !.update = TRUE]
        PROVE  /\ q'.live = q.live /\ DOMAIN q'.deferred = {}
               /\ q.notcovered \ N \subseteq q'.notcovered
               /\ q'.covered \ q.covered \subseteq C
    <3> DEFINE r == IF N = {} THEN q ELSE Requeue(N, hash, valid)
    <3>1. /\ Fields \subseteq DOMAIN r /\ r.live = q.live
          /\ q.notcovered \ N \subseteq r.notcovered
          /\ r.covered \subseteq q.covered \cup C
          /\ DOMAIN r.deferred = {}
      <4>1. CASE N = {}
        BY <4>1 DEF Queues, Turns, Kept
      <4>2. CASE N # {}
        <5>1. /\ Reopened(Requeue(N, hash, valid), N, C)
              /\ DOMAIN Requeue(N, hash, valid).deferred
                    \subseteq DOMAIN q.deferred \cup DOMAIN DeferredAfter(N, hash)
          BY <1>1, RequeueMoved DEF Queues, Turns
        <5>2. DOMAIN DeferredAfter(N, hash) = {}
          BY <1>1, NoneDeferred
        <5> HIDE DEF C
        <5> QED
          BY <4>2, <5>1, <5>2 DEF Reopened, Kept
      <4> QED
        BY <4>1, <4>2
    <3>2. q' = [r EXCEPT !.needed = {}, !.hdeferred = {}, !.update = TRUE]
      BY <2>2
    <3> HIDE DEF r, C
    <3>3. /\ q'.live = r.live /\ q'.notcovered = r.notcovered
          /\ q'.covered = r.covered /\ q'.deferred = r.deferred
      BY <3>1, <3>2 DEF Fields
    <3> QED
      BY <3>1, <3>3
  <2> QED
    BY <1>1, <2>1, <2>2 DEF MigratedTo
<1>7. ASSUME NEW x \in Tasks, x \in running \cup q.covered \cup q.live
      PROVE  /\ Goal(x)' = Goal(x)
             /\ x \in q.live \cup (running \ complete) => hash[x] = uni[x]
  BY <1>2, <1>3, <1>7, MigrateGoal
<1>8. ASSUME NEW x \in complete \cup q.covered PROVE Still(x)
  <2>1. x \in Tasks /\ x \in running \cup q.covered
    BY <1>8, GraphAssumption
    DEF GraphAssumption, IInv, TaskTypeOK, Queues, Turns, Started, Settled
  <2>2. x \notin N
    BY <1>3, <2>1
  <2>3. /\ files'.task[StampBase[x]] = files.task[StampBase[x]]
        /\ files'.scene[StampBase[x]] = files.scene[StampBase[x]]
    BY <1>5, <2>1, <2>2 DEF Restamped
  <2> QED
    BY <1>7, <2>1, <2>3 DEF Still, TaskAge, SceneAge
<1>9. Chosen'
  <2>1. tasksrun \subseteq running /\ InFlight \subseteq running \cup q.live
    BY DEF Kept, Chosen, Queues, Started
  <2>2. ASSUME NEW t \in InFlight \ (q.live \cup Setscene) PROVE Wanted(t)'
    <3>1. Wanted(t) /\ t \in running /\ t \notin complete
      BY <2>1, <2>2 DEF Kept, Chosen, Ledger, Accounts
    <3>2. ASSUME NEW s \in q.notcovered, t \in SqCovered[s] PROVE s \in q'.notcovered
      BY <1>3, <1>6, <3>1, <3>2 DEF RunningNow
    <3> QED
      BY <3>1, <3>2 DEF Wanted
  <2>3. ((tasksrun \cup (InFlight \ q.live)) \cap Setscene) \cap N = {}
    BY <1>3, <2>1
  <2> QED
    BY <1>2, <1>6, <2>2, <2>3 DEF Kept, Chosen, InFlight
<1>10. Reports'
  <2>1. \A u \in updated : u[1] \notin N
    BY <1>3 DEF Kept, Reports
  <2> QED
    BY <1>2, <1>6, <2>1 DEF Kept, Reports
<1>11. Sent'
  <2>1. \A t \in InFlight : t \in q.live \cup (running \ complete)
    BY DEF Queues, Started, Ledger, Accounts
  <2>2. InFlight \subseteq Tasks
    BY DEF IInv, TaskTypeOK
  <2>3. \A t \in InFlight : hash[t] = uni[t]
    BY <1>7, <2>1, <2>2
  <2> QED
    BY <1>2, <1>3, <2>3 DEF Kept, Sent, InFlight
<1>12. ASSUME NEW t \in C PROVE HasStamp(t)'
  <2>1. t \in N /\ t \in Tasks /\ t \in Setscene
    BY <1>1, GraphAssumption DEF GraphAssumption
  <2>2. \A u \in updated' : u[1] # t
    BY <1>2, <1>3, <2>1 DEF Kept, Reports
  <2>3. Goal(t)' = hash[t]
    BY <1>3, <2>2, GoalIs DEF Goal
  <2> DEFINE st == Stamps(files', hash)
  <2>4. st.task[t] = TaskAge(t)' /\ st.scene[t] = SceneAge(t)'
    BY <2>1, <2>3 DEF Stamps, TaskAge, SceneAge
  <2> HIDE DEF st
  <2>5. SceneStamped(st, t)
    BY DEF st
  <2>6. t \in NoExec => st.scene[t] # Absent
    <3>1. t \in NoExec => files'.scene[StampBase[t]] = <<hash[t], New>>
      BY <1>5, <2>1 DEF Restamped
    <3> QED
      BY <2>3, <2>4, <3>1 DEF SceneAge, AgeFor, New, Absent
  <2>7. st.task[t] # Absent \/ st.scene[t] # Absent
    BY <2>1, <2>5, <2>6, StampNeeded DEF SceneStamped
  <2> QED
    BY <2>4, <2>7 DEF HasStamp
<1> HIDE DEF C
<1>13. \A s \in q'.covered \ q.covered : (HasStamp(s) \/ Passed(s))'
  BY <1>6, <1>12
<1>14. Shelf(files')
  BY <1>5 DEF Restamped
<1>15. tasksrun' \ tasksrun = {}
  BY <1>2
<1> QED
  BY <1>6, <1>8, <1>9, <1>10, <1>11, <1>13, <1>14, <1>15, KeepKept

\* A task the scheduler chooses is new, its dependencies are complete and report no
\* hash, and it is built since something needs it, unless it is covered.
LEMMA ReadyTask ==
    ASSUME NoHardDeps, Kept, Queues, Ledger, IInv, pc = "tasks",
           NEW t \in Tasks, t \in TaskChoice
    PROVE  /\ t \notin running \cup complete /\ Depends[t] \subseteq complete
           /\ t \notin covered =>
                 IF t \in Setscene THEN t \in q.notcovered ELSE Wanted(t)
           /\ \A x \in complete \cup {t} : Goal(x) = uni[x]
           /\ \A u \in updated : DependOn({u[1]}) \cap (running \cup {t}) = {}
<1>1. t \notin running /\ t \in buildable /\ t \in covered \cup notcovered
  BY DEF TaskChoice, Buildable
<1>2. t \notin complete /\ Depends[t] \subseteq complete
  BY <1>1 DEF Queues, Started, IInv, BuildableReady
<1>3. t \notin covered => IF t \in Setscene THEN t \in q.notcovered ELSE Wanted(t)
  BY <1>1 DEF Queues, HeldOff, Marked
<1>4. \A u \in updated : u[1] \in running \ complete
  BY DEF Ledger, Waiting, RunningNow
<1>5. ASSUME NEW x \in complete \cup {t} PROVE Goal(x) = uni[x]
  <2>1. \A u \in updated : u[1] # x
    BY <1>1, <1>4
  <2> QED
    BY <2>1, GoalIs DEF Goal
<1>6. ASSUME NEW u \in updated PROVE DependOn({u[1]}) \cap (running \cup {t}) = {}
  <2> DEFINE R == running \cup {t}
  <2>1. R \in SUBSET Tasks /\ complete \in SUBSET R /\ \A x \in R : Depends[x] \subseteq complete
    BY <1>2 DEF Queues, Started, IInv, TaskTypeOK, DepsFirst
  <2>2. u[1] \in Tasks /\ u[1] \notin complete
    BY <1>4 DEF IInv, TaskTypeOK
  <2> HIDE DEF R
  <2>3. DependOn({u[1]}) \cap R = {}
    BY <2>1, <2>2, AboveIdle
  <2> QED
    BY <2>3 DEF R
<1> QED
  BY <1>1, <1>2, <1>3, <1>5, <1>6

\* A task whose stamp is current is well built, once its dependencies are complete.
LEMMA CurrentBuilt ==
    ASSUME NEW t \in Tasks, ~Stale(t), Depends[t] \subseteq complete,
           \A x \in complete \cup {t} : Goal(x) = uni[x]
    PROVE  WellBuilt(t)
<1>1. /\ stamps.task[t] # Absent
      /\ \A d \in Depends[t] : Recipe[d] = Recipe[t] /\ ~Restored(stamps, d) =>
            stamps.task[d] # Absent /\ stamps.task[d] <= stamps.task[t]
  BY CurrentWhen DEF Stale
<1>2. ASSUME NEW d \in Depends[t] \cup {t}
      PROVE  stamps.task[d] = TaskAge(d) /\ (d \in Setscene => stamps.scene[d] = SceneAge(d))
  <2>1. d \in Tasks /\ Goal(d) = uni[d]
    BY <1>2, GraphAssumption DEF GraphAssumption
  <2> QED
    BY <2>1 DEF stamps, Stamps, TaskAge, SceneAge
<1>3. ASSUME NEW d \in Depends[t], Recipe[d] = Recipe[t] PROVE Agrees(t, d)
  <2>1. CASE Restored(stamps, d)
    BY <1>2, <2>1 DEF Restored, Agrees
  <2>2. CASE ~Restored(stamps, d)
    BY <1>1, <1>2, <1>3, <2>2 DEF Agrees
  <2> QED
    BY <2>1, <2>2
<1> QED
  BY <1>1, <1>2, <1>3 DEF WellBuilt

\* A task that starts, or is skipped or done at once, was chosen; what it stamps, or
\* has a stamp of, is well built.
LEMMA TaskKept ==
    ASSUME NoHardDeps, NoDuplicates, ~Enforce, Kept, IInv, Queues, Ledger, TaskStep
    PROVE  Kept'
<1>1. pc = "tasks" /\ UNCHANGED <<uni, updated>>
  BY DEF TaskStep, TaskUnexpected, TaskSkip, TaskNoExec, TaskStart, Wait, ForceDeferred,
         Stop, TaskNone, TaskUnchanged, hashVars
<1>2. ASSUME NEW t \in Tasks, t \in TaskChoice, q' = q, running' = running \cup {t}
      PROVE  Reports'
  <2>1. \A u \in updated : DependOn({u[1]}) \cap (running \cup {t}) = {}
    BY <1>1, <1>2, ReadyTask
  <2> QED
    BY <1>1, <1>2, <2>1 DEF Kept, Reports
<1>3. ASSUME NEW t \in Tasks, TaskStart(t) PROVE Kept'
  <2>1. /\ t \in TaskChoice /\ t \notin covered /\ running' = running \cup {t}
        /\ UNCHANGED <<q, complete, tasksrun, files>>
        /\ buildStamps' = Merge(buildStamps, [u \in {t} |-> Stamp(t, FALSE)])
    BY <1>3 DEF TaskStart
  <2>2. InFlight' = InFlight \cup {t}
    BY <2>1 DEF Merge, InFlight
  <2>3. \A u \in InFlight' : buildStamps'[u] = IF u = t THEN Stamp(t, FALSE) ELSE buildStamps[u]
    BY <2>1 DEF Merge, InFlight
  <2>4. Sent'
    BY <1>1, <2>2, <2>3 DEF Kept, Sent, Stamp
  <2>5. IF t \in Setscene THEN t \in q.notcovered ELSE Wanted(t)
    BY <1>1, <2>1, ReadyTask
  <2>6. Chosen'
    BY <2>1, <2>2, <2>5 DEF Kept, Chosen, Wanted
  <2>7. Shelf(files') /\ \A x : Still(x)
    BY <1>1, <2>1, SameStill DEF Kept
  <2>8. DOMAIN q'.deferred = {} /\ q'.covered = q.covered
    BY <2>1 DEF Kept
  <2> QED
    BY <1>2, <2>1, <2>4, <2>6, <2>7, <2>8, KeepKept
<1>4. ASSUME NEW t \in Tasks, TaskSkip(t) \/ TaskNoExec(t) PROVE Kept'
  <2>1. /\ t \in TaskChoice /\ running' = running \cup {t} /\ complete' = complete \cup {t}
        /\ buildStamps' = buildStamps
        /\ \E valid : q' = ReleaseDeferred(q, Stamps(files', uni), t, valid)
        /\ \/ t \in covered /\ tasksrun' = tasksrun /\ files' = files
           \/ /\ t \notin covered /\ tasksrun' = tasksrun \cup {t}
              /\ \/ ~Stale(t) /\ files' = files
                 \/ files' = MakeStamp(files, t, uni[t])
    BY <1>4 DEF TaskSkip, TaskNoExec, TaskComplete, TaskCompleteOutright
  <2>2. q' = q
    BY <2>1, NoneReleased DEF Kept
  <2>3. /\ t \notin running \cup complete /\ Depends[t] \subseteq complete
        /\ t \notin covered => IF t \in Setscene THEN t \in q.notcovered ELSE Wanted(t)
        /\ \A x \in complete \cup {t} : Goal(x) = uni[x]
    BY <1>1, <2>1, ReadyTask
  <2>4. Reports'
    BY <1>2, <2>1, <2>2
  <2>5. Chosen' /\ Sent'
    BY <1>1, <2>1, <2>2, <2>3 DEF Kept, Chosen, Sent, InFlight, Wanted
  <2>6. DOMAIN q'.deferred = {} /\ q'.covered = q.covered
    BY <2>2 DEF Kept
  <2>7. CASE files' = files /\ (t \in covered => tasksrun' = tasksrun)
                            /\ (t \notin covered => ~Stale(t))
    <3>1. Shelf(files') /\ \A x : Still(x)
      BY <1>1, <2>7, SameStill DEF Kept
    <3>2. t \notin covered => WellBuilt(t)
      BY <2>3, <2>7, CurrentBuilt
    <3>3. t \notin covered => WellBuilt(t)'
      BY <3>1, <3>2, StillBuilt
    <3>4. \A x \in tasksrun' \ tasksrun : WellBuilt(x)'
      BY <2>1, <3>3
    <3> QED
      BY <2>4, <2>5, <2>6, <3>1, <3>4, KeepKept
  <2>8. CASE t \notin covered /\ files' = MakeStamp(files, t, uni[t])
    <3>1. /\ Shelf(files')
          /\ files'.task[StampBase[t]] = <<uni[t], New>>
          /\ \A x \in Tasks \ {t} : /\ files'.task[StampBase[x]] = files.task[StampBase[x]]
                                    /\ files'.scene[StampBase[x]] = files.scene[StampBase[x]]
      <4>1. Reshelved(MakeStamp(files, t, uni[t]), files, t, uni[t])
        BY MakeStampShelf DEF Kept
      <4> QED
        BY <2>8, <4>1 DEF Reshelved
    <3>2. \A x \in Tasks \ {t} : Still(x)
      BY <1>1, <3>1 DEF Still, TaskAge, SceneAge, Goal
    <3>3. t \notin q.covered
      BY <2>3, <2>8 DEF Queues, Turns, Settled, FailedForGood
    <3>4. complete \cup q.covered \subseteq Tasks \ {t}
      BY <2>3, <3>3, GraphAssumption
      DEF GraphAssumption, IInv, TaskTypeOK, Queues, Turns, Settled
    <3>5. TaskAge(t)' = New
      <4>1. Goal(t)' = uni[t]
        BY <1>1, <2>3 DEF Goal
      <4> QED
        BY <3>1, <4>1 DEF TaskAge, AgeFor
    <3>6. \A x \in complete \cup q.covered : Still(x)
      BY <3>2, <3>4
    <3>7. WellBuilt(t)'
      BY <2>3, <2>8, <3>1, <3>5, <3>6, FreshBuilt
    <3> QED
      BY <2>1, <2>4, <2>5, <2>6, <3>1, <3>6, <3>7, KeepKept
  <2> QED
    BY <2>1, <2>7, <2>8
<1>5. ASSUME Wait \/ Stop PROVE Kept'
  <2>1. UNCHANGED <<q, files, tasksrun, complete, running, buildStamps>>
    BY <1>5 DEF Wait, Stop, taskVars
  <2> QED
    BY <1>1, <2>1, IdleKept
<1>6. ~ForceDeferred
  BY DEF ForceDeferred, Kept
<1>7. \A t \in Tasks : ~TaskUnexpected(t)
  BY DEF TaskUnexpected, Unexpected
<1> QED
  BY <1>3, <1>4, <1>5, <1>6, <1>7 DEF TaskStep

\* At first nothing was run, and what is settled as restored has a stamp.
LEMMA InitKept ==
    ASSUME NoDuplicates, Init
    PROVE  Kept
<1>1. PICK f \in Stamped : files = MakeSceneStamps(Invalidate(f), NoExec \cap Setscene, InitUni)
  BY DEF Init
<1> DEFINE T == IF Forced THEN Targets \cup DependOn(Targets) ELSE {}
           tainted == {StampBase[x] : x \in T}
           keep(old) == [b \in DOMAIN old |-> IF b \in tainted THEN NoFile ELSE old[b]]
           g == Invalidate(f)
<1>2. g = [task |-> keep(f.task), scene |-> keep(f.scene)]
  BY DEF Invalidate
<1> HIDE DEF tainted
<1>3. \A t \in Tasks : StampBase[t] \in DOMAIN f.task \cap DOMAIN f.scene
  BY RunQueueAssumption DEF RunQueueAssumption
<1>4. \A t \in Tasks : f.task[StampBase[t]][2] \in 0..2 /\ f.scene[StampBase[t]][2] \in 0..2
  <2>1. \A t \in Tasks : {f.task[StampBase[t]][2], f.scene[StampBase[t]][2]} \subseteq {Absent, Old}
    BY StampAssumption DEF StampAssumption
  <2> QED
    BY <2>1 DEF Absent, Old
<1>5. NoFile[2] \in 0..2
  BY DEF NoFile, Absent
<1>6. Shelf(g)
  BY <1>2, <1>3, <1>4, <1>5 DEF Shelf
<1> HIDE DEF g
<1>7. NoExec \cap Setscene \in SUBSET Tasks
  BY GraphAssumption DEF GraphAssumption
<1>8. Restamped(files, g, NoExec \cap Setscene, InitUni)
  BY <1>1, <1>6, <1>7, SceneStampsShelf DEF g
<1>9. /\ uni = InitUni /\ updated = {} /\ running = {} /\ complete = {} /\ tasksrun = {}
      /\ InFlight = {}
  BY DEF Init, InFlight
<1>10. PICK valid \in SUBSET Setscene : q = InitQueue(valid)
  BY DEF Init
<1> DEFINE q0 == [covered |-> {}, notcovered |-> {}, running |-> {}, live |-> {},
               buildable |-> {s \in Setscene : SqRevdeps[s] = {}},
               done |-> Unskippable \ Setscene,
               needed |-> {}, hdeferred |-> {}, notneeded |-> {}, outright |-> {},
               deferred |-> DeferredAfter(Setscene, InitUni),
               update |-> TRUE,
               stamp |-> [s \in Setscene |-> InitUni[s]]]
           C == {s \in Setscene : SceneStamped(stamps, s)}
<1>11. InitQueue(valid) = UpdateSceneData(q0, stamps, Setscene, valid)
  BY DEF InitQueue
<1>12. Fields \subseteq DOMAIN q0 /\ q0.covered = {} /\ q0.deferred = DeferredAfter(Setscene, InitUni)
  BY DEF Fields
<1> HIDE DEF q0
<1>13. Moved(q, q0, C, {})
  BY <1>10, <1>11, <1>12, SceneDataMoved
<1>14. DOMAIN q.deferred = {}
  BY <1>12, <1>13, NoneDeferred DEF Moved
<1>15. ASSUME NEW t \in C PROVE HasStamp(t)
  <2>1. t \in Setscene /\ t \in Tasks /\ SceneStamped(stamps, t)
    BY GraphAssumption DEF GraphAssumption
  <2>2. Goal(t) = InitUni[t]
    BY <1>9, GoalIs DEF Goal
  <2>3. stamps.task[t] = TaskAge(t) /\ stamps.scene[t] = SceneAge(t)
    BY <1>9, <2>1, <2>2 DEF stamps, Stamps, TaskAge, SceneAge
  <2>4. t \in NoExec => files.scene[StampBase[t]] = <<InitUni[t], New>>
    BY <1>8, <2>1 DEF Restamped
  <2>5. t \in NoExec => SceneAge(t) # Absent
    BY <2>2, <2>4 DEF SceneAge, AgeFor, New, Absent
  <2>6. TaskAge(t) # Absent \/ SceneAge(t) # Absent
    BY <2>1, <2>3, <2>5, StampNeeded DEF SceneStamped
  <2> QED
    BY <2>6 DEF HasStamp
<1> HIDE DEF C
<1>16. \A s \in q.covered : HasStamp(s) \/ Passed(s)
  BY <1>12, <1>13, <1>15 DEF Moved
<1>17. Shelf(files)
  BY <1>8 DEF Restamped
<1>18. Chosen /\ Reports /\ Sent
  BY <1>9 DEF Chosen, Reports, Sent
<1>19. \A t \in tasksrun : WellBuilt(t)
  BY <1>9
<1> QED
  BY <1>14, <1>16, <1>17, <1>18, <1>19 DEF Kept

\* Every step keeps the invariant.
LEMMA NextKept ==
    ASSUME NoHardDeps, NoDuplicates, ~Enforce, Kept, IInv, Queues, Ledger, Queues', [Next]_vars
    PROVE  Kept'
<1>1. options' = options
  BY DEF Next, Server, ExitMessage, UniHashMessage, Shutdown, ForceShutdown, Done, vars
<1>2. CASE \/ Call \/ Finish \/ ReadDone \/ Shutdown \/ ForceShutdown \/ Done
           \/ UNCHANGED vars
  <2>1. UNCHANGED <<q, files, uni, updated, tasksrun, complete, running, buildStamps>>
    BY <1>2 DEF Call, Finish, ReadDone, Shutdown, ForceShutdown, Done, vars, taskVars,
                hashVars
  <2> QED
    BY <2>1, IdleKept
<1>3. CASE Holdoff
  <2>1. UNCHANGED <<files, uni, updated, tasksrun, complete, running, buildStamps>>
    BY <1>3 DEF Holdoff, hashVars
  <2>2. q' = q \/ q' = [q EXCEPT !.update = FALSE]
    BY <1>3 DEF Holdoff, UpdateHoldoff
  <2>3. /\ q'.covered = q.covered /\ q'.notcovered = q.notcovered /\ q'.live = q.live
        /\ q'.deferred = q.deferred
    BY <2>2 DEF Queues, Turns, Fields
  <2> QED
    BY <2>1, <2>3, IdleKept
<1>4. CASE Migrate
  BY <1>1, <1>4, MigrateLedger, MigrateKept
<1>5. ASSUME NEW t \in Tasks, NEW ok \in BOOLEAN, ExitMessage(t, ok) PROVE Kept'
  BY <1>5, SceneExitKept, TaskExitKept DEF ExitMessage
<1>6. ASSUME NEW t \in Tasks, NEW h \in Hashes, UniHashMessage(t, h) PROVE Kept'
  BY <1>6, ReportKept
<1>7. CASE SceneStep
  BY <1>7, SceneKept
<1>8. CASE TaskStep
  BY <1>8, TaskKept
<1> QED
  BY <1>2, <1>3, <1>4, <1>5, <1>6, <1>7, <1>8 DEF Next, Server

\* At the end of a whole build no reported hash is left to be taken over.
AllTaken ==
    pc = "done" /\ state = "complete" /\ ~(Interrupts \/ Enforce \/ SetsceneOnly) =>
        updated = {}

\* Every step keeps that.
LEMMA NextAllTaken ==
    ASSUME AllTaken, Verdicts, Ledger, Queues, IInv, [Next]_vars
    PROVE  AllTaken'
<1>1. CASE pc = "done"
  BY <1>1, AfterEnd DEF AllTaken, vars, hashVars, Enforce, Interrupts, SetsceneOnly
<1>2. CASE pc # "done"
  <2> SUFFICES ASSUME pc' = "done", state' = "complete", ~Interrupts, ~Enforce, ~SetsceneOnly
               PROVE  updated' = {}
    <3>1. pc' = "done" => options' = options
      BY <1>2, EndsBy
    <3> QED
      BY <3>1 DEF AllTaken, Enforce, Interrupts, SetsceneOnly
  <2>1. Finish \/ Holdoff \/ Stop
    BY <1>2, EndsBy DEF ForceShutdown
  <2>2. ~Finish
    BY DEF Finish, Return, Verdict, Verdicts
  <2>3. ~Holdoff
    <3>1. state' # state /\ options' = options
      BY <1>2, EndsBy DEF Verdicts
    <3> QED
      BY <3>1, HoldoffFine
  <2>4. Stop => updated' = {}
    BY DEF Stop, Return, SceneError, hashVars
  <2> QED
    BY <2>1, <2>2, <2>3, <2>4
<1> QED
  BY <1>1, <1>2

\* After a complete build what was asked for and run is current by the hashes it ends
\* with, and what was restored has a stamp, whatever was rehashed by
\* update_scenequeue_data and process_possible_migrations meanwhile.
THEOREM SpecNothingLeft ==
    ASSUME NoHardDeps, NoDuplicates, Lasting
    PROVE  Spec => []NothingLeft
<1>1. Init => (~Enforce => Kept) /\ AllTaken
  BY InitKept DEF Init, AllTaken
<1>2. /\ (~Enforce => Kept) /\ AllTaken /\ Verdicts /\ IInv /\ Queues /\ Ledger /\ Queues'
      /\ [Next]_vars
      => ((~Enforce => Kept) /\ AllTaken)'
  <2>1. ASSUME [Next]_vars PROVE options' = options
    BY <2>1 DEF Next, Server, ExitMessage, UniHashMessage, Shutdown, ForceShutdown, Done,
                vars
  <2> QED
    BY <2>1, NextKept, NextAllTaken DEF Enforce
<1>3. (~Enforce => Kept) /\ AllTaken /\ Verdicts /\ IInv /\ Queues => NothingLeft
  <2> SUFFICES ASSUME Kept, updated = {}, complete = Tasks, IInv, Queues,
                      NEW t \in Unskippable
               PROVE  \/ StampCurrent(stamps, FALSE)[t]
                      \/ /\ t \in q.covered
                         /\ SceneStamped(stamps, t) \/ stamps.task[t] # Absent
    BY DEF NothingLeft, AllTaken, Verdicts
  <2>1. t \in Tasks /\ Lasts(t)
    BY CoveredClosed DEF Lasting
  <2>2. ASSUME NEW x \in Tasks
        PROVE  stamps.task[x] = TaskAge(x) /\ (x \in Setscene => stamps.scene[x] = SceneAge(x))
    <3>1. Goal(x) = uni[x]
      BY GoalIs DEF Goal
    <3> QED
      BY <3>1 DEF stamps, Stamps, TaskAge, SceneAge
  <2>3. CASE t \in tasksrun
    <3>1. WellBuilt(t)
      BY <2>3 DEF Kept
    <3>2. stamps.task[t] # Absent /\ t \notin NoStamp
      BY <2>1, <2>2, <3>1 DEF WellBuilt, Lasts
    <3>3. ASSUME NEW d \in Depends[t], Recipe[d] = Recipe[t], ~Restored(stamps, d)
          PROVE  stamps.task[d] # Absent /\ stamps.task[d] <= stamps.task[t]
      <4>1. Agrees(t, d) /\ d \in Tasks
        BY <2>1, <3>1, <3>3, GraphAssumption DEF WellBuilt, GraphAssumption
      <4> QED
        BY <2>1, <2>2, <3>3, <4>1 DEF Agrees, Restored
    <3> QED
      BY <2>1, <3>2, <3>3, CurrentWhen
  <2>4. CASE t \notin tasksrun
    <3>1. PassedFor(q, t)
      BY <2>1, <2>4 DEF Queues, PassedOver
    <3>2. t \in q.covered /\ t \in Setscene
      BY <3>1 DEF PassedFor
    <3>3. HasStamp(t)
      BY <3>2 DEF Kept, Passed
    <3> QED
      BY <2>1, <2>2, <3>2, <3>3 DEF HasStamp, SceneStamped
  <2> QED
    BY <2>3, <2>4
<1> QED
  BY <1>1, <1>2, <1>3, SpecIInv, SpecQueues, SpecLedger, InitVerdicts, NextVerdicts, PTL
  DEF Spec

-----------------------------------------------------------------------------
(* The queue builds what Build promises.                                     *)

\* Builds that nothing cuts short.
WholeBuilds ==
    \A o \in CommandLines : o \cap {"enforce", "interrupts", "setsceneonly"} = {}

\* The build is one of those.
Uncut == options \in CommandLines

\* A build starts with all that is promised still open.
LEMMA InitPromise ==
    ASSUME Init
    PROVE  Promise!Init
BY DEF Init, Promise!Init, Halt

\* A step that leaves the tasks and the verdict alone is none of the promise's.
LEMMA PromiseStutters ==
    ASSUME options' = options, running' = running, complete' = complete,
           failed' = failed, pc # "done", pc' # "done"
    PROVE  UNCHANGED Promise!buildVars
BY DEF Promise!buildVars, Halt

\* The end of a build keeps the promise: complete with all tasks, or given up with
\* one that failed and none that could still be built.
LEMMA EndPromise ==
    ASSUME NoHardDeps, WholeBuilds, Uncut, Verdicts, Workers, Ledger, Queues, IInv,
           [Next]_vars, pc # "done", pc' = "done"
    PROVE  Promise!Next
<1>1. ~Enforce /\ ~Interrupts /\ ~SetsceneOnly
  BY DEF WholeBuilds, Uncut, Enforce, Interrupts, SetsceneOnly
<1>2. /\ options' = options /\ failed' = failed /\ running' = running
      /\ complete' = complete /\ state' \in {"failed", "complete"}
  BY EndsBy
<1>3. Halt' = Halt
  BY <1>2 DEF Halt
<1>4. Finish \/ Stop
  <2>1. ~Holdoff
    BY <1>1, <1>2, HoldoffFine DEF Verdicts
  <2> QED
    BY <1>1, <2>1, EndsBy DEF ForceShutdown
<1>5. CASE Finish
  <2>1. state = "cleanup" /\ ~(active + Cardinality(q.live) > 0)
    BY <1>5 DEF Finish
  <2>2. InFlight = {}
    BY <1>1, <2>1, NoneLeft, FiniteWork DEF Workers, IInv, TaskTypeOK
  <2>3. Halt /\ failed # {}
    BY <1>1, <2>1 DEF Ledger, StopsEarly, Verdicts
  <2>4. running \subseteq complete \cup failed
    BY <1>1, <2>2 DEF Ledger, Accounts
  <2>5. state' = "failed"
    BY <1>5, <2>3 DEF Finish, Return, Verdict
  <2>6. Promise!GiveUp
    BY <1>2, <2>3, <2>4, <2>5 DEF Promise!GiveUp
  <2> QED
    BY <1>3, <2>6 DEF Promise!Next
<1>6. CASE Stop
  <2>1. Idle
    BY <1>1, <1>6, StopIdle
  <2>2. CASE failed = {}
    <3>1. /\ complete = Tasks /\ complete \cap running \cap buildable = Tasks
          /\ ~SceneError(q, buildable, covered, notcovered, holdoff)
      BY <1>1, <2>1, <2>2, IdleComplete
    <3>2. state' = "complete"
      BY <1>6, <2>2, <3>1 DEF Stop, Return
    <3>3. Promise!Complete
      BY <1>2, <3>1, <3>2 DEF Promise!Complete
    <3> QED
      BY <1>3, <3>3 DEF Promise!Next
  <2>3. CASE failed # {}
    <3>1. state' = "failed"
      BY <1>6, <2>3 DEF Stop, Return
    <3>2. running \subseteq complete \cup failed
      BY <1>1, <2>1 DEF Ledger, Accounts, Idle
    <3>3. \A t \in Tasks : ~Promise!Ready(t)
      BY <1>1, <2>1, IdleNoneReady DEF Promise!Ready
    <3>4. Promise!GiveUp
      BY <1>2, <2>3, <3>1, <3>2, <3>3 DEF Promise!GiveUp
    <3> QED
      BY <1>3, <3>4 DEF Promise!Next
  <2> QED
    BY <2>2, <2>3
<1> QED
  BY <1>4, <1>5, <1>6

\* An answer finishes or fails a task that was started and had no answer yet.
LEMMA ExitPromise ==
    ASSUME NoHardDeps, ~Enforce, Ledger, Queues, IInv, options' = options,
           NEW t \in Tasks, NEW ok \in BOOLEAN, ExitMessage(t, ok)
    PROVE  [Promise!Next]_(Promise!buildVars)
<1>1. pc' = pc /\ pc # "done" /\ t \in InFlight
  BY DEF ExitMessage
<1>2. Halt' = Halt
  BY DEF Halt
<1>3. CASE SceneExit(t, ok)
  BY <1>1, <1>3, PromiseStutters DEF SceneExit, taskVars
<1>4. CASE TaskExit(t, ok)
  <2>1. t \notin q.live /\ t \in running \ (complete \cup failed)
    BY <1>1, <1>4 DEF TaskExit, Queues, Started, Ledger, Accounts
  <2>2. CASE ok
    <3>1. /\ complete' = complete \cup {t} /\ running' = running /\ failed' = failed
      BY <1>4, <2>2 DEF TaskExit, TaskComplete, TaskCompleteOutright
    <3>2. Promise!Finish(t)
      BY <1>1, <2>1, <3>1 DEF Promise!Finish
    <3> QED
      BY <1>2, <3>2 DEF Promise!Next
  <2>3. CASE ~ok
    <3>1. /\ failed' = failed \cup {t} /\ running' = running /\ complete' = complete
      BY <1>4, <2>3 DEF TaskExit, TaskFail
    <3>2. Promise!Fail(t)
      BY <1>1, <2>1, <3>1 DEF Promise!Fail
    <3> QED
      BY <1>2, <3>2 DEF Promise!Next
  <2> QED
    BY <2>2, <2>3
<1> QED
  BY <1>3, <1>4 DEF ExitMessage

\* The task half of execute() starts or skips a task that is ready.
LEMMA TaskPromise ==
    ASSUME ~Enforce, IInv, options' = options, pc' # "done", TaskStep
    PROVE  [Promise!Next]_(Promise!buildVars)
<1>1. Halt' = Halt
  BY DEF Halt
<1>2. pc = "tasks"
  BY DEF TaskStep, TaskUnexpected, TaskSkip, TaskNoExec, TaskStart, Wait, ForceDeferred,
         Stop, TaskNone
<1>3. ASSUME NEW t \in TaskChoice, t \in Tasks PROVE Promise!Ready(t)
  BY <1>3 DEF TaskChoice, Buildable, IInv, BuildableReady, Promise!Ready
<1>4. ASSUME NEW t \in Tasks, TaskStart(t) PROVE Promise!Next
  <2>1. /\ t \in TaskChoice /\ running' = running \cup {t}
        /\ complete' = complete /\ failed' = failed
    BY <1>4 DEF TaskStart
  <2>2. Promise!Start(t)
    BY <1>2, <1>3, <2>1 DEF Promise!Start
  <2> QED
    BY <1>1, <2>2 DEF Promise!Next
<1>5. ASSUME NEW t \in Tasks, TaskSkip(t) \/ TaskNoExec(t) PROVE Promise!Next
  <2>1. /\ t \in TaskChoice /\ running' = running \cup {t}
        /\ complete' = complete \cup {t} /\ failed' = failed
    BY <1>5 DEF TaskSkip, TaskNoExec, TaskComplete, TaskCompleteOutright
  <2>2. Promise!Skip(t)
    BY <1>2, <1>3, <2>1 DEF Promise!Skip
  <2> QED
    BY <1>1, <2>2 DEF Promise!Next
<1>6. \A t \in Tasks : ~TaskUnexpected(t)
  BY DEF TaskUnexpected, Unexpected
<1>7. CASE Wait \/ ForceDeferred \/ Stop
  BY <1>2, <1>7, PromiseStutters DEF Wait, ForceDeferred, Stop, taskVars
<1> QED
  BY <1>4, <1>5, <1>6, <1>7 DEF TaskStep

\* Every step is one of the promise, or none.
LEMMA NextPromise ==
    ASSUME NoHardDeps, WholeBuilds, Uncut, Verdicts, Workers, Ledger, Queues, IInv,
           [Next]_vars
    PROVE  [Promise!Next]_(Promise!buildVars)
<1>1. options' = options
  BY DEF Next, Server, ExitMessage, UniHashMessage, Shutdown, ForceShutdown, Done, vars
<1>2. ~Enforce
  BY DEF WholeBuilds, Uncut, Enforce
<1>3. CASE pc = "done"
  BY <1>3, AfterEnd DEF vars, taskVars, Promise!buildVars, Halt
<1>4. CASE pc # "done" /\ pc' = "done"
  BY <1>4, EndPromise
<1>5. CASE pc # "done" /\ pc' # "done"
  <2>1. ASSUME NEW t \in Tasks, NEW ok \in BOOLEAN, ExitMessage(t, ok)
        PROVE  [Promise!Next]_(Promise!buildVars)
    BY <1>1, <1>2, <2>1, ExitPromise
  <2>2. CASE TaskStep
    BY <1>1, <1>2, <1>5, <2>2, TaskPromise
  <2>3. CASE Migrate
    <3>1. failed' = failed
      BY <1>1, <2>3, MigrateLedger
    <3>2. running' = running /\ complete' = complete
      BY <2>3 DEF Migrate
    <3> QED
      BY <1>1, <1>5, <3>1, <3>2, PromiseStutters
  <2>4. CASE \/ Call \/ Finish \/ ReadDone \/ SceneStep \/ Holdoff \/ Shutdown
             \/ ForceShutdown \/ Done \/ UNCHANGED vars
             \/ \E t \in Tasks, h \in Hashes : UniHashMessage(t, h)
    <3>1. running' = running /\ complete' = complete /\ failed' = failed
      BY <2>4 DEF Call, Finish, ReadDone, Holdoff, Shutdown, ForceShutdown, Done,
                  UniHashMessage, SceneStep, SceneNotNeeded, SceneHardWait, SceneFail,
                  SceneSkip, SceneStart, SceneNone, SceneUnchanged, taskVars, vars
    <3> QED
      BY <1>1, <1>5, <3>1, PromiseStutters
  <2> QED
    BY <2>1, <2>2, <2>3, <2>4 DEF Next, Server
<1> QED
  BY <1>3, <1>4, <1>5

\* The run queue implements Build when nothing cuts the build short: tasks start once
\* and in order, the verdict is true, and with -k nothing is left that could still be
\* built.
THEOREM SpecKeepsPromise ==
    ASSUME NoHardDeps, WholeBuilds
    PROVE  Spec => KeepsPromise
<1>1. Init => Promise!Init /\ Uncut /\ Verdicts
  BY InitPromise, InitVerdicts DEF Init, Uncut
<1>2. Uncut /\ Verdicts /\ IInv /\ [Next]_vars => Uncut' /\ Verdicts'
  <2>1. [Next]_vars => options' = options
    BY DEF Next, Server, ExitMessage, UniHashMessage, Shutdown, ForceShutdown, Done,
           vars
  <2> QED
    BY <2>1, NextVerdicts DEF Uncut
<1>3. Uncut /\ Verdicts /\ Workers /\ Ledger /\ Queues /\ IInv /\ [Next]_vars
         => [Promise!Next]_(Promise!buildVars)
  BY NextPromise
<1> QED
  BY <1>1, <1>2, <1>3, SpecWorkers, SpecLedger, SpecIInv, SpecQueues, PTL
  DEF Spec, KeepsPromise, Promise!Spec
=============================================================================
