------------------------------ MODULE RunQueue ------------------------------
(***************************************************************************)
(* bb.runqueue.RunQueueExecute: the scheduler of a build.  One process     *)
(* calls execute() again and again; each call reads what the workers sent, *)
(* then starts at most one setscene task and one task.  The workers run    *)
(* tasks in parallel and answer in any order.                              *)
(***************************************************************************)
EXTENDS SceneQueue

CONSTANTS
    NumberTasks,    \* BB_NUMBER_THREADS
    Class,          \* recipe name and task name of each task
    StampBase,      \* where each task's stamps are: shared by duplicates
    Hashes,         \* unihash values
    InitUni,        \* the unihash of each task when the build starts
    Stamped,        \* stamp files an earlier build may have left
    CommandLines,   \* the options a build may be started with
    IgnoreTasks     \* tasks BB_SETSCENE_ENFORCE_IGNORE_TASKS names

ASSUME RunQueueAssumption ==
    /\ NumberTasks \in Nat \ {0}
    /\ InitUni \in [Tasks -> Hashes]
    /\ IgnoreTasks \subseteq Tasks
    /\ \A f \in Stamped, t \in Tasks : StampBase[t] \in DOMAIN f.task \cap DOMAIN f.scene
    /\ CommandLines \subseteq
          SUBSET {"halt", "force", "setsceneonly", "skipsetscene", "enforce", "interrupts"}

\* What an earlier build left is old.
ASSUME StampAssumption ==
    \A f \in Stamped, t \in Tasks :
        {f.task[StampBase[t]][2], f.scene[StampBase[t]][2]} \subseteq {Absent, Old}

VARIABLES
    options,    \* of this build
    state,      \* rq.state: "running", "cleanup", "failed" or "complete"
    pc,         \* the part of execute_runqueue() the server is in
    q,          \* the setscene bookkeeping, see SceneQueue
    sqdone,     \* the setscene queue is finished
    buildable, running, complete, tasksrun,         \* the runq_ sets
    begun,      \* tasks runQueueTaskStarted was fired for: begun, not skipped
    failed,     \* failed_tids
    active,     \* stats.active
    covered,    \* tasks_covered
    notcovered, \* tasks_notcovered
    holdoff,    \* holdoff_tasks
    updated,    \* updated_taskhash_queue
    pending,    \* pending_migrations
    uni,        \* the unihash of each task
    files,      \* the stamp files of each StampBase: <<hash, age>>
    buildStamps \* build_stamps: task |-> the stamp it will write

taskVars == <<buildable, running, complete, tasksrun, begun, failed, active>>
coverVars == <<covered, notcovered, holdoff>>
hashVars == <<updated, pending, uni>>
vars ==
    <<options, state, pc, q, sqdone, taskVars, coverVars, hashVars, files, buildStamps>>

Halt == "halt" \in options                  \* stop at the first failure (no -k)
Forced == "force" \in options               \* -f
SetsceneOnly == "setsceneonly" \in options  \* --setscene-only
SkipSetscene == "skipsetscene" \in options  \* --skip-setscene
Enforce == "enforce" \in options            \* BB_SETSCENE_ENFORCE
Interrupts == "interrupts" \in options      \* the user may stop the build

\* call      between two calls of execute_runqueue()
\* read      in the read_workers() at the start of execute()
\* migrate   process_possible_migrations()
\* scene     looking for a setscene task to start
\* holdoff   update_holdofftasks() and the end of the setscene queue
\* tasks     looking for a task to start
\* drain     in a read_workers() that execute() or finish() returns after
\* done      execute_runqueue() reported the end of the build
Pcs == {"call", "read", "migrate", "scene", "holdoff", "tasks", "drain", "done"}

\* The tasks the workers have not answered for.
InFlight == DOMAIN buildStamps
Stamp(t, scene) == <<StampBase[t], uni[t], scene>>

\* The ages of the stamps each task has for its hash, as SceneQueue takes them.
AgeFor(file, h) == IF file[1] = h THEN file[2] ELSE Absent
Stamps(f, hash) ==
    [task  |-> [t \in Tasks |-> AgeFor(f.task[StampBase[t]], hash[t])],
     scene |-> [t \in Setscene |-> AgeFor(f.scene[StampBase[t]], hash[t])]]
stamps == Stamps(files, uni)

\* make_stamp: the new stamp replaces those for other hashes, and a task's
\* stamp replaces its setscene variant's too.
MakeStamp(f, t, h) ==
    [f EXCEPT !.task[StampBase[t]] = <<h, New>>, !.scene[StampBase[t]] = NoFile]
MakeSceneStamps(f, T, hash) ==
    LET named(b) == {t \in T : StampBase[t] = b}
    IN  [f EXCEPT !.scene = [b \in DOMAIN @ |->
            IF named(b) = {} THEN @[b] ELSE <<hash[CHOOSE t \in named(b) : TRUE], New>>]]

\* pending_hash_index and sqdata.hashes: the setscene task that goes first
\* among those of equal name and initial hash.
Index(t, h) == <<Class[t], h>>
First(i) == CHOOSE t \in Setscene : Index(t, InitUni[t]) = i
DeferredAfter(T, hash) ==
    LET later == {t \in T : \E s \in Setscene : Index(s, InitUni[s]) = Index(t, hash[t])}
    IN  [t \in {d \in later : First(Index(d, hash[d])) # d} |-> First(Index(t, hash[t]))]

\* Faulty variant: setscene tasks are not counted.
CanStartTasks(act, live) == act < NumberTasks

CanStart(act, live) == act + Cardinality(live) < NumberTasks
RunningNow(T) == T \cap (running \ complete)

Drop(f, x) == [y \in DOMAIN f \ {x} |-> f[y]]
Merge(f, g) == [x \in DOMAIN f \cup DOMAIN g |-> IF x \in DOMAIN g THEN g[x] ELSE f[x]]

\* execute() returns: the next call, or the end of the build.
Return(st) ==
    /\ state' = st
    /\ pc' = IF st \in {"failed", "complete"} THEN "done" ELSE "call"
Verdict == IF failed # {} THEN "failed" ELSE "complete"

-----------------------------------------------------------------------------
\* RunQueueExecute(), build_scenequeue_data and the SCENE_INIT state.
InitQueue(valid) ==
    LET q0 == [covered |-> {}, notcovered |-> {}, running |-> {}, live |-> {},
               buildable |-> {s \in Setscene : SqRevdeps[s] = {}},
               done |-> Unskippable \ Setscene,
               needed |-> {}, hdeferred |-> {}, notneeded |-> {}, outright |-> {},
               deferred |-> DeferredAfter(Setscene, InitUni),
               update |-> TRUE,
               stamp |-> [s \in Setscene |-> InitUni[s]]]
    IN  UpdateSceneData(q0, stamps, Setscene, valid)

\* Faulty variant: the stamps of an earlier build are left for -f.
InvalidateNot(f) == f

\* invalidate_task of the targets of -f: a taint gives them, and what depends on
\* them, a hash that no earlier build has a stamp for.
Invalidate(f) ==
    LET T == IF Forced THEN Targets \cup DependOn(Targets) ELSE {}
        tainted == {StampBase[t] : t \in T}
        keep(old) == [b \in DOMAIN old |-> IF b \in tainted THEN NoFile ELSE old[b]]
    IN  [task |-> keep(f.task), scene |-> keep(f.scene)]

Init ==
    /\ options \in CommandLines
    /\ uni = InitUni
    /\ \E f \in Stamped :
          files = MakeSceneStamps(Invalidate(f), NoExec \cap Setscene, InitUni)
    /\ \E valid \in SUBSET Setscene : q = InitQueue(valid)
    /\ buildable = {t \in Tasks :
                       /\ Depends[t] = {}
                       /\ Setscene = {} \/ t \in Unskippable \ Setscene}
    /\ sqdone = (Setscene = {})
    /\ notcovered = IF Setscene = {} THEN Tasks ELSE {}
    /\ covered = {}
    /\ holdoff = {}
    /\ running = {} /\ complete = {} /\ tasksrun = {} /\ begun = {} /\ failed = {}
    /\ active = 0
    /\ updated = {} /\ pending = {}
    /\ buildStamps = [t \in {} |-> <<>>]
    /\ state = "running"
    /\ pc = "call"

-----------------------------------------------------------------------------
(* Between the calls: buildTargetsIdle of the cooker. *)

Call ==
    /\ pc = "call" /\ state = "running"
    /\ pc' = "read"
    /\ UNCHANGED <<state, q, sqdone, taskVars, coverVars, hashVars, files, buildStamps>>

\* Faulty variant: the setscene tasks in flight are not counted.
FinishTasksOnly ==
    /\ pc = "call" /\ state = "cleanup"
    /\ IF active > 0 THEN pc' = "drain" /\ UNCHANGED state ELSE Return(Verdict)
    /\ UNCHANGED <<q, sqdone, taskVars, coverVars, hashVars, files, buildStamps>>

\* finish(): wait for the tasks in flight, then report.
Finish ==
    /\ pc = "call" /\ state = "cleanup"
    /\ IF active + Cardinality(q.live) > 0
       THEN pc' = "drain" /\ UNCHANGED state
       ELSE Return(Verdict)
    /\ UNCHANGED <<q, sqdone, taskVars, coverVars, hashVars, files, buildStamps>>

\* finish_runqueue(False), the user's first interrupt.
Shutdown ==
    /\ Interrupts
    /\ pc = "call" /\ state = "running"
    /\ state' = "cleanup"
    /\ UNCHANGED <<options, pc, q, sqdone, taskVars, coverVars, hashVars, files, buildStamps>>

\* finish_runqueue(True), the second: finish_now() waits for nobody.
ForceShutdown ==
    /\ Interrupts
    /\ pc = "call"
    /\ Return(Verdict)
    /\ UNCHANGED <<options, q, sqdone, taskVars, coverVars, hashVars, files, buildStamps>>

-----------------------------------------------------------------------------
(* Messages from the workers: runQueuePipe.read. *)

\* Faulty variant: one completed dependency is enough.
TaskCompleteAnyDep(t, built, ran) ==
    /\ complete' = complete \cup {t}
    /\ running' = ran
    /\ buildable' = built \cup (RevDeps[t] \ ran)
    /\ \E valid \in SUBSET {d \in DOMAIN q.deferred : q.deferred[d] = t} :
          q' = ReleaseDeferred(q, Stamps(files', uni), t, valid)

\* task_completeoutright: what depends on t alone may be built now, and the
\* setscene task deferred to t is looked at again.
TaskCompleteOutright(t, built, ran) ==
    /\ complete' = complete \cup {t}
    /\ running' = ran
    /\ buildable' = built \cup {r \in RevDeps[t] \ ran : Depends[r] \subseteq complete'}
    /\ \E valid \in SUBSET {d \in DOMAIN q.deferred : q.deferred[d] = t} :
          q' = ReleaseDeferred(q, Stamps(files', uni), t, valid)

\* task_complete
TaskComplete(t, act, ran) ==
    /\ active' = act - 1
    /\ TaskCompleteOutright(t, buildable, ran)
    /\ tasksrun' = tasksrun \cup {t}
    /\ UNCHANGED failed

\* task_fail.  A task that never started counts down as well; the counter is
\* capped below so that the model stays finite.
TaskFail(t) ==
    /\ active' = IF active > -NumberTasks THEN active - 1 ELSE active
    /\ failed' = failed \cup {t}
    /\ state' = IF Halt THEN "cleanup" ELSE state

\* Faulty variant: the stamp keeps the hash the task was started with.
HashAtStart(t) == buildStamps[t][2]

\* The hash a worker puts into a task's stamp: the one the task reported, or
\* the one it was started with.
HashOf(t) ==
    IF \E u \in updated : u[1] = t THEN (CHOOSE u \in updated : u[1] = t)[2]
                                  ELSE buildStamps[t][2]

\* runqueue_process_waitpid for a setscene task; sq_check_taskfail.
SceneExit(t, ok) ==
    /\ t \in q.live
    /\ LET r == IF ok THEN SqTaskComplete(q, {t}) ELSE SqTaskFail(q, stamps, {t})
       IN  q' = [r EXCEPT !.live = @ \ {t}]
    /\ files' = IF ok THEN MakeSceneStamps(files, {t}, [u \in {t} |-> buildStamps[t][2]])
                ELSE files
    /\ state' = IF ~ok /\ Enforce /\ t \notin IgnoreTasks THEN "cleanup" ELSE state
    /\ UNCHANGED taskVars

\* runqueue_process_waitpid for a task.
TaskExit(t, ok) ==
    /\ t \notin q.live
    /\ IF ok
       THEN /\ files' = IF t \in NoStamp \/ Enforce THEN files
                        ELSE MakeStamp(files, t, HashOf(t))
            /\ TaskComplete(t, active, running)
            /\ UNCHANGED state
       ELSE /\ TaskFail(t)
            /\ UNCHANGED <<q, buildable, running, complete, tasksrun, files>>
    /\ UNCHANGED begun

ExitMessage(t, ok) ==
    /\ pc \in {"read", "drain"}
    /\ t \in InFlight
    /\ SceneExit(t, ok) \/ TaskExit(t, ok)
    /\ buildStamps' = Drop(buildStamps, t)
    /\ UNCHANGED <<options, pc, sqdone, coverVars, hashVars>>

\* taskUniHashUpdate, sent by a task that may be shared once it has its output.
UniHashMessage(t, h) ==
    /\ pc \in {"read", "drain"}
    /\ t \in (InFlight \cap Setscene) \ q.live
    /\ h # uni[t] /\ \A u \in updated : u[1] # t
    /\ updated' = updated \cup {<<t, h>>}
    /\ UNCHANGED <<options, state, pc, q, sqdone, taskVars, coverVars, pending, uni>>
    /\ UNCHANGED <<files, buildStamps>>

ReadDone ==
    /\ pc \in {"read", "drain"}
    /\ pc' = CASE pc = "drain" -> "call"
               [] pc = "read" /\ (updated # {} \/ pending # {}) -> "migrate"
               [] OTHER -> "scene"
    /\ UNCHANGED <<state, q, sqdone, taskVars, coverVars, hashVars, files, buildStamps>>

-----------------------------------------------------------------------------
(* process_possible_migrations: unihashes changed while the build ran. *)

\* The changes that can be taken over, and the tasks they reach: the task and
\* those deferred to it, then everything that depends on them.
Reported == {u \in updated : u[1] \notin RunningNow(Tasks)}
Rehashed ==
    LET now == {u \in Reported : u[2] # uni[u[1]]}
        source(t) == {u \in now : u[1] = t \/ (t \in DOMAIN q.deferred /\ q.deferred[t] = u[1])}
    IN  [t \in {t \in Tasks : source(t) # {}} |-> (CHOOSE u \in source(t) : TRUE)[2]]

\* Faulty variant: restored tasks are rehashed too.
NewHashesOfAll(re) ==
    {Merge(Merge(uni, re), n) : n \in [DependOn(DOMAIN re) -> Hashes]}

\* The hashes of all dependents are computed again, by the hash equivalence
\* server (external); a setscene task that ran or runs keeps its own.
NewHashes(re) ==
    {Merge(Merge(uni, re), n) :
        n \in [DependOn(DOMAIN re) \ (q.covered \cup q.live) -> Hashes]}

\* Faulty variant: running tasks block nothing.
NeverBlocked(t) == FALSE

\* A changed setscene task goes back into the queue unless it is too late for
\* it, and not while a task it covers is running.
TooLate(t) == t \in running \cup q.live
Blocked(t) == RunningNow(SqCovered[t]) # {}

\* "Task %s marked as completed but now needing to rerun?"
NeedsRerun(t) == (SqCovered[t] \cap complete) \ tasksrun # {}

\* The queue after the tasks M went back into it.
Requeue(M, hash, valid) ==
    LET below == (UNION {SqCovered[t] : t \in M}) \ (complete \cup Unskippable)
        q1 == [q EXCEPT !.done = @ \ (M \cup below),
                        !.buildable = @ \ M, !.running = @ \ M, !.outright = @ \ M,
                        !.covered = @ \ M, !.notcovered = @ \ M, !.notneeded = @ \ M,
                        !.stamp = [t \in Setscene |-> IF t \in M THEN hash[t] ELSE @[t]]]
        lost == {t \in M : HardDepsRev[t] \cap q1.notcovered # {}}
        ready == {t \in M : \/ SqRevdeps[t] = {}
                            \/ t \notin lost /\ SqRevdeps[t] \subseteq Settled(q1)}
        q2 == [q1 EXCEPT !.buildable = @ \cup ready,
                         !.deferred = Merge(@, DeferredAfter(M, hash))]
        st == Stamps(files', hash)
        q3 == UpdateSceneData(q2, st, M, valid)
    IN  SqTaskFail(q3, st, lost)

\* The halt on NeedsRerun returns in the middle of the loop over the tasks to
\* requeue; what it did for those before is left out, as the build stops.
Migrate ==
    /\ pc = "migrate"
    /\ updated' = updated \ Reported
    /\ \E hash \in NewHashes(Rehashed) :
          LET changed == {t \in DependOn(DOMAIN Rehashed) :
                             hash[t] # Merge(uni, Rehashed)[t]}
              queue == {t \in pending \cup (changed \cap Setscene) : ~TooLate(t)}
              M == {t \in queue : ~Blocked(t)}
              halt == {t \in M : NeedsRerun(t)}
          IN  /\ uni' = hash
              /\ pending' = queue \ M
              /\ files' = MakeSceneStamps(files, M \cap NoExec, hash)
              /\ failed' = failed \cup (IF halt = {} THEN {} ELSE {CHOOSE t \in halt : TRUE})
              /\ state' = IF halt = {} THEN state ELSE "cleanup"
              /\ sqdone' = (sqdone /\ (M = {} \/ halt # {}))
              /\ IF halt # {} \/ (M = {} /\ changed = {})
                 THEN UNCHANGED q
                 ELSE \E valid \in SUBSET M :
                         LET r == IF M = {} THEN q ELSE Requeue(M, hash, valid)
                         IN  q' = [r EXCEPT !.needed = {}, !.hdeferred = {},
                                            !.update = TRUE]
    /\ pc' = "scene"
    /\ UNCHANGED <<buildable, running, complete, tasksrun, begun, active, coverVars, buildStamps>>

-----------------------------------------------------------------------------
(* execute(): the next setscene task. *)

\* What the loop over the setscene tasks looks at.  A task whose stamp name is
\* being written by another waits for it.
Candidates ==
    {t \in q.buildable \ (q.running \cup q.hdeferred) :
        /\ \A u \in InFlight : buildStamps[u] # <<StampBase[t], q.stamp[t], FALSE>>
        /\ t \in DOMAIN q.deferred => q.deferred[t] \in complete}
HardWait(t) == ~(HardDepsRev[t] \subseteq Settled(q))

SceneLoop == pc = "scene" /\ ~sqdone /\ CanStart(active, q.live)
SceneUnchanged == UNCHANGED <<sqdone, taskVars, coverVars, hashVars, files>>

\* Faulty variant: what needs t is settled, restored or not.
SceneNotNeededEither(t) ==
    /\ SceneLoop
    /\ t \in Candidates \ (Unskippable \cup q.needed \cup Targets)
    /\ SqRevdeps[t] # {} /\ SqRevdeps[t] \subseteq Settled(q)
    /\ q' = Undefer([SqTaskSkip(q, {t}) EXCEPT !.notneeded = @ \cup {t}], t)
    /\ Return(state)
    /\ SceneUnchanged /\ UNCHANGED buildStamps

\* Everything that needs t was restored; depvalidate (external) may find that
\* t itself is not needed then.
SceneNotNeeded(t) ==
    /\ SceneLoop
    /\ t \in Candidates \ (Unskippable \cup q.needed \cup Targets)
    /\ SqRevdeps[t] # {} /\ SqRevdeps[t] \subseteq q.covered
    /\ q' = Undefer([SqTaskSkip(q, {t}) EXCEPT !.notneeded = @ \cup {t}], t)
    /\ Return(state)
    /\ SceneUnchanged /\ UNCHANGED buildStamps

\* A task that names others as dependencies waits for them, and they are
\* wanted even if nothing else needs them.
SceneHardWait(t) ==
    /\ SceneLoop
    /\ t \in Candidates /\ HardWait(t)
    /\ LET new == HardDepsRev[t] \ q.needed
       IN  /\ q' = [q EXCEPT !.buildable = @ \cup new, !.needed = @ \cup new,
                             !.hdeferred = @ \cup {t}]
           /\ IF new = {} THEN UNCHANGED <<state, pc>> ELSE Return(state)
    /\ SceneUnchanged /\ UNCHANGED buildStamps

SceneEligible == {t \in Candidates : ~HardWait(t) /\ ~Blocked(t)}

\* Why an eligible setscene task does not run: not available after all, built
\* already, asked for with -f, or none are to run.
SceneUnwanted(t, invalid) ==
    \/ t \in DOMAIN q.deferred /\ invalid
    \/ t \in q.outright
    \/ StampCurrent(stamps, TRUE)[t]
    \/ Forced /\ t \in Targets
    \/ SkipSetscene /\ stamps.scene[t] = Absent

SceneFail(t) ==
    /\ SceneLoop
    /\ t \in SceneEligible
    /\ \E invalid \in BOOLEAN : SceneUnwanted(t, invalid)
    /\ q' = SqTaskFail(Undefer(q, t), stamps, {t})
    /\ Return(state)
    /\ SceneUnchanged /\ UNCHANGED buildStamps

\* Its setscene stamp is there, so it is restored already.
SceneSkip(t) ==
    /\ SceneLoop
    /\ t \in SceneEligible
    /\ ~SceneUnwanted(t, FALSE)
    /\ stamps.scene[t] # Absent
    /\ q' = SqTaskSkip(Undefer(q, t), {t})
    /\ Return(state)
    /\ SceneUnchanged /\ UNCHANGED buildStamps

SceneStart(t) ==
    /\ SceneLoop
    /\ t \in SceneEligible
    /\ ~SceneUnwanted(t, FALSE)
    /\ stamps.scene[t] = Absent
    /\ q' = [Undefer(q, t) EXCEPT !.running = @ \cup {t}, !.live = @ \cup {t}]
    /\ buildStamps' = Merge(buildStamps, [u \in {t} |-> Stamp(t, TRUE)])
    /\ IF CanStart(active, q'.live) THEN Return(state)
                                   ELSE pc' = "holdoff" /\ UNCHANGED state
    /\ SceneUnchanged

SceneNone ==
    /\ pc = "scene"
    /\ SceneLoop => \A t \in Candidates : ~HardWait(t) /\ Blocked(t)
    /\ pc' = "holdoff"
    /\ SceneUnchanged /\ UNCHANGED <<state, q, buildStamps>>

-----------------------------------------------------------------------------
(* execute(): tasks that wait for the setscene queue. *)

\* update_holdofftasks: which tasks run, which are covered, and which wait
\* because a setscene task above them is not settled.
UpdateHoldoff ==
    LET not == (q.notcovered \cup Cantskip \cup (Unskippable \ Setscene)
                   \cup UNION {SqCovered[s] : s \in q.notcovered}) \cap q.done
        cov == ((q.covered \cup UNION {SqCovered[s] : s \in q.covered}) \ not)
                   \cap q.done
        open == Setscene \ Settled(q)
    IN  /\ notcovered' = not
        /\ covered' = cov
        /\ buildable' = buildable \cup 
                {t \in Tasks : t \in not \cup cov /\ Depends[t] \subseteq complete}
        /\ holdoff' = open \cup ((UNION {SqCovered[s] : s \in open}) \ complete)
        /\ q' = [q EXCEPT !.update = FALSE]

\* summarise_scenequeue_errors
SceneError(r, built, cov, not, hold) ==
    \/ DOMAIN r.deferred # {} \/ updated # {} \/ hold # {}
    \/ ~(Setscene \subseteq Settled(r) \cap r.buildable \cap r.running)
    \/ ~(Tasks \subseteq (cov \cup not) \cap r.done)
    \/ \E t \in Tasks : Depends[t] = {} /\ t \notin built

Holdoff ==
    /\ pc = "holdoff"
    /\ IF q.update THEN UpdateHoldoff ELSE UNCHANGED <<q, buildable, coverVars>>
    /\ IF /\ q.live = {} /\ ~sqdone /\ DOMAIN q.deferred = {}
          /\ updated = {} /\ holdoff' = {}
       THEN IF SceneError(q', buildable', covered', notcovered', holdoff')
            THEN Return("failed") /\ UNCHANGED sqdone
            ELSE IF SetsceneOnly
            THEN Return("complete") /\ UNCHANGED sqdone
            ELSE sqdone' = TRUE /\ pc' = "tasks" /\ UNCHANGED state
       ELSE pc' = "tasks" /\ UNCHANGED <<sqdone, state>>
    /\ UNCHANGED <<running, complete, tasksrun, begun, failed, active, hashVars>>
    /\ UNCHANGED <<files, buildStamps>>

-----------------------------------------------------------------------------
(* execute(): the next task. *)

\* The scheduler's choice; its stamp names are those of the build's start.
Buildable ==
    {t \in (buildable \ (running \cup holdoff)) \cap (covered \cup notcovered) :
        \A u \in InFlight : buildStamps[u] # <<StampBase[t], InitUni[t], FALSE>>}
TaskChoice == IF CanStart(active, q.live) /\ ~SetsceneOnly THEN Buildable ELSE {}

Stale(t) == ~StampCurrent(stamps, FALSE)[t]
TaskUnchanged == UNCHANGED <<sqdone, coverVars, hashVars>>

\* check_setscene_ignore_tasks: it should have been restored.
Unexpected(t) ==
    Enforce /\ t \notin covered \cup NoExec \cup IgnoreTasks /\ Stale(t)

TaskUnexpected(t) ==
    /\ pc = "tasks" /\ t \in TaskChoice
    /\ Unexpected(t)
    /\ TaskFail(t)
    /\ pc' = "call"
    /\ UNCHANGED <<q, buildable, running, complete, tasksrun, begun, files, buildStamps>>
    /\ TaskUnchanged

\* task_skip, for a task that is covered or has a current stamp.
TaskSkip(t) ==
    /\ pc = "tasks" /\ t \in TaskChoice
    /\ t \in covered \/ ~Stale(t)
    /\ files' = files
    /\ TaskCompleteOutright(t, buildable, running \cup {t})
    /\ tasksrun' = IF t \in covered THEN tasksrun ELSE tasksrun \cup {t}
    /\ Return(state)
    /\ UNCHANGED <<begun, failed, active, buildStamps>>
    /\ TaskUnchanged

\* A noexec task completes at once.
TaskNoExec(t) ==
    /\ pc = "tasks" /\ t \in TaskChoice
    /\ t \in NoExec \ covered /\ Stale(t)
    /\ files' = IF Enforce THEN files ELSE MakeStamp(files, t, uni[t])
    /\ TaskComplete(t, active + 1, running \cup {t})
    /\ begun' = begun \cup {t}
    /\ Return(state)
    /\ UNCHANGED buildStamps
    /\ TaskUnchanged

TaskStart(t) ==
    /\ pc = "tasks" /\ t \in TaskChoice
    /\ t \notin covered \cup NoExec /\ Stale(t) /\ ~Unexpected(t)
    /\ running' = running \cup {t}
    /\ begun' = begun \cup {t}
    /\ active' = active + 1
    /\ buildStamps' = Merge(buildStamps, [u \in {t} |-> Stamp(t, FALSE)])
    /\ IF CanStart(active', q.live)
       THEN Return(state)
       ELSE pc' = "drain" /\ UNCHANGED state
    /\ UNCHANGED <<q, buildable, complete, tasksrun, failed, files>>
    /\ TaskUnchanged

\* Nothing to start.  (While a task is active, number_threads or a pressure
\* limit may hold back one that could.)
TaskNone == pc = "tasks" /\ (TaskChoice = {} \/ active > 0)

Wait ==
    /\ TaskNone
    /\ active > 0 \/ q.live # {}
    /\ pc' = "drain"
    /\ UNCHANGED <<state, q, sqdone, taskVars, coverVars, hashVars, files, buildStamps>>

\* "Runqueue deadlocked on deferred tasks"
ForceDeferred ==
    /\ TaskNone /\ active <= 0 /\ q.live = {}
    /\ \E t \in DOMAIN q.deferred : q' = Undefer(q, t)
    /\ Return(state)
    /\ UNCHANGED <<sqdone, taskVars, coverVars, hashVars, files, buildStamps>>

\* Faulty variant: a failed build ends before the deferred tasks had a chance.
StopDeferred ==
    /\ TaskNone /\ active <= 0 /\ q.live = {}
    /\ Return(IF \/ failed # {}
                 \/ SceneError(q, buildable, covered, notcovered, holdoff)
                 \/ complete \cap running \cap buildable # Tasks
              THEN "failed" ELSE "complete")
    /\ UNCHANGED <<q, sqdone, taskVars, coverVars, hashVars, files, buildStamps>>

\* The build is over; the sanity checks look for tasks left behind.
Stop ==
    /\ TaskNone /\ active <= 0 /\ q.live = {} /\ DOMAIN q.deferred = {}
    /\ Return(IF \/ failed # {}
                 \/ SceneError(q, buildable, covered, notcovered, holdoff)
                 \/ complete \cap running \cap buildable # Tasks
              THEN "failed" ELSE "complete")
    /\ UNCHANGED <<q, sqdone, taskVars, coverVars, hashVars, files, buildStamps>>

\* execute_runqueue() is not called again.
Done == pc = "done" /\ UNCHANGED vars

-----------------------------------------------------------------------------
SceneStep ==
    \/ \E t \in Setscene :
          \/ SceneNotNeeded(t) \/ SceneHardWait(t)
          \/ SceneFail(t) \/ SceneSkip(t) \/ SceneStart(t)
    \/ SceneNone

TaskStep ==
    \/ \E t \in Tasks :
          TaskUnexpected(t) \/ TaskSkip(t) \/ TaskNoExec(t) \/ TaskStart(t)
    \/ Wait \/ ForceDeferred \/ Stop

\* What the server does by itself.
Server ==
    /\ UNCHANGED options
    /\ Call \/ Finish \/ ReadDone \/ Migrate \/ SceneStep \/ Holdoff \/ TaskStep

Next ==
    \/ Server
    \/ \E t \in Tasks :
          \/ \E ok \in BOOLEAN : ExitMessage(t, ok)
          \/ \E h \in Hashes : UniHashMessage(t, h)
    \/ Shutdown \/ ForceShutdown
    \/ Done

Spec == Init /\ [][Next]_vars

\* The idle loop keeps calling; read_workers() takes in all that the workers
\* have written, and every task ends.
FairSpec ==
    /\ Spec
    /\ WF_vars(Server)
    /\ \A t \in Tasks : SF_vars(\E ok \in BOOLEAN : ExitMessage(t, ok))

-----------------------------------------------------------------------------
(* Properties.  The Faulty variants above are wrong versions of the         *)
(* definitions that follow them; each property below rejects one of them.   *)

\* The part of the type invariant that concerns the tasks.
TaskTypeOK ==
    /\ state \in {"running", "cleanup", "failed", "complete"}
    /\ pc \in Pcs
    /\ sqdone \in BOOLEAN
    /\ {buildable, running, complete, tasksrun, failed} \subseteq SUBSET Tasks
    /\ active \in Int
    /\ updated \subseteq Tasks \X Hashes
    /\ pending \subseteq Setscene
    /\ InFlight \subseteq Tasks
    /\ q.live \subseteq Setscene

\* A task is started or skipped only when all it depends on is complete, in
\* whatever order the workers answer (task_completeoutright).
DepsFirst == \A t \in running : Depends[t] \subseteq complete

\* BB_NUMBER_THREADS bounds the tasks and setscene tasks that run at a time,
\* counted together (can_start_task).
ThreadLimit == active + Cardinality(q.live) <= NumberTasks

\* A setscene task never runs while the task itself, or one whose output it
\* would overwrite, runs ("If covered tasks are running, need to wait").
SceneExclusive ==
    \A s \in q.live : s \notin running /\ RunningNow(SqCovered[s]) = {}

\* What a running task needs was run or found built, or is restored or found so: it
\* was not passed over because what needs it was restored (tasks_covered), nor is
\* it a setscene task that was held not to be needed (scenequeue_notneeded).
InputsPresent ==
    \A t \in InFlight \ q.live : \A d \in Depends[t] :
        d \in tasksrun \/ d \in q.covered \ q.notneeded

\* A setscene task is available or it is not ("No task should end up in both
\* covered and uncovered, that is a bug", summarise_scenequeue_errors).
Disjoint == q.covered \cap q.notcovered = {}

\* What was restored is not taken back: no later change of hashes makes the
\* queue restore it again (process_possible_migrations).
CoveredStays == [][q.covered \subseteq q'.covered]_vars

\* After a complete build, neither interrupted nor restricted to setscene tasks,
\* all that it asks for has stamps, whatever hashes the tasks reported meanwhile
\* (make_stamp, check_stamp_task): what was run is current, also by the stamps it
\* depends on; what was restored, or found current at first, has a stamp of its own
\* (it keeps its hash, "ignoring rehash", even if what it was made from is built
\* again, so that it need not be current any more).
NothingLeft ==
    pc = "done" /\ state = "complete" /\ ~(Interrupts \/ Enforce \/ SetsceneOnly) =>
        \A t \in Unskippable :
            \/ StampCurrent(stamps, FALSE)[t]
            \/ t \in q.covered /\ (SceneStamped(stamps, t) \/ stamps.task[t] # Absent)

\* -f: what the user asked for was begun and completed, not restored or found built
\* (task_skip "existing"), when a build that neither the user nor a restriction to
\* setscene tasks cut short is complete, whatever stamps an earlier one left.
ForcedRun ==
    Forced /\ pc = "done" /\ state = "complete" /\ ~(Interrupts \/ Enforce \/ SetsceneOnly) =>
        Targets \subseteq (begun \cap complete) \ q.covered

\* The build does not end while a worker still owes an answer (finish).
Drained == pc = "done" => InFlight = {}

\* If the build fails a task failed: the sanity checks at the end of the
\* setscene queue and of the build never report tasks left behind.
SanityHolds == state = "failed" => failed # {}

\* The queue builds what Build promises: order, no second start of a task, a
\* true verdict, and with -k nothing left that could still be built.
Promise ==
    INSTANCE Build WITH
        halt <- Halt, started <- running, finished <- complete,
        verdict <- IF pc = "done" THEN state ELSE "none"
KeepsPromise == Promise!Spec

\* Every build ends.
Terminates == <>(pc = "done")
=============================================================================
