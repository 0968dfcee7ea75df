----------------------------- MODULE SceneQueue -----------------------------
(***************************************************************************)
(* The setscene bookkeeping of RunQueueExecute as operators on a record q. *)
(* The methods call each other (a skipped or failed setscene task settles  *)
(* others), so each operator here is one method with all that it calls.    *)
(*                                                                         *)
(* q.covered, q.notcovered   scenequeue_covered, scenequeue_notcovered     *)
(* q.buildable, q.running, q.live    sq_buildable, sq_running, sq_live     *)
(* q.done                    tasks_scenequeue_done                         *)
(* q.needed, q.hdeferred     sq_needed_harddeps, sq_harddep_deferred       *)
(* q.notneeded               scenequeue_notneeded                          *)
(* q.outright                sqdata.outrightfail                           *)
(* q.deferred                sq_deferred: task |-> task it waits for       *)
(* q.update                  holdoff_need_update                           *)
(***************************************************************************)
EXTENDS TaskGraph

CONSTANTS
    NoExec,         \* tasks with the noexec flag: nothing to execute
    NoStamp,        \* tasks with the nostamp flag: always run again
    Recipe          \* the recipe file each task belongs to

ASSUME FlagAssumption ==
    /\ NoExec \subseteq Tasks
    /\ NoStamp \subseteq Tasks
    /\ Recipe \in [Tasks -> STRING]

-----------------------------------------------------------------------------
(* Stamp files: stamps.task and stamps.scene give the age of a task's and  *)
(* of its setscene variant's stamp for the task's current hash.            *)

Absent == 0
Old == 1        \* left by an earlier build
New == 2        \* written by this build
NoFile == <<"", Absent>>

\* A dependency whose output was restored later than it was built, or not
\* built at all, is not compared.
Restored(stamps, d) ==
    d \in Setscene /\ stamps.scene[d] > stamps.task[d]

\* check_stamp_task(recurse=True): the stamp is there, is not older than the
\* stamps of the recipe's own earlier tasks, and those are current too.
\* check_stamp_task(recurse=False) asks nothing of the dependencies' own.
StampCurrent(stamps, recurse) ==
    LET current[t \in Tasks] ==
            /\ stamps.task[t] # Absent
            /\ t \notin NoStamp
            /\ \A d \in Depends[t] :
                  Recipe[d] = Recipe[t] /\ ~Restored(stamps, d) =>
                      /\ stamps.task[d] # Absent
                      /\ stamps.task[d] <= stamps.task[t]
                      /\ recurse => current[d]
    IN  current

\* check_setscene_stamps: nothing to restore for t, or it is there already.
SceneStamped(stamps, t) ==
    t \in NoExec \/ stamps.scene[t] # Absent \/ StampCurrent(stamps, TRUE)[t]

-----------------------------------------------------------------------------
Settled(q) == q.covered \cup q.notcovered

\* scenequeue_updatecounters walks down from the settled tasks S and marks
\* the tasks that only they were waiting for as processed.
DoneFrom(done, S) ==
    LET below(seen, next) == {d \in UNION {Depends[t] : t \in next} :
                                 d \notin Setscene \cup seen /\ RevDeps[d] \subseteq seen}
        walk[at \in (SUBSET Tasks) \X (SUBSET Tasks)] ==
            LET new == below(at[1], at[2])
            IN  IF new = {} THEN at[1] ELSE walk[<<at[1] \cup new, new>>]
    IN  walk[<<done \cup S, S>>]

\* Faulty variant: the tasks below are not marked as processed.
UpdateCountersShallow(q, S) ==
    [q EXCEPT
        !.buildable = @ \cup {d \in UNION {SqDeps[s] : s \in S} :
                                 SqRevdeps[d] \subseteq Settled(q)},
        !.done = @ \cup S,
        !.hdeferred = IF \E s \in S : HardDeps[s] # {}
                      THEN {d \in @ : ~(HardDepsRev[d] \subseteq Settled(q))}
                      ELSE @,
        !.update = TRUE]

\* scenequeue_updatecounters for tasks S that were settled together.
UpdateCounters(q, S) ==
    [q EXCEPT
        !.buildable = @ \cup {d \in UNION {SqDeps[s] : s \in S} :
                                 SqRevdeps[d] \subseteq Settled(q)},
        !.done = DoneFrom(@, S),
        !.hdeferred = IF \E s \in S : HardDeps[s] # {}
                      THEN {d \in @ : ~(HardDepsRev[d] \subseteq Settled(q))}
                      ELSE @,
        !.update = TRUE]

\* sq_task_completeoutright, as called by sq_task_complete.
SqTaskComplete(q, S) ==
    UpdateCounters([q EXCEPT !.covered = @ \cup S], S)

SqTaskSkip(q, S) ==
    SqTaskComplete([q EXCEPT !.running = @ \cup S, !.buildable = @ \cup S], S)

\* Faulty variant: they take along those that were restored already.
UnavailableToAll(q, stamps, S) ==
    LET spread[F \in SUBSET Setscene] ==
            LET G == F \cup UNION {HardDeps[f] : f \in F}
            IN  IF G = F THEN F ELSE spread[G]
    IN  spread[S]

\* Setscene tasks S that are not available take along, transitively, the
\* unsettled ones that name them as dependencies, unless their stamps exist.
Unavailable(q, stamps, S) ==
    LET spread[F \in SUBSET Setscene] ==
            LET G == F \cup {d \in UNION {HardDeps[f] : f \in F} :
                               d \notin Settled(q) /\ ~SceneStamped(stamps, d)}
            IN  IF G = F THEN F ELSE spread[G]
    IN  spread[S]

\* Faulty variant: tasks that failed outright can be chosen again.
SqTaskFailOpen(q, stamps, S) ==
    LET F == Unavailable(q, stamps, S)
    IN  UpdateCounters([q EXCEPT !.buildable = @ \cup F,
                                 !.notcovered = @ \cup F], F)

\* sq_task_failoutright; sq_task_fail does the same to a task that runs.
SqTaskFail(q, stamps, S) ==
    LET F == Unavailable(q, stamps, S)
    IN  UpdateCounters([q EXCEPT !.running = @ \cup F,
                                 !.buildable = @ \cup F,
                                 !.notcovered = @ \cup F], F)

\* update_scenequeue_data: what is stamped is skipped; of the rest, what the
\* hash validation (external) does not know to be available will not run.
UpdateSceneData(q, stamps, tids, valid) ==
    LET stamped == {t \in tids : SceneStamped(stamps, t)}
        r == IF stamped = {} THEN q ELSE SqTaskSkip(q, stamped)
    IN  [r EXCEPT !.outright =
            (@ \ tids) \cup
            {t \in tids \ (valid \cup stamped) :
                t \notin Settled(r) \cup DOMAIN r.deferred}]

\* The part of task_completeoutright that lets one of the tasks deferred to
\* t go and defers the others to that one.
ReleaseDeferred(q, stamps, t, valid) ==
    LET waiting == {d \in DOMAIN q.deferred : q.deferred[d] = t}
        found == CHOOSE d \in waiting : TRUE
        after == [d \in DOMAIN q.deferred \ {found} |->
                     IF d \in waiting THEN found ELSE q.deferred[d]]
    IN  IF waiting = {} THEN q
        ELSE UpdateSceneData([q EXCEPT !.deferred = after], stamps, {found}, valid)

Undefer(q, t) ==
    [q EXCEPT !.deferred = [d \in DOMAIN @ \ {t} |-> @[d]]]
=============================================================================
