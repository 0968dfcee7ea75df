----------------------------- MODULE TaskGraph ------------------------------
(***************************************************************************)
(* The prepared task graph of a build and what build_scenequeue_data       *)
(* derives from it: the smaller graph of the setscene tasks, the tasks     *)
(* each of them stands for, and the tasks that cannot be skipped.  Stated  *)
(* declaratively: a setscene task hides the tasks below it.                *)
(***************************************************************************)
EXTENDS Integers, FiniteSets

CONSTANTS
    Tasks,          \* task ids: rqdata.runtaskentries
    Depends,        \* each task's direct dependencies
    Setscene,       \* tasks that have a setscene variant: runq_setscene_tids
    Targets,        \* tasks the user asked for: target_tids
    HardDepsRev     \* setscene tasks each setscene task names as a dependency

ASSUME GraphAssumption ==
    /\ IsFiniteSet(Tasks)
    /\ Depends \in [Tasks -> SUBSET Tasks]
    /\ Setscene \subseteq Tasks
    /\ Targets \subseteq Tasks
    /\ HardDepsRev \in [Setscene -> SUBSET Setscene]

RevDeps == [t \in Tasks |-> {r \in Tasks : t \in Depends[r]}]

\* All tasks that depend on a task of X, directly or not.
DependOn(X) ==
    LET up[Y \in SUBSET Tasks] ==
            LET Z == Y \cup UNION {RevDeps[t] : t \in Y}
            IN  IF Z = Y THEN Y ELSE up[Z]
    IN  up[UNION {RevDeps[t] : t \in X}]

\* prepare() refuses a graph with a dependency loop.
ASSUME Acyclic == \A t \in Tasks : t \notin DependOn({t})

\* X and what it depends on, down to and including the first setscene task
\* on each path.
Exposed(X) ==
    LET down[Y \in SUBSET Tasks] ==
            LET Z == Y \cup UNION {Depends[t] : t \in Y \ Setscene}
            IN  IF Z = Y THEN Y ELSE down[Z]
    IN  down[X]

\* The tasks that need not run when setscene task s is restored.
SqCovered == [s \in Setscene |-> Exposed(Depends[s]) \ Setscene]

\* The setscene tasks that need s with no other setscene task in between.
SqRevdeps == [s \in Setscene |-> {r \in Setscene : s \in Exposed(Depends[r])}]
SqDeps == [s \in Setscene |-> {d \in Setscene : s \in SqRevdeps[d]}]

HardDeps == [s \in Setscene |-> {d \in Setscene : s \in HardDepsRev[d]}]

Cantskip == Targets \ Setscene

\* The ends of the build and what they need directly.
Unskippable == Exposed({t \in Tasks : RevDeps[t] = {}} \cup Cantskip)
=============================================================================
