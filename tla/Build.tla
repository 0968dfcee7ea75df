------------------------------- MODULE Build --------------------------------
(***************************************************************************)
(* What a build promises whoever asked for it.  Tasks start when all they  *)
(* depend on is finished, never twice, and the build ends with a verdict   *)
(* that is true: complete when every task is finished, failed when one     *)
(* failed and nothing that could still be built is left.                   *)
(***************************************************************************)
CONSTANTS
    Tasks,
    Depends

VARIABLES
    halt,       \* stop at the first failure
    started, finished, failed,
    verdict     \* "none", "complete" or "failed"

buildVars == <<halt, started, finished, failed, verdict>>

Init ==
    /\ halt \in BOOLEAN
    /\ started = {} /\ finished = {} /\ failed = {}
    /\ verdict = "none"

Ready(t) == t \notin started /\ Depends[t] \subseteq finished

Start(t) ==
    /\ verdict = "none" /\ Ready(t)
    /\ started' = started \cup {t}
    /\ UNCHANGED <<finished, failed, verdict>>

Finish(t) ==
    /\ verdict = "none"
    /\ t \in started \ (finished \cup failed)
    /\ finished' = finished \cup {t}
    /\ UNCHANGED <<started, failed, verdict>>

Fail(t) ==
    /\ verdict = "none"
    /\ t \in started \ (finished \cup failed)
    /\ failed' = failed \cup {t}
    /\ UNCHANGED <<started, finished, verdict>>

\* The task's output is there: it need not run.
Skip(t) ==
    /\ verdict = "none" /\ Ready(t)
    /\ started' = started \cup {t}
    /\ finished' = finished \cup {t}
    /\ UNCHANGED <<failed, verdict>>

Complete ==
    /\ verdict = "none"
    /\ finished = Tasks
    /\ verdict' = "complete"
    /\ UNCHANGED <<started, finished, failed>>

GiveUp ==
    /\ verdict = "none"
    /\ failed # {} /\ started \subseteq finished \cup failed
    /\ halt \/ \A t \in Tasks : ~Ready(t)
    /\ verdict' = "failed"
    /\ UNCHANGED <<started, finished, failed>>

Next ==
    /\ UNCHANGED halt
    /\ \/ \E t \in Tasks : Start(t) \/ Finish(t) \/ Fail(t) \/ Skip(t)
       \/ Complete \/ GiveUp

Spec == Init /\ [][Next]_buildVars
=============================================================================
