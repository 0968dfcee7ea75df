------------------------------- MODULE Worker -------------------------------
(***************************************************************************)
(* bitbake-worker and the server's end of its pipes: the server writes     *)
(* commands to the worker's standard input, the worker forks a process per *)
(* task, relays their events and reports how they end.  Any of them may    *)
(* be killed or die.  Modelled for one worker.                             *)
(***************************************************************************)
EXTENDS Integers, Sequences, FiniteSets

CONSTANTS
    NumTasks,   \* tasks the server may give to the worker
    MaxEvents,  \* bound on the events a task fires
    PipeSize,   \* messages a pipe between server and worker holds
    Halt,       \* taskData.halt: no -k
    Faults      \* what may go wrong: subset of {"fork", "worker", "server"}

ASSUME WorkerAssumption ==
    /\ Halt \in BOOLEAN /\ NumTasks \in Nat /\ MaxEvents \in Nat /\ PipeSize \in Nat \ {0}
    /\ Faults \subseteq {"fork", "worker", "server"}

Tasks == 1..NumTasks    \* in the order in which the server starts them

VARIABLES
    \* the server
    state,      \* rq.state: "running", "cleanup", "failed" or "complete"
    spc,        \* where the server is
    msg,        \* the command it is writing
    sent,       \* tasks it has given to the worker
    outcome,    \* the exit code it has processed of each task
    seen,       \* how many events of each task it has processed
    stopped,    \* it called finish_now(), or an exception ended the build
    raised,     \* an exception is to be raised when the workers are gone
    teardown,   \* rq.teardown
    result,     \* what execute_runqueue() reports in the end
    \* the pipes between server and worker
    stdin, closed, stdout,
    \* the worker
    work,       \* its main thread
    queue,      \* worker_queue, which its second thread writes to the pipe
    \* the processes of the tasks
    child, exit, doomed, emitted, piped

serverVars == <<state, spc, msg, sent, outcome, seen, stopped, raised, teardown, result>>
pipeVars == <<stdin, closed, stdout>>
childVars == <<child, exit, doomed, emitted, piped>>
vars == <<serverVars, pipeVars, work, queue, childVars>>

\* spc: loop      between the steps of execute_runqueue()
\*      write     in the flush() of a command
\*      teardown  _teardown_worker() reads until the worker is gone
\*      done      execute_runqueue() returned False or raised
\*      dead      the server process was killed
\* pc:  select    at the top of serve()
\*      items     handle_item() looks at the kinds of command from next on
\*      reap      in the process_waitpid() loop
\*      finish    in handle_finishnow(), with the processes left to kill
\*      killed    handle_finishnow() is over at the end of the input
\*      exiting   the main thread ended; the second writes what is queued
\* child: new, forked before prctl(PR_SET_PDEATHSIG) and setsid(), tied: gets
\*      SIGTERM when the worker dies, running as leader of its process group,
\*      ended: a zombie, or reaped
Fresh(pc) == [pc |-> pc, next |-> 1, inbox |-> <<>>, pids |-> <<>>,
              left |-> <<>>, waiting |-> FALSE, eof |-> FALSE]

Init ==
    /\ state = "running" /\ spc = "loop" /\ msg = <<>>
    /\ sent = {}
    /\ outcome = [t \in Tasks |-> "none"] /\ seen = [t \in Tasks |-> 0]
    /\ stopped = FALSE /\ raised = FALSE /\ teardown = FALSE /\ result = "none"
    /\ stdin = <<>> /\ closed = FALSE /\ stdout = <<>>
    /\ work = Fresh("select")
    /\ queue = <<>>
    /\ child = [t \in Tasks |-> "new"] /\ exit = [t \in Tasks |-> "none"]
    /\ doomed = {}
    /\ emitted = [t \in Tasks |-> 0] /\ piped = [t \in Tasks |-> 0]

-----------------------------------------------------------------------------
(* The process of a task. *)

ChildUnchanged == UNCHANGED <<serverVars, pipeVars, work, queue>>
Alive(t) == child[t] \in {"forked", "tied", "running"}

\* signal_on_parent_exit.  If the worker is gone already, no signal comes.
Tie(t) ==
    /\ child[t] = "forked"
    /\ child' = [child EXCEPT ![t] = "tied"]
    /\ ChildUnchanged /\ UNCHANGED <<exit, doomed, emitted, piped>>

\* setsid(), and the signal handler.
Lead(t) ==
    /\ child[t] = "tied"
    /\ child' = [child EXCEPT ![t] = "running"]
    /\ ChildUnchanged /\ UNCHANGED <<exit, doomed, emitted, piped>>

\* worker_child_fire.  Without a reader the task ends; a child forked later
\* may have the reading end, too.
Emit(t) ==
    /\ child[t] = "running" /\ emitted[t] < MaxEvents
    /\ \/ /\ emitted' = [emitted EXCEPT ![t] = @ + 1]
          /\ piped' = [piped EXCEPT ![t] = @ + 1]
          /\ UNCHANGED <<child, exit>>
       \/ /\ work.pc = "dead"
          /\ child' = [child EXCEPT ![t] = "ended"]
          /\ exit' = [exit EXCEPT ![t] = "fail"]
          /\ UNCHANGED <<emitted, piped>>
    /\ ChildUnchanged /\ UNCHANGED doomed

End(t, code) ==
    /\ child[t] = "running"
    /\ child' = [child EXCEPT ![t] = "ended"]
    /\ exit' = [exit EXCEPT ![t] = code]
    /\ ChildUnchanged /\ UNCHANGED <<doomed, emitted, piped>>

\* SIGTERM takes effect: the exit code is 128 + 15.
Die(t) ==
    /\ t \in doomed /\ Alive(t)
    /\ child' = [child EXCEPT ![t] = "ended"]
    /\ exit' = [exit EXCEPT ![t] = "fail"]
    /\ ChildUnchanged /\ UNCHANGED <<doomed, emitted, piped>>

-----------------------------------------------------------------------------
(* The worker: serve(). *)

Kinds == <<"runtask", "finishnow", "quit">>     \* in the order serve() asks

Events(t) == [i \in 1..piped[t] |-> <<"event", t>>]

\* Everything in the pipes of the children that are in s.
InPipes(s) ==
    LET upTo[n \in 0..Len(s)] == IF n = 0 THEN <<>> ELSE upTo[n - 1] \o Events(s[n])
    IN  upTo[Len(s)]

\* del build_pids[pid]: the entry of t, which is there once, is taken out of s.
Without(s, t) ==
    LET i == CHOOSE j \in DOMAIN s : s[j] = t
    IN  [j \in 1..(Len(s) - 1) |-> IF j < i THEN s[j] ELSE s[j + 1]]

Read(s) ==
    /\ queue' = queue \o InPipes(s)
    /\ piped' = [t \in Tasks |-> IF \E i \in DOMAIN s : s[i] = t THEN 0 ELSE piped[t]]

\* Faulty variant: the children did not ask for a signal.
GoneSilently ==
    /\ work' = Fresh("dead")
    /\ queue' = <<>>
    /\ UNCHANGED doomed

\* The end of the worker process.  What is still queued in it is lost, and the
\* kernel sends SIGTERM to the children that asked for it.
Gone ==
    /\ work' = Fresh("dead")
    /\ queue' = <<>>
    /\ doomed' = doomed \cup {t \in Tasks : child[t] \in {"tied", "running"}}

\* At the end of its input the worker behaves as on SIGTERM, whatever commands
\* it has not handled yet.
Select ==
    /\ work.pc = "select"
    /\ work' = IF stdin = <<>> /\ closed
               THEN [work EXCEPT !.pc = "finish", !.left = work.pids, !.eof = TRUE]
               ELSE [work EXCEPT !.pc = "items", !.next = 1, !.inbox = @ \o stdin]
    /\ stdin' = <<>>
    /\ UNCHANGED serverVars /\ UNCHANGED <<closed, stdout, queue, childVars>>

\* handle_item for the kind of the command that is first.
NextItem == IF work.inbox = <<>> THEN "none" ELSE Head(work.inbox)[1]
Handles(k) == work.pc = "items" /\ work.next <= k /\ NextItem = Kinds[k]
Handled(k) == [work EXCEPT !.inbox = Tail(@), !.next = k + 1]

RunTask ==
    /\ Handles(1)
    /\ LET t == Head(work.inbox)[2]
       IN  /\ child' = [child EXCEPT ![t] = "forked"]
           /\ work' = [Handled(1) EXCEPT !.pids = Append(@, t)]
    /\ UNCHANGED serverVars /\ UNCHANGED <<pipeVars, queue, exit, doomed, emitted, piped>>

\* fork() fails: the worker exits.
ForkFails ==
    /\ "fork" \in Faults
    /\ Handles(1)
    /\ work' = [work EXCEPT !.pc = "exiting"]
    /\ UNCHANGED serverVars /\ UNCHANGED <<pipeVars, queue, childVars>>

FinishNow ==
    /\ Handles(2)
    /\ work' = [Handled(2) EXCEPT !.pc = "finish", !.left = work.pids]
    /\ UNCHANGED serverVars /\ UNCHANGED <<pipeVars, queue, childVars>>

Quit ==
    /\ Handles(3)
    /\ work' = [work EXCEPT !.pc = "exiting"]
    /\ UNCHANGED serverVars /\ UNCHANGED <<pipeVars, queue, childVars>>

\* Nothing more to handle in this pass: what the children wrote is read.
ReadPipes ==
    /\ work.pc = "items"
    /\ \A k \in 1..3 : ~Handles(k)
    /\ Read(work.pids)
    /\ work' = [work EXCEPT !.pc = "reap", !.next = 1]
    /\ UNCHANGED serverVars /\ UNCHANGED <<pipeVars, child, exit, doomed, emitted>>

\* handle_finishnow: kill a process group and wait for any child.  There is no
\* such group before setsid() and after the child was waited for.
Kill ==
    /\ work.pc = "finish" /\ ~work.waiting /\ work.left # <<>>
    /\ LET t == Head(work.left)
       IN  /\ work' = IF child[t] \in {"running", "ended"}
                      THEN [work EXCEPT !.waiting = TRUE]
                      ELSE [work EXCEPT !.left = Tail(@)]
           /\ doomed' = IF child[t] = "running" THEN doomed \cup {t} ELSE doomed
    /\ UNCHANGED serverVars /\ UNCHANGED <<pipeVars, queue, child, exit, emitted, piped>>

\* Faulty variant: the child that was killed is reported, not the one waited for.
KilledReports(t) ==
    /\ work.pc = "finish" /\ work.waiting
    /\ child[t] = "ended"
    /\ child' = [child EXCEPT ![t] = "reaped"]
    /\ work' = [work EXCEPT !.waiting = FALSE, !.left = Tail(@)]
    /\ queue' = Append(queue, <<"exit", Head(work.left), exit[t]>>)
    /\ UNCHANGED serverVars /\ UNCHANGED <<pipeVars, exit, doomed, emitted, piped>>

Killed(t) ==
    /\ work.pc = "finish" /\ work.waiting
    /\ child[t] = "ended"
    /\ child' = [child EXCEPT ![t] = "reaped"]
    /\ work' = [work EXCEPT !.waiting = FALSE, !.left = Tail(@)]
    /\ UNCHANGED serverVars /\ UNCHANGED <<pipeVars, queue, exit, doomed, emitted, piped>>

\* What is in the pipes is read once more.
KillsDone ==
    /\ work.pc = "finish" /\ work.left = <<>>
    /\ Read(work.pids)
    /\ work' = [work EXCEPT !.pc = IF work.eof THEN "killed" ELSE "items"]
    /\ UNCHANGED serverVars /\ UNCHANGED <<pipeVars, child, exit, doomed, emitted>>

\* After the end of its input the worker sends itself SIGTERM.
Terminate ==
    /\ work.pc = "killed"
    /\ Gone
    /\ UNCHANGED serverVars /\ UNCHANGED <<pipeVars, child, exit, emitted, piped>>

\* Faulty variant: the exit code goes ahead of what is left in the pipe.
ReapFirst(t) ==
    /\ work.pc = "reap" /\ child[t] = "ended"
    /\ child' = [child EXCEPT ![t] = "reaped"]
    /\ queue' = queue \o <<<<"exit", t, exit[t]>>>> \o Events(t)
    /\ piped' = [piped EXCEPT ![t] = 0]
    /\ work' = [work EXCEPT !.pids = Without(@, t)]
    /\ UNCHANGED serverVars /\ UNCHANGED <<pipeVars, exit, doomed, emitted>>

\* Faulty variant: the main thread writes to the server's pipe itself.
ReapWrites(t) ==
    /\ work.pc = "reap" /\ child[t] = "ended"
    /\ Len(stdout) < PipeSize /\ queue = <<>>
    /\ child' = [child EXCEPT ![t] = "reaped"]
    /\ queue' = queue \o Events(t) \o <<<<"exit", t, exit[t]>>>>
    /\ piped' = [piped EXCEPT ![t] = 0]
    /\ work' = [work EXCEPT !.pids = Without(@, t)]
    /\ UNCHANGED serverVars /\ UNCHANGED <<pipeVars, exit, doomed, emitted>>

\* process_waitpid: the pipe is read to its end before the exit code is queued.
Reap(t) ==
    /\ work.pc = "reap" /\ child[t] = "ended"
    /\ child' = [child EXCEPT ![t] = "reaped"]
    /\ queue' = queue \o Events(t) \o <<<<"exit", t, exit[t]>>>>
    /\ piped' = [piped EXCEPT ![t] = 0]
    /\ work' = [work EXCEPT !.pids = Without(@, t)]
    /\ UNCHANGED serverVars /\ UNCHANGED <<pipeVars, exit, doomed, emitted>>

ReapNone ==
    /\ work.pc = "reap"
    /\ \A t \in Tasks : child[t] # "ended"
    /\ work' = [work EXCEPT !.pc = "select"]
    /\ UNCHANGED serverVars /\ UNCHANGED <<pipeVars, queue, childVars>>

Exit ==
    /\ work.pc = "exiting" /\ queue = <<>>
    /\ Gone
    /\ UNCHANGED serverVars /\ UNCHANGED <<pipeVars, child, exit, emitted, piped>>

\* The worker is killed, at any moment.
WorkerDies ==
    /\ "worker" \in Faults /\ work.pc # "dead"
    /\ Gone
    /\ UNCHANGED serverVars /\ UNCHANGED <<pipeVars, child, exit, emitted, piped>>

\* Faulty variant: what a full pipe does not take is dropped.
FlushDrops ==
    /\ work.pc # "dead" /\ queue # <<>> /\ spc # "dead"
    /\ queue' = Tail(queue)
    /\ stdout' = IF Len(stdout) < PipeSize THEN Append(stdout, Head(queue)) ELSE stdout
    /\ UNCHANGED serverVars /\ UNCHANGED <<stdin, closed, work, childVars>>

\* worker_flush, the second thread.  Without a reader it tries for ever.
Flush ==
    /\ work.pc # "dead" /\ queue # <<>>
    /\ spc # "dead" /\ Len(stdout) < PipeSize
    /\ queue' = Tail(queue)
    /\ stdout' = Append(stdout, Head(queue))
    /\ UNCHANGED serverVars /\ UNCHANGED <<stdin, closed, work, childVars>>

-----------------------------------------------------------------------------
(* The server. *)

ServerUnchanged == UNCHANGED <<work, queue, childVars>>
Failed == {t \in Tasks : outcome[t] = "fail"}
Active == {t \in sent : outcome[t] = "none"}
Verdict == IF Failed # {} THEN "failed" ELSE "complete"
Over == state \in {"failed", "complete"}

\* What the workers dictionaries hold: they are emptied after the teardown.
NoWorkers == teardown /\ spc = "loop"

Send(m) == spc' = "write" /\ msg' = m

StartTask(t) ==
    /\ spc = "loop" /\ state = "running"
    /\ t \notin sent /\ 1..(t - 1) \subseteq sent
    /\ Send(<<"runtask", t>>)
    /\ UNCHANGED <<state, sent, outcome, seen, stopped, raised, teardown, result>>
    /\ UNCHANGED pipeVars /\ ServerUnchanged

\* flush() returns when the pipe has room.
Written ==
    /\ spc = "write" /\ work.pc # "dead" /\ Len(stdin) < PipeSize
    /\ stdin' = Append(stdin, msg)
    /\ sent' = IF msg[1] = "runtask" THEN sent \cup {msg[2]} ELSE sent
    /\ closed' = (msg[1] = "quit")
    /\ spc' = IF msg[1] = "quit" THEN "teardown" ELSE "loop"
    /\ msg' = <<>>
    /\ UNCHANGED <<state, outcome, seen, stopped, raised, teardown, result, stdout>>
    /\ ServerUnchanged

\* The pipe is broken.  Only for a task is this an error: it ends the build,
\* and the quit that follows fails as well.
WriteFails ==
    /\ spc = "write" /\ work.pc = "dead"
    /\ IF msg[1] = "runtask"
       THEN /\ stopped' = TRUE /\ raised' = TRUE /\ teardown' = TRUE
            /\ spc' = "teardown"
       ELSE /\ spc' = IF msg[1] = "quit" THEN "teardown" ELSE "loop"
            /\ UNCHANGED <<stopped, raised, teardown>>
    /\ msg' = <<>>
    /\ UNCHANGED <<state, sent, outcome, seen, result, pipeVars>>
    /\ ServerUnchanged

\* runQueuePipe.read: a worker that is gone without teardown ends the build
\* (finish_now, whose command nobody reads); then comes the next message.
ReadWorkers ==
    LET lost == work.pc = "dead" /\ ~teardown
        m == Head(stdout)
    IN  /\ \/ spc = "loop" /\ ~Over /\ ~raised /\ ~NoWorkers
           \/ spc = "teardown"
        /\ lost \/ stdout # <<>>
        /\ stopped' = (stopped \/ lost)
        /\ IF stdout = <<>>
           THEN UNCHANGED <<outcome, seen, stdout>>
           ELSE /\ stdout' = Tail(stdout)
                /\ outcome' = IF m[1] = "exit" THEN [outcome EXCEPT ![m[2]] = m[3]] ELSE outcome
                /\ seen' = IF m[1] = "event" THEN [seen EXCEPT ![m[2]] = @ + 1] ELSE seen
        /\ state' = IF stdout # <<>> /\ m[1] = "exit" /\ m[3] = "fail" /\ Halt THEN "cleanup"
                    ELSE IF lost THEN Verdict ELSE state
        /\ UNCHANGED <<spc, msg, sent, raised, teardown, result, stdin, closed>>
        /\ ServerUnchanged

\* finish_runqueue(False): the user, or the disk monitor's STOPTASKS.
Stop ==
    /\ spc = "loop" /\ state = "running"
    /\ state' = "cleanup"
    /\ UNCHANGED <<spc, msg, sent, outcome, seen, stopped, raised, teardown, result>>
    /\ UNCHANGED pipeVars /\ ServerUnchanged

\* finish_runqueue(True): the disk monitor's HALT.  (The user's second interrupt
\* takes the same steps, and ends in an exception instead of a verdict.)
StopNow ==
    /\ spc = "loop" /\ ~Over /\ ~raised /\ ~NoWorkers /\ ~stopped
    /\ state' = Verdict
    /\ stopped' = TRUE
    /\ Send(<<"finishnow">>)
    /\ UNCHANGED <<sent, outcome, seen, raised, teardown, result, pipeVars>>
    /\ ServerUnchanged

\* execute() finds nothing left to start and no task active.
AllDone ==
    /\ spc = "loop" /\ state = "running"
    /\ Active = {} /\ (sent = Tasks \/ Failed # {})
    /\ state' = Verdict
    /\ UNCHANGED <<spc, msg, sent, outcome, seen, stopped, raised, teardown, result>>
    /\ UNCHANGED pipeVars /\ ServerUnchanged

\* Faulty variant: it does not wait for what is active.
FinishAtOnce ==
    /\ spc = "loop" /\ state = "cleanup" /\ ~raised
    /\ state' = Verdict
    /\ UNCHANGED <<spc, msg, sent, outcome, seen, stopped, raised, teardown, result>>
    /\ UNCHANGED pipeVars /\ ServerUnchanged

\* finish().  Without workers it returns an empty list of files to wait for
\* while tasks are active, which the caller takes for the end of the build.
Finish ==
    /\ spc = "loop" /\ state = "cleanup" /\ ~raised
    /\ \/ Active = {} /\ state' = Verdict /\ UNCHANGED <<spc, result>>
       \/ Active # {} /\ NoWorkers /\ result' = "ok" /\ spc' = "done" /\ UNCHANGED state
    /\ UNCHANGED <<msg, sent, outcome, seen, stopped, raised, teardown>>
    /\ UNCHANGED pipeVars /\ ServerUnchanged

\* teardown_workers()
Teardown ==
    /\ spc = "loop" /\ (Over \/ raised) /\ ~teardown
    /\ teardown' = TRUE
    /\ Send(<<"quit">>)
    /\ UNCHANGED <<state, sent, outcome, seen, stopped, raised, result, pipeVars>>
    /\ ServerUnchanged

\* The worker is gone and its pipe is empty.
WorkerGone ==
    /\ spc = "teardown" /\ work.pc = "dead" /\ stdout = <<>>
    /\ spc' = "loop"
    /\ state' = IF raised THEN "complete" ELSE state
    /\ UNCHANGED <<msg, sent, outcome, seen, stopped, raised, teardown, result>>
    /\ UNCHANGED pipeVars /\ ServerUnchanged

\* The end of execute_runqueue(), whose caller takes no exception for success.
Report ==
    /\ NoWorkers /\ Over
    /\ spc' = "done"
    /\ result' = IF raised THEN "raised" ELSE IF state = "failed" THEN "failed" ELSE "ok"
    /\ UNCHANGED <<state, msg, sent, outcome, seen, stopped, raised, teardown>>
    /\ UNCHANGED pipeVars /\ ServerUnchanged

\* The server is killed.  (After the worker it would leave nothing behind.)
ServerDies ==
    /\ "server" \in Faults /\ spc \notin {"done", "dead"} /\ work.pc # "dead"
    /\ spc' = "dead" /\ closed' = TRUE
    /\ UNCHANGED <<state, msg, sent, outcome, seen, stopped, raised, teardown, result,
                   stdin, stdout>>
    /\ ServerUnchanged

\* Nothing more has to happen once the server has ended.
Ended == spc \in {"done", "dead"} /\ UNCHANGED vars

-----------------------------------------------------------------------------
Setup(t) == Tie(t) \/ Lead(t)
Work ==
    \/ Select \/ RunTask \/ ForkFails \/ FinishNow \/ Quit
    \/ Kill \/ KillsDone \/ Terminate \/ ReadPipes \/ ReapNone \/ Exit
    \/ \E t \in Tasks : Killed(t) \/ Reap(t)
Serve ==
    \/ \E t \in Tasks : StartTask(t)
    \/ Written \/ WriteFails \/ ReadWorkers \/ AllDone \/ Finish
    \/ Teardown \/ WorkerGone \/ Report

Next ==
    \/ Work \/ Flush \/ WorkerDies
    \/ Serve \/ Stop \/ StopNow \/ ServerDies
    \/ \E t \in Tasks :
          \/ Setup(t) \/ Emit(t) \/ Die(t)
          \/ \E code \in {"ok", "fail"} : End(t, code)
    \/ Ended

Spec == Init /\ [][Next]_vars

\* Both processes and both threads of the worker go on, a new process reaches
\* the task, and one that got SIGTERM ends.  No task has to end by itself.
FairSpec ==
    /\ Spec
    /\ WF_vars(Work) /\ WF_vars(Flush) /\ WF_vars(Serve)
    /\ \A t \in Tasks : WF_vars(Setup(t)) /\ WF_vars(Die(t))

-----------------------------------------------------------------------------
(* Properties *)

\* When the server acts on the end of a task, it has seen all the events the
\* task fired, among them the hash it turned out to have: they are written by
\* another process, through two pipes and a queue (process_waitpid).
EventsFirst == \A t \in Tasks : outcome[t] # "none" => seen[t] = emitted[t]

Count(s, t) == Cardinality({i \in DOMAIN s : s[i][1] = "exit" /\ s[i][2] = t})

\* The end of a task is reported at most once, and as it was, also when tasks
\* are killed, end by themselves and are waited for at the same time.
ReportedOnce ==
    \A t \in Tasks :
       /\ Count(queue, t) + Count(stdout, t) + (IF outcome[t] = "none" THEN 0 ELSE 1) <= 1
       /\ outcome[t] # "none" => child[t] = "reaped" /\ outcome[t] = exit[t]

\* If nobody stopped it and its worker did not die, a build that reports
\* success ran all that it started to a good end.
TrueSuccess ==
    result = "ok" /\ ~stopped => \A t \in sent : outcome[t] = "ok"

\* Server and worker do not wait for each other to read (the comment on the
\* worker's second thread): a command is written at last, unless the worker
\* could not fork and still writes, but reads no more.
CommandsWritten == spc = "write" ~> spc # "write" \/ work.pc = "exiting"

\* The worker quits while the server dies: its second thread tries to write to
\* the broken pipe for ever, and its tasks are left alone.
Spins == work.pc = "exiting" /\ queue # <<>> /\ spc = "dead"

\* A task that has got to run under its worker does not outlive the server's
\* teardown or death, however the worker ends.  (One that is being forked while
\* the worker is killed gets no signal.)
TasksStop ==
    \A t \in Tasks :
       closed /\ work.pc # "dead" /\ child[t] = "running" ~> ~Alive(t) \/ Spins

\* The end of a task is processed in the end, unless the build is stopped at
\* once or one of the processes died.
EndsReported ==
    \A t \in Tasks :
       child[t] = "ended" ~> outcome[t] # "none" \/ stopped \/ "dead" \in {spc, work.pc}
=============================================================================
