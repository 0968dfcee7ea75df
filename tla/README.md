# Verification of BitBake

`src/` is the Voltumna distribution: a set of OpenEmbedded layers together with
BitBake, the program that builds them. The layers are data. The behaviour worth
verifying is in BitBake (`src/bitbake`): a server process that schedules
thousands of tasks on worker processes, restores the results of earlier builds
where it can, changes its mind while tasks run when a hash turns out to be
equivalent to another, and shares lock files, downloads, PR numbers and hashes
with other builds. This directory holds TLA+ modules for parts of it, the TLC
instances that check them, and TLAPS proofs.

Paths below are relative to `src/bitbake/lib/bb` unless they say otherwise.

## Inventory

| component | state it keeps | operations | hard behaviours | here |
|---|---|---|---|---|
| lock files, `utils.py` 512-619 | a name, inodes, flocks | lockfile, lockfile_to_exclusive, unlockfile | races on a name whose file is unlinked, upgrades, crashes | `Lockfile` |
| run queue, execution, `runqueue.py` 1558-3400 | task sets (buildable, running, complete, tasksrun), setscene sets (covered, notcovered, deferred, live), hashes, stamps | execute, finish, finish_now, process_possible_migrations, the answers of workers | answers in any order, hashes that change under running tasks, failures, stops | `RunQueue`, `SceneQueue`, `TaskGraph`, `Build` |
| run queue, preparation, `runqueue.py` 180-1240 | the task graph | prepare, weights, loop detection | graph algorithms on large inputs | planned |
| PR service, `../prserv` | a table of (checksum, value) rows | get-pr, test-pr, test-package, max-package-pr, import-one | handlers that interleave at awaits, an upstream server that moves on | `Revision`, `PRServ` |
| `../../bin/bitbake-worker` and the pipes | processes, pipes, queued events | runtask, finishnow, quit, process_waitpid | tasks that end while they are killed, full pipes, the server or the worker dies | `Worker` |
| task execution and stamps, `build.py` | stamp files | make_stamp, del_stamp, exec_task | crashes between stamps, stamps under changed hashes | in part, in `RunQueue` |
| signatures, `siggen.py` | taskhash and unihash maps | get_taskhash, get_unihashes, report_unihash | stale caches | planned; hashes are model values |
| hash equivalence server, `../hashserv` | unihash and outhash tables, the backfill queue | get, report, report-equiv, backfill, removal, garbage collection | races of reports, handlers that await an upstream server | `HashEquiv` |
| hash equivalence streams, `../hashserv/client.py`, `asyncrpc` | a batch, buffers, connections | batch, reconnect and send again, upstream queue | lost connections with queries in flight, full buffers | `HashStream` |
| build server, `server/process.py`, `main.py` | sockets, the server's lock file, the idle thread | connect, start, leave, time out, exit | a client that connects while the server exits, two servers, two threads | `Server` |
| cooker and commands, `cooker.py`, `command.py` | cooker state, the current command | buildTargets, shutdown, reset | commands and interrupts against the idle thread | `Server`; shutdown of a build in `RunQueue` |
| fetcher, `fetch/__init__.py` | downloads, done stamps, lock files | download, try_mirrors, unpack, clean | several tasks on one download directory, kills, bad mirrors | `Fetch` |
| events, `event.py` | handlers, queued events | fire, register | clients that come and go | the end of a command, in `Server` |
| cache, parser, task data, data store, user interfaces, Toaster, layers, vendored code | | | | not modelled |

How they interact. The server process runs the cooker; the cooker's idle loop
calls `RunQueue.execute_runqueue` again and again until it reports the end of
the build. Each call reads what the workers wrote to their pipes (exit codes,
events, new hashes), may rework the setscene bookkeeping, and sends at most one
task of each kind to a worker. A worker forks a process per task; that process
runs the task's functions (which may take lock files, fetch, and ask the PR
service), writes the task's stamp and reports its hash to the hash equivalence
server, whose answer travels back as an event. Only stamps and restored objects
survive the end of the server.

What makes each correct:

* lock files: an exclusive holder is alone; nobody removes another's file; a
  caller that retries gets the lock in the end;
* run queue: a task starts when its inputs are there and not before, never twice
  at once, never together with a setscene task that writes the same output;
  a build ends, with a true verdict, and leaves nothing it should have built;
* PR service: no two outputs share a PR, a PR never goes backwards without
  history, and stays with its output with history; every request is answered;
* worker: each started task is reported once, after its events, or killed on
  request; no task outlives the build; nobody waits for ever;
* fetcher: a fetch that succeeds leaves the file the recipe's checksum is of, and
  what is unpacked stays put;
* hash equivalence: a report's answer stands, equivalent outputs get one unihash,
  and what is to be kept is kept;
* build server: a server that listens can be found, a command runs alone on a
  cooker that was reset, and a client that connected is served or told.

The hazards these are about are in `PROJECT.json` with their lines, those
without a property yet included.

## Modules

### Lockfile

One variable per thing the operating system keeps: the inode each process has
open (`fd`), its flock, the inode the name is bound to (`disk`); `pc` follows
the lines of `lockfile()` and `unlockfile()`. `Open` is `open(name, 'a+')`,
`Flock` the flock that is granted, `FlockWouldBlock` the one that is refused,
`Stat` the comparison of inodes, `Promote` and `PromotionFails` the attempt to
get the exclusive flock before the file is unlinked (a failed conversion loses
the shared flock), `Unlink` and `Drop` the rest of `unlockfile()`. `Crash` is the
death of a process at any line: the kernel closes its file, the name stays.
Inodes are reused once they have neither a name nor an open file. Errors of
`open` other than those of the file being replaced end the program and are left
out.

### TaskGraph, SceneQueue, RunQueue, Build

`TaskGraph` has the graph as constants and what `build_scenequeue_data`
computes from it once: which tasks a setscene task covers, its dependencies
among setscene tasks, and which tasks cannot be skipped. The code collapses the
graph step by step; the module says what it arrives at.

`SceneQueue` has the bookkeeping of setscene tasks as one record `q` and its
operations as functions from `q` to `q`, because the code calls them from each
other: `SqTaskComplete`, `SqTaskFail`, `SqTaskSkip`, `UpdateCounters`,
`UpdateSceneData`, `ReleaseDeferred`, and what a stamp says (`StampCurrent`,
`SceneStamped`). `SqTaskFail` fails a set of tasks: the code's calls one by one
reach the same sets, which only grow.

`RunQueue` is the server's loop. `pc` is the part of `execute_runqueue` it is
in; every variable is named for the attribute it stands for. A call goes through
`read` (the answers that are there), `migrate` (`process_possible_migrations`),
`scene` (start, skip or fail one setscene task), `holdoff`
(`update_holdofftasks` and the end of the setscene queue) and `tasks` (start,
skip or fail one task). `ExitMessage` and `UniHashMessage` are the messages of
workers. They are taken in the order they arrive in, at the two places where the
code reads pipes, so every order of answers and every number of answers per
call is checked. `Shutdown` and `ForceShutdown` are the user's. The options of
the build (`-k`, `-f`, `--setscene-only`, `--skip-setscene`, `BB_SETSCENE_ENFORCE`,
and whether the user interrupts it) are the variable `options`, chosen at the
start from the constant `CommandLines` and never changed. With `-f`,
`Invalidate` takes the stamps of the targets away, as a tainted hash does. `begun`
is a history of the `runQueueTaskStarted` events: `tasksrun`, like the code's set,
also holds tasks that were found built, and no guard reads `begun`.

`Build` is what a build promises, in a page: tasks start when all they depend on
is finished, none twice, and the verdict is true. `RunQueue` is shown to
implement it (`KeepsPromise`: `started` is `running`, `finished` is `complete`,
`verdict` is the state once the loop is done).

Abstractions:

* a hash is a value of `Hashes`; the new hash of a task whose inputs changed is
  any of them, which covers every answer of signatures and of the hash
  equivalence server; whether an object is in the cache is chosen too;
* the order in which setscene tasks are looked at and the scheduler's choice
  among buildable tasks are free; so are the limits by load, while something runs;
* a task writes its stamp in the step in which it ends well, under the hash it
  reported last;
* `stampcache` is left out: the models ask the disk each time;
* `Migrate` leaves the loop where the code finds a task that must run again,
  without the partial effects of that loop, which the stop then makes irrelevant;
* the death of a worker process, dry runs and signature dumps are left out;
  fakeroot workers differ in their pipe only.

### Revision, PRServ

`Revision` has PR values as sequences of numbers, with the comparison functions
of `prserv/__init__.py` and the queries of `prserv/db.py` over a set of rows.
The comparison of two values as strings in `_get_value` is modelled as such
(`Text`), and rows are read in the order of the primary key's index, which
matters because `revision_greater` is no order. `Lower` is the order the values
are meant to have, for properties.

`PRServ` has a handler per connection, cut at the awaits of `handle_get_pr`:
`known`, `testknown`, `package`, `testnew`, `newmax` are the questions it asks the
upstream server. `UpstreamAnswers` is the upstream server's handler,
`UpstreamServes` a client of its own. `Close` loses a connection at any point,
before or after the value is stored. `setup` (upstream or not, read-only or not,
the tables of earlier sessions) is chosen at the start. One version and pkgarch
is modelled: rows of others are never compared with these. `export` and `dump_db`
only read. The field `floor` of a handler is not in the code: it remembers the
highest answer when the request was made.

### Worker

The server's side of a worker (`spc`: it writes a command, reads the pipe, stops,
tears the worker down), the two pipes with room for `PipeSize` messages, the
worker's main thread (`work`: `select`, the items of the input, the
`process_waitpid` loop, `handle_finishnow`), its second thread (`Flush`), and the
processes of the tasks (`child`), from the fork to the wait for them. `Tie` and
`Lead` are the two things a child does before it is safe to kill: it asks for a
signal when its parent dies, and becomes leader of its own process group, which is
what `handle_finishnow` signals. `doomed` has the tasks with a signal on its way.
`Faults` says what may go wrong: a fork fails, the worker is killed, the server is
killed.

Abstractions: there is one worker and it is given whole messages; a message that
a death cuts off is dropped, which is what the readers do with it; setscene tasks
are tasks; a second interrupt is `StopNow`; processes that tasks start
themselves, and the reuse of process numbers, are left out; tasks are numbered in
the order they are started in.

### HashEquiv

The tables `unihashes` and `outhashes` of a server and of its upstream server as
one record each, and the queries of `sqlite.py` as operators on such a record,
with `INSERT OR IGNORE` and the marks of garbage collection. A connection is
cut where its handler awaits: the upstream server, or the backfill queue
(`join`). `Report` is `handle_report` up to `get_outhash`, `ReportResumes` the
rest; `Get`, `GetOuthash`, `GetStream` and what follows their awaits are the
queries; `WorkerTakes` and `WorkerInserts` are the backfill worker on either side
of its question; `RemoveAny`, `GcMark`, `GcSweep` and `CleanUnused` are an
administrator's. `Close` ends a connection in the middle of a handler, and
`ServerEnds` and `Restart` keep the tables and lose the queue.

There is one method. An sqlite statement is one step, as the code runs them one at
a time. `insert_outhash` always says that the row is new, as `sqlite.py` does.
`told` and `kept` serve the properties: what a report was answered, and the rows
that were inserted or marked since the mark was set. Users, read-only servers and
statistics are left out.

### HashStream

A batch of the client (`Batch` in `client.py`, with its `fill`, `send` and `recv`),
which is sent on a stream with buffers of `PipeSize`, to a server that
answers from its tables, or asks its upstream server on a stream of its own and
passes the answers on in order (`UpstreamQueue`). `Lose` is the end of the
connection: all that was on its way is lost, the client makes a new one
(`Connect`) and sends again what was not answered (`Resend`), as often as
`Retries` allows. `Locked` is `Batch.cond`, which `send` keeps while it sends again.
A caller that leaves a batch early, and retries of the change of mode that fail
themselves, are left out.

### Fetch

One file in `DL_DIR`, its done stamp (a checksum, or empty), which of the two is
younger, and its lock file with shared and exclusive holders. A task calls `download`,
`unpack` or `clean`; `pc` follows their lines, and `at` says which of its calls of
`verify_donestamp` or `update_stamp` it is in, because the code goes through the
same lines up to four times. `Truncate` and `Dump`, `Rename` and `Unstamp` are
separate steps, so that `Die` (a task is killed, the kernel frees its lock) comes
between them. `UpstreamFails` and `GetMirrorFails` clean up as the code does.
`Lockfile` has what the lock does; here it is granted when it is free.

A checksum is the content it stands for, every recipe has one, each list of
mirrors has one entry (of a web server or a directory), a link is its target, and
the temporary name wget loads into is left out.

### Server

Clients follow `setup_bitbake` (`main.py`): they take `bitbake.lock`, start a
server, or fail to get it and connect to the one that runs; then they send a
command, perhaps are interrupted, and wait for its end. A server has
two threads: the main loop (accept, register, disconnect, commands, timeout,
exit) and the idle thread, which runs the command. They meet in `cmd`, `funs` (the
idle functions) and `state` (the cooker's). The exit is followed to its end: the
socket's name is removed (`Leave`), the lock released (`Release`), taken once more
to look who has it (`Gone`). A connection is the pair of a client and its attempt.

The three steps of a client's connection are one, and so are the start of a server
and its binding of the socket; the kernel's backlog is not full; XML-RPC is left
out. `Tries` bounds how often a client tries; the code's retries are of that form.

## Runs

TLC checks deadlock where the system cannot stop: in `lockfile`, `rq_*` and
`worker`. Requests, calls, faults and attempts are bounded elsewhere, and there
the model stops when they are used up.

| run | instance | what it shows |
|---|---|---|
| `lockfile` | 2 processes, 2 inodes, fair | types; exclusive holders are alone; nobody unlinks another's file; of several callers one gets the lock |
| `rq_chain` | two recipes and an image on stamps of earlier builds; plain, `-f`, `--skip-setscene`, interrupts with and without `-k`, and without `-k` also `BB_SETSCENE_ENFORCE` and `--setscene-only`; fair | every build ends; after a complete build what was run is current and what was restored has a stamp; what is forced is begun and completed, not found built |
| `rq_twin` | one recipe in two multiconfigs, a dependency between setscene tasks; `-k` or not, `--skip-setscene` | order of tasks; the end comes when all workers have answered; the queue's own sanity checks; never both covered and notcovered; implements `Build` with deferred tasks |
| `rq_late` | hashes that change when one input of a package already runs | thread limit; no overlap of a setscene task and what it covers; what a running task needs was run, found built or restored, not merely held not to be needed; nothing restored is taken back |
| `prserv` | 2 connections, 3 outputs; 5 requests to a server on its own; 2 with an upstream server, imported rows, writable or read-only | one output per value; history is stable; without it values never decrease; new values are new |
| `worker` | 2 tasks with an event each, pipes for one message, each fault, fair | events before exit codes; one report; success is true when the worker lived and nobody stopped the build; a command is written at last; tasks end with the build; ends are reported |
| `hashequiv` | 2 connections, 2 task hashes, 2 outputs, with and without upstream server | a report's answer stands; equivalent outputs get one unihash; `backfill-wait`; a sweep keeps what was marked |
| `hashstream` | 5 queries, buffers for one message, one lost connection, with and without upstream server, fair | answers match; the batch ends |
| `fetch` | 2 tasks of recipes that agree or not, good and bad files, mirrors, one kill, fair | success means the right file; unpack is left in peace; every call ends |
| `server` | 2 clients, 2 servers, with and without a timeout, one fault, fair | a listening server has its socket; a fresh cooker, one command at a time; each client ends; no server stays |
| `prserv_ten`, `fetch_stamp` | see below | a disagreement of the code with its own words |

Bounds. The graphs have 4 to 7 tasks. They are chosen so that the cases meet:
a setscene task covers others, two tasks share a prerequisite, one is above a
running task, dependencies among setscene tasks, duplicates; two hash values
suffice because the code only compares a hash with the previous one. A build
is started with any of the `CommandLines` of its run, and with each choice of the
objects the cache has. `NumberTasks` is 2, so that two tasks overlap and a third
waits. The active counter may go below zero, as in the code, and is cut off at
-`NumberTasks`. Two processes are enough for each race of `Lockfile` (its
safety is proved for any number), and two inodes are as many as they can have
open. Two requests interleave at every await of two handlers, and the tables of
earlier sessions (`MCLocal`, `MCChained`) stand for longer histories;
without upstream, five requests let a value be overtaken twice. The number of
requests and `MaxUpstream` bound the values, which stay below 10 except in
`prserv_ten`. Pipes and buffers of one message make every wait for room happen;
two tasks are what it takes to kill one while the other ends. `Budgets` gives
clients three requests, and upstream one report of its own, or clients two and
upstream one, and an administrator two operations: a mark and a sweep with a
report around them. Five queries fill every buffer on the way there and back.
`CallsOf` lets one task call twice, so that what it left is found again, and
`MaxDeaths` and `MaxFaults` are 1: one kill at any step. Two servers are one that
ends and one that comes up.

Fairness. `Lockfile`: a process inside `lockfile` or `unlockfile` keeps
running, and holders unlock at last (`fileslocked` does so in a finally clause);
no process has to lock. `RunQueue`'s `FairSpec`: the server's loop goes on (weak;
the idle loop calls it until it is done) and a task that was started ends and is
reported (strong on each `ExitMessage`, because messages are read only at two
places of the loop, each read taking in all that is there). Whether tasks fail,
and what hashes they report, is not fair. `Worker`: each process and thread goes on
when it can; faults and interrupts are not fair, and a task that is not told to
stop need not end. `HashStream`: caller, sender, reader and the server's three
tasks each go on, and so does the upstream server, as their event loops run them;
connections need not be lost. `Fetch`: a task goes on while it can (weak); since its
calls are bounded, a lock is free for good at last. `Server`: each client, main loop and idle thread goes on;
a server with a timeout reaches it when it is idle; no other wait need time out.

Every run of `RunQueue` has setscene tasks. A build without any (`Setscene = {}`)
is covered by the definitions and by the proofs, but no instance has it.

### Faulty variants

A definition whose comment begins with "Faulty variant" is a wrong version of the
one that follows it: a dropped comparison, a missing guard, a set that is
updated too early. Nothing uses it. `PROJECT.json` ("mutants") pairs each
property of each passing run with a variant; put in the place of the right
definition, the variant makes TLC report that property as violated, so no
property holds by the shape of the model alone.

### Where the code and its own words disagree

Two runs look for a violation, and find one:

* `prserv_ten`: values are compared as strings, so 10 is not above 9.
* `fetch_stamp`: `update_stamp` only touches a stamp that exists. One task's failing
  download removes the file that another, since killed, had fetched, and leaves its
  stamp; the wrong file of a `file://` mirror is then linked and taken for good. The
  properties of `fetch` are therefore stated for mirrors on web servers.

Others were met while modelling. The models behave as the code does, and no run
is about them. Lock files, the run queue and its worker:

* `lockfile(retry=False, block=True)` returns None when the file was replaced
  between its open and its flock (`Missed`), though `block` is to wait until the
  lock succeeds (`utils.py` 523).
* A requeued setscene task with a current stamp is covered (`runqueue.py` 2751) and
  then failed by its hard dependency: in both sets, "a bug" says the comment (2179).
  And then a task may run without its inputs. Say `r` covers `c`, `c` needs `b`, and
  `r` is in both sets. `b` is held not to be needed, as all that needs it is covered
  (`runqueue.py` 2232), but `c`, which `r` is not restored for, runs. `InputsPresent`
  is therefore checked and proved where no setscene task names another.
* With `-k` and `BB_SETSCENE_ENFORCE`, a task that must not run is failed for ever
  (`runqueue.py` 2364).
* `sqdata.stamps` holds stamp names without `_setscene` and `build_stamps` names
  with it (`Candidates`), so setscene tasks of one stamp do run together, which
  the cache of names is to prevent (`runqueue.py` 2927).
* A setscene task that is covered keeps its hash when those it depends on change
  ("Already covered setscene ... ignoring rehash", `runqueue.py` 2633), while what it
  was made from may be built again. So the next build can find it out of date after
  one that was complete, and `NothingLeft` promises only that it has a stamp.
* A failed task whose exit code is read while the workers are torn down sets the
  state back to `CLEAN_UP` (2151); where nothing is left to wait for, the build
  then returns as if it were done without a failure.
* A worker that quits after its server died tries to write to the broken pipe for
  ever (`bitbake-worker` 128; `Spins`), and the rest of several commands that were
  read together is dropped at the end of the input (437).
* A task forked while its worker is being killed, before `prctl`, gets no signal.
* When a fork fails the worker exits, but only after its second thread has written
  all: a server that is blocked on writing a command waits with it.

The PR service and the hash equivalence server:

* The second request for a package that upstream does not know raises an exception
  (`prserv/serv.py` 108) instead of being answered by the local method (130).
* With an upstream server, an output that is new here and old upstream gets its
  old value (`NewTested`), also below one already given without history.
* Two requests that wait for upstream at the same time may both get
  `upstream_max.0` (`KnownTested`), "a new one" says the comment
  (`prserv/serv.py` 112).
* Of 1 and 1.0 each is `revision_greater` than the other (`GreaterOrEqual`),
  though its docstring says "strictly greater".
* Reports of one output under two task hashes that both wait for upstream get
  different unihashes, though the comment (`hashserv/server.py` 623) sets them
  "to the same unihash since they are equivalent".
* `insert_outhash` reports every row as new with sqlite (616), a query with `all`
  for a task that upstream does not know raises an exception (416), a query may be
  answered with upstream's unihash though another was stored meanwhile, and the age
  given to `clean-unused` is negated twice (774), so that rows of any age go, also
  one whose report still waits for upstream.
* An error of the backfill worker's connection ends the server (1018).
* Two administrators that collect garbage with marks of their own sweep each
  other's rows.

The fetcher:

* A failing download removes the good file that another task fetched while this
  one waited for the exclusive lock, since only the first check looked at it.
* For two recipes with different checksums for one name, the stamp of the one is
  touched for the other.
* A premirror on a web server with a bad file fails the fetch without a try of
  upstream, and a directory's own file is renamed when its checksum is wrong.
* `verify_donestamp` raises FileNotFoundError, which nobody catches, when the file is
  renamed by another holder of the shared lock between its two looks at it
  (`Vanished`).

The server:

* The end of a command is fired after the command is cleared (`command.py` 148); a
  client that is registered in between takes it for the end of its own.
* A `terminateServer` whose client has closed its connection may never be read
  (`process.py` 229), while the client says "Terminated bitbake server." (`main.py`
  518).
* `cooker.shutdown(True, idle=False)` has an argument that does not exist (340); the
  exception is dropped, and the notifiers are not stopped.
* The last loop over the lock file raises an exception when the file is empty (380).
* Of several connections that wait, the latest is served first (207).

A read-only PR server gives the same value to several new outputs, since it
stores none; the code says so (`prserv/serv.py` 147) and no property forbids it.

## Proofs

Eight modules of proofs, one per component. Each theorem is about the very `Spec`
and, where a run checks one, the very property of the component's module, for every
value of its constants: any number of tasks, processes, clients, requests, faults,
any task graph, any size of pipe. Hypotheses that go beyond the constants' own
assumptions are written in the theorem, and listed here. No property proved is
inductive by itself; what makes it so is named below.

| module | theorems | beyond the module's own assumptions |
|---|---|---|
| `LockfileProofs` | `TypeOK`, `MutualExclusion`, `UnlinksOwnFile` | none |
| `RunQueueProofs` | `DepsFirst`, `ThreadLimit` | none |
| | `SceneExclusive`, `InputsPresent`, `Disjoint`, `CoveredStays` | `NoHardDeps` |
| | `Drained`, `SanityHolds` | `NoHardDeps`; builds as stated in the theorem |
| | `ForcedRun` | `NoHardDeps`, `ForcedAlone` |
| | `KeepsPromise` | `NoHardDeps`, `WholeBuilds` |
| | `NothingLeft` | `NoHardDeps`, `NoDuplicates`, `Lasting` |
| `ServerProofs` | `SocketStands`, `OneAtATime`, `FreshCooker` | none |
| `FetchProofs` | `SuccessIsGood`, `UnpackStable` | none |
| `HashEquivProofs` | `ReportStands`, `Converged`, `WaitMeansLocal`, `SweepKeeps` | none |
| `HashStreamProofs` | `Answered` | none |
| `WorkerProofs` | `ReportedOnce`, `EventsFirst`, `TrueSuccess` | none |
| `PRServProofs` | `OneOutputPerValue`, `HistoryStable` | `OwnSetups` |
| | `NeverDecremented` | `OwnSetups`, values below ten |
| | `FreshIsNew` | `TwoTiers` |

### Lock files

The invariant adds where a process has a file open, where it may have a flock, that
two flocks on one inode are compatible, and that a process past the comparison of
inodes has the file of that name open, which is what makes exclusion on an inode
exclusion on the name.

### Run queue

`RunQueueProofs` goes from what concerns the tasks alone to the whole of a build.

1. `IInv`: the types of the task sets, that buildable tasks have all their inputs
   complete, `DepsFirst` and `ThreadLimit`. Of the record `q` it needs only
   `q.live`; the lemmas `...Live` say that the operations of `SceneQueue` leave it
   alone.
2. `Queues`: what the two queues know of each other. A task that started has no
   setscene task to come (`Started`); tasks that an unsettled setscene task stands
   for are held off, or `update_holdofftasks` is due before the next task is chosen
   (`HeldOff`); a setscene task runs alone (`OpenExclusive`); what is marked as
   covered is restored or not wanted (`Marked`); and a task that was passed over is
   restored, or all that stand for it are and none of them failed (`PassedOver`).
   A migration that would make such a task wanted again meets the halt in
   `process_possible_migrations` first. So what a running task needs was run or the
   setscene queue is done with it (`InputsMet`). The lemmas `...Moved` say what each
   operation may do to the settled tasks.
3. `Workers`: `active` counts exactly the tasks the workers run. So
   `BB_NUMBER_THREADS` bounds what runs, not only what is counted
   (`SpecWorkerLimit`).
4. `ForcedOpen`: with `-f`, a target is neither restored nor about to be, and has no
   stamp before it runs. So it is not skipped (`NotSkipped`), and has only started if
   it was begun (`ForcedBegun`). `Verdicts` and `SpecCompleteIsAll`: a complete build
   completed all tasks.
5. `Ledger`: how a build ends. Settled setscene tasks are processed, and all that
   only processed tasks depend on (`Processed`); a setscene task that only settled
   ones need is up for choice, and one that had its turn is settled or runs
   (`Sound`); a task that started is complete, failed or in a worker, and only one
   of these (`Accounts`); what `update_holdofftasks` left is up to date unless it
   is due (`UpToDate`); new hashes that wait belong to tasks that run (`Waiting`);
   a call looks for a setscene task, then for the end of their queue, then for a
   task (`Tried`). From it: when nothing runs and nothing can start, all setscene
   tasks are settled (`IdleSettled`: of those that are not, one at the top would
   have been chosen), no task is ready (`IdleNoneReady`), and without a failure all
   are complete (`IdleComplete`: otherwise one at the bottom would be ready).
   Neither sanity check then finds anything, which is `SanityHolds`, and it gives the
   ends of `KeepsPromise`: `Build` is refined step by step, from `Init` to the
   verdict.
6. `Unneeded` and `Picked`: the inputs of what runs. All that needs a setscene task
   that was held not to be needed is restored, and stays so (`CoveredKept`); a task that
   runs is wanted, by a setscene task that failed or since it cannot be skipped, and
   stays so because such a setscene task does not go back into the queue while what it
   stands for runs. So what a running task needs was not held not to be needed
   (`Inputs`), which is `InputsPresent`.
7. `Kept`: what a build leaves on disk. `NothingLeft` is far from inductive: stamps are
   written under a hash the task reported while it ran, and it is taken over
   later, together with new hashes for all below it. So the ages of stamps are taken
   for the hash a task *will* have (`Goal`). Then: what was run is well built
   (`WellBuilt`: it has that stamp, and each dependency of its own recipe has one that
   is not younger, or a newer one of its setscene task); what is covered has a
   stamp, or nothing that is built needs it (`Passed`). This holds through a change of
   hashes because a hash is only reported by a task that runs, once, with nothing
   below it started yet (`Reports`), workers have the current hash of what they run
   (`Sent`), and what was run is not covered (`Chosen`): what a migration gives new
   hashes and sends back (`Migration`, `MigratedTo`) was neither run nor restored. At
   the end no report is left (`AllTaken`), and `Goal` is the hash itself.

The recursive walks (`Exposed`, `DependOn`, `Unavailable`, `DoneFrom`) are steps on
subsets of a finite set that only add. `Spreading` and `Following` prove once that
such a walk ends, and where; the induction is over cardinalities, through the
library's `WFMin`, which needs no operator as a parameter. `Topmost` and `Lowest`
find an end of any set of tasks in an acyclic graph, and `Coverage` says that each
task cannot be skipped or has a setscene task that stands for it.

The hypotheses:

* `NoHardDeps`: no setscene task names another as its dependency (the `[depends]` of
  a setscene task, `runqueue.py` 3042-3069). Without it `SceneExclusive` can
  fail: a dependency that migrates back into the queue and fails takes along its
  dependent while that runs, which counts as settled from then on
  (`SpecOpenExclusive` is what remains); and so can `Disjoint` and `InputsPresent`, by
  the requeued task with a current stamp that is listed above under "Where the code and
  its own words disagree" (`SpecInputsMet` is what remains of the latter). The instance of `rq_twin` has such a dependency (`TwinHard`): on it TLC
  checks `Disjoint`, `Drained`, `SanityHolds` and `KeepsPromise` beyond the theorems.
  `rq_chain` and `rq_late` have none.
* `ForcedAlone`: no other task shares the stamps of a target, as a duplicate in
  another multiconfig does, and no target is a setscene task with nothing to execute.
  A duplicate's stamp makes its twin current, and then `-f` skips it.
* `NoDuplicates`: each task has stamps of its own, and no two setscene tasks share a
  recipe and task name, as they do in several multiconfigs. A duplicate that runs
  removes and writes the stamps of its twin.
* `Lasting`: of the tasks asked for, and those of the same recipe they depend on, none
  is `nostamp`. Such a task has no stamp to be current by. The instance of `rq_chain`
  satisfies these two and `NoHardDeps`.
* `WholeBuilds`: no `BB_SETSCENE_ENFORCE`, no interrupt, no `--setscene-only`. Each
  ends a build early on purpose: `Build` does not promise a verdict for those.
* `Drained` is stated for builds without interrupt (`finish_now` waits for nobody) and
  without `BB_SETSCENE_ENFORCE`, under which `task_fail` counts down a task that
  never started (`runqueue.py` 2126, 2362), so that the count falls below what runs.
  `SanityHolds` excludes the same setting, and `--setscene-only` for a build without
  setscene tasks: that one goes on to the sanity check with all its tasks left.

A migration waits while what the task stands for runs. Under `NoHardDeps` the ledger
shows that only failed tasks wait so (`Parked`) and that the halt in
`process_possible_migrations` is never reached (`MigrateLedger`): with `-k` no build
stops for it.

### Server

The socket is safe because of the lock: `LockHeld` says that a server has
`bitbake.lock` from its start until it releases it, and a client while it starts a
server or lets the lock go to try anew, so the one server that may bind or remove
the socket is the one that listens. `OneAtATime` needs `IdleAlone`: a main loop
that serves with no connection, and is not to quit, has an idle thread with
nothing to do, which holds because a command is only accepted over a connection
that is held, and a connection is only let go after the idle thread was waited
for, or with the decision to quit. `FreshCooker` (`FreshInv`) adds that a client makes
each connection once and a server takes its pipes once, so that the client a cooker
shuts down for is still the one it serves when it is reset. The assumption used is
that clients, servers and `NoOne` are different.

### Fetcher

`Inv` has the lock (`OnlyWriter`, and where a task holds it: `LockOK`, `AtOK`), and,
when all recipes agree on one checksum, three facts about the done stamp: once any
task has looked at it, it says what they all want; before that, one that is younger
than the file is of that file; so a file that is found wrong is wrong (`Stamped`).
`FromServers` says where the file is good, if no `file://` mirror has a bad one;
`fetch_stamp` shows why that is needed. Both conditions are part of the properties.

### Hash equivalence

Every change of the database is one of four kinds (it grows, it is marked, rows are
removed, it is swept), and each property depends only on the kind (`StepKind`).
`ReportStands` is inductive with them; `WaitMeansLocal` needs that what is queued,
counted and due at the call of `backfill-wait` agree (`Counted`, `Awaited`, `Due`);
`SweepKeeps` that every row that was inserted or marked carries the mark (`Marked`);
`Converged` that the first row of an output in time is the one whose unihash later
reports take (`Dated`, `Follows`).

In `HashStreamProofs`, what is answered, what is on its way and what is yet to send
are one run of numbers: each place between the two ends of the batch holds
consecutive queries and takes up where the place before it ends (`InFlight`,
`Waits`, `Ahead`). Between server and upstream server there are gaps, in order, for
the queries the server can answer itself (`Upstream`), so the query that
`process_results` awaits is the first of those.

### Worker

The argument counts. The events of a task that were processed, are in a pipe or in
the queue are those it fired, while its worker lives and from the moment its exit
code is queued; none is behind the exit code, of which there is one (`Flow`). Each task
is forked once, since one command for it is written (`Orders`, `Pids`), and a build
whose loop is over has heard of all it sent (`Verdicts`).

### PR service

The queries of `prserv/db.py` take a greatest or least row in the order of the index,
which compares values as strings. That such a fold over a finite set finds the
greatest, in whatever order it goes, is proved by induction over the number of rows
(`Parts`). The invariant (`Own`) says that an answer with history is the least value
of its output, that a new value is above all others, and that no two rows share one.
`OwnSetups` restricts the claim to servers without an upstream server, on tables of
single numbers: with one, the code gives two outputs one value (`KnownTested`), and
the properties do not claim otherwise. For `NeverDecremented` the values must stay
below ten (`Small`): from ten on it does not hold, which is what `prserv_ten`
shows.

With an upstream server the values made here have two numbers (`1.0`, `1.1`, below the
`1` of upstream), and `_revision_greater_or_equal` holds both ways between a value and
one that extends it: it is no order. `SpecFreshIsNew` therefore first proves how deep
values get (`Tiers`): if the upstream server has none itself (`TwoTiers`), its values
are single numbers, those of this server are one or two, and a handler that
waited for upstream looks for a subvalue of a single number. Below that number all
values compare by the second (`MaxAt`), so the fold over them finds the greatest and
`SubvalueNew` that the next one is new. The fold takes the first row in the order of the
index, so that order has to be one: texts of values of one or two numbers differ
where the values do (`TextsOfTwo`, `SameText`) and are totally ordered (`LexOrder`,
`TextTotal`). The theorem is about what the handler stores after its last
`await`, so nothing that others store before that can spoil it.

Deeper values are beyond this argument, and `find_new_subvalue` is not up to them
either: if three outputs, in the order of their checksums, have `1.2.6`, `1.2` and
`1.2.5`, it takes `1.2` for greater than `1.2.6`, then `1.2.5` for greater than `1.2`,
and returns `1.2.6` for a fourth.

### Only model-checked

Every safety invariant and action property of the passing runs is stated by a theorem.
What is left to TLC:

* Liveness, which is out of the prover's reach: `SomeCallerLocks` of `Lockfile`,
  `Terminates` of `RunQueue`, `CommandsWritten`, `TasksStop` and `EndsReported` of
  `Worker`, `Completes` of `HashStream`, `CallsEnd` of `Fetch`, `ClientsEnd` and
  `NoServerStays` of `Server`.
* What the hypotheses above leave out: `rq_twin` checks `Disjoint`, `Drained`,
  `SanityHolds` and `KeepsPromise` with a dependency between setscene tasks.

## Plan

In this order; all but the last four are done.

1. `Lockfile`, its proofs.
2. `TaskGraph`, `SceneQueue`, `RunQueue`, `Build`, the proofs of order and limit.
3. `Revision`, `PRServ`.
4. `Worker`.
5. `Fetch`.
6. `HashEquiv`, `HashStream`.
7. `Server`, and the proofs of all these modules.
8. `SceneGraph`: `build_scenequeue_data`'s step-by-step collapse against
   `TaskGraph`, and the weights and loop detection of `prepare`, over all small
   graphs.
9. `Stamps`: make_stamp and check_stamp_task with `stampcache`.
10. The parallel parser of the cooker, and event handlers of recipes.
11. Providers and task data as pure functions.

Theorems next: the properties of the run queue without `NoHardDeps`, as far as they
hold; `NothingLeft` with duplicates in several multiconfigs.

## Not modelled

Most of the repository is data: recipes, classes and configuration in a language
of their own, tests of them, and vendored code, where a state machine has
nothing to say. Of BitBake, the parser, the data store and the caches transform
text; the user interfaces and Toaster present; the individual fetch methods run
external programs. `PROJECT.json` has the reason for each component, and for
what is left out of those that are modelled in part.

## Running

    tlc -config Lockfile.cfg Lockfile
    tlc -config MCLate.cfg MCRunQueue
    tlapm --threads 2 --stretch 1.3 RunQueueProofs.tla
    tlapm ServerProofs.tla

Each `...Proofs.tla` is checked in the same way; `RunQueueProofs` takes some minutes.
