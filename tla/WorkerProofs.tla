---------------------------- MODULE WorkerProofs ----------------------------
(***************************************************************************)
(* Worker, for any number of tasks and events and pipes of any size: all   *)
(* events of a task are processed before its end, its end is reported at   *)
(* most once and as it was, and success is true.                           *)
(*                                                                         *)
(* The argument counts.  Of each task, the events that were processed, are *)
(* in a pipe or in the queue, make those it fired, as long as its worker   *)
(* lives, and from the moment its exit code is queued; no event of it is   *)
(* behind its exit code, of which there is one.  And a task is forked once *)
(* since one command for it is written, and its end is reported once.      *)
(***************************************************************************)
EXTENDS Worker, FiniteSetTheorems, WellFoundedInduction, TLAPS

-----------------------------------------------------------------------------

\* What the pipes may hold, and the states of a task's process.
Commands == ({"runtask"} \X Tasks) \cup {<<"finishnow">>, <<"quit">>}
Codes == {"ok", "fail"}
Messages == ({"event"} \X Tasks) \cup ({"exit"} \X Tasks \X Codes)
Lives == {"new", "forked", "tied", "running", "ended", "reaped"}

-----------------------------------------------------------------------------
(* Counting *)

\* Where in s an item of kind k about t is, and how many there are.
At(s, k, t) == {i \in DOMAIN s : s[i][1] = k /\ s[i][2] = t}
Num(s, k, t) == Cardinality(At(s, k, t))

\* No event of a task is behind its exit code.
Ordered(s) ==
    \A i, j \in DOMAIN s :
       s[i][1] = "event" /\ s[j][1] = "exit" /\ s[i][2] = s[j][2] => i < j

\* Exit codes in s are those the tasks ended with.
Truthful(s, codes) == \A i \in DOMAIN s : s[i][1] = "exit" => s[i][3] = codes[s[i][2]]

\* The worker has reported the end of t (process_waitpid).
Out(t) == \/ outcome[t] # "none"
          \/ Num(stdout, "exit", t) > 0
          \/ Num(queue, "exit", t) > 0

-----------------------------------------------------------------------------
(* The invariant *)

\* Types: of the worker and the commands, and of the rest.
Fields == {"pc", "next", "inbox", "pids", "left", "waiting", "eof"} \subseteq DOMAIN work
WorkShape ==
    /\ Fields
    /\ work.pids \in Seq(Tasks) /\ work.inbox \in Seq(Commands) /\ stdin \in Seq(Commands)
    /\ sent \subseteq Tasks /\ (spc = "write" => msg \in Commands)
FlowShape ==
    /\ stdout \in Seq(Messages) /\ queue \in Seq(Messages)
    /\ child \in [Tasks -> Lives]
    /\ exit \in [Tasks -> Codes \cup {"none"}] /\ outcome \in [Tasks -> Codes \cup {"none"}]
    /\ seen \in [Tasks -> Nat] /\ emitted \in [Tasks -> Nat] /\ piped \in [Tasks -> Nat]

\* One command to run a task is written, and it is forked once: there is none
\* under way when it is forked or before it is sent.
Orders ==
    /\ \A t \in Tasks :
          /\ Num(work.inbox, "runtask", t) + Num(stdin, "runtask", t) <= 1
          /\ child[t] # "new" \/ t \notin sent =>
                Num(work.inbox, "runtask", t) = 0 /\ Num(stdin, "runtask", t) = 0
          /\ t \notin sent => child[t] = "new"
    /\ spc = "write" /\ msg[1] = "runtask" => msg[2] \notin sent

\* The worker has a process exactly once until it has waited for it
\* (build_pids).
Held == {"forked", "tied", "running", "ended"}
Pids ==
    /\ \A i, j \in DOMAIN work.pids : work.pids[i] = work.pids[j] => i = j
    /\ \A i \in DOMAIN work.pids : child[work.pids[i]] # "new"
    /\ work.pc # "dead" =>
          \A t \in Tasks : child[t] \in Held => \E i \in DOMAIN work.pids : work.pids[i] = t

\* A task that ended has an exit code.
Ends == \A t \in Tasks : child[t] \in {"ended", "reaped"} => exit[t] \in Codes

\* Its end is reported once, after it was waited for and its pipe was read
\* to the end.
Once ==
    \A t \in Tasks :
       /\ Num(queue, "exit", t) + Num(stdout, "exit", t)
             + (IF outcome[t] = "none" THEN 0 ELSE 1) <= 1
       /\ Out(t) => child[t] = "reaped" /\ piped[t] = 0

\* The exit codes under way, and those processed, are those of the tasks.
AsItWas ==
    /\ Truthful(stdout, exit) /\ Truthful(queue, exit)
    /\ \A t \in Tasks : outcome[t] # "none" => outcome[t] = exit[t]

\* No event is behind the exit code of its task: neither in the pipe, nor in
\* the queue behind it, nor anywhere when the exit code was processed.
InOrder ==
    /\ Ordered(stdout) /\ Ordered(queue)
    /\ \A t \in Tasks :
          /\ outcome[t] # "none" => Num(stdout, "event", t) = 0
          /\ outcome[t] # "none" \/ Num(stdout, "exit", t) > 0 => Num(queue, "event", t) = 0

\* No event is lost or invented, while the worker lives; and never of a task
\* whose end was reported.
Complete ==
    \A t \in Tasks :
       work.pc # "dead" \/ Out(t) =>
          seen[t] + Num(stdout, "event", t) + Num(queue, "event", t) + piped[t] = emitted[t]
Flow == FlowShape /\ Ends /\ Once /\ AsItWas /\ InOrder /\ Complete

\* Unless the build was stopped: it is over only when all that was started
\* ended, well if it is complete, and no command to run a task is written then;
\* the teardown is after that.
Verdicts ==
    /\ spc = "teardown" \/ (spc = "write" /\ msg[1] = "quit") => teardown
    /\ result = "ok" => spc \notin {"loop", "write", "teardown"}
    /\ ~stopped =>
          /\ ~raised
          /\ teardown => Over
          /\ result = "ok" => state = "complete"
          /\ Over => /\ ~(spc = "write" /\ msg[1] = "runtask")
                     /\ \A t \in sent : outcome[t] # "none"
          /\ state = "complete" => \A t \in sent : outcome[t] = "ok"
Inv == WorkShape /\ Orders /\ Pids /\ Flow /\ Verdicts

-----------------------------------------------------------------------------
(* What steps do *)

\* What a step does to messages and processes: nothing, one process moves on,
\* its events are read, it is waited for, the worker ends, its second thread
\* writes a message, the server processes one.
FlowSame == UNCHANGED <<stdout, queue, outcome, seen, child, exit, emitted, piped>>
Moves(t) ==
    /\ UNCHANGED <<stdout, queue, outcome, seen>>
    /\ child[t] # "reaped"
    /\ \A u \in Tasks \ {t} : /\ child'[u] = child[u] /\ exit'[u] = exit[u]
                              /\ piped'[u] = piped[u] /\ emitted'[u] = emitted[u]
    /\ emitted'[t] + piped[t] = emitted[t] + piped'[t]
    /\ child'[t] \in {"ended", "reaped"} => exit'[t] \in Codes
    /\ child' \in [Tasks -> Lives] /\ exit' \in [Tasks -> Codes \cup {"none"}]
    /\ emitted' \in [Tasks -> Nat] /\ piped' \in [Tasks -> Nat]
Reads ==
    /\ work.pc # "dead" /\ Read(work.pids)
    /\ UNCHANGED <<stdout, outcome, seen, child, exit, emitted>>
Reaps(t) ==
    /\ work.pc # "dead" /\ child[t] = "ended"
    /\ child' = [child EXCEPT ![t] = "reaped"]
    /\ queue' = queue \o Events(t) \o <<<<"exit", t, exit[t]>>>>
    /\ piped' = [piped EXCEPT ![t] = 0]
    /\ UNCHANGED <<stdout, outcome, seen, exit, emitted>>
Cuts ==
    /\ queue' = <<>> /\ work'.pc = "dead"
    /\ UNCHANGED <<stdout, outcome, seen, child, exit, emitted, piped>>
Flushes ==
    /\ queue # <<>> /\ queue' = Tail(queue) /\ stdout' = Append(stdout, Head(queue))
    /\ UNCHANGED <<outcome, seen, child, exit, emitted, piped>>
Takes ==
    /\ stdout # <<>> /\ stdout' = Tail(stdout)
    /\ LET m == Head(stdout)
       IN  /\ outcome' = IF m[1] = "exit" THEN [outcome EXCEPT ![m[2]] = m[3]] ELSE outcome
           /\ seen' = IF m[1] = "event" THEN [seen EXCEPT ![m[2]] = @ + 1] ELSE seen
    /\ UNCHANGED <<queue, child, exit, emitted, piped>>

\* A worker that is gone stays so.
StaysDead == work.pc = "dead" => work'.pc = "dead"

\* The server neither starts a task nor writes a command that does.
Silent ==
    /\ sent' = sent
    /\ spc' = "write" => (spc = "write" /\ msg' = msg) \/ msg' \in {<<"finishnow">>, <<"quit">>}

\* What a step does to commands and processes: nothing, the server is about
\* to write one that runs a task, writes one, the worker reads them, forks,
\* handles another one, waits for a process, or ends.
WorkSame ==
    /\ Fields' /\ StaysDead /\ Silent
    /\ work'.inbox = work.inbox /\ work'.pids = work.pids /\ stdin' = stdin
    /\ \A t \in Tasks : /\ child'[t] = "new" <=> child[t] = "new"
                        /\ child'[t] \in Held => child[t] \in Held
Asks(t) ==
    /\ work' = work /\ stdin' = stdin /\ child' = child
    /\ sent' = sent /\ t \notin sent /\ msg' = <<"runtask", t>>
Gets ==
    /\ spc = "write" /\ spc' # "write" /\ stdin' = Append(stdin, msg)
    /\ sent' = IF msg[1] = "runtask" THEN sent \cup {msg[2]} ELSE sent
    /\ work' = work /\ child' = child
Collects ==
    /\ Fields' /\ StaysDead /\ Silent
    /\ work'.inbox = work.inbox \o stdin /\ stdin' = <<>>
    /\ work'.pids = work.pids /\ child' = child
Forks ==
    LET m == Head(work.inbox)
    IN  /\ Fields' /\ StaysDead /\ Silent
        /\ work.inbox # <<>> /\ m[1] = "runtask"
        /\ work'.inbox = Tail(work.inbox) /\ stdin' = stdin
        /\ work'.pids = Append(work.pids, m[2])
        /\ child' = [child EXCEPT ![m[2]] = "forked"]
Skips ==
    /\ Fields' /\ StaysDead /\ Silent
    /\ work.inbox # <<>> /\ Head(work.inbox)[1] # "runtask"
    /\ work'.inbox = Tail(work.inbox) /\ stdin' = stdin
    /\ work'.pids = work.pids /\ child' = child
Drops(t) ==
    /\ Fields' /\ StaysDead /\ Silent /\ work.pc # "dead"
    /\ work'.inbox = work.inbox /\ stdin' = stdin
    /\ work'.pids = Without(work.pids, t)
    /\ child[t] = "ended" /\ child' = [child EXCEPT ![t] = "reaped"]
Leaves ==
    /\ Fields' /\ Silent /\ work'.pc = "dead"
    /\ work'.inbox = <<>> /\ work'.pids = <<>> /\ stdin' = stdin /\ child' = child

-----------------------------------------------------------------------------
(* Lemmas: counting *)

\* Counts are numbers, of finite sets.
LEMMA NumIs ==
    ASSUME NEW S, NEW s \in Seq(S), NEW k, NEW t
    PROVE  /\ Num(s, k, t) \in Nat
           /\ IsFiniteSet(At(s, k, t))
           /\ Num(s, k, t) = 0 <=> \A i \in DOMAIN s : ~ (s[i][1] = k /\ s[i][2] = t)
<1> DEFINE I == {i \in DOMAIN s : s[i][1] = k /\ s[i][2] = t}
<1>1. IsFiniteSet(DOMAIN s)
  <2>1. Len(s) \in Nat /\ DOMAIN s = 1..Len(s)
    OBVIOUS
  <2> QED BY <2>1, FS_Interval
<1>2. IsFiniteSet(I)
  BY <1>1, FS_Subset
<1>3. Cardinality(I) \in Nat /\ (Cardinality(I) = 0 <=> I = {})
  BY <1>2, FS_CardinalityType, FS_EmptySet
<1> QED BY <1>2, <1>3 DEF Num, At

\* Of two sequences, the counts add up.
LEMMA NumCat ==
    ASSUME NEW S, NEW a \in Seq(S), NEW b \in Seq(S), NEW k, NEW t
    PROVE  Num(a \o b, k, t) = Num(a, k, t) + Num(b, k, t)
<1> DEFINE A == At(a, k, t)
           B == At(b, k, t)
           C == At(a \o b, k, t)
           D == {i + Len(a) : i \in B}
           shift == [i \in B |-> i + Len(a)]
<1>1. Len(a) \in Nat /\ Len(b) \in Nat /\ DOMAIN a = 1..Len(a) /\ DOMAIN b = 1..Len(b)
  OBVIOUS
<1>2. /\ DOMAIN (a \o b) = 1..(Len(a) + Len(b))
      /\ \A i \in 1..(Len(a) + Len(b)) :
            (a \o b)[i] = IF i <= Len(a) THEN a[i] ELSE b[i - Len(a)]
  OBVIOUS
<1>3. C = A \cup D
  <2>1. ASSUME NEW i \in C PROVE i \in A \cup D
    <3>1. CASE i <= Len(a)
      BY <1>1, <1>2, <3>1 DEF At
    <3>2. CASE ~(i <= Len(a))
      <4>1. i - Len(a) \in B
        BY <1>1, <1>2, <3>2 DEF At
      <4>2. i = (i - Len(a)) + Len(a)
        BY <1>1, <1>2 DEF At
      <4> QED BY <4>1, <4>2
    <3> QED BY <3>1, <3>2
  <2>2. A \subseteq C
    BY <1>1, <1>2 DEF At
  <2>3. ASSUME NEW i \in B PROVE i + Len(a) \in C
    BY <1>1, <1>2 DEF At
  <2> QED BY <2>1, <2>2, <2>3
<1>4. A \cap D = {}
  BY <1>1 DEF At
<1>5. IsFiniteSet(A) /\ IsFiniteSet(B)
  BY NumIs
<1>6. shift \in Bijection(B, D)
  <2>1. shift \in [B -> D]
    OBVIOUS
  <2>2. \A i, j \in B : shift[i] = shift[j] => i = j
    BY <1>1 DEF At
  <2>3. \A d \in D : \E i \in B : shift[i] = d
    OBVIOUS
  <2> QED BY <2>1, <2>2, <2>3, Zenon DEF Bijection, Injection, Surjection, IsInjective
<1>7. IsFiniteSet(D) /\ Cardinality(D) = Cardinality(B)
  <2>1. ExistsBijection(B, D)
    BY <1>6 DEF ExistsBijection
  <2> HIDE DEF A, B, C, D, shift
  <2> QED BY <1>5, <2>1, FS_Bijection
<1>8. Cardinality(A \cap D) = 0
  BY <1>4, FS_EmptySet
<1>9. Cardinality(C) = Cardinality(A) + Cardinality(B)
  <2> HIDE DEF A, B, C, D, shift
  <2>1. Cardinality(A) \in Nat /\ Cardinality(B) \in Nat
    BY <1>5, FS_CardinalityType
  <2>2. Cardinality(A \cup D) = Cardinality(A) + Cardinality(D) - Cardinality(A \cap D)
    BY <1>5, <1>7, FS_Union
  <2> QED BY <1>3, <1>7, <1>8, <2>1, <2>2
<1> QED BY <1>9 DEF Num

\* One item counts if it is what is counted.
LEMMA NumOne ==
    ASSUME NEW m, NEW k, NEW t
    PROVE  Num(<<m>>, k, t) = IF m[1] = k /\ m[2] = t THEN 1 ELSE 0
<1>1. At(<<m>>, k, t) = IF m[1] = k /\ m[2] = t THEN {1} ELSE {}
  BY DEF At
<1>2. Cardinality({1}) = 1 /\ Cardinality({}) = 0
  BY FS_Singleton, FS_EmptySet
<1> QED BY <1>1, <1>2 DEF Num

\* There is nothing in the empty sequence.
LEMMA NumEmpty ==
    ASSUME NEW k, NEW t
    PROVE  Num(<<>>, k, t) = 0
<1>1. At(<<>>, k, t) = {}
  BY DEF At
<1> QED BY <1>1, FS_EmptySet DEF Num

\* An item is added at the end,
LEMMA NumAppend ==
    ASSUME NEW S, NEW s \in Seq(S), NEW m \in S, NEW k, NEW t
    PROVE  /\ Num(Append(s, m), k, t) = Num(s, k, t) + (IF m[1] = k /\ m[2] = t THEN 1 ELSE 0)
           /\ Num(s, k, t) \in Nat
<1>1. Append(s, m) = s \o <<m>> /\ <<m>> \in Seq(S)
  OBVIOUS
<1>2. \A r \in Seq(S) : Num(s \o r, k, t) = Num(s, k, t) + Num(r, k, t)
  BY NumCat
<1>3. Num(<<m>>, k, t) = IF m[1] = k /\ m[2] = t THEN 1 ELSE 0
  BY NumOne
<1>4. Num(s, k, t) \in Nat
  BY NumIs
<1> QED BY <1>1, <1>2, <1>3, <1>4

\* or taken from the front.
LEMMA NumTail ==
    ASSUME NEW S, NEW s \in Seq(S), s # <<>>, NEW k, NEW t
    PROVE  /\ Tail(s) \in Seq(S) /\ Head(s) \in S
           /\ Num(s, k, t) = Num(Tail(s), k, t) + (IF Head(s)[1] = k /\ Head(s)[2] = t THEN 1 ELSE 0)
           /\ Num(Tail(s), k, t) \in Nat
<1>1. Tail(s) \in Seq(S) /\ Head(s) \in S /\ <<Head(s)>> \in Seq(S) /\ s = <<Head(s)>> \o Tail(s)
  OBVIOUS
<1>2. \A a, b \in Seq(S) : Num(a \o b, k, t) = Num(a, k, t) + Num(b, k, t)
  BY NumCat
<1>3. Num(Tail(s), k, t) \in Nat
  BY <1>1, NumIs
<1>4. Num(<<Head(s)>>, k, t) = IF Head(s)[1] = k /\ Head(s)[2] = t THEN 1 ELSE 0
  BY NumOne
<1>5. Num(s, k, t) = Num(<<Head(s)>>, k, t) + Num(Tail(s), k, t)
  BY <1>1, <1>2
<1> QED BY <1>1, <1>3, <1>4, <1>5


-----------------------------------------------------------------------------
(* Lemmas: what is in the pipes *)

\* A set of numbers has a least one: they are well-founded.
LEMMA Least ==
    ASSUME NEW T \in SUBSET Nat, T # {}
    PROVE  \E m \in T : \A k \in T : m <= k
<1>1. IsWellFoundedOn(OpToRel(<, Nat), Nat)
  BY NatLessThanWellFounded
<1>2. PICK m \in T : \A k \in T : ~ (<<k, m>> \in OpToRel(<, Nat))
  BY <1>1, WFMin
<1>3. \A k \in T : ~ (k < m)
  BY <1>2 DEF OpToRel
<1> QED BY <1>3

\* Induction over a set of numbers, which is all InPipes needs.
LEMMA Induction ==
    ASSUME NEW n \in Nat, NEW S, 0 \in S, \A i \in 0..(n - 1) : i \in S => i + 1 \in S
    PROVE  n \in S
<1> DEFINE T == {i \in 0..n : i \notin S}
<1> SUFFICES ASSUME T # {} PROVE FALSE
  OBVIOUS
<1>1. T \in SUBSET Nat
  OBVIOUS
<1>2. PICK m \in T : \A k \in T : m <= k
  BY <1>1, Least
<1> HIDE DEF T
<1>3. m \in Nat /\ m <= n /\ m \notin S /\ m # 0
  BY <1>2 DEF T
<1>4. m - 1 \in 0..(n - 1) /\ m - 1 \notin T
  BY <1>1, <1>2, <1>3
<1>5. m - 1 \in S
  BY <1>4 DEF T
<1> QED BY <1>3, <1>4, <1>5

\* f joins the events of the first m tasks in s, as upTo does in InPipes.
Joins(s, m, f) == f = [n \in 0..m |-> IF n = 0 THEN <<>> ELSE f[n - 1] \o Events(s[n])]

\* There is a function that joins the events step by step,
LEMMA Joined ==
    ASSUME NEW s, NEW k \in Nat
    PROVE  \E f : Joins(s, k, f)
<1> DEFINE S == {m \in 0..k : \E f : Joins(s, m, f)}
<1>1. 0 \in S
  <2>1. Joins(s, 0, [n \in 0..0 |-> <<>>])
    BY DEF Joins
  <2> QED BY <2>1
<1>2. ASSUME NEW m \in 0..(k - 1), m \in S PROVE m + 1 \in S
  <2>1. PICK f : Joins(s, m, f)
    BY <1>2
  <2> DEFINE g == [n \in 0..(m + 1) |-> IF n = m + 1 THEN f[m] \o Events(s[m + 1]) ELSE f[n]]
  <2>2. m \in Nat /\ m + 1 \in 0..k
    OBVIOUS
  <2>3. \A n \in 0..m : f[n] = IF n = 0 THEN <<>> ELSE f[n - 1] \o Events(s[n])
    BY <2>1 DEF Joins
  <2>4. \A n \in 0..m : g[n] = f[n]
    OBVIOUS
  <2>5. g[m + 1] = f[m] \o Events(s[m + 1])
    <3>1. \A n \in 0..(m + 1) : g[n] = IF n = m + 1 THEN f[m] \o Events(s[m + 1]) ELSE f[n]
      BY Zenon
    <3>2. m + 1 \in 0..(m + 1)
      BY <2>2
    <3> HIDE DEF g
    <3> QED BY <3>1, <3>2, Zenon
  <2>6. \A n \in 0..(m + 1) : g[n] = IF n = 0 THEN <<>> ELSE g[n - 1] \o Events(s[n])
    BY <2>3, <2>4, <2>5
  <2>7. Joins(s, m + 1, g)
    BY <2>6 DEF Joins
  <2> HIDE DEF g
  <2> QED BY <2>2, <2>7
<1> HIDE DEF S
<1>3. k \in S
  BY <1>1, <1>2, Induction
<1> QED BY <1>3 DEF S

\* and InPipes is its value at the end.
LEMMA InPipesIs ==
    ASSUME NEW s \in Seq(Tasks)
    PROVE  \E f : Joins(s, Len(s), f) /\ InPipes(s) = f[Len(s)]
<1> DEFINE h == CHOOSE f : Joins(s, Len(s), f)
<1>1. Joins(s, Len(s), h)
  <2>1. Len(s) \in Nat
    OBVIOUS
  <2>2. \E f : Joins(s, Len(s), f)
    BY <2>1, Joined
  <2> QED BY <2>2
<1>2. h = CHOOSE f : f = [n \in 0..Len(s) |-> IF n = 0 THEN <<>> ELSE f[n - 1] \o Events(s[n])]
  BY DEF Joins
<1>3. InPipes(s) = h[Len(s)]
  BY <1>2 DEF InPipes
<1> QED BY <1>1, <1>3

\* What is in the pipe of one task: its events, no exit code.
LEMMA EventsAre ==
    ASSUME NEW u \in Tasks, NEW t \in Tasks, piped \in [Tasks -> Nat]
    PROVE  /\ Events(u) \in Seq(Messages)
           /\ Num(Events(u), "exit", t) = 0
           /\ Num(Events(u), "event", t) = IF u = t THEN piped[u] ELSE 0
<1>1. piped[u] \in Nat
  OBVIOUS
<1>2. /\ Events(u) \in Seq({"event"} \X Tasks) /\ Len(Events(u)) = piped[u]
      /\ \A i \in DOMAIN Events(u) : Events(u)[i][1] = "event" /\ Events(u)[i][2] = u
  BY <1>1 DEF Events
<1>3. Events(u) \in Seq(Messages)
  BY <1>2 DEF Messages
<1>4. Num(Events(u), "exit", t) = 0
  <2>1. \A i \in DOMAIN Events(u) : ~ (Events(u)[i][1] = "exit" /\ Events(u)[i][2] = t)
    BY <1>2
  <2> QED BY <1>2, <2>1, NumIs
<1>5. Num(Events(u), "event", t) = IF u = t THEN piped[u] ELSE 0
  <2>1. At(Events(u), "event", t) = IF u = t THEN 1..piped[u] ELSE {}
    BY <1>1, <1>2 DEF At
  <2>2. Cardinality(1..piped[u]) = piped[u] /\ Cardinality({}) = 0
    BY <1>1, FS_Interval, FS_EmptySet
  <2> QED BY <2>1, <2>2 DEF Num
<1> QED BY <1>3, <1>4, <1>5

\* What is in the pipes of several (serve(), handle_finishnow).
LEMMA PipesAre ==
    ASSUME NEW s \in Seq(Tasks), piped \in [Tasks -> Nat],
           \A i, j \in DOMAIN s : s[i] = s[j] => i = j
    PROVE  /\ InPipes(s) \in Seq(Messages)
           /\ \A t \in Tasks :
                 /\ Num(InPipes(s), "exit", t) = 0
                 /\ Num(InPipes(s), "event", t) = IF \E i \in DOMAIN s : s[i] = t THEN piped[t] ELSE 0
<1>1. PICK f : Joins(s, Len(s), f) /\ InPipes(s) = f[Len(s)]
  BY InPipesIs
<1>2. PICK k \in Nat : k = Len(s) /\ DOMAIN s = 1..k
  OBVIOUS
<1>3. f[0] = <<>> /\ \A n \in 1..k : f[n] = f[n - 1] \o Events(s[n])
  <2>1. f = [n \in 0..k |-> IF n = 0 THEN <<>> ELSE f[n - 1] \o Events(s[n])]
    BY <1>1, <1>2, Zenon DEF Joins
  <2>2. \A n \in 0..k : f[n] = IF n = 0 THEN <<>> ELSE f[n - 1] \o Events(s[n])
    BY <2>1, Zenon
  <2>3. 0 \in 0..k /\ \A n \in 1..k : n \in 0..k /\ n # 0
    OBVIOUS
  <2> QED BY <2>2, <2>3, Zenon
<1> DEFINE Good(n) == /\ f[n] \in Seq(Messages)
                      /\ \A t \in Tasks :
                            /\ Num(f[n], "exit", t) = 0
                            /\ Num(f[n], "event", t) = IF \E i \in 1..n : s[i] = t THEN piped[t] ELSE 0
           S == {n \in 0..k : Good(n)}
<1>4. 0 \in S
  <2>1. Good(0)
    BY <1>3, NumEmpty
  <2> QED BY <2>1
<1>5. ASSUME NEW n \in 0..(k - 1), n \in S PROVE n + 1 \in S
  <2>1. Good(n) /\ n \in Nat /\ n + 1 \in 1..k /\ s[n + 1] \in Tasks
    BY <1>2, <1>5
  <2>2. f[n + 1] = f[n] \o Events(s[n + 1])
    <3>1. (n + 1) - 1 = n
      BY <2>1
    <3>2. f[n + 1] = f[(n + 1) - 1] \o Events(s[n + 1])
      BY <1>3, <2>1, Zenon
    <3> QED BY <3>1, <3>2
  <2>3. /\ Events(s[n + 1]) \in Seq(Messages)
        /\ \A t \in Tasks :
              /\ Num(Events(s[n + 1]), "exit", t) = 0
              /\ Num(Events(s[n + 1]), "event", t) = IF s[n + 1] = t THEN piped[s[n + 1]] ELSE 0
    BY <2>1, EventsAre
  <2>4. \A a, b \in Seq(Messages), x \in {"exit", "event"}, t \in Tasks :
           Num(a \o b, x, t) = Num(a, x, t) + Num(b, x, t)
    BY NumCat
  <2>5. f[n + 1] \in Seq(Messages)
    BY <2>1, <2>2, <2>3
  <2>6. ASSUME NEW t \in Tasks
        PROVE  /\ Num(f[n + 1], "exit", t) = 0
               /\ Num(f[n + 1], "event", t) = IF \E i \in 1..(n + 1) : s[i] = t THEN piped[t] ELSE 0
    <3>1. /\ Num(f[n + 1], "exit", t) = 0
          /\ Num(f[n + 1], "event", t) = Num(f[n], "event", t) + Num(Events(s[n + 1]), "event", t)
      BY <2>1, <2>2, <2>3, <2>4
    <3>2. piped[t] \in Nat
      OBVIOUS
    <3>3. CASE s[n + 1] = t
      <4>1. ~ \E i \in 1..n : s[i] = t
        BY <1>2, <2>1, <3>3
      <4>2. Num(f[n], "event", t) = 0
        BY <2>1, <4>1
      <4>3. Num(Events(s[n + 1]), "event", t) = piped[t]
        BY <2>3, <3>3
      <4>4. \E i \in 1..(n + 1) : s[i] = t
        BY <2>1, <3>3
      <4> QED BY <3>1, <3>2, <4>2, <4>3, <4>4
    <3>4. CASE s[n + 1] # t
      <4>1. (\E i \in 1..(n + 1) : s[i] = t) <=> \E i \in 1..n : s[i] = t
        BY <2>1, <3>4
      <4>2. Num(Events(s[n + 1]), "event", t) = 0
        BY <2>3, <3>4
      <4>3. Num(f[n], "event", t) = IF \E i \in 1..n : s[i] = t THEN piped[t] ELSE 0
        BY <2>1
      <4> QED BY <3>1, <3>2, <4>1, <4>2, <4>3
    <3> QED BY <3>3, <3>4
  <2> QED BY <2>1, <2>5, <2>6
<1>6. k \in S
  <2> HIDE DEF S
  <2> QED BY <1>4, <1>5, Induction
<1> QED BY <1>1, <1>2, <1>6

\* A task is taken out of the sequence, and nothing else.
LEMMA WithoutIs ==
    ASSUME NEW s \in Seq(Tasks), NEW t, \E i \in DOMAIN s : s[i] = t,
           \A i, j \in DOMAIN s : s[i] = s[j] => i = j
    PROVE  LET r == Without(s, t)
           IN  /\ r \in Seq(Tasks)
               /\ \A i, j \in DOMAIN r : r[i] = r[j] => i = j
               /\ \A i \in DOMAIN r : \E j \in DOMAIN s : r[i] = s[j]
               /\ \A j \in DOMAIN s : s[j] # t => \E i \in DOMAIN r : r[i] = s[j]
<1> DEFINE p == CHOOSE j \in DOMAIN s : s[j] = t
           r == Without(s, t)
<1>1. PICK k \in Nat : k = Len(s) /\ DOMAIN s = 1..k
  OBVIOUS
<1>2. p \in 1..k /\ s[p] = t
  BY <1>1
<1>3. r = [j \in 1..(k - 1) |-> IF j < p THEN s[j] ELSE s[j + 1]]
  BY <1>1 DEF Without
<1> HIDE DEF p, r
<1>4. DOMAIN r = 1..(k - 1) /\ \A i \in 1..(k - 1) : r[i] = IF i < p THEN s[i] ELSE s[i + 1]
  BY <1>3
<1>5. r \in Seq(Tasks)
  BY <1>1, <1>2, <1>3
<1>6. \A i, j \in DOMAIN r : r[i] = r[j] => i = j
  <2>1. SUFFICES ASSUME NEW i \in 1..(k - 1), NEW j \in 1..(k - 1), r[i] = r[j], i < j PROVE FALSE
    <3>1. \A i, j \in 1..(k - 1) : i = j \/ i < j \/ j < i
      OBVIOUS
    <3> QED BY <1>4, <3>1
  <2>2. i + 1 \in 1..k /\ j + 1 \in 1..k /\ i \in 1..k /\ j \in 1..k
    BY <1>1
  <2>3. CASE j < p
    <3>1. r[i] = s[i] /\ r[j] = s[j]
      BY <1>2, <1>4, <2>1, <2>3
    <3>2. i = j
      BY <1>1, <2>1, <2>2, <3>1
    <3> QED BY <2>1, <3>2
  <2>4. CASE i < p /\ ~ (j < p)
    <3>1. r[i] = s[i] /\ r[j] = s[j + 1]
      BY <1>4, <2>1, <2>4
    <3>2. i = j + 1
      BY <1>1, <2>1, <2>2, <3>1
    <3> QED BY <2>1, <3>2
  <2>5. CASE ~ (i < p)
    <3>1. r[i] = s[i + 1] /\ r[j] = s[j + 1]
      BY <1>2, <1>4, <2>1, <2>5
    <3>2. i + 1 = j + 1
      BY <1>1, <2>1, <2>2, <3>1
    <3> QED BY <2>1, <3>2
  <2> QED BY <1>2, <2>1, <2>3, <2>4, <2>5
<1>7. \A i \in DOMAIN r : \E j \in DOMAIN s : r[i] = s[j]
  BY <1>1, <1>2, <1>4
<1>8. ASSUME NEW j \in DOMAIN s, s[j] # t PROVE \E i \in DOMAIN r : r[i] = s[j]
  <2>1. CASE j < p
    BY <1>1, <1>2, <1>4, <2>1
  <2>2. CASE p < j
    <3>1. j - 1 \in DOMAIN r /\ r[j - 1] = s[j]
      BY <1>1, <1>2, <1>4, <2>2
    <3> QED BY <3>1
  <2> QED BY <1>1, <1>2, <1>8, <2>1, <2>2
<1> QED BY <1>5, <1>6, <1>7, <1>8 DEF r


-----------------------------------------------------------------------------
(* Lemmas: order and truth *)

\* What a message is.
LEMMA MessageIs ==
    ASSUME NEW m \in Messages
    PROVE  /\ m[1] \in {"event", "exit"} /\ m[2] \in Tasks
           /\ m[1] = "exit" => m[3] \in Codes
BY DEF Messages

\* Where the items of two sequences are when they are joined.
LEMMA CatIs ==
    ASSUME NEW S, NEW a \in Seq(S), NEW b \in Seq(S)
    PROVE  /\ a \o b \in Seq(S)
           /\ \A i \in DOMAIN (a \o b) :
                 \/ i \in DOMAIN a /\ (a \o b)[i] = a[i]
                 \/ i - Len(a) \in DOMAIN b /\ (a \o b)[i] = b[i - Len(a)]
           /\ \A i \in DOMAIN a, j \in DOMAIN b : i < j + Len(a)
           /\ Len(a) \in Nat
OBVIOUS

\* Where the items of the tail were.
LEMMA TailIs ==
    ASSUME NEW S, NEW s \in Seq(S), s # <<>>
    PROVE  /\ Tail(s) \in Seq(S) /\ Head(s) \in S
           /\ 1 \in DOMAIN s /\ s[1] = Head(s)
           /\ \A i \in DOMAIN Tail(s) : i \in Nat \ {0} /\ i + 1 \in DOMAIN s /\ Tail(s)[i] = s[i + 1]
OBVIOUS

\* Joining keeps the order, if no exit code in a is of an event in b.
LEMMA OrderedCat ==
    ASSUME NEW a \in Seq(Messages), NEW b \in Seq(Messages), Ordered(a), Ordered(b),
           \A t \in Tasks : Num(a, "exit", t) = 0 \/ Num(b, "event", t) = 0
    PROVE  Ordered(a \o b)
<1> DEFINE c == a \o b
<1> SUFFICES ASSUME NEW i \in DOMAIN c, NEW j \in DOMAIN c,
                    c[i][1] = "event", c[j][1] = "exit", c[i][2] = c[j][2]
             PROVE  i < j
  BY DEF Ordered
<1>1. /\ \A x \in DOMAIN c : \/ x \in DOMAIN a /\ c[x] = a[x]
                             \/ x - Len(a) \in DOMAIN b /\ c[x] = b[x - Len(a)]
      /\ \A x \in DOMAIN a, y \in DOMAIN b : x < y + Len(a)
      /\ Len(a) \in Nat /\ c \in Seq(Messages)
  BY CatIs
<1>2. i \in Nat /\ j \in Nat /\ c[i][2] \in Tasks
  <2>1. c[i] \in Messages
    BY <1>1
  <2> QED BY <1>1, <2>1, MessageIs
<1> HIDE DEF c
<1>3. CASE i \in DOMAIN a /\ c[i] = a[i] /\ j \in DOMAIN a /\ c[j] = a[j]
  BY <1>3 DEF Ordered
<1>4. CASE i - Len(a) \in DOMAIN b /\ c[i] = b[i - Len(a)] /\ j - Len(a) \in DOMAIN b /\ c[j] = b[j - Len(a)]
  <2>1. i - Len(a) < j - Len(a)
    BY <1>4 DEF Ordered
  <2> QED BY <1>1, <1>2, <2>1
<1>5. CASE i \in DOMAIN a /\ c[i] = a[i] /\ j - Len(a) \in DOMAIN b /\ c[j] = b[j - Len(a)]
  <2>1. i < (j - Len(a)) + Len(a)
    BY <1>1, <1>5
  <2> QED BY <1>1, <1>2, <2>1
<1>6. CASE i - Len(a) \in DOMAIN b /\ c[i] = b[i - Len(a)] /\ j \in DOMAIN a /\ c[j] = a[j]
  <2>1. Num(b, "event", c[i][2]) # 0
    BY <1>6, NumIs
  <2>2. Num(a, "exit", c[i][2]) # 0
    BY <1>6, NumIs
  <2> QED BY <1>2, <2>1, <2>2
<1> QED BY <1>1, <1>3, <1>4, <1>5, <1>6

\* So does taking the first, and nothing is behind an exit code.
LEMMA OrderedTail ==
    ASSUME NEW s \in Seq(Messages), s # <<>>, Ordered(s)
    PROVE  /\ Ordered(Tail(s))
           /\ Head(s)[1] = "exit" => Num(Tail(s), "event", Head(s)[2]) = 0
<1> DEFINE r == Tail(s)
<1>1. /\ r \in Seq(Messages) /\ 1 \in DOMAIN s /\ s[1] = Head(s)
      /\ \A i \in DOMAIN r : i \in Nat \ {0} /\ i + 1 \in DOMAIN s /\ r[i] = s[i + 1]
  BY TailIs
<1> HIDE DEF r
<1>2. Ordered(r)
  <2> SUFFICES ASSUME NEW i \in DOMAIN r, NEW j \in DOMAIN r,
                      r[i][1] = "event", r[j][1] = "exit", r[i][2] = r[j][2]
               PROVE  i < j
    BY DEF Ordered
  <2>1. i + 1 < j + 1
    BY <1>1 DEF Ordered
  <2> QED BY <1>1, <2>1
<1>3. ASSUME Head(s)[1] = "exit" PROVE Num(r, "event", Head(s)[2]) = 0
  <2>1. ASSUME NEW i \in DOMAIN r, r[i][1] = "event", r[i][2] = Head(s)[2] PROVE FALSE
    <3>1. i + 1 < 1
      BY <1>1, <1>3, <2>1 DEF Ordered
    <3> QED BY <1>1, <3>1
  <2>2. \A i \in DOMAIN r : ~ (r[i][1] = "event" /\ r[i][2] = Head(s)[2])
    BY <2>1
  <2> QED BY <1>1, <2>2, NumIs
<1> QED BY <1>2, <1>3 DEF r

\* One message is in order,
LEMMA OrderedOne ==
    ASSUME NEW m
    PROVE  Ordered(<<m>>)
BY DEF Ordered

\* and so is everything without an exit code.
LEMMA OrderedIfNoExit ==
    ASSUME NEW s \in Seq(Messages), \A t \in Tasks : Num(s, "exit", t) = 0
    PROVE  Ordered(s) /\ \A codes : Truthful(s, codes)
<1>1. ASSUME NEW i \in DOMAIN s, s[i][1] = "exit" PROVE FALSE
  <2>1. s[i][2] \in Tasks
    BY MessageIs
  <2>2. Num(s, "exit", s[i][2]) # 0
    BY <1>1, NumIs
  <2> QED BY <2>1, <2>2
<1> QED BY <1>1 DEF Ordered, Truthful

\* Joining and taking the first keep the exit codes true.
LEMMA TruthfulCat ==
    ASSUME NEW codes, NEW a \in Seq(Messages), NEW b \in Seq(Messages),
           Truthful(a, codes), Truthful(b, codes)
    PROVE  Truthful(a \o b, codes)
<1> DEFINE c == a \o b
<1>1. \A i \in DOMAIN c : \/ i \in DOMAIN a /\ c[i] = a[i]
                          \/ i - Len(a) \in DOMAIN b /\ c[i] = b[i - Len(a)]
  BY CatIs
<1> HIDE DEF c
<1>2. Truthful(c, codes)
  BY <1>1 DEF Truthful
<1> QED BY <1>2 DEF c

\* The same for taking the first.
LEMMA TruthfulTail ==
    ASSUME NEW codes, NEW s \in Seq(Messages), s # <<>>, Truthful(s, codes)
    PROVE  /\ Truthful(Tail(s), codes)
           /\ Head(s)[1] = "exit" => Head(s)[3] = codes[Head(s)[2]]
<1> DEFINE r == Tail(s)
<1>1. /\ 1 \in DOMAIN s /\ s[1] = Head(s)
      /\ \A i \in DOMAIN r : i + 1 \in DOMAIN s /\ r[i] = s[i + 1]
  BY TailIs
<1> HIDE DEF r
<1>2. Truthful(r, codes)
  BY <1>1 DEF Truthful
<1>3. Head(s)[1] = "exit" => Head(s)[3] = codes[Head(s)[2]]
  BY <1>1 DEF Truthful
<1> QED BY <1>2, <1>3 DEF r


-----------------------------------------------------------------------------
(* Messages, by what a step does to them *)

\* Arithmetic: as many events more as are in the pipe.
LEMMA Balance ==
    ASSUME NEW t, NEW x \in Nat, NEW y \in Nat,
           /\ seen[t] \in Nat /\ piped[t] \in Nat /\ emitted[t] \in Nat
           /\ piped'[t] \in Nat /\ emitted'[t] \in Nat,
           emitted'[t] + piped[t] = emitted[t] + piped'[t],
           seen[t] + x + y + piped[t] = emitted[t]
    PROVE  seen[t] + x + y + piped'[t] = emitted'[t]
OBVIOUS

\* Nothing happens to the messages.
LEMMA SameFlow ==
    ASSUME Flow, FlowSame, StaysDead
    PROVE  Flow'
BY DEF Flow, FlowSame, StaysDead, FlowShape, Ends, Once, AsItWas, InOrder, Complete,
   Out, Truthful

\* A process moves: it has not been waited for, so nothing was reported of it.
LEMMA MovesFlow ==
    ASSUME Flow, NEW t \in Tasks, Moves(t), StaysDead
    PROVE  Flow'
<1>1. stdout' = stdout /\ queue' = queue /\ outcome' = outcome /\ seen' = seen /\ ~ Out(t)
  BY DEF Flow, Once, Moves
<1>2. FlowShape'
  BY <1>1 DEF Flow, FlowShape, Moves
<1>3. Ends'
  BY DEF Flow, Ends, Moves
<1>4. \A u \in Tasks : Out(u)' = Out(u)
  BY <1>1 DEF Out
<1>5. Once'
  <2> SUFFICES ASSUME NEW u \in Tasks
               PROVE  /\ Num(queue, "exit", u) + Num(stdout, "exit", u)
                            + (IF outcome[u] = "none" THEN 0 ELSE 1) <= 1
                      /\ Out(u) => child'[u] = "reaped" /\ piped'[u] = 0
    BY <1>1, <1>4 DEF Once
  <2>1. Out(u) => u # t
    BY <1>1
  <2> QED BY <2>1 DEF Flow, Once, Moves
<1>6. AsItWas'
  <2>1. \A u \in Tasks : Out(u) => exit'[u] = exit[u]
    BY <1>1 DEF Moves
  <2>2. ASSUME NEW s \in {stdout, queue} PROVE Truthful(s, exit')
    <3> SUFFICES ASSUME NEW i \in DOMAIN s, s[i][1] = "exit" PROVE s[i][3] = exit'[s[i][2]]
      BY DEF Truthful
    <3>1. s \in Seq(Messages) /\ s[i][3] = exit[s[i][2]]
      BY DEF Flow, FlowShape, AsItWas, Truthful
    <3>2. s[i][2] \in Tasks
      BY <3>1, MessageIs
    <3>3. Num(s, "exit", s[i][2]) \in Nat \ {0}
      BY <3>1, NumIs
    <3>4. Num(s, "exit", s[i][2]) > 0
      BY <3>3
    <3>5. Out(s[i][2])
      BY <3>4 DEF Out
    <3> QED BY <2>1, <3>1, <3>2, <3>5
  <2>3. \A u \in Tasks : outcome[u] # "none" => outcome[u] = exit'[u]
    BY <2>1 DEF Flow, AsItWas, Out
  <2> QED BY <1>1, <2>2, <2>3 DEF AsItWas
<1>7. InOrder'
  BY <1>1 DEF Flow, InOrder
<1>8. Complete'
  <2> SUFFICES ASSUME NEW u \in Tasks, work.pc # "dead" \/ Out(u)
               PROVE  seen[u] + Num(stdout, "event", u) + Num(queue, "event", u) + piped'[u] = emitted'[u]
    BY <1>1, <1>4 DEF Complete, StaysDead
  <2>1. seen[u] + Num(stdout, "event", u) + Num(queue, "event", u) + piped[u] = emitted[u]
    BY DEF Flow, Complete
  <2>2. CASE u # t
    BY <2>1, <2>2 DEF Moves
  <2>3. CASE u = t
    <3>1. emitted'[t] + piped[t] = emitted[t] + piped'[t]
      BY DEF Moves
    <3>2. /\ Num(stdout, "event", t) \in Nat /\ Num(queue, "event", t) \in Nat
          /\ seen[t] \in Nat /\ piped[t] \in Nat /\ emitted[t] \in Nat
          /\ piped'[t] \in Nat /\ emitted'[t] \in Nat
      BY <1>2, NumIs DEF Flow, FlowShape
    <3>3. seen[t] + Num(stdout, "event", t) + Num(queue, "event", t) + piped[t] = emitted[t]
      BY <2>1, <2>3
    <3>4. seen[t] + Num(stdout, "event", t) + Num(queue, "event", t) + piped'[t] = emitted'[t]
      BY <3>1, <3>2, <3>3, Balance
    <3> QED BY <2>3, <3>4
  <2> QED BY <2>2, <2>3
<1> QED BY <1>2, <1>3, <1>5, <1>6, <1>7, <1>8 DEF Flow

\* The worker ends: what was reported is in the server's pipe, complete.
LEMMA CutsFlow ==
    ASSUME Flow, Cuts
    PROVE  Flow'
<1>1. /\ stdout' = stdout /\ queue' = <<>> /\ outcome' = outcome /\ seen' = seen /\ child' = child
      /\ exit' = exit /\ emitted' = emitted /\ piped' = piped /\ work'.pc = "dead"
  BY DEF Cuts
<1>2. FlowShape' /\ Ends'
  BY <1>1 DEF Flow, FlowShape, Ends
<1>3. \A k \in {"event", "exit"}, u \in Tasks : /\ Num(stdout, k, u) \in Nat /\ Num(queue, k, u) \in Nat
                                               /\ Num(queue', k, u) = 0
  BY <1>1, NumIs, NumEmpty DEF Flow, FlowShape
<1>4. \A u \in Tasks : Out(u)' => outcome[u] # "none" \/ Num(stdout, "exit", u) > 0
  BY <1>1, <1>3 DEF Out
<1>5. Once'
  BY <1>1, <1>3, <1>4 DEF Flow, Once, Out
<1>6. AsItWas'
  BY <1>1 DEF Flow, AsItWas, Truthful
<1>7. InOrder'
  BY <1>1, <1>3 DEF Flow, InOrder, Ordered
<1>8. Complete'
  <2> SUFFICES ASSUME NEW u \in Tasks, Out(u)'
               PROVE  seen[u] + Num(stdout, "event", u) + 0 + piped[u] = emitted[u]
    BY <1>1, <1>3 DEF Complete
  <2>1. Out(u) /\ Num(queue, "event", u) = 0
    BY <1>4 DEF Out, Flow, InOrder
  <2> QED BY <2>1 DEF Flow, Complete
<1> QED BY <1>2, <1>5, <1>6, <1>7, <1>8 DEF Flow

\* A message goes from the queue to the pipe, in order.
LEMMA FlushesFlow ==
    ASSUME Flow, Flushes, StaysDead
    PROVE  Flow'
<1> DEFINE m == Head(queue)
<1>1. /\ queue # <<>> /\ queue' = Tail(queue) /\ stdout' = Append(stdout, m)
      /\ outcome' = outcome /\ seen' = seen /\ child' = child
      /\ exit' = exit /\ emitted' = emitted /\ piped' = piped
  BY DEF Flushes
<1>2. /\ stdout \in Seq(Messages) /\ queue \in Seq(Messages)
      /\ m \in Messages /\ queue' \in Seq(Messages) /\ stdout' \in Seq(Messages)
      /\ <<m>> \in Seq(Messages) /\ stdout' = stdout \o <<m>>
  BY <1>1 DEF Flow, FlowShape
<1> HIDE DEF m
<1>3. FlowShape' /\ Ends'
  BY <1>1, <1>2 DEF Flow, FlowShape, Ends
<1>4. \A k \in {"event", "exit"}, u \in Tasks :
         /\ Num(stdout, k, u) \in Nat /\ Num(queue', k, u) \in Nat
         /\ Num(queue, k, u) = Num(queue', k, u) + (IF m[1] = k /\ m[2] = u THEN 1 ELSE 0)
         /\ Num(stdout', k, u) = Num(stdout, k, u) + (IF m[1] = k /\ m[2] = u THEN 1 ELSE 0)
  <2> SUFFICES ASSUME NEW k \in {"event", "exit"}, NEW u \in Tasks
               PROVE  /\ Num(stdout, k, u) \in Nat /\ Num(Tail(queue), k, u) \in Nat
                      /\ Num(queue, k, u) = Num(Tail(queue), k, u)
                                              + (IF m[1] = k /\ m[2] = u THEN 1 ELSE 0)
                      /\ Num(Append(stdout, m), k, u) = Num(stdout, k, u)
                                              + (IF m[1] = k /\ m[2] = u THEN 1 ELSE 0)
    BY <1>1
  <2>1. Num(queue, k, u) = Num(Tail(queue), k, u) + (IF m[1] = k /\ m[2] = u THEN 1 ELSE 0)
    BY <1>1, <1>2, NumTail DEF m
  <2>2. Num(Tail(queue), k, u) \in Nat
    BY <1>1, <1>2, NumTail
  <2>3. /\ Num(Append(stdout, m), k, u) = Num(stdout, k, u) + (IF m[1] = k /\ m[2] = u THEN 1 ELSE 0)
        /\ Num(stdout, k, u) \in Nat
    BY <1>2, NumAppend
  <2> QED BY <2>1, <2>2, <2>3
<1>5. \A u \in Tasks : /\ Num(queue', "exit", u) + Num(stdout', "exit", u)
                             = Num(queue, "exit", u) + Num(stdout, "exit", u)
                       /\ Num(stdout', "event", u) + Num(queue', "event", u)
                             = Num(stdout, "event", u) + Num(queue, "event", u)
                       /\ Num(queue, "exit", u) \in Nat /\ Num(stdout', "exit", u) \in Nat
                       /\ Num(queue, "event", u) \in Nat /\ Num(stdout', "event", u) \in Nat
  BY <1>4
<1>6. \A u \in Tasks : Out(u)' = Out(u)
  BY <1>1, <1>4, <1>5 DEF Out
<1>7. Once'
  <2> SUFFICES ASSUME NEW u \in Tasks
               PROVE  /\ Num(queue', "exit", u) + Num(stdout', "exit", u)
                            + (IF outcome[u] = "none" THEN 0 ELSE 1) <= 1
                      /\ Out(u) => child[u] = "reaped" /\ piped[u] = 0
    BY <1>1, <1>6 DEF Once
  <2> QED BY <1>5 DEF Flow, Once
<1>8. AsItWas'
  <2>1. Truthful(Tail(queue), exit) /\ (m[1] = "exit" => m[3] = exit[m[2]])
    BY <1>1, <1>2, TruthfulTail DEF m, Flow, AsItWas
  <2>2. Truthful(<<m>>, exit)
    BY <2>1 DEF Truthful
  <2>3. Truthful(stdout \o <<m>>, exit)
    BY <1>2, <2>2, TruthfulCat DEF Flow, AsItWas
  <2> QED BY <1>1, <1>2, <2>1, <2>3 DEF Flow, AsItWas
<1>9. InOrder'
  <2>1. Ordered(Tail(queue)) /\ (m[1] = "exit" => Num(Tail(queue), "event", m[2]) = 0)
    BY <1>1, <1>2, OrderedTail DEF m, Flow, InOrder
  <2>2. m[2] \in Tasks
    BY <1>2, MessageIs
  <2>3. ASSUME NEW u \in Tasks PROVE Num(stdout, "exit", u) = 0 \/ Num(<<m>>, "event", u) = 0
    <3>1. Num(<<m>>, "event", u) = IF m[1] = "event" /\ m[2] = u THEN 1 ELSE 0
      BY NumOne
    <3> QED BY <1>4, <3>1 DEF Flow, InOrder
  <2>4. Ordered(stdout \o <<m>>)
    BY <1>2, <2>3, OrderedOne, OrderedCat DEF Flow, InOrder
  <2>5. ASSUME NEW u \in Tasks, outcome[u] # "none" PROVE Num(stdout', "event", u) = 0
    BY <1>4, <2>5 DEF Flow, InOrder
  <2>6. ASSUME NEW u \in Tasks, outcome[u] # "none" \/ Num(stdout', "exit", u) > 0
        PROVE  Num(queue', "event", u) = 0
    <3>1. CASE m[1] = "exit" /\ m[2] = u
      BY <1>1, <2>1, <3>1
    <3>2. CASE ~ (m[1] = "exit" /\ m[2] = u)
      BY <1>4, <2>6, <3>2 DEF Flow, InOrder
    <3> QED BY <3>1, <3>2
  <2> QED BY <1>1, <1>2, <2>1, <2>4, <2>5, <2>6 DEF InOrder
<1>10. Complete'
  <2> SUFFICES ASSUME NEW u \in Tasks, work.pc # "dead" \/ Out(u)
               PROVE  seen[u] + Num(stdout', "event", u) + Num(queue', "event", u) + piped[u] = emitted[u]
    BY <1>1, <1>6 DEF Complete, StaysDead
  <2>1. seen[u] + Num(stdout, "event", u) + Num(queue, "event", u) + piped[u] = emitted[u]
    BY DEF Flow, Complete
  <2>2. seen[u] \in Nat /\ piped[u] \in Nat
    BY DEF Flow, FlowShape
  <2> QED BY <1>4, <1>5, <2>1, <2>2
<1> QED BY <1>3, <1>7, <1>8, <1>9, <1>10 DEF Flow

\* Messages are queued: events that leave the pipes, exit codes of tasks of
\* which nothing was reported.
LEMMA AddsFlow ==
    ASSUME Flow, NEW r \in Seq(Messages), queue' = queue \o r, Ordered(r), Truthful(r, exit),
           work.pc # "dead", UNCHANGED <<stdout, outcome, seen, exit, emitted>>,
           FlowShape', \A u \in Tasks : child'[u] \in {"ended", "reaped"} => exit[u] \in Codes,
           \A u \in Tasks :
              /\ Num(r, "event", u) + piped'[u] = piped[u]
              /\ Out(u) => Num(r, "exit", u) = 0 /\ child'[u] = "reaped"
              /\ ~ Out(u) => \/ Num(r, "exit", u) = 0
                             \/ Num(r, "exit", u) = 1 /\ child'[u] = "reaped" /\ piped'[u] = 0
    PROVE  Flow'
<1>1. stdout' = stdout /\ outcome' = outcome /\ seen' = seen /\ exit' = exit /\ emitted' = emitted
  OBVIOUS
<1>2. stdout \in Seq(Messages) /\ queue \in Seq(Messages)
  BY DEF Flow, FlowShape
<1>3. \A k \in {"event", "exit"}, u \in Tasks :
         /\ Num(stdout, k, u) \in Nat /\ Num(queue, k, u) \in Nat /\ Num(r, k, u) \in Nat
         /\ Num(queue', k, u) = Num(queue, k, u) + Num(r, k, u)
  BY <1>2, NumIs, NumCat
<1>4. \A u \in Tasks : seen[u] \in Nat /\ emitted[u] \in Nat /\ piped[u] \in Nat /\ piped'[u] \in Nat
  BY <1>1 DEF Flow, FlowShape
<1>5. \A u \in Tasks : Out(u)' => Out(u) \/ Num(r, "exit", u) = 1
  BY <1>1, <1>3 DEF Out
<1>6. \A u \in Tasks : Out(u) => Num(r, "event", u) = 0 /\ piped'[u] = 0
  <2> SUFFICES ASSUME NEW u \in Tasks, Out(u) PROVE Num(r, "event", u) = 0 /\ piped'[u] = 0
    OBVIOUS
  <2>1. piped[u] = 0 /\ Num(r, "event", u) \in Nat /\ piped'[u] \in Nat /\ Num(r, "event", u) + piped'[u] = piped[u]
    BY <1>3, <1>4 DEF Flow, Once
  <2> QED BY <2>1
<1>7. Once'
  <2> SUFFICES ASSUME NEW u \in Tasks
               PROVE  /\ Num(queue', "exit", u) + Num(stdout, "exit", u)
                            + (IF outcome[u] = "none" THEN 0 ELSE 1) <= 1
                      /\ Out(u)' => child'[u] = "reaped" /\ piped'[u] = 0
    BY <1>1 DEF Once
  <2>1. Num(queue, "exit", u) + Num(stdout, "exit", u) + (IF outcome[u] = "none" THEN 0 ELSE 1) <= 1
    BY DEF Flow, Once
  <2>2. CASE Out(u)
    BY <1>3, <1>6, <2>1, <2>2
  <2>3. CASE ~ Out(u)
    <3>1. Num(queue, "exit", u) = 0 /\ Num(stdout, "exit", u) = 0 /\ outcome[u] = "none"
      BY <1>3, <2>3 DEF Out
    <3> QED BY <1>3, <1>5, <2>3, <3>1
  <2> QED BY <2>2, <2>3
<1>8. AsItWas'
  <2>1. Truthful(queue \o r, exit)
    BY <1>2, TruthfulCat DEF Flow, AsItWas
  <2> QED BY <1>1, <2>1 DEF Flow, AsItWas
<1>9. InOrder'
  <2>1. \A u \in Tasks : Num(queue, "exit", u) = 0 \/ Num(r, "event", u) = 0
    BY <1>3, <1>6 DEF Out
  <2>2. Ordered(queue \o r)
    BY <1>2, <2>1, OrderedCat DEF Flow, InOrder
  <2>3. ASSUME NEW u \in Tasks, outcome[u] # "none" \/ Num(stdout, "exit", u) > 0
        PROVE  Num(queue', "event", u) = 0
    <3>1. Num(queue, "event", u) = 0
      BY <2>3 DEF Flow, InOrder
    <3>2. Out(u)
      BY <2>3 DEF Out
    <3> QED BY <1>3, <1>6, <3>1, <3>2
  <2> QED BY <1>1, <2>2, <2>3 DEF Flow, InOrder
<1>10. Complete'
  <2> SUFFICES ASSUME NEW u \in Tasks
               PROVE  seen[u] + Num(stdout, "event", u) + Num(queue', "event", u) + piped'[u] = emitted[u]
    BY <1>1 DEF Complete
  <2>1. seen[u] + Num(stdout, "event", u) + Num(queue, "event", u) + piped[u] = emitted[u]
    BY DEF Flow, Complete
  <2>2. Num(r, "event", u) + piped'[u] = piped[u]
    OBVIOUS
  <2>3. seen[u] + Num(stdout, "event", u) + (Num(queue, "event", u) + Num(r, "event", u)) + piped'[u]
           = emitted[u]
    BY <1>3, <1>4, <2>1, <2>2, SMTT(60)
  <2> QED BY <1>3, <2>3
<1>11. Ends'
  BY <1>1 DEF Ends
<1> QED BY <1>7, <1>8, <1>9, <1>10, <1>11 DEF Flow

\* The pipes of all processes are read.
LEMMA ReadsFlow ==
    ASSUME Flow, Reads, WorkShape, Pids
    PROVE  Flow'
<1> DEFINE r == InPipes(work.pids)
<1>1. /\ queue' = queue \o r /\ stdout' = stdout /\ outcome' = outcome /\ seen' = seen /\ exit' = exit
      /\ emitted' = emitted /\ child' = child /\ work.pc # "dead"
      /\ piped' = [t \in Tasks |-> IF \E i \in DOMAIN work.pids : work.pids[i] = t THEN 0 ELSE piped[t]]
  BY DEF Reads, Read
<1>2. /\ work.pids \in Seq(Tasks) /\ piped \in [Tasks -> Nat] /\ queue \in Seq(Messages)
      /\ \A i, j \in DOMAIN work.pids : work.pids[i] = work.pids[j] => i = j
  BY DEF WorkShape, Flow, FlowShape, Pids
<1>3. /\ r \in Seq(Messages)
      /\ \A u \in Tasks :
            /\ Num(r, "exit", u) = 0
            /\ Num(r, "event", u) = IF \E i \in DOMAIN work.pids : work.pids[i] = u THEN piped[u] ELSE 0
  BY <1>2, PipesAre
<1> HIDE DEF r
<1>4. Ordered(r) /\ Truthful(r, exit)
  <2>1. \A t \in Tasks : Num(r, "exit", t) = 0
    BY <1>3
  <2> QED BY <1>3, <2>1, OrderedIfNoExit
<1>5. ASSUME NEW u \in Tasks PROVE Num(r, "event", u) + piped'[u] = piped[u]
  <2>1. piped[u] \in Nat /\ piped'[u] = IF \E i \in DOMAIN work.pids : work.pids[i] = u THEN 0 ELSE piped[u]
    BY <1>1, <1>2
  <2>2. Num(r, "event", u) = IF \E i \in DOMAIN work.pids : work.pids[i] = u THEN piped[u] ELSE 0
    BY <1>3
  <2> QED BY <2>1, <2>2
<1>6. FlowShape'
  BY <1>1, <1>2, <1>3 DEF Flow, FlowShape
<1>7. \A u \in Tasks : child'[u] \in {"ended", "reaped"} => exit[u] \in Codes
  BY <1>1 DEF Flow, Ends
<1>8. \A u \in Tasks : Out(u) => child'[u] = "reaped"
  BY <1>1 DEF Flow, Once
<1> QED BY <1>1, <1>3, <1>4, <1>5, <1>6, <1>7, <1>8, AddsFlow

\* A process is waited for: its pipe is read to its end, then comes its code.
LEMMA ReapsFlow ==
    ASSUME Flow, NEW t \in Tasks, Reaps(t)
    PROVE  Flow'
<1> DEFINE x == <<"exit", t, exit[t]>>
           r == Events(t) \o <<x>>
<1>1. /\ queue' = queue \o Events(t) \o <<x>> /\ stdout' = stdout /\ outcome' = outcome /\ seen' = seen
      /\ exit' = exit /\ emitted' = emitted /\ child' = [child EXCEPT ![t] = "reaped"] /\ child[t] = "ended"
      /\ work.pc # "dead" /\ piped' = [piped EXCEPT ![t] = 0]
  BY DEF Reaps
<1>2. /\ piped \in [Tasks -> Nat] /\ queue \in Seq(Messages) /\ child \in [Tasks -> Lives]
      /\ exit[t] \in Codes
  BY <1>1 DEF Flow, FlowShape, Ends
<1>3. /\ x \in Messages /\ <<x>> \in Seq(Messages) /\ x[1] = "exit" /\ x[2] = t /\ x[3] = exit[t]
  BY <1>2 DEF Messages
<1>4. /\ Events(t) \in Seq(Messages)
      /\ \A u \in Tasks : /\ Num(Events(t), "exit", u) = 0
                          /\ Num(Events(t), "event", u) = IF t = u THEN piped[t] ELSE 0
  BY <1>2, EventsAre
<1> HIDE DEF x
<1>5. r \in Seq(Messages) /\ queue' = queue \o r
  BY <1>1, <1>2, <1>3, <1>4
<1>6. \A u \in Tasks : /\ Num(r, "exit", u) = IF t = u THEN 1 ELSE 0
                       /\ Num(r, "event", u) = IF t = u THEN piped[t] ELSE 0
  <2> SUFFICES ASSUME NEW u \in Tasks
               PROVE  /\ Num(r, "exit", u) = IF t = u THEN 1 ELSE 0
                      /\ Num(r, "event", u) = IF t = u THEN piped[t] ELSE 0
    OBVIOUS
  <2>0. \A a, b \in Seq(Messages), k \in {"event", "exit"} : Num(a \o b, k, u) = Num(a, k, u) + Num(b, k, u)
    BY NumCat
  <2>1. \A k \in {"event", "exit"} : Num(Events(t) \o <<x>>, k, u) = Num(Events(t), k, u) + Num(<<x>>, k, u)
    BY <1>3, <1>4, <2>0
  <2>2. \A k \in {"event", "exit"} : Num(<<x>>, k, u) = IF x[1] = k /\ x[2] = u THEN 1 ELSE 0
    BY NumOne
  <2>3. piped[t] \in Nat
    BY <1>2
  <2>4. Num(r, "exit", u) = Num(Events(t), "exit", u) + (IF t = u THEN 1 ELSE 0)
    BY <1>3, <2>1, <2>2
  <2>5. Num(r, "event", u) = Num(Events(t), "event", u) + 0
    BY <1>3, <2>1, <2>2
  <2> QED BY <1>4, <2>3, <2>4, <2>5
<1>7. Ordered(r) /\ Truthful(r, exit)
  <2>1. Ordered(Events(t)) /\ Truthful(Events(t), exit)
    BY <1>4, OrderedIfNoExit
  <2>2. Ordered(<<x>>) /\ Truthful(<<x>>, exit)
    BY <1>3, OrderedOne DEF Truthful
  <2>3. \A u \in Tasks : Num(Events(t), "exit", u) = 0
    BY <1>4
  <2>4. Ordered(r)
    BY <1>3, <1>4, <2>1, <2>2, <2>3, OrderedCat
  <2>5. Truthful(r, exit)
    BY <1>3, <1>4, <2>1, <2>2, TruthfulCat
  <2> QED BY <2>4, <2>5
<1> HIDE DEF r
<1>8. FlowShape'
  <2>1. child' \in [Tasks -> Lives]
    BY <1>1, <1>2 DEF Lives
  <2>2. queue' \in Seq(Messages)
    BY <1>2, <1>5
  <2>3. piped' \in [Tasks -> Nat]
    BY <1>1, <1>2
  <2> QED BY <1>1, <2>1, <2>2, <2>3 DEF Flow, FlowShape
<1>9. ASSUME NEW u \in Tasks PROVE Num(r, "event", u) + piped'[u] = piped[u]
  <2>1. piped[u] \in Nat /\ piped'[u] = IF t = u THEN 0 ELSE piped[u]
    BY <1>1, <1>2
  <2>2. Num(r, "event", u) = IF t = u THEN piped[t] ELSE 0
    BY <1>6
  <2> QED BY <2>1, <2>2
<1>10. \A u \in Tasks : child'[u] \in {"ended", "reaped"} => exit[u] \in Codes
  BY <1>1, <1>2 DEF Flow, Ends
<1>11. ~ Out(t) /\ \A u \in Tasks : Out(u) => child'[u] = "reaped"
  BY <1>1, <1>2 DEF Flow, Once
<1>12. child'[t] = "reaped" /\ piped'[t] = 0
  BY <1>1, <1>2
<1>13. \A u \in Tasks :
          /\ Out(u) => Num(r, "exit", u) = 0 /\ child'[u] = "reaped"
          /\ ~ Out(u) => \/ Num(r, "exit", u) = 0
                         \/ Num(r, "exit", u) = 1 /\ child'[u] = "reaped" /\ piped'[u] = 0
  BY <1>6, <1>11, <1>12
<1> QED BY <1>1, <1>5, <1>7, <1>8, <1>9, <1>10, <1>13, AddsFlow

\* The server processes a message: of an exit code, it was the only one, and
\* no event of the task is behind it.
LEMMA TakesFlow ==
    ASSUME Flow, Takes, StaysDead
    PROVE  Flow'
<1> DEFINE m == Head(stdout)
<1>1. /\ stdout # <<>> /\ stdout' = Tail(stdout) /\ queue' = queue /\ child' = child
      /\ exit' = exit /\ emitted' = emitted /\ piped' = piped
      /\ outcome' = IF m[1] = "exit" THEN [outcome EXCEPT ![m[2]] = m[3]] ELSE outcome
      /\ seen' = IF m[1] = "event" THEN [seen EXCEPT ![m[2]] = @ + 1] ELSE seen
  BY DEF Takes
<1>2. /\ stdout \in Seq(Messages) /\ queue \in Seq(Messages) /\ outcome \in [Tasks -> Codes \cup {"none"}]
      /\ seen \in [Tasks -> Nat]
  BY DEF Flow, FlowShape
<1>3. m \in Messages /\ stdout' \in Seq(Messages)
  BY <1>1, <1>2
<1>4. m[1] \in {"event", "exit"} /\ m[2] \in Tasks /\ (m[1] = "exit" => m[3] \in Codes)
  BY <1>3, MessageIs
<1>5. \A k \in {"event", "exit"}, u \in Tasks :
         /\ Num(stdout', k, u) \in Nat /\ Num(queue, k, u) \in Nat
         /\ Num(stdout, k, u) = Num(stdout', k, u) + (IF m[1] = k /\ m[2] = u THEN 1 ELSE 0)
  <2> SUFFICES ASSUME NEW k \in {"event", "exit"}, NEW u \in Tasks
               PROVE  /\ Num(Tail(stdout), k, u) \in Nat /\ Num(queue, k, u) \in Nat
                      /\ Num(stdout, k, u) = Num(Tail(stdout), k, u)
                                              + (IF m[1] = k /\ m[2] = u THEN 1 ELSE 0)
    BY <1>1
  <2>1. Num(queue, k, u) \in Nat
    BY <1>2, NumIs
  <2>2. Num(stdout, k, u) = Num(Tail(stdout), k, u) + (IF m[1] = k /\ m[2] = u THEN 1 ELSE 0)
    BY <1>1, <1>2, NumTail
  <2>3. Num(Tail(stdout), k, u) \in Nat
    BY <1>1, <1>2, NumTail
  <2> QED BY <2>1, <2>2, <2>3
<1>6. Truthful(Tail(stdout), exit) /\ (m[1] = "exit" => m[3] = exit[m[2]])
  BY <1>1, <1>2, TruthfulTail DEF Flow, AsItWas
<1>7. Ordered(Tail(stdout)) /\ (m[1] = "exit" => Num(Tail(stdout), "event", m[2]) = 0)
  BY <1>1, <1>2, OrderedTail DEF Flow, InOrder
<1> HIDE DEF m
<1>8. outcome' \in [Tasks -> Codes \cup {"none"}] /\ seen' \in [Tasks -> Nat]
  BY <1>1, <1>2, <1>4
<1>9. FlowShape' /\ Ends'
  BY <1>1, <1>3, <1>8 DEF Flow, FlowShape, Ends
<1>10. \A u \in Tasks : /\ outcome'[u] = IF m[1] = "exit" /\ m[2] = u THEN m[3] ELSE outcome[u]
                        /\ seen'[u] = IF m[1] = "event" /\ m[2] = u THEN seen[u] + 1 ELSE seen[u]
  BY <1>1, <1>2, <1>4
<1>11. \A u \in Tasks : m[1] = "exit" /\ m[2] = u =>
          /\ Out(u) /\ outcome[u] = "none" /\ Num(stdout', "exit", u) = 0 /\ Num(queue, "exit", u) = 0
          /\ Num(stdout, "exit", u) > 0
  <2> SUFFICES ASSUME NEW u \in Tasks, m[1] = "exit", m[2] = u
               PROVE  /\ Out(u) /\ outcome[u] = "none" /\ Num(stdout', "exit", u) = 0
                      /\ Num(queue, "exit", u) = 0 /\ Num(stdout, "exit", u) > 0
    OBVIOUS
  <2>1. Num(queue, "exit", u) + Num(stdout, "exit", u) + (IF outcome[u] = "none" THEN 0 ELSE 1) <= 1
    BY DEF Flow, Once
  <2>2. /\ Num(stdout, "exit", u) = Num(stdout', "exit", u) + 1
        /\ Num(stdout', "exit", u) \in Nat /\ Num(queue, "exit", u) \in Nat
    BY <1>5
  <2>3. Num(stdout, "exit", u) > 0
    BY <2>2
  <2> QED BY <2>1, <2>2, <2>3 DEF Out
<1>12. \A u \in Tasks : Out(u)' <=> Out(u)
  <2> SUFFICES ASSUME NEW u \in Tasks PROVE Out(u)' <=> Out(u)
    OBVIOUS
  <2>1. CASE m[1] = "exit" /\ m[2] = u
    <3>1. outcome'[u] # "none"
      BY <1>4, <1>10, <2>1 DEF Codes
    <3> QED BY <1>11, <2>1, <3>1 DEF Out
  <2>2. CASE ~ (m[1] = "exit" /\ m[2] = u)
    <3>1. outcome'[u] = outcome[u] /\ Num(stdout', "exit", u) = Num(stdout, "exit", u)
      BY <1>5, <1>10, <2>2
    <3> QED BY <1>1, <3>1 DEF Out
  <2> QED BY <2>1, <2>2
<1>13. Once'
  <2> SUFFICES ASSUME NEW u \in Tasks
               PROVE  /\ Num(queue, "exit", u) + Num(stdout', "exit", u)
                            + (IF outcome'[u] = "none" THEN 0 ELSE 1) <= 1
                      /\ Out(u) => child[u] = "reaped" /\ piped[u] = 0
    BY <1>1, <1>12 DEF Once
  <2>1. CASE m[1] = "exit" /\ m[2] = u
    BY <1>11, <2>1 DEF Flow, Once
  <2>2. CASE ~ (m[1] = "exit" /\ m[2] = u)
    <3>1. outcome'[u] = outcome[u] /\ Num(stdout', "exit", u) = Num(stdout, "exit", u)
      BY <1>5, <1>10, <2>2
    <3> QED BY <3>1 DEF Flow, Once
  <2> QED BY <2>1, <2>2
<1>14. AsItWas'
  <2>1. ASSUME NEW u \in Tasks, outcome'[u] # "none" PROVE outcome'[u] = exit[u]
    BY <1>6, <1>10, <2>1 DEF Flow, AsItWas
  <2> QED BY <1>1, <1>6, <2>1 DEF Flow, AsItWas
<1>15. InOrder'
  <2>1. ASSUME NEW u \in Tasks, outcome'[u] # "none" PROVE Num(stdout', "event", u) = 0
    <3>1. CASE m[1] = "exit" /\ m[2] = u
      BY <1>1, <1>7, <3>1
    <3>2. CASE ~ (m[1] = "exit" /\ m[2] = u)
      <4>1. Num(stdout, "event", u) = 0
        BY <1>10, <2>1, <3>2 DEF Flow, InOrder
      <4> QED BY <1>5, <4>1
    <3> QED BY <3>1, <3>2
  <2>2. ASSUME NEW u \in Tasks, outcome'[u] # "none" \/ Num(stdout', "exit", u) > 0
        PROVE  Num(queue, "event", u) = 0
    <3>1. outcome[u] # "none" \/ Num(stdout, "exit", u) > 0
      BY <1>5, <1>10, <1>11, <2>2
    <3> QED BY <3>1 DEF Flow, InOrder
  <2> QED BY <1>1, <1>7, <2>1, <2>2 DEF Flow, InOrder
<1>16. Complete'
  <2> SUFFICES ASSUME NEW u \in Tasks, work.pc # "dead" \/ Out(u)
               PROVE  seen'[u] + Num(stdout', "event", u) + Num(queue, "event", u) + piped[u] = emitted[u]
    BY <1>1, <1>12 DEF Complete, StaysDead
  <2>1. seen[u] + Num(stdout, "event", u) + Num(queue, "event", u) + piped[u] = emitted[u]
    BY DEF Flow, Complete
  <2>2. seen[u] \in Nat /\ piped[u] \in Nat /\ emitted[u] \in Nat
    BY DEF Flow, FlowShape
  <2>3. seen'[u] + Num(stdout', "event", u) = seen[u] + Num(stdout, "event", u)
    BY <1>5, <1>10, <2>2
  <2>4. seen'[u] \in Nat /\ Num(stdout', "event", u) \in Nat /\ Num(queue, "event", u) \in Nat
    BY <1>5, <1>8
  <2> QED BY <2>1, <2>2, <2>3, <2>4, SMTT(60)
<1> QED BY <1>9, <1>13, <1>14, <1>15, <1>16 DEF Flow


-----------------------------------------------------------------------------
(* Commands, by what a step does to them *)

\* What a command is.
LEMMA CommandIs ==
    ASSUME NEW m \in Commands
    PROVE  m[1] = "runtask" => m[2] \in Tasks
BY DEF Commands

\* No command to run a task is written that was not about to be.
LEMMA SilentMsg ==
    ASSUME WorkShape, Orders, Silent
    PROVE  /\ sent' \subseteq Tasks /\ (spc' = "write" => msg' \in Commands)
           /\ spc' = "write" /\ msg'[1] = "runtask" => msg'[2] \notin sent
<1>1. <<"finishnow">> \in Commands /\ <<"quit">> \in Commands
  BY DEF Commands
<1>2. \A m \in {<<"finishnow">>, <<"quit">>} : m[1] # "runtask"
  OBVIOUS
<1> QED BY <1>1, <1>2 DEF WorkShape, Orders, Silent

\* Nothing happens to the commands.
LEMMA SameWork ==
    ASSUME WorkShape, Orders, Pids, WorkSame
    PROVE  WorkShape' /\ Orders' /\ Pids'
<1>1. WorkShape' /\ Orders'
  <2>1. Silent
    BY DEF WorkSame
  <2> QED BY <2>1, SilentMsg DEF WorkShape, Orders, WorkSame, Silent
<1>2. Pids'
  <2>1. \A i \in DOMAIN work.pids : work.pids[i] \in Tasks
    BY DEF WorkShape
  <2> QED BY <2>1 DEF Pids, WorkSame, StaysDead
<1> QED BY <1>1, <1>2

\* The server is about to start a task it has not started.
LEMMA AsksWork ==
    ASSUME WorkShape, Orders, Pids, NEW t \in Tasks, Asks(t)
    PROVE  WorkShape' /\ Orders' /\ Pids'
<1>1. msg' \in Commands /\ msg'[1] = "runtask" /\ msg'[2] = t
  BY DEF Asks, Commands
<1>2. WorkShape' /\ Orders'
  BY <1>1 DEF WorkShape, Orders, Asks, Fields
<1>3. Pids'
  BY DEF Pids, Asks
<1> QED BY <1>2, <1>3

\* A command is in the pipe.
LEMMA GetsWork ==
    ASSUME WorkShape, Orders, Pids, Gets
    PROVE  WorkShape' /\ Orders' /\ Pids'
<1>1. msg \in Commands /\ (msg[1] = "runtask" => msg[2] \in Tasks /\ msg[2] \notin sent)
  BY CommandIs DEF WorkShape, Orders, Gets
<1>2. /\ work' = work /\ child' = child /\ spc' # "write" /\ stdin' = Append(stdin, msg)
      /\ sent' = IF msg[1] = "runtask" THEN sent \cup {msg[2]} ELSE sent
  BY DEF Gets
<1>3. WorkShape'
  <2>1. stdin' \in Seq(Commands)
    BY <1>1, <1>2 DEF WorkShape
  <2> QED BY <1>1, <1>2, <2>1 DEF WorkShape, Fields
<1>4. Pids'
  BY <1>2 DEF Pids
<1>5. Orders'
  <2> SUFFICES ASSUME NEW t \in Tasks
               PROVE  /\ Num(work.inbox, "runtask", t) + Num(stdin', "runtask", t) <= 1
                      /\ child[t] # "new" \/ t \notin sent' =>
                            Num(work.inbox, "runtask", t) = 0 /\ Num(stdin', "runtask", t) = 0
                      /\ t \notin sent' => child[t] = "new"
    BY <1>2 DEF Orders
  <2>1. /\ Num(stdin', "runtask", t) = Num(stdin, "runtask", t)
                                        + (IF msg[1] = "runtask" /\ msg[2] = t THEN 1 ELSE 0)
        /\ Num(stdin, "runtask", t) \in Nat
    BY <1>1, <1>2, NumAppend DEF WorkShape
  <2>2. Num(work.inbox, "runtask", t) \in Nat
    BY NumIs DEF WorkShape
  <2>3. CASE msg[1] = "runtask" /\ msg[2] = t
    <3>1. /\ Num(work.inbox, "runtask", t) = 0 /\ Num(stdin, "runtask", t) = 0
          /\ child[t] = "new" /\ t \in sent'
      BY <1>1, <1>2, <2>3 DEF Orders
    <3> QED BY <2>1, <2>3, <3>1
  <2>4. CASE ~ (msg[1] = "runtask" /\ msg[2] = t)
    <3>1. Num(stdin', "runtask", t) = Num(stdin, "runtask", t) /\ (t \in sent' <=> t \in sent)
      BY <1>2, <2>1, <2>4
    <3> QED BY <3>1 DEF Orders
  <2> QED BY <2>3, <2>4
<1> QED BY <1>3, <1>4, <1>5

\* The worker has read what is in the pipe.
LEMMA CollectsWork ==
    ASSUME WorkShape, Orders, Pids, Collects
    PROVE  WorkShape' /\ Orders' /\ Pids'
<1>1. /\ work'.inbox = work.inbox \o stdin /\ stdin' = <<>> /\ work'.pids = work.pids /\ child' = child
      /\ Fields' /\ StaysDead /\ sent' = sent
  BY DEF Collects, Silent
<1>2. /\ sent' \subseteq Tasks /\ (spc' = "write" => msg' \in Commands)
      /\ spc' = "write" /\ msg'[1] = "runtask" => msg'[2] \notin sent
  BY SilentMsg DEF Collects
<1>3. WorkShape'
  BY <1>1, <1>2 DEF WorkShape
<1>4. Pids'
  BY <1>1 DEF Pids, StaysDead
<1>5. ASSUME NEW t \in Tasks
      PROVE  /\ Num(work'.inbox, "runtask", t) = Num(work.inbox, "runtask", t) + Num(stdin, "runtask", t)
             /\ Num(stdin', "runtask", t) = 0
             /\ Num(work.inbox, "runtask", t) \in Nat /\ Num(stdin, "runtask", t) \in Nat
  <2>1. work.inbox \in Seq(Commands) /\ stdin \in Seq(Commands)
    BY DEF WorkShape
  <2>2. \A a, b \in Seq(Commands) : Num(a \o b, "runtask", t) = Num(a, "runtask", t) + Num(b, "runtask", t)
    BY NumCat
  <2> QED BY <1>1, <2>1, <2>2, NumIs, NumEmpty
<1>6. Orders'
  BY <1>1, <1>2, <1>5 DEF Orders
<1> QED BY <1>3, <1>4, <1>6

\* It forks a process for a task that had none, and the command is used up.
LEMMA ForksWork ==
    ASSUME WorkShape, Orders, Pids, Forks, child \in [Tasks -> Lives]
    PROVE  WorkShape' /\ Orders' /\ Pids'
<1> DEFINE m == Head(work.inbox)
<1>1. /\ work'.inbox = Tail(work.inbox) /\ stdin' = stdin /\ work'.pids = Append(work.pids, m[2])
      /\ child' = [child EXCEPT ![m[2]] = "forked"] /\ Fields' /\ StaysDead /\ sent' = sent
      /\ m[1] = "runtask" /\ work.inbox # <<>> /\ Silent
  BY DEF Forks, Silent
<1>2. /\ sent' \subseteq Tasks /\ (spc' = "write" => msg' \in Commands)
      /\ spc' = "write" /\ msg'[1] = "runtask" => msg'[2] \notin sent
  BY <1>1, SilentMsg
<1>3. /\ work.inbox \in Seq(Commands) /\ work'.inbox \in Seq(Commands) /\ stdin \in Seq(Commands)
      /\ work.pids \in Seq(Tasks)
  BY <1>1 DEF WorkShape
<1>4. m[2] \in Tasks
  <2>1. m \in Commands
    BY <1>1, <1>3
  <2> QED BY <1>1, <2>1, CommandIs
<1>5. ASSUME NEW t \in Tasks
      PROVE  /\ Num(work.inbox, "runtask", t) = Num(work'.inbox, "runtask", t) + (IF m[2] = t THEN 1 ELSE 0)
             /\ Num(work'.inbox, "runtask", t) \in Nat /\ Num(stdin, "runtask", t) \in Nat
  <2>1. /\ Num(work.inbox, "runtask", t) = Num(Tail(work.inbox), "runtask", t)
                                    + (IF m[1] = "runtask" /\ m[2] = t THEN 1 ELSE 0)
        /\ Num(Tail(work.inbox), "runtask", t) \in Nat
    BY <1>1, <1>3, NumTail
  <2>2. Num(stdin, "runtask", t) \in Nat
    BY <1>3, NumIs
  <2> QED BY <1>1, <2>1, <2>2
<1> HIDE DEF m
<1>6. child[m[2]] = "new" /\ m[2] \in sent
  <2>1. Num(work.inbox, "runtask", m[2]) # 0
    BY <1>4, <1>5
  <2> QED BY <1>4, <2>1 DEF Orders
<1>7. Orders'
  <2> SUFFICES ASSUME NEW t \in Tasks
               PROVE  /\ Num(work'.inbox, "runtask", t) + Num(stdin, "runtask", t) <= 1
                      /\ child'[t] # "new" \/ t \notin sent =>
                            Num(work'.inbox, "runtask", t) = 0 /\ Num(stdin, "runtask", t) = 0
                      /\ t \notin sent => child'[t] = "new"
    BY <1>1, <1>2 DEF Orders
  <2>1. Num(work.inbox, "runtask", t) + Num(stdin, "runtask", t) <= 1
    BY DEF Orders
  <2>2. CASE m[2] = t
    BY <1>5, <1>6, <2>1, <2>2
  <2>3. CASE m[2] # t
    <3>1. Num(work'.inbox, "runtask", t) = Num(work.inbox, "runtask", t) /\ child'[t] = child[t]
      BY <1>1, <1>4, <1>5, <2>3
    <3> QED BY <3>1 DEF Orders
  <2> QED BY <2>2, <2>3
<1>8. PICK n \in Nat : n = Len(work.pids) /\ DOMAIN work.pids = 1..n
  BY <1>3
<1>9. /\ DOMAIN work'.pids = 1..(n + 1) /\ work'.pids[n + 1] = m[2]
      /\ \A i \in 1..n : work'.pids[i] = work.pids[i] /\ work.pids[i] # m[2] /\ work.pids[i] \in Tasks
  <2>1. \A i \in 1..n : work.pids[i] \in Tasks /\ child[work.pids[i]] # "new"
    BY <1>3, <1>8 DEF Pids
  <2>2. \A i \in 1..n : work'.pids[i] = work.pids[i]
    BY <1>1, <1>3, <1>4, <1>8
  <2>3. DOMAIN work'.pids = 1..(n + 1) /\ work'.pids[n + 1] = m[2]
    BY <1>1, <1>3, <1>4, <1>8
  <2> QED BY <1>6, <2>1, <2>2, <2>3
<1>10. Pids'
  <2>1. \A i, j \in 1..(n + 1) : work'.pids[i] = work'.pids[j] => i = j
    BY <1>8, <1>9 DEF Pids
  <2>2. \A i \in 1..(n + 1) : child'[work'.pids[i]] # "new"
    BY <1>1, <1>4, <1>8, <1>9 DEF Pids
  <2>3. ASSUME NEW t \in Tasks, child'[t] \in Held, work'.pc # "dead"
        PROVE  \E i \in 1..(n + 1) : work'.pids[i] = t
    <3>1. CASE t = m[2]
      BY <1>9, <3>1
    <3>2. CASE t # m[2]
      <4>1. child[t] \in Held /\ work.pc # "dead"
        BY <1>1, <1>4, <2>3, <3>2 DEF StaysDead
      <4>2. PICK i \in 1..n : work.pids[i] = t
        BY <1>8, <4>1 DEF Pids
      <4> QED BY <1>9, <4>2
    <3> QED BY <3>1, <3>2
  <2> QED BY <1>9, <2>1, <2>2, <2>3 DEF Pids
<1>11. WorkShape'
  BY <1>1, <1>2, <1>3, <1>4 DEF WorkShape
<1> QED BY <1>7, <1>10, <1>11

\* It handles another command.
LEMMA SkipsWork ==
    ASSUME WorkShape, Orders, Pids, Skips
    PROVE  WorkShape' /\ Orders' /\ Pids'
<1> DEFINE m == Head(work.inbox)
<1>1. /\ work'.inbox = Tail(work.inbox) /\ stdin' = stdin /\ work'.pids = work.pids
      /\ child' = child /\ Fields' /\ StaysDead /\ sent' = sent
      /\ m[1] # "runtask" /\ work.inbox # <<>> /\ Silent
  BY DEF Skips, Silent
<1>2. /\ sent' \subseteq Tasks /\ (spc' = "write" => msg' \in Commands)
      /\ spc' = "write" /\ msg'[1] = "runtask" => msg'[2] \notin sent
  BY <1>1, SilentMsg
<1>3. work.inbox \in Seq(Commands) /\ work'.inbox \in Seq(Commands)
  BY <1>1 DEF WorkShape
<1>4. ASSUME NEW t \in Tasks
      PROVE  Num(work'.inbox, "runtask", t) = Num(work.inbox, "runtask", t)
  <2>1. /\ Num(work.inbox, "runtask", t) = Num(Tail(work.inbox), "runtask", t)
                                    + (IF m[1] = "runtask" /\ m[2] = t THEN 1 ELSE 0)
        /\ Num(Tail(work.inbox), "runtask", t) \in Nat
    BY <1>1, <1>3, NumTail
  <2> QED BY <1>1, <2>1
<1> HIDE DEF m
<1>5. Orders'
  BY <1>1, <1>2, <1>4 DEF Orders
<1>6. WorkShape'
  BY <1>1, <1>2, <1>3 DEF WorkShape
<1>7. Pids'
  BY <1>1 DEF Pids, StaysDead
<1> QED BY <1>5, <1>6, <1>7

\* It waits for a process.
LEMMA DropsWork ==
    ASSUME WorkShape, Orders, Pids, NEW t \in Tasks, Drops(t), child \in [Tasks -> Lives]
    PROVE  WorkShape' /\ Orders' /\ Pids'
<1> DEFINE r == Without(work.pids, t)
<1>1. /\ work'.inbox = work.inbox /\ stdin' = stdin /\ work'.pids = r
      /\ child' = [child EXCEPT ![t] = "reaped"] /\ child[t] = "ended" /\ Fields' /\ StaysDead
      /\ sent' = sent /\ Silent /\ work.pc # "dead"
  BY DEF Drops, Silent
<1>2. /\ sent' \subseteq Tasks /\ (spc' = "write" => msg' \in Commands)
      /\ spc' = "write" /\ msg'[1] = "runtask" => msg'[2] \notin sent
  BY <1>1, SilentMsg
<1>3. /\ work.pids \in Seq(Tasks) /\ \A i, j \in DOMAIN work.pids : work.pids[i] = work.pids[j] => i = j
      /\ \A i \in DOMAIN work.pids : work.pids[i] \in Tasks
  BY DEF WorkShape, Pids
<1>4. \E i \in DOMAIN work.pids : work.pids[i] = t
  BY <1>1 DEF Pids, Held
<1>5. /\ r \in Seq(Tasks)
      /\ \A i, j \in DOMAIN r : r[i] = r[j] => i = j
      /\ \A i \in DOMAIN r : \E j \in DOMAIN work.pids : r[i] = work.pids[j]
      /\ \A j \in DOMAIN work.pids : work.pids[j] # t => \E i \in DOMAIN r : r[i] = work.pids[j]
  BY <1>3, <1>4, WithoutIs
<1> HIDE DEF r
<1>6. WorkShape'
  BY <1>1, <1>2, <1>5 DEF WorkShape
<1>7. \A u \in Tasks : /\ child'[u] = "new" <=> child[u] = "new"
                       /\ child'[u] \in Held => child[u] \in Held /\ u # t
  BY <1>1 DEF Held
<1>8. Orders'
  BY <1>1, <1>2, <1>7 DEF Orders
<1>9. Pids'
  <2>1. \A i \in DOMAIN r : child'[r[i]] # "new"
    BY <1>3, <1>5, <1>7 DEF Pids
  <2>2. ASSUME NEW u \in Tasks, child'[u] \in Held PROVE \E i \in DOMAIN r : r[i] = u
    <3>1. PICK j \in DOMAIN work.pids : work.pids[j] = u
      BY <1>1, <1>7, <2>2 DEF Pids
    <3> QED BY <1>5, <1>7, <2>2, <3>1
  <2> QED BY <1>1, <1>5, <2>1, <2>2 DEF Pids
<1> QED BY <1>6, <1>8, <1>9

\* It ends.
LEMMA LeavesWork ==
    ASSUME WorkShape, Orders, Pids, Leaves
    PROVE  WorkShape' /\ Orders' /\ Pids'
<1>1. /\ work'.inbox = <<>> /\ stdin' = stdin /\ work'.pids = <<>>
      /\ child' = child /\ Fields' /\ work'.pc = "dead" /\ sent' = sent /\ Silent
  BY DEF Leaves, Silent
<1>2. /\ sent' \subseteq Tasks /\ (spc' = "write" => msg' \in Commands)
      /\ spc' = "write" /\ msg'[1] = "runtask" => msg'[2] \notin sent
  BY <1>1, SilentMsg
<1>3. \A t \in Tasks : /\ Num(work'.inbox, "runtask", t) = 0 /\ Num(work.inbox, "runtask", t) \in Nat
                       /\ Num(stdin, "runtask", t) \in Nat
  BY <1>1, NumEmpty, NumIs DEF WorkShape
<1>4. Orders'
  BY <1>1, <1>2, <1>3 DEF Orders
<1>5. WorkShape' /\ Pids'
  BY <1>1, <1>2 DEF WorkShape, Pids
<1> QED BY <1>4, <1>5


-----------------------------------------------------------------------------
(* Every step *)

\* The server does nothing.
LEMMA Unserved ==
    ASSUME Verdicts, UNCHANGED serverVars
    PROVE  Verdicts' /\ Silent
<1>1. /\ state' = state /\ spc' = spc /\ msg' = msg /\ sent' = sent /\ outcome' = outcome
      /\ stopped' = stopped /\ raised' = raised /\ teardown' = teardown /\ result' = result
  BY DEF serverVars
<1>2. Verdicts'
  BY <1>1 DEF Verdicts, Over
<1> QED BY <1>1, <1>2 DEF Silent

\* The steps of a task's process keep the invariant,
LEMMA ChildStep ==
    ASSUME Inv, NEW t \in Tasks, NEW code \in {"ok", "fail"},
           Setup(t) \/ Emit(t) \/ Die(t) \/ End(t, code)
    PROVE  Inv'
<1>1. /\ child \in [Tasks -> Lives] /\ exit \in [Tasks -> Codes \cup {"none"}]
      /\ emitted \in [Tasks -> Nat] /\ piped \in [Tasks -> Nat]
      /\ child[t] \in {"ended", "reaped"} => exit[t] \in Codes
  BY DEF Inv, Flow, FlowShape, Ends
<1>2. UNCHANGED serverVars /\ UNCHANGED pipeVars /\ work' = work /\ queue' = queue
  BY DEF Setup, Tie, Lead, Emit, Die, End, ChildUnchanged
<1>3. Moves(t) /\ child[t] # "new" /\ child[t] \in Held /\ child'[t] # "new"
  <2>1. /\ seen' = seen /\ outcome' = outcome /\ stdout' = stdout /\ queue' = queue
    BY <1>2 DEF serverVars, pipeVars
  <2>2. CASE Tie(t)
    BY <1>1, <2>1, <2>2 DEF Tie, Moves, Held, Lives, Codes
  <2>3. CASE Lead(t)
    BY <1>1, <2>1, <2>3 DEF Lead, Moves, Held, Lives, Codes
  <2>4. CASE Emit(t)
    BY <1>1, <2>1, <2>4 DEF Emit, Moves, Held, Lives, Codes
  <2>5. CASE Die(t)
    BY <1>1, <2>1, <2>5 DEF Die, Alive, Moves, Held, Lives, Codes
  <2>6. CASE End(t, code)
    BY <1>1, <2>1, <2>6 DEF End, Moves, Held, Lives, Codes
  <2> QED BY <2>2, <2>3, <2>4, <2>5, <2>6 DEF Setup
<1>4. WorkSame
  <2>1. /\ \A u \in Tasks \ {t} : child'[u] = child[u]
    BY <1>3 DEF Moves
  <2> QED BY <1>2, <1>3, <2>1, Unserved DEF WorkSame, StaysDead, pipeVars, Inv, WorkShape, Fields
<1>5. StaysDead
  BY <1>2 DEF StaysDead
<1> QED BY <1>2, <1>3, <1>4, <1>5, Unserved, MovesFlow, SameWork DEF Inv

\* and those of the worker's two threads,
LEMMA WorkerStep ==
    ASSUME Inv, Work \/ Flush \/ WorkerDies
    PROVE  Inv'
<1>1. /\ Fields /\ work.inbox \in Seq(Commands) /\ child \in [Tasks -> Lives]
      /\ exit \in [Tasks -> Codes \cup {"none"}] /\ emitted \in [Tasks -> Nat] /\ piped \in [Tasks -> Nat]
  BY DEF Inv, WorkShape, Flow, FlowShape
<1>2. ASSUME UNCHANGED serverVars PROVE Verdicts' /\ Silent /\ outcome' = outcome /\ seen' = seen
  BY <1>2, Unserved DEF Inv, serverVars
<1>3. CASE Select
  <2>1. UNCHANGED serverVars /\ Verdicts' /\ Silent /\ outcome' = outcome /\ seen' = seen
    BY <1>2, <1>3 DEF Select
  <2>2. StaysDead /\ Fields'
    BY <1>1, <1>3 DEF Select, childVars, StaysDead, Fields
  <2>3. FlowSame
    BY <1>3, <2>1 DEF Select, childVars, FlowSame
  <2>4. CASE stdin = <<>> /\ closed
    <3>1. WorkSame
      BY <1>1, <1>3, <2>1, <2>2, <2>4 DEF Select, childVars, WorkSame, Fields
    <3> QED BY <2>1, <2>2, <2>3, <3>1, SameFlow, SameWork DEF Inv
  <2>5. CASE ~ (stdin = <<>> /\ closed)
    <3>1. Collects
      BY <1>1, <1>3, <2>1, <2>2, <2>5 DEF Select, childVars, Collects, Fields
    <3> QED BY <2>1, <2>2, <2>3, <3>1, SameFlow, CollectsWork DEF Inv
  <2> QED BY <2>4, <2>5
<1>4. CASE RunTask
  <2>1. UNCHANGED serverVars /\ Verdicts' /\ Silent /\ outcome' = outcome /\ seen' = seen
    BY <1>2, <1>4 DEF RunTask
  <2>2. StaysDead /\ Fields'
    BY <1>1, <1>4 DEF RunTask, Handles, NextItem, Handled, Kinds, pipeVars, StaysDead,
       Fields
  <2>3. PICK t \in Tasks : t = Head(work.inbox)[2] /\ child[t] = "new"
    <3>1. work.inbox # <<>> /\ Head(work.inbox)[1] = "runtask"
      BY <1>4 DEF RunTask, Handles, NextItem, Handled, Kinds, pipeVars
    <3>2. Head(work.inbox) \in Commands
      BY <1>1, <3>1
    <3>3. Head(work.inbox)[2] \in Tasks
      BY <3>1, <3>2, CommandIs
    <3>4. Num(work.inbox, "runtask", Head(work.inbox)[2]) # 0
      BY <1>1, <3>1, NumIs, TailIs
    <3> QED BY <3>3, <3>4 DEF Inv, Orders
  <2>4. Moves(t)
    BY <1>1, <1>4, <2>1, <2>3 DEF RunTask, Handles, NextItem, Handled, Kinds, pipeVars,
       Moves, Lives
  <2>5. Forks
    BY <1>1, <1>4, <2>1, <2>2 DEF RunTask, Handles, NextItem, Handled, Kinds, pipeVars,
       Forks, Fields
  <2> QED BY <1>1, <2>1, <2>2, <2>4, <2>5, MovesFlow, ForksWork DEF Inv
<1>5. CASE ForkFails
  <2>1. UNCHANGED serverVars /\ Verdicts' /\ Silent /\ outcome' = outcome /\ seen' = seen
    BY <1>2, <1>5 DEF ForkFails
  <2>2. StaysDead /\ Fields'
    BY <1>1, <1>5 DEF ForkFails, Handles, childVars, pipeVars, StaysDead, Fields
  <2>3. FlowSame
    BY <1>1, <1>5, <2>1 DEF ForkFails, Handles, childVars, pipeVars, FlowSame
  <2>4. WorkSame
    BY <1>1, <1>5, <2>1, <2>2 DEF ForkFails, Handles, childVars, pipeVars, WorkSame,
       Fields
  <2> QED BY <1>1, <2>1, <2>2, <2>3, <2>4, SameFlow, SameWork DEF Inv
<1>6. CASE FinishNow
  <2>1. UNCHANGED serverVars /\ Verdicts' /\ Silent /\ outcome' = outcome /\ seen' = seen
    BY <1>2, <1>6 DEF FinishNow
  <2>2. StaysDead /\ Fields'
    BY <1>1, <1>6 DEF FinishNow, Handles, NextItem, Handled, Kinds, childVars, pipeVars,
       StaysDead, Fields
  <2>3. FlowSame
    BY <1>1, <1>6, <2>1 DEF FinishNow, Handles, NextItem, Handled, Kinds, childVars,
       pipeVars, FlowSame
  <2>4. Skips
    BY <1>1, <1>6, <2>1, <2>2 DEF FinishNow, Handles, NextItem, Handled, Kinds,
       childVars, pipeVars, Skips, Fields
  <2> QED BY <1>1, <2>1, <2>2, <2>3, <2>4, SameFlow, SkipsWork DEF Inv
<1>7. CASE Quit
  <2>1. UNCHANGED serverVars /\ Verdicts' /\ Silent /\ outcome' = outcome /\ seen' = seen
    BY <1>2, <1>7 DEF Quit
  <2>2. StaysDead /\ Fields'
    BY <1>1, <1>7 DEF Quit, Handles, childVars, pipeVars, StaysDead, Fields
  <2>3. FlowSame
    BY <1>1, <1>7, <2>1 DEF Quit, Handles, childVars, pipeVars, FlowSame
  <2>4. WorkSame
    BY <1>1, <1>7, <2>1, <2>2 DEF Quit, Handles, childVars, pipeVars, WorkSame, Fields
  <2> QED BY <1>1, <2>1, <2>2, <2>3, <2>4, SameFlow, SameWork DEF Inv
<1>8. CASE ReadPipes
  <2>1. UNCHANGED serverVars /\ Verdicts' /\ Silent /\ outcome' = outcome /\ seen' = seen
    BY <1>2, <1>8 DEF ReadPipes
  <2>2. StaysDead /\ Fields'
    BY <1>1, <1>8 DEF ReadPipes, pipeVars, StaysDead, Fields
  <2>3. Reads
    BY <1>1, <1>8, <2>1 DEF ReadPipes, pipeVars, Reads
  <2>4. WorkSame
    BY <1>1, <1>8, <2>1, <2>2 DEF ReadPipes, pipeVars, WorkSame, Fields
  <2> QED BY <1>1, <2>1, <2>2, <2>3, <2>4, ReadsFlow, SameWork DEF Inv
<1>9. CASE Kill
  <2>1. UNCHANGED serverVars /\ Verdicts' /\ Silent /\ outcome' = outcome /\ seen' = seen
    BY <1>2, <1>9 DEF Kill
  <2>2. StaysDead /\ Fields'
    BY <1>1, <1>9 DEF Kill, pipeVars, StaysDead, Fields
  <2>3. FlowSame
    BY <1>1, <1>9, <2>1 DEF Kill, pipeVars, FlowSame
  <2>4. WorkSame
    BY <1>1, <1>9, <2>1, <2>2 DEF Kill, pipeVars, WorkSame, Fields
  <2> QED BY <1>1, <2>1, <2>2, <2>3, <2>4, SameFlow, SameWork DEF Inv
<1>10. CASE KillsDone
  <2>1. UNCHANGED serverVars /\ Verdicts' /\ Silent /\ outcome' = outcome /\ seen' = seen
    BY <1>2, <1>10 DEF KillsDone
  <2>2. StaysDead /\ Fields'
    BY <1>1, <1>10 DEF KillsDone, pipeVars, StaysDead, Fields
  <2>3. Reads
    BY <1>1, <1>10, <2>1 DEF KillsDone, pipeVars, Reads
  <2>4. WorkSame
    BY <1>1, <1>10, <2>1, <2>2 DEF KillsDone, pipeVars, WorkSame, Fields
  <2> QED BY <1>1, <2>1, <2>2, <2>3, <2>4, ReadsFlow, SameWork DEF Inv
<1>11. CASE Terminate
  <2>1. UNCHANGED serverVars /\ Verdicts' /\ Silent /\ outcome' = outcome /\ seen' = seen
    BY <1>2, <1>11 DEF Terminate
  <2>2. StaysDead /\ Fields'
    BY <1>1, <1>11 DEF Terminate, Gone, Fresh, pipeVars, StaysDead, Fields
  <2>3. Cuts
    BY <1>1, <1>11, <2>1 DEF Terminate, Gone, Fresh, pipeVars, Cuts
  <2>4. Leaves
    BY <1>1, <1>11, <2>1, <2>2 DEF Terminate, Gone, Fresh, pipeVars, Leaves, Fields
  <2> QED BY <1>1, <2>1, <2>2, <2>3, <2>4, CutsFlow, LeavesWork DEF Inv
<1>12. CASE ReapNone
  <2>1. UNCHANGED serverVars /\ Verdicts' /\ Silent /\ outcome' = outcome /\ seen' = seen
    BY <1>2, <1>12 DEF ReapNone
  <2>2. StaysDead /\ Fields'
    BY <1>1, <1>12 DEF ReapNone, childVars, pipeVars, StaysDead, Fields
  <2>3. FlowSame
    BY <1>1, <1>12, <2>1 DEF ReapNone, childVars, pipeVars, FlowSame
  <2>4. WorkSame
    BY <1>1, <1>12, <2>1, <2>2 DEF ReapNone, childVars, pipeVars, WorkSame, Fields
  <2> QED BY <1>1, <2>1, <2>2, <2>3, <2>4, SameFlow, SameWork DEF Inv
<1>13. CASE Exit
  <2>1. UNCHANGED serverVars /\ Verdicts' /\ Silent /\ outcome' = outcome /\ seen' = seen
    BY <1>2, <1>13 DEF Exit
  <2>2. StaysDead /\ Fields'
    BY <1>1, <1>13 DEF Exit, Gone, Fresh, pipeVars, StaysDead, Fields
  <2>3. Cuts
    BY <1>1, <1>13, <2>1 DEF Exit, Gone, Fresh, pipeVars, Cuts
  <2>4. Leaves
    BY <1>1, <1>13, <2>1, <2>2 DEF Exit, Gone, Fresh, pipeVars, Leaves, Fields
  <2> QED BY <1>1, <2>1, <2>2, <2>3, <2>4, CutsFlow, LeavesWork DEF Inv
<1>14. CASE WorkerDies
  <2>1. UNCHANGED serverVars /\ Verdicts' /\ Silent /\ outcome' = outcome /\ seen' = seen
    BY <1>2, <1>14 DEF WorkerDies
  <2>2. StaysDead /\ Fields'
    BY <1>1, <1>14 DEF WorkerDies, Gone, Fresh, pipeVars, StaysDead, Fields
  <2>3. Cuts
    BY <1>1, <1>14, <2>1 DEF WorkerDies, Gone, Fresh, pipeVars, Cuts
  <2>4. Leaves
    BY <1>1, <1>14, <2>1, <2>2 DEF WorkerDies, Gone, Fresh, pipeVars, Leaves, Fields
  <2> QED BY <1>1, <2>1, <2>2, <2>3, <2>4, CutsFlow, LeavesWork DEF Inv
<1>15. CASE Flush
  <2>1. UNCHANGED serverVars /\ Verdicts' /\ Silent /\ outcome' = outcome /\ seen' = seen
    BY <1>2, <1>15 DEF Flush
  <2>2. StaysDead /\ Fields'
    BY <1>1, <1>15 DEF Flush, childVars, StaysDead, Fields
  <2>3. Flushes
    BY <1>1, <1>15, <2>1 DEF Flush, childVars, Flushes
  <2>4. WorkSame
    BY <1>1, <1>15, <2>1, <2>2 DEF Flush, childVars, WorkSame, Fields
  <2> QED BY <1>1, <2>1, <2>2, <2>3, <2>4, FlushesFlow, SameWork DEF Inv
<1>16. ASSUME NEW t \in Tasks, Killed(t) PROVE Inv'
  <2>1. UNCHANGED serverVars /\ Verdicts' /\ Silent /\ outcome' = outcome /\ seen' = seen
    BY <1>2, <1>16 DEF Killed
  <2>2. StaysDead /\ Fields'
    BY <1>1, <1>16 DEF Killed, pipeVars, StaysDead, Fields
  <2>3. Moves(t)
    BY <1>1, <1>16, <2>1 DEF Killed, pipeVars, Moves, Lives, Inv, Flow, Ends
  <2>4. WorkSame
    BY <1>1, <1>16, <2>1, <2>2 DEF Killed, pipeVars, WorkSame, Fields, Held
  <2> QED BY <1>1, <2>1, <2>2, <2>3, <2>4, MovesFlow, SameWork DEF Inv
<1>17. ASSUME NEW t \in Tasks, Reap(t) PROVE Inv'
  <2>1. UNCHANGED serverVars /\ Verdicts' /\ Silent /\ outcome' = outcome /\ seen' = seen
    BY <1>2, <1>17 DEF Reap
  <2>2. StaysDead /\ Fields'
    BY <1>1, <1>17 DEF Reap, pipeVars, StaysDead, Fields
  <2>3. Reaps(t)
    BY <1>1, <1>17, <2>1 DEF Reap, pipeVars, Reaps
  <2>4. Drops(t)
    BY <1>1, <1>17, <2>1, <2>2 DEF Reap, pipeVars, Drops, Fields
  <2> QED BY <1>1, <2>1, <2>2, <2>3, <2>4, ReapsFlow, DropsWork DEF Inv
<1> QED BY <1>3, <1>4, <1>5, <1>6, <1>7, <1>8, <1>9, <1>10, <1>11, <1>12, <1>13, <1>14, <1>15, <1>16, <1>17 DEF Work

\* A message does not change the verdict: when the build is over, all that was
\* started has ended, so no exit code can come.
LEMMA ReadVerdicts ==
    ASSUME Inv, ReadWorkers
    PROVE  Verdicts'
<1> DEFINE m == Head(stdout)
           lost == work.pc = "dead" /\ ~ teardown
<1>1. /\ UNCHANGED <<spc, msg, sent, raised, teardown, result>> /\ stopped' = (stopped \/ lost)
      /\ spc \in {"loop", "teardown"}
      /\ state' = IF stdout # <<>> /\ m[1] = "exit" /\ m[3] = "fail" /\ Halt THEN "cleanup"
                  ELSE IF lost THEN Verdict ELSE state
      /\ outcome' = IF stdout # <<>> /\ m[1] = "exit" THEN [outcome EXCEPT ![m[2]] = m[3]] ELSE outcome
      /\ spc = "loop" => ~ Over
  BY DEF ReadWorkers
<1>2. stdout # <<>> /\ m[1] = "exit" => m[2] \in sent /\ outcome[m[2]] = "none"
  <2> SUFFICES ASSUME stdout # <<>>, m[1] = "exit" PROVE m[2] \in sent /\ outcome[m[2]] = "none"
    OBVIOUS
  <2>1. m \in Messages /\ stdout \in Seq(Messages) /\ queue \in Seq(Messages) /\ 1 \in DOMAIN stdout /\ stdout[1] = m
    BY DEF Inv, Flow, FlowShape
  <2>2. m[2] \in Tasks
    BY <2>1, MessageIs
  <2>3. Num(stdout, "exit", m[2]) \in Nat \ {0} /\ Num(queue, "exit", m[2]) \in Nat
    BY <2>1, NumIs
  <2>4. outcome[m[2]] = "none"
    BY <2>2, <2>3 DEF Inv, Flow, Once
  <2>5. Out(m[2])
    BY <2>3 DEF Out
  <2>6. child[m[2]] = "reaped"
    BY <2>2, <2>5 DEF Inv, Flow, Once
  <2> QED BY <2>2, <2>4, <2>6 DEF Inv, Orders
<1> HIDE DEF m
<1>3. CASE stopped \/ lost
  BY <1>1, <1>3 DEF Inv, Verdicts
<1>4. CASE ~ (stopped \/ lost) /\ Over
  <2>1. ~ (stdout # <<>> /\ m[1] = "exit")
    BY <1>2, <1>4 DEF Inv, Verdicts
  <2>2. state' = state /\ outcome' = outcome
    BY <1>1, <1>4, <2>1
  <2> QED BY <1>1, <1>4, <2>2 DEF Inv, Verdicts, Over
<1>5. CASE ~ (stopped \/ lost) /\ ~ Over
  <2>1. state' \in {"cleanup", state}
    BY <1>1, <1>5
  <2> QED BY <1>1, <1>5, <2>1 DEF Inv, Verdicts, Over
<1> QED BY <1>3, <1>4, <1>5

\* When all that was started has ended, the verdict is true.
LEMMA VerdictIs ==
    ASSUME sent \subseteq Tasks, outcome \in [Tasks -> Codes \cup {"none"}],
           \A t \in sent : outcome[t] # "none"
    PROVE  Verdict = "failed" \/ (Verdict = "complete" /\ \A t \in sent : outcome[t] = "ok")
<1>1. CASE Failed = {}
  <2>1. \A t \in sent : outcome[t] \in {"ok", "fail", "none"} /\ outcome[t] # "fail"
    BY <1>1 DEF Failed, Codes
  <2>2. Verdict = "complete"
    BY <1>1 DEF Verdict
  <2> QED BY <2>1, <2>2
<1>2. CASE Failed # {}
  <2>1. Verdict = "failed"
    BY <1>2 DEF Verdict
  <2> QED BY <2>1
<1> QED BY <1>1, <1>2

\* and those of the server.
LEMMA ServerStep ==
    ASSUME Inv, Serve \/ Stop \/ StopNow \/ ServerDies
    PROVE  Inv'
<1>1. Fields /\ sent \subseteq Tasks /\ outcome \in [Tasks -> Codes \cup {"none"}]
  BY DEF Inv, WorkShape, Flow, FlowShape
<1>2. ASSUME ServerUnchanged
      PROVE  /\ StaysDead /\ Fields' /\ work' = work /\ queue' = queue /\ child' = child /\ exit' = exit
             /\ emitted' = emitted /\ piped' = piped
  BY <1>1, <1>2 DEF ServerUnchanged, childVars, StaysDead, Fields
<1>3. ASSUME NEW t \in Tasks, StartTask(t) PROVE Inv'
  <2>1. /\ StaysDead /\ Fields' /\ work' = work /\ queue' = queue /\ child' = child /\ exit' = exit
        /\ emitted' = emitted /\ piped' = piped
    BY <1>2, <1>3 DEF StartTask
  <2>2. FlowSame
    BY <1>3, <2>1 DEF StartTask, Send, pipeVars, FlowSame
  <2>3. Asks(t)
    BY <1>1, <1>3, <2>1 DEF StartTask, Send, pipeVars, Asks, Silent
  <2>4. Verdicts'
    BY <1>1, <1>3 DEF StartTask, Send, Inv, Verdicts, Over
  <2> QED BY <2>1, <2>2, <2>3, <2>4, SameFlow, AsksWork DEF Inv
<1>4. CASE Written
  <2>1. /\ StaysDead /\ Fields' /\ work' = work /\ queue' = queue /\ child' = child /\ exit' = exit
        /\ emitted' = emitted /\ piped' = piped
    BY <1>2, <1>4 DEF Written
  <2>2. FlowSame
    BY <1>4, <2>1 DEF Written, pipeVars, FlowSame
  <2>3. Gets
    BY <1>1, <1>4, <2>1 DEF Written, pipeVars, Gets, Silent
  <2>4. Verdicts'
    BY <1>1, <1>4 DEF Written, Inv, Verdicts, Over
  <2> QED BY <2>1, <2>2, <2>3, <2>4, SameFlow, GetsWork DEF Inv
<1>5. CASE WriteFails
  <2>1. /\ StaysDead /\ Fields' /\ work' = work /\ queue' = queue /\ child' = child /\ exit' = exit
        /\ emitted' = emitted /\ piped' = piped
    BY <1>2, <1>5 DEF WriteFails
  <2>2. FlowSame
    BY <1>5, <2>1 DEF WriteFails, pipeVars, FlowSame
  <2>3. WorkSame
    BY <1>1, <1>5, <2>1 DEF WriteFails, pipeVars, WorkSame, Silent
  <2>4. Verdicts'
    BY <1>1, <1>5 DEF WriteFails, Inv, Verdicts, Over
  <2> QED BY <2>1, <2>2, <2>3, <2>4, SameFlow, SameWork DEF Inv
<1>6. CASE ReadWorkers
  <2>1. /\ StaysDead /\ Fields' /\ work' = work /\ queue' = queue /\ child' = child /\ exit' = exit
        /\ emitted' = emitted /\ piped' = piped
    BY <1>2, <1>6 DEF ReadWorkers
  <2>2. FlowSame \/ Takes
    BY <1>6, <2>1 DEF ReadWorkers, FlowSame, Takes
  <2>3. WorkSame
    BY <1>6, <2>1 DEF ReadWorkers, WorkSame, Silent
  <2>4. Verdicts'
    BY <1>6, ReadVerdicts
  <2> QED BY <1>1, <2>1, <2>2, <2>3, <2>4, SameFlow, TakesFlow, SameWork DEF Inv
<1>7. CASE AllDone
  <2>1. /\ StaysDead /\ Fields' /\ work' = work /\ queue' = queue /\ child' = child /\ exit' = exit
        /\ emitted' = emitted /\ piped' = piped
    BY <1>2, <1>7 DEF AllDone
  <2>2. FlowSame
    BY <1>7, <2>1 DEF AllDone, pipeVars, FlowSame
  <2>3. WorkSame
    BY <1>1, <1>7, <2>1 DEF AllDone, pipeVars, WorkSame, Silent
  <2>4. Verdicts'
    <3>1. \A t \in sent : outcome[t] # "none"
      BY <1>1, <1>7 DEF AllDone, Active
    <3>2. Verdict = "failed" \/ (Verdict = "complete" /\ \A t \in sent : outcome[t] = "ok")
      BY <1>1, <3>1, VerdictIs
    <3>3. /\ state' = Verdict /\ spc = "loop"
          /\ UNCHANGED <<spc, msg, sent, outcome, stopped, raised, teardown, result>>
      BY <1>7 DEF AllDone
    <3> QED BY <3>1, <3>2, <3>3 DEF Inv, Verdicts, Over
  <2> QED BY <2>1, <2>2, <2>3, <2>4, SameFlow, SameWork DEF Inv
<1>8. CASE Finish
  <2>1. /\ StaysDead /\ Fields' /\ work' = work /\ queue' = queue /\ child' = child /\ exit' = exit
        /\ emitted' = emitted /\ piped' = piped
    BY <1>2, <1>8 DEF Finish
  <2>2. FlowSame
    BY <1>8, <2>1 DEF Finish, pipeVars, FlowSame
  <2>3. WorkSame
    BY <1>1, <1>8, <2>1 DEF Finish, pipeVars, WorkSame, Silent
  <2>4. Verdicts'
    <3>1. /\ spc = "loop" /\ state = "cleanup" /\ ~ raised
          /\ UNCHANGED <<msg, sent, outcome, stopped, raised, teardown>>
          /\ \/ Active = {} /\ state' = Verdict /\ UNCHANGED <<spc, result>>
             \/ Active # {} /\ NoWorkers /\ result' = "ok" /\ spc' = "done" /\ UNCHANGED state
      BY <1>8 DEF Finish
    <3>2. CASE Active = {} /\ state' = Verdict /\ UNCHANGED <<spc, result>>
      <4>1. \A t \in sent : outcome[t] # "none"
        BY <3>2 DEF Active
      <4>2. state' = "failed" \/ (state' = "complete" /\ \A t \in sent : outcome[t] = "ok")
        BY <1>1, <3>2, <4>1, VerdictIs
      <4> QED BY <3>1, <3>2, <4>1, <4>2 DEF Inv, Verdicts, Over
    <3>3. CASE Active # {} /\ NoWorkers /\ result' = "ok" /\ spc' = "done" /\ UNCHANGED state
      <4>1. stopped
        BY <3>1, <3>3 DEF Inv, Verdicts, NoWorkers, Over
      <4> QED BY <3>1, <3>3, <4>1 DEF Inv, Verdicts
    <3> QED BY <3>1, <3>2, <3>3
  <2> QED BY <2>1, <2>2, <2>3, <2>4, SameFlow, SameWork DEF Inv
<1>9. CASE Teardown
  <2>1. /\ StaysDead /\ Fields' /\ work' = work /\ queue' = queue /\ child' = child /\ exit' = exit
        /\ emitted' = emitted /\ piped' = piped
    BY <1>2, <1>9 DEF Teardown
  <2>2. FlowSame
    BY <1>9, <2>1 DEF Teardown, Send, pipeVars, FlowSame
  <2>3. WorkSame
    BY <1>1, <1>9, <2>1 DEF Teardown, Send, pipeVars, WorkSame, Silent
  <2>4. Verdicts'
    BY <1>1, <1>9 DEF Teardown, Send, Inv, Verdicts, Over
  <2> QED BY <2>1, <2>2, <2>3, <2>4, SameFlow, SameWork DEF Inv
<1>10. CASE WorkerGone
  <2>1. /\ StaysDead /\ Fields' /\ work' = work /\ queue' = queue /\ child' = child /\ exit' = exit
        /\ emitted' = emitted /\ piped' = piped
    BY <1>2, <1>10 DEF WorkerGone
  <2>2. FlowSame
    BY <1>10, <2>1 DEF WorkerGone, pipeVars, FlowSame
  <2>3. WorkSame
    BY <1>1, <1>10, <2>1 DEF WorkerGone, pipeVars, WorkSame, Silent
  <2>4. Verdicts'
    BY <1>1, <1>10 DEF WorkerGone, Inv, Verdicts, Over
  <2> QED BY <2>1, <2>2, <2>3, <2>4, SameFlow, SameWork DEF Inv
<1>11. CASE Report
  <2>1. /\ StaysDead /\ Fields' /\ work' = work /\ queue' = queue /\ child' = child /\ exit' = exit
        /\ emitted' = emitted /\ piped' = piped
    BY <1>2, <1>11 DEF Report
  <2>2. FlowSame
    BY <1>11, <2>1 DEF Report, pipeVars, FlowSame
  <2>3. WorkSame
    BY <1>1, <1>11, <2>1 DEF Report, pipeVars, WorkSame, Silent
  <2>4. Verdicts'
    BY <1>1, <1>11 DEF Report, Inv, Verdicts, Over, NoWorkers
  <2> QED BY <2>1, <2>2, <2>3, <2>4, SameFlow, SameWork DEF Inv
<1>12. CASE Stop
  <2>1. /\ StaysDead /\ Fields' /\ work' = work /\ queue' = queue /\ child' = child /\ exit' = exit
        /\ emitted' = emitted /\ piped' = piped
    BY <1>2, <1>12 DEF Stop
  <2>2. FlowSame
    BY <1>12, <2>1 DEF Stop, pipeVars, FlowSame
  <2>3. WorkSame
    BY <1>1, <1>12, <2>1 DEF Stop, pipeVars, WorkSame, Silent
  <2>4. Verdicts'
    BY <1>1, <1>12 DEF Stop, Inv, Verdicts, Over
  <2> QED BY <2>1, <2>2, <2>3, <2>4, SameFlow, SameWork DEF Inv
<1>13. CASE StopNow
  <2>1. /\ StaysDead /\ Fields' /\ work' = work /\ queue' = queue /\ child' = child /\ exit' = exit
        /\ emitted' = emitted /\ piped' = piped
    BY <1>2, <1>13 DEF StopNow
  <2>2. FlowSame
    BY <1>13, <2>1 DEF StopNow, Send, pipeVars, FlowSame
  <2>3. WorkSame
    BY <1>1, <1>13, <2>1 DEF StopNow, Send, pipeVars, WorkSame, Silent
  <2>4. Verdicts'
    BY <1>1, <1>13 DEF StopNow, Send, Inv, Verdicts, Over
  <2> QED BY <2>1, <2>2, <2>3, <2>4, SameFlow, SameWork DEF Inv
<1>14. CASE ServerDies
  <2>1. /\ StaysDead /\ Fields' /\ work' = work /\ queue' = queue /\ child' = child /\ exit' = exit
        /\ emitted' = emitted /\ piped' = piped
    BY <1>2, <1>14 DEF ServerDies
  <2>2. FlowSame
    BY <1>14, <2>1 DEF ServerDies, pipeVars, FlowSame
  <2>3. WorkSame
    BY <1>1, <1>14, <2>1 DEF ServerDies, pipeVars, WorkSame, Silent
  <2>4. Verdicts'
    BY <1>1, <1>14 DEF ServerDies, Inv, Verdicts, Over
  <2> QED BY <2>1, <2>2, <2>3, <2>4, SameFlow, SameWork DEF Inv
<1> QED BY <1>3, <1>4, <1>5, <1>6, <1>7, <1>8, <1>9, <1>10, <1>11, <1>12, <1>13, <1>14 DEF Serve

\* Every step keeps the invariant.
LEMMA NextInv ==
    ASSUME Inv, [Next]_vars
    PROVE  Inv'
<1>1. CASE Work \/ Flush \/ WorkerDies
  BY <1>1, WorkerStep
<1>2. CASE Serve \/ Stop \/ StopNow \/ ServerDies
  BY <1>2, ServerStep
<1>3. ASSUME NEW t \in Tasks, Setup(t) \/ Emit(t) \/ Die(t) PROVE Inv'
  BY <1>3, ChildStep
<1>4. ASSUME NEW t \in Tasks, NEW code \in {"ok", "fail"}, End(t, code) PROVE Inv'
  BY <1>4, ChildStep
<1>5. CASE UNCHANGED vars
  <2>1. UNCHANGED serverVars /\ UNCHANGED pipeVars /\ work' = work /\ queue' = queue /\ UNCHANGED childVars
    BY <1>5 DEF vars
  <2>2. FlowSame
    BY <2>1 DEF serverVars, pipeVars, childVars, FlowSame
  <2>3. WorkSame /\ StaysDead /\ Verdicts'
    <3>1. Verdicts' /\ Silent
      BY <2>1, Unserved DEF Inv
    <3> QED BY <2>1, <3>1 DEF Inv, WorkShape, Fields, WorkSame, StaysDead, pipeVars, childVars
  <2> QED BY <2>2, <2>3, SameFlow, SameWork DEF Inv
<1> QED BY <1>1, <1>2, <1>3, <1>4, <1>5 DEF Next, Ended

\* It holds at the start.
LEMMA InitInv ==
    ASSUME Init
    PROVE  Inv
<1>1. \A k \in {"event", "exit", "runtask"}, t \in Tasks : Num(<<>>, k, t) = 0
  BY NumEmpty
<1>2. WorkShape /\ Pids /\ Verdicts
  BY DEF Init, Fresh, WorkShape, Fields, Pids, Verdicts, Over, Held
<1>3. Orders
  BY <1>1 DEF Init, Fresh, Orders
<1>4. FlowShape
  BY DEF Init, FlowShape, Lives
<1>5. \A t \in Tasks : ~ Out(t)
  BY <1>1 DEF Init, Out
<1>6. Ends /\ Once /\ AsItWas /\ InOrder
  BY <1>1, <1>5 DEF Init, Ends, Once, AsItWas, InOrder, Ordered, Truthful
<1>7. Complete
  BY <1>1 DEF Init, Complete
<1> QED BY <1>2, <1>3, <1>4, <1>6, <1>7 DEF Inv, Flow

\* The invariant holds in every state.
THEOREM SpecInv == Spec => []Inv
<1>1. Init => Inv
  BY InitInv
<1>2. Inv /\ [Next]_vars => Inv'
  BY NextInv
<1> QED BY <1>1, <1>2, PTL DEF Spec

\* The counts of the property are those of the proof.
LEMMA CountIs ==
    ASSUME NEW s, NEW t
    PROVE  Count(s, t) = Num(s, "exit", t)
BY DEF Count, Num, At

\* The end of a task is reported at most once, and as it was, whoever kills
\* it or waits for it (process_waitpid and handle_finishnow).
THEOREM SpecReportedOnce == Spec => []ReportedOnce
<1>1. Inv => ReportedOnce
  <2> SUFFICES ASSUME Inv, NEW t \in Tasks
               PROVE  /\ Count(queue, t) + Count(stdout, t) + (IF outcome[t] = "none" THEN 0 ELSE 1) <= 1
                      /\ outcome[t] # "none" => child[t] = "reaped" /\ outcome[t] = exit[t]
    BY DEF ReportedOnce
  <2>1. Count(queue, t) = Num(queue, "exit", t) /\ Count(stdout, t) = Num(stdout, "exit", t)
    BY CountIs
  <2>2. Count(queue, t) + Count(stdout, t) + (IF outcome[t] = "none" THEN 0 ELSE 1) <= 1
    BY <2>1 DEF Inv, Flow, Once
  <2>3. outcome[t] # "none" => child[t] = "reaped" /\ outcome[t] = exit[t]
    BY DEF Inv, Flow, Once, AsItWas, Out
  <2> QED BY <2>2, <2>3
<1> QED BY <1>1, SpecInv, PTL

\* When the server acts on the end of a task, it has seen all its events
\* (process_waitpid reads the pipe to its end before it queues the code).
THEOREM SpecEventsFirst == Spec => []EventsFirst
<1>1. Inv => EventsFirst
  <2> SUFFICES ASSUME Inv, NEW t \in Tasks, outcome[t] # "none" PROVE seen[t] = emitted[t]
    BY DEF EventsFirst
  <2>1. Num(stdout, "event", t) = 0 /\ Num(queue, "event", t) = 0 /\ piped[t] = 0
    BY DEF Inv, Flow, InOrder, Once, Out
  <2>2. seen[t] + Num(stdout, "event", t) + Num(queue, "event", t) + piped[t] = emitted[t] /\ seen[t] \in Nat
    BY DEF Inv, Flow, FlowShape, Complete, Out
  <2> QED BY <2>1, <2>2
<1> QED BY <1>1, SpecInv, PTL

\* A build that nobody stopped and that kept its worker reports success only
\* if all that it started ended well (finish, teardown_workers).
THEOREM SpecTrueSuccess == Spec => []TrueSuccess
<1>1. Inv => TrueSuccess
  BY DEF Inv, Verdicts, TrueSuccess
<1> QED BY <1>1, SpecInv, PTL
=============================================================================
