------------------------------ MODULE Lockfile ------------------------------
(***************************************************************************)
(* bb.utils.lockfile, lockfile_to_exclusive and unlockfile: advisory file  *)
(* locks that remove their lock file when they are dropped.  Processes     *)
(* race on one name; the name is bound to a new inode each time the file   *)
(* is created, and flock(2) locks an inode, not a name.                    *)
(***************************************************************************)
EXTENDS Integers, FiniteSets

CONSTANTS
    Procs,      \* processes that lock the one file name
    Inodes,     \* inode numbers the file system hands out, and reuses
    NoInode     \* the name is not on disk, or a process has no file open

ASSUME LockfileAssumption == NoInode \notin Inodes

VARIABLES
    pc,         \* where each process is in the functions of utils.py
    call,       \* the arguments of each process' last lockfile() call
    upgrading,  \* processes in the unlockfile() of lockfile_to_exclusive()
    fd,         \* the inode of each process' open lock file
    flock,      \* the flock each process has on fd: "none", "sh" or "ex"
    disk        \* the inode the lock file's name is bound to

vars == <<pc, call, upgrading, fd, flock, disk>>

Calls == [shared : BOOLEAN, retry : BOOLEAN, block : BOOLEAN]
Default == [shared |-> FALSE, retry |-> TRUE, block |-> FALSE]

\* idle      not using the lock
\* open      at the top of the while loop, open(name, 'a+') is next
\* flock     in fcntl.flock(fileno, op)
\* stat      the flock is granted, the inodes are not compared yet
\* held      lockfile() returned the file
\* unlink    unlockfile() has the exclusive flock, os.unlink is next
\* drop      unlockfile() drops the flock and closes the file
\* failed    lockfile() returned None
Pcs == {"idle", "open", "flock", "stat", "held", "unlink", "drop", "failed"}

TypeOK ==
    /\ pc \in [Procs -> Pcs]
    /\ call \in [Procs -> Calls]
    /\ upgrading \subseteq Procs
    /\ fd \in [Procs -> Inodes \cup {NoInode}]
    /\ flock \in [Procs -> {"none", "sh", "ex"}]
    /\ disk \in Inodes \cup {NoInode}

Init ==
    /\ pc = [p \in Procs |-> "idle"]
    /\ call = [p \in Procs |-> Default]
    /\ upgrading = {}
    /\ fd = [p \in Procs |-> NoInode]
    /\ flock = [p \in Procs |-> "none"]
    /\ disk = NoInode

-----------------------------------------------------------------------------
(* flock(2) and the file system, as the code uses them. *)

Mode(c) == IF c.shared THEN "sh" ELSE "ex"
NonBlocking(c) == ~c.retry /\ ~c.block

\* The flock of the given mode is compatible with every other process' flock
\* on the inode.
Compatible(p, i, mode) ==
    \A q \in Procs \ {p} :
        fd[q] = i => flock[q] = "none" \/ (mode = "sh" /\ flock[q] = "sh")

\* An inode is free when it has no name and no open file.
FreeInodes == {i \in Inodes : i # disk /\ \A q \in Procs : fd[q] # i}

-----------------------------------------------------------------------------
(* lockfile() *)

Lock(p, c) ==
    /\ pc[p] = "idle"
    /\ pc' = [pc EXCEPT ![p] = "open"]
    /\ call' = [call EXCEPT ![p] = c]
    /\ UNCHANGED <<upgrading, fd, flock, disk>>

Open(p) ==
    /\ pc[p] = "open"
    /\ \E i \in IF disk = NoInode THEN FreeInodes ELSE {disk} :
          /\ fd' = [fd EXCEPT ![p] = i]
          /\ disk' = i
    /\ pc' = [pc EXCEPT ![p] = "flock"]
    /\ UNCHANGED <<upgrading, call, flock>>

Flock(p) ==
    /\ pc[p] = "flock"
    /\ Compatible(p, fd[p], Mode(call[p]))
    /\ flock' = [flock EXCEPT ![p] = Mode(call[p])]
    /\ pc' = [pc EXCEPT ![p] = "stat"]
    /\ UNCHANGED <<upgrading, call, fd, disk>>

\* Faulty variant: the failed attempt raises instead of returning None.
MissedRaises(c) == IF c.retry THEN "open" ELSE "raised"

\* Where a lockfile() that could not lock the file on disk goes next.
Missed(c) == IF c.retry THEN "open" ELSE "failed"

\* flock raises EWOULDBLOCK; the handler closes the file.
FlockWouldBlock(p) ==
    /\ pc[p] = "flock"
    /\ NonBlocking(call[p])
    /\ ~Compatible(p, fd[p], Mode(call[p]))
    /\ pc' = [pc EXCEPT ![p] = Missed(call[p])]
    /\ fd' = [fd EXCEPT ![p] = NoInode]
    /\ UNCHANGED <<upgrading, call, flock, disk>>

\* Faulty variant: no comparison with the file on disk.
StatTrusts(p) ==
    /\ pc[p] = "stat"
    /\ pc' = [pc EXCEPT ![p] = "held"]
    /\ UNCHANGED <<call, upgrading, fd, flock, disk>>

\* An unlinked inode that is open is never bound to the name again, so
\* os.path.exists followed by os.stat decides as one comparison does.
Stat(p) ==
    /\ pc[p] = "stat"
    /\ IF fd[p] = disk
       THEN /\ pc' = [pc EXCEPT ![p] = "held"]
            /\ UNCHANGED <<fd, flock>>
       ELSE /\ pc' = [pc EXCEPT ![p] = Missed(call[p])]
            /\ fd' = [fd EXCEPT ![p] = NoInode]
            /\ flock' = [flock EXCEPT ![p] = "none"]
    /\ UNCHANGED <<call, upgrading, disk>>

\* The caller of lockfile() got None and goes on without the lock.
GiveUp(p) ==
    /\ pc[p] = "failed"
    /\ pc' = [pc EXCEPT ![p] = "idle"]
    /\ UNCHANGED <<upgrading, call, fd, flock, disk>>

-----------------------------------------------------------------------------
(* unlockfile() and lockfile_to_exclusive() *)

\* Faulty variant: removes the file without the exclusive flock.
PromoteNot(p) == pc' = [pc EXCEPT ![p] = "unlink"] /\ UNCHANGED flock

\* The promotion of unlockfile(): flock(LOCK_EX|LOCK_NB).
Promote(p) ==
    /\ Compatible(p, fd[p], "ex")
    /\ flock' = [flock EXCEPT ![p] = "ex"]
    /\ pc' = [pc EXCEPT ![p] = "unlink"]

\* A conversion drops the shared flock before it asks for the exclusive one,
\* so another process may take the inode in between and the promotion fail.
PromotionFails(p) ==
    /\ flock[p] = "sh"
    /\ flock' = [flock EXCEPT ![p] = "none"]
    /\ pc' = [pc EXCEPT ![p] = "drop"]

Unlock(p) ==
    /\ pc[p] = "held"
    /\ Promote(p) \/ PromotionFails(p)
    /\ UNCHANGED <<upgrading, call, fd, disk>>

\* Faulty variant: waits for the exclusive flock with the shared one held.
ToExclusiveInPlace(p) ==
    /\ pc[p] = "held"
    /\ pc' = [pc EXCEPT ![p] = "flock"]
    /\ call' = [call EXCEPT ![p] = Default]
    /\ UNCHANGED <<upgrading, fd, flock, disk>>

\* lockfile_to_exclusive() unlocks and calls lockfile(name) again.
ToExclusive(p) ==
    /\ pc[p] = "held"
    /\ Promote(p) \/ PromotionFails(p)
    /\ upgrading' = upgrading \cup {p}
    /\ UNCHANGED <<call, fd, disk>>

\* os.unlink(lf.name) removes whatever the name is bound to.
Unlink(p) ==
    /\ pc[p] = "unlink"
    /\ disk' = NoInode
    /\ pc' = [pc EXCEPT ![p] = "drop"]
    /\ UNCHANGED <<upgrading, call, fd, flock>>

Drop(p) ==
    /\ pc[p] = "drop"
    /\ fd' = [fd EXCEPT ![p] = NoInode]
    /\ flock' = [flock EXCEPT ![p] = "none"]
    /\ upgrading' = upgrading \ {p}
    /\ IF p \in upgrading
       THEN /\ pc' = [pc EXCEPT ![p] = "open"]
            /\ call' = [call EXCEPT ![p] = Default]
       ELSE /\ pc' = [pc EXCEPT ![p] = "idle"]
            /\ UNCHANGED call
    /\ UNCHANGED disk

\* The process dies: the kernel closes its file, the lock file stays.
Crash(p) ==
    /\ pc[p] # "idle"
    /\ pc' = [pc EXCEPT ![p] = "idle"]
    /\ upgrading' = upgrading \ {p}
    /\ fd' = [fd EXCEPT ![p] = NoInode]
    /\ flock' = [flock EXCEPT ![p] = "none"]
    /\ UNCHANGED <<call, disk>>

-----------------------------------------------------------------------------
\* What a process does once it has called lockfile() or unlockfile().
Continue(p) ==
    Open(p) \/ Flock(p) \/ FlockWouldBlock(p) \/ Stat(p) \/ GiveUp(p)
        \/ Unlink(p) \/ Drop(p)

Next ==
    \E p \in Procs :
        \/ \E c \in Calls : Lock(p, c)
        \/ Continue(p)
        \/ Unlock(p)
        \/ ToExclusive(p)
        \/ Crash(p)

Spec == Init /\ [][Next]_vars

\* A process that has called lockfile() or unlockfile() keeps running, and a
\* holder unlocks at last (fileslocked does so in its finally clause).
FairSpec == Spec /\ \A p \in Procs : WF_vars(Continue(p)) /\ WF_vars(Unlock(p))

-----------------------------------------------------------------------------
(* Properties *)

Holds(p) == pc[p] = "held"
Writers == {p \in Procs : Holds(p) /\ flock[p] = "ex"}
\* lockfile() returns an exclusive lock to one process at a time and never
\* while another holds a shared one, although the file under the name changes.
MutualExclusion ==
    \A p \in Writers, q \in Procs : Holds(q) => p = q

\* unlockfile() removes the file it has locked, never the successor another
\* process has created under the same name: the reason for the promotion in
\* unlockfile() and for the inode check in lockfile().
UnlinksOwnFile ==
    \A p \in Procs : pc[p] = "unlink" => disk = fd[p]

\* Waiting callers do not wait for each other: lockfile_to_exclusive() gives
\* its shared lock up before it asks for the exclusive one ("We have to drop
\* the existing lock to avoid deadlocks"), so as long as one waits some caller
\* is given the lock, although the implementation is unfair to each of them.
\* (Processes that die for ever, each just before it locks, could starve it.)
SomeCallerLocks ==
    <>[][\A p \in Procs : ~Crash(p)]_vars => \A p \in Procs :
        (pc[p] \in {"open", "flock"} /\ call[p].retry)
            ~> pc[p] = "idle" \/ \E q \in Procs : Holds(q)
=============================================================================
