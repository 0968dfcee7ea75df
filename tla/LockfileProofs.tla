--------------------------- MODULE LockfileProofs ---------------------------
(***************************************************************************)
(* Proofs that the lock file protocol of bb.utils excludes, for any number *)
(* of processes and inodes, with crashes and inode reuse.                  *)
(***************************************************************************)
EXTENDS Lockfile, TLAPS

\* What each process has open and locked at each point of its call.
FdInv ==
    \A p \in Procs :
        /\ pc[p] \in {"flock", "stat", "held", "unlink", "drop"} => fd[p] \in Inodes
        /\ pc[p] \in {"idle", "open", "flock", "failed"} => flock[p] = "none"
        /\ pc[p] \in {"stat", "held", "unlink"} => flock[p] # "none"
        /\ pc[p] = "unlink" => flock[p] = "ex"

\* flock(2) excludes per inode.
FlockInv ==
    \A p, q \in Procs :
        p # q /\ fd[p] = fd[q] /\ flock[p] = "ex" => flock[q] = "none"

\* A returned lock is on the file that is on disk: the inode check made it so,
\* and only a process with the exclusive flock of that inode unlinks it.
OnDiskInv ==
    \A p \in Procs : pc[p] \in {"held", "unlink"} => fd[p] = disk

IInv == TypeOK /\ FdInv /\ FlockInv /\ OnDiskInv

-----------------------------------------------------------------------------
\* The inductive invariant holds initially.
LEMMA InitIInv == Init => IInv
BY DEF Init, IInv, TypeOK, FdInv, FlockInv, OnDiskInv, Default, Calls, Pcs

\* Every step of every process preserves the inductive invariant.
LEMMA NextIInv == IInv /\ [Next]_vars => IInv'
<1> SUFFICES ASSUME IInv, [Next]_vars PROVE IInv'
  OBVIOUS
<1> USE LockfileAssumption DEF IInv, TypeOK, FdInv, FlockInv, OnDiskInv, Pcs, Calls
<1>1. ASSUME NEW p \in Procs, NEW c \in Calls, Lock(p, c) PROVE IInv'
  BY <1>1 DEF Lock
<1>2. ASSUME NEW p \in Procs, Open(p) PROVE IInv'
  BY <1>2 DEF Open, FreeInodes
<1>3. ASSUME NEW p \in Procs, Flock(p) PROVE IInv'
  BY <1>3 DEF Flock, Compatible, Mode
<1>4. ASSUME NEW p \in Procs, FlockWouldBlock(p) PROVE IInv'
  BY <1>4 DEF FlockWouldBlock, Missed
<1>5. ASSUME NEW p \in Procs, Stat(p) PROVE IInv'
  <2>1. CASE fd[p] = disk
    BY <1>5, <2>1 DEF Stat
  <2>2. CASE fd[p] # disk
    <3> DEFINE back == Missed(call[p])
    <3>1. back \in {"open", "failed"}
      BY DEF Missed
    <3>2. /\ pc' = [pc EXCEPT ![p] = back]
          /\ fd' = [fd EXCEPT ![p] = NoInode]
          /\ flock' = [flock EXCEPT ![p] = "none"]
          /\ UNCHANGED <<call, upgrading, disk>>
      BY <1>5, <2>2 DEF Stat
    <3> HIDE DEF back
    <3> QED
      BY <3>1, <3>2
  <2> QED
    BY <2>1, <2>2
<1>6. ASSUME NEW p \in Procs, GiveUp(p) PROVE IInv'
  BY <1>6 DEF GiveUp
<1>7. ASSUME NEW p \in Procs, Unlock(p) \/ ToExclusive(p) PROVE IInv'
  BY <1>7 DEF Unlock, ToExclusive, Promote, PromotionFails, Compatible
<1>8. ASSUME NEW p \in Procs, Unlink(p) PROVE IInv'
  BY <1>8 DEF Unlink
<1>9. ASSUME NEW p \in Procs, Drop(p) PROVE IInv'
  <2>1. Default \in Calls
    BY DEF Default
  <2>2. /\ call' \in [Procs -> Calls]
        /\ upgrading' = upgrading \ {p}
        /\ \/ pc' = [pc EXCEPT ![p] = "open"]
           \/ pc' = [pc EXCEPT ![p] = "idle"]
        /\ fd' = [fd EXCEPT ![p] = NoInode]
        /\ flock' = [flock EXCEPT ![p] = "none"]
        /\ disk' = disk
    BY <1>9, <2>1 DEF Drop
  <2> HIDE DEF Calls
  <2> QED
    BY <2>2
<1>10. ASSUME NEW p \in Procs, Crash(p) PROVE IInv'
  BY <1>10 DEF Crash
<1>11. CASE UNCHANGED vars
  BY <1>11 DEF vars
<1> QED
  BY <1>1, <1>2, <1>3, <1>4, <1>5, <1>6, <1>7, <1>8, <1>9, <1>10, <1>11
  DEF Next, Continue

\* Exclusion and ownership follow from the inductive invariant.
LEMMA IInvSafe == IInv => MutualExclusion /\ UnlinksOwnFile
BY DEF IInv, TypeOK, FdInv, FlockInv, OnDiskInv, MutualExclusion,
       UnlinksOwnFile, Writers, Holds, Pcs

\* The inductive invariant is an invariant of the specification.
THEOREM SpecIInv == Spec => []IInv
BY InitIInv, NextIInv, PTL DEF Spec

\* An exclusive lock returned by lockfile() is the only lock returned.
THEOREM SpecMutualExclusion == Spec => []MutualExclusion
BY SpecIInv, IInvSafe, PTL

\* unlockfile() never removes another process' lock file.
THEOREM SpecUnlinksOwnFile == Spec => []UnlinksOwnFile
BY SpecIInv, IInvSafe, PTL

\* The variables keep their types.
THEOREM SpecTypeOK == Spec => []TypeOK
<1>1. IInv => TypeOK
  BY DEF IInv
<1> QED
  BY SpecIInv, <1>1, PTL
=============================================================================
