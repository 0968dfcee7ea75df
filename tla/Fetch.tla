------------------------------- MODULE Fetch --------------------------------
(***************************************************************************)
(* bb.fetch.Fetch: download, unpack and clean of one file in DL_DIR that   *)
(* several tasks share, with its lock file, its done stamp, a premirror    *)
(* and a mirror.  The file is fetched by wget and has a checksum.          *)
(* A checksum is the content that it stands for.                           *)
(***************************************************************************)
EXTENDS Integers, FiniteSets

CONSTANTS
    Tasks,      \* do_fetch, do_unpack and do_cleanall of recipes with this file
    Contents,   \* what the file may hold
    Recipes,    \* checksums that the tasks' recipes have for it: functions
    Mirrors,    \* pairs of "none", "http", "file": entries of PREMIRRORS, MIRRORS
    None,       \* no file, no stamp, no checksum
    Empty,      \* a done stamp without checksums
    MaxCalls,   \* bound: calls of each task, a function
    MaxDeaths   \* bound: how often a task is killed

ASSUME FetchAssumption ==
    /\ Recipes \subseteq [Tasks -> Contents]
    /\ Mirrors \subseteq {"none", "http", "file"} \X {"none", "http", "file"}
    /\ None \notin Contents /\ Empty \notin Contents \cup {None}
    /\ MaxCalls \in [Tasks -> Nat] /\ MaxDeaths \in Nat

VARIABLES
    expected,   \* the checksum in each task's recipe
    mirrors,    \* what PREMIRRORS and MIRRORS have for the file
    site,       \* the file that a file:// mirror has
    file,       \* the file in DL_DIR
    stamp,      \* its done stamp: None, Empty or a checksum
    newer,      \* the done stamp is younger than the file
    lock,       \* each task's hold on the lock file: "none", "sh", "ex"
    pc,         \* each task's place
    at,         \* the call of verify_donestamp or update_stamp it is in
    pre,        \* precomputed checksum, from the done stamp
    done,       \* done of download()
    last,       \* how each task's last call ended
    calls, deaths

disk == <<file, stamp, newer>>
vars == <<expected, mirrors, site, disk, lock, pc, at, pre, done, last, calls, deaths>>

Init ==
    /\ expected \in Recipes
    /\ mirrors \in Mirrors
    /\ site \in IF "file" \in {mirrors[1], mirrors[2]} THEN Contents ELSE {None}
    /\ file \in Contents \cup {None}
    /\ stamp \in Contents \cup {None, Empty}   \* older than a file that a user replaced
    /\ newer \in IF stamp \in {Empty, file} \ {None} THEN BOOLEAN ELSE {FALSE}
    /\ lock = [t \in Tasks |-> "none"]
    /\ pc = [t \in Tasks |-> "idle"]
    /\ at = [t \in Tasks |-> "first"]
    /\ pre = [t \in Tasks |-> None]
    /\ done = [t \in Tasks |-> FALSE]
    /\ last = [t \in Tasks |-> "none"]
    /\ calls = [t \in Tasks |-> 0]
    /\ deaths = 0

Place(t, p) == pc' = [pc EXCEPT ![t] = p]
Call(t, a, p) == at' = [at EXCEPT ![t] = a] /\ Place(t, p)
Done(t, b) == done' = [done EXCEPT ![t] = b]

\* A file put into place has the time of its source, or the present one.
Put(content) ==
    /\ file' = content
    /\ newer' \in IF stamp = None THEN {FALSE} ELSE BOOLEAN

NoDisk == UNCHANGED disk
Rest == UNCHANGED <<expected, mirrors, calls, deaths>>

\* The call ends, in one way or another, and drops the lock (finally).
Ends(t, how) ==
    /\ lock' = [lock EXCEPT ![t] = "none"]
    /\ last' = [last EXCEPT ![t] = how]
    /\ Place(t, "idle")
    /\ pre' = [pre EXCEPT ![t] = None] /\ Done(t, FALSE)
    /\ at' = [at EXCEPT ![t] = "first"]
    /\ Rest

-----------------------------------------------------------------------------
(* download: its lock and its order of sources *)

Download(t) ==
    /\ pc[t] = "idle" /\ calls[t] < MaxCalls[t]
    /\ calls' = [calls EXCEPT ![t] = @ + 1]
    /\ Place(t, "share")
    /\ UNCHANGED <<expected, mirrors, site, disk, lock, at, pre, done, last, deaths>>

LockShared(t) ==
    /\ pc[t] = "share" /\ \A u \in Tasks : lock[u] # "ex"
    /\ lock' = [lock EXCEPT ![t] = "sh"]
    /\ Call(t, "first", "check")
    /\ NoDisk /\ Rest /\ UNCHANGED <<site, pre, done, last>>

\* Faulty variant: the shared lock is made exclusive as it is.
UpgradeInPlace(t) ==
    /\ pc[t] = "upgrade"
    /\ Place(t, "exclude")
    /\ NoDisk /\ Rest /\ UNCHANGED <<site, lock, at, pre, done, last>>

\* lockfile_to_exclusive lets go first.
Upgrade(t) ==
    /\ pc[t] = "upgrade"
    /\ lock' = [lock EXCEPT ![t] = "none"]
    /\ Place(t, "exclude")
    /\ NoDisk /\ Rest /\ UNCHANGED <<site, at, pre, done, last>>

LockExclusive(t) ==
    /\ pc[t] \in {"exclude", "clean"} /\ \A u \in Tasks \ {t} : lock[u] = "none"
    /\ lock' = [lock EXCEPT ![t] = "ex"]
    /\ Place(t, IF pc[t] = "exclude" THEN "premirror" ELSE "cleaning")
    /\ NoDisk /\ Rest /\ UNCHANGED <<site, at, pre, done, last>>

\* try_mirrors: the first thing done with an entry depends on its kind.
TryMirror(t, kind, when, otherwise) ==
    CASE kind = "none" -> Place(t, otherwise) /\ UNCHANGED at
      [] kind = "http" -> Call(t, when, "check")
      [] kind = "file" -> Call(t, when, "link")

Premirror(t) ==
    /\ pc[t] = "premirror"
    /\ TryMirror(t, mirrors[1], "pre", "upstream")
    /\ NoDisk /\ Rest /\ UNCHANGED <<site, lock, pre, done, last>>

Mirror(t) ==
    /\ pc[t] = "mirror"
    /\ TryMirror(t, mirrors[2], "mir", "finish")
    /\ NoDisk /\ Rest /\ UNCHANGED <<site, lock, pre, done, last>>

\* What try_mirrors gave; PREMIRRORS' file is verified again.
Mirrored(t, found) ==
    /\ Done(t, found)
    /\ IF at[t] \in {"pre", "preStamp"}
       THEN IF found THEN Call(t, "again", "check")
                     ELSE Place(t, "upstream") /\ UNCHANGED at
       ELSE Place(t, "finish") /\ UNCHANGED at

\* Wget.download verifies the file before it puts it into place.
Upstream(t) ==
    /\ pc[t] = "upstream"
    /\ Put(expected[t]) /\ UNCHANGED stamp
    /\ Done(t, TRUE)
    /\ Call(t, "downStamp", "update")
    /\ Rest /\ UNCHANGED <<site, lock, pre, last>>

\* It fails, or the checksum is wrong: what is in place is renamed or removed.
UpstreamFails(t) ==
    /\ pc[t] = "upstream"
    /\ file' = None
    /\ Place(t, "mirror")
    /\ Rest /\ UNCHANGED <<site, stamp, newer, lock, at, pre, done, last>>

Finish(t) ==
    /\ pc[t] = "finish" /\ NoDisk /\ UNCHANGED site
    /\ \/ /\ ~done[t] \/ file = None
          /\ Ends(t, "failed")
       \/ /\ done[t] /\ file # None
          /\ Call(t, "endStamp", "update")
          /\ Rest /\ UNCHANGED <<lock, pre, done, last>>

-----------------------------------------------------------------------------
(* try_mirror_url *)

\* A mirror's file, of which the recipe's checksum is not verified here.
GetMirror(t) ==
    /\ pc[t] = "get"
    /\ \E c \in Contents : Put(c)
    /\ Mirrored(t, TRUE)
    /\ Rest /\ UNCHANGED <<stamp, site, lock, pre, last>>

GetMirrorFails(t) ==
    /\ pc[t] = "get"
    /\ file' = None
    /\ Mirrored(t, FALSE)
    /\ Rest /\ UNCHANGED <<stamp, newer, site, lock, pre, last>>

\* A file:// mirror gets a link, unless there is a file.
Link(t) ==
    /\ pc[t] = "link" /\ site # None
    /\ IF file = None THEN Put(site) ELSE UNCHANGED <<file, newer>>
    /\ Call(t, IF at[t] = "pre" THEN "preStamp" ELSE "mirStamp", "update")
    /\ Rest /\ UNCHANGED <<stamp, site, lock, pre, done, last>>

NoLink(t) ==
    /\ pc[t] = "link" /\ site = None
    /\ Mirrored(t, FALSE)
    /\ NoDisk /\ Rest /\ UNCHANGED <<site, lock, pre, last>>

-----------------------------------------------------------------------------
(* verify_donestamp, update_stamp and verify_checksum *)

\* A mirror's own URL has no checksum to compare with (ignore_checksums).
Ignores(t) == at[t] \in {"pre", "mir"}
Updates(t) == at[t] \in {"preStamp", "mirStamp", "downStamp", "endStamp"}

\* verify_donestamp is false: the caller goes for the file.
NotVerified(t) ==
    CASE at[t] = "first" -> "upgrade"
      [] at[t] = "again" -> "finish"
      [] OTHER -> "get"

Check(t) ==
    /\ pc[t] = "check"
    /\ IF file = None
       THEN stamp' = None /\ newer' = FALSE /\ Place(t, NotVerified(t))
       ELSE UNCHANGED <<stamp, newer>> /\ Place(t, "stamp")
    /\ Rest /\ UNCHANGED <<file, site, lock, at, pre, done, last>>

\* Faulty variant: it counts whatever its age.
ReadStampOld(t) ==
    /\ pc[t] = "stamp" /\ (stamp = None \/ file # None)
    /\ pre' = [pre EXCEPT ![t] = IF stamp # Empty THEN stamp ELSE None]
    /\ Place(t, "sum")
    /\ NoDisk /\ Rest /\ UNCHANGED <<site, lock, at, done, last>>

\* The stamp's checksum counts only if it is younger than the file.
ReadStamp(t) ==
    /\ pc[t] = "stamp" /\ (stamp = None \/ file # None)
    /\ pre' = [pre EXCEPT ![t] = IF newer /\ stamp # Empty THEN stamp ELSE None]
    /\ Place(t, "sum")
    /\ NoDisk /\ Rest /\ UNCHANGED <<site, lock, at, done, last>>

\* The file has been renamed meanwhile: no exception that is caught.
Vanished(t) ==
    /\ file = None
    /\ \/ pc[t] = "stamp" /\ stamp # None
       \/ pc[t] = "sum" /\ pre[t] = None /\ ~Ignores(t)
    /\ Ends(t, "raised")
    /\ NoDisk /\ UNCHANGED site

\* The call was true, or returned.
Verified(t) ==
    CASE at[t] \in {"first", "pre", "mir"} -> Place(t, "present")
      [] at[t] = "again" -> Place(t, "finish")
      [] at[t] \in {"preStamp", "mirStamp"} -> Place(t, "linked")
      [] at[t] = "downStamp" -> Place(t, "finish")
      [] at[t] = "endStamp" -> Place(t, "success")

Checksum(t) == IF pre[t] = None THEN file ELSE pre[t]

\* A checksum other than the stamp's is written there; {} for a mirror's file.
Sum(t) ==
    /\ pc[t] = "sum"
    /\ \/ Ignores(t) /\ (IF pre[t] = None THEN Place(t, "present") ELSE Place(t, "trunc"))
       \/ /\ ~Ignores(t) /\ Checksum(t) = expected[t]
          /\ IF pre[t] = None THEN Place(t, "trunc") ELSE Verified(t)
       \/ /\ ~Ignores(t) /\ Checksum(t) \notin {expected[t], None}
          /\ Place(t, "bad")
    /\ NoDisk /\ Rest /\ UNCHANGED <<site, lock, at, pre, done, last>>

\* open(ud.donestamp, "wb"), and then the checksums; not of a stamp that
\* another task has removed meanwhile.
Truncate(t) ==
    /\ pc[t] = "trunc"
    /\ stamp' = Empty /\ newer' \in BOOLEAN
    /\ Place(t, "dump")
    /\ Rest /\ UNCHANGED <<file, site, lock, at, pre, done, last>>

Dump(t) ==
    /\ pc[t] = "dump"
    /\ IF stamp = None \/ Ignores(t)
       THEN UNCHANGED <<stamp, newer>>
       ELSE stamp' = expected[t] /\ newer' \in BOOLEAN
    /\ Verified(t)
    /\ Rest /\ UNCHANGED <<file, site, lock, at, pre, done, last>>

\* rename_bad_checksum
Rename(t) ==
    /\ pc[t] = "bad"
    /\ file' = None
    /\ Place(t, "unstamp")
    /\ Rest /\ UNCHANGED <<stamp, newer, site, lock, at, pre, done, last>>

\* The stamp goes after the file; update_stamp raises ChecksumError, upon
\* which a mirror's own file is renamed, if it can be.  (What Wget.download
\* has verified does not come here.)
Unstamp(t) ==
    /\ pc[t] = "unstamp"
    /\ stamp' = None /\ newer' = FALSE
    /\ site' \in IF at[t] \in {"preStamp", "mirStamp"} THEN {site, None} ELSE {site}
    /\ UNCHANGED file
    /\ \/ /\ ~Updates(t) /\ Place(t, NotVerified(t))
          /\ Rest /\ UNCHANGED <<lock, at, pre, done, last>>
       \/ /\ at[t] \in {"preStamp", "mirStamp"} /\ Mirrored(t, FALSE)
          /\ Rest /\ UNCHANGED <<lock, pre, last>>
       \/ /\ at[t] = "endStamp" /\ Ends(t, "failed")

\* update_stamp: a stamp that exists is only made younger.
Update(t) ==
    /\ pc[t] = "update"
    /\ pre' = [pre EXCEPT ![t] = None]
    /\ IF stamp = None
       THEN Place(t, "sum") /\ UNCHANGED newer
       ELSE Verified(t) /\ newer' \in {newer, TRUE}
    /\ Rest /\ UNCHANGED <<file, stamp, site, lock, at, done, last>>

\* need_update of a file that was verified
Present(t) ==
    /\ pc[t] = "present"
    /\ \/ /\ file = None
          /\ Place(t, NotVerified(t)) /\ UNCHANGED <<at, done>>
       \/ /\ file # None /\ at[t] = "first"
          /\ Done(t, TRUE) /\ Call(t, "again", "check")
       \/ /\ file # None /\ at[t] # "first"
          /\ Mirrored(t, TRUE)
    /\ NoDisk /\ Rest /\ UNCHANGED <<site, lock, pre, last>>

Linked(t) ==
    /\ pc[t] = "linked"
    /\ Mirrored(t, TRUE)
    /\ NoDisk /\ Rest /\ UNCHANGED <<site, lock, pre, last>>

\* download() has done this URL.
Succeed(t) ==
    /\ pc[t] = "success"
    /\ Ends(t, "fetched")
    /\ NoDisk /\ UNCHANGED site

-----------------------------------------------------------------------------
(* unpack and clean *)

Unpack(t) ==
    /\ pc[t] = "idle" /\ last[t] = "fetched"
    /\ Place(t, "unpack")
    /\ UNCHANGED <<expected, mirrors, site, disk, lock, at, pre, done, last, calls, deaths>>

\* Faulty variant: the file is read without the lock.
UnpackLocksNot(t) ==
    /\ pc[t] = "unpack"
    /\ Place(t, "unpacking")
    /\ NoDisk /\ Rest /\ UNCHANGED <<site, lock, at, pre, done, last>>

UnpackLocks(t) ==
    /\ pc[t] = "unpack" /\ \A u \in Tasks : lock[u] # "ex"
    /\ lock' = [lock EXCEPT ![t] = "sh"]
    /\ Place(t, "unpacking")
    /\ NoDisk /\ Rest /\ UNCHANGED <<site, at, pre, done, last>>

Unpacked(t) ==
    /\ pc[t] = "unpacking"
    /\ Ends(t, "unpacked")
    /\ NoDisk /\ UNCHANGED site

Clean(t) ==
    /\ pc[t] = "idle" /\ calls[t] < MaxCalls[t]
    /\ calls' = [calls EXCEPT ![t] = @ + 1]
    /\ Place(t, "clean")
    /\ UNCHANGED <<expected, mirrors, site, disk, lock, at, pre, done, last, deaths>>

\* The file, and then the stamp, are removed under the exclusive lock.
CleanFile(t) ==
    /\ pc[t] = "cleaning"
    /\ file' = None
    /\ Place(t, "cleaned")
    /\ Rest /\ UNCHANGED <<stamp, newer, site, lock, at, pre, done, last>>

CleanStamp(t) ==
    /\ pc[t] = "cleaned"
    /\ stamp' = None /\ newer' = FALSE
    /\ Ends(t, "cleaned")
    /\ UNCHANGED <<file, site>>

\* The task is killed; the system drops its lock.
Die(t) ==
    /\ pc[t] # "idle" /\ deaths < MaxDeaths
    /\ deaths' = deaths + 1
    /\ lock' = [lock EXCEPT ![t] = "none"]
    /\ last' = [last EXCEPT ![t] = "died"]
    /\ Call(t, "first", "idle")
    /\ pre' = [pre EXCEPT ![t] = None] /\ Done(t, FALSE)
    /\ NoDisk /\ UNCHANGED <<expected, mirrors, site, calls>>

-----------------------------------------------------------------------------
Locks(t) ==
    LockShared(t) \/ Upgrade(t) \/ LockExclusive(t) \/ UnpackLocks(t)

Sources(t) ==
    \/ Premirror(t) \/ Mirror(t) \/ Upstream(t) \/ UpstreamFails(t) \/ Finish(t) \/ Succeed(t)
    \/ GetMirror(t) \/ GetMirrorFails(t) \/ Link(t) \/ NoLink(t) \/ Present(t) \/ Linked(t)

Stamps(t) ==
    \/ Check(t) \/ ReadStamp(t) \/ Vanished(t) \/ Sum(t) \/ Truncate(t) \/ Dump(t)
    \/ Rename(t) \/ Unstamp(t) \/ Update(t)

Step(t) ==
    Locks(t) \/ Sources(t) \/ Stamps(t) \/ Unpacked(t) \/ CleanFile(t) \/ CleanStamp(t)

Next == \E t \in Tasks : Step(t) \/ Download(t) \/ Unpack(t) \/ Clean(t) \/ Die(t)

Spec == Init /\ [][Next]_vars

\* A call that was made goes on whenever it can; calls need not be made.
FairSpec == Spec /\ \A t \in Tasks : WF_vars(Step(t))

-----------------------------------------------------------------------------
(* Properties *)

\* Only a web server's files replace the one in DL_DIR; all recipes want one.
FromWeb == "file" \notin {mirrors[1], mirrors[2]}
Agree == \A t, u \in Tasks : expected[t] = expected[u]

\* A fetch that succeeds leaves the file that the recipe's checksum is of,
\* from wherever it came.
SuccessIsGood ==
    FromWeb /\ Agree => \A t \in Tasks : pc[t] = "success" => file = expected[t]

\* The same with any mirror: "this function update the stamp after verifying
\* the checksum" (fetch/__init__.py:753).
AlwaysVerified ==
    Agree => \A t \in Tasks : pc[t] = "success" => file = expected[t]

\* No task takes or replaces a good file while another unpacks it, though the
\* lock of both is shared while the first one verifies it.
UnpackStable ==
    [][Agree => \A t \in Tasks :
          pc[t] = "unpacking" /\ file = expected[t] => file' = file]_vars

\* Each call ends: tasks that all want the lock for themselves get it in turn.
CallsEnd == \A t \in Tasks : pc[t] # "idle" ~> pc[t] = "idle"
=============================================================================
