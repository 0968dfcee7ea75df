----------------------------- MODULE FetchProofs -----------------------------
(***************************************************************************)
(* Fetch, for any number of tasks, contents, calls and deaths: a download  *)
(* that succeeds leaves the file its recipe's checksum is of, and no good  *)
(* file goes while it is unpacked.                                         *)
(*                                                                         *)
(* Both rest on where a task has the lock, and on three facts about the    *)
(* done stamp when all recipes agree: once any task has looked at it, it   *)
(* says nothing else than they do; before that, one that is younger than   *)
(* the file is of that file; so a file that is found wrong is wrong.       *)
(***************************************************************************)
EXTENDS Fetch, TLAPS

-----------------------------------------------------------------------------
(* Types, the lock, and the calls of verify_donestamp and update_stamp *)

Places == {"idle", "share", "check", "stamp", "sum", "trunc", "dump", "bad", "unstamp",
           "present", "upgrade", "exclude", "premirror", "upstream", "mirror", "get", "link", "linked",
           "update", "finish", "success", "unpack", "unpacking", "clean", "cleaning", "cleaned"}
Ats == {"first", "again", "pre", "mir", "preStamp", "mirStamp", "downStamp", "endStamp"}
TypeOK ==
    /\ expected \in [Tasks -> Contents]
    /\ file \in Contents \cup {None} /\ site \in Contents \cup {None}
    /\ stamp \in Contents \cup {None, Empty}
    /\ mirrors \in {"none", "http", "file"} \X {"none", "http", "file"}
    /\ lock \in [Tasks -> {"none", "sh", "ex"}]
    /\ pc \in [Tasks -> Places] /\ at \in [Tasks -> Ats]
    /\ pre \in [Tasks -> Contents \cup {None}]
\* Who has the lock for itself is alone with it.
OnlyWriter == \A t, u \in Tasks : lock[t] = "ex" /\ u # t => lock[u] = "none"
\* Where a task has no lock, and where it is alone with it.
Unlocked == {"idle", "share", "exclude", "unpack", "clean"}
Alone == {"premirror", "upstream", "mirror", "get", "link", "linked", "cleaning", "cleaned"}
LockOK ==
    \A t \in Tasks :
       /\ pc[t] \notin Unlocked => lock[t] # "none"
       /\ pc[t] \in Alone => lock[t] = "ex"
       /\ at[t] \in {"pre", "mir", "preStamp", "mirStamp", "downStamp"} => lock[t] = "ex"
       /\ pc[t] = "finish" /\ at[t] = "first" => lock[t] = "ex"
\* Which call of verify_donestamp or update_stamp leads where.
AtOK ==
    \A t \in Tasks :
       /\ pc[t] \in Unlocked \cup {"cleaning", "cleaned", "unpacking", "upgrade"} => at[t] = "first"
       /\ pc[t] \in {"check", "stamp"} => at[t] \in {"first", "again", "pre", "mir"}
       /\ pc[t] = "present" => at[t] \in {"first", "pre", "mir"}
       /\ pc[t] \in {"premirror", "upstream", "mirror"} => at[t] \in {"first", "pre", "preStamp"}
       /\ pc[t] \in {"get", "link"} => at[t] \in {"pre", "mir"}
       /\ pc[t] = "linked" => at[t] \in {"preStamp", "mirStamp"}
       /\ pc[t] = "update" => at[t] \in {"preStamp", "mirStamp", "downStamp", "endStamp"}
       /\ pc[t] = "success" => at[t] = "endStamp"

-----------------------------------------------------------------------------
(* The done stamp, when all recipes agree *)

\* It says nothing else than a recipe.  Looked: the task knows that, because it
\* has removed or written the stamp, or has found the recipe's checksum in it.
Ours == \A t \in Tasks : stamp \in {None, Empty, expected[t]}
Looked(t) ==
    \/ at[t] # "first"
    \/ pc[t] \in {"dump", "present", "upgrade", "exclude",
                  "premirror", "upstream", "mirror", "finish"}
    \/ pc[t] = "sum" /\ pre[t] = expected[t]
StampOurs == \A t \in Tasks : Looked(t) => Ours
\* A checksum of an earlier recipe counts only for a file that it is of.
OldStamp == ~Ours /\ newer /\ file # None => stamp \in {file, Empty}
\* A file is renamed only if it is not what the recipes want.
WrongIsWrong ==
    \A t \in Tasks :
       /\ pc[t] = "sum" /\ pre[t] \notin {None, expected[t]} => file # expected[t]
       /\ pc[t] = "bad" => file # expected[t]

-----------------------------------------------------------------------------
(* The file, when it comes from web servers only and all recipes agree *)

WebOnly ==
    \A t \in Tasks : pc[t] \notin {"link", "linked"} /\ at[t] \notin {"preStamp", "mirStamp"}
\* What a task that is alone with the file knows of it.
AloneOK ==
    \A t \in Tasks :
       /\ at[t] = "mir" => pc[t] \in {"check", "get", "finish"}
       /\ pc[t] = "mirror" \/ (at[t] = "mir" /\ pc[t] = "check") => file = None
       /\ at[t] = "pre" /\ pc[t] \in {"stamp", "sum", "trunc", "dump", "present"} => file # None
       /\ pc[t] = "get" => stamp = None
\* A stamp that counts is of the file.
TrueStamp == newer /\ stamp \in Contents /\ file # None => file = stamp
\* The task has seen that the file is good: its checksum, or a stamp that counts.
Seen(t) ==
   \/ pc[t] = "sum" /\ pre[t] = expected[t]
   \/ pc[t] \in {"trunc", "dump"} /\ ~Ignores(t)
   \/ pc[t] = "present" /\ at[t] = "first"
   \/ at[t] = "downStamp"
   \/ pc[t] = "success"
\* A file that is to be verified by the update_stamp to come.
New(t) == stamp = None /\ lock[t] = "ex"
\* It stays good until the task is done with it.
GoodFile ==
    \A t \in Tasks :
       /\ Seen(t) => file = expected[t]
       /\ pc[t] = "unstamp" => file = None
       /\ pc[t] = "finish" => file \in {expected[t], None} \/ New(t)
       /\ pc[t] = "update" => file = expected[t] \/ New(t)
-----------------------------------------------------------------------------
(* What the operators with cases do *)

\* A mirror is not there, is asked, or gives a link.
LEMMA TryMirrorGoes ==
    ASSUME TypeOK, NEW t, NEW i \in {1, 2}, NEW when, NEW otherwise,
           TryMirror(t, mirrors[i], when, otherwise)
    PROVE  \/ Place(t, otherwise) /\ UNCHANGED at
           \/ Call(t, when, "check")
           \/ mirrors[i] = "file" /\ Call(t, when, "link")
<1>1. mirrors[i] \in {"none", "http", "file"}
  BY DEF TypeOK
<1> QED
  BY <1>1 DEF TryMirror

\* Where a call of verify_donestamp that is false leads ...
LEMMA NotVerifiedIs ==
    ASSUME NEW t PROVE
    \/ at[t] = "first" /\ NotVerified(t) = "upgrade"
    \/ at[t] = "again" /\ NotVerified(t) = "finish"
    \/ at[t] \notin {"first", "again"} /\ NotVerified(t) = "get"
BY DEF NotVerified

\* ... and one that is true, or an update_stamp that returns.
LEMMA VerifiedGoes ==
    ASSUME TypeOK, NEW t \in Tasks, Verified(t)
    PROVE  \/ at[t] \in {"first", "pre", "mir"} /\ Place(t, "present")
           \/ at[t] \in {"again", "downStamp"} /\ Place(t, "finish")
           \/ at[t] \in {"preStamp", "mirStamp"} /\ Place(t, "linked")
           \/ at[t] = "endStamp" /\ Place(t, "success")
<1>1. at[t] \in Ats
  BY DEF TypeOK
<1> QED
  BY <1>1 DEF Verified, Ats

-----------------------------------------------------------------------------
(* The invariant, one step per action *)

Base == TypeOK /\ OnlyWriter /\ LockOK /\ AtOK
Stamped == StampOurs /\ OldStamp /\ WrongIsWrong
FromServers == WebOnly /\ AloneOK /\ TrueStamp /\ GoodFile

\* A step keeps the types.
LEMMA TypeStep ==
    ASSUME TypeOK, NEW t \in Tasks,
           Step(t) \/ Download(t) \/ Unpack(t) \/ Clean(t) \/ Die(t)
    PROVE  TypeOK'
<1> USE FetchAssumption DEF TypeOK, Places, Ats, disk, NoDisk, Rest
<1>1. CASE LockShared(t)
  BY <1>1 DEF LockShared, Call, Place
<1>2. CASE Upgrade(t)
  BY <1>2 DEF Upgrade, Place
<1>3. CASE LockExclusive(t)
  BY <1>3 DEF LockExclusive, Place
<1>4. CASE UnpackLocks(t)
  BY <1>4 DEF UnpackLocks, Place
<1>5. CASE Premirror(t)
  BY <1>5, TryMirrorGoes DEF Premirror, Call, Place
<1>6. CASE Mirror(t)
  BY <1>6, TryMirrorGoes DEF Mirror, Call, Place
<1>7. CASE Upstream(t)
  BY <1>7 DEF Upstream, Put, Done, Call, Place
<1>8. CASE UpstreamFails(t)
  BY <1>8 DEF UpstreamFails, Place
<1>9. CASE Finish(t)
  BY <1>9 DEF Finish, Ends, Done, Call, Place
<1>10. CASE Succeed(t)
  BY <1>10 DEF Succeed, Ends, Done, Place
<1>11. CASE GetMirror(t)
  BY <1>11 DEF GetMirror, Put, Mirrored, Done, Call, Place
<1>12. CASE GetMirrorFails(t)
  BY <1>12 DEF GetMirrorFails, Mirrored, Done, Call, Place
<1>13. CASE Link(t)
  BY <1>13 DEF Link, Put, Call, Place
<1>14. CASE NoLink(t)
  BY <1>14 DEF NoLink, Mirrored, Done, Call, Place
<1>15. CASE Present(t)
  <2>1. CASE file = None
    BY <1>15, <2>1, NotVerifiedIs DEF Present, Place
  <2>2. CASE file # None /\ at[t] = "first"
    BY <1>15, <2>2 DEF Present, Done, Call, Place
  <2>3. CASE file # None /\ at[t] # "first"
    BY <1>15, <2>3 DEF Present, Mirrored, Done, Call, Place
  <2> QED
    BY <2>1, <2>2, <2>3
<1>16. CASE Linked(t)
  BY <1>16 DEF Linked, Mirrored, Done, Call, Place
<1>17. CASE Check(t)
  <2>1. CASE file = None
    BY <1>17, <2>1, NotVerifiedIs DEF Check, Place
  <2>2. CASE file # None
    BY <1>17, <2>2 DEF Check, Place
  <2> QED
    BY <2>1, <2>2
<1>18. CASE ReadStamp(t)
  BY <1>18 DEF ReadStamp, Place
<1>19. CASE Vanished(t)
  BY <1>19 DEF Vanished, Ends, Done, Place
<1>20. CASE Sum(t)
  BY <1>20, VerifiedGoes DEF Sum, Ignores, Checksum, Place
<1>21. CASE Truncate(t)
  BY <1>21 DEF Truncate, Place
<1>22. CASE Dump(t)
  BY <1>22, VerifiedGoes DEF Dump, Place
<1>23. CASE Rename(t)
  BY <1>23 DEF Rename, Place
<1>24. CASE Unstamp(t)
  <2>1. CASE ~Updates(t)
    <3>1. /\ pc[t] = "unstamp" /\ Place(t, NotVerified(t)) /\ stamp' = None /\ site' = site
          /\ UNCHANGED <<expected, mirrors, file, lock, at, pre>>
      BY <1>24, <2>1 DEF Unstamp, Updates
    <3> QED
      BY <2>1, <3>1, NotVerifiedIs DEF Updates, Place
  <2>2. CASE at[t] \in {"preStamp", "mirStamp"}
    BY <1>24, <2>2 DEF Unstamp, Updates, Mirrored, Done, Call, Place
  <2>3. CASE at[t] = "endStamp"
    BY <1>24, <2>3 DEF Unstamp, Updates, Ends, Done, Place
  <2> QED
    BY <1>24, <2>1, <2>2, <2>3 DEF Unstamp
<1>25. CASE Update(t)
  <2>1. CASE stamp = None
    BY <1>25, <2>1 DEF Update, Place
  <2>2. CASE stamp # None
    <3>1. Verified(t)
      BY <1>25, <2>2 DEF Update
    <3> QED
      BY <1>25, <3>1, VerifiedGoes DEF Update, Place
  <2> QED
    BY <2>1, <2>2
<1>26. CASE Unpacked(t)
  BY <1>26 DEF Unpacked, Ends, Done, Place
<1>27. CASE CleanFile(t)
  BY <1>27 DEF CleanFile, Place
<1>28. CASE CleanStamp(t)
  BY <1>28 DEF CleanStamp, Ends, Done, Place
<1>29. CASE Download(t)
  BY <1>29 DEF Download, Place
<1>30. CASE Unpack(t)
  BY <1>30 DEF Unpack, Place
<1>31. CASE Clean(t)
  BY <1>31 DEF Clean, Place
<1>32. CASE Die(t)
  BY <1>32 DEF Die, Done, Call, Place
<1> QED
  BY <1>1, <1>2, <1>3, <1>4, <1>5, <1>6, <1>7, <1>8, <1>9, <1>10, <1>11, <1>12, <1>13,
     <1>14, <1>15, <1>16, <1>17, <1>18, <1>19, <1>20, <1>21, <1>22, <1>23, <1>24, <1>25,
     <1>26, <1>27, <1>28, <1>29, <1>30, <1>31, <1>32 DEF Step, Locks, Sources, Stamps

\* Recipes and mirrors stay as they are.
LEMMA SameRecipes ==
    ASSUME NEW t \in Tasks,
           Step(t) \/ Download(t) \/ Unpack(t) \/ Clean(t) \/ Die(t)
    PROVE  UNCHANGED <<expected, mirrors>>
<1> USE DEF Rest, Ends
<1>1. CASE LockShared(t)
  BY <1>1 DEF LockShared, Call, Place
<1>2. CASE Upgrade(t)
  BY <1>2 DEF Upgrade, Place
<1>3. CASE LockExclusive(t)
  BY <1>3 DEF LockExclusive, Place
<1>4. CASE UnpackLocks(t)
  BY <1>4 DEF UnpackLocks, Place
<1>5. CASE Premirror(t)
  BY <1>5 DEF Premirror, TryMirror, Call, Place
<1>6. CASE Mirror(t)
  BY <1>6 DEF Mirror, TryMirror, Call, Place
<1>7. CASE Upstream(t)
  BY <1>7 DEF Upstream, Put, Done, Call, Place
<1>8. CASE UpstreamFails(t)
  BY <1>8 DEF UpstreamFails, Place
<1>9. CASE Finish(t)
  BY <1>9 DEF Finish, Ends, Done, Call, Place
<1>10. CASE Succeed(t)
  BY <1>10 DEF Succeed, Ends, Done, Place
<1>11. CASE GetMirror(t)
  BY <1>11 DEF GetMirror, Put, Mirrored, Done, Call, Place
<1>12. CASE GetMirrorFails(t)
  BY <1>12 DEF GetMirrorFails, Mirrored, Done, Call, Place
<1>13. CASE Link(t)
  BY <1>13 DEF Link, Put, Call, Place
<1>14. CASE NoLink(t)
  BY <1>14 DEF NoLink, Mirrored, Done, Call, Place
<1>15. CASE Present(t)
  BY <1>15 DEF Present, NotVerified, Mirrored, Done, Call, Place
<1>16. CASE Linked(t)
  BY <1>16 DEF Linked, Mirrored, Done, Call, Place
<1>17. CASE Check(t)
  BY <1>17 DEF Check, NotVerified, Place
<1>18. CASE ReadStamp(t)
  BY <1>18 DEF ReadStamp, Place
<1>19. CASE Vanished(t)
  BY <1>19 DEF Vanished, Ends, Done, Place
<1>20. CASE Sum(t)
  BY <1>20 DEF Sum, Ignores, Checksum, Verified, Place
<1>21. CASE Truncate(t)
  BY <1>21 DEF Truncate, Place
<1>22. CASE Dump(t)
  BY <1>22 DEF Dump, Ignores, Verified, Place
<1>23. CASE Rename(t)
  BY <1>23 DEF Rename, Place
<1>24. CASE Unstamp(t)
  BY <1>24 DEF Unstamp, Updates, NotVerified, Mirrored, Ends, Done, Call, Place
<1>25. CASE Update(t)
  BY <1>25 DEF Update, Verified, Place
<1>26. CASE Unpacked(t)
  BY <1>26 DEF Unpacked, Ends, Done, Place
<1>27. CASE CleanFile(t)
  BY <1>27 DEF CleanFile, Place
<1>28. CASE CleanStamp(t)
  BY <1>28 DEF CleanStamp, Ends, Done, Place
<1>29. CASE Download(t)
  BY <1>29 DEF Download, Place
<1>30. CASE Unpack(t)
  BY <1>30 DEF Unpack, Place
<1>31. CASE Clean(t)
  BY <1>31 DEF Clean, Place
<1>32. CASE Die(t)
  BY <1>32 DEF Die, Done, Call, Place
<1> QED
  BY <1>1, <1>2, <1>3, <1>4, <1>5, <1>6, <1>7, <1>8, <1>9, <1>10, <1>11, <1>12, <1>13,
     <1>14, <1>15, <1>16, <1>17, <1>18, <1>19, <1>20, <1>21, <1>22, <1>23, <1>24, <1>25,
     <1>26, <1>27, <1>28, <1>29, <1>30, <1>31, <1>32 DEF Step, Locks, Sources, Stamps

\* A step keeps the lock with those that need it.
LEMMA LockStep ==
    ASSUME Base, NEW t \in Tasks,
           Step(t) \/ Download(t) \/ Unpack(t) \/ Clean(t) \/ Die(t)
    PROVE  OnlyWriter' /\ LockOK' /\ AtOK'
<1> USE DEF Base, TypeOK, Ats, OnlyWriter, LockOK, AtOK, Unlocked, Alone, disk, NoDisk,
            Rest
<1>1. CASE LockShared(t)
  BY <1>1 DEF LockShared, Call, Place
<1>2. CASE Upgrade(t)
  BY <1>2 DEF Upgrade, Place
<1>3. CASE LockExclusive(t)
  BY <1>3 DEF LockExclusive, Place
<1>4. CASE UnpackLocks(t)
  BY <1>4 DEF UnpackLocks, Place
<1>5. CASE Premirror(t)
  BY <1>5, TryMirrorGoes DEF Premirror, Call, Place
<1>6. CASE Mirror(t)
  BY <1>6, TryMirrorGoes DEF Mirror, Call, Place
<1>7. CASE Upstream(t)
  BY <1>7 DEF Upstream, Put, Done, Call, Place
<1>8. CASE UpstreamFails(t)
  BY <1>8 DEF UpstreamFails, Place
<1>9. CASE Finish(t)
  BY <1>9 DEF Finish, Ends, Done, Call, Place
<1>10. CASE Succeed(t)
  BY <1>10 DEF Succeed, Ends, Done, Place
<1>11. CASE GetMirror(t)
  BY <1>11 DEF GetMirror, Put, Mirrored, Done, Call, Place
<1>12. CASE GetMirrorFails(t)
  BY <1>12 DEF GetMirrorFails, Mirrored, Done, Call, Place
<1>13. CASE Link(t)
  BY <1>13 DEF Link, Put, Call, Place
<1>14. CASE NoLink(t)
  BY <1>14 DEF NoLink, Mirrored, Done, Call, Place
<1>15. CASE Present(t)
  <2>1. CASE file = None
    BY <1>15, <2>1, NotVerifiedIs DEF Present, Place
  <2>2. CASE file # None /\ at[t] = "first"
    BY <1>15, <2>2 DEF Present, Done, Call, Place
  <2>3. CASE file # None /\ at[t] # "first"
    BY <1>15, <2>3 DEF Present, Mirrored, Done, Call, Place
  <2> QED
    BY <2>1, <2>2, <2>3
<1>16. CASE Linked(t)
  BY <1>16 DEF Linked, Mirrored, Done, Call, Place
<1>17. CASE Check(t)
  <2>1. CASE file = None
    BY <1>17, <2>1, NotVerifiedIs DEF Check, Place
  <2>2. CASE file # None
    BY <1>17, <2>2 DEF Check, Place
  <2> QED
    BY <2>1, <2>2
<1>18. CASE ReadStamp(t)
  BY <1>18 DEF ReadStamp, Place
<1>19. CASE Vanished(t)
  BY <1>19 DEF Vanished, Ends, Done, Place
<1>20. CASE Sum(t)
  BY <1>20, VerifiedGoes DEF Sum, Ignores, Checksum, Place
<1>21. CASE Truncate(t)
  BY <1>21 DEF Truncate, Place
<1>22. CASE Dump(t)
  BY <1>22, VerifiedGoes DEF Dump, Place
<1>23. CASE Rename(t)
  BY <1>23 DEF Rename, Place
<1>24. CASE Unstamp(t)
  <2>1. CASE ~Updates(t)
    <3>1. /\ pc[t] = "unstamp" /\ Place(t, NotVerified(t)) /\ stamp' = None /\ site' = site
          /\ UNCHANGED <<expected, mirrors, file, lock, at, pre>>
      BY <1>24, <2>1 DEF Unstamp, Updates
    <3> QED
      BY <2>1, <3>1, NotVerifiedIs DEF Updates, Place
  <2>2. CASE at[t] \in {"preStamp", "mirStamp"}
    BY <1>24, <2>2 DEF Unstamp, Updates, Mirrored, Done, Call, Place
  <2>3. CASE at[t] = "endStamp"
    BY <1>24, <2>3 DEF Unstamp, Updates, Ends, Done, Place
  <2> QED
    BY <1>24, <2>1, <2>2, <2>3 DEF Unstamp
<1>25. CASE Update(t)
  <2>1. CASE stamp = None
    BY <1>25, <2>1 DEF Update, Place
  <2>2. CASE stamp # None
    <3>1. Verified(t)
      BY <1>25, <2>2 DEF Update
    <3> QED
      BY <1>25, <3>1, VerifiedGoes DEF Update, Place
  <2> QED
    BY <2>1, <2>2
<1>26. CASE Unpacked(t)
  BY <1>26 DEF Unpacked, Ends, Done, Place
<1>27. CASE CleanFile(t)
  BY <1>27 DEF CleanFile, Place
<1>28. CASE CleanStamp(t)
  BY <1>28 DEF CleanStamp, Ends, Done, Place
<1>29. CASE Download(t)
  BY <1>29 DEF Download, Place
<1>30. CASE Unpack(t)
  BY <1>30 DEF Unpack, Place
<1>31. CASE Clean(t)
  BY <1>31 DEF Clean, Place
<1>32. CASE Die(t)
  BY <1>32 DEF Die, Done, Call, Place
<1> QED
  BY <1>1, <1>2, <1>3, <1>4, <1>5, <1>6, <1>7, <1>8, <1>9, <1>10, <1>11, <1>12, <1>13,
     <1>14, <1>15, <1>16, <1>17, <1>18, <1>19, <1>20, <1>21, <1>22, <1>23, <1>24, <1>25,
     <1>26, <1>27, <1>28, <1>29, <1>30, <1>31, <1>32 DEF Step, Locks, Sources, Stamps

\* When recipes agree, no stamp but theirs is written, and an old one outlives
\* no look at it.
LEMMA OursStep ==
    ASSUME Agree, Base, Stamped, NEW t \in Tasks,
           Step(t) \/ Download(t) \/ Unpack(t) \/ Clean(t) \/ Die(t)
    PROVE  StampOurs' /\ OldStamp'
<1> USE FetchAssumption DEF Base, TypeOK, Ats, OnlyWriter, LockOK, AtOK, Unlocked,
            Alone, Agree, Stamped, StampOurs, Looked, Ours, OldStamp, WrongIsWrong,
            disk, NoDisk, Rest
<1>1. CASE LockShared(t)
  BY <1>1 DEF LockShared, Call, Place
<1>2. CASE Upgrade(t)
  BY <1>2 DEF Upgrade, Place
<1>3. CASE LockExclusive(t)
  BY <1>3 DEF LockExclusive, Place
<1>4. CASE UnpackLocks(t)
  BY <1>4 DEF UnpackLocks, Place
<1>5. CASE Premirror(t)
  BY <1>5, TryMirrorGoes DEF Premirror, Call, Place
<1>6. CASE Mirror(t)
  BY <1>6, TryMirrorGoes DEF Mirror, Call, Place
<1>7. CASE Upstream(t)
  BY <1>7 DEF Upstream, Put, Done, Call, Place
<1>8. CASE UpstreamFails(t)
  BY <1>8 DEF UpstreamFails, Place
<1>9. CASE Finish(t)
  BY <1>9 DEF Finish, Ends, Done, Call, Place
<1>10. CASE Succeed(t)
  BY <1>10 DEF Succeed, Ends, Done, Place
<1>11. CASE GetMirror(t)
  BY <1>11 DEF GetMirror, Put, Mirrored, Done, Call, Place
<1>12. CASE GetMirrorFails(t)
  BY <1>12 DEF GetMirrorFails, Mirrored, Done, Call, Place
<1>13. CASE Link(t)
  BY <1>13 DEF Link, Put, Call, Place
<1>14. CASE NoLink(t)
  BY <1>14 DEF NoLink, Mirrored, Done, Call, Place
<1>15. CASE Present(t)
  <2>1. CASE file = None
    BY <1>15, <2>1, NotVerifiedIs DEF Present, Place
  <2>2. CASE file # None /\ at[t] = "first"
    BY <1>15, <2>2 DEF Present, Done, Call, Place
  <2>3. CASE file # None /\ at[t] # "first"
    BY <1>15, <2>3 DEF Present, Mirrored, Done, Call, Place
  <2> QED
    BY <2>1, <2>2, <2>3
<1>16. CASE Linked(t)
  BY <1>16 DEF Linked, Mirrored, Done, Call, Place
<1>17. CASE Check(t)
  <2>1. CASE file = None
    BY <1>17, <2>1, NotVerifiedIs DEF Check, Place
  <2>2. CASE file # None
    BY <1>17, <2>2 DEF Check, Place
  <2> QED
    BY <2>1, <2>2
<1>18. CASE ReadStamp(t)
  BY <1>18 DEF ReadStamp, Place
<1>19. CASE Vanished(t)
  BY <1>19 DEF Vanished, Ends, Done, Place
<1>20. CASE Sum(t)
  BY <1>20, VerifiedGoes DEF Sum, Ignores, Checksum, Place
<1>21. CASE Truncate(t)
  BY <1>21 DEF Truncate, Place
<1>22. CASE Dump(t)
  BY <1>22, VerifiedGoes DEF Dump, Place
<1>23. CASE Rename(t)
  BY <1>23 DEF Rename, Place
<1>24. CASE Unstamp(t)
  <2>1. CASE ~Updates(t)
    <3>1. /\ pc[t] = "unstamp" /\ Place(t, NotVerified(t)) /\ stamp' = None /\ site' = site
          /\ UNCHANGED <<expected, mirrors, file, lock, at, pre>>
      BY <1>24, <2>1 DEF Unstamp, Updates
    <3> QED
      BY <2>1, <3>1, NotVerifiedIs DEF Updates, Place
  <2>2. CASE at[t] \in {"preStamp", "mirStamp"}
    BY <1>24, <2>2 DEF Unstamp, Updates, Mirrored, Done, Call, Place
  <2>3. CASE at[t] = "endStamp"
    BY <1>24, <2>3 DEF Unstamp, Updates, Ends, Done, Place
  <2> QED
    BY <1>24, <2>1, <2>2, <2>3 DEF Unstamp
<1>25. CASE Update(t)
  <2>1. CASE stamp = None
    BY <1>25, <2>1 DEF Update, Place
  <2>2. CASE stamp # None
    <3>1. Verified(t)
      BY <1>25, <2>2 DEF Update
    <3> QED
      BY <1>25, <3>1, VerifiedGoes DEF Update, Place
  <2> QED
    BY <2>1, <2>2
<1>26. CASE Unpacked(t)
  BY <1>26 DEF Unpacked, Ends, Done, Place
<1>27. CASE CleanFile(t)
  BY <1>27 DEF CleanFile, Place
<1>28. CASE CleanStamp(t)
  BY <1>28 DEF CleanStamp, Ends, Done, Place
<1>29. CASE Download(t)
  BY <1>29 DEF Download, Place
<1>30. CASE Unpack(t)
  BY <1>30 DEF Unpack, Place
<1>31. CASE Clean(t)
  BY <1>31 DEF Clean, Place
<1>32. CASE Die(t)
  BY <1>32 DEF Die, Done, Call, Place
<1> QED
  BY <1>1, <1>2, <1>3, <1>4, <1>5, <1>6, <1>7, <1>8, <1>9, <1>10, <1>11, <1>12, <1>13,
     <1>14, <1>15, <1>16, <1>17, <1>18, <1>19, <1>20, <1>21, <1>22, <1>23, <1>24, <1>25,
     <1>26, <1>27, <1>28, <1>29, <1>30, <1>31, <1>32 DEF Step, Locks, Sources, Stamps

\* A file that was found wrong is not made good while its finder has the lock.
LEMMA WrongStep ==
    ASSUME Agree, Base, Stamped, NEW t \in Tasks,
           Step(t) \/ Download(t) \/ Unpack(t) \/ Clean(t) \/ Die(t)
    PROVE  WrongIsWrong'
<1> USE FetchAssumption DEF Base, TypeOK, Ats, OnlyWriter, LockOK, AtOK, Unlocked,
            Alone, Agree, Stamped, StampOurs, Looked, Ours, OldStamp, WrongIsWrong,
            disk, NoDisk, Rest
<1>1. CASE LockShared(t)
  BY <1>1 DEF LockShared, Call, Place
<1>2. CASE Upgrade(t)
  BY <1>2 DEF Upgrade, Place
<1>3. CASE LockExclusive(t)
  BY <1>3 DEF LockExclusive, Place
<1>4. CASE UnpackLocks(t)
  BY <1>4 DEF UnpackLocks, Place
<1>5. CASE Premirror(t)
  BY <1>5, TryMirrorGoes DEF Premirror, Call, Place
<1>6. CASE Mirror(t)
  BY <1>6, TryMirrorGoes DEF Mirror, Call, Place
<1>7. CASE Upstream(t)
  BY <1>7 DEF Upstream, Put, Done, Call, Place
<1>8. CASE UpstreamFails(t)
  BY <1>8 DEF UpstreamFails, Place
<1>9. CASE Finish(t)
  BY <1>9 DEF Finish, Ends, Done, Call, Place
<1>10. CASE Succeed(t)
  BY <1>10 DEF Succeed, Ends, Done, Place
<1>11. CASE GetMirror(t)
  BY <1>11 DEF GetMirror, Put, Mirrored, Done, Call, Place
<1>12. CASE GetMirrorFails(t)
  BY <1>12 DEF GetMirrorFails, Mirrored, Done, Call, Place
<1>13. CASE Link(t)
  BY <1>13 DEF Link, Put, Call, Place
<1>14. CASE NoLink(t)
  BY <1>14 DEF NoLink, Mirrored, Done, Call, Place
<1>15. CASE Present(t)
  <2>1. CASE file = None
    BY <1>15, <2>1, NotVerifiedIs DEF Present, Place
  <2>2. CASE file # None /\ at[t] = "first"
    BY <1>15, <2>2 DEF Present, Done, Call, Place
  <2>3. CASE file # None /\ at[t] # "first"
    BY <1>15, <2>3 DEF Present, Mirrored, Done, Call, Place
  <2> QED
    BY <2>1, <2>2, <2>3
<1>16. CASE Linked(t)
  BY <1>16 DEF Linked, Mirrored, Done, Call, Place
<1>17. CASE Check(t)
  <2>1. CASE file = None
    BY <1>17, <2>1, NotVerifiedIs DEF Check, Place
  <2>2. CASE file # None
    BY <1>17, <2>2 DEF Check, Place
  <2> QED
    BY <2>1, <2>2
<1>18. CASE ReadStamp(t)
  BY <1>18 DEF ReadStamp, Place
<1>19. CASE Vanished(t)
  BY <1>19 DEF Vanished, Ends, Done, Place
<1>20. CASE Sum(t)
  BY <1>20, VerifiedGoes DEF Sum, Ignores, Checksum, Place
<1>21. CASE Truncate(t)
  BY <1>21 DEF Truncate, Place
<1>22. CASE Dump(t)
  BY <1>22, VerifiedGoes DEF Dump, Place
<1>23. CASE Rename(t)
  BY <1>23 DEF Rename, Place
<1>24. CASE Unstamp(t)
  <2>1. CASE ~Updates(t)
    <3>1. /\ pc[t] = "unstamp" /\ Place(t, NotVerified(t)) /\ stamp' = None /\ site' = site
          /\ UNCHANGED <<expected, mirrors, file, lock, at, pre>>
      BY <1>24, <2>1 DEF Unstamp, Updates
    <3> QED
      BY <2>1, <3>1, NotVerifiedIs DEF Updates, Place
  <2>2. CASE at[t] \in {"preStamp", "mirStamp"}
    BY <1>24, <2>2 DEF Unstamp, Updates, Mirrored, Done, Call, Place
  <2>3. CASE at[t] = "endStamp"
    BY <1>24, <2>3 DEF Unstamp, Updates, Ends, Done, Place
  <2> QED
    BY <1>24, <2>1, <2>2, <2>3 DEF Unstamp
<1>25. CASE Update(t)
  <2>1. CASE stamp = None
    BY <1>25, <2>1 DEF Update, Place
  <2>2. CASE stamp # None
    <3>1. Verified(t)
      BY <1>25, <2>2 DEF Update
    <3> QED
      BY <1>25, <3>1, VerifiedGoes DEF Update, Place
  <2> QED
    BY <2>1, <2>2
<1>26. CASE Unpacked(t)
  BY <1>26 DEF Unpacked, Ends, Done, Place
<1>27. CASE CleanFile(t)
  BY <1>27 DEF CleanFile, Place
<1>28. CASE CleanStamp(t)
  BY <1>28 DEF CleanStamp, Ends, Done, Place
<1>29. CASE Download(t)
  BY <1>29 DEF Download, Place
<1>30. CASE Unpack(t)
  BY <1>30 DEF Unpack, Place
<1>31. CASE Clean(t)
  BY <1>31 DEF Clean, Place
<1>32. CASE Die(t)
  BY <1>32 DEF Die, Done, Call, Place
<1> QED
  BY <1>1, <1>2, <1>3, <1>4, <1>5, <1>6, <1>7, <1>8, <1>9, <1>10, <1>11, <1>12, <1>13,
     <1>14, <1>15, <1>16, <1>17, <1>18, <1>19, <1>20, <1>21, <1>22, <1>23, <1>24, <1>25,
     <1>26, <1>27, <1>28, <1>29, <1>30, <1>31, <1>32 DEF Step, Locks, Sources, Stamps

\* Without file:// mirrors there are no links, and what a mirror gives is new.
LEMMA WebStep ==
    ASSUME FromWeb, Agree, Base, Stamped, WebOnly, AloneOK, NEW t \in Tasks,
           Step(t) \/ Download(t) \/ Unpack(t) \/ Clean(t) \/ Die(t)
    PROVE  WebOnly' /\ AloneOK'
<1> USE FetchAssumption DEF Base, TypeOK, Ats, OnlyWriter, LockOK, AtOK, Unlocked,
            Alone, Agree, Stamped, StampOurs, Looked, Ours, FromWeb, WebOnly,
            AloneOK, disk, NoDisk, Rest
<1>1. CASE LockShared(t)
  BY <1>1 DEF LockShared, Call, Place
<1>2. CASE Upgrade(t)
  BY <1>2 DEF Upgrade, Place
<1>3. CASE LockExclusive(t)
  BY <1>3 DEF LockExclusive, Place
<1>4. CASE UnpackLocks(t)
  BY <1>4 DEF UnpackLocks, Place
<1>5. CASE Premirror(t)
  BY <1>5, TryMirrorGoes DEF Premirror, Call, Place
<1>6. CASE Mirror(t)
  BY <1>6, TryMirrorGoes DEF Mirror, Call, Place
<1>7. CASE Upstream(t)
  BY <1>7 DEF Upstream, Put, Done, Call, Place
<1>8. CASE UpstreamFails(t)
  BY <1>8 DEF UpstreamFails, Place
<1>9. CASE Finish(t)
  BY <1>9 DEF Finish, Ends, Done, Call, Place
<1>10. CASE Succeed(t)
  BY <1>10 DEF Succeed, Ends, Done, Place
<1>11. CASE GetMirror(t)
  BY <1>11 DEF GetMirror, Put, Mirrored, Done, Call, Place
<1>12. CASE GetMirrorFails(t)
  BY <1>12 DEF GetMirrorFails, Mirrored, Done, Call, Place
<1>13. CASE Link(t)
  BY <1>13 DEF Link, Put, Call, Place
<1>14. CASE NoLink(t)
  BY <1>14 DEF NoLink, Mirrored, Done, Call, Place
<1>15. CASE Present(t)
  <2>1. CASE file = None
    BY <1>15, <2>1, NotVerifiedIs DEF Present, Place
  <2>2. CASE file # None /\ at[t] = "first"
    BY <1>15, <2>2 DEF Present, Done, Call, Place
  <2>3. CASE file # None /\ at[t] # "first"
    BY <1>15, <2>3 DEF Present, Mirrored, Done, Call, Place
  <2> QED
    BY <2>1, <2>2, <2>3
<1>16. CASE Linked(t)
  BY <1>16 DEF Linked, Mirrored, Done, Call, Place
<1>17. CASE Check(t)
  <2>1. CASE file = None
    BY <1>17, <2>1, NotVerifiedIs DEF Check, Place
  <2>2. CASE file # None
    BY <1>17, <2>2 DEF Check, Place
  <2> QED
    BY <2>1, <2>2
<1>18. CASE ReadStamp(t)
  BY <1>18 DEF ReadStamp, Place
<1>19. CASE Vanished(t)
  BY <1>19 DEF Vanished, Ends, Done, Place
<1>20. CASE Sum(t)
  BY <1>20, VerifiedGoes DEF Sum, Ignores, Checksum, Place
<1>21. CASE Truncate(t)
  BY <1>21 DEF Truncate, Place
<1>22. CASE Dump(t)
  BY <1>22, VerifiedGoes DEF Dump, Place
<1>23. CASE Rename(t)
  BY <1>23 DEF Rename, Place
<1>24. CASE Unstamp(t)
  <2>1. CASE ~Updates(t)
    <3>1. /\ pc[t] = "unstamp" /\ Place(t, NotVerified(t)) /\ stamp' = None /\ site' = site
          /\ UNCHANGED <<expected, mirrors, file, lock, at, pre>>
      BY <1>24, <2>1 DEF Unstamp, Updates
    <3> QED
      BY <2>1, <3>1, NotVerifiedIs DEF Updates, Place
  <2>2. CASE at[t] \in {"preStamp", "mirStamp"}
    BY <1>24, <2>2 DEF Unstamp, Updates, Mirrored, Done, Call, Place
  <2>3. CASE at[t] = "endStamp"
    BY <1>24, <2>3 DEF Unstamp, Updates, Ends, Done, Place
  <2> QED
    BY <1>24, <2>1, <2>2, <2>3 DEF Unstamp
<1>25. CASE Update(t)
  <2>1. CASE stamp = None
    BY <1>25, <2>1 DEF Update, Place
  <2>2. CASE stamp # None
    <3>1. Verified(t)
      BY <1>25, <2>2 DEF Update
    <3> QED
      BY <1>25, <3>1, VerifiedGoes DEF Update, Place
  <2> QED
    BY <2>1, <2>2
<1>26. CASE Unpacked(t)
  BY <1>26 DEF Unpacked, Ends, Done, Place
<1>27. CASE CleanFile(t)
  BY <1>27 DEF CleanFile, Place
<1>28. CASE CleanStamp(t)
  BY <1>28 DEF CleanStamp, Ends, Done, Place
<1>29. CASE Download(t)
  BY <1>29 DEF Download, Place
<1>30. CASE Unpack(t)
  BY <1>30 DEF Unpack, Place
<1>31. CASE Clean(t)
  BY <1>31 DEF Clean, Place
<1>32. CASE Die(t)
  BY <1>32 DEF Die, Done, Call, Place
<1> QED
  BY <1>1, <1>2, <1>3, <1>4, <1>5, <1>6, <1>7, <1>8, <1>9, <1>10, <1>11, <1>12, <1>13,
     <1>14, <1>15, <1>16, <1>17, <1>18, <1>19, <1>20, <1>21, <1>22, <1>23, <1>24, <1>25,
     <1>26, <1>27, <1>28, <1>29, <1>30, <1>31, <1>32 DEF Step, Locks, Sources, Stamps

\* A stamp is only written or made younger for the file that it is of.
LEMMA TrueStampStep ==
    ASSUME FromWeb, Agree, Base, Stamped, FromServers, NEW t \in Tasks,
           Step(t) \/ Download(t) \/ Unpack(t) \/ Clean(t) \/ Die(t)
    PROVE  TrueStamp'
<1> USE FetchAssumption DEF Base, TypeOK, Ats, OnlyWriter, LockOK, AtOK, Unlocked,
            Alone, Agree, Stamped, StampOurs, Looked, Ours, WrongIsWrong,
            FromWeb, FromServers, WebOnly, AloneOK, TrueStamp, GoodFile, Seen, New,
            Ignores, disk, NoDisk, Rest
<1>1. CASE LockShared(t)
  BY <1>1 DEF LockShared, Call, Place
<1>2. CASE Upgrade(t)
  BY <1>2 DEF Upgrade, Place
<1>3. CASE LockExclusive(t)
  BY <1>3 DEF LockExclusive, Place
<1>4. CASE UnpackLocks(t)
  BY <1>4 DEF UnpackLocks, Place
<1>5. CASE Premirror(t)
  BY <1>5, TryMirrorGoes DEF Premirror, Call, Place
<1>6. CASE Mirror(t)
  BY <1>6, TryMirrorGoes DEF Mirror, Call, Place
<1>7. CASE Upstream(t)
  BY <1>7 DEF Upstream, Put, Done, Call, Place
<1>8. CASE UpstreamFails(t)
  BY <1>8 DEF UpstreamFails, Place
<1>9. CASE Finish(t)
  BY <1>9 DEF Finish, Ends, Done, Call, Place
<1>10. CASE Succeed(t)
  BY <1>10 DEF Succeed, Ends, Done, Place
<1>11. CASE GetMirror(t)
  BY <1>11 DEF GetMirror, Put, Mirrored, Done, Call, Place
<1>12. CASE GetMirrorFails(t)
  BY <1>12 DEF GetMirrorFails, Mirrored, Done, Call, Place
<1>13. CASE Link(t)
  BY <1>13 DEF Link, Put, Call, Place
<1>14. CASE NoLink(t)
  BY <1>14 DEF NoLink, Mirrored, Done, Call, Place
<1>15. CASE Present(t)
  <2>1. CASE file = None
    BY <1>15, <2>1, NotVerifiedIs DEF Present, Place
  <2>2. CASE file # None /\ at[t] = "first"
    BY <1>15, <2>2 DEF Present, Done, Call, Place
  <2>3. CASE file # None /\ at[t] # "first"
    BY <1>15, <2>3 DEF Present, Mirrored, Done, Call, Place
  <2> QED
    BY <2>1, <2>2, <2>3
<1>16. CASE Linked(t)
  BY <1>16 DEF Linked, Mirrored, Done, Call, Place
<1>17. CASE Check(t)
  <2>1. CASE file = None
    BY <1>17, <2>1, NotVerifiedIs DEF Check, Place
  <2>2. CASE file # None
    BY <1>17, <2>2 DEF Check, Place
  <2> QED
    BY <2>1, <2>2
<1>18. CASE ReadStamp(t)
  BY <1>18 DEF ReadStamp, Place
<1>19. CASE Vanished(t)
  BY <1>19 DEF Vanished, Ends, Done, Place
<1>20. CASE Sum(t)
  BY <1>20, VerifiedGoes DEF Sum, Ignores, Checksum, Place
<1>21. CASE Truncate(t)
  BY <1>21 DEF Truncate, Place
<1>22. CASE Dump(t)
  <2>1. CASE stamp = None \/ Ignores(t)
    BY <1>22, <2>1, VerifiedGoes DEF Dump, Place
  <2>2. CASE stamp # None /\ ~Ignores(t)
    BY <1>22, <2>2, VerifiedGoes DEF Dump, Place
  <2> QED
    BY <2>1, <2>2
<1>23. CASE Rename(t)
  BY <1>23 DEF Rename, Place
<1>24. CASE Unstamp(t)
  <2>1. CASE ~Updates(t)
    <3>1. /\ pc[t] = "unstamp" /\ Place(t, NotVerified(t)) /\ stamp' = None /\ site' = site
          /\ UNCHANGED <<expected, mirrors, file, lock, at, pre>>
      BY <1>24, <2>1 DEF Unstamp, Updates
    <3> QED
      BY <2>1, <3>1, NotVerifiedIs DEF Updates, Place
  <2>2. CASE at[t] \in {"preStamp", "mirStamp"}
    BY <1>24, <2>2 DEF Unstamp, Updates, Mirrored, Done, Call, Place
  <2>3. CASE at[t] = "endStamp"
    BY <1>24, <2>3 DEF Unstamp, Updates, Ends, Done, Place
  <2> QED
    BY <1>24, <2>1, <2>2, <2>3 DEF Unstamp
<1>25. CASE Update(t)
  <2>1. CASE stamp = None
    BY <1>25, <2>1 DEF Update, Place
  <2>2. CASE stamp # None
    <3>1. Verified(t)
      BY <1>25, <2>2 DEF Update
    <3> QED
      BY <1>25, <3>1, VerifiedGoes DEF Update, Place
  <2> QED
    BY <2>1, <2>2
<1>26. CASE Unpacked(t)
  BY <1>26 DEF Unpacked, Ends, Done, Place
<1>27. CASE CleanFile(t)
  BY <1>27 DEF CleanFile, Place
<1>28. CASE CleanStamp(t)
  BY <1>28 DEF CleanStamp, Ends, Done, Place
<1>29. CASE Download(t)
  BY <1>29 DEF Download, Place
<1>30. CASE Unpack(t)
  BY <1>30 DEF Unpack, Place
<1>31. CASE Clean(t)
  BY <1>31 DEF Clean, Place
<1>32. CASE Die(t)
  BY <1>32 DEF Die, Done, Call, Place
<1> QED
  BY <1>1, <1>2, <1>3, <1>4, <1>5, <1>6, <1>7, <1>8, <1>9, <1>10, <1>11, <1>12, <1>13,
     <1>14, <1>15, <1>16, <1>17, <1>18, <1>19, <1>20, <1>21, <1>22, <1>23, <1>24, <1>25,
     <1>26, <1>27, <1>28, <1>29, <1>30, <1>31, <1>32 DEF Step, Locks, Sources, Stamps

\* A file that was seen to be good stays so.
LEMMA GoodFileStep ==
    ASSUME FromWeb, Agree, Base, Stamped, FromServers, NEW t \in Tasks,
           Step(t) \/ Download(t) \/ Unpack(t) \/ Clean(t) \/ Die(t)
    PROVE  GoodFile'
<1> USE FetchAssumption DEF Base, TypeOK, Ats, OnlyWriter, LockOK, AtOK, Unlocked,
            Alone, Agree, Stamped, StampOurs, Looked, Ours, WrongIsWrong,
            FromWeb, FromServers, WebOnly, AloneOK, TrueStamp, GoodFile, Seen, New,
            Ignores, disk, NoDisk, Rest
<1>1. CASE LockShared(t)
  BY <1>1 DEF LockShared, Call, Place
<1>2. CASE Upgrade(t)
  BY <1>2 DEF Upgrade, Place
<1>3. CASE LockExclusive(t)
  BY <1>3 DEF LockExclusive, Place
<1>4. CASE UnpackLocks(t)
  BY <1>4 DEF UnpackLocks, Place
<1>5. CASE Premirror(t)
  BY <1>5, TryMirrorGoes DEF Premirror, Call, Place
<1>6. CASE Mirror(t)
  BY <1>6, TryMirrorGoes DEF Mirror, Call, Place
<1>7. CASE Upstream(t)
  BY <1>7 DEF Upstream, Put, Done, Call, Place
<1>8. CASE UpstreamFails(t)
  BY <1>8 DEF UpstreamFails, Place
<1>9. CASE Finish(t)
  BY <1>9 DEF Finish, Ends, Done, Call, Place
<1>10. CASE Succeed(t)
  BY <1>10 DEF Succeed, Ends, Done, Place
<1>11. CASE GetMirror(t)
  BY <1>11 DEF GetMirror, Put, Mirrored, Done, Call, Place
<1>12. CASE GetMirrorFails(t)
  BY <1>12 DEF GetMirrorFails, Mirrored, Done, Call, Place
<1>13. CASE Link(t)
  BY <1>13 DEF Link, Put, Call, Place
<1>14. CASE NoLink(t)
  BY <1>14 DEF NoLink, Mirrored, Done, Call, Place
<1>15. CASE Present(t)
  <2>1. CASE file = None
    BY <1>15, <2>1, NotVerifiedIs DEF Present, Place
  <2>2. CASE file # None /\ at[t] = "first"
    BY <1>15, <2>2 DEF Present, Done, Call, Place
  <2>3. CASE file # None /\ at[t] # "first"
    BY <1>15, <2>3 DEF Present, Mirrored, Done, Call, Place
  <2> QED
    BY <2>1, <2>2, <2>3
<1>16. CASE Linked(t)
  BY <1>16 DEF Linked, Mirrored, Done, Call, Place
<1>17. CASE Check(t)
  <2>1. CASE file = None
    BY <1>17, <2>1, NotVerifiedIs DEF Check, Place
  <2>2. CASE file # None
    BY <1>17, <2>2 DEF Check, Place
  <2> QED
    BY <2>1, <2>2
<1>18. CASE ReadStamp(t)
  BY <1>18 DEF ReadStamp, Place
<1>19. CASE Vanished(t)
  BY <1>19 DEF Vanished, Ends, Done, Place
<1>20. CASE Sum(t)
  BY <1>20, VerifiedGoes DEF Sum, Ignores, Checksum, Place
<1>21. CASE Truncate(t)
  BY <1>21 DEF Truncate, Place
<1>22. CASE Dump(t)
  <2>1. CASE stamp = None \/ Ignores(t)
    BY <1>22, <2>1, VerifiedGoes DEF Dump, Place
  <2>2. CASE stamp # None /\ ~Ignores(t)
    BY <1>22, <2>2, VerifiedGoes DEF Dump, Place
  <2> QED
    BY <2>1, <2>2
<1>23. CASE Rename(t)
  BY <1>23 DEF Rename, Place
<1>24. CASE Unstamp(t)
  <2>1. CASE ~Updates(t)
    <3>1. /\ pc[t] = "unstamp" /\ Place(t, NotVerified(t)) /\ stamp' = None /\ site' = site
          /\ UNCHANGED <<expected, mirrors, file, lock, at, pre>>
      BY <1>24, <2>1 DEF Unstamp, Updates
    <3> QED
      BY <2>1, <3>1, NotVerifiedIs DEF Updates, Place
  <2>2. CASE at[t] \in {"preStamp", "mirStamp"}
    BY <1>24, <2>2 DEF Unstamp, Updates, Mirrored, Done, Call, Place
  <2>3. CASE at[t] = "endStamp"
    BY <1>24, <2>3 DEF Unstamp, Updates, Ends, Done, Place
  <2> QED
    BY <1>24, <2>1, <2>2, <2>3 DEF Unstamp
<1>25. CASE Update(t)
  <2>1. CASE stamp = None
    BY <1>25, <2>1 DEF Update, Place
  <2>2. CASE stamp # None
    <3>1. Verified(t) /\ file = expected[t]
      BY <1>25, <2>2 DEF Update
    <3>2. \E p \in {"finish", "success"} : Place(t, p) /\ (p = "finish" \/ at[t] = "endStamp")
      BY <1>25, <3>1, VerifiedGoes DEF Update
    <3>3. /\ UNCHANGED <<expected, file, stamp, lock, at>>
          /\ \A u \in Tasks : pre'[u] \in {pre[u], None}
      BY <1>25 DEF Update
    <3> QED
      BY <3>1, <3>2, <3>3 DEF Place
  <2> QED
    BY <2>1, <2>2
<1>26. CASE Unpacked(t)
  BY <1>26 DEF Unpacked, Ends, Done, Place
<1>27. CASE CleanFile(t)
  BY <1>27 DEF CleanFile, Place
<1>28. CASE CleanStamp(t)
  BY <1>28 DEF CleanStamp, Ends, Done, Place
<1>29. CASE Download(t)
  BY <1>29 DEF Download, Place
<1>30. CASE Unpack(t)
  BY <1>30 DEF Unpack, Place
<1>31. CASE Clean(t)
  BY <1>31 DEF Clean, Place
<1>32. CASE Die(t)
  BY <1>32 DEF Die, Done, Call, Place
<1> QED
  BY <1>1, <1>2, <1>3, <1>4, <1>5, <1>6, <1>7, <1>8, <1>9, <1>10, <1>11, <1>12, <1>13,
     <1>14, <1>15, <1>16, <1>17, <1>18, <1>19, <1>20, <1>21, <1>22, <1>23, <1>24, <1>25,
     <1>26, <1>27, <1>28, <1>29, <1>30, <1>31, <1>32 DEF Step, Locks, Sources, Stamps

\* What is unpacked and good stays in place.
LEMMA UnpackStep ==
    ASSUME Agree, Base, Stamped,
           NEW u \in Tasks, pc[u] = "unpacking", file = expected[u], NEW t \in Tasks,
           Step(t) \/ Download(t) \/ Unpack(t) \/ Clean(t) \/ Die(t)
    PROVE  file' = file
<1> USE DEF Agree, Base, TypeOK, OnlyWriter, LockOK, Unlocked, Alone, Stamped,
            WrongIsWrong, disk, NoDisk
<1>1. CASE LockShared(t)
  BY <1>1 DEF LockShared, Call, Place
<1>2. CASE Upgrade(t)
  BY <1>2 DEF Upgrade, Place
<1>3. CASE LockExclusive(t)
  BY <1>3 DEF LockExclusive, Place
<1>4. CASE UnpackLocks(t)
  BY <1>4 DEF UnpackLocks, Place
<1>5. CASE Premirror(t)
  BY <1>5 DEF Premirror, TryMirror, Call, Place
<1>6. CASE Mirror(t)
  BY <1>6 DEF Mirror, TryMirror, Call, Place
<1>7. CASE Upstream(t)
  BY <1>7 DEF Upstream, Put, Done, Call, Place
<1>8. CASE UpstreamFails(t)
  BY <1>8 DEF UpstreamFails, Place
<1>9. CASE Finish(t)
  BY <1>9 DEF Finish, Ends, Done, Call, Place
<1>10. CASE Succeed(t)
  BY <1>10 DEF Succeed, Ends, Done, Place
<1>11. CASE GetMirror(t)
  BY <1>11 DEF GetMirror, Put, Mirrored, Done, Call, Place
<1>12. CASE GetMirrorFails(t)
  BY <1>12 DEF GetMirrorFails, Mirrored, Done, Call, Place
<1>13. CASE Link(t)
  BY <1>13 DEF Link, Put, Call, Place
<1>14. CASE NoLink(t)
  BY <1>14 DEF NoLink, Mirrored, Done, Call, Place
<1>15. CASE Present(t)
  BY <1>15 DEF Present, NotVerified, Mirrored, Done, Call, Place
<1>16. CASE Linked(t)
  BY <1>16 DEF Linked, Mirrored, Done, Call, Place
<1>17. CASE Check(t)
  BY <1>17 DEF Check, NotVerified, Place
<1>18. CASE ReadStamp(t)
  BY <1>18 DEF ReadStamp, Place
<1>19. CASE Vanished(t)
  BY <1>19 DEF Vanished, Ends, Done, Place
<1>20. CASE Sum(t)
  BY <1>20 DEF Sum, Ignores, Checksum, Verified, Place
<1>21. CASE Truncate(t)
  BY <1>21 DEF Truncate, Place
<1>22. CASE Dump(t)
  BY <1>22 DEF Dump, Ignores, Verified, Place
<1>23. CASE Rename(t)
  BY <1>23 DEF Rename, Place
<1>24. CASE Unstamp(t)
  BY <1>24 DEF Unstamp, Updates, NotVerified, Mirrored, Ends, Done, Call, Place
<1>25. CASE Update(t)
  BY <1>25 DEF Update, Verified, Place
<1>26. CASE Unpacked(t)
  BY <1>26 DEF Unpacked, Ends, Done, Place
<1>27. CASE CleanFile(t)
  BY <1>27 DEF CleanFile, Place
<1>28. CASE CleanStamp(t)
  BY <1>28 DEF CleanStamp, Ends, Done, Place
<1>29. CASE Download(t)
  BY <1>29 DEF Download, Place
<1>30. CASE Unpack(t)
  BY <1>30 DEF Unpack, Place
<1>31. CASE Clean(t)
  BY <1>31 DEF Clean, Place
<1>32. CASE Die(t)
  BY <1>32 DEF Die, Done, Call, Place
<1> QED
  BY <1>1, <1>2, <1>3, <1>4, <1>5, <1>6, <1>7, <1>8, <1>9, <1>10, <1>11, <1>12, <1>13,
     <1>14, <1>15, <1>16, <1>17, <1>18, <1>19, <1>20, <1>21, <1>22, <1>23, <1>24, <1>25,
     <1>26, <1>27, <1>28, <1>29, <1>30, <1>31, <1>32 DEF Step, Locks, Sources, Stamps

-----------------------------------------------------------------------------
(* Theorems *)

Inv == Base /\ (Agree => Stamped) /\ (FromWeb /\ Agree => FromServers)

\* At first no task has looked, and a stamp that counts is of the file.
LEMMA InitInv == Init => Inv
<1> SUFFICES ASSUME Init PROVE Inv
  OBVIOUS
<1> USE FetchAssumption DEF Init
<1>1. Base
  BY DEF Base, TypeOK, Places, Ats, OnlyWriter, LockOK, AtOK, Unlocked, Alone
<1>2. stamp \in Contents /\ newer => stamp = file
  OBVIOUS
<1>3. Agree => Stamped
  BY <1>2 DEF Stamped, StampOurs, Looked, OldStamp, WrongIsWrong
<1>4. FromServers
  BY <1>2 DEF FromServers, WebOnly, AloneOK, TrueStamp, GoodFile, Seen
<1> QED
  BY <1>1, <1>3, <1>4 DEF Inv

\* Every step keeps it: each part by its lemma, as no step changes recipe or mirrors.
LEMMA NextInv == Inv /\ [Next]_vars => Inv'
<1> SUFFICES ASSUME Inv, [Next]_vars PROVE Inv'
  OBVIOUS
<1>1. CASE UNCHANGED vars
  <2>1. UNCHANGED <<expected, mirrors, site, file, stamp, newer, lock, pc, at, pre>>
    BY <1>1 DEF vars, disk
  <2>2. Base' /\ (Agree <=> Agree') /\ (FromWeb <=> FromWeb')
    BY <2>1 DEF Inv, Base, TypeOK, OnlyWriter, LockOK, AtOK, Agree, FromWeb
  <2>3. Stamped => Stamped'
    BY <2>1 DEF Stamped, StampOurs, Looked, Ours, OldStamp, WrongIsWrong
  <2>4. FromServers => FromServers'
    BY <2>1 DEF FromServers, WebOnly, AloneOK, TrueStamp, GoodFile, Seen, New, Ignores
  <2> QED
    BY <2>2, <2>3, <2>4 DEF Inv
<1>2. CASE Next
  <2>1. PICK t \in Tasks : Step(t) \/ Download(t) \/ Unpack(t) \/ Clean(t) \/ Die(t)
    BY <1>2 DEF Next
  <2>2. Base'
    BY <2>1, TypeStep, LockStep DEF Inv, Base
  <2>3. UNCHANGED <<expected, mirrors>>
    BY <2>1, SameRecipes
  <2>4. (Agree <=> Agree') /\ (FromWeb <=> FromWeb')
    BY <2>3 DEF Agree, FromWeb
  <2>5. ASSUME Agree PROVE Stamped'
    BY <2>1, <2>5, OursStep, WrongStep DEF Inv, Stamped
  <2>6. ASSUME FromWeb, Agree PROVE FromServers'
    BY <2>1, <2>6, WebStep, TrueStampStep, GoodFileStep DEF Inv, FromServers
  <2> QED
    BY <2>2, <2>4, <2>5, <2>6 DEF Inv
<1> QED
  BY <1>1, <1>2

\* The lock is held for writing by one task alone, and where no recipe disagrees
\* the stamp and, from web servers, the file are what the parts of Inv say.
THEOREM SpecInv == Spec => []Inv
BY InitInv, NextInv, PTL DEF Spec

\* If all recipes want one file and no file:// mirror has it, a fetch that
\* succeeds leaves that file, however tasks fetch, clean and die.
THEOREM SpecSuccessIsGood == Spec => []SuccessIsGood
<1>1. Inv => SuccessIsGood
  BY DEF Inv, FromServers, GoodFile, Seen, SuccessIsGood
<1> QED
  BY <1>1, SpecInv, PTL

\* If all recipes want one file, no task takes or replaces it while another
\* unpacks it, whatever mirrors there are.
THEOREM SpecUnpackStable == Spec => UnpackStable
<1>1. Inv /\ [Next]_vars =>
        [Agree => \A t \in Tasks :
            pc[t] = "unpacking" /\ file = expected[t] => file' = file]_vars
  BY UnpackStep DEF Inv, Next
<1> QED
  BY <1>1, SpecInv, PTL DEF Spec, UnpackStable
=============================================================================
