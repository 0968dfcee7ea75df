------------------------------ MODULE MCFetch -------------------------------
(* Two tasks of recipes that have the same checksum for one file, or not. *)
EXTENDS Fetch, TLC

CONSTANTS t1, t2, good, bad

Same == {[t \in Tasks |-> good]}
Own == {(t1 :> good) @@ (t2 :> bad)}
SameOrOwn == Same \cup Own

CallsOf == (t1 :> 2) @@ (t2 :> 1)

AnyMirrors == {"none"} \X {"none", "http", "file"} \cup {"http", "file"} \X {"none"}
FileMirror == {<<"none", "file">>}
=============================================================================
