---------------------------- MODULE MCHashEquiv -----------------------------
(* HashEquiv on small instances *)
EXTENDS HashEquiv

Budget(requests, ups, admin) == [requests |-> requests, up |-> ups, admin |-> admin]

\* Three requests of clients that race, or two around a garbage collection.
MCBudgets == {Budget(3, 1, 0), Budget(2, 1, 2)}
=============================================================================
