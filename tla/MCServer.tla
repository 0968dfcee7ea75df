------------------------------ MODULE MCServer ------------------------------
(* A client with a query and a build and one that builds, with a server that *)
(* ends with its last client; or one that builds and one that ends a server  *)
(* that stays.                                                               *)
EXTENDS Server, TLC

CONSTANTS a, b

Plan(first, second) == (a :> first) @@ (b :> second)
MCSettings == {<<Plan(<<"query", "build">>, <<"build">>), FALSE>>,
               <<Plan(<<"build">>, <<"kill">>), TRUE>>}
=============================================================================
