----------------------------- MODULE MCRunQueue -----------------------------
(* Instances of RunQueue for TLC: small builds, and the options they may be *)
(* started with.                                                            *)
EXTENDS RunQueue

Graph(edges, T) == [t \in T |-> {e[2] : e \in {x \in edges : x[1] = t}}]
NoStamps(B) == [task |-> [b \in B |-> NoFile], scene |-> [b \in B |-> NoFile]]
Everywhere(T, v) == [t \in T |-> v]
Own(T) == [t \in T |-> t]

MCPlain == {{}}
MCStops == {{}, {"halt"}, {"skipsetscene"}}
MCChainLines ==
    {{}, {"force"}, {"skipsetscene"}, {"interrupts"}, {"halt", "interrupts"},
     {"halt", "enforce"}, {"halt", "setsceneonly"}}

\* Two recipes and an image: a_pack is needed by the compilation of b, and
\* b_pack by the image.
ChainTasks == {"a_comp", "a_pack", "b_comp", "b_pack", "image"}
ChainScene == {"a_pack", "b_pack"}
ChainDepends ==
    Graph({<<"image", "b_pack">>, <<"b_pack", "b_comp">>, <<"b_comp", "a_pack">>,
           <<"a_pack", "a_comp">>}, ChainTasks)
ChainTargets == {"image", "b_pack"}
ChainHard == [s \in ChainScene |-> {}]
ChainRecipe == [t \in ChainTasks |-> IF t \in {"a_comp", "a_pack"} THEN "a"
                                     ELSE IF t = "image" THEN "i" ELSE "b"]
ChainOwn == Own(ChainTasks)
ChainUni == Everywhere(ChainTasks, "u1")
\* What earlier builds leave: recipe a built or restored, and b perhaps too,
\* with its packages older than its compilation if that was forced; or b only,
\* after a was cleaned.
ChainOld ==
    {[task |-> [t \in ChainTasks |-> IF t \in B THEN <<"u1", Old>> ELSE NoFile],
      scene |-> [t \in ChainTasks |-> IF t \in R THEN <<"u1", Old>> ELSE NoFile]] :
        B \in {{}, {"a_comp"}, {"a_comp", "a_pack"}, {"a_comp", "a_pack", "b_comp"},
               {"b_comp"}, {"b_comp", "b_pack"},
               {"a_comp", "a_pack", "b_comp", "b_pack", "image"}},
        R \in {{}, {"a_pack"}, {"b_pack"}}}

\* The same recipe in two multiconfigs, whose tasks share their stamps; an
\* earlier build may have restored its packages, of which the second names
\* what both are built from as a dependency.
TwinTasks == {"dep", "comp1", "comp2", "pack1", "pack2", "image"}
TwinScene == {"dep", "pack1", "pack2"}
TwinDepends ==
    Graph({<<"image", "pack1">>, <<"image", "pack2">>, <<"pack1", "comp1">>,
           <<"pack2", "comp2">>, <<"comp1", "dep">>, <<"comp2", "dep">>}, TwinTasks)
TwinTargets == {"image"}
TwinHard == [s \in TwinScene |-> IF s = "pack2" THEN {"dep"} ELSE {}]
TwinClass == [t \in TwinTasks |-> CASE t \in {"comp1", "comp2"} -> "comp"
                                     [] t \in {"pack1", "pack2"} -> "pack"
                                     [] OTHER -> t]
TwinRecipe == [t \in TwinTasks |-> CASE t \in {"comp1", "pack1"} -> "a1"
                                      [] t \in {"comp2", "pack2"} -> "a2"
                                      [] OTHER -> t]
TwinUni == Everywhere(TwinTasks, "u1")
TwinClasses == {TwinClass[t] : t \in TwinTasks}
TwinStamped ==
    {NoStamps(TwinClasses), [NoStamps(TwinClasses) EXCEPT !.scene["pack"] = <<"u1", Old>>]}

\* A package with two inputs, of which one can be running already when the
\* other's input reports another hash; p2 only needs the first.  The image also
\* needs a task that waits for nothing.
LateTasks == {"base", "comp1", "comp2", "p1", "p2", "tool", "image"}
LateScene == {"base", "p1", "p2"}
LateDepends ==
    Graph({<<"image", "p1">>, <<"image", "p2">>, <<"p1", "comp1">>, <<"p1", "comp2">>,
           <<"p2", "comp1">>, <<"comp2", "base">>, <<"image", "tool">>}, LateTasks)
LateTargets == {"image"}
LateHard == [s \in LateScene |-> {}]
LateRecipe == [t \in LateTasks |-> t]
LateOwn == Own(LateTasks)
LateUni == Everywhere(LateTasks, "u1")
LateStamped == {NoStamps(LateTasks)}
=============================================================================
