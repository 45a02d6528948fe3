----------------------------- MODULE MCRunQueue -----------------------------
(****************************************************************************)
(* Instances of RunQueue for TLC.                                           *)
(*  - Twins: one recipe built in two multiconfigs, so that unpack2 and      *)
(*    build2 write the stamps of unpack1 and build1, and a second recipe    *)
(*    that needs build1.                                                    *)
(*  - Chain: two recipes, the second of which needs the first.              *)
(*  - Wide: three tasks may run at once if nothing limits them.             *)
(****************************************************************************)
EXTENDS RunQueue, TLC

CONSTANTS
    unpack1, unpack2, build1, build2, configure3, build3,   \* tasks
    main, fake,                                             \* workers
    r1, r2, r3                                              \* recipes

SixTasks == {unpack1, unpack2, build1, build2, configure3, build3}
TwinDepends == (unpack1 :> {} @@ unpack2 :> {} @@ build1 :> {unpack1}
                 @@ build2 :> {unpack2} @@ configure3 :> {}
                 @@ build3 :> {configure3, build1})
FourTasks == {unpack1, unpack2, build1, build2}
WideTasks == {unpack1, unpack2, build1, configure3}
ChainDepends == [TwinDepends EXCEPT ![build2] = {unpack2, build1}]
FourDepends == [t \in FourTasks |-> ChainDepends[t]]
WideDepends == [t \in WideTasks |-> TwinDepends[t]]

MCTaskName == [t \in SixTasks |->
    CASE t \in {unpack1, unpack2} -> "do_unpack"
      [] t = configure3           -> "do_configure"
      [] OTHER                    -> "do_build"]
MCRecipe == [t \in SixTasks |->
    CASE t \in {unpack1, build1} -> r1
      [] t \in {unpack2, build2} -> r2
      [] OTHER                   -> r3]
TwinRecipe == [MCRecipe EXCEPT ![unpack2] = r1, ![build2] = r1]

Unlimited == [n \in {"do_unpack", "do_configure", "do_build"} |-> 0]
OneUnpack == [Unlimited EXCEPT !["do_unpack"] = 1]
OwnStamp == [t \in SixTasks |-> t]
TwinStamp == [OwnStamp EXCEPT ![unpack2] = unpack1, ![build2] = build1]
\* The stamps of two build tasks are there, but what they depend on has to run.
MCStamped == {build1, build3}

AllMain == [t \in SixTasks |-> main]
FourMain == [t \in FourTasks |-> main]
\* The build task runs under fakeroot.
BuildFake == [t \in WideTasks |-> IF t = build1 THEN fake ELSE main]
=============================================================================
