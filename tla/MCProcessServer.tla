----------------------------- MODULE MCProcessServer -----------------------------
(****************************************************************************)
(* Two builds; a server started for one build, or for one build and to be   *)
(* told to end; two builds, one of which is ended; a server that stays      *)
(* until it is told; three builds at once.                                  *)
(****************************************************************************)
EXTENDS ProcessServer, TLC

CONSTANTS c1, c2, c3

Commands(k1, k2, k3) == c1 :> k1 @@ c2 :> k2 @@ c3 :> k3
Setting(kinds, time, file, tries, n) ==
    [kind |-> kinds, timeout |-> time, sock |-> file, retries |-> tries, faults |-> n]

SomeSettings ==
    {Setting(Commands("ui", "ui", "nobody"), "none", None, 1, 1),
     Setting(Commands("server only", "ui", "nobody"), "some", Stale, 2, 0),
     Setting(Commands("server only", "ui", "kill"), "some", None, 1, 0),
     Setting(Commands("ui", "ui", "kill"), "none", None, 1, 0),
     Setting(Commands("ui", "kill", "nobody"), "never", Stale, 2, 1),
     Setting(Commands("ui", "ui", "ui"), "never", None, 1, 0)}
=============================================================================
