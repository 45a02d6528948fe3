--------------------------- MODULE MCMultiProcessCache ---------------------------
(****************************************************************************)
(* One cooker with two parsers, or two cookers that parse on their own.     *)
(****************************************************************************)
EXTENDS MultiProcessCache, TLC

CONSTANTS k1, k2, k3, p1, p2

OneOrTwo == {{k1, p1, p2}, {k2, k3}}

\* Pids that are close to each other, so that processes meet at one name.
Pids == k1 :> 3 @@ p1 :> 1 @@ p2 :> 2 @@ k2 :> 1 @@ k3 :> 2

Finders == k1 :> {} @@ p1 :> {"file"} @@ p2 :> {"code"} @@ k2 :> {"file"} @@ k3 :> {"code"}
=============================================================================
