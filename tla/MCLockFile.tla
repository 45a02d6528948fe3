----------------------------- MODULE MCLockFile -----------------------------
(****************************************************************************)
(* Three processes and enough inodes that one is always free; the callers   *)
(* of lockfile in BitBake: exclusive (default), shared (the caches), and    *)
(* a single attempt (the bitbake server, save_extras).                      *)
(****************************************************************************)
EXTENDS LockFile, TLC

CONSTANTS
    p1, p2, p3,         \* processes
    i1, i2, i3          \* inodes

Exclusive == [shared |-> FALSE, retry |-> TRUE, block |-> FALSE]
Shared == [shared |-> TRUE, retry |-> TRUE, block |-> FALSE]
Once == [shared |-> FALSE, retry |-> FALSE, block |-> FALSE]
MCCalls == {Exclusive, Shared, Once}
=============================================================================
