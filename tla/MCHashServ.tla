----------------------------- MODULE MCHashServ -----------------------------
(****************************************************************************)
(* Two connections, and tasks some of which turn out to be equivalent.      *)
(****************************************************************************)
EXTENDS HashServ, TLC

CONSTANTS
    c1, c2,         \* connections
    t1, t2, t3,     \* tasks
    o1, o2,         \* outputs
    g1, g2          \* names of collections

SqliteOrAlchemy ==
    {[backend |-> "sqlite", upstream |-> TRUE], [backend |-> "sqlalchemy", upstream |-> FALSE]}
Alchemy == {[backend |-> "sqlalchemy", upstream |-> FALSE]}

\* No connection, task, output or collection is told apart from the others.
Symmetry ==
    Permutations(Client) \cup Permutations(Task) \cup Permutations(Out) \cup Permutations(Mark)
=============================================================================
