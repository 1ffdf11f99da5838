-------------------------------- MODULE MCShell --------------------------------
(***************************************************************************)
(* An instance of Shell for TLC: lines of every kind.                      *)
(***************************************************************************)
EXTENDS ShellProperties

Prog(out, reads) == [runs |-> TRUE, out |-> out, reads |-> reads]
Typed(w, k, d, l, r) == [word |-> w, n |-> k, dir |-> d, left |-> l, right |-> r]

MCLines ==
    { Typed(w, NONE, Home, NotFound, NONE) : w \in {"", "exit", "history", "!"} }
    \cup { Typed("cd", NONE, d, NotFound, NONE) : d \in {Home, "d1", "nowhere"} }
    \cup { Typed("!", k, Home, NotFound, NONE) : k \in {0, 1, 2, 7} }
    \cup { Typed("run!", k, Home, NotFound, NONE) : k \in {NONE, 0, 1} }
    \cup { Typed("run", NONE, Home, l, r) :
             l \in {NotFound, Prog(Capacity, FALSE), Prog(Capacity + 1, FALSE)},
             r \in {NONE, NotFound, Prog(0, TRUE), Prog(0, FALSE)} }
================================================================================
