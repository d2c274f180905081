---------------------------- MODULE ReleaseLedger ----------------------------
(***************************************************************************)
(* What a server root promises of its releases, whatever happens to the    *)
(* processes on it: there is one release to fall back on, and only a       *)
(* release whose Core has come up ever takes its place.                    *)
(***************************************************************************)
CONSTANTS Release, None

VARIABLES
    committed,     \* the release a start with nothing left unfinished executes
    proven         \* the releases whose Core has come up

vars == <<committed, proven>>

Init ==
    /\ committed \in Release \cup {None}
    /\ proven = {committed, None}

Prove(r) == proven' = proven \cup {r} /\ UNCHANGED committed

Commit(r) == r \in proven /\ committed' = r /\ UNCHANGED proven

Next == \E r \in Release \cup {None} : Prove(r) \/ Commit(r)

Spec == Init /\ [][Next]_vars
=============================================================================
