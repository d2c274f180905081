--------------------------- MODULE MCReplayOrder ---------------------------
(* A small instance of ReplayOrder for TLC: x and y are asked at once, z after *)
(* the answer to x.                                                            *)
EXTENDS ReplayOrder

CONSTANTS x, y, z

AfterOf == [q \in Asks |-> IF q = z THEN {x} ELSE {}]

=============================================================================
