--------------------------- MODULE MCAskScheduler ---------------------------
(* A small instance of AskScheduler for TLC: actor 1 has the asks a1 and a2, the *)
(* second made after an answer of actor 2, whose ask b1 is typed.                *)
EXTENDS AskScheduler

CONSTANTS a1, a2, b1

ActorOfAsk == [q \in Asks |-> IF q \in {a1, a2} THEN 1 ELSE 2]
AfterOf == [q \in Asks |-> IF q = a2 THEN {b1} ELSE {}]

=============================================================================
