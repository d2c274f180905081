--------------------------- MODULE MCOwnershipLock ---------------------------
(***************************************************************************)
(* Instances of OwnershipLock for TLC: p1 iterates twice, which lets it    *)
(* clear a gate left behind and then enter; p2 once, and its reads may     *)
(* fail; p3 is a latecomer that only makes the attempt in front of the     *)
(* loop.                                                                   *)
(***************************************************************************)
EXTENDS OwnershipLock

CONSTANTS p1, p2, p3

MCProcess == {p1, p2, p3}
MCFlaky == {p2}
MCAttempts == [p \in MCProcess |-> CASE p = p1 -> 2 [] p = p2 -> 1 [] p = p3 -> 0]
=============================================================================
