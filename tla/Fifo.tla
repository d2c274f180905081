-------------------------------- MODULE Fifo --------------------------------
(***************************************************************************)
(* The waiting lines of the engine: arrays that are pushed at the end,     *)
(* shifted at the front, and spliced when somebody in the middle gives up. *)
(***************************************************************************)
EXTENDS Integers, Sequences

Members(p) == {p[i] : i \in 1..Len(p)}

\* The first n of the line, and what n shifts leave of it.
First(p, n) == {p[i] : i \in 1..n}
Rest(p, n) == SubSeq(p, n + 1, Len(p))

\* Nobody stands in line twice.
Distinct(p) == \A i, j \in 1..Len(p) : p[i] = p[j] => i = j

\* The line p with a spliced out of its place.
Without(p, a) ==
    LET i == CHOOSE i \in 1..Len(p) : p[i] = a
    IN  SubSeq(p, 1, i - 1) \o SubSeq(p, i + 1, Len(p))
=============================================================================
