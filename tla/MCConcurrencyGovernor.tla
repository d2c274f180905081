----------------------- MODULE MCConcurrencyGovernor -----------------------
(* Small instances of ConcurrencyGovernor for TLC: workflow runs A and B, a *)
(* subagent pool P and the observer O, with the requests named after them.  *)
EXTENDS ConcurrencyGovernor

CONSTANTS A, B, P, O, a1, a2, b1, p1, o1

RunOfRequest ==
    [r \in Requests |-> CASE r \in {a1, a2} -> A [] r = b1 -> B [] r = p1 -> P [] r = o1 -> O]

\* With one request each and the same right to abort, the runs A and B are interchangeable.
Swap == {[v \in {A, B, a1, b1} |->
             CASE v = A -> B [] v = B -> A [] v = a1 -> b1 [] v = b1 -> a1]}

=============================================================================
