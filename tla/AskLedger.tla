----------------------------- MODULE AskLedger -----------------------------
(***************************************************************************)
(* What the engine promises of the asks of a run, whatever happens to the  *)
(* process: each actor has a line of asks and answers them one by one, in  *)
(* the order of their places.  A place once given is kept, a line grows    *)
(* only at its end, and an answer is final.                                *)
(***************************************************************************)
EXTENDS Integers, FiniteSets

CONSTANTS Asks, Actors, ActorOf

VARIABLES
    place,         \* of each ask, its place in the line of its actor, or -1
    verdict        \* of each ask, "none", "completed" or "failed"

vars == <<place, verdict>>

Line(x) == {q \in Asks : ActorOf[q] = x /\ place[q] # -1}

Init ==
    /\ place = [q \in Asks |-> -1]
    /\ verdict = [q \in Asks |-> "none"]

\* New asks of an actor take the next places of its line.
Admit(x) ==
    \E new \in SUBSET {q \in Asks : ActorOf[q] = x /\ place[q] = -1} :
        LET n == Cardinality(Line(x))
        IN  \E f \in [new -> n..(n + Cardinality(new) - 1)] :
                /\ \A p, q \in new : f[p] = f[q] => p = q
                /\ place' = [q \in Asks |-> IF q \in new THEN f[q] ELSE place[q]]
                /\ UNCHANGED verdict

\* The first ask of the line without an answer gets it.
Answer(q) ==
    /\ place[q] # -1 /\ verdict[q] = "none"
    /\ \A p \in Line(ActorOf[q]) : place[p] < place[q] => verdict[p] # "none"
    /\ \E v \in {"completed", "failed"} : verdict' = [verdict EXCEPT ![q] = v]
    /\ UNCHANGED place

Next == (\E x \in Actors : Admit(x)) \/ (\E q \in Asks : Answer(q))

Spec == Init /\ [][Next]_vars

=============================================================================
