------------------------------ MODULE SeatGate ------------------------------
(***************************************************************************)
(* The two enforcement points of one run's concurrency bound: the ask      *)
(* scheduler, which dispatches an ask only below the bound, and the seat   *)
(* gate (bootstrap/src/app/workflow-seat-gate.ts), which parks a subagent  *)
(* before its next turn step once the bound has been lowered.              *)
(*                                                                         *)
(* Each keeps its own account and neither reads the other's: `current` is  *)
(* the scheduler's, `started`, `working` and `parked` are the gate's.  The *)
(* program is single-threaded; a handler is one step, except abortInFlight *)
(* whose loop is one Drop per ask with every other handler kept out.       *)
(*                                                                         *)
(* Abstracted: the order actors are pumped in, the governor behind the     *)
(* gate, and tryAcquire, which reads the gate and changes nothing.         *)
(***************************************************************************)
EXTENDS Fifo, FiniteSets

CONSTANTS
    Agents,        \* the subagents of the run, one ask in flight each
    Limits         \* the bounds the run may be started with or retuned to

ASSUME SeatAssumption ==
    /\ IsFiniteSet(Agents)
    /\ Limits \subseteq Nat \ {0}

VARIABLES
    limit,         \* caps.maxConcurrency, and the gate's copy: one call sets both
    waiting,       \* agents with an ask the scheduler has not dispatched
    current,       \* agents with a dispatched and unsettled ask; activeAsks is their number
    started,       \* the gate's instances: asks whose session exists and that it saw start
    working,       \* agents with a live ask that are not parked
    parked,        \* the FIFO of agents waiting for a seat
    tooling,       \* agents with a tool call in flight
    over           \* the run has settled

gate == <<started, working, parked>>
vars == <<limit, waiting, current, gate, tooling, over>>

Parked == Members(parked)

-----------------------------------------------------------------------------
(* The gate's operations.                                                  *)

\* MUTANT of Seats: the last seat is never filled.
SeatsButOne(w, p, l) ==
    LET free == l - Cardinality(w) - 1
    IN  IF free <= 0 THEN 0 ELSE IF free <= Len(p) THEN free ELSE Len(p)

\* MUTANT of Seats: one free seat lets everybody in.
SeatsForAll(w, p, l) == IF Cardinality(w) < l THEN Len(p) ELSE 0

\* How many of the FIFO p have a seat when the agents w work under the bound l.
Seats(w, p, l) ==
    LET free == l - Cardinality(w)
    IN  IF free <= 0 THEN 0 ELSE IF free <= Len(p) THEN free ELSE Len(p)

Unpark(w, p, l) ==
    LET n == Seats(w, p, l)
    IN  /\ working' = w \cup First(p, n)
        /\ parked' = Rest(p, n)

\* MUTANT of AskSettled: the seat that becomes free is not given on.
AskSettledKeepingSeat(a, w, p) ==
    /\ started' = started \ {a}
    /\ working' = w \ {a}
    /\ parked' = IF a \in started \cap Members(p) THEN Without(p, a) ELSE p

\* node-settled: a parked agent held no seat, so that its settlement lets nobody in; a working
\* one gives its seat up; an instance never seen starting is ignored.
AskSettled(a, w, p) ==
    /\ started' = started \ {a}
    /\ \/ a \in started \cap Members(p) /\ working' = w /\ parked' = Without(p, a)
       \/ a \in (started \cap w) \ Members(p) /\ Unpark(w \ {a}, p, limit)
       \/ a \notin started \cap (w \cup Members(p)) /\ working' = w /\ parked' = p

-----------------------------------------------------------------------------
(* The scheduler: dispatch the waiting asks of idle agents while the bound *)
(* allows it.                                                              *)

\* MUTANT of Pump: the bound is not read.
PumpUnbounded(wait, cur, l) ==
    /\ current' = cur \cup wait
    /\ waiting' = {}

Pump(wait, cur, l) ==
    \E D \in SUBSET (wait \ cur) :
        /\ D # {} => Cardinality(cur \cup D) <= l
        /\ D # wait \ cur => Cardinality(cur \cup D) >= l
        /\ current' = cur \cup D
        /\ waiting' = wait \ D

Init ==
    /\ limit \in Limits
    /\ waiting = {}
    /\ current = {}
    /\ started = {}
    /\ working = {}
    /\ parked = <<>>
    /\ tooling = {}
    /\ over = FALSE

Ask(a) ==
    /\ ~over /\ a \notin waiting
    /\ Pump(waiting \cup {a}, current, limit)
    /\ UNCHANGED <<limit, gate, tooling, over>>

\* The session is there and startAsk tells the gate.
AskStarted(a) ==
    /\ ~over /\ a \in current \ started
    /\ started' = started \cup {a}
    /\ working' = IF a \in Parked THEN working ELSE working \cup {a}
    /\ UNCHANGED <<limit, waiting, current, parked, tooling, over>>

\* The session cannot be created: the ask fails before the gate has heard of it.
SessionFailed(a) ==
    /\ ~over /\ a \in current \ started
    /\ AskSettled(a, working, parked)
    /\ Pump(waiting, current \ {a}, limit)
    /\ UNCHANGED <<limit, tooling, over>>

\* MUTANT of Park: only two over the bound.
ParkLate(a) ==
    /\ ~over /\ a \in working \ tooling
    /\ Cardinality(working) > limit + 1
    /\ working' = working \ {a}
    /\ parked' = Append(parked, a)
    /\ UNCHANGED <<limit, waiting, current, started, tooling, over>>

\* acquire on a turn step over the bound; under it, or with a tool in flight, it changes nothing.
Park(a) ==
    /\ ~over /\ a \in working \ tooling
    /\ Cardinality(working) > limit
    /\ working' = working \ {a}
    /\ parked' = Append(parked, a)
    /\ UNCHANGED <<limit, waiting, current, started, tooling, over>>

\* MUTANT of AbortRequest: the agent is left outside both sets.
AbortRequestLost(a) ==
    /\ ~over /\ a \in Parked
    /\ parked' = Without(parked, a)
    /\ UNCHANGED <<limit, waiting, current, started, working, tooling, over>>

\* The signal of one request ends its wait; the ask goes on, and the agent is working again.
AbortRequest(a) ==
    /\ ~over /\ a \in Parked
    /\ parked' = Without(parked, a)
    /\ working' = working \cup {a}
    /\ UNCHANGED <<limit, waiting, current, started, tooling, over>>

ToolStarts(a) ==
    /\ ~over /\ a \in working \ tooling
    /\ tooling' = tooling \cup {a}
    /\ UNCHANGED <<limit, waiting, current, gate, over>>

ToolEnds(a) ==
    /\ ~over /\ a \in tooling
    /\ tooling' = tooling \ {a}
    /\ UNCHANGED <<limit, waiting, current, gate, over>>

\* The ask of a working agent ends, well or badly: the event reaches the gate before the
\* scheduler counts the ask out and dispatches again.
Settle(a) ==
    /\ ~over /\ a \in working
    /\ AskSettled(a, working, parked)
    /\ Pump(waiting, current \ {a}, limit)
    /\ UNCHANGED <<limit, tooling, over>>

\* MUTANT of Retune: the bound is not floored at one.
RetuneExclusive(l) ==
    /\ ~over /\ l # limit
    /\ limit' = l - 1
    /\ UNCHANGED <<waiting, current, gate, tooling, over>>

\* setMaxConcurrency: the scheduler takes the bound and dispatches if it rose; then the gate does.
Retune(l) ==
    /\ ~over /\ l # limit
    /\ limit' = l
    /\ IF l > limit THEN Pump(waiting, current, l) ELSE UNCHANGED <<waiting, current>>
    /\ Unpark(working, parked, l)
    /\ UNCHANGED <<started, tooling, over>>

\* The run settles.  What the scheduler has not dispatched is dropped, and abortInFlight begins.
Stop ==
    /\ ~over
    /\ over' = TRUE
    /\ waiting' = {}
    /\ UNCHANGED <<limit, current, gate, tooling>>

\* One turn of abortInFlight: cancelAsk ends the wait of a parked agent, which puts it back to
\* work, and then the ask is recorded as settled.
Drop(a) ==
    /\ over /\ a \in current
    /\ IF a \in Parked
       THEN AskSettled(a, working \cup {a}, Without(parked, a))
       ELSE AskSettled(a, working, parked)
    /\ current' = current \ {a}
    /\ UNCHANGED <<limit, waiting, tooling, over>>

Next ==
    \/ \E a \in Agents :
          \/ Ask(a) \/ AskStarted(a) \/ SessionFailed(a)
          \/ Park(a) \/ AbortRequest(a) \/ ToolStarts(a) \/ ToolEnds(a)
          \/ Settle(a) \/ Drop(a)
    \/ \E l \in Limits : Retune(l)
    \/ Stop

Spec == Init /\ [][Next]_vars

\* A created session arrives or fails, abortInFlight goes on, and a working agent comes to its next
\* turn step: strong fairness for Park, since its tools run in between and every settlement may
\* disable it.  That a tool ends is a premise about its surroundings and not a promise of the code:
\* escalate waits for the user's answer without a timeout (workflow-driver.ts:430-433).  Nothing is
\* assumed of when an ask ends.
Fairness ==
    \A a \in Agents :
        /\ WF_vars(AskStarted(a) \/ SessionFailed(a))
        /\ WF_vars(ToolEnds(a))
        /\ SF_vars(Park(a))
        /\ WF_vars(Drop(a))

FairSpec == Spec /\ Fairness

-----------------------------------------------------------------------------
(* Properties.                                                             *)

\* Type invariant.
TypeOK ==
    /\ limit \in Limits
    /\ waiting \subseteq Agents
    /\ current \subseteq Agents
    /\ started \subseteq Agents
    /\ working \subseteq Agents
    /\ parked \in Seq(Agents)
    /\ tooling \subseteq Agents
    /\ over \in BOOLEAN

\* The arithmetic the two points agree by (concurrency.md, "One bound, two counters, no shared
\* state"): an agent whose ask has started works or is parked, never both, never neither, and
\* it stands in the FIFO once.  An agent in neither would pass the gate for ever.
SeatsAccounted ==
    /\ started = working \cup Parked
    /\ working \cap Parked = {}
    /\ started \subseteq current
    /\ \A i, j \in 1..Len(parked) : parked[i] = parked[j] => i = j

\* While somebody waits for a seat no seat is free, whatever order retunes, aborts, late starts
\* and settlements came in: nobody is parked for nothing, and at a bound of one somebody works.
NoFreeSeat == parked # <<>> => Cardinality(working) >= limit

\* The agents whose ask a step dispatches, one that had the previous ask settle in it included.
Dispatched == IF over' THEN {} ELSE (current' \ current) \cup (current' \cap (waiting \ waiting'))

\* The scheduler never puts a new subagent in front of a parked one, though it does not know
\* of any: a step that dispatches leaves the FIFO empty.
NoOvertaking == [][Dispatched # {} => parked' = <<>>]_vars

\* A seat that was never held is never given away: whoever leaves the FIFO without an abort of
\* its own is working within the bound, and nobody enters over it but the one aborted.
SeatsAreReal ==
    [][\A a \in Parked \ Parked' :
          \/ a \in working' /\ Cardinality(working') <= limit'
          \/ parked' = Without(parked, a) /\ working' = working \cup {a}
          \/ over]_vars

\* A lowered bound is enforced without waiting for an ask to end: once the run is no longer
\* retuned and no request is aborted, the number at work is within the bound and stays there,
\* late starts notwithstanding.
BoundReached ==
    <>[][limit' = limit /\ ~\E a \in Agents : AbortRequest(a)]_vars
        => <>[](Cardinality(working) <= limit)

\* If asks that get to work again and again end (their repair, nudge and retry budgets are
\* finite), whoever parks works again or ends, however the bound is moved.
Unparked ==
    (\A a \in Agents : SF_vars(Settle(a))) => \A a \in Agents : a \in Parked ~> a \notin Parked

=============================================================================
