--------------------------- MODULE SeatGate_proofs ---------------------------
(***************************************************************************)
(* The safety properties of SeatGate for every set of agents and every set *)
(* of bounds.  TypeOK, SeatsAccounted and NoFreeSeat are inductive only    *)
(* together: a FIFO without repetition is what makes a splice remove an    *)
(* agent, and seats are counted by cardinalities, which need the types.    *)
(***************************************************************************)
EXTENDS SeatGate, Engine_lemmas

-----------------------------------------------------------------------------
(* The seats.                                                              *)

\* What holds of the agents w at work and the FIFO p under the bound l.
Seated(w, p, l) ==
    /\ w \subseteq Agents
    /\ p \in Seq(Agents)
    /\ Distinct(p)
    /\ w \cap Members(p) = {}
    /\ p # <<>> => Cardinality(w) >= l

LEMMA Counted ==
    ASSUME NEW w \in SUBSET Agents
    PROVE  IsFiniteSet(w) /\ Cardinality(w) \in Nat
BY SeatAssumption, FS_Subset, FS_CardinalityType

\* unpark: nobody is lost, and either the FIFO is empty or the seats are taken; whoever leaves
\* the FIFO finds the bound kept.
LEMMA SeatsGiven ==
    ASSUME NEW w \in SUBSET Agents, NEW p \in Seq(Agents), Distinct(p),
           w \cap Members(p) = {}, NEW l \in Nat \ {0}, Unpark(w, p, l)
    PROVE  /\ Seated(working', parked', l)
           /\ working' \cup Members(parked') = w \cup Members(p)
           /\ w \subseteq working'
           /\ working' # w => Cardinality(working') <= l
<1> DEFINE n == Seats(w, p, l)
           first == First(p, n)
           rest == Rest(p, n)
<1>1. IsFiniteSet(w) /\ Cardinality(w) \in Nat /\ Len(p) \in Nat
    BY Counted, LenProperties
<1>2. /\ n \in 0..Len(p)
      /\ n < Len(p) => Cardinality(w) + n >= l
      /\ n > 0 => Cardinality(w) + n <= l
    BY <1>1 DEF Seats
<1> HIDE DEF n
<1>3. /\ rest \in Seq(Agents) /\ Len(rest) = Len(p) - n /\ Distinct(rest)
      /\ first \cup Members(rest) = Members(p)
      /\ first \cap Members(rest) = {}
      /\ IsFiniteSet(first) /\ Cardinality(first) = n
    BY <1>2, Shifted
<1>4. working' = w \cup first /\ parked' = rest
    BY DEF Unpark, n
<1> HIDE DEF first, rest
<1>5. first \subseteq Members(p) /\ Members(p) \subseteq Agents
    BY <1>3, ElementOfSeq DEF Members
<1>6. Cardinality(working') = Cardinality(w) + n
    <2>1. w \cap first = {} /\ Cardinality({}) = 0
        BY <1>5, FS_EmptySet
    <2>2. Cardinality(w \cup first) = Cardinality(w) + Cardinality(first) - Cardinality(w \cap first)
        BY <1>1, <1>3, FS_Union
    <2>3. Cardinality(working') = Cardinality(w) + Cardinality(first) - 0
        BY <1>4, <2>1, <2>2, Zenon
    <2> QED
        BY <1>1, <1>2, <1>3, <2>3
<1>7. parked' # <<>> => Cardinality(working') >= l
    <2> SUFFICES ASSUME parked' # <<>> PROVE Cardinality(working') >= l
        OBVIOUS
    <2>1. Len(rest) > 0
        BY <1>3, <1>4, EmptySeq, LenProperties
    <2> QED
        BY <1>1, <1>2, <1>3, <1>6, <2>1
<1>8. working' # w => Cardinality(working') <= l
    <2> SUFFICES ASSUME working' # w PROVE Cardinality(working') <= l
        OBVIOUS
    <2>1. first # {}
        BY <1>4
    <2>2. n > 0
        BY <1>2, <1>3, <2>1, FS_EmptySet
    <2> QED
        BY <1>2, <1>6, <2>2
<1>9. Seated(working', parked', l)
    BY <1>3, <1>4, <1>5, <1>7 DEF Seated
<1> QED
    BY <1>3, <1>4, <1>8, <1>9

\* The three ways askSettled goes.
LEMMA SeatsSettled ==
    ASSUME NEW a \in Agents, NEW w, NEW p, limit \in Nat \ {0}, Seated(w, p, limit),
           started = w \cup Members(p), AskSettled(a, w, p)
    PROVE  /\ Seated(working', parked', limit)
           /\ started' = working' \cup Members(parked')
           /\ started' = started \ {a}
           /\ a \notin Members(p) =>
                 /\ Members(parked') \subseteq Members(p)
                 /\ Members(p) # Members(parked') => Cardinality(working') <= limit
<1> USE DEF Seated
<1>1. started' = started \ {a}
    BY DEF AskSettled
<1>2. CASE a \in started \cap Members(p) /\ working' = w /\ parked' = Without(p, a)
    <2>1. /\ parked' \in Seq(Agents) /\ Distinct(parked')
          /\ Members(parked') = Members(p) \ {a}
        BY <1>2, Spliced
    <2>2. p # <<>>
        BY <1>2, EmptySeq DEF Members
    <2> QED
        BY <1>1, <1>2, <2>1, <2>2
<1>3. CASE a \in (started \cap w) \ Members(p) /\ Unpark(w \ {a}, p, limit)
    <2>1. w \ {a} \in SUBSET Agents /\ (w \ {a}) \cap Members(p) = {}
        OBVIOUS
    <2>2. /\ Seated(working', parked', limit)
          /\ working' \cup Members(parked') = (w \ {a}) \cup Members(p)
          /\ w \ {a} \subseteq working'
          /\ working' # w \ {a} => Cardinality(working') <= limit
        BY <1>3, <2>1, SeatsGiven
    <2> QED
        BY <1>1, <1>3, <2>1, <2>2
<1>4. CASE a \notin started \cap (w \cup Members(p)) /\ working' = w /\ parked' = p
    BY <1>1, <1>4
<1> QED
    BY <1>2, <1>3, <1>4 DEF AskSettled

-----------------------------------------------------------------------------
(* The scheduler.                                                          *)

\* A dispatch adds waiting asks, and none beyond the bound.
LEMMA Pumped ==
    ASSUME NEW wait \in SUBSET Agents, NEW cur \in SUBSET Agents, NEW l, Pump(wait, cur, l)
    PROVE  /\ current' \in SUBSET Agents /\ waiting' \in SUBSET Agents
           /\ cur \subseteq current'
           /\ current' \ cur = wait \ waiting'
           /\ current' # cur => Cardinality(current') <= l
<1>1. PICK D \in SUBSET (wait \ cur) :
         /\ D # {} => Cardinality(cur \cup D) <= l
         /\ current' = cur \cup D
         /\ waiting' = wait \ D
    BY DEF Pump
<1> QED
    BY <1>1

-----------------------------------------------------------------------------
(* The invariant.                                                          *)

IInv ==
    /\ TypeOK
    /\ SeatsAccounted
    /\ NoFreeSeat

LEMMA SeatedByInv ==
    ASSUME IInv
    PROVE  /\ Seated(working, parked, limit)
           /\ started = working \cup Members(parked)
           /\ limit \in Nat \ {0}
BY SeatAssumption DEF IInv, TypeOK, SeatsAccounted, NoFreeSeat, Seated, Distinct, Parked

\* What an action has to establish.
LEMMA InvBySeated ==
    ASSUME limit' \in Limits, waiting' \subseteq Agents, current' \subseteq Agents,
           tooling' \subseteq Agents, over' \in BOOLEAN,
           Seated(working', parked', limit'), started' = working' \cup Members(parked'),
           started' \subseteq current'
    PROVE  IInv'
BY DEF IInv, TypeOK, SeatsAccounted, NoFreeSeat, Seated, Distinct, Parked

LEMMA InvInit == Init => IInv
<1> SUFFICES ASSUME Init PROVE IInv
    OBVIOUS
<1>1. parked \in Seq(Agents) /\ Len(parked) = 0
    BY EmptySeq DEF Init
<1>2. 1..Len(parked) = {}
    BY <1>1
<1>3. Parked = {}
    BY <1>2 DEF Parked, Members
<1> QED
    BY <1>1, <1>2, <1>3 DEF Init, IInv, TypeOK, SeatsAccounted, NoFreeSeat

LEMMA InvNext == IInv /\ [Next]_vars => IInv'
<1> SUFFICES ASSUME IInv, [Next]_vars PROVE IInv'
    OBVIOUS
<1>1. /\ Seated(working, parked, limit)
      /\ started = working \cup Members(parked)
      /\ limit \in Nat \ {0}
    BY SeatedByInv
<1>2. /\ limit \in Limits /\ waiting \in SUBSET Agents /\ current \in SUBSET Agents
      /\ tooling \subseteq Agents /\ over \in BOOLEAN
      /\ started \subseteq current
      /\ working \in SUBSET Agents /\ parked \in Seq(Agents)
      /\ Limits \subseteq Nat \ {0}
    BY SeatAssumption DEF IInv, TypeOK, SeatsAccounted
<1>3. ASSUME NEW a \in Agents, Ask(a) PROVE IInv'
    <2>1. /\ current' \in SUBSET Agents /\ waiting' \in SUBSET Agents
          /\ current \subseteq current'
        BY <1>2, <1>3, Pumped DEF Ask
    <2> QED
        BY <1>1, <1>2, <1>3, <2>1, InvBySeated DEF Ask, gate
<1>4. ASSUME NEW a \in Agents, AskStarted(a) PROVE IInv'
    <2>1. working' = working \cup {a} /\ parked' = parked /\ a \notin Members(parked)
        BY <1>1, <1>4 DEF AskStarted, Parked
    <2>2. IsFiniteSet(working) /\ Cardinality(working) \in Nat
        BY <1>2, Counted
    <2>3. Cardinality(working') \in Nat /\ Cardinality(working') >= Cardinality(working)
        <3>1. Cardinality(working \cup {a})
                = IF a \in working THEN Cardinality(working) ELSE Cardinality(working) + 1
            BY <2>2, FS_AddElement
        <3>2. Cardinality(working') = Cardinality(working \cup {a})
            BY <2>1
        <3> QED
            BY <2>2, <3>1, <3>2
    <2>4. Seated(working', parked', limit)
        BY <1>1, <2>1, <2>2, <2>3 DEF Seated
    <2> QED
        BY <1>1, <1>2, <1>4, <2>1, <2>4, InvBySeated DEF AskStarted
<1>5. ASSUME NEW a \in Agents, a \in current, AskSettled(a, working, parked),
             Pump(waiting, current \ {a}, limit), UNCHANGED <<limit, tooling, over>>
      PROVE  IInv'
    <2>1. /\ current' \in SUBSET Agents /\ waiting' \in SUBSET Agents
          /\ current \ {a} \subseteq current'
        BY <1>2, <1>5, Pumped
    <2>2. /\ Seated(working', parked', limit)
          /\ started' = working' \cup Members(parked')
          /\ started' = started \ {a}
        BY <1>1, <1>5, SeatsSettled
    <2> QED
        BY <1>2, <1>5, <2>1, <2>2, InvBySeated
<1>6. ASSUME NEW a \in Agents, SessionFailed(a) PROVE IInv'
    BY <1>5, <1>6 DEF SessionFailed
<1>7. ASSUME NEW a \in Agents, Settle(a) PROVE IInv'
    BY <1>1, <1>2, <1>5, <1>7 DEF Settle
<1>8. ASSUME NEW a \in Agents, Park(a) PROVE IInv'
    <2>1. /\ a \in working /\ Cardinality(working) > limit
          /\ working' = working \ {a} /\ parked' = Append(parked, a)
        BY <1>8 DEF Park
    <2>2. a \notin Members(parked) /\ Distinct(parked)
        BY <1>1, <2>1 DEF Seated
    <2>3. /\ parked' \in Seq(Agents)
          /\ Members(parked') = Members(parked) \cup {a}
          /\ Distinct(parked')
        BY <1>2, <2>1, <2>2, Pushed
    <2>4. Cardinality(working') >= limit
        <3>1. /\ Cardinality(working) \in Nat
              /\ Cardinality(working \ {a}) = Cardinality(working) - 1
            BY <1>2, <2>1, Counted, FS_RemoveElement
        <3> QED
            BY <1>1, <2>1, <3>1
    <2>5. Seated(working', parked', limit)
        BY <1>1, <2>1, <2>3, <2>4 DEF Seated
    <2> QED
        BY <1>1, <1>2, <1>8, <2>1, <2>3, <2>5, InvBySeated DEF Park
<1>9. ASSUME NEW a \in Agents, a \in Parked
      PROVE  /\ Seated(working \cup {a}, Without(parked, a), limit)
             /\ started = (working \cup {a}) \cup Members(Without(parked, a))
             /\ a \notin Members(Without(parked, a))
    <2>1. /\ Without(parked, a) \in Seq(Agents)
          /\ Members(Without(parked, a)) = Members(parked) \ {a}
          /\ Distinct(Without(parked, a))
        BY <1>1, <1>2, <1>9, Spliced DEF Parked, Seated
    <2>2. Cardinality(working) >= limit
        BY <1>1, <1>9, EmptySeq DEF Parked, Members, Seated
    <2>3. /\ Cardinality(working) \in Nat /\ Cardinality(working \cup {a}) \in Nat
          /\ Cardinality(working \cup {a}) >= Cardinality(working)
        BY <1>2, Counted, FS_AddElement
    <2>4. Cardinality(working \cup {a}) >= limit
        BY <1>1, <2>2, <2>3
    <2> QED
        BY <1>1, <1>9, <2>1, <2>4 DEF Seated, Parked
<1>10. ASSUME NEW a \in Agents, AbortRequest(a) PROVE IInv'
    BY <1>2, <1>9, <1>10, InvBySeated DEF AbortRequest
<1>11. ASSUME NEW a \in Agents, ToolStarts(a) \/ ToolEnds(a) PROVE IInv'
    BY <1>1, <1>2, <1>11, InvBySeated DEF ToolStarts, ToolEnds, gate
<1>12. ASSUME NEW a \in Agents, Drop(a) PROVE IInv'
    <2>1. /\ Seated(working', parked', limit)
          /\ started' = working' \cup Members(parked')
          /\ started' = started \ {a}
        <3>1. CASE a \in Parked
            BY <1>1, <1>9, <1>12, <3>1, SeatsSettled DEF Drop
        <3>2. CASE a \notin Parked
            BY <1>1, <1>12, <3>2, SeatsSettled DEF Drop
        <3> QED
            BY <3>1, <3>2
    <2> QED
        BY <1>2, <1>12, <2>1, InvBySeated DEF Drop
<1>13. ASSUME NEW l \in Limits, Retune(l) PROVE IInv'
    <2>1. /\ current' \in SUBSET Agents /\ waiting' \in SUBSET Agents
          /\ current \subseteq current'
        <3>1. CASE l > limit
            BY <1>2, <1>13, <3>1, Pumped DEF Retune
        <3>2. CASE ~(l > limit)
            BY <1>2, <1>13, <3>2 DEF Retune
        <3> QED
            BY <3>1, <3>2
    <2>2. /\ Seated(working', parked', l)
          /\ working' \cup Members(parked') = working \cup Members(parked)
        BY <1>1, <1>2, <1>13, SeatsGiven DEF Retune, Seated
    <2> QED
        BY <1>1, <1>2, <1>13, <2>1, <2>2, InvBySeated DEF Retune
<1>14. ASSUME Stop PROVE IInv'
    BY <1>1, <1>2, <1>14, InvBySeated DEF Stop, gate
<1>15. ASSUME UNCHANGED vars PROVE IInv'
    BY <1>1, <1>2, <1>15, InvBySeated DEF vars, gate
<1> QED
    BY <1>3, <1>4, <1>6, <1>7, <1>8, <1>10, <1>11, <1>12, <1>13, <1>14, <1>15 DEF Next

-----------------------------------------------------------------------------
(* The theorems.                                                           *)

\* The three invariants hold together in every reachable state.
THEOREM Invariance == Spec => []IInv
BY InvInit, InvNext, PTL DEF Spec

\* The sets and the FIFO keep their types.
THEOREM TypeCorrect == Spec => []TypeOK
<1>1. IInv => TypeOK
    BY DEF IInv
<1> QED
    BY <1>1, Invariance, PTL

\* An agent with a live ask works or is parked, and never both, whatever order starts, retunes,
\* aborts and settlements come in.
THEOREM AccountCorrect == Spec => []SeatsAccounted
<1>1. IInv => SeatsAccounted
    BY DEF IInv
<1> QED
    BY <1>1, Invariance, PTL

\* Nobody is parked while a seat is free.
THEOREM NobodyParkedForNothing == Spec => []NoFreeSeat
<1>1. IInv => NoFreeSeat
    BY DEF IInv
<1> QED
    BY <1>1, Invariance, PTL

\* A dispatch leaves fewer agents at work than the bound, and then nobody is parked.
LEMMA DispatchedAlone ==
    ASSUME IInv', NEW wait \in SUBSET Agents, NEW cur \in SUBSET Agents, Pump(wait, cur, limit'),
           started' \subseteq cur, Dispatched \subseteq wait \ waiting', Dispatched # {}
    PROVE  parked' = <<>>
<1>1. /\ current' \in SUBSET Agents
      /\ current' \ cur = wait \ waiting'
      /\ current' # cur => Cardinality(current') <= limit'
    BY Pumped
<1>2. PICK x \in current' : x \notin cur
    BY <1>1
<1>3. /\ working' \subseteq current' \ {x}
      /\ limit' \in Nat
      /\ parked' # <<>> => Cardinality(working') >= limit'
    BY <1>2, SeatAssumption DEF IInv, TypeOK, SeatsAccounted, NoFreeSeat
<1>4. /\ Cardinality(current') \in Nat /\ IsFiniteSet(current')
      /\ Cardinality(working') \in Nat
    BY <1>1, <1>3, Counted
<1>5. Cardinality(working') <= Cardinality(current') - 1
    <2>1. /\ IsFiniteSet(current' \ {x})
          /\ Cardinality(current' \ {x}) = Cardinality(current') - 1
        BY <1>2, <1>4, FS_RemoveElement
    <2>2. Cardinality(working') <= Cardinality(current' \ {x})
        BY <1>3, <2>1, FS_Subset
    <2> QED
        BY <2>1, <2>2
<1> QED
    BY <1>1, <1>2, <1>3, <1>4, <1>5

\* The scheduler, which knows of nobody parked, never dispatches past one.
THEOREM NobodyOvertaken == Spec => NoOvertaking
<1>1. ASSUME IInv, IInv', [Next]_vars, Dispatched # {} PROVE parked' = <<>>
    <2>1. /\ waiting \in SUBSET Agents /\ current \in SUBSET Agents
          /\ started \subseteq current
        BY <1>1 DEF IInv, TypeOK, SeatsAccounted
    <2>2. ASSUME NEW a \in Agents, Ask(a) PROVE parked' = <<>>
        <3>1. /\ Pump(waiting \cup {a}, current, limit')
              /\ started' = started
            BY <2>2 DEF Ask, gate
        <3>2. current' \ current = (waiting \cup {a}) \ waiting'
            BY <2>1, <3>1, Pumped
        <3>3. Dispatched \subseteq (waiting \cup {a}) \ waiting'
            BY <3>2 DEF Dispatched
        <3> QED
            BY <1>1, <2>1, <3>1, <3>3, DispatchedAlone
    <2>3. ASSUME NEW a \in Agents, SessionFailed(a) \/ Settle(a) PROVE parked' = <<>>
        <3>1. /\ Pump(waiting, current \ {a}, limit')
              /\ started' = started \ {a}
            BY <2>3 DEF SessionFailed, Settle, AskSettled
        <3>2. current' \ (current \ {a}) = waiting \ waiting'
            BY <2>1, <3>1, Pumped
        <3>3. Dispatched \subseteq waiting \ waiting'
            BY <3>2 DEF Dispatched
        <3> QED
            BY <1>1, <2>1, <3>1, <3>3, DispatchedAlone
    <2>4. ASSUME NEW l \in Limits, Retune(l) PROVE parked' = <<>>
        <3>1. CASE l > limit
            <4>1. Pump(waiting, current, limit') /\ started' = started
                BY <2>4, <3>1 DEF Retune
            <4>2. current' \ current = waiting \ waiting'
                BY <2>1, <4>1, Pumped
            <4>3. Dispatched \subseteq waiting \ waiting'
                BY <4>2 DEF Dispatched
            <4> QED
                BY <1>1, <2>1, <4>1, <4>3, DispatchedAlone
        <3>2. CASE ~(l > limit)
            BY <1>1, <2>4, <3>2 DEF Retune, Dispatched
        <3> QED
            BY <3>1, <3>2
    <2>5. ASSUME NEW a \in Agents,
                 AskStarted(a) \/ Park(a) \/ AbortRequest(a) \/ ToolStarts(a) \/ ToolEnds(a)
          PROVE  parked' = <<>>
        BY <1>1, <2>5 DEF Dispatched, AskStarted, Park, AbortRequest, ToolStarts, ToolEnds
    <2>6. ASSUME NEW a \in Agents, Drop(a) PROVE parked' = <<>>
        BY <1>1, <2>6 DEF Dispatched, Drop
    <2>7. CASE Stop
        BY <1>1, <2>7 DEF Dispatched, Stop
    <2>8. CASE UNCHANGED vars
        BY <1>1, <2>8 DEF Dispatched, vars
    <2> QED
        BY <1>1, <2>2, <2>3, <2>4, <2>5, <2>6, <2>7, <2>8 DEF Next
<1>2. IInv /\ IInv' /\ [Next]_vars => [Dispatched # {} => parked' = <<>>]_vars
    BY <1>1
<1> QED
    BY <1>2, Invariance, PTL DEF Spec, NoOvertaking

\* Nobody leaves the FIFO but into a seat that is free, or by its own abort.
THEOREM SeatsGivenAreFree == Spec => SeatsAreReal
<1> DEFINE Real(a) == \/ a \in working' /\ Cardinality(working') <= limit'
                      \/ parked' = Without(parked, a) /\ working' = working \cup {a}
                      \/ over
<1>1. ASSUME IInv, IInv', [Next]_vars, NEW x \in Parked \ Parked' PROVE Real(x)
    <2>1. /\ Seated(working, parked, limit)
          /\ started = working \cup Members(parked)
          /\ limit \in Nat \ {0}
        BY <1>1, SeatedByInv
    <2>2. working \in SUBSET Agents /\ parked \in Seq(Agents) /\ Limits \subseteq Nat \ {0}
        BY <1>1, SeatAssumption DEF IInv, TypeOK
    <2>3. x \in Members(parked) /\ x \notin Members(parked') /\ x \notin working
        BY <1>1, <2>1 DEF Parked, Seated
    <2>4. ASSUME NEW a \in Agents,
                 Ask(a) \/ AskStarted(a) \/ ToolStarts(a) \/ ToolEnds(a)
          PROVE  Real(x)
        BY <2>3, <2>4 DEF Ask, AskStarted, ToolStarts, ToolEnds, gate
    <2>5. ASSUME NEW a \in Agents, Park(a) PROVE Real(x)
        <3>1. a \notin Members(parked) /\ Distinct(parked) /\ parked' = Append(parked, a)
            BY <2>1, <2>5 DEF Seated, Park
        <3> QED
            BY <2>2, <2>3, <3>1, Pushed
    <2>6. ASSUME NEW a \in Agents, SessionFailed(a) \/ Settle(a) PROVE Real(x)
        <3>1. a \notin Members(parked)
            BY <2>1, <2>6 DEF Seated, SessionFailed, Settle
        <3>2. AskSettled(a, working, parked) /\ limit' = limit
            BY <2>6 DEF SessionFailed, Settle
        <3>3. /\ started' = working' \cup Members(parked')
              /\ started' = started \ {a}
              /\ Members(parked) # Members(parked') => Cardinality(working') <= limit
            BY <2>1, <3>1, <3>2, SeatsSettled
        <3> QED
            BY <2>1, <2>3, <3>1, <3>2, <3>3
    <2>7. ASSUME NEW a \in Agents, AbortRequest(a) PROVE Real(x)
        <3>1. a \in Members(parked) /\ parked' = Without(parked, a) /\ working' = working \cup {a}
            BY <2>7 DEF AbortRequest, Parked
        <3>2. Members(parked') = Members(parked) \ {a}
            BY <2>1, <3>1, Spliced DEF Seated
        <3> QED
            BY <2>3, <3>1, <3>2
    <2>8. ASSUME NEW l \in Limits, Retune(l) PROVE Real(x)
        <3>1. Unpark(working, parked, l) /\ limit' = l
            BY <2>8 DEF Retune
        <3>2. /\ working' \cup Members(parked') = working \cup Members(parked)
              /\ working' # working => Cardinality(working') <= l
            BY <2>1, <2>2, <3>1, SeatsGiven DEF Seated
        <3> QED
            BY <2>3, <3>1, <3>2
    <2>9. ASSUME NEW a \in Agents, Drop(a) PROVE Real(x)
        BY <2>9 DEF Drop
    <2>10. CASE Stop \/ UNCHANGED vars
        BY <2>3, <2>10 DEF Stop, vars, gate
    <2> QED
        BY <1>1, <2>4, <2>5, <2>6, <2>7, <2>8, <2>9, <2>10 DEF Next
<1>2. IInv /\ IInv' /\ [Next]_vars => [\A a \in Parked \ Parked' : Real(a)]_vars
    BY <1>1
<1> QED
    BY <1>2, Invariance, PTL DEF Spec, SeatsAreReal

=============================================================================
