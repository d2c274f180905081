--------------------- MODULE ConcurrencyGovernor_proofs ---------------------
(***************************************************************************)
(* The safety properties of ConcurrencyGovernor for every number of runs   *)
(* and requests, every bound and every window.                             *)
(***************************************************************************)
EXTENDS ConcurrencyGovernor, Engine_lemmas

-----------------------------------------------------------------------------
(* What the methods leave alone.                                           *)

\* The demand and the growth limit stand, and the deadline stands or is forgotten.
Untouched(c, d) ==
    /\ d.waiters = c.waiters
    /\ d.growthLimit = c.growthLimit
    /\ d.cooldownUntil = c.cooldownUntil \/ d.cooldownUntil = Absent

LEMMA ResetUntouched ==
    ASSUME NEW c, Good(c), NEW t \in Nat
    PROVE  Untouched(c, IdleReset(c, t))
<1> DEFINE d == [c EXCEPT !.cap = Initial, !.successStreak = 0, !.cooldownUntil = Absent,
                          !.lastGood = Absent, !.lastBad = Absent, !.lastThrottledAt = Absent,
                          !.epoch = @ + 1]
<1>1. d.waiters = c.waiters /\ d.growthLimit = c.growthLimit /\ d.cooldownUntil = Absent
  BY DEF Good, Controller
<1>2. IdleReset(c, t) \in {c, d}
  BY DEF IdleReset
<1>3. QED
  BY <1>1, <1>2 DEF Untouched

LEMMA AdmittedUntouched ==
    ASSUME NEW c, Good(c), NEW t \in Nat
    PROVE  Untouched(c, Admitted(Observe(c, t), t))
<1> DEFINE i == IdleReset(c, t)
           w == [i EXCEPT !.lastRequestAt = t, !.inFlight = @ + 1]
<1>1. Untouched(c, i) /\ i \in Controller
  BY ResetUntouched, IdleResetGood DEF Good
<1>2. Admitted(Observe(c, t), t) = w
  BY DEF Admitted, Observe
<1> HIDE DEF i
<1>3. Untouched(i, w)
  BY <1>1 DEF Untouched, Controller
<1>4. QED
  BY <1>1, <1>2, <1>3 DEF Untouched

\* The number of waiters is set, and nothing else but what an idle bucket forgets.
LEMMA WaitingSets ==
    ASSUME NEW c, Good(c), NEW t \in Nat, NEW n \in Nat
    PROVE  /\ Waiting(c, t, n).waiters = n
           /\ Waiting(c, t, n).growthLimit = c.growthLimit
           /\ Waiting(c, t, n).cooldownUntil \in {c.cooldownUntil, Absent}
<1> DEFINE i == IdleReset(c, t)
           w == [i EXCEPT !.waiters = n]
<1>1. Untouched(c, i) /\ i \in Controller
  BY ResetUntouched, IdleResetGood DEF Good
<1>2. Waiting(c, t, n) = w
  BY DEF Waiting
<1> HIDE DEF i
<1>3. w.waiters = n /\ w.growthLimit = i.growthLimit /\ w.cooldownUntil = i.cooldownUntil
  BY <1>1 DEF Controller
<1>4. QED
  BY <1>1, <1>2, <1>3 DEF Untouched

LEMMA SeededUntouched ==
    ASSUME NEW c, Good(c), NEW t \in Nat, NEW target \in Nat
    PROVE  Untouched(c, Seeded(c, t, target))
<1> DEFINE i == IdleReset(c, t)
           next == Smaller(i.growthLimit, target)
           w == [i EXCEPT !.cap = next, !.lastGood = Absent, !.lastBad = Absent,
                          !.successStreak = 0, !.epoch = @ + 1]
<1>1. Untouched(c, i) /\ i \in Controller
  BY ResetUntouched, IdleResetGood DEF Good
<1>2. Seeded(c, t, target) \in {i, w}
  BY DEF Seeded
<1> HIDE DEF i, next
<1>3. Untouched(i, w)
  BY <1>1 DEF Untouched, Controller
<1>4. QED
  BY <1>1, <1>2, <1>3 DEF Untouched

LEMMA GrowthLimitSets ==
    ASSUME NEW c, Good(c), NEW t \in Nat, NEW limit \in Nat
    PROVE  /\ WithGrowthLimit(c, t, limit).growthLimit = Larger(Initial, limit)
           /\ WithGrowthLimit(c, t, limit).waiters = c.waiters
           /\ WithGrowthLimit(c, t, limit).cooldownUntil \in {c.cooldownUntil, Absent}
<1> DEFINE i == IdleReset(c, t)
           growth == Larger(Initial, limit)
           d == [i EXCEPT !.growthLimit = growth]
           good == Smaller(d.lastGood, d.growthLimit)
           w == [d EXCEPT !.cap = d.growthLimit, !.lastGood = good,
                          !.successStreak = 0, !.epoch = @ + 1]
<1>1. Untouched(c, i) /\ i \in Controller
  BY ResetUntouched, IdleResetGood DEF Good
<1>2. WithGrowthLimit(c, t, limit) \in {d, w}
  BY DEF WithGrowthLimit
<1> HIDE DEF i, growth, good
<1>3. /\ d.growthLimit = growth /\ d.waiters = i.waiters /\ d.cooldownUntil = i.cooldownUntil
      /\ w.growthLimit = growth /\ w.waiters = i.waiters /\ w.cooldownUntil = i.cooldownUntil
  BY <1>1 DEF Controller
<1>4. QED
  BY <1>1, <1>2, <1>3 DEF Untouched, growth

\* The methods that end a request keep the growth limit.
LEMMA EndsKeepGrowthLimit ==
    ASSUME NEW c, Good(c), c.inFlight > 0, NEW t \in Nat, NEW e, NEW retryAfter \in Nat
    PROVE  /\ Ended(c, t).growthLimit = c.growthLimit
           /\ FailedTransient(c, t).growthLimit = c.growthLimit
           /\ Succeeded(c, t, e).growthLimit = c.growthLimit
           /\ Throttled(c, t, e, retryAfter).growthLimit = c.growthLimit
<1> DEFINE d == Ended(c, t)
           f == FailedTransient(c, t)
<1>1. /\ d \in Controller /\ f \in Controller
  BY EndedLawful, FailedTransientLawful DEF Lawful, Good
<1>2. d.growthLimit = c.growthLimit
  <2>1. IdleReset(c, t) = c /\ c \in Controller
    BY DEF IdleReset, IdleFor, Good
  <2>2. QED
    BY <2>1 DEF Ended, Controller
<1>3. f.growthLimit = c.growthLimit
  BY <1>1, <1>2 DEF FailedTransient, Controller
<1>4. Succeeded(c, t, e).growthLimit = c.growthLimit
  <2> DEFINE streak == Smaller(K, d.successStreak + 1)
             good == IF d.lastGood = Absent \/ d.cap > d.lastGood THEN d.cap ELSE d.lastGood
             counted == [d EXCEPT !.successStreak = streak]
             proven == [d EXCEPT !.successStreak = streak, !.lastGood = good]
             grown == [proven EXCEPT !.cap = Smaller(d.growthLimit, d.cap + 1),
                                     !.successStreak = 0]
  <2>1. Succeeded(c, t, e) \in {d, counted, proven, grown}
    BY DEF Succeeded
  <2> HIDE DEF d, streak, good
  <2>2. /\ counted.growthLimit = d.growthLimit /\ proven.growthLimit = d.growthLimit
        /\ grown.growthLimit = d.growthLimit
    BY <1>1 DEF Controller
  <2>3. QED
    BY <1>2, <2>1, <2>2
<1>5. Throttled(c, t, e, retryAfter).growthLimit = c.growthLimit
  <2> DEFINE until == Cooldown(f, t, retryAfter)
             g == [f EXCEPT !.lastThrottledAt = t, !.cooldownUntil = until]
             cap == CutLevel(g)
             good == IF Probing(g) THEN g.lastGood ELSE Absent
             cut == [g EXCEPT !.cap = cap, !.lastBad = g.cap, !.lastGood = good, !.epoch = @ + 1]
  <2>1. Throttled(c, t, e, retryAfter) \in {g, cut}
    BY DEF Throttled
  <2> HIDE DEF f, until, cap, good
  <2>2. g.growthLimit = f.growthLimit /\ cut.growthLimit = f.growthLimit
    BY <1>1 DEF Controller
  <2>3. QED
    BY <1>3, <2>1, <2>2
<1>6. QED
  BY <1>2, <1>3, <1>4, <1>5

\* Whoever is admitted through the gate leaves the bucket within its cap.
LEMMA GateLeavesRoom ==
    ASSUME NEW c, Good(c), NEW t \in Nat, CanAdmit(c, t)
    PROVE  LET d == Admitted(Observe(c, t), t)
           IN  d.inFlight <= d.cap /\ t >= d.cooldownUntil
<1> DEFINE i == IdleReset(c, t)
           w == [i EXCEPT !.lastRequestAt = t, !.inFlight = @ + 1]
<1>1. i \in Controller /\ LevelsOf(i)
  BY IdleResetGood DEF Good
<1>2. i.inFlight < i.cap /\ t >= i.cooldownUntil
  <2>1. CASE i = c
    BY <2>1 DEF CanAdmit
  <2>2. CASE i # c
    <3>1. i.inFlight = 0 /\ i.cooldownUntil = Absent
      <4>1. i.inFlight = c.inFlight /\ c.inFlight = 0
        BY <2>2, IdleResetGood DEF IdleFor
      <4>2. i.cooldownUntil = Absent
        BY <2>2 DEF IdleReset, Good, Controller
      <4>3. QED
        BY <4>1, <4>2
    <3>2. QED
      BY <1>1, <3>1, Fields DEF LevelsOf, Absent, Levels
  <2>3. QED
    BY <2>1, <2>2
<1>3. Admitted(Observe(c, t), t) = w
  BY DEF Admitted, Observe
<1> HIDE DEF i
<1>4. w.inFlight = i.inFlight + 1 /\ w.cap = i.cap /\ w.cooldownUntil = i.cooldownUntil
  BY <1>1 DEF Controller
<1>5. i.inFlight \in Nat /\ i.cap \in Nat
  BY <1>1, Fields DEF Counts, Levels
<1> HIDE DEF w
<1>6. QED
  BY <1>2, <1>3, <1>4, <1>5

-----------------------------------------------------------------------------
(* The growth limit of the runs that are here.                             *)

\* A finite set of numbers is bounded, by induction on its cardinality.
LEMMA FiniteIsBounded ==
    ASSUME NEW S, S \subseteq Nat, IsFiniteSet(S)
    PROVE  \E u \in Nat : \A m \in S : m <= u
<1> DEFINE Bounded(T) == \E u \in Nat : \A m \in T : m <= u
           Bad == {n \in Nat : \E T \in SUBSET S : Cardinality(T) = n /\ ~Bounded(T)}
<1> SUFFICES ASSUME ~Bounded(S) PROVE FALSE
  OBVIOUS
<1>1. Cardinality(S) \in Bad
  BY FS_CardinalityType
<1>2. PICK n \in Bad : \A m \in Bad : n <= m
  BY <1>1, LeastOf
<1>3. PICK T \in SUBSET S : Cardinality(T) = n /\ ~Bounded(T)
  BY <1>2
<1>4. PICK x : x \in T
  BY <1>3
<1>5. IsFiniteSet(T) /\ x \in Nat
  BY <1>4, FS_Subset
<1>6. Cardinality(T \ {x}) = n - 1 /\ Cardinality(T \ {x}) \in Nat /\ n \in Nat
  BY <1>3, <1>4, <1>5, FS_RemoveElement, FS_CardinalityType
<1>7. n - 1 \notin Bad
  BY <1>2, <1>6
<1>8. PICK u \in Nat : \A m \in T \ {x} : m <= u
  BY <1>6, <1>7
<1>9. Larger(u, x) \in Nat /\ \A m \in T : m <= Larger(u, x)
  BY <1>5, <1>8 DEF Larger
<1>10. QED
  BY <1>3, <1>9

LEMMA LargestOf ==
    ASSUME NEW S, S \subseteq Nat, IsFiniteSet(S), S # {}
    PROVE  Largest(S) \in S /\ \A m \in S : m <= Largest(S)
<1> DEFINE Above == {u \in Nat : \A m \in S : m <= u}
<1>1. Above # {}
  BY FiniteIsBounded
<1>2. PICK u \in Above : \A v \in Above : u <= v
  BY <1>1, LeastOf
<1>3. u \in S
  <2> SUFFICES ASSUME u \notin S PROVE FALSE
    OBVIOUS
  <2>1. PICK m \in S : TRUE
    OBVIOUS
  <2>2. \A k \in S : k <= u - 1
    BY <1>2
  <2>3. u - 1 \in Above
    BY <1>2, <2>1, <2>2
  <2>4. QED
    BY <1>2, <2>3
<1>4. QED
  BY <1>2, <1>3 DEF Largest

LEMMA GrowthLimitIsLevel ==
    ASSUME NEW runs \in SUBSET WorkflowRuns,
           NEW bounds \in [WorkflowRuns -> Bounds \cup {Absent}]
    PROVE  /\ GrowthLimit(runs, bounds) \in Nat
           /\ BaseLimit <= GrowthLimit(runs, bounds)
           /\ Registered(runs, bounds) # {} => Largest(Registered(runs, bounds)) \in Nat
<1> DEFINE R == Registered(runs, bounds)
           f == [run \in runs |-> bounds[run]]
<1>1. R \subseteq Nat /\ BaseLimit \in Nat
  <2>1. \A run \in runs : bounds[run] \in Bounds \cup {Absent}
    OBVIOUS
  <2>2. Bounds \subseteq Nat
    BY GovernorAssumption
  <2>3. BaseLimit \in Nat
    BY CapAssumption DEF BaseLimit
  <2>4. QED
    BY <2>1, <2>2, <2>3 DEF Registered
<1>2. IsFiniteSet(R)
  <2>1. IsFiniteSet(runs)
    BY GovernorAssumption, FS_Subset
  <2>2. f \in Surjection(runs, {bounds[run] : run \in runs})
    BY DEF Surjection
  <2>3. IsFiniteSet({bounds[run] : run \in runs})
    BY <2>1, <2>2, FS_Surjection
  <2>4. QED
    BY <2>3, FS_Subset DEF Registered
<1>3. IsFiniteSet(R \cup {BaseLimit})
  BY <1>2, FS_AddElement
<1> HIDE DEF R
<1>4. /\ Largest(R \cup {BaseLimit}) \in R \cup {BaseLimit}
      /\ BaseLimit <= Largest(R \cup {BaseLimit})
  BY <1>1, <1>3, LargestOf
<1>5. R # {} => Largest(R) \in R
  BY <1>1, <1>2, LargestOf
<1>6. QED
  BY <1>1, <1>4, <1>5 DEF GrowthLimit, R

\* What a call leaves of the count, the demand and the deadline.
Same(c, d) ==
    /\ Good(d)
    /\ d.inFlight = c.inFlight /\ d.waiters = c.waiters
    /\ d.cooldownUntil \in {c.cooldownUntil, Absent}

LEMMA RefreshedTracks ==
    ASSUME NEW c, Good(c), now \in Nat, NEW runs \in SUBSET WorkflowRuns,
           NEW bounds \in [WorkflowRuns -> Bounds \cup {Absent}]
    PROVE  /\ Same(c, Refreshed(c, runs, bounds))
           /\ Refreshed(c, runs, bounds).growthLimit = GrowthLimit(runs, bounds)
<1> DEFINE limit == GrowthLimit(runs, bounds)
           registered == Registered(runs, bounds)
           d == IF limit = c.growthLimit THEN c ELSE WithGrowthLimit(c, now, limit)
<1>1. /\ limit \in Nat /\ BaseLimit <= limit
      /\ registered # {} => Largest(registered) \in Nat
  BY GrowthLimitIsLevel
<1>2. Refreshed(c, runs, bounds) = IF registered = {} THEN d ELSE Seeded(d, now, Largest(registered))
  BY DEF Refreshed
<1> HIDE DEF limit, registered
<1>3. Larger(Initial, limit) = limit
  BY <1>1, CapAssumption DEF Larger, BaseLimit
<1>4. Same(c, d) /\ d.growthLimit = limit
  <2>1. CASE limit = c.growthLimit
    BY <2>1 DEF Same
  <2>2. CASE limit # c.growthLimit
    BY <1>1, <1>3, <2>2, WithGrowthLimitLawful, GrowthLimitSets DEF Same, Lawful
  <2>3. QED
    BY <2>1, <2>2
<1> HIDE DEF d
<1>5. ASSUME registered # {}
      PROVE  LET e == Seeded(d, now, Largest(registered))
             IN  Same(d, e) /\ e.growthLimit = limit
  <2> DEFINE e == Seeded(d, now, Largest(registered))
  <2>1. Good(d) /\ Largest(registered) \in Nat
    BY <1>1, <1>4, <1>5 DEF Same
  <2>2. Untouched(d, e)
    BY <2>1, SeededUntouched
  <2>3. Good(e) /\ e.inFlight = d.inFlight
    BY <2>1, SeededLawful DEF Lawful
  <2>4. Same(d, e) /\ e.growthLimit = limit
    <3> HIDE DEF e
    <3>1. QED
      BY <1>4, <2>2, <2>3 DEF Same, Untouched
  <2>5. QED
    BY <2>4
<1>6. QED
  BY <1>2, <1>4, <1>5 DEF Same, limit

LEMMA NotedTracks ==
    ASSUME Good(ctl), now \in Nat, used \in SUBSET WorkflowRuns,
           bound \in [WorkflowRuns -> Bounds \cup {Absent}], LimitTracksBounds, NEW run
    PROVE  /\ Same(ctl, Noted(run))
           /\ UsedBy(run) \in SUBSET WorkflowRuns
           /\ Noted(run).growthLimit = GrowthLimit(UsedBy(run), bound)
<1>1. UsedBy(run) \in SUBSET WorkflowRuns
  BY DEF UsedBy
<1>2. CASE run \in WorkflowRuns \ used /\ bound[run] # Absent
  BY <1>1, <1>2, RefreshedTracks DEF Noted
<1>3. CASE ~(run \in WorkflowRuns \ used /\ bound[run] # Absent)
  <2>1. Noted(run) = ctl
    BY <1>3 DEF Noted
  <2>2. Registered(UsedBy(run), bound) = Registered(used, bound)
    BY <1>3 DEF Registered, UsedBy
  <2>3. QED
    BY <1>1, <2>1, <2>2 DEF Same, LimitTracksBounds, GrowthLimit
<1>4. QED
  BY <1>2, <1>3

-----------------------------------------------------------------------------
(* The queues.                                                             *)

\* A queue holds requests of its run, each once, and none of them is in flight.
QueuesOwn ==
    \A run \in Runs : /\ Distinct(queue[run])
                      /\ \A r \in Members(queue[run]) : RunOf[r] = run

Lines ==
    /\ queue \in [Runs -> Seq(Requests)]
    /\ order \in Seq(Runs)
    /\ QueuesOwn
    /\ RotationExact

LEMMA MembersIn ==
    ASSUME NEW S, NEW p \in Seq(S)
    PROVE  Members(p) \subseteq S /\ (p = <<>> <=> Members(p) = {})
<1>1. Members(p) \subseteq S
  BY ElementOfSeq DEF Members
<1>2. p # <<>> => 1 \in 1..Len(p)
  BY EmptySeq, LenProperties
<1>3. p = <<>> => Members(p) = {}
  BY EmptySeq DEF Members
<1>4. QED
  BY <1>1, <1>2, <1>3 DEF Members

LEMMA Entered ==
    ASSUME Lines, NEW r \in Requests \ Queued, RunOf[r] \in Runs, Enter(r)
    PROVE  Lines' /\ Queued' = Queued \cup {r}
<1> DEFINE run == RunOf[r]
           line == queue[run]
           longer == Append(line, r)
<1>1. /\ line \in Seq(Requests) /\ Distinct(line) /\ r \notin Members(line)
      /\ queue \in [Runs -> Seq(Requests)] /\ order \in Seq(Runs)
  BY DEF Lines, QueuesOwn, Queued
<1>2. /\ longer \in Seq(Requests) /\ Members(longer) = Members(line) \cup {r}
      /\ Distinct(longer)
  BY <1>1, Pushed
<1>3. /\ queue' = [queue EXCEPT ![run] = longer]
      /\ order' = IF line = <<>> THEN Append(order, run) ELSE order
  BY <1>1 DEF Enter
<1> HIDE DEF longer
<1>4. queue' \in [Runs -> Seq(Requests)]
  BY <1>1, <1>2, <1>3
<1>5. \A q \in Runs : queue'[q] = IF q = run THEN longer ELSE queue[q]
  BY <1>1, <1>3
<1>6. QueuesOwn'
  BY <1>2, <1>5 DEF Lines, QueuesOwn
<1>7. Queued' = Queued \cup {r}
  BY <1>2, <1>5 DEF Queued
<1>8. longer # <<>>
  BY <1>2, MembersIn
<1>9. /\ order' \in Seq(Runs) /\ Distinct(order')
      /\ Members(order') = Members(order) \cup {run}
  <2>1. Distinct(order) /\ (line # <<>> <=> run \in Members(order))
    BY DEF Lines, RotationExact
  <2>2. CASE line = <<>>
    BY <1>1, <1>3, <2>1, <2>2, Pushed
  <2>3. CASE line # <<>>
    BY <1>1, <1>3, <2>1, <2>3
  <2>4. QED
    BY <2>2, <2>3
<1>10. RotationExact'
  <2>1. ASSUME NEW q \in Runs PROVE queue'[q] # <<>> <=> q \in Members(order')
    BY <1>5, <1>8, <1>9 DEF Lines, RotationExact
  <2>2. QED
    BY <1>9, <2>1 DEF RotationExact
<1>11. QED
  BY <1>4, <1>6, <1>7, <1>9, <1>10 DEF Lines

LEMMA Left ==
    ASSUME Lines, NEW r \in Queued, Leave(r)
    PROVE  Lines' /\ Queued' = Queued \ {r}
<1> DEFINE run == RunOf[r]
           line == queue[run]
           rest == Without(line, r)
<1>1. /\ line \in Seq(Requests) /\ Distinct(line) /\ r \in Members(line) /\ run \in Runs
      /\ queue \in [Runs -> Seq(Requests)] /\ order \in Seq(Runs)
  BY DEF Lines, QueuesOwn, Queued
<1>2. /\ rest \in Seq(Requests) /\ Members(rest) = Members(line) \ {r}
      /\ Distinct(rest)
  BY <1>1, Spliced
<1>3. /\ queue' = [queue EXCEPT ![run] = rest]
      /\ order' = IF rest = <<>> THEN Without(order, run) ELSE order
  BY <1>1 DEF Leave
<1> HIDE DEF rest
<1>4. queue' \in [Runs -> Seq(Requests)]
  BY <1>1, <1>2, <1>3
<1>5. \A q \in Runs : queue'[q] = IF q = run THEN rest ELSE queue[q]
  BY <1>1, <1>3
<1>6. QueuesOwn'
  BY <1>2, <1>5 DEF Lines, QueuesOwn
<1>7. Queued' = Queued \ {r}
  BY <1>2, <1>5 DEF Queued
<1>8. Distinct(order) /\ run \in Members(order)
  BY <1>1, MembersIn DEF Lines, RotationExact
<1>9. /\ order' \in Seq(Runs) /\ Distinct(order')
      /\ Members(order') = IF rest = <<>> THEN Members(order) \ {run} ELSE Members(order)
  <2>1. CASE rest = <<>>
    BY <1>1, <1>3, <1>8, <2>1, Spliced
  <2>2. CASE rest # <<>>
    BY <1>1, <1>3, <1>8, <2>2
  <2>3. QED
    BY <2>1, <2>2
<1>10. RotationExact'
  <2>1. ASSUME NEW q \in Runs PROVE queue'[q] # <<>> <=> q \in Members(order')
    BY <1>5, <1>8, <1>9 DEF Lines, RotationExact
  <2>2. QED
    BY <1>9, <2>1 DEF RotationExact
<1>11. QED
  BY <1>4, <1>6, <1>7, <1>9, <1>10 DEF Lines

\* The run whose turn it is has a waiter.
LEMMA NextRunWaits ==
    ASSUME Lines, order # <<>>
    PROVE  Head(queue[NextRun]) \in Queued
<1> DEFINE last == {i \in 1..Len(order) : order[i] \in lastGranted}
           after == IF last = {} THEN 0 ELSE CHOOSE i \in last : TRUE
           run == NextRun
<1>1. order \in Seq(Runs) /\ Len(order) \in Nat \ {0}
  BY EmptySeq, LenProperties DEF Lines
<1>2. after \in Nat
  BY <1>1
<1>3. (after % Len(order)) + 1 \in 1..Len(order)
  BY <1>1, <1>2
<1>4. run \in Members(order) /\ run \in Runs
  BY <1>1, <1>3, ElementOfSeq DEF NextRun, Members
<1> HIDE DEF run
<1>5. queue[run] \in Seq(Requests) /\ queue[run] # <<>>
  BY <1>4 DEF Lines, RotationExact
<1>6. Head(queue[run]) = queue[run][1] /\ 1 \in 1..Len(queue[run])
  BY <1>5, EmptySeq, LenProperties
<1>7. Head(queue[run]) \in Members(queue[run]) /\ Head(queue[run]) \in Requests
  BY <1>5, <1>6, MembersIn DEF Members
<1>8. QED
  BY <1>4, <1>7 DEF Queued, Lines, QueuesOwn, run

-----------------------------------------------------------------------------
(* The inductive invariant.  The gate and the timer are about the count of  *)
(* requests in flight, which is exact only because nobody waits and is in   *)
(* flight at once; the demand and the turn are about the queues, whose      *)
(* splices remove one waiter only because nobody stands in line twice; and  *)
(* the growth limit is the largest of a finite set of bounds.               *)

CountExact == ctl.inFlight = Cardinality(InFlight)

Apart == Queued \cap InFlight = {}

Inv ==
    /\ TypeOK
    /\ LevelsOf(ctl)
    /\ CountExact
    /\ QueuesOwn
    /\ Apart
    /\ RotationExact
    /\ WaitersFed
    /\ LimitTracksBounds
    /\ WakeKept

LEMMA CountOf ==
    ASSUME NEW S, S \subseteq Requests
    PROVE  /\ IsFiniteSet(S) /\ Cardinality(S) \in Nat
           /\ S = {} <=> Cardinality(S) = 0
           /\ \A r \in Requests \ S : Cardinality(S \cup {r}) = Cardinality(S) + 1
           /\ \A r \in S : Cardinality(S \ {r}) = Cardinality(S) - 1
<1>1. IsFiniteSet(S)
  BY GovernorAssumption, FS_Subset
<1>2. Cardinality(S) \in Nat /\ (S = {} <=> Cardinality(S) = 0)
  BY <1>1, FS_CardinalityType, FS_EmptySet
<1>3. \A r \in Requests \ S : Cardinality(S \cup {r}) = Cardinality(S) + 1
  BY <1>1, FS_AddElement
<1>4. \A r \in S : Cardinality(S \ {r}) = Cardinality(S) - 1
  BY <1>1, FS_RemoveElement
<1>5. QED
  BY <1>1, <1>2, <1>3, <1>4

\* A grant, from the controller c.
LEMMA Granted ==
    ASSUME TypeOK, NEW c, Good(c), c.inFlight = Cardinality(InFlight),
           NEW r \in Requests \ InFlight, Grant(r, c)
    PROVE  /\ Good(ctl') /\ Untouched(c, ctl')
           /\ InFlight' = InFlight \cup {r} /\ CountExact' /\ ctl'.inFlight > 0
           /\ outstanding' \in [Requests -> Nat \cup {Absent}]
           /\ lastGranted' \in SUBSET (Runs \cup {Observer})
<1>1. now \in Nat /\ ctl' = Admitted(Observe(c, now), now)
  BY DEF Grant, TypeOK
<1>2. Good(ctl') /\ ctl'.inFlight = c.inFlight + 1 /\ Untouched(c, ctl')
  BY <1>1, AdmittedLawful, AdmittedUntouched DEF Lawful
<1>3. ctl'.epoch \in Nat
  BY <1>2, Fields DEF Good, Counts
<1>4. outstanding' = [outstanding EXCEPT ![r] = ctl'.epoch]
  BY DEF Grant
<1>5. outstanding' \in [Requests -> Nat \cup {Absent}]
  BY <1>3, <1>4 DEF TypeOK
<1>6. InFlight' = InFlight \cup {r}
  BY <1>3, <1>4 DEF InFlight, TypeOK, Absent
<1>7. InFlight \subseteq Requests
  BY DEF InFlight
<1>8. Cardinality(InFlight') = Cardinality(InFlight) + 1 /\ Cardinality(InFlight) \in Nat
  BY <1>6, <1>7, CountOf
<1>9. lastGranted' \in SUBSET (Runs \cup {Observer})
  BY GovernorAssumption DEF Grant
<1>10. QED
  BY <1>2, <1>5, <1>6, <1>8, <1>9 DEF CountExact

\* A handler that leaves the queues, the tickets and the demand alone, and at most forgets
\* the deadline, keeps the timer and the count of waiters right.
LEMMA StandsStill ==
    ASSUME Inv, draining' = draining, Queued' = Queued, wake' = wake,
           now \in Nat, now' \in {now, now + 1},
           ctl' \in Controller, ctl'.waiters = ctl.waiters,
           ctl'.inFlight > 0 \/ ctl'.inFlight = ctl.inFlight,
           ctl'.cooldownUntil \in {ctl.cooldownUntil, Absent}
    PROVE  WaitersFed' /\ WakeKept'
<1>1. WaitersFed'
  BY DEF Inv, WaitersFed
<1>2. ctl.cooldownUntil \in MaybeTimes
  BY Fields DEF Inv, TypeOK
<1>3. WakeKept'
  BY <1>2 DEF Inv, WakeKept, MaybeTimes, Absent
<1>4. QED
  BY <1>1, <1>3

LEMMA InvInit == Init => Inv
<1> SUFFICES ASSUME Init PROVE Inv
  OBVIOUS
<1>1. BaseLimit \in Nat /\ Initial <= BaseLimit
  BY CapAssumption DEF BaseLimit
<1>2. Good(ctl) /\ ctl.inFlight = 0
  BY <1>1, NewControllerGood DEF Init
<1>3. \A run \in Runs : queue[run] = <<>> /\ Members(queue[run]) = {} /\ Distinct(queue[run])
  BY EmptySeq DEF Init, Members, Distinct
<1>4. order = <<>> /\ Members(order) = {} /\ Distinct(order)
  BY EmptySeq DEF Init, Members, Distinct
<1>5. Queued = {} /\ InFlight = {}
  BY <1>3 DEF Queued, InFlight, Init
<1>6. ctl.waiters = 0 /\ ctl.growthLimit = BaseLimit /\ ctl.cooldownUntil = Absent
  <2>1. Larger(Initial, BaseLimit) = BaseLimit
    BY <1>1, CapAssumption DEF Larger
  <2>2. QED
    BY <2>1 DEF Init, NewController
<1>7. TypeOK
  BY <1>2, EmptySeq DEF Init, TypeOK, Good, Absent
<1>8. CountExact /\ Apart /\ WaitersFed
  BY <1>2, <1>5, <1>6, FS_EmptySet DEF CountExact, Apart, WaitersFed
<1>9. QueuesOwn /\ RotationExact
  BY <1>3, <1>4 DEF QueuesOwn, RotationExact
<1>10. LimitTracksBounds
  <2>1. Registered(used, bound) \cup {BaseLimit} = {BaseLimit}
    BY DEF Init, Registered
  <2>2. Largest({BaseLimit}) = BaseLimit
    <3>1. IsFiniteSet({BaseLimit})
      BY FS_Singleton
    <3>2. Largest({BaseLimit}) \in {BaseLimit}
      BY <1>1, <3>1, LargestOf
    <3>3. QED
      BY <3>2
  <2>3. QED
    BY <1>6, <2>1, <2>2 DEF LimitTracksBounds, GrowthLimit
<1>11. WakeKept
  BY <1>5 DEF WakeKept
<1>12. QED
  BY <1>2, <1>7, <1>8, <1>9, <1>10, <1>11 DEF Inv, Good

-----------------------------------------------------------------------------
(* What the handlers have in common.                                       *)

\* The fields that every handler keeps typed, however it ends.
Typed ==
    /\ outstanding \in [Requests -> Nat \cup {Absent}]
    /\ lastGranted \in SUBSET (Runs \cup {Observer})
    /\ used \in SUBSET WorkflowRuns
    /\ bound \in [WorkflowRuns -> Bounds \cup {Absent}]
    /\ wake \in Nat \cup {Absent}
    /\ draining \in BOOLEAN
    /\ now \in Nat

\* The parts of the invariant that do not depend on the loop of drain().
Settled == Good(ctl) /\ Typed /\ Lines /\ CountExact /\ Apart /\ LimitTracksBounds

LEMMA InvParts == Inv <=> Settled /\ WaitersFed /\ WakeKept
BY DEF Inv, Settled, TypeOK, Typed, Good, Lines

\* The same in the next state.
LEMMA InvPartsNext == Settled' /\ WaitersFed' /\ WakeKept' => Inv'
BY DEF Inv, Settled, TypeOK, Typed, Good, Lines

\* While the loop of drain() is on, the demand and the timer are still to be set.
LEMMA LoopKeeps ==
    ASSUME draining' = TRUE, Settled'
    PROVE  Inv'
<1>1. WaitersFed' /\ WakeKept'
  BY DEF WaitersFed, WakeKept
<1>2. QED
  BY <1>1, InvPartsNext

\* A handler that touches neither the queues nor the timer.
LEMMA SteadyKeeps ==
    ASSUME Inv, UNCHANGED <<queue, order, wake, draining>>, now' \in {now, now + 1},
           Good(ctl'), ctl'.waiters = ctl.waiters,
           ctl'.growthLimit = GrowthLimit(used', bound'),
           ctl'.cooldownUntil \in {ctl.cooldownUntil, Absent},
           ctl'.inFlight > 0 \/ ctl'.inFlight = ctl.inFlight,
           CountExact', InFlight' \cap Queued = {},
           outstanding' \in [Requests -> Nat \cup {Absent}],
           lastGranted' \in SUBSET (Runs \cup {Observer}),
           used' \in SUBSET WorkflowRuns,
           bound' \in [WorkflowRuns -> Bounds \cup {Absent}]
    PROVE  Inv'
<1>1. Settled /\ now \in Nat
  BY InvParts DEF Settled, Typed
<1>2. Queued' = Queued
  BY DEF Queued
<1>3. Lines'
  BY <1>1 DEF Settled, Lines, QueuesOwn, RotationExact
<1>4. Typed'
  BY <1>1 DEF Settled, Typed
<1>5. Apart' /\ LimitTracksBounds'
  BY <1>2 DEF Apart, LimitTracksBounds
<1>6. Settled'
  BY <1>3, <1>4, <1>5 DEF Settled
<1>7. WaitersFed' /\ WakeKept'
  BY <1>1, <1>2, StandsStill DEF Good
<1>8. QED
  BY <1>6, <1>7, InvPartsNext

\* A handler that feeds the controller the number of waiters and sets the timer.
LEMMA FeedKeeps ==
    ASSUME Inv, Lines', Queued' \subseteq Queued,
           ctl' = Waiting(ctl, now, Cardinality(Queued')),
           wake' = Armed(ctl', Cardinality(Queued')),
           draining' \in BOOLEAN,
           UNCHANGED <<outstanding, lastGranted, used, bound, now>>
    PROVE  Inv'
<1> DEFINE n == Cardinality(Queued')
<1>1. Settled /\ now \in Nat
  BY InvParts DEF Settled, Typed
<1>2. Queued \subseteq Requests
  BY DEF Queued
<1>3. n \in Nat /\ (Queued' = {} <=> n = 0)
  BY <1>2, CountOf
<1>4. /\ Good(ctl') /\ ctl'.inFlight = ctl.inFlight /\ ctl'.waiters = n
      /\ ctl'.growthLimit = ctl.growthLimit
  <2> DEFINE d == Waiting(ctl, now, n)
  <2>1. Good(ctl)
    BY <1>1 DEF Settled
  <2>2. Lawful(ctl, d, now) /\ d.inFlight = ctl.inFlight
    BY <1>1, <1>3, <2>1, WaitingLawful
  <2>3. d.waiters = n /\ d.growthLimit = ctl.growthLimit
    BY <1>1, <1>3, <2>1, WaitingSets
  <2>4. ctl' = d
    OBVIOUS
  <2> HIDE DEF n, d
  <2>5. QED
    BY <2>2, <2>3, <2>4 DEF Lawful
<1>5. ctl'.cooldownUntil \in MaybeTimes
  BY <1>4, Fields DEF Good
<1> HIDE DEF n
<1>6. wake' \in Nat \cup {Absent}
  BY <1>1, <1>5 DEF Armed, Larger, MaybeTimes, n
<1>7. Lines' /\ Typed'
  BY <1>1, <1>6 DEF Settled, Typed
<1>8. InFlight' = InFlight
  BY DEF InFlight
<1>9. CountExact' /\ Apart' /\ LimitTracksBounds'
  BY <1>1, <1>4, <1>8 DEF Settled, CountExact, Apart, LimitTracksBounds
<1>10. WaitersFed'
  BY <1>4 DEF WaitersFed, n
<1>11. WakeKept'
  <2> SUFFICES ASSUME Queued' # {}, now < ctl'.cooldownUntil
               PROVE  wake' # Absent /\ wake' <= ctl'.cooldownUntil
    BY DEF WakeKept
  <2>1. n # 0 /\ ctl'.cooldownUntil # Absent /\ ctl'.cooldownUntil \in Nat
    BY <1>1, <1>3, <1>5 DEF MaybeTimes, Absent
  <2>2. wake' = ctl'.cooldownUntil
    BY <1>1, <2>1 DEF Armed, Larger, n
  <2>3. QED
    BY <2>1, <2>2
<1>12. Settled'
  BY <1>4, <1>7, <1>9 DEF Settled
<1>13. QED
  BY <1>10, <1>11, <1>12, InvPartsNext

-----------------------------------------------------------------------------
(* One lemma per handler.                                                  *)

\* What a request finds when its run has been noted.
LEMMA NotedInv ==
    ASSUME Inv, NEW run
    PROVE  /\ Same(ctl, Noted(run))
           /\ UsedBy(run) \in SUBSET WorkflowRuns
           /\ Noted(run).growthLimit = GrowthLimit(UsedBy(run), bound)
BY InvParts, NotedTracks DEF Settled, Typed

LEMMA TryAdmitKeeps ==
    ASSUME Inv, NEW r \in Requests, TryAdmit(r)
    PROVE  Inv'
<1> DEFINE n == Noted(RunOf[r])
           c == Observe(n, now)
<1>1. Settled /\ TypeOK /\ now \in Nat
  BY InvParts DEF Inv, Settled, Typed
<1>2. Same(ctl, n) /\ n.growthLimit = GrowthLimit(used', bound') /\ used' \in SUBSET WorkflowRuns
  BY NotedInv DEF TryAdmit
<1> HIDE DEF n
<1>3. Good(c) /\ Untouched(n, c) /\ c.inFlight = n.inFlight
  BY <1>1, <1>2, IdleResetGood, ResetUntouched DEF Same, Observe
<1>4. r \in Requests \ InFlight /\ r \notin Queued
  BY DEF TryAdmit, Idle
<1>5. /\ c.inFlight = ctl.inFlight /\ c.waiters = ctl.waiters
      /\ c.growthLimit = GrowthLimit(used', bound')
      /\ c.cooldownUntil \in {ctl.cooldownUntil, Absent}
      /\ c.inFlight = Cardinality(InFlight)
  BY <1>1, <1>2, <1>3 DEF Same, Untouched, Settled, CountExact
<1>6. /\ UNCHANGED <<queue, order, bound, wake, draining, now>>
      /\ Grant(r, c) \/ (ctl' = c /\ UNCHANGED <<outstanding, lastGranted>>)
  BY DEF TryAdmit, n
<1> HIDE DEF c
<1>7. CASE Grant(r, c)
  <2>1. /\ Good(ctl') /\ Untouched(c, ctl')
        /\ InFlight' = InFlight \cup {r} /\ CountExact' /\ ctl'.inFlight > 0
        /\ outstanding' \in [Requests -> Nat \cup {Absent}]
        /\ lastGranted' \in SUBSET (Runs \cup {Observer})
    BY <1>1, <1>3, <1>4, <1>5, <1>7, Granted
  <2>2. InFlight' \cap Queued = {}
    BY <1>1, <1>4, <2>1 DEF Settled, Apart
  <2>3. /\ ctl'.waiters = ctl.waiters /\ ctl'.growthLimit = GrowthLimit(used', bound')
        /\ ctl'.cooldownUntil \in {ctl.cooldownUntil, Absent}
    BY <1>5, <2>1 DEF Untouched
  <2>4. QED
    BY <1>1, <1>2, <1>6, <2>1, <2>2, <2>3, SteadyKeeps DEF TypeOK
<1>8. CASE ctl' = c /\ UNCHANGED <<outstanding, lastGranted>>
  <2>1. InFlight' = InFlight
    BY <1>8 DEF InFlight
  <2>2. CountExact' /\ InFlight' \cap Queued = {}
    BY <1>1, <1>5, <1>8, <2>1 DEF Settled, Apart, CountExact
  <2>3. QED
    BY <1>1, <1>2, <1>3, <1>5, <1>6, <1>8, <2>2, SteadyKeeps DEF TypeOK
<1>9. QED
  BY <1>6, <1>7, <1>8

LEMMA AdmitObserverKeeps ==
    ASSUME Inv, NEW r \in Requests, AdmitObserver(r)
    PROVE  Inv'
<1>1. Settled /\ TypeOK /\ Good(ctl) /\ ctl.inFlight = Cardinality(InFlight)
  BY InvParts DEF Inv, Settled, CountExact
<1>2. r \in Requests \ InFlight /\ r \notin Queued /\ Grant(r, ctl)
  BY DEF AdmitObserver, Idle
<1>3. /\ Good(ctl') /\ Untouched(ctl, ctl')
      /\ InFlight' = InFlight \cup {r} /\ CountExact' /\ ctl'.inFlight > 0
      /\ outstanding' \in [Requests -> Nat \cup {Absent}]
      /\ lastGranted' \in SUBSET (Runs \cup {Observer})
  BY <1>1, <1>2, Granted
<1>4. InFlight' \cap Queued = {}
  BY <1>1, <1>2, <1>3 DEF Settled, Apart
<1>5. UNCHANGED <<queue, order, used, bound, wake, draining, now>>
  BY DEF AdmitObserver
<1>6. ctl'.waiters = ctl.waiters /\ ctl'.growthLimit = GrowthLimit(used', bound')
  BY <1>1, <1>3, <1>5 DEF Settled, Untouched, LimitTracksBounds
<1>7. QED
  BY <1>1, <1>3, <1>4, <1>5, <1>6, SteadyKeeps DEF TypeOK, Untouched

LEMMA AdmitKeeps ==
    ASSUME Inv, NEW r \in Requests, Admit(r)
    PROVE  Inv'
<1>1. Settled
  BY InvParts
<1>2. /\ r \in Requests \ Queued /\ r \notin InFlight /\ RunOf[r] \in Runs /\ Enter(r)
      /\ draining' = TRUE /\ used' = UsedBy(RunOf[r]) /\ ctl' = Noted(RunOf[r])
      /\ UNCHANGED <<outstanding, lastGranted, bound, wake, now>>
  BY DEF Admit, Idle
<1>3. /\ Same(ctl, ctl') /\ used' \in SUBSET WorkflowRuns
      /\ ctl'.growthLimit = GrowthLimit(used', bound')
  BY <1>2, NotedInv
<1>4. Lines' /\ Queued' = Queued \cup {r}
  BY <1>1, <1>2, Entered DEF Settled
<1>5. InFlight' = InFlight
  BY <1>2 DEF InFlight
<1>6. CountExact' /\ Apart' /\ LimitTracksBounds'
  BY <1>1, <1>2, <1>3, <1>4, <1>5 DEF Settled, CountExact, Apart, LimitTracksBounds, Same
<1>7. Typed'
  BY <1>1, <1>2, <1>3 DEF Settled, Typed
<1>8. Settled'
  BY <1>3, <1>4, <1>6, <1>7 DEF Settled, Same
<1>9. QED
  BY <1>2, <1>8, LoopKeeps

LEMMA DrainStepKeeps ==
    ASSUME Inv, DrainStep
    PROVE  Inv'
<1> DEFINE n == Cardinality(Queued)
           c == Waiting(ctl, now, n)
           r == Head(queue[NextRun])
<1>1. Settled /\ TypeOK /\ Good(ctl) /\ Lines /\ now \in Nat
  BY InvParts DEF Inv, Settled, Typed
<1>2. UNCHANGED <<used, bound, now>>
  BY DEF DrainStep
<1>3. CASE /\ order # <<>> /\ Grant(r, c) /\ Leave(r)
           /\ UNCHANGED <<wake, draining>> /\ draining
  <2>1. r \in Queued /\ Queued \subseteq Requests
    BY <1>1, <1>3, NextRunWaits DEF Queued
  <2>2. n \in Nat
    BY <2>1, CountOf
  <2>3. /\ Good(c) /\ c.inFlight = Cardinality(InFlight) /\ c.growthLimit = ctl.growthLimit
    <3>1. Lawful(ctl, c, now) /\ c.inFlight = ctl.inFlight
      BY <1>1, <2>2, WaitingLawful
    <3>2. c.growthLimit = ctl.growthLimit
      BY <1>1, <2>2, WaitingSets
    <3> HIDE DEF c
    <3>3. QED
      BY <1>1, <3>1, <3>2 DEF Lawful, Settled, CountExact
  <2> HIDE DEF n, c, r
  <2>4. r \in Requests \ InFlight
    BY <1>1, <2>1 DEF Settled, Apart
  <2>5. /\ Good(ctl') /\ Untouched(c, ctl') /\ InFlight' = InFlight \cup {r} /\ CountExact'
        /\ outstanding' \in [Requests -> Nat \cup {Absent}]
        /\ lastGranted' \in SUBSET (Runs \cup {Observer})
    BY <1>1, <1>3, <2>3, <2>4, Granted
  <2>6. Lines' /\ Queued' = Queued \ {r}
    BY <1>1, <1>3, <2>1, Left
  <2>7. Typed'
    BY <1>1, <1>2, <1>3, <2>5 DEF Settled, Typed
  <2>8. Apart' /\ LimitTracksBounds'
    BY <1>1, <1>2, <2>3, <2>5, <2>6 DEF Settled, Apart, LimitTracksBounds, Untouched
  <2>9. Settled' /\ draining' = TRUE
    BY <1>1, <1>3, <2>5, <2>6, <2>7, <2>8 DEF Settled, TypeOK
  <2>10. QED
    BY <2>9, LoopKeeps
<1>4. CASE /\ ctl' = c /\ wake' = Armed(c, n) /\ draining' = FALSE
           /\ UNCHANGED <<outstanding, lastGranted, queue, order>>
  <2>1. Queued' = Queued
    BY <1>4 DEF Queued
  <2>2. Lines'
    BY <1>1, <1>4 DEF Lines, QueuesOwn, RotationExact
  <2>3. QED
    BY <1>2, <1>4, <2>1, <2>2, FeedKeeps
<1>5. QED
  BY <1>3, <1>4 DEF DrainStep

LEMMA SettleKeeps ==
    ASSUME Inv, NEW r \in InFlight, NEW c, Settle(r, c),
           Good(c), c.inFlight = ctl.inFlight - 1, c.growthLimit = ctl.growthLimit
    PROVE  Inv'
<1>1. Settled
  BY InvParts
<1>2. /\ ctl' = c /\ outstanding' = [outstanding EXCEPT ![r] = Absent] /\ draining' = TRUE
      /\ UNCHANGED <<queue, order, lastGranted, used, bound, wake, now>>
  BY DEF Settle
<1>3. outstanding \in [Requests -> Nat \cup {Absent}] /\ r \in Requests
  BY <1>1 DEF Settled, Typed, InFlight
<1>4. /\ outstanding' \in [Requests -> Nat \cup {Absent}]
      /\ InFlight' = InFlight \ {r} /\ InFlight \subseteq Requests
  BY <1>2, <1>3 DEF InFlight
<1>5. Cardinality(InFlight') = Cardinality(InFlight) - 1
  BY <1>4, CountOf
<1>6. Queued' = Queued
  BY <1>2 DEF Queued
<1>7. Lines' /\ Typed'
  BY <1>1, <1>2, <1>4 DEF Settled, Typed, Lines, QueuesOwn, RotationExact
<1>8. CountExact' /\ Apart' /\ LimitTracksBounds'
  BY <1>1, <1>2, <1>4, <1>5, <1>6 DEF Settled, CountExact, Apart, LimitTracksBounds
<1>9. Settled'
  BY <1>2, <1>7, <1>8 DEF Settled
<1>10. QED
  BY <1>2, <1>9, LoopKeeps

LEMMA EndsKeeps ==
    ASSUME Inv, NEW r \in Requests, Ends(r)
    PROVE  Inv'
<1>1. Good(ctl) /\ now \in Nat /\ ctl.inFlight = Cardinality(InFlight)
  BY InvParts DEF Settled, Typed, CountExact
<1>2. r \in InFlight
  BY DEF Ends, Succeed, Refuse, Fail, Settle
<1>3. ctl.inFlight > 0
  <2>1. InFlight \subseteq Requests
    BY DEF InFlight
  <2>2. Cardinality(InFlight) \in Nat /\ Cardinality(InFlight) # 0
    BY <1>2, <2>1, CountOf
  <2>3. QED
    BY <1>1, <2>2
<1>4. CASE Succeed(r)
  <2> DEFINE c == Succeeded(ctl, now, outstanding[r])
  <2>1. Lawful(ctl, c, now) /\ c.inFlight = ctl.inFlight - 1
    BY <1>1, <1>3, SucceededLawful
  <2>2. c.growthLimit = ctl.growthLimit
    BY <1>1, <1>3, GovernorAssumption, EndsKeepGrowthLimit
  <2>3. Settle(r, c)
    BY <1>4 DEF Succeed
  <2> HIDE DEF c
  <2>4. QED
    BY <1>2, <2>1, <2>2, <2>3, SettleKeeps DEF Lawful
<1>5. CASE Refuse(r)
  <2>1. PICK retryAfter \in RetryAfters :
           Settle(r, Throttled(ctl, now, outstanding[r], retryAfter))
    BY <1>5 DEF Refuse
  <2> DEFINE c == Throttled(ctl, now, outstanding[r], retryAfter)
  <2>2. retryAfter \in Nat
    BY GovernorAssumption
  <2>3. Lawful(ctl, c, now) /\ c.inFlight = ctl.inFlight - 1
    BY <1>1, <1>3, <2>2, ThrottledLawful
  <2>4. c.growthLimit = ctl.growthLimit
    BY <1>1, <1>3, <2>2, EndsKeepGrowthLimit
  <2> HIDE DEF c
  <2>5. QED
    BY <1>2, <2>1, <2>3, <2>4, SettleKeeps DEF Lawful, c
<1>6. CASE Settle(r, FailedTransient(ctl, now))
  <2> DEFINE c == FailedTransient(ctl, now)
  <2>1. Lawful(ctl, c, now) /\ c.inFlight = ctl.inFlight - 1
    BY <1>1, <1>3, FailedTransientLawful
  <2>2. c.growthLimit = ctl.growthLimit
    BY <1>1, <1>3, EndsKeepGrowthLimit
  <2>3. Settle(r, c)
    BY <1>6
  <2> HIDE DEF c
  <2>4. QED
    BY <1>2, <2>1, <2>2, <2>3, SettleKeeps DEF Lawful
<1>7. CASE Settle(r, Ended(ctl, now))
  <2> DEFINE c == Ended(ctl, now)
  <2>1. Lawful(ctl, c, now) /\ c.inFlight = ctl.inFlight - 1
    BY <1>1, <1>3, EndedLawful
  <2>2. c.growthLimit = ctl.growthLimit
    BY <1>1, <1>3, EndsKeepGrowthLimit
  <2>3. Settle(r, c)
    BY <1>7
  <2> HIDE DEF c
  <2>4. QED
    BY <1>2, <2>1, <2>2, <2>3, SettleKeeps DEF Lawful
<1>8. QED
  BY <1>4, <1>5, <1>6, <1>7 DEF Ends, Fail

LEMMA AbortKeeps ==
    ASSUME Inv, NEW r \in Requests, Abort(r)
    PROVE  Inv'
<1>1. Settled
  BY InvParts
<1>2. /\ r \in Queued /\ Leave(r)
      /\ ctl' = Waiting(ctl, now, Cardinality(Queued) - 1)
      /\ wake' = Armed(ctl', Cardinality(Queued) - 1)
      /\ UNCHANGED <<outstanding, lastGranted, used, bound, draining, now>>
  BY DEF Abort
<1>3. Lines' /\ Queued' = Queued \ {r} /\ Queued \subseteq Requests
  BY <1>1, <1>2, Left DEF Settled, Queued
<1>4. Cardinality(Queued') = Cardinality(Queued) - 1
  BY <1>2, <1>3, CountOf
<1>5. draining' \in BOOLEAN /\ Queued' \subseteq Queued
  BY <1>1, <1>2, <1>3 DEF Settled, Typed
<1>6. QED
  BY <1>2, <1>3, <1>4, <1>5, FeedKeeps

LEMMA CooldownWakeKeeps ==
    ASSUME Inv, CooldownWake
    PROVE  Inv'
<1>1. Settled
  BY InvParts
<1>2. /\ draining' = TRUE /\ wake' = Absent
      /\ UNCHANGED <<ctl, outstanding, queue, order, lastGranted, used, bound, now>>
  BY DEF CooldownWake
<1>3. Queued' = Queued /\ InFlight' = InFlight
  BY <1>2 DEF Queued, InFlight
<1>4. Lines' /\ Typed'
  BY <1>1, <1>2 DEF Settled, Typed, Lines, QueuesOwn, RotationExact
<1>5. Settled'
  BY <1>1, <1>2, <1>3, <1>4 DEF Settled, CountExact, Apart, LimitTracksBounds
<1>6. QED
  BY <1>2, <1>5, LoopKeeps

\* A bound is set or cleared.
LEMMA BoundKeeps ==
    ASSUME Inv, used' \in SUBSET WorkflowRuns,
           bound' \in [WorkflowRuns -> Bounds \cup {Absent}],
           \/ ctl' = Refreshed(ctl, used', bound')
           \/ ctl' = ctl /\ Registered(used', bound') = Registered(used, bound),
           UNCHANGED <<outstanding, queue, order, lastGranted, wake, draining, now>>
    PROVE  Inv'
<1>1. Settled /\ TypeOK /\ Good(ctl) /\ now \in Nat
  BY InvParts DEF Inv, Settled, Typed
<1>2. Same(ctl, ctl') /\ ctl'.growthLimit = GrowthLimit(used', bound')
  <2>1. CASE ctl' = Refreshed(ctl, used', bound')
    BY <1>1, <2>1, RefreshedTracks
  <2>2. CASE ctl' = ctl /\ Registered(used', bound') = Registered(used, bound)
    BY <1>1, <2>2 DEF Same, Settled, LimitTracksBounds, GrowthLimit
  <2>3. QED
    BY <2>1, <2>2
<1>3. InFlight' = InFlight
  BY DEF InFlight
<1>4. CountExact' /\ InFlight' \cap Queued = {}
  BY <1>1, <1>2, <1>3 DEF Settled, CountExact, Apart, Same
<1>5. QED
  BY <1>1, <1>2, <1>4, SteadyKeeps DEF Same, TypeOK

LEMMA RunBoundKeeps ==
    ASSUME Inv, NEW run \in WorkflowRuns, SetRunBound(run) \/ ClearRunBound(run)
    PROVE  Inv'
<1>1. used \in SUBSET WorkflowRuns /\ bound \in [WorkflowRuns -> Bounds \cup {Absent}]
  BY DEF Inv, TypeOK
<1>2. CASE SetRunBound(run)
  <2>1. PICK b \in Bounds : bound' = [bound EXCEPT ![run] = b]
    BY <1>2 DEF SetRunBound
  <2>2. /\ ctl' = IF run \in used THEN Refreshed(ctl, used, bound') ELSE ctl
        /\ UNCHANGED <<outstanding, queue, order, lastGranted, used, wake, draining, now>>
    BY <1>2 DEF SetRunBound
  <2>3. bound' \in [WorkflowRuns -> Bounds \cup {Absent}]
    BY <1>1, <2>1
  <2>4. run \notin used => Registered(used', bound') = Registered(used, bound)
    <3>1. run \notin used => \A q \in used : bound'[q] = bound[q]
      BY <1>1, <2>1
    <3>2. QED
      BY <2>2, <3>1 DEF Registered
  <2>5. QED
    BY <1>1, <2>2, <2>3, <2>4, BoundKeeps
<1>3. CASE ClearRunBound(run)
  <2>1. /\ bound' = [bound EXCEPT ![run] = Absent] /\ used' = used \ {run}
        /\ ctl' = IF run \in used THEN Refreshed(ctl, used', bound') ELSE ctl
        /\ UNCHANGED <<outstanding, queue, order, lastGranted, wake, draining, now>>
    BY <1>3 DEF ClearRunBound
  <2>2. bound' \in [WorkflowRuns -> Bounds \cup {Absent}] /\ used' \in SUBSET WorkflowRuns
    BY <1>1, <2>1
  <2>3. run \notin used => Registered(used', bound') = Registered(used, bound)
    <3>1. run \notin used => used' = used /\ \A q \in used : bound'[q] = bound[q]
      BY <1>1, <2>1
    <3>2. QED
      BY <3>1 DEF Registered
  <2>4. QED
    BY <2>1, <2>2, <2>3, BoundKeeps
<1>4. QED
  BY <1>2, <1>3

LEMMA TickKeeps ==
    ASSUME Inv, Tick
    PROVE  Inv'
<1>1. Settled /\ TypeOK /\ Good(ctl)
  BY InvParts DEF Inv, Settled
<1>2. /\ now' = now + 1
      /\ UNCHANGED <<ctl, outstanding, queue, order, lastGranted, used, bound, wake, draining>>
  BY DEF Tick
<1>3. InFlight' = InFlight
  BY <1>2 DEF InFlight
<1>4. /\ CountExact' /\ InFlight' \cap Queued = {}
      /\ ctl'.growthLimit = GrowthLimit(used', bound')
  BY <1>1, <1>2, <1>3 DEF Settled, CountExact, Apart, LimitTracksBounds
<1>5. QED
  BY <1>1, <1>2, <1>4, SteadyKeeps DEF TypeOK

LEMMA InvKept ==
    ASSUME Inv, [Next]_vars
    PROVE  Inv'
<1>1. CASE vars' = vars
  <2>1. Queued' = Queued /\ InFlight' = InFlight
    BY <1>1 DEF vars, Queued, InFlight
  <2>2. QED
    BY <1>1, <2>1 DEF vars, Inv, TypeOK, CountExact, QueuesOwn, Apart, RotationExact,
       WaitersFed, LimitTracksBounds, WakeKept
<1>2. ASSUME NEW r \in Requests,
             TryAdmit(r) \/ Admit(r) \/ AdmitObserver(r) \/ Ends(r) \/ Abort(r)
      PROVE  Inv'
  BY <1>2, TryAdmitKeeps, AdmitKeeps, AdmitObserverKeeps, EndsKeeps, AbortKeeps
<1>3. CASE DrainStep
  BY <1>3, DrainStepKeeps
<1>4. CASE CooldownWake
  BY <1>4, CooldownWakeKeeps
<1>5. ASSUME NEW run \in WorkflowRuns, SetRunBound(run) \/ ClearRunBound(run)
      PROVE  Inv'
  BY <1>5, RunBoundKeeps
<1>6. CASE Tick
  BY <1>6, TickKeeps
<1>7. QED
  BY <1>1, <1>2, <1>3, <1>4, <1>5, <1>6 DEF Next

LEMMA InvAlways == Spec => []Inv
<1>1. Init => Inv
  BY InvInit
<1>2. Inv /\ [Next]_vars => Inv'
  BY InvKept
<1>3. QED
  BY <1>1, <1>2, PTL DEF Spec

-----------------------------------------------------------------------------
(* The theorems.                                                           *)

\* The bucket keeps its shape: its controller's record, its tickets, its queues.
THEOREM GovernorTypeCorrect == Spec => []TypeOK
<1>1. Inv => TypeOK
  BY DEF Inv
<1>2. QED
  BY <1>1, InvAlways, PTL

\* Between handlers the controller knows how many wait: every arrival, grant and abort is fed
\* to setWaiters before the loop of drain() ends.
THEOREM GovernorFeedsWaiters == Spec => []WaitersFed
<1>1. Inv => WaitersFed
  BY DEF Inv
<1>2. QED
  BY <1>1, InvAlways, PTL

\* The insertion-ordered Map of queues holds a run exactly while it has waiters.
THEOREM GovernorRotates == Spec => []RotationExact
<1>1. Inv => RotationExact
  BY DEF Inv
<1>2. QED
  BY <1>1, InvAlways, PTL

\* After every arrival, retuning and settlement the growth limit is that of the runs left.
THEOREM GovernorTracksBounds == Spec => []LimitTracksBounds
<1>1. Inv => LimitTracksBounds
  BY DEF Inv
<1>2. QED
  BY <1>1, InvAlways, PTL

\* The timer is armed whenever only the end of the cooldown can let a waiter in.
THEOREM GovernorKeepsWake == Spec => []WakeKept
<1>1. Inv => WakeKept
  BY DEF Inv
<1>2. QED
  BY <1>1, InvAlways, PTL

\* The fast path and the loop of drain() admit within the cap and outside the cooldown.
THEOREM GovernorGateHolds == Spec => GateHolds
<1> DEFINE Gated == \A r \in InFlight' \ InFlight : RunOf[r] # Observer =>
                       ctl'.inFlight <= ctl'.cap /\ now >= ctl'.cooldownUntil
<1>1. ASSUME Inv, [Next]_vars, NEW r \in InFlight' \ InFlight, RunOf[r] # Observer
      PROVE  ctl'.inFlight <= ctl'.cap /\ now >= ctl'.cooldownUntil
  <2>1. Good(ctl) /\ now \in Nat /\ outstanding \in [Requests -> Nat \cup {Absent}]
    BY <1>1, InvParts DEF Settled, Typed
  <2>2. r \in Requests /\ outstanding'[r] # Absent /\ outstanding[r] = Absent
    BY DEF InFlight
  <2>3. \A q \in Requests : ~Ends(q)
    <3>1. ASSUME NEW q \in Requests, Ends(q) PROVE FALSE
      <4>1. outstanding' = [outstanding EXCEPT ![q] = Absent]
        BY <3>1 DEF Ends, Succeed, Refuse, Fail, Settle
      <4>2. QED
        BY <2>1, <2>2, <4>1
    <3>2. QED
      BY <3>1
  <2>4. UNCHANGED outstanding => FALSE
    BY <2>2
  <2>5. CASE \E q \in Requests : TryAdmit(q)
    <3>1. PICK q \in Requests : TryAdmit(q)
      BY <2>5
    <3> DEFINE n == Noted(RunOf[q])
               c == Observe(n, now)
    <3>2. Good(n)
      BY <1>1, NotedInv DEF Same
    <3>3. Good(c)
      BY <2>1, <3>2, IdleResetGood DEF Observe
    <3>4. CanAdmit(c, now) /\ Grant(q, c)
      BY <2>4, <3>1 DEF TryAdmit
    <3> HIDE DEF c
    <3>5. QED
      BY <2>1, <3>3, <3>4, GateLeavesRoom DEF Grant
  <2>6. CASE DrainStep
    <3> DEFINE c == Waiting(ctl, now, Cardinality(Queued))
               q == Head(queue[NextRun])
    <3>1. CanAdmit(c, now) /\ Grant(q, c)
      BY <2>4, <2>6 DEF DrainStep
    <3>2. Queued \subseteq Requests
      BY DEF Queued
    <3>3. Good(c)
      BY <2>1, <3>2, CountOf, WaitingLawful DEF Lawful
    <3> HIDE DEF c
    <3>4. QED
      BY <2>1, <3>1, <3>3, GateLeavesRoom DEF Grant
  <2>7. CASE \E q \in Requests : AdmitObserver(q)
    <3>1. PICK q \in Requests : AdmitObserver(q)
      BY <2>7
    <3>2. outstanding' = [outstanding EXCEPT ![q] = ctl'.epoch] /\ RunOf[q] = Observer
      BY <3>1 DEF AdmitObserver, Grant
    <3>3. q = r
      BY <2>1, <2>2, <3>2
    <3>4. QED
      BY <1>1, <3>2, <3>3
  <2>8. CASE \/ \E q \in Requests : Admit(q) \/ Abort(q)
             \/ CooldownWake \/ Tick \/ UNCHANGED vars
             \/ \E run \in WorkflowRuns : SetRunBound(run) \/ ClearRunBound(run)
    BY <2>4, <2>8 DEF Admit, Abort, CooldownWake, Tick, vars, SetRunBound, ClearRunBound
  <2>9. QED
    BY <1>1, <2>3, <2>5, <2>6, <2>7, <2>8 DEF Next
<1>2. Inv /\ [Next]_vars => [Gated]_vars
  BY <1>1
<1>3. QED
  BY <1>2, InvAlways, PTL DEF Spec, GateHolds

-----------------------------------------------------------------------------
(* Who can strand the waiters.  The invariant NobodyStranded fails (run    *)
(* governor_abort); the theorem says by which step alone, and in which     *)
(* state of the bucket.                                                    *)

\* An abort with nothing in flight, behind an armed timer, after which no cooldown is left.
Stranding ==
    /\ \E r \in Requests : Abort(r)
    /\ ctl.inFlight = 0 /\ wake # Absent
    /\ ctl'.inFlight = 0 /\ ctl'.cooldownUntil = Absent

LEMMA InFlightCounts ==
    ASSUME Inv
    PROVE  ctl.inFlight > 0 <=> InFlight # {}
<1>1. ctl.inFlight = Cardinality(InFlight) /\ InFlight \subseteq Requests
  BY DEF Inv, CountExact, InFlight
<1>2. Cardinality(InFlight) \in Nat /\ (InFlight = {} <=> Cardinality(InFlight) = 0)
  BY <1>1, CountOf
<1>3. QED
  BY <1>1, <1>2

\* A handler that leaves the waiters and the timer alone and ends no request.
LEMMA SteadyServes ==
    ASSUME Inv, Inv', UNCHANGED <<queue, wake, draining>>, InFlight \subseteq InFlight',
           NobodyStranded
    PROVE  NobodyStranded'
<1>1. Queued' = Queued
  BY DEF Queued
<1>2. ctl.inFlight > 0 => ctl'.inFlight > 0
  <2>1. InFlight # {} => InFlight' # {}
    OBVIOUS
  <2>2. ctl.inFlight > 0 <=> InFlight # {}
    BY InFlightCounts
  <2>3. ctl'.inFlight > 0 <=> InFlight' # {}
    <3>1. ctl'.inFlight = Cardinality(InFlight') /\ InFlight' \subseteq Requests
      BY DEF Inv, CountExact, InFlight
    <3>2. Cardinality(InFlight') \in Nat /\ (InFlight' = {} <=> Cardinality(InFlight') = 0)
      BY <3>1, CountOf
    <3>3. QED
      BY <3>1, <3>2
  <2>4. QED
    BY <2>1, <2>2, <2>3
<1>3. QED
  BY <1>1, <1>2 DEF NobodyStranded

\* A grant is one request more in flight.
LEMMA GrantAdds ==
    ASSUME Inv, Inv', NEW r \in Requests,
           \/ \E c : Grant(r, c)
           \/ UNCHANGED outstanding
    PROVE  InFlight \subseteq InFlight'
<1>1. outstanding \in [Requests -> Nat \cup {Absent}] /\ ctl'.epoch \in Nat
  BY Fields DEF Inv, TypeOK, Controller, Counts
<1>2. outstanding' \in {outstanding, [outstanding EXCEPT ![r] = ctl'.epoch]}
  BY DEF Grant
<1>3. QED
  BY <1>1, <1>2 DEF InFlight, Absent

\* When the loop of drain() stops, the waiters left have a request in flight or the timer:
\* the gate is shut by a full bucket, which is not empty, or by a cooldown.
LEMMA DrainServes ==
    ASSUME Inv, DrainStep
    PROVE  NobodyStranded'
<1> DEFINE n == Cardinality(Queued)
           c == Waiting(ctl, now, n)
<1> SUFFICES ASSUME ~draining', Queued' # {}
             PROVE  ctl'.inFlight > 0 \/ wake' # Absent
  BY DEF NobodyStranded
<1>1. Good(ctl) /\ Lines /\ now \in Nat
  BY InvParts DEF Settled, Typed
<1>2. /\ ctl' = c /\ wake' = Armed(c, n)
      /\ order = <<>> \/ ~CanAdmit(c, now)
      /\ UNCHANGED <<queue, order>>
  BY DEF DrainStep
<1>3. Queued' = Queued /\ Queued \subseteq Requests
  BY <1>2 DEF Queued
<1>4. n \in Nat /\ n # 0
  BY <1>3, CountOf
<1>5. Good(c)
  BY <1>1, <1>4, WaitingLawful DEF Lawful
<1>6. order # <<>>
  <2>1. PICK r \in Queued : RunOf[r] \in Runs /\ r \in Members(queue[RunOf[r]])
    BY <1>3 DEF Queued
  <2>2. queue[RunOf[r]] # <<>> /\ order \in Seq(Runs)
    BY <1>1, <2>1, MembersIn DEF Lines
  <2>3. RunOf[r] \in Members(order)
    BY <1>1, <2>1, <2>2 DEF Lines, RotationExact
  <2>4. QED
    BY <2>2, <2>3, MembersIn
<1> HIDE DEF n, c
<1>7. c.inFlight \in Nat /\ c.cap \in Nat \ {0} /\ c.cooldownUntil \in Nat \cup {Absent}
  BY <1>5, Fields DEF Good, Counts, Levels, MaybeTimes
<1>8. CASE now < c.cooldownUntil
  BY <1>1, <1>2, <1>4, <1>7, <1>8 DEF Armed, Larger, Absent
<1>9. CASE ~(now < c.cooldownUntil)
  <2>1. now >= c.cooldownUntil
    BY <1>1, <1>7, <1>9 DEF Absent
  <2>2. ~(c.inFlight < c.cap)
    BY <1>2, <1>6, <2>1 DEF CanAdmit
  <2>3. QED
    BY <1>2, <1>7, <2>2
<1>10. QED
  BY <1>8, <1>9

\* onAbort feeds the controller, which forgets the cooldown of an idle bucket, and disarms the
\* timer when no cooldown is left; nothing else disarms it with waiters behind it.
LEMMA AbortStrands ==
    ASSUME Inv, NEW r \in Requests, Abort(r), NobodyStranded, ~NobodyStranded'
    PROVE  Stranding
<1> DEFINE n == Cardinality(Queued) - 1
           c == Waiting(ctl, now, n)
<1>1. Settled /\ Good(ctl) /\ Lines /\ now \in Nat
  BY InvParts DEF Settled, Typed
<1>2. /\ r \in Queued /\ Leave(r) /\ ~draining
      /\ ctl' = c /\ wake' = Armed(c, n)
      /\ Queued' # {} /\ ~(ctl'.inFlight > 0) /\ wake' = Absent
  BY DEF Abort, NobodyStranded
<1>3. Queued' = Queued \ {r} /\ Queued \subseteq Requests
  BY <1>1, <1>2, Left DEF Queued
<1>4. n \in Nat /\ n # 0
  <2>1. Cardinality(Queued') = n /\ Queued' \subseteq Requests
    BY <1>2, <1>3, CountOf
  <2>2. QED
    BY <1>2, <2>1, CountOf
<1>5. Good(c) /\ c.inFlight = ctl.inFlight
  BY <1>1, <1>4, WaitingLawful DEF Lawful
<1> HIDE DEF n, c
<1>6. c.inFlight \in Nat /\ c.cooldownUntil \in Nat \cup {Absent}
  BY <1>5, Fields DEF Good, Counts, MaybeTimes
<1>7. c.cooldownUntil = Absent
  BY <1>1, <1>2, <1>4, <1>6 DEF Armed, Larger, Absent
<1>8. ctl'.inFlight = 0 /\ ctl.inFlight = 0
  BY <1>2, <1>5, <1>6
<1>9. wake # Absent
  BY <1>2, <1>8 DEF NobodyStranded
<1>10. QED
  BY <1>2, <1>7, <1>8, <1>9 DEF Stranding

LEMMA ServedOrStranding ==
    ASSUME Inv, Inv', [Next]_vars, NobodyStranded
    PROVE  NobodyStranded' \/ Stranding
<1>1. CASE \E r \in Requests : TryAdmit(r) \/ AdmitObserver(r)
  <2>1. PICK r \in Requests : TryAdmit(r) \/ AdmitObserver(r)
    BY <1>1
  <2>2. /\ UNCHANGED <<queue, wake, draining>>
        /\ (\E c : Grant(r, c)) \/ UNCHANGED outstanding
    BY <2>1 DEF TryAdmit, AdmitObserver
  <2>3. QED
    BY <2>2, GrantAdds, SteadyServes
<1>2. CASE \E r \in Requests : Admit(r) \/ Ends(r)
  BY <1>2 DEF Admit, Ends, Succeed, Refuse, Fail, Settle, NobodyStranded
<1>3. CASE \E r \in Requests : Abort(r)
  BY <1>3, AbortStrands
<1>4. CASE DrainStep
  BY <1>4, DrainServes
<1>5. CASE CooldownWake
  BY <1>5 DEF CooldownWake, NobodyStranded
<1>6. CASE \/ \E run \in WorkflowRuns : SetRunBound(run) \/ ClearRunBound(run)
           \/ Tick \/ UNCHANGED vars
  <2>1. UNCHANGED <<queue, wake, draining, outstanding>>
    BY <1>6 DEF SetRunBound, ClearRunBound, Tick, vars
  <2>2. InFlight \subseteq InFlight'
    BY <2>1 DEF InFlight
  <2>3. QED
    BY <2>1, <2>2, SteadyServes
<1>7. QED
  BY <1>1, <1>2, <1>3, <1>4, <1>5, <1>6 DEF Next

\* No step but an abort leaves waiters without a request in flight and without the timer, and
\* an abort only in a bucket that is idle and has lost its cooldown: a grant, an end, a drain,
\* a retune or the passing of time never does (onAbort is the one handler that does not drain).
THEOREM OnlyAbortsStrand == Spec => [][NobodyStranded => NobodyStranded' \/ Stranding]_vars
<1>1. Inv /\ Inv' /\ [Next]_vars => [NobodyStranded => NobodyStranded' \/ Stranding]_vars
  BY ServedOrStranding
<1>2. QED
  BY <1>1, InvAlways, PTL DEF Spec

\* What concurrency.md says of the governor holds of every bucket whose callers never cancel.
THEOREM NobodyStrandedWithoutAborts ==
    ASSUME MayAbort = {}
    PROVE  Spec => []NobodyStranded
<1>1. Init => NobodyStranded
  <2>1. ASSUME Init PROVE Queued = {}
    <3>1. \A run \in Runs : Members(queue[run]) = {}
      BY <2>1, EmptySeq DEF Init, Members
    <3>2. QED
      BY <3>1 DEF Queued
  <2>2. QED
    BY <2>1 DEF NobodyStranded
<1>2. ASSUME Inv, Inv', [Next]_vars, NobodyStranded PROVE NobodyStranded'
  <2>1. NobodyStranded' \/ Stranding
    BY <1>2, ServedOrStranding
  <2>2. ~Stranding
    BY DEF Stranding, Abort
  <2>3. QED
    BY <2>1, <2>2
<1>3. QED
  BY <1>1, <1>2, InvAlways, PTL DEF Spec
=============================================================================
