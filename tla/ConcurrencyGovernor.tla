------------------------ MODULE ConcurrencyGovernor ------------------------
(***************************************************************************)
(* One bucket of the workflow concurrency governor: the queues in front of *)
(* one provider key (bootstrap/src/app/workflow-concurrency-governor.ts),  *)
(* driven by the controller of AdaptiveCap.                                *)
(*                                                                         *)
(* The program is single-threaded: a handler runs to completion before the *)
(* next one starts.  A handler that ends in drain() is two kinds of step   *)
(* here, its own and then one DrainStep per turn of the loop; `draining`   *)
(* keeps every other handler out until the loop is done.                   *)
(*                                                                         *)
(* Buckets of different keys share nothing but the run bounds, so one      *)
(* bucket is modelled.  Abstracted: the fan-out of change events to        *)
(* listeners, and inFlightByRun, which only filters it.                    *)
(***************************************************************************)
EXTENDS AdaptiveCap, Fifo, FiniteSets

CONSTANTS
    WorkflowRuns,  \* workflow runs: they may register a bound of their own
    Pools,         \* subagent pools of chat sessions: queued, but never tracked
    Observer,      \* the main agent: admitted without waiting
    Requests,      \* identities of model requests; reused after they end
    RunOf,         \* the run each request belongs to
    MayAbort,      \* the requests whose caller may cancel the wait
    Bounds,        \* the bounds runs may register
    RetryAfters,   \* Retry-After values of a refusal; 0 stands for none
    MaxNow,        \* bound: the clock stops here
    MaxEpoch       \* bound: refusals and bound changes stop here

Runs == WorkflowRuns \cup Pools

ASSUME GovernorAssumption ==
    /\ IsFiniteSet(Requests) /\ IsFiniteSet(WorkflowRuns)
    /\ RunOf \in [Requests -> Runs \cup {Observer}]
    /\ Observer \notin Runs
    /\ Bounds \subseteq Nat \ {0}
    /\ RetryAfters \subseteq Nat
    /\ MaxNow \in Nat
    /\ MaxEpoch \in Nat

VARIABLES
    ctl,           \* the bucket's controller
    outstanding,   \* the epoch on the unsettled ticket of each request, or Absent
    queue,         \* the waiters of each run, oldest first
    order,         \* the runs with waiters, in the insertion order of the Map
    lastGranted,   \* lastGrantedRun: {} or the singleton of the run granted last
    used,          \* bucket.runs: the tracked runs that asked for admission here
    bound,         \* runBounds: the bound each run registered, or Absent
    wake,          \* the deadline of the cooldown timer, or Absent
    draining,      \* inside the loop of drain()
    now

vars == <<ctl, outstanding, queue, order, lastGranted, used, bound, wake, draining, now>>

Queued == {r \in Requests : RunOf[r] \in Runs /\ r \in Members(queue[RunOf[r]])}
InFlight == {r \in Requests : outstanding[r] # Absent}
Idle == Requests \ (Queued \cup InFlight)

BaseLimit == 2 * Initial   \* WORKFLOW_CONCURRENCY_AUTO_GROWTH_FACTOR * D

-----------------------------------------------------------------------------
(* The growth limit follows the bounds of the runs that used the bucket.   *)

Largest(S) == CHOOSE n \in S : \A m \in S : m <= n

Registered(runs, bounds) == {bounds[run] : run \in runs} \ {Absent}

GrowthLimit(runs, bounds) == Largest(Registered(runs, bounds) \cup {BaseLimit})

\* MUTANT of Refreshed: the growth limit only rises.
RefreshedUpOnly(c, runs, bounds) ==
    LET limit == GrowthLimit(runs, bounds)
        registered == Registered(runs, bounds)
        d == IF limit <= c.growthLimit THEN c ELSE WithGrowthLimit(c, now, limit)
    IN  IF registered = {} THEN d ELSE Seeded(d, now, Largest(registered))

Refreshed(c, runs, bounds) ==
    LET limit == GrowthLimit(runs, bounds)
        registered == Registered(runs, bounds)
        d == IF limit = c.growthLimit THEN c ELSE WithGrowthLimit(c, now, limit)
    IN  IF registered = {} THEN d ELSE Seeded(d, now, Largest(registered))

\* A workflow run is noted at its first request here; its bound, if any, counts from then on.
UsedBy(run) == used \cup ({run} \cap WorkflowRuns)

Noted(run) ==
    IF run \in WorkflowRuns \ used /\ bound[run] # Absent
    THEN Refreshed(ctl, UsedBy(run), bound)
    ELSE ctl

-----------------------------------------------------------------------------
(* Granting and queueing.                                                  *)

\* The run after the one granted last, in the cycle of runs with waiters; the first one when
\* the run granted last has no waiter any more.  The code also skips runs whose queue is empty:
\* there are none (RotationExact).
NextRun ==
    LET last == {i \in 1..Len(order) : order[i] \in lastGranted}
        after == IF last = {} THEN 0 ELSE CHOOSE i \in last : TRUE
    IN  order[(after % Len(order)) + 1]

Grant(r, c) ==
    /\ ctl' = Admitted(Observe(c, now), now)
    /\ outstanding' = [outstanding EXCEPT ![r] = ctl'.epoch]
    /\ lastGranted' = {RunOf[r]}

Enter(r) ==
    /\ queue' = [queue EXCEPT ![RunOf[r]] = Append(@, r)]
    /\ order' = IF queue[RunOf[r]] = <<>> THEN Append(order, RunOf[r]) ELSE order

\* MUTANT of Leave: the run keeps its turn without waiters.
LeaveKeepingTurn(r) ==
    /\ queue' = [queue EXCEPT ![RunOf[r]] = Without(@, r)]
    /\ UNCHANGED order

Leave(r) ==
    LET rest == Without(queue[RunOf[r]], r)
    IN  /\ queue' = [queue EXCEPT ![RunOf[r]] = rest]
        /\ order' = IF rest = <<>> THEN Without(order, RunOf[r]) ELSE order

\* MUTANT of Armed: the timer is set past the deadline.
ArmedLate(c, n) == IF n = 0 \/ c.cooldownUntil = Absent THEN Absent ELSE c.cooldownUntil + 1

\* The one timer of the bucket, set anew from the controller c with n waiters left.
Armed(c, n) ==
    IF n = 0 \/ c.cooldownUntil = Absent THEN Absent ELSE Larger(c.cooldownUntil, now)

-----------------------------------------------------------------------------
(* The handlers.                                                           *)

Init ==
    /\ ctl = NewController(BaseLimit)
    /\ outstanding = [r \in Requests |-> Absent]
    /\ queue = [run \in Runs |-> <<>>]
    /\ order = <<>>
    /\ lastGranted = {}
    /\ used = {}
    /\ bound = [run \in WorkflowRuns |-> Absent]
    /\ wake = Absent
    /\ draining = FALSE
    /\ now = 0

\* The fast path: a hit only when nobody waits and the gate is open.
TryAdmit(r) ==
    LET c == Observe(Noted(RunOf[r]), now)
    IN  /\ ~draining /\ r \in Idle /\ RunOf[r] \in Runs
        /\ used' = UsedBy(RunOf[r])
        /\ IF Queued = {} /\ CanAdmit(c, now)
           THEN Grant(r, c)
           ELSE ctl' = c /\ UNCHANGED <<outstanding, lastGranted>>
        /\ UNCHANGED <<queue, order, bound, wake, draining, now>>

\* The slow path: wait, then drain.
Admit(r) ==
    /\ ~draining /\ r \in Idle /\ RunOf[r] \in Runs
    /\ used' = UsedBy(RunOf[r])
    /\ ctl' = Noted(RunOf[r])
    /\ Enter(r)
    /\ draining' = TRUE
    /\ UNCHANGED <<outstanding, lastGranted, bound, wake, now>>

\* The main agent never waits, and its grant does not drain.
AdmitObserver(r) ==
    /\ ~draining /\ r \in Idle /\ RunOf[r] = Observer
    /\ Grant(r, ctl)
    /\ UNCHANGED <<queue, order, used, bound, wake, draining, now>>

\* One turn of the loop of drain(): grant one waiter, or stop and set the timer.
DrainStep ==
    LET c == Waiting(ctl, now, Cardinality(Queued))
        open == order # <<>> /\ CanAdmit(c, now)
    IN  /\ draining
        /\ \/ /\ open
              /\ LET r == Head(queue[NextRun]) IN Grant(r, c) /\ Leave(r)
              /\ UNCHANGED <<wake, draining>>
           \/ /\ ~open
              /\ ctl' = c
              /\ wake' = Armed(c, Cardinality(Queued))
              /\ draining' = FALSE
              /\ UNCHANGED <<outstanding, lastGranted, queue, order>>
        /\ UNCHANGED <<used, bound, now>>

\* MUTANT of Settle: a settled ticket does not drain the queue.
SettleQuietly(r, c) ==
    /\ ~draining /\ r \in InFlight
    /\ ctl' = c
    /\ outstanding' = [outstanding EXCEPT ![r] = Absent]
    /\ UNCHANGED <<queue, order, lastGranted, used, bound, wake, draining, now>>

\* A ticket settles once: a settled request is no longer outstanding.
Settle(r, c) ==
    /\ ~draining /\ r \in InFlight
    /\ ctl' = c
    /\ outstanding' = [outstanding EXCEPT ![r] = Absent]
    /\ draining' = TRUE
    /\ UNCHANGED <<queue, order, lastGranted, used, bound, wake, now>>

Succeed(r) == Settle(r, Succeeded(ctl, now, outstanding[r]))

Refuse(r) ==
    \E retryAfter \in RetryAfters :
        /\ ctl.epoch < MaxEpoch
        /\ now + retryAfter <= MaxNow
        /\ Settle(r, Throttled(ctl, now, outstanding[r], retryAfter))

Fail(r) == Settle(r, FailedTransient(ctl, now)) \/ Settle(r, Ended(ctl, now))

\* MUTANT of Abort: the controller is fed before the waiter leaves.
AbortCountsItself(r) ==
    /\ ~draining /\ r \in Queued \cap MayAbort
    /\ Leave(r)
    /\ ctl' = Waiting(ctl, now, Cardinality(Queued))
    /\ wake' = Armed(ctl', Cardinality(Queued) - 1)
    /\ UNCHANGED <<outstanding, lastGranted, used, bound, draining, now>>

\* onAbort: the waiter leaves, the controller hears of it and the timer is set anew; no drain.
Abort(r) ==
    /\ ~draining /\ r \in Queued \cap MayAbort
    /\ Leave(r)
    /\ ctl' = Waiting(ctl, now, Cardinality(Queued) - 1)
    /\ wake' = Armed(ctl', Cardinality(Queued) - 1)
    /\ UNCHANGED <<outstanding, lastGranted, used, bound, draining, now>>

CooldownWake ==
    /\ ~draining /\ wake # Absent /\ now >= wake
    /\ wake' = Absent
    /\ draining' = TRUE
    /\ UNCHANGED <<ctl, outstanding, queue, order, lastGranted, used, bound, now>>

\* A run starts, or its bound is retuned.
SetRunBound(run) ==
    /\ ~draining /\ ctl.epoch < MaxEpoch
    /\ \E b \in Bounds : bound' = [bound EXCEPT ![run] = b]
    /\ ctl' = IF run \in used THEN Refreshed(ctl, used, bound') ELSE ctl
    /\ UNCHANGED <<outstanding, queue, order, lastGranted, used, wake, draining, now>>

\* A run settles; requests it still has in flight or waiting stay where they are.
ClearRunBound(run) ==
    /\ ~draining /\ ctl.epoch < MaxEpoch
    /\ bound' = [bound EXCEPT ![run] = Absent]
    /\ used' = used \ {run}
    /\ ctl' = IF run \in used THEN Refreshed(ctl, used', bound') ELSE ctl
    /\ UNCHANGED <<outstanding, queue, order, lastGranted, wake, draining, now>>

Tick ==
    /\ ~draining /\ now < MaxNow
    /\ now' = now + 1
    /\ UNCHANGED <<ctl, outstanding, queue, order, lastGranted, used, bound, wake, draining>>

Ends(r) == Succeed(r) \/ Refuse(r) \/ Fail(r)

Next ==
    \/ \E r \in Requests :
          TryAdmit(r) \/ Admit(r) \/ AdmitObserver(r) \/ Ends(r) \/ Abort(r)
    \/ DrainStep
    \/ CooldownWake
    \/ \E run \in WorkflowRuns : SetRunBound(run) \/ ClearRunBound(run)
    \/ Tick

Spec == Init /\ [][Next]_vars

\* A handler runs to its end, time passes, a due timer fires, and a request that was sent ends:
\* the runner times it out if the provider does not.  The event loop keeps what is due until it
\* has run; here a loop of drain() disables it meanwhile, hence strong fairness.
Fairness ==
    /\ WF_vars(DrainStep)
    /\ SF_vars(Tick)
    /\ SF_vars(CooldownWake)
    /\ \A r \in Requests : SF_vars(Ends(r))

FairSpec == Spec /\ Fairness

-----------------------------------------------------------------------------
(* Properties.                                                             *)

\* Type invariant; a queue holds only requests of its run.
TypeOK ==
    /\ ctl \in Controller
    /\ outstanding \in [Requests -> Nat \cup {Absent}]
    /\ queue \in [Runs -> Seq(Requests)]
    /\ order \in Seq(Runs)
    /\ lastGranted \in SUBSET (Runs \cup {Observer})
    /\ used \in SUBSET WorkflowRuns
    /\ bound \in [WorkflowRuns -> Bounds \cup {Absent}]
    /\ wake \in Nat \cup {Absent}
    /\ draining \in BOOLEAN
    /\ now \in Nat

\* The controller grows the cap only for demand it is told of: between handlers the number it
\* was fed last is the number of waiters, after every arrival, grant, abort and drain.
WaitersFed == ~draining => ctl.waiters = Cardinality(Queued)

\* The runs in the rotation are those with waiters, each once: no run is skipped, and no turn
\* is lost on an empty queue.
RotationExact ==
    /\ \A run \in Runs : queue[run] # <<>> <=> run \in Members(order)
    /\ Distinct(order)

\* Whoever passes the gate, from the queue or by the fast path, leaves the bucket within its
\* cap and outside its cooldown; only the observer may exceed them.
GateHolds ==
    [][\A r \in InFlight' \ InFlight : RunOf[r] # Observer =>
          ctl'.inFlight <= ctl'.cap /\ now >= ctl'.cooldownUntil]_vars

\* The growth limit is always the one of the runs that are here now: a level learned for a
\* large run never outlives it, whatever order runs arrive, retune and settle in.
LimitTracksBounds == ctl.growthLimit = GrowthLimit(used, bound)

\* Waiters behind a cooldown with nothing in flight have a timer that fires when it ends; no
\* other event would ever let them in.
WakeKept ==
    ~draining /\ Queued # {} /\ ctl.inFlight = 0 /\ now < ctl.cooldownUntil
        => wake # Absent /\ wake <= ctl.cooldownUntil

\* Waiters always have something to wait for: a request in flight, whose end drains the queue,
\* or the timer (concurrency.md, "The governor": each release, each admission and each cooldown
\* expiry drains the queue).
NobodyStranded == ~draining /\ Queued # {} => ctl.inFlight > 0 \/ wake # Absent

\* Every waiter is granted or gives up.
EveryoneServed == \A r \in Requests : r \in Queued ~> r \notin Queued

\* Runs take turns (governor.ts:116, a large fan-out cannot starve a later small run): while
\* one request waits for ever, grants to other waiters must cease.
TurnsTaken ==
    \A r \in Requests : <>[](r \in Queued) => <>[][Queued \cap InFlight' = {}]_vars

=============================================================================
