----------------------- MODULE ConcurrencyController -----------------------
(***************************************************************************)
(* One controller of AdaptiveCap under every sequence of calls that a      *)
(* well-behaved owner makes: a request is admitted once and ends once,     *)
(* bringing back the epoch it was admitted under.                          *)
(***************************************************************************)
EXTENDS AdaptiveCap, FiniteSets

CONSTANTS
    Requests,      \* identities of model requests; one may be reused after it has ended
    Limits,        \* the growth limits and seed targets the owner may ask for
    RetryAfters,   \* the Retry-After values a refusal may carry; 0 stands for none
    MaxNow,        \* bound: the clock stops here
    MaxEpoch       \* bound: verdicts and retunes stop here

ASSUME ControllerAssumption ==
    /\ Limits \subseteq Nat
    /\ RetryAfters \subseteq Nat
    /\ MaxNow \in Nat
    /\ MaxEpoch \in Nat
    /\ IsFiniteSet(Requests)

VARIABLES
    ctl,           \* the controller's fields
    outstanding,   \* the epoch each admitted and unfinished request carries, or Absent
    now            \* the owner's clock

vars == <<ctl, outstanding, now>>

InFlight == {r \in Requests : outstanding[r] # Absent}

Init ==
    /\ \E limit \in Limits : ctl = NewController(limit)
    /\ outstanding = [r \in Requests |-> Absent]
    /\ now = 0

Signal ==
    /\ \/ ctl' = Observe(ctl, now)
       \/ \E n \in 0..Cardinality(Requests) : ctl' = Waiting(ctl, now, n)
    /\ UNCHANGED <<outstanding, now>>

\* The gate is the owner's: an observer request is admitted whatever CanAdmit says.
Admit(r) ==
    /\ outstanding[r] = Absent
    /\ ctl' = Admitted(Observe(ctl, now), now)
    /\ outstanding' = [outstanding EXCEPT ![r] = ctl'.epoch]
    /\ UNCHANGED now

Finish(r, c) ==
    /\ outstanding[r] # Absent
    /\ ctl' = c
    /\ outstanding' = [outstanding EXCEPT ![r] = Absent]
    /\ UNCHANGED now

Succeed(r) == Finish(r, Succeeded(ctl, now, outstanding[r]))

Refuse(r) ==
    \E retryAfter \in RetryAfters :
        /\ ctl.epoch < MaxEpoch
        /\ now + retryAfter <= MaxNow
        /\ Finish(r, Throttled(ctl, now, outstanding[r], retryAfter))

Fail(r) == Finish(r, FailedTransient(ctl, now)) \/ Finish(r, Ended(ctl, now))

Retune ==
    /\ ctl.epoch < MaxEpoch
    /\ \E n \in Limits : ctl' = WithGrowthLimit(ctl, now, n) \/ ctl' = Seeded(ctl, now, n)
    /\ UNCHANGED <<outstanding, now>>

Tick ==
    /\ now < MaxNow
    /\ now' = now + 1
    /\ UNCHANGED <<ctl, outstanding>>

Next ==
    \/ Signal
    \/ \E r \in Requests : Admit(r) \/ Succeed(r) \/ Refuse(r) \/ Fail(r)
    \/ Retune
    \/ Tick

Spec == Init /\ [][Next]_vars

-----------------------------------------------------------------------------
(* Properties.                                                             *)

\* Type invariant: the fields of the class keep their types.
TypeOK ==
    /\ ctl \in Controller
    /\ outstanding \in [Requests -> Nat \cup {Absent}]
    /\ now \in Nat

\* The cap stays between the floor of one and the growth limit, which never falls below the
\* default; a proven level is never above the cap, whatever order of proofs, probes, cuts,
\* lowered limits and seeds produced it.  A `lastGood` above the cap would make the next
\* refusal RAISE the cap (the branch "back to lastGood").
LevelsOK == LevelsOf(ctl)

\* The count the gate reads is the number of admitted and unfinished requests: the clamp at
\* zero in the four ending methods never hides a decrement.
InFlightExact == ctl.inFlight = Cardinality(InFlight)

\* No request carries an epoch from the future, so that an epoch once turned never comes back.
EpochsPast == \A r \in InFlight : outstanding[r] <= ctl.epoch

\* One wave, one verdict: after a step that lowers the cap, no request admitted before it can
\* lower it again by being refused; only a request admitted under the new cap can.
OneVerdictPerWave ==
    [][ctl'.cap < ctl.cap => \A r \in InFlight : outstanding'[r] # ctl'.epoch]_vars

\* The cap never drifts upward: it rises by one with somebody waiting, or jumps to a level that
\* starts unproven (a seed, or a reset to the default of an idle bucket).
GrowthIsDemanded ==
    [][ctl'.cap > ctl.cap =>
          \/ ctl'.cap = ctl.cap + 1 /\ ctl.waiters > 0 /\ ctl'.lastGood = ctl.cap
          \/ ctl'.epoch > ctl.epoch /\ ctl'.lastGood = Absent]_vars

\* A Retry-After freeze is never shortened while the bucket has been in use within the window;
\* a later and shorter Retry-After in particular does not replace a longer one.
CooldownKept == [][ctl'.cooldownUntil < ctl.cooldownUntil => IdleFor(ctl, now)]_vars

=============================================================================
