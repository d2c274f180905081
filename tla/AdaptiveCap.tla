---------------------------- MODULE AdaptiveCap ----------------------------
(***************************************************************************)
(* The AIMD controller of one provider key: the class of                   *)
(* engine/concurrency.ts in the dynamic-workflow package.                  *)
(*                                                                         *)
(* The class is pure: every method takes the time from its caller and runs *)
(* to completion.  Its fields are a record, and each method is an operator *)
(* from a record to the next one; there is no state machine here.          *)
(*                                                                         *)
(* Abstracted: the provider key, the change events (their only content is  *)
(* the old and the new cap) and the unit of time.                          *)
(***************************************************************************)
EXTENDS Integers

CONSTANTS
    Initial,       \* the default parallelism D: first cap, and the cap after an idle reset
    K,             \* CONCURRENCY_INCREASE_AFTER_SUCCESSES
    IdleResetMs    \* CONCURRENCY_IDLE_RESET_MS

ASSUME CapAssumption ==
    /\ Initial \in Nat \ {0}
    /\ K \in Nat \ {0}
    /\ IdleResetMs \in Nat \ {0}

Absent == -1       \* an `undefined` field; no level, epoch or time is negative

Levels == Nat \ {0}
Counts == Nat
Streaks == 0..K
MaybeLevels == Levels \cup {Absent}
MaybeTimes == Nat \cup {Absent}

Controller ==
    [ cap : Levels, growthLimit : Levels, epoch : Counts, inFlight : Counts,
      waiters : Counts, successStreak : Streaks, cooldownUntil : MaybeTimes,
      lastRequestAt : MaybeTimes, lastGood : MaybeLevels, lastBad : MaybeLevels,
      lastThrottledAt : MaybeTimes ]

Larger(a, b) == IF a >= b THEN a ELSE b
Smaller(a, b) == IF a <= b THEN a ELSE b

NewController(growthLimit) ==
    [ cap |-> Initial, growthLimit |-> Larger(Initial, growthLimit), epoch |-> 0,
      inFlight |-> 0, waiters |-> 0, successStreak |-> 0, cooldownUntil |-> Absent,
      lastRequestAt |-> Absent, lastGood |-> Absent, lastBad |-> Absent,
      lastThrottledAt |-> Absent ]

\* The shape every record of levels has, whichever calls produced it.
LevelsOf(c) ==
    /\ 1 <= c.cap /\ c.cap <= c.growthLimit
    /\ Initial <= c.growthLimit
    /\ c.lastGood # Absent => 1 <= c.lastGood /\ c.lastGood <= c.cap

-----------------------------------------------------------------------------
(* Queries and methods.  Every method except Admitted begins with IdleReset. *)

\* MUTANT of CanAdmit: one more than the cap.
CanAdmitOneMore(c, t) == c.inFlight <= c.cap /\ t >= c.cooldownUntil

CanAdmit(c, t) == c.inFlight < c.cap /\ t >= c.cooldownUntil

\* Nothing in flight, and the last admission is a whole window old.
IdleFor(c, t) ==
    /\ c.lastRequestAt # Absent
    /\ c.inFlight = 0
    /\ t - c.lastRequestAt >= IdleResetMs

\* The reset is idempotent: a bucket already at its starting state turns no epoch.
Forgotten(c) ==
    /\ c.cap = Initial
    /\ c.successStreak = 0
    /\ c.cooldownUntil = Absent
    /\ c.lastGood = Absent
    /\ c.lastBad = Absent
    /\ c.lastThrottledAt = Absent

IdleReset(c, t) ==
    IF IdleFor(c, t) /\ ~Forgotten(c)
    THEN [c EXCEPT !.cap = Initial, !.successStreak = 0, !.cooldownUntil = Absent,
                   !.lastGood = Absent, !.lastBad = Absent, !.lastThrottledAt = Absent,
                   !.epoch = @ + 1]
    ELSE c

Observe(c, t) == IdleReset(c, t)

Admitted(c, t) == [c EXCEPT !.lastRequestAt = t, !.inFlight = @ + 1]

\* MUTANT of Ended: the end of a request is not counted.
EndedUncounted(c, t) == IdleReset(c, t)

\* IdleReset, then inFlight - 1 clamped at zero: how every method that ends a request begins.
Ended(c, t) == [IdleReset(c, t) EXCEPT !.inFlight = Larger(0, @ - 1)]

FailedTransient(c, t) == [Ended(c, t) EXCEPT !.successStreak = 0]

\* MUTANT of MayGrow: probing without anybody waiting, the cap drifts upward.
MayGrowUnasked(c) == c.cap < c.growthLimit

MayGrow(c) == c.waiters > 0 /\ c.cap < c.growthLimit

(* Only a success of the current epoch counts.  A full streak proves the cap, *)
(* and raises it by one when somebody waits and the growth limit allows it.   *)
(* The streak is compared with K and with zero only, so it saturates at K.    *)
Succeeded(c, t, e) ==
    LET d == Ended(c, t)
        streak == Smaller(K, d.successStreak + 1)
        proven == [d EXCEPT !.successStreak = streak,
                            !.lastGood = IF @ = Absent \/ d.cap > @ THEN d.cap ELSE @]
    IN  IF e # d.epoch THEN d
        ELSE IF streak < K THEN [d EXCEPT !.successStreak = streak]
        ELSE IF ~MayGrow(d) THEN proven
        ELSE [proven EXCEPT !.cap = Smaller(d.growthLimit, d.cap + 1), !.successStreak = 0]

\* MUTANT of Cooldown: the last Retry-After wins.
CooldownOverwritten(c, t, retryAfter) == IF retryAfter > 0 THEN t + retryAfter ELSE c.cooldownUntil

Cooldown(c, t, retryAfter) ==
    IF retryAfter > 0 THEN Larger(Larger(c.cooldownUntil, 0), t + retryAfter)
    ELSE c.cooldownUntil

\* A cap above its proven level is a probe that has failed.
Probing(c) == c.lastGood # Absent /\ c.cap > c.lastGood

\* MUTANT of CutLevel: no floor of one.
CutLevelUnfloored(c) == IF Probing(c) THEN c.lastGood ELSE (3 * c.cap) \div 4

CutLevel(c) == IF Probing(c) THEN c.lastGood ELSE Larger(1, (3 * c.cap) \div 4)

(* Any refusal clears the streak, marks the time and extends the cooldown.   *)
(* Only one of the current epoch is a verdict on the cap: back to the proven *)
(* level when the cap is above it, times three quarters otherwise.           *)
Throttled(c, t, e, retryAfter) ==
    LET f == FailedTransient(c, t)
        d == [f EXCEPT !.lastThrottledAt = t, !.cooldownUntil = Cooldown(f, t, retryAfter)]
    IN  IF e # d.epoch THEN d
        ELSE [d EXCEPT !.cap = CutLevel(d),
                       !.lastBad = d.cap,
                       !.lastGood = IF Probing(d) THEN @ ELSE Absent,
                       !.epoch = @ + 1]

Waiting(c, t, n) == [IdleReset(c, t) EXCEPT !.waiters = n]

\* MUTANT of WithGrowthLimit: the proven level stays above the cap.
WithGrowthLimitHalf(c, t, limit) ==
    LET d == [IdleReset(c, t) EXCEPT !.growthLimit = Larger(Initial, limit)]
    IN  IF d.cap <= d.growthLimit THEN d
        ELSE [d EXCEPT !.cap = d.growthLimit, !.successStreak = 0, !.epoch = @ + 1]

\* MUTANT of WithGrowthLimit: requests in flight keep the current epoch.
WithGrowthLimitSameEpoch(c, t, limit) ==
    LET d == [IdleReset(c, t) EXCEPT !.growthLimit = Larger(Initial, limit)]
    IN  IF d.cap <= d.growthLimit THEN d
        ELSE [d EXCEPT !.cap = d.growthLimit, !.lastGood = Smaller(@, d.growthLimit),
                       !.successStreak = 0]

\* A limit below the cap pulls the cap down, and the proven level with it;
\* one that is Absent stays so.
WithGrowthLimit(c, t, limit) ==
    LET d == [IdleReset(c, t) EXCEPT !.growthLimit = Larger(Initial, limit)]
    IN  IF d.cap <= d.growthLimit THEN d
        ELSE [d EXCEPT !.cap = d.growthLimit,
                       !.lastGood = Smaller(@, d.growthLimit),
                       !.successStreak = 0,
                       !.epoch = @ + 1]

\* A jump to the target, unless it is not above the cap or a refusal is less than a window old.
Seeded(c, t, target) ==
    LET d == IdleReset(c, t)
        next == Smaller(d.growthLimit, target)
        refusedLately == d.lastThrottledAt # Absent /\ t - d.lastThrottledAt < IdleResetMs
    IN  IF next <= d.cap \/ refusedLately THEN d
        ELSE [d EXCEPT !.cap = next, !.lastGood = Absent, !.lastBad = Absent,
                       !.successStreak = 0, !.epoch = @ + 1]

=============================================================================
