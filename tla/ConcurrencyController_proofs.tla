-------------------- MODULE ConcurrencyController_proofs --------------------
(***************************************************************************)
(* Theorems about ConcurrencyController, for every default parallelism,    *)
(* streak length, window, set of requests, and bound on clock and epochs.  *)
(***************************************************************************)
EXTENDS ConcurrencyController, Engine_lemmas

-----------------------------------------------------------------------------
(* The inductive invariant.  The levels need the record to be typed; the    *)
(* epochs need it too; and the ending methods keep the levels only because  *)
(* InFlightExact says that the request they end is counted.                 *)

Inv == TypeOK /\ LevelsOK /\ InFlightExact /\ EpochsPast

\* What a step does to the controller, in the terms of the lemmas above.
Step == Lawful(ctl, ctl', now)

LEMMA OutstandingCounted ==
    ASSUME Inv, NEW r \in Requests, outstanding[r] # Absent
    PROVE  ctl.inFlight > 0
<1>1. IsFiniteSet(InFlight) /\ Cardinality(InFlight) \in Nat
  BY ControllerAssumption, FS_Subset, FS_CardinalityType DEF InFlight
<1>2. r \in InFlight
  BY DEF InFlight
<1>3. QED
  BY <1>1, <1>2, FS_EmptySet DEF Inv, InFlightExact

\* A step that leaves the requests alone, or ends one of them.
LEMMA KeepsInv ==
    ASSUME Inv, Step, now' \in Nat,
           \/ outstanding' = outstanding /\ ctl'.inFlight = ctl.inFlight
           \/ \E r \in Requests :
                 /\ outstanding[r] # Absent
                 /\ outstanding' = [outstanding EXCEPT ![r] = Absent]
                 /\ ctl'.inFlight = ctl.inFlight - 1
    PROVE  Inv'
<1>1. /\ ctl' \in Controller /\ LevelsOf(ctl')
      /\ ctl.epoch <= ctl'.epoch /\ ctl.epoch \in Nat /\ ctl'.epoch \in Nat
  BY Fields DEF Step, Lawful, Good, Inv, TypeOK, Counts
<1>2. IsFiniteSet(InFlight) /\ Cardinality(InFlight) \in Nat
  BY ControllerAssumption, FS_Subset, FS_CardinalityType DEF InFlight
<1>3. CASE outstanding' = outstanding /\ ctl'.inFlight = ctl.inFlight
  <2>1. InFlight' = InFlight
    BY <1>3 DEF InFlight
  <2>2. QED
    BY <1>1, <1>3, <2>1 DEF Inv, TypeOK, LevelsOK, LevelsOf, InFlightExact, EpochsPast, InFlight, Absent
<1>4. ASSUME NEW r \in Requests, outstanding[r] # Absent,
             outstanding' = [outstanding EXCEPT ![r] = Absent],
             ctl'.inFlight = ctl.inFlight - 1
      PROVE  Inv'
  <2>1. outstanding' \in [Requests -> Nat \cup {Absent}]
    BY <1>4 DEF Inv, TypeOK
  <2>2. InFlight' = InFlight \ {r} /\ r \in InFlight
    BY <1>4 DEF InFlight, Inv, TypeOK
  <2>3. Cardinality(InFlight') = Cardinality(InFlight) - 1
    BY <1>2, <2>2, FS_RemoveElement
  <2>4. EpochsPast'
    BY <1>1, <1>4, <2>2 DEF Inv, TypeOK, EpochsPast, InFlight, Absent
  <2>5. QED
    BY <1>1, <1>4, <2>1, <2>3, <2>4 DEF Inv, TypeOK, LevelsOK, LevelsOf, InFlightExact
<1>5. QED
  BY <1>3, <1>4

LEMMA SignalStep == Inv /\ Signal => Step /\ Inv'
<1> SUFFICES ASSUME Inv, Signal PROVE Step /\ Inv'
  OBVIOUS
<1>1. Good(ctl) /\ now \in Nat
  BY DEF Inv, TypeOK, LevelsOK, Good
<1>2. Cardinality(Requests) \in Nat
  BY ControllerAssumption, FS_CardinalityType
<1>3. Step /\ ctl'.inFlight = ctl.inFlight
  <2>1. CASE ctl' = Observe(ctl, now)
    BY <1>1, <2>1, IdleResetLawful, IdleResetGood DEF Step, Observe
  <2>2. ASSUME NEW n \in 0..Cardinality(Requests), ctl' = Waiting(ctl, now, n)
        PROVE  Step /\ ctl'.inFlight = ctl.inFlight
    BY <1>1, <1>2, <2>2, WaitingLawful DEF Step
  <2>3. QED
    BY <2>1, <2>2 DEF Signal
<1>4. QED
  BY <1>1, <1>3, KeepsInv DEF Signal

LEMMA AdmitStep ==
    ASSUME NEW r \in Requests
    PROVE  Inv /\ Admit(r) => Step /\ Inv'
<1> SUFFICES ASSUME Inv, Admit(r) PROVE Step /\ Inv'
  OBVIOUS
<1>1. Good(ctl) /\ now \in Nat
  BY DEF Inv, TypeOK, LevelsOK, Good
<1>2. Step /\ ctl'.inFlight = ctl.inFlight + 1
  BY <1>1, AdmittedLawful DEF Admit, Step
<1>3. /\ ctl' \in Controller /\ LevelsOf(ctl')
      /\ ctl.epoch <= ctl'.epoch /\ ctl.epoch \in Nat /\ ctl'.epoch \in Nat
  BY <1>1, <1>2, Fields DEF Step, Lawful, Good, Counts
<1>4. outstanding' \in [Requests -> Nat \cup {Absent}]
  BY <1>3 DEF Inv, TypeOK, Admit
<1>5. InFlight' = InFlight \cup {r} /\ r \notin InFlight
  BY <1>3 DEF InFlight, Inv, TypeOK, Admit, Absent
<1>6. IsFiniteSet(InFlight)
  BY ControllerAssumption, FS_Subset DEF InFlight
<1>7. Cardinality(InFlight') = Cardinality(InFlight) + 1
  BY <1>5, <1>6, FS_AddElement
<1>8. EpochsPast'
  BY <1>3, <1>5 DEF Inv, TypeOK, EpochsPast, InFlight, Absent, Admit
<1>9. QED
  BY <1>2, <1>3, <1>4, <1>7, <1>8 DEF Inv, TypeOK, LevelsOK, LevelsOf, InFlightExact, Admit

LEMMA EndStep ==
    ASSUME NEW r \in Requests
    PROVE  Inv /\ (Succeed(r) \/ Refuse(r) \/ Fail(r)) => Step /\ Inv'
<1> SUFFICES ASSUME Inv, Succeed(r) \/ Refuse(r) \/ Fail(r) PROVE Step /\ Inv'
  OBVIOUS
<1>1. Good(ctl) /\ now \in Nat
  BY DEF Inv, TypeOK, LevelsOK, Good
<1>2. /\ outstanding[r] # Absent
      /\ outstanding' = [outstanding EXCEPT ![r] = Absent]
      /\ now' = now
  BY DEF Succeed, Refuse, Fail, Finish
<1>3. ctl.inFlight > 0
  BY <1>2, OutstandingCounted
<1>4. Step /\ ctl'.inFlight = ctl.inFlight - 1
  <2>1. CASE Succeed(r)
    BY <1>1, <1>3, <2>1, SucceededLawful DEF Succeed, Finish, Step
  <2>2. CASE Refuse(r)
    BY <1>1, <1>3, <2>2, ThrottledLawful, ControllerAssumption DEF Refuse, Finish, Step
  <2>3. CASE Fail(r)
    BY <1>1, <1>3, <2>3, FailedTransientLawful, EndedLawful DEF Fail, Finish, Step
  <2>4. QED
    BY <2>1, <2>2, <2>3
<1>5. QED
  BY <1>1, <1>2, <1>4, KeepsInv

LEMMA RetuneStep == Inv /\ Retune => Step /\ Inv'
<1> SUFFICES ASSUME Inv, Retune PROVE Step /\ Inv'
  OBVIOUS
<1>1. Good(ctl) /\ now \in Nat
  BY DEF Inv, TypeOK, LevelsOK, Good
<1>2. Step /\ ctl'.inFlight = ctl.inFlight
  BY <1>1, WithGrowthLimitLawful, SeededLawful, ControllerAssumption DEF Retune, Step
<1>3. QED
  BY <1>1, <1>2, KeepsInv DEF Retune

LEMMA InitInv == Init => Inv
<1> SUFFICES ASSUME Init PROVE Inv
  OBVIOUS
<1>1. Good(ctl) /\ ctl.inFlight = 0
  BY NewControllerGood, ControllerAssumption DEF Init
<1>2. InFlight = {}
  BY DEF Init, InFlight
<1>3. QED
  BY <1>1, <1>2, FS_EmptySet
     DEF Init, Inv, TypeOK, LevelsOK, Good, InFlightExact, EpochsPast, Absent

LEMMA NextInv == Inv /\ [Next]_vars => Inv' /\ (Step \/ ctl' = ctl)
<1> SUFFICES ASSUME Inv, [Next]_vars PROVE Inv' /\ (Step \/ ctl' = ctl)
  OBVIOUS
<1>1. CASE Signal
  BY <1>1, SignalStep
<1>2. ASSUME NEW r \in Requests, Admit(r) \/ Succeed(r) \/ Refuse(r) \/ Fail(r)
      PROVE  Inv' /\ Step
  BY <1>2, AdmitStep, EndStep
<1>3. CASE Retune
  BY <1>3, RetuneStep
<1>4. CASE Tick
  BY <1>4 DEF Tick, Inv, TypeOK, LevelsOK, LevelsOf, InFlightExact, EpochsPast, InFlight
<1>5. CASE UNCHANGED vars
  BY <1>5 DEF vars, Inv, TypeOK, LevelsOK, LevelsOf, InFlightExact, EpochsPast, InFlight
<1>6. QED
  BY <1>1, <1>2, <1>3, <1>4, <1>5 DEF Next

-----------------------------------------------------------------------------
(* The theorems.                                                            *)

\* Every reachable state satisfies the inductive invariant.
THEOREM Invariance == Spec => []Inv
<1>1. QED
  BY InitInv, NextInv, PTL DEF Spec

\* The fields of the controller keep their types, for every instance.
THEOREM TypeCorrect == Spec => []TypeOK
<1>1. Inv => TypeOK
  BY DEF Inv
<1>2. QED
  BY <1>1, Invariance, PTL

\* The cap never leaves 1..growthLimit, and the proven level never exceeds it.
THEOREM LevelsCorrect == Spec => []LevelsOK
<1>1. Inv => LevelsOK
  BY DEF Inv
<1>2. QED
  BY <1>1, Invariance, PTL

\* The in-flight count is exact, so the clamp at zero never hides a decrement.
THEOREM CountCorrect == Spec => []InFlightExact
<1>1. Inv => InFlightExact
  BY DEF Inv
<1>2. QED
  BY <1>1, Invariance, PTL

\* No outstanding request carries an epoch the controller has not reached.
THEOREM EpochsCorrect == Spec => []EpochsPast
<1>1. Inv => EpochsPast
  BY DEF Inv
<1>2. QED
  BY <1>1, Invariance, PTL

\* One wave of requests gets one verdict: a cut of the cap leaves no earlier request able to cut.
THEOREM OneVerdict == Spec => OneVerdictPerWave
<1>1. Inv /\ [Next]_vars
         => [ctl'.cap < ctl.cap => \A r \in InFlight : outstanding'[r] # ctl'.epoch]_vars
  <2> SUFFICES ASSUME Inv, [Next]_vars, ctl'.cap < ctl.cap, NEW r \in InFlight
               PROVE  outstanding'[r] # ctl'.epoch
    OBVIOUS
  <2>1. /\ ctl.cap \in Nat /\ ctl.epoch \in Nat /\ outstanding[r] <= ctl.epoch
        /\ outstanding[r] \in Nat /\ r \in Requests /\ outstanding[r] # Absent
        /\ outstanding \in [Requests -> Nat \cup {Absent}]
    BY Fields DEF Inv, TypeOK, EpochsPast, InFlight, Levels, Counts
  <2>2. ctl.epoch < ctl'.epoch /\ ctl'.epoch \in Nat
    BY <2>1, NextInv, Fields DEF Step, Lawful, Inv, TypeOK, Counts
  <2>3. outstanding'[r] \in {outstanding[r], Absent}
    BY <2>1 DEF Next, Signal, Admit, Succeed, Refuse, Fail, Finish, Retune, Tick, vars
  <2>4. QED
    BY <2>1, <2>2, <2>3 DEF Absent
<1>2. QED
  BY <1>1, Invariance, PTL DEF Spec, OneVerdictPerWave

\* Every rise of the cap is demanded by a waiter and proven, or starts unproven.
THEOREM GrowthDemanded == Spec => GrowthIsDemanded
<1>1. Inv /\ [Next]_vars
         => [ctl'.cap > ctl.cap =>
               \/ ctl'.cap = ctl.cap + 1 /\ ctl.waiters > 0 /\ ctl'.lastGood = ctl.cap
               \/ ctl'.epoch > ctl.epoch /\ ctl'.lastGood = Absent]_vars
  <2> SUFFICES ASSUME Inv, [Next]_vars, ctl'.cap > ctl.cap
               PROVE  \/ ctl'.cap = ctl.cap + 1 /\ ctl.waiters > 0 /\ ctl'.lastGood = ctl.cap
                      \/ ctl'.epoch > ctl.epoch /\ ctl'.lastGood = Absent
    OBVIOUS
  <2>1. ctl.cap \in Nat
    BY Fields DEF Inv, TypeOK, Levels
  <2>2. QED
    BY <2>1, NextInv DEF Step, Lawful
<1>2. QED
  BY <1>1, Invariance, PTL DEF Spec, GrowthIsDemanded

\* A freeze is never shortened while the bucket is in use.
THEOREM CooldownCorrect == Spec => CooldownKept
<1>1. Inv /\ [Next]_vars
         => [ctl'.cooldownUntil < ctl.cooldownUntil => IdleFor(ctl, now)]_vars
  <2> SUFFICES ASSUME Inv, [Next]_vars, ctl'.cooldownUntil < ctl.cooldownUntil
               PROVE  IdleFor(ctl, now)
    OBVIOUS
  <2>1. ctl.cooldownUntil \in Nat \cup {-1}
    BY Fields DEF Inv, TypeOK, MaybeTimes, Absent
  <2>2. QED
    BY <2>1, NextInv DEF Step, Lawful
<1>2. QED
  BY <1>1, Invariance, PTL DEF Spec, CooldownKept

=============================================================================
