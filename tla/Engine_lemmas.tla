------------------------------- MODULE Engine_lemmas -------------------------------
(***************************************************************************)
(* What the proofs about the engine share.                                 *)
(*                                                                         *)
(* Lines: what a push, a shift and a splice make of a waiting line over    *)
(* any set.  A splice removes a member, and not just an occurrence of it,  *)
(* because nobody stands in line twice.  Induction is over sets: the       *)
(* library's theorems take a predicate, which the provers cannot be given. *)
(*                                                                         *)
(* The controller: what every method does to a good record of levels, for  *)
(* every default parallelism, streak length and window.                    *)
(***************************************************************************)
EXTENDS AdaptiveCap, Fifo, FiniteSetTheorems, SequenceTheorems, WellFoundedInduction, TLAPS

-----------------------------------------------------------------------------
(* Lines.                                                                  *)

\* The least number of a set, which takes the place of an induction.
LEMMA LeastOf ==
    ASSUME NEW S, S \subseteq Nat, S # {}
    PROVE  \E n \in S : \A m \in S : n <= m
<1>1. PICK n \in S : \A m \in S : ~ (<<m, n>> \in OpToRel(<, Nat))
  BY NatLessThanWellFounded, WFMin, Zenon
<1>2. \A m \in S : <<m, n>> \in Nat \X Nat
  BY Zenon
<1>3. \A m \in S : ~ (m < n)
  BY <1>1, <1>2, Zenon DEF OpToRel
<1>4. QED
  BY <1>3

\* Induction over the lines of a set, with a set of lines in the place of a predicate.
LEMMA LineInduction ==
    ASSUME NEW S, NEW G, <<>> \in G, \A p \in Seq(S), a \in S : p \in G => Append(p, a) \in G
    PROVE  Seq(S) \subseteq G
<1> DEFINE Bad == {n \in Nat : \E p \in Seq(S) : Len(p) = n /\ p \notin G}
<1>1. ASSUME NEW n \in Bad, \A m \in Bad : n <= m PROVE FALSE
    <2>1. PICK p \in Seq(S) : Len(p) = n /\ p \notin G
        BY <1>1
    <2>2. PICK q \in Seq(S), a \in S : p = Append(q, a)
        BY <2>1, SequenceEmptyOrAppend
    <2>3. Len(p) = Len(q) + 1 /\ Len(q) \in Nat
        BY <2>2, AppendProperties, LenProperties
    <2>4. Len(q) \notin Bad
        BY <1>1, <2>1, <2>3
    <2>5. q \in G
        BY <2>3, <2>4
    <2> QED
        BY <2>1, <2>2, <2>5
<1>2. Bad = {}
    BY <1>1, LeastOf
<1>3. \A p \in Seq(S) : Len(p) \in Nat
    BY LenProperties
<1> QED
    BY <1>2, <1>3


\* One more stands in line: push.
LEMMA Pushed ==
    ASSUME NEW S, NEW p \in Seq(S), NEW a \in S, Distinct(p), a \notin Members(p)
    PROVE  /\ Append(p, a) \in Seq(S)
           /\ Members(Append(p, a)) = Members(p) \cup {a}
           /\ Distinct(Append(p, a))
<1>1. Append(p, a) \in Seq(S) /\ Len(Append(p, a)) = Len(p) + 1 /\ Len(p) \in Nat
    BY AppendProperties, LenProperties
<1>2. /\ \A i \in 1..Len(p) : Append(p, a)[i] = p[i]
      /\ Append(p, a)[Len(p) + 1] = a
    BY AppendProperties
<1>3. 1..(Len(p) + 1) = (1..Len(p)) \cup {Len(p) + 1}
    BY <1>1
<1> QED
    BY <1>1, <1>2, <1>3 DEF Distinct, Members

\* The tail of a line after its first n: what n shifts leave.
LEMMA Shifted ==
    ASSUME NEW S, NEW p \in Seq(S), NEW n \in 0..Len(p), Distinct(p)
    PROVE  /\ Rest(p, n) \in Seq(S) /\ Len(Rest(p, n)) = Len(p) - n /\ Distinct(Rest(p, n))
           /\ First(p, n) \cup Members(Rest(p, n)) = Members(p)
           /\ First(p, n) \cap Members(Rest(p, n)) = {}
           /\ IsFiniteSet(First(p, n)) /\ Cardinality(First(p, n)) = n
<1> DEFINE rest == SubSeq(p, n + 1, Len(p))
           first == {p[i] : i \in 1..n}
           f == [i \in 1..n |-> p[i]]
<1>1. Len(p) \in Nat /\ n \in Nat /\ n <= Len(p)
    BY LenProperties
<1>2. \A i \in (n + 1)..Len(p) : p[i] \in S
    BY <1>1, ElementOfSeq
<1>3. /\ rest \in Seq(S)
      /\ Len(rest) = Len(p) - n
      /\ \A i \in 1..(Len(p) - n) : rest[i] = p[n + i]
    BY <1>1, <1>2, SubSeqProperties, Z3
<1>4. f \in Bijection(1..n, first)
    <2>1. f \in [1..n -> first]
        OBVIOUS
    <2>2. \A i, j \in 1..n : f[i] = f[j] => i = j
        BY <1>1 DEF Distinct
    <2>3. \A x \in first : \E i \in 1..n : f[i] = x
        OBVIOUS
    <2> QED
        BY <2>1, <2>2, <2>3 DEF Bijection, Injection, Surjection, IsInjective
<1>5. IsFiniteSet(first) /\ Cardinality(first) = n
    BY <1>1, <1>4, FS_NatBijection, FS_CountingElements DEF ExistsBijection
<1> HIDE DEF rest
<1>6. Members(rest) = {p[i] : i \in (n + 1)..Len(p)}
    <2>1. \A i \in 1..Len(rest) : n + i \in (n + 1)..Len(p) /\ rest[i] = p[n + i]
        BY <1>1, <1>3
    <2>2. \A i \in (n + 1)..Len(p) : i - n \in 1..Len(rest) /\ rest[i - n] = p[i]
        BY <1>1, <1>3
    <2>3. ASSUME NEW x \in Members(rest) PROVE x \in {p[i] : i \in (n + 1)..Len(p)}
        BY <2>1 DEF Members
    <2>4. ASSUME NEW x \in {p[i] : i \in (n + 1)..Len(p)} PROVE x \in Members(rest)
        <3>1. PICK i \in (n + 1)..Len(p) : x = p[i]
            OBVIOUS
        <3> QED
            BY <2>2, <3>1 DEF Members
    <2> QED
        BY <2>3, <2>4
<1>7. Distinct(rest)
    <2> SUFFICES ASSUME NEW i \in 1..Len(rest), NEW j \in 1..Len(rest), rest[i] = rest[j]
                 PROVE  i = j
        BY DEF Distinct
    <2>1. n + i \in 1..Len(p) /\ n + j \in 1..Len(p)
        BY <1>1, <1>3
    <2>2. p[n + i] = p[n + j]
        BY <1>3
    <2>3. n + i = n + j
        BY <2>1, <2>2 DEF Distinct
    <2> QED
        BY <1>1, <2>3
<1>8. first \cap Members(rest) = {}
    <2> SUFFICES ASSUME NEW i \in 1..n, NEW j \in (n + 1)..Len(p), p[i] = p[j] PROVE FALSE
        BY <1>6
    <2>1. i \in 1..Len(p) /\ j \in 1..Len(p) /\ i # j
        BY <1>1
    <2> QED
        BY <2>1 DEF Distinct
<1>9. first \cup Members(rest) = Members(p)
    <2>1. 1..Len(p) = (1..n) \cup ((n + 1)..Len(p))
        BY <1>1
    <2> QED
        BY <1>6, <2>1 DEF Members
<1> QED
    BY <1>3, <1>5, <1>7, <1>8, <1>9 DEF First, Rest, rest

\* A splice removes one member.
LEMMA Spliced ==
    ASSUME NEW S, NEW p \in Seq(S), NEW a \in Members(p), Distinct(p)
    PROVE  /\ Without(p, a) \in Seq(S)
           /\ Members(Without(p, a)) = Members(p) \ {a}
           /\ Distinct(Without(p, a))
<1> DEFINE k == CHOOSE i \in 1..Len(p) : p[i] = a
           s == SubSeq(p, 1, k - 1)
           t == SubSeq(p, k + 1, Len(p))
           q == s \o t
<1>1. k \in 1..Len(p) /\ p[k] = a /\ Len(p) \in Nat
    BY LenProperties DEF Members
<1> HIDE DEF k
<1>2. \A i \in 1..Len(p) : p[i] \in S
    BY ElementOfSeq
<1>3. /\ s \in Seq(S) /\ Len(s) = k - 1
      /\ \A i \in 1..(k - 1) : s[i] = p[i]
    <2>1. \A i \in 1..(k - 1) : p[i] \in S
        BY <1>1, <1>2
    <2> QED
        BY <1>1, <2>1, SubSeqProperties, Z3
<1>4. /\ t \in Seq(S) /\ Len(t) = Len(p) - k
      /\ \A i \in 1..(Len(p) - k) : t[i] = p[k + i]
    <2>1. \A i \in (k + 1)..Len(p) : p[i] \in S
        BY <1>1, <1>2
    <2> QED
        BY <1>1, <2>1, SubSeqProperties, Z3
<1>5. /\ q \in Seq(S) /\ Len(q) = Len(p) - 1
      /\ \A i \in 1..Len(q) : (i < k => q[i] = p[i]) /\ (i >= k => q[i] = p[i + 1])
    <2>1. /\ q \in Seq(S) /\ Len(q) = Len(s) + Len(t)
          /\ \A i \in 1..(Len(s) + Len(t)) :
                q[i] = IF i <= Len(s) THEN s[i] ELSE t[i - Len(s)]
        BY <1>3, <1>4, ConcatProperties
    <2> HIDE DEF q, s, t
    <2>2. Len(q) = Len(p) - 1
        BY <1>1, <1>3, <1>4, <2>1
    <2>3. ASSUME NEW i \in 1..Len(q), i < k PROVE q[i] = p[i]
        BY <1>1, <1>3, <1>4, <2>1, <2>2, <2>3
    <2>4. ASSUME NEW i \in 1..Len(q), i >= k PROVE q[i] = p[i + 1]
        <3>1. i - Len(s) \in 1..(Len(p) - k) /\ k + (i - Len(s)) = i + 1
            BY <1>1, <1>3, <2>2, <2>4
        <3>2. q[i] = t[i - Len(s)]
            BY <1>1, <1>3, <1>4, <2>1, <2>2, <2>4
        <3>3. t[i - Len(s)] = p[k + (i - Len(s))]
            BY <1>4, <3>1
        <3> QED
            BY <3>1, <3>2, <3>3
    <2> QED
        BY <2>1, <2>2, <2>3, <2>4
<1> HIDE DEF q, s, t
<1>6. ASSUME NEW i \in 1..Len(q)
      PROVE  \E m \in 1..Len(p) : /\ q[i] = p[m]
                                  /\ m # k
                                  /\ IF i < k THEN m = i ELSE m = i + 1
    <2>1. CASE i < k
        <3>1. i \in 1..Len(p) /\ q[i] = p[i]
            BY <1>1, <1>5, <2>1
        <3> QED
            BY <2>1, <3>1
    <2>2. CASE i >= k
        <3>1. i + 1 \in 1..Len(p) /\ q[i] = p[i + 1] /\ ~(i < k) /\ i + 1 # k
            BY <1>1, <1>5, <2>2
        <3> QED
            BY <3>1
    <2> QED
        BY <1>1, <1>5, <2>1, <2>2
<1>7. Distinct(q)
    <2> SUFFICES ASSUME NEW i \in 1..Len(q), NEW j \in 1..Len(q), q[i] = q[j] PROVE i = j
        BY DEF Distinct
    <2>1. PICK m \in 1..Len(p) : q[i] = p[m] /\ IF i < k THEN m = i ELSE m = i + 1
        BY <1>6
    <2>2. PICK n \in 1..Len(p) : q[j] = p[n] /\ IF j < k THEN n = j ELSE n = j + 1
        BY <1>6
    <2>3. m = n
        BY <2>1, <2>2 DEF Distinct
    <2> QED
        BY <1>1, <1>5, <2>1, <2>2, <2>3
<1>8. Members(q) = Members(p) \ {a}
    <2>1. ASSUME NEW i \in 1..Len(q) PROVE q[i] \in Members(p) \ {a}
        <3>1. PICK m \in 1..Len(p) : q[i] = p[m] /\ m # k
            BY <1>6
        <3> QED
            BY <1>1, <3>1 DEF Distinct, Members
    <2>2. ASSUME NEW j \in 1..Len(p), p[j] # a PROVE p[j] \in Members(q)
        <3>1. CASE j < k
            BY <1>1, <1>5, <3>1 DEF Members
        <3>2. CASE j > k
            <4>1. j - 1 \in 1..Len(q) /\ j - 1 >= k /\ (j - 1) + 1 = j
                BY <1>1, <1>5, <3>2
            <4>2. q[j - 1] = p[(j - 1) + 1]
                BY <1>5, <4>1
            <4> QED
                BY <4>1, <4>2 DEF Members
        <3> QED
            BY <1>1, <2>2, <3>1, <3>2
    <2> QED
        BY <2>1, <2>2 DEF Members
<1>9. Without(p, a) = q
    BY DEF Without, q, s, t, k
<1> QED
    BY <1>5, <1>7, <1>8, <1>9

-----------------------------------------------------------------------------
(* What each method of the controller returns.  The sets a field ranges    *)
(* over stay folded where the shape of the record is at stake, and are     *)
(* unfolded where the numbers are.                                         *)

Good(c) == c \in Controller /\ LevelsOf(c)

LEMMA Fields ==
    ASSUME NEW c \in Controller
    PROVE  /\ c.cap \in Levels /\ c.growthLimit \in Levels
           /\ c.epoch \in Counts /\ c.inFlight \in Counts /\ c.waiters \in Counts
           /\ c.successStreak \in Streaks
           /\ c.cooldownUntil \in MaybeTimes /\ c.lastRequestAt \in MaybeTimes
           /\ c.lastThrottledAt \in MaybeTimes
           /\ c.lastGood \in MaybeLevels /\ c.lastBad \in MaybeLevels
BY DEF Controller

LEMMA Ranges ==
    /\ Initial \in Levels /\ 0 \in Counts /\ 0 \in Streaks /\ K \in Streaks
    /\ Absent \in MaybeTimes /\ Absent \in MaybeLevels
    /\ \A n \in Counts : n + 1 \in Counts /\ Larger(0, n - 1) \in Counts
    /\ \A t \in Nat : t \in MaybeTimes
    /\ \A l \in Levels : l \in MaybeLevels
BY CapAssumption
   DEF Levels, Counts, Streaks, MaybeTimes, MaybeLevels, Absent, Larger

LEMMA NewControllerGood ==
    ASSUME NEW limit \in Nat
    PROVE  Good(NewController(limit)) /\ NewController(limit).inFlight = 0
<1>1. Larger(Initial, limit) \in Levels /\ Initial <= Larger(Initial, limit)
  BY CapAssumption DEF Levels, Larger
<1>2. NewController(limit) \in Controller
  BY <1>1, Ranges DEF Controller, NewController
<1>3. QED
  BY <1>1, <1>2, CapAssumption DEF Good, LevelsOf, NewController, Levels, Absent

\* Either nothing changes, or an idle bucket forgets what it learned and turns its epoch.
LEMMA IdleResetGood ==
    ASSUME NEW c, Good(c), NEW t \in Nat
    PROVE  /\ Good(IdleReset(c, t))
           /\ IdleReset(c, t).inFlight = c.inFlight
           /\ IdleReset(c, t).waiters = c.waiters
           /\ \/ IdleReset(c, t) = c
              \/ /\ IdleFor(c, t)
                 /\ IdleReset(c, t).epoch = c.epoch + 1
                 /\ IdleReset(c, t).lastGood = Absent
<1> DEFINE d == [c EXCEPT !.cap = Initial, !.successStreak = 0, !.cooldownUntil = Absent,
                          !.lastGood = Absent, !.lastBad = Absent, !.lastThrottledAt = Absent,
                          !.epoch = @ + 1]
<1>1. /\ c \in Controller /\ LevelsOf(c)
      /\ d \in Controller
  BY Fields, Ranges DEF Good, Controller
<1>2. /\ d.cap = Initial /\ d.growthLimit = c.growthLimit /\ d.inFlight = c.inFlight
      /\ d.waiters = c.waiters /\ d.epoch = c.epoch + 1 /\ d.lastGood = Absent
  BY <1>1 DEF Controller
<1>3. LevelsOf(d)
  BY <1>1, <1>2, CapAssumption DEF LevelsOf, Absent
<1>4. CASE IdleFor(c, t) /\ ~Forgotten(c)
  <2>1. IdleReset(c, t) = d
    BY <1>4 DEF IdleReset
  <2>2. QED
    BY <1>1, <1>2, <1>3, <1>4, <2>1 DEF Good
<1>5. CASE ~(IdleFor(c, t) /\ ~Forgotten(c))
  BY <1>5 DEF IdleReset
<1>6. QED
  BY <1>4, <1>5

-----------------------------------------------------------------------------
(* What every method does to a good controller, whatever it is called with: *)
(* the facts the properties rest on.                                        *)

Lawful(c, d, t) ==
    /\ Good(d)
    /\ c.epoch <= d.epoch
    /\ d.cap < c.cap => c.epoch < d.epoch
    /\ d.cap > c.cap => \/ d.cap = c.cap + 1 /\ c.waiters > 0 /\ d.lastGood = c.cap
                        \/ d.epoch > c.epoch /\ d.lastGood = Absent
    /\ d.cooldownUntil < c.cooldownUntil => IdleFor(c, t)

LEMMA IdleResetLawful ==
    ASSUME NEW c, Good(c), NEW t \in Nat
    PROVE  Lawful(c, IdleReset(c, t), t)
<1>1. CASE IdleReset(c, t) = c
  BY <1>1, Fields DEF Good, Lawful, Levels, Counts, MaybeTimes, Absent
<1>2. CASE IdleReset(c, t) # c
  <2>1. /\ c \in Controller /\ IdleReset(c, t) \in Controller /\ Good(IdleReset(c, t))
        /\ IdleFor(c, t) /\ IdleReset(c, t).epoch = c.epoch + 1
        /\ IdleReset(c, t).lastGood = Absent
    BY <1>2, IdleResetGood DEF Good
  <2>2. QED
    BY <2>1, Fields DEF Lawful, Counts
<1>3. QED
  BY <1>1, <1>2

LEMMA WaitingLawful ==
    ASSUME NEW c, Good(c), NEW t \in Nat, NEW n \in Nat
    PROVE  /\ Lawful(c, Waiting(c, t, n), t)
           /\ Waiting(c, t, n).inFlight = c.inFlight
<1> DEFINE d == IdleReset(c, t)
           w == [d EXCEPT !.waiters = n]
<1>1. d \in Controller /\ LevelsOf(d) /\ Lawful(c, d, t) /\ d.inFlight = c.inFlight
  BY IdleResetGood, IdleResetLawful DEF Good
<1> HIDE DEF d
<1>2. n \in Counts
  BY DEF Counts
<1>3. /\ w \in Controller
      /\ w.cap = d.cap /\ w.growthLimit = d.growthLimit /\ w.epoch = d.epoch
      /\ w.lastGood = d.lastGood /\ w.inFlight = d.inFlight
      /\ w.cooldownUntil = d.cooldownUntil
  BY <1>1, <1>2 DEF Controller
<1>4. Waiting(c, t, n) = w
  BY DEF Waiting, d
<1> HIDE DEF w
<1>5. QED
  BY <1>1, <1>3, <1>4 DEF Lawful, Good, LevelsOf

LEMMA AdmittedLawful ==
    ASSUME NEW c, Good(c), NEW t \in Nat
    PROVE  /\ Lawful(c, Admitted(Observe(c, t), t), t)
           /\ Admitted(Observe(c, t), t).inFlight = c.inFlight + 1
<1> DEFINE d == IdleReset(c, t)
           w == [d EXCEPT !.lastRequestAt = t, !.inFlight = @ + 1]
<1>1. d \in Controller /\ LevelsOf(d) /\ Lawful(c, d, t) /\ d.inFlight = c.inFlight
  BY IdleResetGood, IdleResetLawful DEF Good
<1> HIDE DEF d
<1>2. t \in MaybeTimes /\ d.inFlight + 1 \in Counts
  BY <1>1, Fields, Ranges
<1>3. /\ w \in Controller
      /\ w.cap = d.cap /\ w.growthLimit = d.growthLimit /\ w.epoch = d.epoch
      /\ w.lastGood = d.lastGood /\ w.inFlight = d.inFlight + 1
      /\ w.cooldownUntil = d.cooldownUntil
  BY <1>1, <1>2 DEF Controller
<1>4. Admitted(Observe(c, t), t) = w
  BY DEF Admitted, Observe, d
<1> HIDE DEF w
<1>5. QED
  BY <1>1, <1>3, <1>4 DEF Lawful, Good, LevelsOf


-----------------------------------------------------------------------------
(* The methods that end a request.  A request in flight keeps the bucket    *)
(* from being idle, so they never reset it.                                 *)

LEMMA EndedLawful ==
    ASSUME NEW c, Good(c), c.inFlight > 0, NEW t \in Nat
    PROVE  /\ Lawful(c, Ended(c, t), t)
           /\ Ended(c, t).inFlight = c.inFlight - 1
           /\ Ended(c, t).epoch = c.epoch
           /\ Ended(c, t).cap = c.cap
           /\ Ended(c, t).waiters = c.waiters
           /\ Ended(c, t).cooldownUntil = c.cooldownUntil
<1> DEFINE n == Larger(0, c.inFlight - 1)
           w == [c EXCEPT !.inFlight = n]
<1>1. IdleReset(c, t) = c
  BY DEF IdleReset, IdleFor
<1>2. c \in Controller /\ LevelsOf(c) /\ n \in Counts
  BY Fields, Ranges DEF Good
<1>3. n = c.inFlight - 1
  BY <1>2, Fields DEF Larger, Counts
<1> HIDE DEF n
<1>4. /\ w \in Controller
      /\ w.cap = c.cap /\ w.growthLimit = c.growthLimit /\ w.epoch = c.epoch
      /\ w.lastGood = c.lastGood /\ w.inFlight = n /\ w.waiters = c.waiters
      /\ w.cooldownUntil = c.cooldownUntil
  BY <1>2 DEF Controller
<1>5. Ended(c, t) = w
  BY <1>1 DEF Ended, n
<1>6. Lawful(c, c, t)
  BY <1>2, Fields DEF Lawful, Good, Levels, Counts, MaybeTimes, Absent
<1> HIDE DEF w
<1>7. QED
  BY <1>2, <1>3, <1>4, <1>5, <1>6 DEF Lawful, Good, LevelsOf

LEMMA FailedTransientLawful ==
    ASSUME NEW c, Good(c), c.inFlight > 0, NEW t \in Nat
    PROVE  /\ Lawful(c, FailedTransient(c, t), t)
           /\ FailedTransient(c, t).inFlight = c.inFlight - 1
           /\ FailedTransient(c, t).epoch = c.epoch
           /\ FailedTransient(c, t).cap = c.cap
           /\ FailedTransient(c, t).cooldownUntil = c.cooldownUntil
<1> DEFINE d == Ended(c, t)
           w == [d EXCEPT !.successStreak = 0]
<1>1. /\ d \in Controller /\ LevelsOf(d) /\ Lawful(c, d, t)
      /\ d.inFlight = c.inFlight - 1 /\ d.epoch = c.epoch /\ d.cap = c.cap
      /\ d.cooldownUntil = c.cooldownUntil
  BY EndedLawful DEF Lawful, Good
<1> HIDE DEF d
<1>2. /\ w \in Controller
      /\ w.cap = d.cap /\ w.growthLimit = d.growthLimit /\ w.epoch = d.epoch
      /\ w.lastGood = d.lastGood /\ w.inFlight = d.inFlight
      /\ w.cooldownUntil = d.cooldownUntil
  BY <1>1, Ranges DEF Controller
<1>3. FailedTransient(c, t) = w
  BY DEF FailedTransient, d
<1> HIDE DEF w
<1>4. QED
  BY <1>1, <1>2, <1>3 DEF Lawful, Good, LevelsOf

LEMMA SucceededLawful ==
    ASSUME NEW c, Good(c), c.inFlight > 0, NEW t \in Nat, NEW e
    PROVE  /\ Lawful(c, Succeeded(c, t, e), t)
           /\ Succeeded(c, t, e).inFlight = c.inFlight - 1
<1> DEFINE d == Ended(c, t)
           streak == Smaller(K, d.successStreak + 1)
           good == IF d.lastGood = Absent \/ d.cap > d.lastGood THEN d.cap ELSE d.lastGood
           counted == [d EXCEPT !.successStreak = streak]
           proven == [d EXCEPT !.successStreak = streak, !.lastGood = good]
           cap == Smaller(d.growthLimit, d.cap + 1)
           raised == [proven EXCEPT !.cap = cap, !.successStreak = 0]
<1>1. /\ d \in Controller /\ LevelsOf(d) /\ Lawful(c, d, t)
      /\ d.inFlight = c.inFlight - 1 /\ d.epoch = c.epoch /\ d.cap = c.cap
      /\ d.waiters = c.waiters /\ d.cooldownUntil = c.cooldownUntil
  BY EndedLawful DEF Lawful, Good
<1> HIDE DEF d
<1>2. /\ c.cap \in Nat /\ c.epoch \in Nat /\ c.waiters \in Nat /\ c.lastGood \in Nat \cup {-1}
      /\ c.cooldownUntil \in Nat \cup {-1} /\ d.cooldownUntil \in Nat \cup {-1}
      /\ d.cap \in Nat \ {0} /\ d.growthLimit \in Nat \ {0} /\ d.successStreak \in 0..K
      /\ d.lastGood \in (Nat \ {0}) \cup {-1} /\ d.waiters \in Nat
  BY <1>1, Fields DEF Good, Levels, Counts, Streaks, MaybeTimes, MaybeLevels, Absent
<1>3. streak \in Streaks /\ good \in MaybeLevels /\ cap \in Levels
  BY <1>2, CapAssumption DEF Streaks, Smaller, MaybeLevels, Levels, Absent
<1>4. good = d.cap
  BY <1>1, <1>2 DEF LevelsOf, Absent
<1>5. d.cap < d.growthLimit => cap = d.cap + 1
  BY <1>2 DEF Smaller
<1>6. CASE e # d.epoch
  <2>1. Succeeded(c, t, e) = d
    BY <1>6 DEF Succeeded, d
  <2>2. QED
    BY <1>1, <2>1
<1>7. CASE e = d.epoch /\ streak < K
  <2>1. Succeeded(c, t, e) = counted
    BY <1>7 DEF Succeeded, d
  <2> HIDE DEF streak
  <2>2. /\ counted \in Controller
        /\ counted.cap = d.cap /\ counted.growthLimit = d.growthLimit
        /\ counted.epoch = d.epoch /\ counted.lastGood = d.lastGood
        /\ counted.inFlight = d.inFlight /\ counted.cooldownUntil = d.cooldownUntil
    BY <1>1, <1>3 DEF Controller
  <2> HIDE DEF counted
  <2>3. QED
    BY <1>1, <2>1, <2>2 DEF Lawful, Good, LevelsOf
<1>8. CASE e = d.epoch /\ ~(streak < K) /\ ~MayGrow(d)
  <2>1. Succeeded(c, t, e) = proven
    BY <1>8 DEF Succeeded, d
  <2> HIDE DEF streak, good
  <2>2. /\ proven \in Controller
        /\ proven.cap = d.cap /\ proven.growthLimit = d.growthLimit
        /\ proven.epoch = d.epoch /\ proven.lastGood = good
        /\ proven.inFlight = d.inFlight /\ proven.cooldownUntil = d.cooldownUntil
    BY <1>1, <1>3 DEF Controller
  <2> HIDE DEF proven
  <2>3. QED
    BY <1>1, <1>2, <1>4, <2>1, <2>2 DEF Lawful, Good, LevelsOf
<1>9. CASE e = d.epoch /\ ~(streak < K) /\ MayGrow(d)
  <2>1. Succeeded(c, t, e) = raised
    BY <1>9 DEF Succeeded, d
  <2> HIDE DEF streak, good, cap
  <2>2. /\ raised \in Controller
        /\ raised.cap = cap /\ raised.growthLimit = d.growthLimit
        /\ raised.epoch = d.epoch /\ raised.lastGood = good
        /\ raised.inFlight = d.inFlight /\ raised.cooldownUntil = d.cooldownUntil
    BY <1>1, <1>3, Ranges DEF Controller
  <2> HIDE DEF raised
  <2>3. cap = d.cap + 1 /\ c.waiters > 0 /\ d.cap < d.growthLimit
    BY <1>1, <1>2, <1>5, <1>9 DEF MayGrow
  <2>4. LevelsOf(raised)
    BY <1>1, <1>2, <1>4, <2>2, <2>3 DEF LevelsOf
  <2>5. QED
    BY <1>1, <1>2, <1>4, <2>1, <2>2, <2>3, <2>4 DEF Lawful, Good
<1>10. QED
  BY <1>6, <1>7, <1>8, <1>9

LEMMA ThrottledLawful ==
    ASSUME NEW c, Good(c), c.inFlight > 0, NEW t \in Nat, NEW e, NEW retryAfter \in Nat
    PROVE  /\ Lawful(c, Throttled(c, t, e, retryAfter), t)
           /\ Throttled(c, t, e, retryAfter).inFlight = c.inFlight - 1
<1> DEFINE f == FailedTransient(c, t)
           until == Cooldown(f, t, retryAfter)
           d == [f EXCEPT !.lastThrottledAt = t, !.cooldownUntil = until]
           cap == CutLevel(d)
           good == IF Probing(d) THEN d.lastGood ELSE Absent
           w == [d EXCEPT !.cap = cap, !.lastBad = d.cap, !.lastGood = good, !.epoch = @ + 1]
<1>1. /\ f \in Controller /\ LevelsOf(f) /\ Lawful(c, f, t)
      /\ f.inFlight = c.inFlight - 1 /\ f.epoch = c.epoch /\ f.cap = c.cap
      /\ f.cooldownUntil = c.cooldownUntil
  BY FailedTransientLawful DEF Lawful, Good
<1> HIDE DEF f
<1>2. f.cooldownUntil \in Nat \cup {-1} /\ c.cooldownUntil \in Nat \cup {-1}
  BY <1>1, Fields DEF Good, MaybeTimes, Absent
<1>3. until \in MaybeTimes /\ until >= c.cooldownUntil /\ t \in MaybeTimes
  BY <1>1, <1>2 DEF MaybeTimes, Larger, Absent, Cooldown
<1> HIDE DEF until
<1>4. /\ d \in Controller
      /\ d.cap = c.cap /\ d.growthLimit = f.growthLimit /\ d.epoch = c.epoch
      /\ d.lastGood = f.lastGood /\ d.inFlight = c.inFlight - 1
      /\ d.cooldownUntil = until
  BY <1>1, <1>3 DEF Controller
<1>5. LevelsOf(d)
  BY <1>1, <1>4 DEF LevelsOf
<1>6. Throttled(c, t, e, retryAfter) = IF e # d.epoch THEN d ELSE w
  BY DEF Throttled, f, until
<1> HIDE DEF d
<1>7. /\ c.cap \in Nat /\ c.epoch \in Nat /\ d.epoch \in Counts
      /\ c.cooldownUntil \in Nat \cup {-1} /\ until \in Nat \cup {-1}
      /\ d.cap \in Nat \ {0} /\ d.growthLimit \in Nat \ {0}
      /\ d.lastGood \in (Nat \ {0}) \cup {-1}
  BY <1>3, <1>4, Fields DEF Good, Levels, Counts, MaybeTimes, MaybeLevels, Absent
<1>8. CASE e # d.epoch
  BY <1>3, <1>4, <1>5, <1>6, <1>7, <1>8 DEF Lawful, Good
<1>9. CASE e = d.epoch
  <2>1. /\ cap \in Levels /\ good \in MaybeLevels /\ cap <= d.cap
        /\ good # Absent => good = cap
    BY <1>7 DEF Levels, MaybeLevels, Larger, Absent, CutLevel, Probing
  <2> HIDE DEF cap, good
  <2>2. d.cap \in MaybeLevels /\ d.epoch + 1 \in Counts
    BY <1>4, <1>7, Fields, Ranges
  <2>3. /\ w \in Controller
        /\ w.cap = cap /\ w.growthLimit = d.growthLimit /\ w.epoch = d.epoch + 1
        /\ w.lastGood = good /\ w.inFlight = d.inFlight
        /\ w.cooldownUntil = d.cooldownUntil
    BY <1>4, <2>1, <2>2 DEF Controller
  <2>4. Throttled(c, t, e, retryAfter) = w
    BY <1>6, <1>9
  <2> HIDE DEF w
  <2>5. LevelsOf(w)
    BY <1>5, <1>7, <2>1, <2>3 DEF LevelsOf, Levels, Absent
  <2>6. QED
    BY <1>3, <1>4, <1>7, <2>1, <2>3, <2>4, <2>5 DEF Lawful, Good, Levels
<1>10. QED
  BY <1>8, <1>9

-----------------------------------------------------------------------------
(* The owner's settings.                                                    *)

LEMMA WithGrowthLimitLawful ==
    ASSUME NEW c, Good(c), NEW t \in Nat, NEW limit \in Nat
    PROVE  /\ Lawful(c, WithGrowthLimit(c, t, limit), t)
           /\ WithGrowthLimit(c, t, limit).inFlight = c.inFlight
<1> DEFINE i == IdleReset(c, t)
           growth == Larger(Initial, limit)
           d == [i EXCEPT !.growthLimit = growth]
           good == Smaller(d.lastGood, d.growthLimit)
           w == [d EXCEPT !.cap = d.growthLimit, !.lastGood = good,
                          !.successStreak = 0, !.epoch = @ + 1]
<1>1. i \in Controller /\ LevelsOf(i) /\ Lawful(c, i, t) /\ i.inFlight = c.inFlight
  BY IdleResetGood, IdleResetLawful DEF Good
<1> HIDE DEF i
<1>2. growth \in Levels /\ Initial <= growth
  BY CapAssumption DEF Levels, Larger
<1> HIDE DEF growth
<1>3. /\ d \in Controller
      /\ d.cap = i.cap /\ d.growthLimit = growth /\ d.epoch = i.epoch
      /\ d.lastGood = i.lastGood /\ d.inFlight = i.inFlight
      /\ d.cooldownUntil = i.cooldownUntil
  BY <1>1, <1>2 DEF Controller
<1>4. WithGrowthLimit(c, t, limit) = IF d.cap <= d.growthLimit THEN d ELSE w
  BY DEF WithGrowthLimit, i, growth
<1> HIDE DEF d
<1>5. /\ c.cap \in Nat /\ c.epoch \in Nat /\ d.epoch \in Counts
      /\ i.epoch \in Nat /\ i.cap \in Nat
      /\ d.cap \in Nat \ {0} /\ d.lastGood \in (Nat \ {0}) \cup {-1} /\ growth \in Nat \ {0}
  BY <1>1, <1>2, <1>3, Fields DEF Good, Levels, Counts, MaybeLevels, Absent
<1>6. CASE d.cap <= d.growthLimit
  <2>1. LevelsOf(d)
    BY <1>1, <1>2, <1>3, <1>6 DEF LevelsOf
  <2>2. QED
    BY <1>1, <1>3, <1>4, <1>6, <2>1 DEF Lawful, Good
<1>7. CASE ~(d.cap <= d.growthLimit)
  <2>1. /\ good \in MaybeLevels /\ good <= growth
        /\ good # Absent => good \in Nat \ {0}
        /\ d.lastGood = Absent => good = Absent
    BY <1>3, <1>5 DEF MaybeLevels, Levels, Smaller, Absent
  <2> HIDE DEF good
  <2>2. d.epoch + 1 \in Counts
    BY <1>5, Ranges
  <2>3. /\ w \in Controller
        /\ w.cap = growth /\ w.growthLimit = growth /\ w.epoch = d.epoch + 1
        /\ w.lastGood = good /\ w.inFlight = d.inFlight
        /\ w.cooldownUntil = d.cooldownUntil
    BY <1>2, <1>3, <2>1, <2>2, Ranges DEF Controller
  <2>4. WithGrowthLimit(c, t, limit) = w
    BY <1>4, <1>7
  <2> HIDE DEF w
  <2>5. LevelsOf(w)
    BY <1>2, <1>5, <2>1, <2>3 DEF LevelsOf
  <2>6. i.cap > growth
    BY <1>3, <1>5, <1>7
  <2>7. ASSUME w.cap > c.cap
        PROVE  w.epoch > c.epoch /\ w.lastGood = Absent
    <3>1. i.cap > c.cap + 1 /\ growth < i.cap
      BY <1>5, <2>3, <2>6, <2>7, <1>1, Fields DEF Levels
    <3>2. i.epoch > c.epoch /\ i.lastGood = Absent
      BY <1>1, <1>5, <3>1 DEF Lawful
    <3>3. QED
      BY <1>3, <1>5, <2>1, <2>3, <3>2
  <2>8. QED
    BY <1>1, <1>2, <1>3, <1>5, <2>1, <2>3, <2>4, <2>5, <2>6, <2>7 DEF Lawful, Good
<1>8. QED
  BY <1>6, <1>7

LEMMA SeededLawful ==
    ASSUME NEW c, Good(c), NEW t \in Nat, NEW target \in Nat
    PROVE  /\ Lawful(c, Seeded(c, t, target), t)
           /\ Seeded(c, t, target).inFlight = c.inFlight
<1> DEFINE d == IdleReset(c, t)
           next == Smaller(d.growthLimit, target)
           stays == next <= d.cap \/ (d.lastThrottledAt # Absent /\ t - d.lastThrottledAt < IdleResetMs)
           w == [d EXCEPT !.cap = next, !.lastGood = Absent, !.lastBad = Absent,
                          !.successStreak = 0, !.epoch = @ + 1]
<1>1. d \in Controller /\ LevelsOf(d) /\ Lawful(c, d, t) /\ d.inFlight = c.inFlight
  BY IdleResetGood, IdleResetLawful DEF Good
<1>2. Seeded(c, t, target) = IF stays THEN d ELSE w
  BY DEF Seeded
<1> HIDE DEF d
<1>3. /\ c.cap \in Nat /\ c.epoch \in Nat /\ d.epoch \in Counts /\ d.cap \in Nat \ {0}
      /\ d.growthLimit \in Nat \ {0}
  BY <1>1, Fields DEF Good, Levels, Counts
<1>4. CASE stays
  BY <1>1, <1>2, <1>4
<1>5. CASE ~stays
  <2>1. next \in Levels /\ next <= d.growthLimit
    BY <1>3, <1>5 DEF Levels, Smaller
  <2>2. Seeded(c, t, target) = w
    BY <1>2, <1>5
  <2>3. next > d.cap /\ next \in Nat
    BY <1>3, <1>5, <2>1 DEF Levels
  <2> HIDE DEF next
  <2>4. d.epoch + 1 \in Counts
    BY <1>3, Ranges
  <2>5. /\ w \in Controller
        /\ w.cap = next /\ w.growthLimit = d.growthLimit /\ w.epoch = d.epoch + 1
        /\ w.lastGood = Absent /\ w.inFlight = d.inFlight
        /\ w.cooldownUntil = d.cooldownUntil
    BY <1>1, <2>1, <2>4, Ranges DEF Controller
  <2> HIDE DEF w
  <2>6. LevelsOf(w)
    BY <1>1, <1>3, <2>1, <2>3, <2>5 DEF LevelsOf
  <2>7. QED
    BY <1>1, <1>3, <2>1, <2>2, <2>3, <2>5, <2>6 DEF Lawful, Good, Counts
<1>6. QED
  BY <1>4, <1>5

=============================================================================
