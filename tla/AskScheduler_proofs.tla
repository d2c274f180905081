------------------------ MODULE AskScheduler_proofs ------------------------
(***************************************************************************)
(* The safety properties of AskScheduler and its refinement of AskLedger,  *)
(* for every set of asks and actors, every script and every number of      *)
(* lives.                                                                  *)
(***************************************************************************)
EXTENDS AskScheduler, Engine_lemmas

-----------------------------------------------------------------------------
(* Ranks: a finite set whose members are numbered apart.                   *)

Rank(S, f, q) == Cardinality({p \in S : f[p] < f[q]})

LEMMA RankBelow ==
    ASSUME NEW S, IsFiniteSet(S), NEW f, \A q \in S : f[q] \in Nat
    PROVE  /\ \A q \in S : Rank(S, f, q) \in 0..(Cardinality(S) - 1)
           /\ \A p, q \in S : f[p] < f[q] => Rank(S, f, p) < Rank(S, f, q)
<1> DEFINE below(q) == {p \in S : f[p] < f[q]}
<1>1. \A q \in S : IsFiniteSet(below(q)) /\ Cardinality(below(q)) \in Nat
  BY FS_Subset, FS_CardinalityType
<1>2. ASSUME NEW T \in SUBSET S, NEW q \in S, q \in T, below(q) \subseteq T
      PROVE  Cardinality(below(q)) < Cardinality(T)
  <2>1. IsFiniteSet(T) /\ Cardinality(T) \in Nat
    BY FS_Subset, FS_CardinalityType
  <2>2. Cardinality(T \ {q}) = Cardinality(T) - 1 /\ IsFiniteSet(T \ {q})
    BY <1>2, <2>1, FS_RemoveElement
  <2>3. below(q) \subseteq T \ {q}
    BY <1>2
  <2>4. Cardinality(below(q)) <= Cardinality(T \ {q})
    BY <2>2, <2>3, FS_Subset
  <2>5. QED
    BY <1>1, <2>1, <2>2, <2>4
<1>3. ASSUME NEW q \in S PROVE Rank(S, f, q) \in 0..(Cardinality(S) - 1)
  <2>1. Cardinality(below(q)) < Cardinality(S) /\ Cardinality(S) \in Nat
    BY <1>2, FS_CardinalityType
  <2>2. QED
    BY <1>1, <2>1 DEF Rank
<1>4. ASSUME NEW p \in S, NEW q \in S, f[p] < f[q] PROVE Rank(S, f, p) < Rank(S, f, q)
  <2>1. p \in below(q) /\ below(p) \subseteq below(q)
    BY <1>4
  <2>2. QED
    BY <1>2, <2>1 DEF Rank
<1>5. QED
  BY <1>3, <1>4

LEMMA RankOnto ==
    ASSUME NEW S, IsFiniteSet(S), NEW f, \A q \in S : f[q] \in Nat,
           \A p, q \in S : f[p] = f[q] => p = q
    PROVE  /\ \A p, q \in S : Rank(S, f, p) = Rank(S, f, q) => p = q
           /\ \A i \in 0..(Cardinality(S) - 1) : \E q \in S : Rank(S, f, q) = i
<1> DEFINE N == 0..(Cardinality(S) - 1)
           r == [q \in S |-> Rank(S, f, q)]
<1>1. /\ \A q \in S : Rank(S, f, q) \in N
      /\ \A p, q \in S : f[p] < f[q] => Rank(S, f, p) < Rank(S, f, q)
  BY RankBelow
<1>2. ASSUME NEW p \in S, NEW q \in S, Rank(S, f, p) = Rank(S, f, q) PROVE p = q
  <2>1. f[p] \in Nat /\ f[q] \in Nat /\ Rank(S, f, p) \in Nat
    BY <1>1
  <2>2. ~(f[p] < f[q]) /\ ~(f[q] < f[p])
    BY <1>1, <1>2, <2>1
  <2>3. QED
    BY <2>1, <2>2
<1>3. r \in Injection(S, N)
  BY <1>1, <1>2 DEF Injection, IsInjective
<1>4. Cardinality(S) \in Nat
  BY FS_CardinalityType
<1>5. IsFiniteSet(N) /\ Cardinality(N) = Cardinality(S)
  BY <1>4, FS_Interval
<1>6. r \in Surjection(S, N)
  BY <1>3, <1>5, FS_Injection
<1>7. \A i \in N : \E q \in S : r[q] = i
  BY <1>6 DEF Surjection
<1>8. QED
  BY <1>2, <1>7

\* The later of two in the line has the larger number.
Rising(p, f) == \A i, j \in 1..Len(p) : i < j => f[p[i]] < f[p[j]]

LEMMA BySeqSorts ==
    ASSUME NEW S, IsFiniteSet(S), \A q \in S : seq[q] \in Nat,
           \A p, q \in S : seq[p] = seq[q] => p = q
    PROVE  BySeq(S) \in Seq(S) /\ Members(BySeq(S)) = S /\ Rising(BySeq(S), seq)
<1> DEFINE n == Cardinality(S)
           at(i) == CHOOSE q \in S : Cardinality({p \in S : seq[p] < seq[q]}) = i - 1
           s == [i \in 1..n |-> at(i)]
<1>1. n \in Nat
  BY FS_CardinalityType
<1>2. /\ \A q \in S : Rank(S, seq, q) \in 0..(n - 1)
      /\ \A p, q \in S : seq[p] < seq[q] => Rank(S, seq, p) < Rank(S, seq, q)
      /\ \A p, q \in S : Rank(S, seq, p) = Rank(S, seq, q) => p = q
      /\ \A i \in 0..(n - 1) : \E q \in S : Rank(S, seq, q) = i
  BY RankBelow, RankOnto
<1>3. \A i \in 1..n : at(i) \in S /\ Rank(S, seq, at(i)) = i - 1
  <2> SUFFICES ASSUME NEW i \in 1..n PROVE at(i) \in S /\ Rank(S, seq, at(i)) = i - 1
    OBVIOUS
  <2>1. i - 1 \in 0..(n - 1)
    BY <1>1
  <2>2. \E q \in S : Cardinality({p \in S : seq[p] < seq[q]}) = i - 1
    BY <1>2, <2>1 DEF Rank
  <2>3. QED
    BY <2>2, Zenon DEF Rank
<1> HIDE DEF at
<1>4. s \in Seq(S) /\ Len(s) = n
  BY <1>1, <1>3
<1>5. Members(s) = S
  <2>1. \A i \in 1..n : s[i] \in S
    BY <1>3
  <2>2. ASSUME NEW q \in S PROVE \E i \in 1..n : s[i] = q
    <3>1. PICK i \in 1..n : i = Rank(S, seq, q) + 1
      BY <1>1, <1>2
    <3>2. at(i) \in S /\ Rank(S, seq, at(i)) = Rank(S, seq, q)
      BY <1>1, <1>2, <1>3, <3>1
    <3>3. QED
      BY <1>2, <3>2
  <2>3. Members(s) = {s[i] : i \in 1..n}
    BY <1>4 DEF Members
  <2> HIDE DEF s
  <2>4. QED
    BY <2>1, <2>2, <2>3
<1>6. Rising(s, seq)
  <2> SUFFICES ASSUME NEW i \in 1..n, NEW j \in 1..n, i < j PROVE seq[at(i)] < seq[at(j)]
    BY <1>4 DEF Rising
  <2>1. Rank(S, seq, at(i)) < Rank(S, seq, at(j)) /\ at(i) \in S /\ at(j) \in S
    BY <1>1, <1>3
  <2>2. ~(seq[at(j)] < seq[at(i)]) /\ at(i) # at(j)
    BY <1>1, <1>2, <1>3, <2>1
  <2>3. QED
    BY <2>1, <2>2
<1>7. BySeq(S) = s
  BY DEF BySeq, at
<1>8. QED
  BY <1>4, <1>5, <1>6, <1>7

-----------------------------------------------------------------------------
(* The line of an actor: what it runs and what is queued behind it, for    *)
(* the statuses st and the numbers f of the asks, admitted below n.        *)

Lined(x, queue, cur, st, f, n) ==
    /\ queue \in Seq(Of(x)) /\ Rising(queue, f)
    /\ \A q \in Members(queue) : st[q] = "running" /\ f[q] < n
    /\ \/ cur = {}
       \/ \E q \in Of(x) : /\ cur = {q} /\ st[q] = "running" /\ f[q] < n
                           /\ \A p \in Members(queue) : f[q] < f[p]
    /\ \A q \in Of(x) : st[q] = "running" /\ f[q] < n => q \in cur \cup Members(queue)

LEMMA LinedTaken ==
    ASSUME NEW x, NEW queue, queue # <<>>, NEW st, NEW f, \A q \in Of(x) : f[q] \in Nat,
           NEW n \in Nat, Lined(x, queue, {}, st, f, n)
    PROVE  Lined(x, Tail(queue), {Head(queue)}, st, f, n) /\ Head(queue) \in Of(x)
<1>1. queue \in Seq(Of(x)) /\ Len(queue) \in Nat \ {0} /\ Head(queue) = queue[1]
  BY EmptySeq DEF Lined
<1>2. /\ Head(queue) \in Of(x) /\ Tail(queue) \in Seq(Of(x))
      /\ Len(Tail(queue)) = Len(queue) - 1
      /\ \A i \in 1..(Len(queue) - 1) : Tail(queue)[i] = queue[i + 1]
  BY <1>1, HeadTailProperties
<1>3. \A i \in 1..(Len(queue) - 1) : i + 1 \in 1..Len(queue)
  BY <1>1
<1>4. Rising(queue, f) /\ \A i \in 1..Len(queue) : queue[i] \in Of(x)
  BY <1>1, ElementOfSeq DEF Lined
<1>5. Rising(Tail(queue), f)
  BY <1>1, <1>2, <1>3, <1>4 DEF Rising
<1>6. Members(queue) = {Head(queue)} \cup Members(Tail(queue))
  <2>1. ASSUME NEW i \in 1..Len(queue) PROVE queue[i] \in {Head(queue)} \cup Members(Tail(queue))
    <3>1. CASE i = 1
      BY <1>1, <3>1
    <3>2. CASE i # 1
      <4>1. i - 1 \in 1..(Len(queue) - 1) /\ (i - 1) + 1 = i
        BY <1>1, <3>2
      <4>2. QED
        BY <1>2, <4>1 DEF Members
    <3>3. QED
      BY <3>1, <3>2
  <2>2. Head(queue) \in Members(queue)
    BY <1>1 DEF Members
  <2>3. Members(Tail(queue)) \subseteq Members(queue)
    BY <1>2, <1>3 DEF Members
  <2>4. QED
    BY <2>1, <2>2, <2>3 DEF Members
<1>7. \A p \in Members(Tail(queue)) : f[Head(queue)] < f[p]
  <2> SUFFICES ASSUME NEW i \in 1..(Len(queue) - 1) PROVE f[queue[1]] < f[queue[i + 1]]
    BY <1>1, <1>2 DEF Members
  <2>1. 1 \in 1..Len(queue) /\ i + 1 \in 1..Len(queue) /\ 1 < i + 1
    BY <1>1
  <2>2. QED
    BY <1>4, <2>1 DEF Rising
<1>8. QED
  BY <1>2, <1>5, <1>6, <1>7 DEF Lined

\* The heads of some idle actors are taken: as many as the bound admits, no more and no fewer.
Filled(queues, cur, bound) ==
    \E go \in SUBSET {x \in Actors : cur[x] = {} /\ queues[x] # <<>>} :
        /\ current' = [x \in Actors |-> IF x \in go THEN {Head(queues[x])} ELSE cur[x]]
        /\ liveQueue' = [x \in Actors |-> IF x \in go THEN Tail(queues[x]) ELSE queues[x]]
        /\ activeAsks' \in Nat /\ activeAsks' = Cardinality(Busy')
        /\ go # {} => activeAsks' <= bound
        /\ \A x \in Actors \ Busy' : liveQueue'[x] # <<>> => activeAsks' >= bound

LEMMA DispatchFills ==
    ASSUME NEW S \in SUBSET Actors, NEW queues, NEW cur, NEW bound \in Nat,
           NEW active \in Nat, active = Cardinality({x \in Actors : cur[x] # {}}),
           \A x \in Actors \ S : cur[x] = {} /\ queues[x] # <<>> => active >= bound,
           Dispatch(S, queues, cur, active, bound)
    PROVE  Filled(queues, cur, bound)
<1> DEFINE ready == {x \in S : cur[x] = {} /\ queues[x] # <<>>}
           go == {x \in ready : active + Cardinality({y \in ready : y < x}) < bound}
           id == [x \in ready |-> x]
           busy == {x \in Actors : cur[x] # {}}
<1>1. /\ current' = [x \in Actors |-> IF x \in go THEN {Head(queues[x])} ELSE cur[x]]
      /\ liveQueue' = [x \in Actors |-> IF x \in go THEN Tail(queues[x]) ELSE queues[x]]
      /\ activeAsks' = active + Cardinality(go)
  BY DEF Dispatch
<1>2. /\ IsFiniteSet(Actors) /\ Actors \subseteq Nat /\ ready \subseteq Actors
      /\ IsFiniteSet(ready) /\ IsFiniteSet(go) /\ IsFiniteSet(busy)
      /\ Cardinality(go) \in Nat /\ Cardinality(ready) \in Nat
  <2>1. IsFiniteSet(Actors) /\ Actors \subseteq Nat
    BY SchedulerAssumption
  <2>2. ready \subseteq Actors /\ go \subseteq Actors /\ busy \subseteq Actors
    OBVIOUS
  <2>3. IsFiniteSet(ready) /\ IsFiniteSet(go) /\ IsFiniteSet(busy)
    BY <2>1, <2>2, FS_Subset
  <2>4. QED
    BY <2>1, <2>2, <2>3, FS_CardinalityType
<1>3. \A x \in ready : {y \in ready : y < x} = {y \in ready : id[y] < id[x]}
  OBVIOUS
<1>4. go = {x \in ready : active + Rank(ready, id, x) < bound}
  BY <1>3 DEF Rank
<1>5. (\A x \in ready : id[x] \in Nat) /\ (\A x, y \in ready : id[x] = id[y] => x = y)
  BY <1>2
<1> HIDE DEF id, go, ready
<1>6. /\ \A x \in ready : Rank(ready, id, x) \in 0..(Cardinality(ready) - 1)
      /\ \A x, y \in ready : Rank(ready, id, x) = Rank(ready, id, y) => x = y
      /\ \A i \in 0..(Cardinality(ready) - 1) : \E x \in ready : Rank(ready, id, x) = i
  <2>1. /\ \A x \in ready : Rank(ready, id, x) \in 0..(Cardinality(ready) - 1)
        /\ \A x, y \in ready : id[x] < id[y] => Rank(ready, id, x) < Rank(ready, id, y)
    BY <1>2, <1>5, RankBelow, Zenon
  <2>2. /\ \A x, y \in ready : Rank(ready, id, x) = Rank(ready, id, y) => x = y
        /\ \A i \in 0..(Cardinality(ready) - 1) : \E x \in ready : Rank(ready, id, x) = i
    <3>1. IsFiniteSet(ready)
      BY <1>2
    <3>2. \A x \in ready : id[x] \in Nat
      BY <1>5
    <3>3. \A x, y \in ready : id[x] = id[y] => x = y
      BY <1>5
    <3>4. QED
      BY <3>1, <3>2, <3>3, RankOnto
  <2>3. QED
    BY <2>1, <2>2
<1> DEFINE r == [x \in go |-> Rank(ready, id, x)]
           free == 0..(bound - active - 1)
<1>7. r \in Injection(go, free)
  <2>1. \A x \in go : x \in ready /\ Rank(ready, id, x) \in free
    <3> SUFFICES ASSUME NEW x \in go PROVE x \in ready /\ Rank(ready, id, x) \in free
      OBVIOUS
    <3>1. x \in ready /\ active + Rank(ready, id, x) < bound
      BY <1>4
    <3>2. QED
      BY <1>6, <3>1
  <2>2. QED
    BY <1>6, <2>1 DEF Injection, IsInjective
<1>8. IsFiniteSet(free) /\ Cardinality(free) = IF 0 > bound - active - 1 THEN 0 ELSE bound - active
  <2>1. bound - active - 1 \in Int
    OBVIOUS
  <2> DEFINE top == bound - active - 1
  <2> HIDE DEF top
  <2>2. top \in Int
    BY <2>1 DEF top
  <2>3. IsFiniteSet(0..top) /\ Cardinality(0..top) = IF 0 > top THEN 0 ELSE top - 0 + 1
    BY <2>2, FS_Interval
  <2>4. QED
    BY <2>2, <2>3 DEF top
<1>9. Cardinality(go) <= Cardinality(free)
  BY <1>7, <1>8, FS_Injection
<1>10. go # {} => active + Cardinality(go) <= bound
  <2> SUFFICES ASSUME go # {} PROVE active + Cardinality(go) <= bound
    OBVIOUS
  <2>1. Cardinality(go) # 0
    BY <1>2, FS_EmptySet
  <2>2. QED
    BY <1>2, <1>8, <1>9, <2>1
<1>11. ASSUME NEW x \in ready, x \notin go PROVE active + Cardinality(go) >= bound
  <2>1. active + Rank(ready, id, x) >= bound /\ Rank(ready, id, x) \in 0..(Cardinality(ready) - 1)
    BY <1>4, <1>6, <1>11
  <2>2. ASSUME NEW i \in free PROVE \E y \in go : r[y] = i
    <3>1. i \in 0..(Cardinality(ready) - 1)
      BY <1>2, <2>1
    <3>2. PICK y \in ready : Rank(ready, id, y) = i
      BY <1>6, <3>1
    <3>3. active + i < bound
      OBVIOUS
    <3>4. y \in go
      BY <1>4, <3>2, <3>3
    <3>5. QED
      BY <3>2, <3>4
  <2>3. r \in [go -> free]
    BY <1>7 DEF Injection
  <2>4. r \in Surjection(go, free)
    BY <2>2, <2>3 DEF Surjection
  <2>5. Cardinality(free) <= Cardinality(go)
    BY <1>2, <2>4, FS_Surjection
  <2>6. QED
    BY <1>2, <1>8, <2>5
<1>12. go \subseteq ready
  BY <1>4
<1>13. Busy' = busy \cup go /\ busy \cap go = {}
  <2>1. go \cap busy = {} /\ go \subseteq Actors
    BY <1>12 DEF ready
  <2>2. QED
    BY <1>1, <2>1 DEF Busy
<1>14. activeAsks' = Cardinality(Busy')
  <2>1. Cardinality(busy \cup go) = Cardinality(busy) + Cardinality(go) - Cardinality(busy \cap go)
    BY <1>2, FS_Union
  <2>2. Cardinality(busy \cap go) = 0
    BY <1>13, FS_EmptySet
  <2>3. QED
    BY <1>1, <1>2, <1>13, <2>1, <2>2
<1>15. ASSUME NEW x \in Actors \ Busy', liveQueue'[x] # <<>> PROVE activeAsks' >= bound
  <2>1. x \notin go /\ cur[x] = {} /\ queues[x] # <<>>
    BY <1>1, <1>13, <1>15
  <2>2. CASE x \in S
    BY <1>1, <1>11, <2>1, <2>2 DEF ready
  <2>3. CASE x \notin S
    BY <1>1, <1>2, <2>1, <2>3
  <2>4. QED
    BY <2>2, <2>3
<1>16. activeAsks' \in Nat /\ (go # {} => activeAsks' <= bound)
  BY <1>1, <1>2, <1>10
<1>17. go \in SUBSET {x \in Actors : cur[x] = {} /\ queues[x] # <<>>}
  BY <1>12 DEF ready
<1>18. QED
  BY <1>1, <1>14, <1>15, <1>16, <1>17 DEF Filled

\* The lines and the account of capacity after a dispatch.
Served(cur, bound, st, f, n) ==
    /\ \A x \in Actors : Lined(x, liveQueue'[x], current'[x], st, f, n[x])
    /\ liveQueue' \in [Actors -> Seq(Asks)] /\ current' \in [Actors -> SUBSET Asks]
    /\ activeAsks' \in Nat /\ activeAsks' = Cardinality(Busy')
    /\ \A x \in Actors \ Busy' : liveQueue'[x] # <<>> => activeAsks' >= bound
    /\ \A x \in Actors : cur[x] # {} => current'[x] = cur[x]
    /\ (\E x \in Actors : current'[x] \notin {{}, cur[x]}) => activeAsks' <= bound

\* A dispatch keeps the lines, and with them the account of capacity.
LEMMA Dispatched ==
    ASSUME NEW S \in SUBSET Actors, NEW queues, NEW cur, NEW bound \in Nat,
           NEW st, NEW f, \A q \in Asks : f[q] \in Nat,
           NEW n, \A x \in Actors : n[x] \in Nat,
           \A x \in Actors : Lined(x, queues[x], cur[x], st, f, n[x]),
           NEW active \in Nat, active = Cardinality({x \in Actors : cur[x] # {}}),
           \A x \in Actors \ S : cur[x] = {} /\ queues[x] # <<>> => active >= bound,
           Dispatch(S, queues, cur, active, bound)
    PROVE  Served(cur, bound, st, f, n)
<1>1. PICK go \in SUBSET {x \in Actors : cur[x] = {} /\ queues[x] # <<>>} :
          /\ current' = [x \in Actors |-> IF x \in go THEN {Head(queues[x])} ELSE cur[x]]
          /\ liveQueue' = [x \in Actors |-> IF x \in go THEN Tail(queues[x]) ELSE queues[x]]
          /\ activeAsks' \in Nat /\ activeAsks' = Cardinality(Busy')
          /\ go # {} => activeAsks' <= bound
          /\ \A x \in Actors \ Busy' : liveQueue'[x] # <<>> => activeAsks' >= bound
  <2>1. Filled(queues, cur, bound)
    BY DispatchFills
  <2>2. QED
    BY <2>1, Zenon DEF Filled
<1>2. ASSUME NEW x \in Actors PROVE Lined(x, liveQueue'[x], current'[x], st, f, n[x])
  <2>1. CASE x \in go
    <3>1. cur[x] = {} /\ queues[x] # <<>> /\ \A q \in Of(x) : f[q] \in Nat
      BY <2>1 DEF Of
    <3>2. Lined(x, Tail(queues[x]), {Head(queues[x])}, st, f, n[x])
      BY <3>1, LinedTaken
    <3>3. QED
      BY <1>1, <2>1, <3>2
  <2>2. CASE x \notin go
    BY <1>1, <2>2
  <2>3. QED
    BY <2>1, <2>2
<1>3. ASSUME NEW x \in Actors PROVE liveQueue'[x] \in Seq(Asks) /\ current'[x] \in SUBSET Asks
  <2>1. liveQueue'[x] \in Seq(Of(x)) /\ current'[x] \subseteq Of(x) /\ Of(x) \subseteq Asks
    <3>1. Lined(x, liveQueue'[x], current'[x], st, f, n[x])
      BY <1>2
    <3> HIDE DEF Lined
    <3>2. liveQueue'[x] \in Seq(Of(x))
      BY <3>1 DEF Lined
    <3>3. current'[x] = {} \/ \E q \in Of(x) : current'[x] = {q}
      BY <3>1, Zenon DEF Lined
    <3>4. QED
      BY <3>2, <3>3 DEF Of
  <2>2. QED
    BY <2>1, SeqMonotonic
<1>4. liveQueue' \in [Actors -> Seq(Asks)] /\ current' \in [Actors -> SUBSET Asks]
  BY <1>1, <1>3
<1>5. \A x \in Actors : cur[x] # {} => current'[x] = cur[x]
  BY <1>1
<1>6. (\E x \in Actors : current'[x] \notin {{}, cur[x]}) => activeAsks' <= bound
  BY <1>1
<1>7. QED
  BY <1>1, <1>2, <1>4, <1>5, <1>6 DEF Served

-----------------------------------------------------------------------------
(* Admission.                                                              *)

\* The rows of an actor.
Rows(x) == Of(x) \cap Recorded

LEMMA RowsApart ==
    ASSUME TypeOK, RowsInSequence, NEW x \in Actors
    PROVE  /\ IsFiniteSet(Rows(x)) /\ Cardinality(Rows(x)) \in Nat
           /\ {seq[q] : q \in Rows(x)} = 0..(Cardinality(Rows(x)) - 1)
           /\ \A p, q \in Rows(x) : seq[p] = seq[q] => p = q
<1> DEFINE R == Rows(x)
           k == Cardinality(R)
           N == {seq[q] : q \in R}
           g == [q \in R |-> seq[q]]
<1>1. IsFiniteSet(R) /\ k \in Nat
  BY SchedulerAssumption, FS_Subset, FS_CardinalityType DEF Rows, Of
<1>2. N = 0..(k - 1)
  BY DEF RowsInSequence, Rows
<1>3. Cardinality(N) = k
  <2> DEFINE top == k - 1
  <2> HIDE DEF top
  <2>1. top \in Int
    BY <1>1 DEF top
  <2>2. Cardinality(0..top) = IF 0 > top THEN 0 ELSE top - 0 + 1
    BY <2>1, FS_Interval
  <2>3. N = 0..top
    BY <1>2 DEF top
  <2> HIDE DEF N
  <2>4. QED
    BY <1>1, <2>1, <2>2, <2>3 DEF top
<1>4. g \in Surjection(R, N)
  BY DEF Surjection
<1>5. g \in Injection(R, N)
  BY <1>1, <1>3, <1>4, FS_Surjection
<1>6. \A p, q \in R : seq[p] = seq[q] => p = q
  BY <1>5 DEF Injection, IsInjective
<1>7. QED
  BY <1>1, <1>2, <1>6

\* The first number from on that none of mine has, as drainAdmission finds it.
NextFree(mine, from) ==
    CHOOSE n \in from..(from + Cardinality(mine)) :
        /\ \A i \in from..(n - 1) : \E q \in mine : seq[q] = i
        /\ \A q \in mine : seq[q] # n

LEMMA NextFound ==
    ASSUME NEW mine, IsFiniteSet(mine), NEW from \in Nat, \A q \in mine : seq[q] \in Nat
    PROVE  /\ NextFree(mine, from) \in Nat /\ NextFree(mine, from) >= from
           /\ \A i \in from..(NextFree(mine, from) - 1) : \E q \in mine : seq[q] = i
           /\ \A q \in mine : seq[q] # NextFree(mine, from)
<1> DEFINE k == Cardinality(mine)
           W == from..(from + k)
           Free == {n \in W : \A q \in mine : seq[q] # n}
           P(n) == /\ \A i \in from..(n - 1) : \E q \in mine : seq[q] = i
                   /\ \A q \in mine : seq[q] # n
<1>1. k \in Nat
  BY FS_CardinalityType
<1>2. IsFiniteSet(W) /\ Cardinality(W) = k + 1
  <2> DEFINE top == from + k
  <2> HIDE DEF top, k
  <2>1. top \in Int
    BY <1>1 DEF top
  <2>2. IsFiniteSet(from..top) /\ Cardinality(from..top) = IF from > top THEN 0 ELSE top - from + 1
    BY <2>1, FS_Interval
  <2>3. QED
    BY <1>1, <2>1, <2>2 DEF top
<1>3. Free # {}
  <2> SUFFICES ASSUME Free = {} PROVE FALSE
    OBVIOUS
  <2> DEFINE g == [i \in W |-> CHOOSE q \in mine : seq[q] = i]
  <2>1. \A i \in W : g[i] \in mine /\ seq[g[i]] = i
    <3> SUFFICES ASSUME NEW i \in W PROVE g[i] \in mine /\ seq[g[i]] = i
      OBVIOUS
    <3>1. \E q \in mine : seq[q] = i
      OBVIOUS
    <3>2. g[i] = CHOOSE q \in mine : seq[q] = i
      OBVIOUS
    <3>3. QED
      BY <3>1, <3>2, Zenon
  <2>2. g \in [W -> mine]
    BY <2>1
  <2> HIDE DEF W, g
  <2>3. \E i, j \in W : i # j /\ g[i] = g[j]
    <3>1. Cardinality(mine) < Cardinality(W)
      BY <1>1, <1>2
    <3>2. QED
      BY <1>2, <2>2, <3>1, FS_PigeonHole
  <2>4. QED
    BY <2>1, <2>3
<1>4. PICK n \in Free : \A m \in Free : n <= m
  <2>1. Free \subseteq Nat
    BY <1>1
  <2>2. QED
    BY <1>3, <2>1, LeastOf
<1>5. n \in W /\ P(n)
  <2>1. n \in W /\ \A q \in mine : seq[q] # n
    OBVIOUS
  <2>2. ASSUME NEW i \in from..(n - 1) PROVE \E q \in mine : seq[q] = i
    <3>1. i \in W /\ ~(n <= i)
      BY <1>1, <2>1
    <3>2. i \notin Free
      BY <1>4, <3>1
    <3>3. QED
      BY <3>1, <3>2
  <2>3. QED
    BY <2>1, <2>2
<1> DEFINE m == NextFree(mine, from)
<1>6. m \in W /\ P(m)
  <2>1. m = CHOOSE i \in W : P(i)
    BY DEF NextFree
  <2> HIDE DEF P, W, m, Free
  <2>2. QED
    BY <1>5, <2>1, Zenon
<1>7. QED
  BY <1>1, <1>6

\* How far the admission of an actor has come.
Admits(x) ==
    /\ nextAdmitSeq[x] <= Cardinality(Rows(x))
    /\ IF nextAdmitSeq[x] < recordedCount[x] THEN recordedCount[x] = Cardinality(Rows(x))
                                             ELSE nextAdmitSeq[x] = Cardinality(Rows(x))
    /\ \A q \in Rows(x) : seq[q] < nextAdmitSeq[x] => q \in asked
    /\ \A q \in pendingRecorded \cap Of(x) :
           q \in Recorded /\ q \in asked /\ seq[q] >= nextAdmitSeq[x]
    /\ Distinct(pendingLive[x])
    /\ \A q \in Members(pendingLive[x]) : q \in Of(x) \ Recorded /\ q \in asked

\* The arguments admitAsk gives to drainAdmission.
Drainable(x, recorded, fresh) ==
    /\ recorded \subseteq Asks
    /\ \A q \in recorded \cap Of(x) : q \in Recorded /\ seq[q] >= nextAdmitSeq[x]
    /\ fresh \in Seq(Asks) /\ Distinct(fresh) /\ Members(fresh) \subseteq Of(x) \ Recorded

\* What a drain does: it releases the rows up to n and then admits fresh asks, all or none.
Drained(x, recorded, fresh, n, released, admitted) ==
    /\ n \in Nat /\ nextAdmitSeq[x] <= n /\ n <= Cardinality(Rows(x))
    /\ released = {q \in Rows(x) : nextAdmitSeq[x] <= seq[q] /\ seq[q] < n}
    /\ released \subseteq recorded
    /\ IF n < recordedCount[x] THEN admitted = <<>>
                               ELSE n = Cardinality(Rows(x)) /\ admitted = fresh
    /\ status' = [q \in Asks |-> IF q \in Members(admitted) THEN "running" ELSE status[q]]
    /\ seq' \in [Asks -> Nat]
    /\ \A i \in 1..Len(admitted) : seq'[admitted[i]] = n - 1 + i
    /\ \A q \in Asks \ Members(admitted) : seq'[q] = seq[q]
    /\ nextAdmitSeq' = [nextAdmitSeq EXCEPT ![x] = n + Len(admitted)]
    /\ pendingRecorded' = recorded \ released
    /\ pendingLive' = [pendingLive EXCEPT ![x] = IF admitted = fresh THEN <<>> ELSE fresh]
    /\ held' \subseteq held \cup released
    /\ repairs' \in [Asks -> 0..RepairAttempts] /\ nudges' \in [Asks -> 0..NudgeAttempts]

\* The lines before the dispatch that ends the drain.
Extended(x, released, admitted) ==
    [liveQueue EXCEPT ![x] = @ \o BySeq({q \in released : status[q] = "running"}) \o admitted]

LEMMA DrainYields ==
    ASSUME TypeOK, RowsInSequence, NEW x \in Actors, Admits(x), NEW recorded, NEW fresh,
           Drainable(x, recorded, fresh), NEW pumped, Drain(x, recorded, fresh, pumped)
    PROVE  \E n, released, admitted :
               /\ Drained(x, recorded, fresh, n, released, admitted)
               /\ Dispatch(pumped, Extended(x, released, admitted), current, activeAsks, cap)
<1> DEFINE mine == {q \in recorded : ActorOf[q] = x}
           from == nextAdmitSeq[x]
           n == NextFree(mine, from)
           released == {q \in mine : seq[q] < n}
           rerun == {q \in released : status[q] = "running"}
           admitted == IF n >= recordedCount[x] THEN fresh ELSE <<>>
           new == {admitted[i] : i \in 1..Len(admitted)}
           live == rerun \cup new
           k == Cardinality(Rows(x))
<1>1. /\ status' = [q \in Asks |-> IF q \in live THEN "running" ELSE status[q]]
      /\ seq' = [q \in Asks |-> IF \E i \in 1..Len(admitted) : admitted[i] = q
                                THEN n - 1 + CHOOSE i \in 1..Len(admitted) : admitted[i] = q
                                ELSE seq[q]]
      /\ nextAdmitSeq' = [nextAdmitSeq EXCEPT ![x] = n + Len(admitted)]
      /\ pendingRecorded' = recorded \ released
      /\ pendingLive' = [pendingLive EXCEPT ![x] = IF admitted = fresh THEN <<>> ELSE fresh]
      /\ held' = held \cup (released \ rerun)
      /\ repairs' = [q \in Asks |-> IF q \in live THEN RepairAttempts ELSE repairs[q]]
      /\ nudges' = [q \in Asks |-> IF q \in live THEN NudgeAttempts ELSE nudges[q]]
      /\ Dispatch(pumped, [liveQueue EXCEPT ![x] = @ \o BySeq(rerun) \o admitted], current,
                  activeAsks, cap)
  BY DEF Drain, NextFree
<1>2. /\ mine \subseteq Rows(x) /\ IsFiniteSet(mine) /\ from \in Nat /\ k \in Nat
      /\ \A q \in mine : seq[q] \in Nat /\ seq[q] >= from
      /\ from <= k /\ recordedCount[x] \in Nat
  <2>1. IsFiniteSet(Rows(x)) /\ k \in Nat
    BY RowsApart
  <2>2. mine \subseteq Rows(x)
    BY DEF Drainable, Rows, Of
  <2>3. \A q \in mine : seq[q] \in Nat /\ seq[q] >= from
    BY DEF Drainable, Of, TypeOK
  <2>4. QED
    BY <2>1, <2>2, <2>3, FS_Subset DEF TypeOK, Admits
<1>3. /\ n \in Nat /\ n >= from
      /\ \A i \in from..(n - 1) : \E q \in mine : seq[q] = i
  BY <1>2, NextFound
<1>4. \A q \in Rows(x) : seq[q] \in 0..(k - 1)
  BY RowsApart
<1> HIDE DEF n, k, from, mine
<1>5. n <= k
  <2> SUFFICES ASSUME n > k PROVE FALSE
    BY <1>2, <1>3
  <2>1. n - 1 \in from..(n - 1) /\ n - 1 >= k
    BY <1>2, <1>3
  <2>2. PICK q \in mine : seq[q] = n - 1
    BY <1>3, <2>1
  <2>3. QED
    BY <1>2, <1>4, <2>1, <2>2
<1>6. released = {q \in Rows(x) : from <= seq[q] /\ seq[q] < n}
  <2>1. ASSUME NEW q \in Rows(x), from <= seq[q], seq[q] < n PROVE q \in mine
    <3>1. seq[q] \in from..(n - 1)
      BY <1>2, <1>3, <1>4, <2>1
    <3>2. PICK p \in mine : seq[p] = seq[q]
      BY <1>3, <3>1
    <3>3. p = q
      BY <1>2, <3>2, RowsApart
    <3>4. QED
      BY <3>3
  <2>2. QED
    BY <1>2, <2>1
<1>7. n >= recordedCount[x] => n = k
  BY <1>2, <1>3, <1>5 DEF Admits, k, from
<1>8. /\ admitted \in Seq(Asks) /\ Distinct(admitted) /\ Len(admitted) \in Nat
      /\ new = Members(admitted) /\ Members(admitted) \subseteq Of(x) \ Recorded
  <2>1. <<>> \in Seq(Asks) /\ Distinct(<<>>) /\ Members(<<>>) = {}
    BY DEF Distinct, Members
  <2>2. admitted \in Seq(Asks) /\ Distinct(admitted) /\ Members(admitted) \subseteq Of(x) \ Recorded
    BY <2>1 DEF Drainable
  <2>3. QED
    BY <2>2, LenProperties DEF Members
<1> HIDE DEF admitted
<1>9. status' = [q \in Asks |-> IF q \in Members(admitted) THEN "running" ELSE status[q]]
  BY <1>1, <1>8
<1>10. /\ \A i \in 1..Len(admitted) : seq'[admitted[i]] = n - 1 + i
       /\ \A q \in Asks \ Members(admitted) : seq'[q] = seq[q]
  <2>1. ASSUME NEW i \in 1..Len(admitted) PROVE seq'[admitted[i]] = n - 1 + i
    <3>1. admitted[i] \in Asks
      BY <1>8, ElementOfSeq
    <3>2. (CHOOSE j \in 1..Len(admitted) : admitted[j] = admitted[i]) = i
      BY <1>8 DEF Distinct
    <3>3. QED
      BY <1>1, <3>1, <3>2
  <2>2. ASSUME NEW q \in Asks \ Members(admitted) PROVE seq'[q] = seq[q]
    <3>1. ~ \E i \in 1..Len(admitted) : admitted[i] = q
      BY DEF Members
    <3>2. QED
      BY <1>1, <3>1
  <2>3. QED
    BY <2>1, <2>2
<1>11. seq' \in [Asks -> Nat]
  <2>1. ASSUME NEW q \in Asks PROVE seq'[q] \in Nat
    <3>1. CASE q \in Members(admitted)
      <4>1. PICK i \in 1..Len(admitted) : q = admitted[i]
        BY <3>1 DEF Members
      <4>2. seq'[q] = n - 1 + i
        BY <1>10, <4>1
      <4>3. QED
        BY <1>3, <1>8, <4>2
    <3>2. CASE q \notin Members(admitted)
      BY <1>10, <3>2 DEF TypeOK
    <3>3. QED
      BY <3>1, <3>2
  <2>2. QED
    BY <1>1, <2>1
<1>12. repairs' \in [Asks -> 0..RepairAttempts] /\ nudges' \in [Asks -> 0..NudgeAttempts]
  <2>1. RepairAttempts \in 0..RepairAttempts /\ NudgeAttempts \in 0..NudgeAttempts
    BY SchedulerAssumption
  <2>2. QED
    BY <1>1, <2>1 DEF TypeOK
<1>13. IF n < recordedCount[x] THEN admitted = <<>>
                              ELSE n = Cardinality(Rows(x)) /\ admitted = fresh
  BY <1>2, <1>3, <1>7 DEF admitted, k
<1>14. Dispatch(pumped, Extended(x, released, admitted), current, activeAsks, cap)
  BY <1>1 DEF Extended
<1>15. Drained(x, recorded, fresh, n, released, admitted)
  <2>1. released \subseteq recorded /\ held' \subseteq held \cup released
    BY <1>1 DEF mine
  <2>2. n \in Nat /\ from <= n /\ n <= k
    BY <1>2, <1>3, <1>5
  <2> HIDE DEF released
  <2>3. QED
    BY <1>1, <1>6, <1>9, <1>10, <1>11, <1>12, <1>13, <2>1, <2>2 DEF Drained, from, k
<1>16. QED
  BY <1>14, <1>15

\* What a drain makes of the rows: those of x grow at the end by the asks it admits.
LEMMA DrainRows ==
    ASSUME TypeOK, RowsInSequence, NEW x \in Actors, NEW recorded, NEW fresh,
           Drainable(x, recorded, fresh), NEW n, NEW released, NEW admitted,
           Drained(x, recorded, fresh, n, released, admitted)
    PROVE  /\ status' \in [Asks -> {"none", "running", "completed", "failed"}]
           /\ admitted \in Seq(Asks) /\ Distinct(admitted) /\ Len(admitted) \in Nat
           /\ Members(admitted) \subseteq Of(x) \ Recorded
           /\ Rows(x)' = Rows(x) \cup Members(admitted)
           /\ \A y \in Actors \ {x} : Rows(y)' = Rows(y)
           /\ Cardinality(Rows(x)') = Cardinality(Rows(x)) + Len(admitted)
           /\ n + Len(admitted) <= Cardinality(Rows(x)')
           /\ Settled' = Settled /\ Recorded' = Recorded \cup Members(admitted)
           /\ RowsInSequence'
<1> DEFINE k == Cardinality(Rows(x))
           l == Len(admitted)
<1>1. /\ admitted \in Seq(Asks) /\ Distinct(admitted) /\ l \in Nat
      /\ Members(admitted) \subseteq Of(x) \ Recorded
  <2>1. <<>> \in Seq(Asks) /\ Distinct(<<>>) /\ Members(<<>>) = {}
    BY DEF Distinct, Members
  <2>2. admitted = <<>> \/ admitted = fresh
    BY DEF Drained
  <2>3. QED
    BY <2>1, <2>2, LenProperties DEF Drainable
<1>2. /\ status' = [q \in Asks |-> IF q \in Members(admitted) THEN "running" ELSE status[q]]
      /\ \A i \in 1..l : seq'[admitted[i]] = n - 1 + i
      /\ \A q \in Asks \ Members(admitted) : seq'[q] = seq[q]
      /\ n \in Nat /\ n <= k
      /\ l # 0 => n = k
  BY <1>1 DEF Drained
<1>3. status' \in [Asks -> {"none", "running", "completed", "failed"}]
  BY <1>2 DEF TypeOK
<1>4. Settled' = Settled /\ Recorded' = Recorded \cup Members(admitted)
  BY <1>1, <1>2 DEF Settled, Recorded, Of, TypeOK
<1>5. Rows(x)' = Rows(x) \cup Members(admitted) /\ Of(x)' = Of(x)
  BY <1>1, <1>4 DEF Rows, Of
<1>6. ASSUME NEW y \in Actors \ {x} PROVE Rows(y)' = Rows(y)
  BY <1>1, <1>4 DEF Rows, Of
<1>7. IsFiniteSet(Rows(x)) /\ k \in Nat /\ {seq[q] : q \in Rows(x)} = 0..(k - 1)
  BY RowsApart
<1>8. Cardinality(Members(admitted)) = l /\ IsFiniteSet(Members(admitted))
  <2>1. admitted \in Bijection(1..l, Members(admitted))
    <3>1. admitted \in [1..l -> Members(admitted)]
      BY <1>1, LenProperties DEF Members
    <3>2. QED
      BY <1>1, <3>1 DEF Distinct, Members, Bijection, Injection, Surjection, IsInjective
  <2>2. QED
    BY <1>1, <2>1, FS_NatBijection, FS_CountingElements DEF ExistsBijection
<1>9. Cardinality(Rows(x)') = k + l
  <2>1. Rows(x) \cap Members(admitted) = {}
    BY <1>1 DEF Rows
  <2>2. QED
    <3>1. Cardinality(Rows(x) \cup Members(admitted)) =
              k + l - Cardinality(Rows(x) \cap Members(admitted))
      BY <1>7, <1>8, FS_Union
    <3>2. Cardinality(Rows(x) \cap Members(admitted)) = 0
      BY <2>1, FS_EmptySet
    <3>3. QED
      BY <1>1, <1>5, <1>7, <3>1, <3>2
<1>10. n + l <= k + l
  BY <1>1, <1>2, <1>7
<1>11. {seq'[q] : q \in Rows(x)'} = 0..(Cardinality(Rows(x)') - 1)
  <2>1. \A q \in Rows(x) : seq'[q] = seq[q] /\ seq[q] \in 0..(k - 1)
    BY <1>1, <1>2, <1>7 DEF Rows, Of
  <2>2. ASSUME NEW q \in Rows(x)' PROVE seq'[q] \in 0..(k + l - 1)
    <3>1. CASE q \in Rows(x)
      BY <1>1, <1>7, <2>1, <3>1
    <3>2. CASE q \in Members(admitted)
      <4>1. PICK i \in 1..l : q = admitted[i]
        BY <3>2 DEF Members
      <4>2. seq'[q] = n - 1 + i /\ l # 0
        BY <1>1, <1>2, <4>1
      <4>3. QED
        BY <1>1, <1>2, <1>7, <4>2
    <3>3. QED
      BY <1>5, <3>1, <3>2
  <2>3. ASSUME NEW i \in 0..(k + l - 1) PROVE \E q \in Rows(x)' : seq'[q] = i
    <3>1. CASE i < k
      <4>1. i \in 0..(k - 1)
        BY <1>7, <3>1
      <4>2. PICK q \in Rows(x) : seq[q] = i
        BY <1>7, <4>1
      <4>3. QED
        BY <1>5, <2>1, <4>2
    <3>2. CASE i >= k
      <4>1. i - k + 1 \in 1..l /\ l # 0
        BY <1>1, <1>7, <3>2
      <4>2. seq'[admitted[i - k + 1]] = i /\ admitted[i - k + 1] \in Members(admitted)
        BY <1>2, <1>7, <4>1 DEF Members
      <4>3. QED
        BY <1>5, <4>2
    <3>3. QED
      BY <1>7, <3>1, <3>2
  <2> DEFINE c == Cardinality(Rows(x)')
  <2>4. c = k + l
    BY <1>9
  <2>5. \A i : i \in 0..(c - 1) <=> i \in 0..(k + l - 1)
    <3>1. k \in Nat /\ l \in Nat
      BY <1>1, <1>7
    <3> HIDE DEF c, k, l
    <3>2. QED
      BY <2>4, <3>1
  <2> HIDE DEF c, k, l
  <2>6. \A i : i \in {seq'[q] : q \in Rows(x)'} <=> i \in 0..(c - 1)
    BY <2>2, <2>3, <2>5
  <2>7. {seq'[q] : q \in Rows(x)'} = 0..(c - 1)
    BY <2>6
  <2>8. QED
    BY <2>7 DEF c
<1>12. RowsInSequence'
  <2> SUFFICES ASSUME NEW y \in Actors
               PROVE  {seq'[q] : q \in Rows(y)'} = 0..(Cardinality(Rows(y)') - 1)
    BY DEF RowsInSequence, Rows
  <2>1. CASE y = x
    <3>1. {seq'[q] : q \in Rows(x)'} = 0..(Cardinality(Rows(x)') - 1)
      BY <1>11
    <3>2. Rows(y)' = Rows(x)'
      BY <2>1
    <3>3. QED
      BY <3>1, <3>2
  <2>2. CASE y # x
    <3>1. \A q \in Rows(y) : seq'[q] = seq[q]
      BY <1>1, <1>2, <2>2 DEF Rows, Of
    <3>2. {seq[q] : q \in Rows(y)} = 0..(Cardinality(Rows(y)) - 1)
      BY RowsApart
    <3>3. QED
      BY <1>6, <2>2, <3>1, <3>2
  <2>3. QED
    BY <2>1, <2>2
<1>13. QED
  BY <1>1, <1>3, <1>4, <1>5, <1>6, <1>9, <1>10, <1>12

\* The admission of every actor after an ask has been made.
LEMMA DrainAdmits ==
    ASSUME TypeOK, RowsInSequence, \A y \in Actors : Admits(y), NEW x \in Actors,
           NEW recorded, NEW fresh, Drainable(x, recorded, fresh),
           NEW n, NEW released, NEW admitted,
           Drained(x, recorded, fresh, n, released, admitted),
           recorded \ Of(x) \subseteq pendingRecorded, asked \subseteq asked',
           recorded \cap Of(x) \subseteq asked', Members(fresh) \subseteq asked',
           recordedCount' = recordedCount
    PROVE  \A y \in Actors : Admits(y)'
<1> DEFINE k == Cardinality(Rows(x))
           l == Len(admitted)
<1>1. /\ admitted \in Seq(Asks) /\ Distinct(admitted) /\ l \in Nat
      /\ Members(admitted) \subseteq Of(x) \ Recorded
      /\ Rows(x)' = Rows(x) \cup Members(admitted)
      /\ \A y \in Actors \ {x} : Rows(y)' = Rows(y)
      /\ Cardinality(Rows(x)') = k + l
      /\ Recorded' = Recorded \cup Members(admitted)
  BY DrainRows
<1>2. /\ n \in Nat /\ nextAdmitSeq[x] <= n /\ n <= k
      /\ released = {q \in Rows(x) : nextAdmitSeq[x] <= seq[q] /\ seq[q] < n}
      /\ released \subseteq recorded
      /\ IF n < recordedCount[x] THEN admitted = <<>> ELSE n = k /\ admitted = fresh
      /\ \A q \in Asks \ Members(admitted) : seq'[q] = seq[q]
      /\ pendingRecorded' = recorded \ released
      /\ nextAdmitSeq' = [nextAdmitSeq EXCEPT ![x] = n + l]
      /\ pendingLive' = [pendingLive EXCEPT ![x] = IF admitted = fresh THEN <<>> ELSE fresh]
  BY DEF Drained
<1>3. /\ nextAdmitSeq'[x] = n + l /\ \A y \in Actors \ {x} : nextAdmitSeq'[y] = nextAdmitSeq[y]
      /\ pendingLive'[x] = IF admitted = fresh THEN <<>> ELSE fresh
      /\ \A y \in Actors \ {x} : pendingLive'[y] = pendingLive[y]
      /\ nextAdmitSeq[x] \in Nat /\ recordedCount[x] \in Nat
  BY <1>2 DEF TypeOK
<1>4. k \in Nat /\ \A q \in Rows(x) : seq[q] \in Nat /\ seq[q] < k
  <2>1. k \in Nat /\ \A q \in Rows(x) : seq[q] \in 0..(k - 1)
    BY RowsApart
  <2>2. QED
    BY <2>1
<1>5. \A q \in Rows(x) : seq'[q] = seq[q]
  BY <1>1, <1>2 DEF Rows, Of
<1>6. l = 0 \/ n = k
  BY <1>1, <1>2
<1>7. Of(x)' = Of(x) /\ Of(x) \subseteq Asks
  BY DEF Of
<1> HIDE DEF k, l
<1>8. Admits(x)'
  <2>1. nextAdmitSeq'[x] <= Cardinality(Rows(x)')
    BY <1>1, <1>2, <1>3, <1>4
  <2>2. IF nextAdmitSeq'[x] < recordedCount'[x]
        THEN recordedCount'[x] = Cardinality(Rows(x)') ELSE nextAdmitSeq'[x] = Cardinality(Rows(x)')
    <3>1. CASE n < recordedCount[x]
      <4>1. recordedCount[x] = k
        BY <1>2, <1>3, <1>4, <3>1 DEF Admits, k
      <4>2. l = 0
        BY <1>2, <3>1 DEF l
      <4>3. QED
        BY <1>1, <1>2, <1>3, <1>4, <3>1, <4>1, <4>2
    <3>2. CASE ~(n < recordedCount[x])
      BY <1>1, <1>2, <1>3, <1>4, <3>2
    <3>3. QED
      BY <3>1, <3>2
  <2>3. ASSUME NEW q \in Rows(x)', seq'[q] < nextAdmitSeq'[x] PROVE q \in asked'
    <3>1. CASE q \in Members(admitted)
      <4>1. admitted = fresh
        BY <1>2, <3>1 DEF Members
      <4>2. QED
        BY <3>1, <4>1
    <3>2. CASE q \in Rows(x)
      <4>1. seq[q] < n + l /\ seq[q] \in Nat /\ seq[q] < k
        BY <1>3, <1>4, <1>5, <2>3, <3>2
      <4>2. seq[q] < n
        BY <1>1, <1>2, <1>6, <4>1
      <4>3. CASE seq[q] < nextAdmitSeq[x]
        BY <3>2, <4>3 DEF Admits
      <4>4. CASE nextAdmitSeq[x] <= seq[q]
        BY <1>2, <3>2, <4>2, <4>4 DEF Rows
      <4>5. QED
        BY <1>3, <4>1, <4>3, <4>4
    <3>3. QED
      BY <1>1, <3>1, <3>2
  <2>4. ASSUME NEW q \in pendingRecorded' \cap Of(x)
        PROVE  q \in Recorded' /\ q \in asked' /\ seq'[q] >= nextAdmitSeq'[x]
    <3>1. q \in recorded /\ q \notin released /\ q \in Recorded /\ seq[q] >= nextAdmitSeq[x]
      BY <1>2 DEF Drainable
    <3>2. q \in Rows(x) /\ seq[q] \in Nat /\ seq[q] < k
      BY <1>4, <3>1 DEF Rows
    <3>3. seq[q] >= n
      BY <1>2, <1>3, <3>1, <3>2
    <3>4. l = 0
      BY <1>2, <1>4, <1>6, <3>2, <3>3
    <3>5. QED
      BY <1>1, <1>2, <1>3, <1>5, <3>1, <3>2, <3>3, <3>4
  <2>5. Distinct(pendingLive'[x])
    BY <1>3 DEF Drainable, Distinct
  <2>6. ASSUME NEW q \in Members(pendingLive'[x]) PROVE q \in Of(x) \ Recorded' /\ q \in asked'
    <3>1. pendingLive'[x] = fresh /\ admitted # fresh
      BY <1>3 DEF Members
    <3>2. Members(admitted) = {}
      BY <1>2, <3>1 DEF Members
    <3>3. QED
      BY <1>1, <3>1, <3>2 DEF Drainable
  <2>7. QED
    BY <1>7, <2>1, <2>2, <2>3, <2>4, <2>5, <2>6 DEF Admits
<1>9. ASSUME NEW y \in Actors, y # x PROVE Admits(y)'
  <2>1. Admits(y) /\ Rows(y)' = Rows(y) /\ Of(y)' = Of(y)
    BY <1>1, <1>9 DEF Of
  <2>2. \A q \in Of(y) : seq'[q] = seq[q] /\ (q \in Recorded' <=> q \in Recorded)
    BY <1>1, <1>2, <1>9 DEF Of
  <2>3. pendingRecorded' \cap Of(y) \subseteq pendingRecorded
    BY <1>2, <1>9 DEF Of
  <2>4. nextAdmitSeq'[y] = nextAdmitSeq[y] /\ pendingLive'[y] = pendingLive[y]
    BY <1>3, <1>9
  <2>5. QED
    BY <2>1, <2>2, <2>3, <2>4 DEF Admits, Rows
<1>10. QED
  BY <1>8, <1>9

\* Two lines, the second later than the first, make one.
LEMMA Joined ==
    ASSUME NEW S, NEW p \in Seq(S), NEW r \in Seq(S), NEW f, \A q \in S : f[q] \in Nat,
           Rising(p, f), Rising(r, f), \A a \in Members(p), b \in Members(r) : f[a] < f[b]
    PROVE  p \o r \in Seq(S) /\ Members(p \o r) = Members(p) \cup Members(r) /\ Rising(p \o r, f)
<1> DEFINE s == p \o r
           m == Len(p)
           n == Len(r)
<1>1. /\ s \in Seq(S) /\ Len(s) = m + n /\ m \in Nat /\ n \in Nat
      /\ \A i \in 1..(m + n) : s[i] = IF i <= m THEN p[i] ELSE r[i - m]
  BY ConcatProperties, LenProperties
<1> HIDE DEF s, m, n
<1>2. /\ \A i \in 1..m : s[i] = p[i] /\ i \in 1..Len(s)
      /\ \A i \in 1..n : s[m + i] = r[i] /\ m + i \in 1..Len(s)
  <2>1. ASSUME NEW i \in 1..m PROVE s[i] = p[i] /\ i \in 1..Len(s)
    BY <1>1
  <2>2. ASSUME NEW i \in 1..n PROVE s[m + i] = r[i] /\ m + i \in 1..Len(s)
    <3>1. m + i \in 1..(m + n) /\ ~(m + i <= m) /\ (m + i) - m = i
      BY <1>1
    <3>2. s[m + i] = r[(m + i) - m]
      BY <1>1, <3>1
    <3>3. QED
      BY <1>1, <3>1, <3>2
  <2>3. QED
    BY <2>1, <2>2
<1>3. \A i \in 1..Len(s) : i \in 1..m \/ (i > m /\ i - m \in 1..n /\ m + (i - m) = i)
  BY <1>1
<1>4. Members(s) = Members(p) \cup Members(r)
  <2>1. ASSUME NEW i \in 1..Len(s) PROVE s[i] \in Members(p) \cup Members(r)
    <3>1. CASE i \in 1..m
      BY <1>2, <3>1 DEF Members, m
    <3>2. CASE i - m \in 1..n /\ m + (i - m) = i
      <4>1. s[i] = r[i - m]
        BY <1>2, <3>2
      <4>2. QED
        BY <3>2, <4>1 DEF Members, n
    <3>3. QED
      BY <1>3, <3>1, <3>2
  <2>2. Members(p) \subseteq Members(s)
    BY <1>2 DEF Members, m
  <2>3. ASSUME NEW i \in 1..n PROVE r[i] \in Members(s)
    BY <1>2 DEF Members
  <2>4. QED
    BY <2>1, <2>2, <2>3 DEF Members, n
<1>5. Rising(s, f)
  <2> SUFFICES ASSUME NEW i \in 1..Len(s), NEW j \in 1..Len(s), i < j PROVE f[s[i]] < f[s[j]]
    BY DEF Rising
  <2>1. CASE i \in 1..m /\ j \in 1..m
    BY <1>2, <2>1 DEF Rising, m
  <2>2. CASE i \in 1..m /\ j - m \in 1..n /\ m + (j - m) = j
    <3>1. s[i] = p[i] /\ s[j] = r[j - m]
      BY <1>2, <2>2
    <3>2. p[i] \in Members(p) /\ r[j - m] \in Members(r)
      BY <2>2 DEF Members, m, n
    <3>3. QED
      BY <3>1, <3>2
  <2>3. CASE /\ i - m \in 1..n /\ m + (i - m) = i
             /\ j - m \in 1..n /\ m + (j - m) = j
    <3>1. s[i] = r[i - m] /\ s[j] = r[j - m] /\ i - m < j - m
      BY <1>1, <1>2, <2>3
    <3>2. QED
      BY <2>3, <3>1 DEF Rising, n
  <2>4. QED
    BY <1>1, <1>3, <2>1, <2>2, <2>3
<1>6. QED
  BY <1>1, <1>4, <1>5 DEF s

\* A line does not see the statuses and numbers of other actors' asks.
LEMMA LinedSame ==
    ASSUME NEW x, NEW queue, NEW cur, NEW st, NEW f, NEW n, NEW st2, NEW f2,
           \A q \in Of(x) : st2[q] = st[q] /\ f2[q] = f[q],
           Lined(x, queue, cur, st, f, n)
    PROVE  Lined(x, queue, cur, st2, f2, n)
<1>1. queue \in Seq(Of(x)) /\ \A i \in 1..Len(queue) : queue[i] \in Of(x)
  BY ElementOfSeq DEF Lined
<1>2. Rising(queue, f2)
  BY <1>1 DEF Lined, Rising
<1>3. Members(queue) \subseteq Of(x)
  BY <1>1 DEF Members
<1>4. QED
  BY <1>1, <1>2, <1>3 DEF Lined

InLine == \A x \in Actors : Lined(x, liveQueue[x], current[x], status, seq, nextAdmitSeq[x])

LEMMA DrainLines ==
    ASSUME TypeOK, RowsInSequence, InLine, NEW x \in Actors,
           NEW recorded, NEW fresh, Drainable(x, recorded, fresh),
           NEW n, NEW released, NEW admitted,
           Drained(x, recorded, fresh, n, released, admitted)
    PROVE  \A y \in Actors :
               Lined(y, Extended(x, released, admitted)[y], current[y], status', seq', nextAdmitSeq'[y])
<1> DEFINE l == Len(admitted)
           new == Members(admitted)
           rerun == {q \in released : status[q] = "running"}
           again == BySeq(rerun)
           queue == liveQueue[x]
           first == queue \o again
           line == first \o admitted
           cur == current[x]
           O == Of(x)
<1>1. /\ admitted \in Seq(Asks) /\ l \in Nat /\ new \subseteq O \ Recorded
      /\ \A q \in O \ Recorded : status[q] # "running"
  BY DrainRows DEF Recorded, Of, TypeOK
<1>2. /\ n \in Nat /\ nextAdmitSeq[x] <= n /\ nextAdmitSeq[x] \in Nat
      /\ released = {q \in Rows(x) : nextAdmitSeq[x] <= seq[q] /\ seq[q] < n}
      /\ admitted # <<>> => n = Cardinality(Rows(x))
      /\ status' = [q \in Asks |-> IF q \in new THEN "running" ELSE status[q]]
      /\ \A i \in 1..l : seq'[admitted[i]] = n - 1 + i
      /\ \A q \in Asks \ new : seq'[q] = seq[q]
      /\ nextAdmitSeq' = [nextAdmitSeq EXCEPT ![x] = n + l]
  BY DEF Drained, TypeOK
<1>3. nextAdmitSeq'[x] = n + l /\ \A y \in Actors \ {x} : nextAdmitSeq'[y] = nextAdmitSeq[y]
  BY <1>2 DEF TypeOK
<1>4. /\ IsFiniteSet(Rows(x)) /\ \A q \in Rows(x) : seq[q] \in 0..(Cardinality(Rows(x)) - 1)
      /\ \A p, q \in Rows(x) : seq[p] = seq[q] => p = q
  BY RowsApart
<1>5. O \subseteq Asks /\ \A q \in O : seq[q] \in Nat /\ seq'[q] \in Nat
  BY DEF Drained, TypeOK, Of
<1>6. again \in Seq(rerun) /\ Members(again) = rerun /\ Rising(again, seq)
  <2>1. rerun \subseteq Rows(x)
    BY <1>2
  <2>2. IsFiniteSet(rerun) /\ \A q \in rerun : seq[q] \in Nat
    BY <1>4, <2>1, FS_Subset
  <2>3. \A p, q \in rerun : seq[p] = seq[q] => p = q
    BY <1>4, <2>1
  <2> HIDE DEF rerun
  <2>4. QED
    BY <2>2, <2>3, BySeqSorts
<1>7. rerun \subseteq O /\ \A q \in rerun : /\ status[q] = "running" /\ q \notin new
                                          /\ nextAdmitSeq[x] <= seq[q] /\ seq[q] < n
  BY <1>1, <1>2 DEF Rows
<1>8. /\ queue \in Seq(O) /\ Rising(queue, seq)
      /\ \A q \in Members(queue) :
             q \in O /\ status[q] = "running" /\ q \notin new /\ seq[q] < nextAdmitSeq[x]
  <2>1. Lined(x, queue, cur, status, seq, nextAdmitSeq[x])
    BY DEF InLine
  <2>2. queue \in Seq(O) /\ Rising(queue, seq)
    BY <2>1 DEF Lined
  <2>3. Members(queue) \subseteq O
    BY <2>2, ElementOfSeq DEF Members
  <2>4. QED
    BY <1>1, <2>1, <2>2, <2>3 DEF Lined
<1> HIDE DEF again, rerun, new, queue, O
<1>9. first \in Seq(O) /\ Members(first) = Members(queue) \cup rerun /\ Rising(first, seq)
  <2>1. again \in Seq(O)
    BY <1>6, <1>7, SeqMonotonic
  <2>2. \A a \in Members(queue), b \in Members(again) : seq[a] < seq[b]
    BY <1>2, <1>5, <1>6, <1>7, <1>8
  <2>3. \A q \in O : seq[q] \in Nat
    BY <1>5
  <2>4. QED
    BY <1>6, <1>8, <2>1, <2>2, <2>3, Joined
<1> HIDE DEF first
<1>10. \A q \in Members(first) : /\ q \in O /\ q \notin new /\ status[q] = "running"
                                 /\ seq[q] < n /\ seq'[q] = seq[q]
  BY <1>2, <1>5, <1>7, <1>8, <1>9
<1>11. Rising(first, seq')
  <2>1. \A i \in 1..Len(first) : first[i] \in Members(first)
    BY DEF Members
  <2>2. QED
    BY <1>9, <1>10, <2>1 DEF Rising
<1>12. admitted \in Seq(O) /\ Rising(admitted, seq')
  <2>1. \A i \in 1..l : admitted[i] \in new
    BY DEF new, Members
  <2>2. admitted \in Seq(O)
    <3>1. admitted \in Seq(new)
      BY <1>1, <2>1, LenProperties
    <3>2. QED
      BY <1>1, <3>1, SeqMonotonic
  <2>3. Rising(admitted, seq')
    BY <1>1, <1>2 DEF Rising
  <2>4. QED
    BY <2>2, <2>3
<1>13. \A q \in new : seq'[q] >= n /\ seq'[q] < n + l
  <2> SUFFICES ASSUME NEW i \in 1..l PROVE seq'[admitted[i]] >= n /\ seq'[admitted[i]] < n + l
    BY DEF new, Members
  <2>1. QED
    BY <1>1, <1>2
<1>14. line \in Seq(O) /\ Members(line) = Members(first) \cup new /\ Rising(line, seq')
  <2>1. \A a \in Members(first), b \in Members(admitted) : seq'[a] < seq'[b]
    BY <1>1, <1>2, <1>5, <1>10, <1>13 DEF new
  <2>2. \A q \in O : seq'[q] \in Nat
    BY <1>5
  <2>3. QED
    BY <1>9, <1>11, <1>12, <2>1, <2>2, Joined DEF new
<1> HIDE DEF line
<1>15. \A q \in Members(line) : status'[q] = "running" /\ seq'[q] < n + l
  BY <1>1, <1>2, <1>5, <1>10, <1>13, <1>14
<1>16. \/ cur = {}
       \/ \E q \in O : /\ cur = {q} /\ status'[q] = "running" /\ seq'[q] < n + l
                       /\ \A p \in Members(line) : seq'[q] < seq'[p]
  <2>1. \/ cur = {}
        \/ \E q \in O : /\ cur = {q} /\ status[q] = "running" /\ seq[q] < nextAdmitSeq[x]
                        /\ \A p \in Members(queue) : seq[q] < seq[p]
    BY DEF InLine, Lined, queue, O
  <2>2. ASSUME NEW q \in O, cur = {q}, status[q] = "running", seq[q] < nextAdmitSeq[x],
               \A p \in Members(queue) : seq[q] < seq[p]
        PROVE  /\ status'[q] = "running" /\ seq'[q] < n + l
               /\ \A p \in Members(line) : seq'[q] < seq'[p]
    <3>1. q \notin new /\ seq'[q] = seq[q] /\ status'[q] = "running" /\ seq[q] < n
      BY <1>1, <1>2, <1>5, <2>2
    <3>2. ASSUME NEW p \in Members(line) PROVE seq'[q] < seq'[p]
      <4>1. CASE p \in Members(queue)
        BY <1>9, <1>10, <2>2, <3>1, <4>1
      <4>2. CASE p \in rerun
        BY <1>2, <1>5, <1>7, <1>9, <1>10, <2>2, <3>1, <4>2
      <4>3. CASE p \in new
        BY <1>1, <1>2, <1>5, <1>13, <3>1, <4>3
      <4>4. QED
        BY <1>9, <1>14, <4>1, <4>2, <4>3
    <3>3. QED
      BY <1>1, <1>2, <1>5, <3>1, <3>2
  <2>3. QED
    BY <2>1, <2>2
<1>17. ASSUME NEW q \in O, status'[q] = "running", seq'[q] < n + l PROVE q \in cur \cup Members(line)
  <2>1. CASE q \in new
    BY <1>14, <2>1
  <2>2. CASE q \notin new
    <3>1. status[q] = "running" /\ seq'[q] = seq[q]
      BY <1>2, <1>5, <1>17, <2>2
    <3>2. q \in Rows(x)
      BY <1>1, <3>1 DEF Rows, O
    <3>3. seq[q] < n
      <4>1. CASE l = 0
        BY <1>2, <1>5, <1>17, <3>1, <4>1
      <4>2. CASE l # 0
        <5>1. n = Cardinality(Rows(x))
          BY <1>2, <4>2
        <5>2. QED
          BY <1>2, <1>4, <3>2, <5>1
      <4>3. QED
        BY <4>1, <4>2
    <3>4. CASE seq[q] < nextAdmitSeq[x]
      <4>1. q \in cur \cup Members(queue)
        BY <3>1, <3>4 DEF InLine, Lined, O, queue
      <4>2. QED
        BY <1>9, <1>14, <4>1
    <3>5. CASE nextAdmitSeq[x] <= seq[q]
      <4>1. q \in rerun
        BY <1>2, <3>1, <3>2, <3>3, <3>5 DEF rerun
      <4>2. QED
        BY <1>9, <1>14, <4>1
    <3>6. QED
      BY <1>2, <1>5, <3>4, <3>5
  <2>3. QED
    BY <2>1, <2>2
<1>18. Lined(x, line, cur, status', seq', n + l)
  BY <1>14, <1>15, <1>16, <1>17 DEF Lined, O
<1>19. /\ Extended(x, released, admitted)[x] = line
       /\ \A y \in Actors \ {x} : Extended(x, released, admitted)[y] = liveQueue[y]
  BY DEF Extended, TypeOK, line, first, again, rerun, queue
<1>20. ASSUME NEW y \in Actors, y # x
       PROVE  Lined(y, liveQueue[y], current[y], status', seq', nextAdmitSeq'[y])
  <2>1. \A q \in Of(y) : q \in Asks /\ q \notin new
    BY <1>1, <1>20 DEF Of, O
  <2>2. \A q \in Of(y) : status'[q] = status[q] /\ seq'[q] = seq[q]
    BY <1>2, <2>1
  <2>3. Lined(y, liveQueue[y], current[y], status, seq, nextAdmitSeq[y])
    BY DEF InLine
  <2>4. QED
    BY <1>3, <1>20, <2>2, <2>3, LinedSame
<1>21. QED
  BY <1>3, <1>18, <1>19, <1>20

-----------------------------------------------------------------------------
(* The inductive invariant.                                                *)

Live ==
    /\ InLine
    /\ \A x \in Actors : Admits(x)
    /\ \A q \in started : q \in current[ActorOf[q]]

\* Nothing is left of a life that is over.
Blank ==
    /\ asked = {} /\ pendingRecorded = {} /\ started = {} /\ activeAsks = 0
    /\ \A x \in Actors : /\ nextAdmitSeq[x] = 0
                         /\ pendingLive[x] = <<>> /\ liveQueue[x] = <<>> /\ current[x] = {}

SInv ==
    /\ TypeOK /\ RowsInSequence /\ NoIdleCapacity
    /\ life = "running" => Live
    /\ life # "running" => Blank

\* What CapBindsDispatch says of a step.
Binds == (\E x \in Actors : current'[x] \notin {{}, current[x]}) => Cardinality(Busy') <= cap'

LEMMA BlankIdle == Blank /\ TypeOK => NoIdleCapacity
<1> SUFFICES ASSUME Blank PROVE NoIdleCapacity
  OBVIOUS
<1>1. Busy = {}
  BY DEF Blank, Busy
<1>2. Cardinality(Busy) = 0
  BY <1>1, FS_EmptySet
<1>3. QED
  BY <1>2 DEF Blank, NoIdleCapacity

LEMMA BlankLine ==
    ASSUME Blank
    PROVE  InLine <=> \A x \in Actors : \A q \in Of(x) : ~(status[q] = "running" /\ seq[q] < 0)
<1>1. \A x : <<>> \in Seq(Of(x)) /\ Rising(<<>>, seq) /\ Members(<<>>) = {}
  BY DEF Rising, Members
<1>2. QED
  BY <1>1 DEF Blank, InLine, Lined

Counted == \A x \in Actors : recordedCount[x] = Cardinality(Rows(x))

\* The first life begins without rows; a resume counts those of an actor, and has admitted none.
LEMMA BlankLive == Blank /\ TypeOK /\ RowsInSequence /\ Counted => Live
<1> SUFFICES ASSUME Blank, TypeOK, RowsInSequence, Counted PROVE Live
  OBVIOUS
<1>1. InLine
  <2>1. \A x \in Actors : \A q \in Of(x) : ~(seq[q] < 0)
    BY DEF TypeOK, Of
  <2>2. QED
    BY <2>1, BlankLine
<1>2. ASSUME NEW x \in Actors PROVE Admits(x)
  <2>1. Cardinality(Rows(x)) \in Nat /\ \A q \in Rows(x) : seq[q] \in Nat
    <3>1. Cardinality(Rows(x)) \in Nat
      BY RowsApart
    <3>2. Rows(x) \subseteq Asks
      BY DEF Rows, Of
    <3>3. QED
      BY <3>1, <3>2 DEF TypeOK
  <2>2. nextAdmitSeq[x] = 0 /\ recordedCount[x] = Cardinality(Rows(x)) /\ pendingLive[x] = <<>>
    BY DEF Blank, Counted
  <2>3. Distinct(<<>>) /\ Members(<<>>) = {}
    BY DEF Distinct, Members
  <2>4. pendingRecorded = {}
    BY DEF Blank
  <2>5. QED
    BY <2>1, <2>2, <2>3, <2>4 DEF Admits
<1>3. QED
  BY <1>1, <1>2 DEF Live, Blank

LEMMA SInvInit == Init => SInv
<1> SUFFICES ASSUME Init PROVE SInv
  OBVIOUS
<1>1. Recorded = {}
  BY DEF Init, Recorded
<1>2. Blank
  BY DEF Init, Blank
<1>3. \A x \in Actors : Rows(x) = {} /\ Cardinality(Rows(x)) = 0
  BY <1>1, FS_EmptySet DEF Rows
<1>4. RowsInSequence
  <2>1. \A x \in Actors : {seq[q] : q \in Rows(x)} = {}
    BY <1>3
  <2>2. 0..(0 - 1) = {}
    OBVIOUS
  <2>3. QED
    BY <1>3, <2>1, <2>2 DEF RowsInSequence, Rows
<1>5. TypeOK
  <2>1. \A S : <<>> \in Seq(S)
    OBVIOUS
  <2>2. 0 \in 0..RepairAttempts /\ 0 \in 0..NudgeAttempts /\ 1 \in 1..MaxLives
    BY SchedulerAssumption
  <2>3. QED
    BY <2>1, <2>2 DEF Init, TypeOK
<1>6. Live
  BY <1>2, <1>3, <1>4, <1>5, BlankLive DEF Init, Counted
<1>7. QED
  BY <1>2, <1>4, <1>5, <1>6, BlankIdle DEF SInv, Init

-----------------------------------------------------------------------------
(* An ask.                                                                 *)

\* The drain of an ask that is put to x.
Drains(x, recorded, fresh, n, released, admitted, pumped) ==
    /\ Drainable(x, recorded, fresh)
    /\ Drained(x, recorded, fresh, n, released, admitted)
    /\ Dispatch(pumped, Extended(x, released, admitted), current, activeAsks, cap)
    /\ pumped \subseteq Actors /\ x \in pumped
    /\ recorded \ Of(x) \subseteq pendingRecorded
    /\ recorded \cap Of(x) \subseteq asked' /\ Members(fresh) \subseteq asked'

\* Whatever branch of admitAsk is taken, it is a drain.
LEMMA AskDrains ==
    ASSUME SInv, NEW q \in Asks, Ask(q)
    PROVE  \E recorded, fresh, n, released, admitted, pumped :
               Drains(ActorOf[q], recorded, fresh, n, released, admitted, pumped)
<1> DEFINE x == ActorOf[q]
<1>1. x \in Actors /\ q \in Of(x)
  BY SchedulerAssumption DEF Of
<1>2. /\ TypeOK /\ RowsInSequence /\ Live /\ Admits(x)
      /\ life = "running" /\ q \notin asked /\ asked' = asked \cup {q}
  BY <1>1 DEF Ask, SInv, Live
<1>3. /\ \A p \in pendingRecorded \cap Of(x) :
             p \in Recorded /\ p \in asked /\ seq[p] >= nextAdmitSeq[x]
      /\ pendingRecorded \subseteq Asks
      /\ pendingLive[x] \in Seq(Asks) /\ Distinct(pendingLive[x])
      /\ Members(pendingLive[x]) \subseteq Of(x) \ Recorded /\ Members(pendingLive[x]) \subseteq asked
  BY <1>1, <1>2 DEF Admits, TypeOK
<1>4. CASE q \in Recorded
  <2> DEFINE recorded == pendingRecorded \cup {q}
             fresh == pendingLive[x]
  <2>1. Drain(x, recorded, fresh, {x})
    BY <1>4 DEF Ask
  <2>2. seq[q] >= nextAdmitSeq[x]
    <3>1. q \in Rows(x) /\ seq[q] \in Nat /\ nextAdmitSeq[x] \in Nat
      BY <1>1, <1>2, <1>4 DEF Rows, TypeOK
    <3>2. ~(seq[q] < nextAdmitSeq[x])
      BY <1>2, <3>1 DEF Admits
    <3>3. QED
      BY <3>1, <3>2
  <2>3. Drainable(x, recorded, fresh)
    BY <1>3, <1>4, <2>2 DEF Drainable
  <2>4. recorded \ Of(x) \subseteq pendingRecorded
    BY <1>1
  <2>5. recorded \cap Of(x) \subseteq asked' /\ Members(fresh) \subseteq asked'
    BY <1>2, <1>3
  <2> HIDE DEF recorded, fresh
  <2>6. PICK n, released, admitted :
            /\ Drained(x, recorded, fresh, n, released, admitted)
            /\ Dispatch({x}, Extended(x, released, admitted), current, activeAsks, cap)
    BY <1>1, <1>2, <2>1, <2>3, DrainYields
  <2>7. {x} \in SUBSET Actors /\ x \in {x}
    BY <1>1
  <2>8. Drains(x, recorded, fresh, n, released, admitted, {x})
    BY <2>3, <2>4, <2>5, <2>6, <2>7 DEF Drains
  <2>9. QED
    BY <2>8, Zenon
<1>5. CASE q \notin Recorded
  <2> DEFINE fresh == Append(pendingLive[x], q)
  <2>1. Drain(x, pendingRecorded, fresh, Actors)
    BY <1>5 DEF Ask
  <2>2. fresh \in Seq(Asks) /\ Distinct(fresh) /\ Members(fresh) = Members(pendingLive[x]) \cup {q}
    <3>1. q \notin Members(pendingLive[x])
      BY <1>2, <1>3
    <3>2. QED
      BY <1>3, <3>1, Pushed
  <2> HIDE DEF fresh
  <2>3. Drainable(x, pendingRecorded, fresh)
    BY <1>1, <1>3, <1>5, <2>2 DEF Drainable
  <2>4. pendingRecorded \cap Of(x) \subseteq asked' /\ Members(fresh) \subseteq asked'
    BY <1>2, <1>3, <2>2
  <2>5. PICK n, released, admitted :
            /\ Drained(x, pendingRecorded, fresh, n, released, admitted)
            /\ Dispatch(Actors, Extended(x, released, admitted), current, activeAsks, cap)
    BY <1>1, <1>2, <2>1, <2>3, DrainYields
  <2>6. Drains(x, pendingRecorded, fresh, n, released, admitted, Actors)
    BY <1>1, <2>3, <2>4, <2>5 DEF Drains
  <2>7. QED
    BY <2>6, Zenon
<1>6. QED
  BY <1>4, <1>5

LEMMA AskKeeps ==
    ASSUME SInv, NEW q \in Asks, Ask(q)
    PROVE  SInv' /\ Binds
<1> DEFINE x == ActorOf[q]
<1>1. x \in Actors
  BY SchedulerAssumption
<1>2. /\ TypeOK /\ RowsInSequence /\ NoIdleCapacity /\ Live /\ life = "running"
      /\ asked' = asked \cup {q}
      /\ UNCHANGED <<cap, life, lives, answered, recordedCount, session, started>>
  BY DEF Ask, SInv
<1>3. PICK recorded, fresh, n, released, admitted, pumped :
          /\ Drainable(x, recorded, fresh)
          /\ Drained(x, recorded, fresh, n, released, admitted)
          /\ Dispatch(pumped, Extended(x, released, admitted), current, activeAsks, cap)
          /\ pumped \in SUBSET Actors /\ x \in pumped
          /\ recorded \ Of(x) \subseteq pendingRecorded
          /\ recorded \cap Of(x) \subseteq asked' /\ Members(fresh) \subseteq asked'
  <2>1. PICK recorded, fresh, n, released, admitted, pumped :
            Drains(x, recorded, fresh, n, released, admitted, pumped)
    BY AskDrains, Zenon
  <2>2. QED
    BY <2>1, Zenon DEF Drains
<1> DEFINE queues == Extended(x, released, admitted)
<1> HIDE DEF x
<1>4. /\ status' \in [Asks -> {"none", "running", "completed", "failed"}] /\ RowsInSequence'
      /\ Rows(x)' = Rows(x) \cup Members(admitted) /\ Len(admitted) \in Nat
  BY <1>1, <1>2, <1>3, DrainRows
<1>5. \A y \in Actors : Admits(y)'
  <2>1. \A y \in Actors : Admits(y)
    BY <1>2 DEF Live
  <2>2. asked \subseteq asked' /\ recordedCount' = recordedCount
    BY <1>2
  <2>3. QED
    BY <1>1, <1>2, <1>3, <2>1, <2>2, DrainAdmits
<1>6. \A y \in Actors : Lined(y, queues[y], current[y], status', seq', nextAdmitSeq'[y])
  BY <1>1, <1>2, <1>3, DrainLines DEF Live
<1>7. \A y \in Actors \ {x} : queues[y] = liveQueue[y]
  BY <1>1, <1>2 DEF Extended, TypeOK
<1> HIDE DEF queues
<1>8. /\ seq' \in [Asks -> Nat] /\ nextAdmitSeq' \in [Actors -> Nat]
      /\ pendingRecorded' \subseteq Asks /\ pendingLive' \in [Actors -> Seq(Asks)]
      /\ held' \subseteq Asks
      /\ repairs' \in [Asks -> 0..RepairAttempts] /\ nudges' \in [Asks -> 0..NudgeAttempts]
  <2>1. seq' \in [Asks -> Nat] /\ repairs' \in [Asks -> 0..RepairAttempts]
        /\ nudges' \in [Asks -> 0..NudgeAttempts]
    BY <1>3 DEF Drained
  <2>2. nextAdmitSeq' = [nextAdmitSeq EXCEPT ![x] = n + Len(admitted)] /\ n \in Nat
    BY <1>3 DEF Drained
  <2>3. nextAdmitSeq' \in [Actors -> Nat]
    <3>1. n + Len(admitted) \in Nat /\ nextAdmitSeq \in [Actors -> Nat]
      BY <1>2, <1>4, <2>2 DEF TypeOK
    <3>2. QED
      BY <2>2, <3>1
  <2>4. pendingRecorded' \subseteq Asks /\ fresh \in Seq(Asks) /\ held' \subseteq Asks
    <3>1. released \subseteq recorded /\ pendingRecorded' = recorded \ released
          /\ held' \subseteq held \cup released
      BY <1>3 DEF Drained
    <3>2. recorded \subseteq Asks /\ fresh \in Seq(Asks) /\ held \subseteq Asks
      BY <1>2, <1>3 DEF Drainable, TypeOK
    <3>3. QED
      BY <3>1, <3>2
  <2>5. pendingLive' = [pendingLive EXCEPT ![x] = IF admitted = fresh THEN <<>> ELSE fresh]
    BY <1>3 DEF Drained
  <2>6. pendingLive' \in [Actors -> Seq(Asks)]
    <3>1. <<>> \in Seq(Asks)
      OBVIOUS
    <3>2. QED
      BY <1>2, <2>4, <2>5, <3>1 DEF TypeOK
  <2>7. QED
    BY <2>1, <2>3, <2>4, <2>6
<1>9. Served(current, cap, status', seq', nextAdmitSeq')
  <2>1. cap \in Nat /\ activeAsks \in Nat
    BY <1>2, SchedulerAssumption DEF TypeOK
  <2>2. activeAsks = Cardinality({y \in Actors : current[y] # {}})
    BY <1>2 DEF NoIdleCapacity, Busy
  <2>3. \A y \in Actors \ pumped : current[y] = {} /\ queues[y] # <<>> => activeAsks >= cap
    BY <1>2, <1>3, <1>7 DEF NoIdleCapacity, Busy
  <2>4. Dispatch(pumped, queues, current, activeAsks, cap)
    BY <1>3 DEF queues
  <2>5. (\A p \in Asks : seq'[p] \in Nat) /\ (\A y \in Actors : nextAdmitSeq'[y] \in Nat)
    BY <1>8
  <2>6. QED
    BY <1>3, <1>6, <2>1, <2>2, <2>3, <2>4, <2>5, Dispatched
<1>10. NoIdleCapacity'
  BY <1>2, <1>9 DEF NoIdleCapacity, Served
<1>11. TypeOK'
  <2>1. asked' \subseteq Asks
    BY <1>2 DEF TypeOK
  <2>2. QED
    BY <1>2, <1>4, <1>8, <1>9, <2>1 DEF TypeOK, Served
<1>12. Live'
  <2>1. InLine'
    BY <1>9 DEF InLine, Served
  <2>2. \A p \in started' : p \in current'[ActorOf[p]]
    <3>1. \A p \in started : p \in current[ActorOf[p]] /\ ActorOf[p] \in Actors
      BY <1>2, SchedulerAssumption DEF Live, TypeOK
    <3>2. QED
      BY <1>2, <1>9, <3>1 DEF Served
  <2>3. QED
    BY <1>5, <2>1, <2>2 DEF Live
<1>13. Binds
  BY <1>2, <1>9 DEF Binds, Served
<1>14. QED
  BY <1>2, <1>4, <1>10, <1>11, <1>12, <1>13 DEF SInv

-----------------------------------------------------------------------------
(* The other steps.                                                        *)

\* Where no row is added, the admission of every actor stands where it was.
LEMMA AdmissionSame ==
    ASSUME RowsInSequence, \A y \in Actors : Admits(y),
           UNCHANGED <<seq, asked, admission>>, Recorded' = Recorded
    PROVE  RowsInSequence' /\ \A y \in Actors : Admits(y)'
<1>1. seq' = seq /\ asked' = asked /\ UNCHANGED <<nextAdmitSeq, recordedCount, pendingRecorded, pendingLive>>
  BY DEF admission
<1>2. \A y : Rows(y)' = Rows(y) /\ Of(y)' = Of(y)
  BY DEF Rows, Of
<1>3. RowsInSequence'
  BY <1>1, <1>2 DEF RowsInSequence, Rows
<1>4. \A y \in Actors : Admits(y)'
  BY <1>1, <1>2 DEF Admits
<1>5. QED
  BY <1>3, <1>4

\* A step that dispatches after it has freed some actors.
LEMMA ServedKeeps ==
    ASSUME SInv, life = "running", TypeOK', Recorded' = Recorded,
           UNCHANGED <<seq, life, asked, admission>>,
           NEW cur, \A y \in Actors : cur[y] \in {{}, current[y]},
           Served(cur, cap', status', seq', nextAdmitSeq'),
           \A p \in started' : p \in cur[ActorOf[p]]
    PROVE  SInv' /\ Binds
<1>1. RowsInSequence' /\ \A y \in Actors : Admits(y)'
  BY AdmissionSame DEF SInv, Live
<1>2. InLine'
  BY DEF InLine, Served
<1>3. NoIdleCapacity'
  BY DEF NoIdleCapacity, Served
<1>4. \A p \in started' : p \in current'[ActorOf[p]]
  <2>1. \A p \in started' : p \in cur[ActorOf[p]] /\ ActorOf[p] \in Actors
    BY SchedulerAssumption DEF TypeOK
  <2>2. QED
    BY <2>1 DEF Served
<1>5. Binds
  <2>1. ASSUME NEW y \in Actors, current'[y] \notin {{}, current[y]}
        PROVE  activeAsks' <= cap'
    BY <2>1 DEF Served
  <2>2. activeAsks' = Cardinality(Busy')
    BY DEF Served
  <2>3. QED
    BY <2>1, <2>2 DEF Binds
<1>6. life' = "running"
  OBVIOUS
<1>7. QED
  BY <1>1, <1>2, <1>3, <1>4, <1>5, <1>6 DEF SInv, Live

\* A step that touches neither the rows nor the lines.
LEMMA QuietKeeps ==
    ASSUME SInv, life = "running", TypeOK', cap' <= cap,
           UNCHANGED <<rows, life, asked, admission, running>>,
           \A p \in started' : p \in current[ActorOf[p]]
    PROVE  SInv' /\ Binds
<1>1. /\ UNCHANGED <<seq, asked, admission>> /\ Recorded' = Recorded
      /\ UNCHANGED <<status, seq, liveQueue, current, activeAsks, life, nextAdmitSeq>>
  BY DEF rows, running, admission, Recorded
<1>2. RowsInSequence' /\ \A y \in Actors : Admits(y)'
  BY <1>1, AdmissionSame DEF SInv, Live
<1>3. InLine'
  BY <1>1 DEF InLine, Lined, SInv, Live
<1>4. NoIdleCapacity'
  <2>1. Busy' = Busy /\ cap' \in Nat /\ cap \in Nat /\ activeAsks \in Nat
    BY <1>1, SchedulerAssumption DEF Busy, TypeOK, SInv
  <2>2. QED
    BY <1>1, <2>1 DEF NoIdleCapacity, SInv
<1>5. Binds
  BY <1>1 DEF Binds
<1>6. QED
  BY <1>1, <1>2, <1>3, <1>4, <1>5 DEF SInv, Live

\* A settlement takes the head of a line away.
LEMMA SettleKeeps ==
    ASSUME SInv, life = "running", NEW q \in Asks, q \in current[ActorOf[q]],
           NEW v \in {"completed", "failed"}, Settle(q, v),
           session' \in [Actors -> {"none", "open", "broken"}]
    PROVE  SInv' /\ Binds
<1> DEFINE x == ActorOf[q]
           cur == [current EXCEPT ![x] = {}]
<1>1. x \in Actors /\ q \in Of(x)
  BY SchedulerAssumption DEF Of
<1>2. /\ TypeOK /\ RowsInSequence /\ NoIdleCapacity /\ Live
      /\ status' = [status EXCEPT ![q] = v]
      /\ Dispatch(Actors, liveQueue, cur, activeAsks - 1, cap)
      /\ started' = started \ {q} /\ answered' = answered \cup {q}
      /\ UNCHANGED <<seq, cap, life, lives, asked, admission, repairs, nudges, held>>
  BY DEF Settle, SInv
<1>3. /\ liveQueue[x] \in Seq(Of(x)) /\ Rising(liveQueue[x], seq)
      /\ \A p \in Members(liveQueue[x]) :
             status[p] = "running" /\ seq[p] < nextAdmitSeq[x] /\ seq[q] < seq[p]
      /\ current[x] = {q} /\ status[q] = "running"
      /\ \A p \in Of(x) : status[p] = "running" /\ seq[p] < nextAdmitSeq[x]
                              => p \in {q} \cup Members(liveQueue[x])
  <2>1. Lined(x, liveQueue[x], current[x], status, seq, nextAdmitSeq[x])
    BY <1>1, <1>2 DEF Live, InLine
  <2>2. PICK r \in Of(x) : /\ current[x] = {r} /\ status[r] = "running"
                           /\ \A p \in Members(liveQueue[x]) : seq[r] < seq[p]
    BY <1>1, <2>1 DEF Lined
  <2>3. r = q
    BY <1>1, <2>2
  <2>4. QED
    BY <2>1, <2>2, <2>3 DEF Lined
<1>4. Recorded' = Recorded
  BY <1>2, <1>3 DEF Recorded, TypeOK
<1>5. ASSUME NEW y \in Actors
      PROVE  Lined(y, liveQueue[y], cur[y], status', seq', nextAdmitSeq'[y])
  <2>1. seq' = seq /\ nextAdmitSeq' = nextAdmitSeq /\ seq[q] \in Nat
    BY <1>2 DEF admission, TypeOK
  <2>2. CASE y = x
    <3>1. cur[y] = {}
      BY <1>1, <1>2, <2>2 DEF TypeOK
    <3>2. \A p \in Members(liveQueue[x]) : p # q /\ status'[p] = "running"
      <4>1. \A p \in Members(liveQueue[x]) : p # q
        BY <1>3, <2>1
      <4>2. Members(liveQueue[x]) \subseteq Asks
        BY <1>3, ElementOfSeq DEF Members, Of
      <4>3. QED
        BY <1>2, <1>3, <4>1, <4>2 DEF TypeOK
    <3>3. \A p \in Of(x) : status'[p] = "running" /\ seq[p] < nextAdmitSeq[x]
                               => p \in Members(liveQueue[x])
      BY <1>2, <1>3 DEF TypeOK, Of
    <3>4. QED
      BY <1>3, <2>1, <2>2, <3>1, <3>2, <3>3 DEF Lined
  <2>3. CASE y # x
    <3>1. cur[y] = current[y]
      BY <1>2, <2>3 DEF TypeOK
    <3>2. \A p \in Of(y) : status'[p] = status[p] /\ seq'[p] = seq[p]
      BY <1>2, <2>1, <2>3 DEF Of, TypeOK
    <3>3. Lined(y, liveQueue[y], current[y], status, seq, nextAdmitSeq[y])
      BY <1>2 DEF Live, InLine
    <3>4. QED
      BY <2>1, <3>1, <3>2, <3>3, LinedSame
  <2>4. QED
    BY <2>2, <2>3
<1>6. /\ activeAsks - 1 \in Nat
      /\ activeAsks - 1 = Cardinality({y \in Actors : cur[y] # {}})
  <2>1. {y \in Actors : cur[y] # {}} = Busy \ {x}
    BY <1>1, <1>2 DEF Busy, TypeOK
  <2>2. x \in Busy /\ IsFiniteSet(Busy)
    BY <1>1, <1>3, SchedulerAssumption, FS_Subset DEF Busy
  <2>3. Cardinality(Busy \ {x}) = Cardinality(Busy) - 1 /\ Cardinality(Busy \ {x}) \in Nat
    BY <2>2, FS_RemoveElement, FS_CardinalityType
  <2>4. QED
    BY <1>2, <2>1, <2>3 DEF NoIdleCapacity
<1>7. Served(cur, cap, status', seq', nextAdmitSeq')
  <2>1. cap \in Nat
    BY <1>2, SchedulerAssumption DEF TypeOK
  <2>2. (\A p \in Asks : seq'[p] \in Nat) /\ (\A y \in Actors : nextAdmitSeq'[y] \in Nat)
    BY <1>2 DEF admission, TypeOK
  <2> HIDE DEF cur
  <2>3. QED
    BY <1>2, <1>5, <1>6, <2>1, <2>2, Dispatched
<1>8. TypeOK'
  BY <1>2, <1>7 DEF TypeOK, Served, admission
<1>9. \A p \in started' : p \in cur[ActorOf[p]]
  <2>1. \A p \in started : p \in current[ActorOf[p]] /\ ActorOf[p] \in Actors
    BY <1>2, SchedulerAssumption DEF Live, TypeOK
  <2>2. QED
    BY <1>1, <1>2, <1>3, <2>1 DEF TypeOK
<1>10. \A y \in Actors : cur[y] \in {{}, current[y]}
  BY <1>2 DEF TypeOK
<1> HIDE DEF cur
<1>11. QED
  BY <1>2, <1>4, <1>7, <1>8, <1>9, <1>10, ServedKeeps

\* A started ask is the one its actor runs.
LEMMA StartedRuns ==
    ASSUME SInv, life = "running", NEW q \in started
    PROVE  q \in Asks /\ q \in current[ActorOf[q]]
BY DEF SInv, Live, TypeOK

LEMMA ReportKeeps ==
    ASSUME SInv, NEW q \in Asks, Reports(q)
    PROVE  SInv' /\ Binds
<1>1. life = "running" /\ q \in started /\ q \in current[ActorOf[q]]
  <2>1. life = "running" /\ q \in started
    BY DEF Reports, TurnEnds, Submits, DriverFails
  <2>2. QED
    BY <2>1, StartedRuns
<1>2. TypeOK /\ \A p \in started : p \in current[ActorOf[p]]
  BY <1>1 DEF SInv, Live
<1>3. ASSUME NEW v \in {"completed", "failed"}, Settle(q, v), UNCHANGED session
      PROVE  SInv' /\ Binds
  BY <1>1, <1>2, <1>3, SettleKeeps DEF TypeOK
<1>4. ASSUME nudges[q] > 0, nudges' = [nudges EXCEPT ![q] = @ - 1],
             UNCHANGED <<rows, cap, life, lives, script, admission, running, session, started,
                         repairs, held>>
      PROVE  SInv' /\ Binds
  <2>1. nudges' \in [Asks -> 0..NudgeAttempts]
    BY <1>2, <1>4, SchedulerAssumption DEF TypeOK
  <2>2. TypeOK'
    BY <1>2, <1>4, <2>1 DEF TypeOK, rows, script, admission, running
  <2>3. cap' <= cap
    BY <1>2, <1>4, SchedulerAssumption DEF TypeOK
  <2>4. QED
    BY <1>1, <1>2, <1>4, <2>2, <2>3, QuietKeeps DEF script
<1>5. ASSUME repairs[q] > 0, repairs' = [repairs EXCEPT ![q] = @ - 1],
             UNCHANGED <<rows, cap, life, lives, script, admission, running, session, started,
                         nudges, held>>
      PROVE  SInv' /\ Binds
  <2>1. repairs' \in [Asks -> 0..RepairAttempts]
    BY <1>2, <1>5, SchedulerAssumption DEF TypeOK
  <2>2. TypeOK'
    BY <1>2, <1>5, <2>1 DEF TypeOK, rows, script, admission, running
  <2>3. cap' <= cap
    BY <1>2, <1>5, SchedulerAssumption DEF TypeOK
  <2>4. QED
    BY <1>1, <1>2, <1>5, <2>2, <2>3, QuietKeeps DEF script
<1>6. CASE TurnEnds(q)
  BY <1>3, <1>4, <1>6, Zenon DEF TurnEnds
<1>7. CASE Submits(q)
  BY <1>3, <1>5, <1>7, Zenon DEF Submits
<1>8. CASE DriverFails(q)
  BY <1>3, <1>8, Zenon DEF DriverFails
<1>9. QED
  BY <1>6, <1>7, <1>8 DEF Reports

LEMMA SessionKeeps ==
    ASSUME SInv, NEW x \in Actors, Start(x) \/ SessionFails(x)
    PROVE  SInv' /\ Binds
<1>1. life = "running" /\ TypeOK /\ Live /\ \A p \in started : p \in current[ActorOf[p]]
  BY DEF SInv, Live, Start, SessionFails
<1>2. \A p \in current[x] : p \in Asks /\ ActorOf[p] = x
  <2>1. Lined(x, liveQueue[x], current[x], status, seq, nextAdmitSeq[x])
    BY <1>1 DEF Live, InLine
  <2>2. current[x] = {} \/ \E q \in Of(x) : current[x] = {q}
    BY <2>1, Zenon DEF Lined
  <2>3. QED
    BY <2>2 DEF Of
<1>3. CASE Start(x)
  <2>1. /\ session' = [session EXCEPT ![x] = "open"] /\ started' = started \cup current[x]
        /\ UNCHANGED <<rows, cap, life, lives, script, admission, running, repairs, nudges, held>>
    BY <1>3 DEF Start
  <2>2. TypeOK'
    BY <1>1, <2>1 DEF TypeOK, rows, script, admission, running
  <2>3. cap' <= cap
    BY <1>1, <2>1, SchedulerAssumption DEF TypeOK
  <2>4. \A p \in started' : p \in current[ActorOf[p]]
    BY <1>1, <1>2, <2>1
  <2>5. QED
    BY <1>1, <2>1, <2>2, <2>3, <2>4, QuietKeeps DEF script
<1>4. CASE SessionFails(x)
  <2>1. PICK q \in current[x] : Settle(q, "failed")
    BY <1>4 DEF SessionFails
  <2>2. session' \in [Actors -> {"none", "open", "broken"}]
    BY <1>1, <1>4 DEF SessionFails, TypeOK
  <2>3. q \in Asks /\ q \in current[ActorOf[q]]
    BY <1>2
  <2>4. QED
    BY <1>1, <2>1, <2>2, <2>3, SettleKeeps
<1>5. QED
  BY <1>3, <1>4

LEMMA ReleaseKeeps ==
    ASSUME SInv, NEW q \in Asks, Release(q)
    PROVE  SInv' /\ Binds
<1>1. /\ life = "running" /\ held' = held \ {q} /\ answered' = answered \cup {q}
      /\ UNCHANGED <<rows, cap, life, lives, asked, admission, running, turns>>
  BY DEF Release
<1>2. TypeOK /\ \A p \in started : p \in current[ActorOf[p]]
  BY <1>1 DEF SInv, Live
<1>3. TypeOK'
  BY <1>1, <1>2 DEF TypeOK, rows, admission, running, turns
<1>4. cap' <= cap
  BY <1>1, <1>2, SchedulerAssumption DEF TypeOK
<1>5. QED
  BY <1>1, <1>2, <1>3, <1>4, QuietKeeps DEF turns

LEMMA RetuneKeeps ==
    ASSUME SInv, NEW c \in Caps, Retune(c)
    PROVE  SInv' /\ Binds
<1>1. /\ life = "running" /\ cap' = c
      /\ UNCHANGED <<rows, life, lives, script, admission, turns, held>>
  BY DEF Retune
<1>2. /\ TypeOK /\ NoIdleCapacity /\ Live /\ cap \in Nat /\ c \in Nat
      /\ \A p \in started : p \in current[ActorOf[p]]
  BY <1>1, SchedulerAssumption DEF SInv, Live, TypeOK
<1>3. CASE c > cap
  <2>1. Dispatch(Actors, liveQueue, current, activeAsks, c)
    BY <1>3 DEF Retune
  <2>2. /\ status' = status /\ seq' = seq /\ nextAdmitSeq' = nextAdmitSeq /\ started' = started
        /\ asked' = asked
    BY <1>1 DEF rows, admission, turns, script
  <2>3. \A y \in Actors : Lined(y, liveQueue[y], current[y], status', seq', nextAdmitSeq'[y])
    BY <1>2, <2>2 DEF Live, InLine
  <2>4. /\ \A p \in Asks : seq'[p] \in Nat
        /\ \A y \in Actors : nextAdmitSeq'[y] \in Nat
        /\ activeAsks \in Nat /\ activeAsks = Cardinality({y \in Actors : current[y] # {}})
    BY <1>2, <2>2 DEF TypeOK, NoIdleCapacity, Busy
  <2>5. Served(current, cap', status', seq', nextAdmitSeq')
    BY <1>1, <1>2, <2>1, <2>3, <2>4, Dispatched
  <2>6. TypeOK'
    BY <1>1, <1>2, <2>5 DEF TypeOK, Served, rows, script, admission, turns
  <2>7. Recorded' = Recorded
    BY <2>2 DEF Recorded
  <2>8. QED
    BY <1>1, <1>2, <2>2, <2>5, <2>6, <2>7, ServedKeeps
<1>4. CASE ~(c > cap)
  <2>1. UNCHANGED running
    BY <1>4 DEF Retune
  <2>2. TypeOK'
    BY <1>1, <1>2, <2>1 DEF TypeOK, rows, script, admission, running, turns
  <2>3. cap' <= cap
    BY <1>1, <1>2, <1>4
  <2>4. QED
    BY <1>1, <1>2, <2>1, <2>2, <2>3, QuietKeeps DEF script, turns
<1>5. QED
  BY <1>3, <1>4

\* A life ends, and another begins on what the journal has.
LEMMA LivesKeep ==
    ASSUME SInv, Halt \/ Finish \/ Resume
    PROVE  SInv' /\ Binds
<1>1. TypeOK /\ RowsInSequence
  BY DEF SInv
<1>2. CASE Halt \/ Finish
  <2>1. /\ life' \in {"down", "over"} /\ Forget /\ UNCHANGED <<rows, cap, lives>>
    BY <1>2 DEF Halt, Finish
  <2>2. status' = status /\ seq' = seq /\ cap' = cap /\ lives' = lives
    BY <2>1 DEF rows
  <2>3. Blank'
    BY <2>1 DEF Forget, Blank
  <2>4. TypeOK'
    <3>1. \A S : <<>> \in Seq(S)
      OBVIOUS
    <3>2. 0 \in 0..RepairAttempts /\ 0 \in 0..NudgeAttempts
      BY SchedulerAssumption
    <3>3. QED
      BY <1>1, <2>1, <2>2, <3>1, <3>2 DEF TypeOK, Forget
  <2>5. RowsInSequence'
    BY <1>1, <2>2 DEF RowsInSequence, Of, Recorded
  <2>6. NoIdleCapacity'
    BY <2>3, <2>4, BlankIdle, PTL
  <2>7. Binds
    BY <2>3 DEF Blank, Binds
  <2>8. QED
    BY <2>1, <2>3, <2>4, <2>5, <2>6, <2>7 DEF SInv
<1>3. CASE Resume
  <2>1. /\ life = "down" /\ life' = "running" /\ lives < MaxLives /\ lives' = lives + 1
        /\ recordedCount' = [x \in Actors |-> Cardinality(Of(x) \cap Recorded)]
        /\ UNCHANGED <<rows, cap, script, nextAdmitSeq, pendingRecorded, pendingLive, running,
                       turns, held>>
    BY <1>3 DEF Resume
  <2>2. Blank'
    BY <2>1 DEF SInv, Blank, script, running, turns
  <2>3. \A x \in Actors : Rows(x)' = Rows(x)
    BY <2>1 DEF Rows, Recorded, Of, rows
  <2>4. Counted'
    BY <2>1, <2>3 DEF Counted, Rows
  <2>5. TypeOK'
    <3>1. recordedCount' \in [Actors -> Nat]
      BY <1>1, <2>1, RowsApart DEF Rows
    <3>2. lives' \in 1..MaxLives
      BY <1>1, <2>1, SchedulerAssumption DEF TypeOK
    <3>3. QED
      BY <1>1, <2>1, <3>1, <3>2 DEF TypeOK, rows, script, running, turns
  <2>6. RowsInSequence'
    BY <1>1, <2>1 DEF RowsInSequence, Of, Recorded, rows
  <2>7. NoIdleCapacity'
    BY <2>2, <2>5, BlankIdle, PTL
  <2>8. Live'
    BY <2>2, <2>4, <2>5, <2>6, BlankLive, PTL
  <2>9. Binds
    BY <2>2 DEF Blank, Binds
  <2>10. QED
    BY <2>1, <2>5, <2>6, <2>7, <2>8, <2>9 DEF SInv
<1>4. QED
  BY <1>2, <1>3

LEMMA StutterKeeps ==
    ASSUME SInv, UNCHANGED vars
    PROVE  SInv' /\ Binds
<1>1. /\ UNCHANGED <<status, seq, cap, life, lives, asked, answered, session, started, repairs,
                     nudges, held>>
      /\ UNCHANGED <<nextAdmitSeq, recordedCount, pendingRecorded, pendingLive>>
      /\ UNCHANGED <<liveQueue, current, activeAsks>>
  BY DEF vars, rows, script, admission, running, turns
<1>2. TypeOK' /\ RowsInSequence' /\ NoIdleCapacity' /\ (Blank => Blank')
  <2>1. TypeOK'
    BY <1>1 DEF SInv, TypeOK
  <2>2. RowsInSequence'
    BY <1>1 DEF SInv, RowsInSequence, Of, Recorded
  <2>3. NoIdleCapacity'
    BY <1>1 DEF SInv, NoIdleCapacity, Busy
  <2>4. Blank => Blank'
    BY <1>1 DEF Blank
  <2>5. QED
    BY <2>1, <2>2, <2>3, <2>4
<1>3. CASE life = "running"
  <2>1. cap' <= cap
    BY <1>1, SchedulerAssumption DEF SInv, TypeOK
  <2>2. UNCHANGED <<rows, life, asked, admission, running>>
    BY <1>1 DEF rows, admission, running
  <2>3. \A p \in started' : p \in current[ActorOf[p]]
    BY <1>1, <1>3 DEF SInv, Live
  <2>4. QED
    BY <1>2, <1>3, <2>1, <2>2, <2>3, QuietKeeps
<1>4. CASE life # "running"
  BY <1>1, <1>2, <1>4 DEF SInv, Binds
<1>5. QED
  BY <1>3, <1>4

LEMMA SInvStep ==
    ASSUME SInv, [Next]_vars
    PROVE  SInv' /\ Binds
<1>1. ASSUME NEW q \in Asks, Ask(q) \/ Release(q) \/ Reports(q) PROVE SInv' /\ Binds
  BY <1>1, AskKeeps, ReleaseKeeps, ReportKeeps
<1>2. ASSUME NEW x \in Actors, Start(x) \/ SessionFails(x) PROVE SInv' /\ Binds
  BY <1>2, SessionKeeps
<1>3. ASSUME NEW c \in Caps, Retune(c) PROVE SInv' /\ Binds
  BY <1>3, RetuneKeeps
<1>4. CASE Halt \/ Resume \/ Finish
  BY <1>4, LivesKeep
<1>5. CASE UNCHANGED vars
  BY <1>5, StutterKeeps
<1>6. QED
  BY <1>1, <1>2, <1>3, <1>4, <1>5 DEF Next

LEMMA SInvAlways == Spec => []SInv
<1>1. SInv /\ [Next]_vars => SInv'
  BY SInvStep
<1>2. QED
  BY SInvInit, <1>1, PTL DEF Spec

-----------------------------------------------------------------------------
(* The ledger.                                                             *)

\* The refinement of the ledger's variables, as the instance in AskScheduler maps them.
Place == [q \in Asks |-> IF q \in Recorded THEN seq[q] ELSE -1]
Verdict == [q \in Asks |-> IF q \in Settled THEN status[q] ELSE "none"]

LEMMA LedgerLine ==
    ASSUME TypeOK, NEW x
    PROVE  {q \in Asks : ActorOf[q] = x /\ Place[q] # -1} = Rows(x)
BY DEF TypeOK, Rows, Of, Recorded, Place

\* The ledger counts with the same Cardinality.
LEMMA LedgerCounts ==
    ASSUME NEW S
    PROVE  Ledger!Cardinality(S) = Cardinality(S)
BY DEF Ledger!Cardinality, Cardinality

\* An ask admits the fresh asks that have been waiting, or none.
LEMMA AskAdmits ==
    ASSUME SInv, NEW q \in Asks, Ask(q)
    PROVE  Ledger!Admit(ActorOf[q])
<1> DEFINE x == ActorOf[q]
<1>1. x \in Actors /\ TypeOK /\ RowsInSequence /\ \A y \in Actors : Admits(y)
  BY SchedulerAssumption DEF Ask, SInv, Live
<1>2. PICK recorded, fresh, n, released, admitted, pumped :
          Drains(x, recorded, fresh, n, released, admitted, pumped)
  BY AskDrains, Zenon
<1>3. Drainable(x, recorded, fresh) /\ Drained(x, recorded, fresh, n, released, admitted)
  BY <1>2, Zenon DEF Drains
<1> HIDE DEF x
<1> DEFINE new == Members(admitted)
           l == Len(admitted)
           k == Cardinality(Rows(x))
           f == [p \in new |-> seq'[p]]
<1>4. /\ Len(admitted) \in Nat /\ admitted \in Seq(Asks) /\ new \subseteq Of(x) \ Recorded
      /\ Rows(x)' = Rows(x) \cup new /\ Cardinality(Rows(x)') = k + l
      /\ Settled' = Settled /\ Recorded' = Recorded \cup new
  BY <1>1, <1>3, DrainRows
<1>5. /\ admitted # <<>> => n = k
      /\ \A p \in Asks \ new : status'[p] = status[p] /\ seq'[p] = seq[p]
      /\ \A i \in 1..l : seq'[admitted[i]] = n - 1 + i
  BY <1>3 DEF Drained
<1>6. k \in Nat /\ IsFiniteSet(Rows(x)) /\ Rows(x) \cap new = {} /\ new \subseteq Asks
  BY <1>1, <1>4, RowsApart DEF Rows, Of
<1>7. IsFiniteSet(new) /\ Cardinality(new) = l
  <2>1. IsFiniteSet(new) /\ Cardinality(new) \in Nat
    BY <1>6, SchedulerAssumption, FS_Subset, FS_CardinalityType
  <2>2. Cardinality(Rows(x) \cup new) = k + Cardinality(new) - Cardinality(Rows(x) \cap new)
    BY <1>6, <2>1, FS_Union
  <2>3. Cardinality(Rows(x) \cap new) = 0
    BY <1>6, FS_EmptySet
  <2>4. QED
    BY <1>4, <1>6, <2>1, <2>2, <2>3
<1>8. ASSUME NEW p \in new PROVE \E i \in 1..l : p = admitted[i] /\ seq'[p] = k - 1 + i
  <2>1. PICK i \in 1..l : p = admitted[i]
    BY DEF Members
  <2>2. admitted # <<>>
    BY <1>4, <2>1
  <2>3. QED
    BY <1>5, <2>1, <2>2
<1>9. f \in [new -> k..(k + Cardinality(new) - 1)]
  BY <1>4, <1>6, <1>7, <1>8
<1>10. \A p, r \in new : f[p] = f[r] => p = r
  BY <1>4, <1>6, <1>8
<1>11. Place' = [p \in Asks |-> IF p \in new THEN f[p] ELSE Place[p]]
  <2>1. ASSUME NEW p \in Asks PROVE Place'[p] = IF p \in new THEN f[p] ELSE Place[p]
    BY <1>4, <1>5 DEF Place
  <2>2. QED
    BY <2>1 DEF Place
<1>12. Verdict' = Verdict
  <2>1. ASSUME NEW p \in Asks PROVE Verdict'[p] = Verdict[p]
    BY <1>4, <1>5 DEF Verdict, Settled, Recorded
  <2>2. QED
    BY <2>1 DEF Verdict
<1>13. new \in SUBSET {p \in Asks : ActorOf[p] = x /\ Place[p] = -1}
  BY <1>4, <1>6 DEF Place, Of
<1>14. Cardinality({p \in Asks : ActorOf[p] = x /\ Place[p] # -1}) = k
  BY <1>1, LedgerLine
<1> HIDE DEF new, f, k
<1>15. \E s \in SUBSET {p \in Asks : ActorOf[p] = x /\ Place[p] = -1} :
           \E g \in [s -> k..(k + Cardinality(s) - 1)] :
               /\ \A p, r \in s : g[p] = g[r] => p = r
               /\ Place' = [p \in Asks |-> IF p \in s THEN g[p] ELSE Place[p]]
               /\ Verdict' = Verdict
  BY <1>9, <1>10, <1>11, <1>12, <1>13
<1>16. Ledger!Admit(x)
  BY <1>14, <1>15, LedgerCounts DEF Ledger!Admit, Ledger!Line, Place, Verdict
<1>17. QED
  BY <1>16 DEF x

\* What is settled is the first ask of its line that has no answer.
LEMMA SettleAnswers ==
    ASSUME SInv, life = "running", NEW q \in Asks, q \in current[ActorOf[q]],
           NEW v \in {"completed", "failed"}, Settle(q, v)
    PROVE  Ledger!Answer(q)
<1> DEFINE x == ActorOf[q]
<1>1. /\ x \in Actors /\ q \in Of(x) /\ TypeOK
      /\ status' = [status EXCEPT ![q] = v] /\ seq' = seq
  BY SchedulerAssumption DEF Settle, SInv, Of
<1>2. Lined(x, liveQueue[x], current[x], status, seq, nextAdmitSeq[x])
  BY <1>1 DEF SInv, Live, InLine
<1>3. /\ status[q] = "running" /\ seq[q] < nextAdmitSeq[x] /\ current[x] = {q}
      /\ \A p \in Members(liveQueue[x]) : seq[q] < seq[p]
  BY <1>2 DEF Lined
<1>4. ASSUME NEW p \in Rows(x), seq[p] < seq[q] PROVE p \in Settled
  <2>1. seq[p] \in Nat /\ seq[q] \in Nat /\ nextAdmitSeq[x] \in Nat /\ p \in Of(x)
    BY <1>1 DEF TypeOK, Rows, Of
  <2>2. p \notin current[x] \cup Members(liveQueue[x])
    BY <1>3, <1>4, <2>1
  <2>3. seq[p] < nextAdmitSeq[x]
    BY <1>3, <1>4, <2>1
  <2>4. status[p] # "running"
    BY <1>2, <2>1, <2>2, <2>3 DEF Lined
  <2>5. QED
    BY <1>1, <2>4 DEF Settled, Rows, Recorded, Of, TypeOK
<1>5. Place' = Place /\ Place[q] # -1
  BY <1>1, <1>3 DEF Place, Recorded, TypeOK
<1>6. Verdict' = [Verdict EXCEPT ![q] = v] /\ Verdict[q] = "none"
  <2>1. ASSUME NEW p \in Asks PROVE Verdict'[p] = IF p = q THEN v ELSE Verdict[p]
    BY <1>1 DEF Verdict, Settled, TypeOK
  <2>2. Verdict[q] = "none"
    BY <1>3 DEF Verdict, Settled
  <2>3. QED
    BY <2>1, <2>2 DEF Verdict
<1>7. \A p \in {r \in Asks : ActorOf[r] = x /\ Place[r] # -1} :
          Place[p] < Place[q] => Verdict[p] # "none"
  <2> SUFFICES ASSUME NEW p \in Rows(x), Place[p] < Place[q] PROVE Verdict[p] # "none"
    BY <1>1, LedgerLine
  <2>1. Place[p] = seq[p] /\ Place[q] = seq[q] /\ p \in Asks
    BY <1>1, <1>3 DEF Place, Rows, Of, Recorded
  <2>2. p \in Settled
    BY <1>4, <2>1
  <2>3. QED
    BY <2>1, <2>2 DEF Verdict, Settled
<1>8. QED
  BY <1>5, <1>6, <1>7 DEF Ledger!Answer, Ledger!Line, Place, Verdict

LEMMA LedgerSame ==
    ASSUME UNCHANGED <<status, seq>>
    PROVE  UNCHANGED Ledger!vars
BY DEF Ledger!vars, Recorded, Settled

LEMMA LedgerStep ==
    ASSUME SInv, [Next]_vars
    PROVE  [Ledger!Next]_(Ledger!vars)
<1>1. ASSUME NEW q \in Asks, Ask(q) PROVE Ledger!Next
  <2>1. ActorOf[q] \in Actors
    BY SchedulerAssumption
  <2>2. QED
    BY <1>1, <2>1, AskAdmits DEF Ledger!Next
<1>2. ASSUME life = "running", NEW q \in Asks, q \in current[ActorOf[q]],
             NEW v \in {"completed", "failed"}, Settle(q, v)
      PROVE  Ledger!Next
  BY <1>2, SettleAnswers DEF Ledger!Next
<1>3. ASSUME NEW q \in Asks, Reports(q) PROVE Ledger!Next \/ UNCHANGED <<status, seq>>
  <2>1. life = "running" /\ q \in started
    BY <1>3 DEF Reports, TurnEnds, Submits, DriverFails
  <2>2. q \in current[ActorOf[q]]
    BY <2>1, StartedRuns
  <2>3. (\E v \in {"completed", "failed"} : Settle(q, v)) \/ UNCHANGED <<status, seq>>
    BY <1>3 DEF Reports, TurnEnds, Submits, DriverFails, rows
  <2>4. QED
    BY <1>2, <2>1, <2>2, <2>3
<1>4. ASSUME NEW x \in Actors, SessionFails(x) PROVE Ledger!Next
  <2>1. life = "running" /\ Lined(x, liveQueue[x], current[x], status, seq, nextAdmitSeq[x])
    BY <1>4 DEF SInv, Live, InLine, SessionFails
  <2>2. PICK q \in current[x] : Settle(q, "failed")
    BY <1>4 DEF SessionFails
  <2>3. q \in Of(x)
    BY <2>1, <2>2 DEF Lined
  <2>4. q \in Asks /\ ActorOf[q] = x
    BY <2>3 DEF Of
  <2>5. QED
    BY <1>2, <2>1, <2>2, <2>4
<1>5. ASSUME \/ \E q \in Asks : Release(q)
             \/ \E x \in Actors : Start(x)
             \/ \E c \in Caps : Retune(c)
             \/ Halt \/ Resume \/ Finish \/ UNCHANGED vars
      PROVE  UNCHANGED <<status, seq>>
  BY <1>5 DEF Release, Start, Retune, Halt, Resume, Finish, rows, vars
<1>6. Ledger!Next \/ UNCHANGED <<status, seq>>
  BY <1>1, <1>3, <1>4, <1>5 DEF Next
<1>7. QED
  BY <1>6, LedgerSame

-----------------------------------------------------------------------------
(* The theorems.                                                           *)

\* The state of the scheduler keeps its types through every life of the run.
THEOREM SchedulerTypeCorrect == Spec => []TypeOK
<1>1. SInv => TypeOK
  BY DEF SInv
<1>2. QED
  BY <1>1, SInvAlways, PTL

\* drainAdmission numbers the rows of an actor from zero without a gap and without a repetition,
\* whatever a resume finds in the journal and in whatever order the script asks.
THEOREM RowsAreInSequence == Spec => []RowsInSequence
<1>1. SInv => RowsInSequence
  BY DEF SInv
<1>2. QED
  BY <1>1, SInvAlways, PTL

\* After every admission, settlement and retune, pumpActor has left an ask in the queue of an idle
\* actor only for want of capacity, and activeAsks counts the asks being run.
THEOREM CapacityIsUsed == Spec => []NoIdleCapacity
<1>1. SInv => NoIdleCapacity
  BY DEF SInv
<1>2. QED
  BY <1>1, SInvAlways, PTL

\* No dispatch leaves more asks running than setMaxConcurrency allows.
THEOREM DispatchesWithinCap == Spec => CapBindsDispatch
<1>1. SInv /\ [Next]_vars =>
          [(\E x \in Actors : current'[x] \notin {{}, current[x]}) => Cardinality(Busy') <= cap']_vars
  BY SInvStep DEF Binds
<1>2. QED
  BY <1>1, SInvAlways, PTL DEF Spec, CapBindsDispatch

\* Across crashes and resumes, each actor answers the asks of its line one by one, in order, and
\* no answer is changed: the journal of the run is a behaviour of the ledger.
THEOREM SchedulerImplementsLedger == Spec => ImplementsLedger
<1>1. Init => Ledger!Init
  BY DEF Init, Ledger!Init, Recorded, Settled
<1>2. SInv /\ [Next]_vars => [Ledger!Next]_(Ledger!vars)
  BY LedgerStep
<1>3. QED
  BY <1>1, <1>2, SInvAlways, PTL DEF Spec, ImplementsLedger, Ledger!Spec
=============================================================================
