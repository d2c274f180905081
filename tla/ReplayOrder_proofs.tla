------------------------- MODULE ReplayOrder_proofs -------------------------
(***************************************************************************)
(* The safety properties of the replay gate, for every set of asks, every  *)
(* script and every number of lives.                                       *)
(***************************************************************************)
EXTENDS ReplayOrder, Engine_lemmas

-----------------------------------------------------------------------------
(* The recursion in Only, which need not take more than two facts: what it *)
(* makes of the empty line, and of one more at the end.                    *)

\* f has what Only leaves of every beginning of s.
Steps(f, s, S, A) ==
    /\ f \in [0..Len(s) -> Seq(A)]
    /\ f[0] = <<>>
    /\ \A n \in 1..Len(s) : f[n] = IF s[n] \in S THEN Append(f[n - 1], s[n]) ELSE f[n - 1]

Extend(f, n, a, S) ==
    [i \in 0..(n + 1) |-> IF i <= n THEN f[i] ELSE IF a \in S THEN Append(f[n], a) ELSE f[n]]

LEMMA StepsExtend ==
    ASSUME NEW A, NEW S, NEW s \in Seq(A), NEW a \in A, NEW f, Steps(f, s, S, A)
    PROVE  Steps(Extend(f, Len(s), a, S), Append(s, a), S, A)
<1> DEFINE n == Len(s)
           t == Append(s, a)
           g == Extend(f, n, a, S)
<1>1. /\ t \in Seq(A) /\ Len(t) = n + 1 /\ n \in Nat
      /\ \A i \in 1..n : t[i] = s[i]
      /\ t[n + 1] = a
  BY AppendProperties, LenProperties
<1>2. f[n] \in Seq(A) /\ Append(f[n], a) \in Seq(A)
  BY <1>1 DEF Steps
<1>3. g \in [0..(n + 1) -> Seq(A)]
  BY <1>1, <1>2 DEF Steps, Extend
<1>4. \A i \in 0..n : g[i] = f[i]
  BY <1>1 DEF Extend
<1>5. g[n + 1] = IF a \in S THEN Append(f[n], a) ELSE f[n]
  BY <1>1 DEF Extend
<1> HIDE DEF g, t
<1>6. ASSUME NEW i \in 1..(n + 1)
      PROVE  g[i] = IF t[i] \in S THEN Append(g[i - 1], t[i]) ELSE g[i - 1]
  <2>1. CASE i = n + 1
    BY <1>1, <1>4, <1>5, <2>1
  <2>2. CASE i # n + 1
    <3>1. i \in 1..n /\ i \in 0..n /\ i - 1 \in 0..n
      BY <1>1, <2>2
    <3>2. f[i] = IF s[i] \in S THEN Append(f[i - 1], s[i]) ELSE f[i - 1]
      BY <3>1 DEF Steps
    <3>3. QED
      BY <1>1, <1>4, <3>1, <3>2
  <2>3. QED
    BY <2>1, <2>2
<1>7. g[0] = <<>>
  BY <1>1, <1>4 DEF Steps
<1>8. QED
  BY <1>1, <1>3, <1>6, <1>7 DEF Steps, g, t

LEMMA StepsExist ==
    ASSUME NEW A, NEW S, NEW s \in Seq(A)
    PROVE  \E f : Steps(f, s, S, A)
<1> DEFINE G == {t \in Seq(A) : \E f : Steps(f, t, S, A)}
<1>1. <<>> \in G
  <2> DEFINE f == [n \in 0..0 |-> <<>>]
  <2>1. <<>> \in Seq(A) /\ Len(<<>>) = 0
    OBVIOUS
  <2>2. Steps(f, <<>>, S, A)
    BY <2>1 DEF Steps
  <2> HIDE DEF f
  <2>3. QED
    BY <2>1, <2>2
<1>2. ASSUME NEW t \in Seq(A), NEW a \in A, t \in G PROVE Append(t, a) \in G
  <2>1. PICK f : Steps(f, t, S, A)
    BY <1>2
  <2>2. Steps(Extend(f, Len(t), a, S), Append(t, a), S, A)
    BY <2>1, StepsExtend
  <2>3. QED
    BY <2>2
<1> HIDE DEF G
<1>3. Seq(A) \subseteq G
  BY <1>1, <1>2, LineInduction
<1>4. QED
  BY <1>3 DEF G

LEMMA OnlySteps ==
    ASSUME NEW A, NEW S, NEW s \in Seq(A), NEW f, Steps(f, s, S, A)
    PROVE  Only(s, S) = f[Len(s)]
<1> DEFINE Kept(h) == [n \in 0..Len(s) |->
                          IF n = 0 THEN <<>>
                          ELSE IF s[n] \in S THEN Append(h[n - 1], s[n]) ELSE h[n - 1]]
           k == CHOOSE h : h = Kept(h)
<1>1. Len(s) \in Nat
  BY LenProperties
<1>2. f = Kept(f)
  <2>1. DOMAIN f = 0..Len(s) /\ f = [n \in 0..Len(s) |-> f[n]]
    BY DEF Steps
  <2>2. ASSUME NEW n \in 0..Len(s)
        PROVE  f[n] = IF n = 0 THEN <<>>
                      ELSE IF s[n] \in S THEN Append(f[n - 1], s[n]) ELSE f[n - 1]
    <3>1. CASE n = 0
      BY <3>1 DEF Steps
    <3>2. CASE n # 0
      <4>1. n \in 1..Len(s)
        BY <1>1, <3>2
      <4>2. QED
        BY <3>2, <4>1 DEF Steps
    <3>3. QED
      BY <3>1, <3>2
  <2>3. QED
    BY <2>1, <2>2
<1>3. k = Kept(k)
  <2> HIDE DEF Kept
  <2>1. QED
    BY <1>2, Zenon
<1>4. Only(s, S) = k[Len(s)]
  BY DEF Only
<1> HIDE DEF k
<1>5. \A n \in 0..Len(s) :
         k[n] = IF n = 0 THEN <<>>
                ELSE IF s[n] \in S THEN Append(k[n - 1], s[n]) ELSE k[n - 1]
  <2>1. \A n \in 0..Len(s) : k[n] = Kept(k)[n]
    BY <1>3
  <2>2. QED
    BY <2>1
<1> DEFINE Bad == {n \in 0..Len(s) : k[n] # f[n]}
<1>6. ASSUME NEW n \in Bad, \A m \in Bad : n <= m PROVE FALSE
  <2>1. CASE n = 0
    BY <1>1, <1>6, <1>5, <2>1 DEF Steps
  <2>2. CASE n # 0
    <3>1. n \in 1..Len(s) /\ n - 1 \in 0..Len(s) /\ n - 1 \notin Bad
      BY <1>1, <1>6, <2>2
    <3>2. k[n - 1] = f[n - 1]
      BY <3>1
    <3>3. k[n] = IF s[n] \in S THEN Append(k[n - 1], s[n]) ELSE k[n - 1]
      <4>1. n \in 0..Len(s) /\ n # 0
        BY <1>1, <3>1
      <4>2. QED
        BY <1>5, <4>1
    <3>4. k[n] = f[n]
      BY <3>1, <3>2, <3>3 DEF Steps
    <3>5. QED
      BY <3>4
  <2>3. QED
    BY <2>1, <2>2
<1>7. Bad = {}
  <2>1. Bad \subseteq Nat
    BY <1>1
  <2> HIDE DEF Bad
  <2>2. QED
    BY <1>6, <2>1, LeastOf
<1>8. Len(s) \in 0..Len(s)
  BY <1>1
<1>9. QED
  BY <1>4, <1>7, <1>8

LEMMA OnlyEmpty == ASSUME NEW S PROVE Only(<<>>, S) = <<>>
<1>1. <<>> \in Seq({}) /\ Len(<<>>) = 0
  OBVIOUS
<1>2. PICK f : Steps(f, <<>>, S, {})
  BY <1>1, StepsExist
<1>3. QED
  BY <1>1, <1>2, OnlySteps DEF Steps

LEMMA OnlyAppend ==
    ASSUME NEW A, NEW S, NEW s \in Seq(A), NEW a \in A
    PROVE  /\ Only(s, S) \in Seq(A)
           /\ Only(Append(s, a), S) = IF a \in S THEN Append(Only(s, S), a) ELSE Only(s, S)
<1>1. PICK f : Steps(f, s, S, A)
  BY StepsExist
<1>2. Append(s, a) \in Seq(A) /\ Len(Append(s, a)) = Len(s) + 1 /\ Len(s) \in Nat
  BY AppendProperties, LenProperties
<1>3. Only(s, S) = f[Len(s)]
  BY <1>1, OnlySteps
<1>4. Only(Append(s, a), S) = Extend(f, Len(s), a, S)[Len(s) + 1]
  <2>1. Steps(Extend(f, Len(s), a, S), Append(s, a), S, A)
    BY <1>1, StepsExtend
  <2>2. QED
    BY <1>2, <2>1, OnlySteps
<1>5. Extend(f, Len(s), a, S)[Len(s) + 1] = IF a \in S THEN Append(f[Len(s)], a) ELSE f[Len(s)]
  BY <1>2 DEF Extend
<1>6. f[Len(s)] \in Seq(A)
  BY <1>1, <1>2 DEF Steps
<1>7. QED
  BY <1>3, <1>4, <1>5, <1>6

-----------------------------------------------------------------------------
(* What is left of a line, by induction over the line.                     *)

LEMMA MembersAppend ==
    ASSUME NEW A, NEW s \in Seq(A), NEW a \in A
    PROVE  Members(Append(s, a)) = Members(s) \cup {a}
<1>1. /\ Len(Append(s, a)) = Len(s) + 1 /\ Len(s) \in Nat
      /\ \A i \in 1..Len(s) : Append(s, a)[i] = s[i]
      /\ Append(s, a)[Len(s) + 1] = a
  BY AppendProperties, LenProperties
<1>2. 1..(Len(s) + 1) = (1..Len(s)) \cup {Len(s) + 1}
  BY <1>1
<1>3. QED
  BY <1>1, <1>2 DEF Members

LEMMA MembersConcat ==
    ASSUME NEW A, NEW s \in Seq(A), NEW t \in Seq(A)
    PROVE  Members(s \o t) = Members(s) \cup Members(t)
<1> DEFINE u == s \o t
<1>1. /\ Len(s) \in Nat /\ Len(t) \in Nat /\ Len(u) = Len(s) + Len(t)
      /\ \A i \in 1..(Len(s) + Len(t)) : u[i] = IF i <= Len(s) THEN s[i] ELSE t[i - Len(s)]
  BY ConcatProperties, LenProperties
<1> HIDE DEF u
<1>2. ASSUME NEW i \in 1..Len(u) PROVE u[i] \in Members(s) \cup Members(t)
  <2>1. CASE i <= Len(s)
    <3>1. i \in 1..Len(s) /\ u[i] = s[i]
      BY <1>1, <2>1
    <3>2. QED
      BY <3>1 DEF Members
  <2>2. CASE ~(i <= Len(s))
    <3>1. i - Len(s) \in 1..Len(t) /\ u[i] = t[i - Len(s)]
      BY <1>1, <2>2
    <3>2. QED
      BY <3>1 DEF Members
  <2>3. QED
    BY <2>1, <2>2
<1>3. ASSUME NEW i \in 1..Len(s) PROVE s[i] \in Members(u)
  <2>1. i \in 1..Len(u) /\ u[i] = s[i]
    BY <1>1
  <2>2. QED
    BY <2>1 DEF Members
<1>4. ASSUME NEW i \in 1..Len(t) PROVE t[i] \in Members(u)
  <2>1. Len(s) + i \in 1..Len(u) /\ ~(Len(s) + i <= Len(s)) /\ (Len(s) + i) - Len(s) = i
    BY <1>1
  <2>2. u[Len(s) + i] = t[i]
    BY <1>1, <2>1
  <2>3. QED
    BY <2>1, <2>2 DEF Members
<1>5. \A x \in Members(s) \cup Members(t) : x \in Members(u)
  BY <1>3, <1>4 DEF Members
<1>6. \A x \in Members(u) : x \in Members(s) \cup Members(t)
  BY <1>2 DEF Members
<1>7. QED
  BY <1>5, <1>6 DEF u

LEMMA MembersOf ==
    ASSUME NEW A, NEW s \in Seq(A)
    PROVE  /\ Members(s) \subseteq A
           /\ Members(<<>>) = {}
           /\ s # <<>> => Members(s) # {}
<1>1. Len(s) \in Nat /\ \A i \in 1..Len(s) : s[i] \in A
  BY LenProperties, ElementOfSeq
<1>2. s # <<>> => 1 \in 1..Len(s)
  BY <1>1, EmptySeq
<1>3. QED
  BY <1>1, <1>2 DEF Members

LEMMA Nobody == Members(<<>>) = {} /\ Len(<<>>) = 0 /\ \A A : <<>> \in Seq(A)
<1>1. Len(<<>>) = 0 /\ \A A : <<>> \in Seq(A)
  OBVIOUS
<1>2. QED
  BY <1>1 DEF Members

\* One ask makes a line.
LEMMA One ==
    ASSUME NEW A, NEW a \in A
    PROVE  <<a>> \in Seq(A) /\ Members(<<a>>) = {a} /\ Distinct(<<a>>)
<1>1. <<a>> \in Seq(A) /\ Len(<<a>>) = 1 /\ <<a>>[1] = a
  OBVIOUS
<1>2. 1..1 = {1}
  OBVIOUS
<1>3. QED
  BY <1>1, <1>2 DEF Members, Distinct

LEMMA OnlyInSeq ==
    ASSUME NEW A, NEW S, NEW s \in Seq(A)
    PROVE  Only(s, S) \in Seq(A)
<1> DEFINE G == {t \in Seq(A) : Only(t, S) \in Seq(A)}
<1>1. <<>> \in G
  <2>1. <<>> \in Seq(A)
    OBVIOUS
  <2>2. QED
    BY <2>1, OnlyEmpty
<1>2. ASSUME NEW t \in Seq(A), NEW a \in A, t \in G PROVE Append(t, a) \in G
  BY <1>2, OnlyAppend, AppendProperties
<1> HIDE DEF G
<1>3. Seq(A) \subseteq G
  BY <1>1, <1>2, LineInduction
<1>4. QED
  BY <1>3 DEF G

LEMMA OnlyMembers ==
    ASSUME NEW A, NEW S, NEW s \in Seq(A)
    PROVE  Members(Only(s, S)) = Members(s) \cap S
<1> DEFINE G == {t \in Seq(A) : Members(Only(t, S)) = Members(t) \cap S}
<1>1. <<>> \in G
  <2>1. <<>> \in Seq(A)
    OBVIOUS
  <2>2. QED
    BY <2>1, OnlyEmpty, MembersOf
<1>2. ASSUME NEW t \in Seq(A), NEW a \in A, t \in G PROVE Append(t, a) \in G
  <2>1. Members(Append(t, a)) = Members(t) \cup {a} /\ Append(t, a) \in Seq(A)
    BY MembersAppend, AppendProperties
  <2>2. Only(t, S) \in Seq(A)
    BY OnlyInSeq
  <2>3. Members(Append(Only(t, S), a)) = Members(Only(t, S)) \cup {a}
    BY <2>2, MembersAppend
  <2>4. Only(Append(t, a), S) = IF a \in S THEN Append(Only(t, S), a) ELSE Only(t, S)
    BY OnlyAppend
  <2>5. QED
    BY <1>2, <2>1, <2>3, <2>4
<1> HIDE DEF G
<1>3. Seq(A) \subseteq G
  BY <1>1, <1>2, LineInduction
<1>4. QED
  BY <1>3 DEF G

\* Two sets that agree on the members of a line leave the same of it.
LEMMA OnlySame ==
    ASSUME NEW A, NEW S, NEW T, NEW s \in Seq(A), Members(s) \cap S = Members(s) \cap T
    PROVE  Only(s, S) = Only(s, T)
<1> DEFINE G == {t \in Seq(A) : Members(t) \cap S = Members(t) \cap T => Only(t, S) = Only(t, T)}
<1>1. <<>> \in G
  <2>1. <<>> \in Seq(A)
    OBVIOUS
  <2>2. QED
    BY <2>1, OnlyEmpty
<1>2. ASSUME NEW t \in Seq(A), NEW a \in A, t \in G PROVE Append(t, a) \in G
  <2>1. Append(t, a) \in Seq(A)
    BY AppendProperties
  <2>2. SUFFICES ASSUME Members(Append(t, a)) \cap S = Members(Append(t, a)) \cap T
                 PROVE  Only(Append(t, a), S) = Only(Append(t, a), T)
    BY <2>1
  <2>3. (a \in S <=> a \in T) /\ Members(t) \cap S = Members(t) \cap T
    BY <2>2, MembersAppend
  <2>4. Only(Append(t, a), S) = IF a \in S THEN Append(Only(t, S), a) ELSE Only(t, S)
    BY OnlyAppend
  <2>5. Only(Append(t, a), T) = IF a \in T THEN Append(Only(t, T), a) ELSE Only(t, T)
    BY OnlyAppend
  <2>6. QED
    BY <1>2, <2>3, <2>4, <2>5
<1> HIDE DEF G
<1>3. Seq(A) \subseteq G
  BY <1>1, <1>2, LineInduction
<1>4. QED
  BY <1>3 DEF G

LEMMA OnlyAll ==
    ASSUME NEW A, NEW S, NEW s \in Seq(A), Members(s) \subseteq S
    PROVE  Only(s, S) = s
<1> DEFINE G == {t \in Seq(A) : Only(t, A) = t}
<1>1. <<>> \in G
  <2>1. <<>> \in Seq(A)
    OBVIOUS
  <2>2. QED
    BY <2>1, OnlyEmpty
<1>2. ASSUME NEW t \in Seq(A), NEW a \in A, t \in G PROVE Append(t, a) \in G
  <2>1. Only(Append(t, a), A) = Append(Only(t, A), a)
    BY OnlyAppend
  <2>2. QED
    BY <1>2, <2>1, AppendProperties
<1> HIDE DEF G
<1>3. Seq(A) \subseteq G
  BY <1>1, <1>2, LineInduction
<1>4. Members(s) \subseteq A
  BY MembersOf
<1>5. Only(s, S) = Only(s, A)
  BY <1>4, OnlySame
<1>6. QED
  BY <1>3, <1>5 DEF G

LEMMA OnlyNone ==
    ASSUME NEW A, NEW S, NEW s \in Seq(A), Members(s) \cap S = {}
    PROVE  Only(s, S) = <<>>
<1> DEFINE G == {t \in Seq(A) : Members(t) \cap S = {} => Only(t, S) = <<>>}
<1>1. <<>> \in G
  <2>1. <<>> \in Seq(A)
    OBVIOUS
  <2>2. QED
    BY <2>1, OnlyEmpty
<1>2. ASSUME NEW t \in Seq(A), NEW a \in A, t \in G PROVE Append(t, a) \in G
  <2>1. Append(t, a) \in Seq(A) /\ Members(Append(t, a)) = Members(t) \cup {a}
    BY AppendProperties, MembersAppend
  <2>2. Only(Append(t, a), S) = IF a \in S THEN Append(Only(t, S), a) ELSE Only(t, S)
    BY OnlyAppend
  <2>3. QED
    BY <1>2, <2>1, <2>2
<1> HIDE DEF G
<1>3. Seq(A) \subseteq G
  BY <1>1, <1>2, LineInduction
<1>4. QED
  BY <1>3 DEF G

LEMMA OnlyOnly ==
    ASSUME NEW A, NEW S, NEW T, NEW s \in Seq(A)
    PROVE  Only(Only(s, S), T) = Only(s, S \cap T)
<1> DEFINE G == {t \in Seq(A) : Only(Only(t, S), T) = Only(t, S \cap T)}
<1>1. <<>> \in G
  <2>1. <<>> \in Seq(A)
    OBVIOUS
  <2>2. QED
    BY <2>1, OnlyEmpty
<1>2. ASSUME NEW t \in Seq(A), NEW a \in A, t \in G PROVE Append(t, a) \in G
  <2>1. Only(t, S) \in Seq(A) /\ Append(t, a) \in Seq(A)
    BY OnlyInSeq, AppendProperties
  <2>2. Only(Append(t, a), S) = IF a \in S THEN Append(Only(t, S), a) ELSE Only(t, S)
    BY OnlyAppend
  <2>3. Only(Append(Only(t, S), a), T)
            = IF a \in T THEN Append(Only(Only(t, S), T), a) ELSE Only(Only(t, S), T)
    BY <2>1, OnlyAppend
  <2>4. Only(Append(t, a), S \cap T)
            = IF a \in S \cap T THEN Append(Only(t, S \cap T), a) ELSE Only(t, S \cap T)
    BY OnlyAppend
  <2>5. Only(Only(t, S), T) = Only(t, S \cap T)
    BY <1>2
  <2>6. Only(Only(Append(t, a), S), T) = Only(Append(t, a), S \cap T)
    <3>1. CASE a \in S /\ a \in T
      BY <2>2, <2>3, <2>4, <2>5, <3>1
    <3>2. CASE a \in S /\ a \notin T
      BY <2>2, <2>3, <2>4, <2>5, <3>2
    <3>3. CASE a \notin S
      BY <2>2, <2>4, <2>5, <3>3
    <3>4. QED
      BY <3>1, <3>2, <3>3
  <2>7. QED
    BY <2>1, <2>6
<1> HIDE DEF G
<1>3. Seq(A) \subseteq G
  BY <1>1, <1>2, LineInduction
<1>4. QED
  BY <1>3 DEF G

LEMMA OnlyConcat ==
    ASSUME NEW A, NEW S, NEW s \in Seq(A), NEW t \in Seq(A)
    PROVE  Only(s \o t, S) = Only(s, S) \o Only(t, S)
<1> DEFINE G == {u \in Seq(A) : Only(s \o u, S) = Only(s, S) \o Only(u, S)}
<1>1. <<>> \in G
  <2>1. <<>> \in Seq(A) /\ s \o <<>> = s
    BY ConcatEmptySeq
  <2>2. Only(s, S) \o <<>> = Only(s, S)
    BY OnlyInSeq, ConcatEmptySeq
  <2>3. QED
    BY <2>1, <2>2, OnlyEmpty
<1>2. ASSUME NEW u \in Seq(A), NEW a \in A, u \in G PROVE Append(u, a) \in G
  <2>1. /\ <<a>> \in Seq(A) /\ s \o u \in Seq(A) /\ Append(u, a) \in Seq(A)
        /\ Only(s, S) \in Seq(A) /\ Only(u, S) \in Seq(A)
    BY OnlyInSeq, ConcatProperties, AppendProperties
  <2>2. s \o Append(u, a) = Append(s \o u, a)
    BY <2>1, AppendIsConcat, ConcatAssociative
  <2>3. Only(s, S) \o Append(Only(u, S), a) = Append(Only(s, S) \o Only(u, S), a)
    <3>1. Only(s, S) \o Only(u, S) \in Seq(A)
      BY <2>1, ConcatProperties
    <3>2. QED
      BY <2>1, <3>1, AppendIsConcat, ConcatAssociative
  <2>4. Only(Append(s \o u, a), S) = IF a \in S THEN Append(Only(s \o u, S), a) ELSE Only(s \o u, S)
    <3>1. ASSUME NEW w \in Seq(A)
          PROVE  Only(Append(w, a), S) = IF a \in S THEN Append(Only(w, S), a) ELSE Only(w, S)
      BY OnlyAppend
    <3>2. QED
      BY <2>1, <3>1, Zenon
  <2>5. Only(Append(u, a), S) = IF a \in S THEN Append(Only(u, S), a) ELSE Only(u, S)
    BY OnlyAppend
  <2>6. QED
    BY <1>2, <2>1, <2>2, <2>3, <2>4, <2>5
<1> HIDE DEF G
<1>3. Seq(A) \subseteq G
  BY <1>1, <1>2, LineInduction
<1>4. QED
  BY <1>3 DEF G

LEMMA DistinctAppend ==
    ASSUME NEW A, NEW s \in Seq(A), NEW a \in A, Distinct(Append(s, a))
    PROVE  Distinct(s) /\ a \notin Members(s)
<1>1. /\ Len(Append(s, a)) = Len(s) + 1 /\ Len(s) \in Nat
      /\ \A i \in 1..Len(s) : Append(s, a)[i] = s[i]
      /\ Append(s, a)[Len(s) + 1] = a
  BY AppendProperties, LenProperties
<1>2. \A i, j \in 1..(Len(s) + 1) : Append(s, a)[i] = Append(s, a)[j] => i = j
  BY <1>1 DEF Distinct
<1>3. \A i \in 1..Len(s) : i \in 1..(Len(s) + 1) /\ i # Len(s) + 1
  BY <1>1
<1>4. Len(s) + 1 \in 1..(Len(s) + 1)
  BY <1>1
<1>5. Distinct(s)
  BY <1>1, <1>2, <1>3 DEF Distinct
<1>6. \A i \in 1..Len(s) : s[i] # a
  BY <1>1, <1>2, <1>3, <1>4
<1>7. QED
  BY <1>5, <1>6 DEF Members

LEMMA OnlyDistinct ==
    ASSUME NEW A, NEW S, NEW s \in Seq(A), Distinct(s)
    PROVE  Distinct(Only(s, S))
<1> DEFINE G == {t \in Seq(A) : Distinct(t) => Distinct(Only(t, S))}
<1>1. <<>> \in G
  <2>1. <<>> \in Seq(A)
    OBVIOUS
  <2>2. QED
    BY <2>1, OnlyEmpty
<1>2. ASSUME NEW t \in Seq(A), NEW a \in A, t \in G PROVE Append(t, a) \in G
  <2>1. /\ Append(t, a) \in Seq(A) /\ Only(t, S) \in Seq(A)
        /\ Members(Only(t, S)) = Members(t) \cap S
    BY AppendProperties, OnlyInSeq, OnlyMembers
  <2>2. SUFFICES ASSUME Distinct(Append(t, a)) PROVE Distinct(Only(Append(t, a), S))
    BY <2>1
  <2>3. Distinct(t) /\ a \notin Members(t)
    BY <2>2, DistinctAppend
  <2>4. Only(Append(t, a), S) = IF a \in S THEN Append(Only(t, S), a) ELSE Only(t, S)
    BY OnlyAppend
  <2>5. QED
    BY <1>2, <2>1, <2>3, <2>4, Pushed
<1> HIDE DEF G
<1>3. Seq(A) \subseteq G
  BY <1>1, <1>2, LineInduction
<1>4. QED
  BY <1>3 DEF G

\* The members of a line but those of S: all that Except leaves.
LEMMA ExceptIsOnly ==
    ASSUME NEW A, NEW S, NEW s \in Seq(A)
    PROVE  /\ Except(s, S) = Only(s, A \ S)
           /\ Except(s, S) \in Seq(A)
           /\ Members(Except(s, S)) = Members(s) \ S
           /\ Distinct(s) => Distinct(Except(s, S))
<1>1. Members(s) \subseteq A
  BY MembersOf
<1>2. ASSUME NEW T, NEW U, Members(s) \cap T = Members(s) \cap U PROVE Only(s, T) = Only(s, U)
  BY <1>2, OnlySame
<1>3. Only(s, Members(s) \ S) = Only(s, A \ S)
  <2>1. Members(s) \cap (Members(s) \ S) = Members(s) \cap (A \ S)
    BY <1>1
  <2>2. QED
    BY <1>2, <2>1, Zenon
<1>4. QED
  BY <1>1, <1>3, OnlyInSeq, OnlyMembers, OnlyDistinct DEF Except

\* A part of a line.
LEMMA Part ==
    ASSUME NEW A, NEW p \in Seq(A), NEW m \in 1..(Len(p) + 1), NEW n \in (m - 1)..Len(p)
    PROVE  /\ SubSeq(p, m, n) \in Seq(A) /\ Len(SubSeq(p, m, n)) = n - m + 1
           /\ Members(SubSeq(p, m, n)) = {p[i] : i \in m..n}
           /\ Distinct(p) => Distinct(SubSeq(p, m, n))
<1> DEFINE part == SubSeq(p, m, n)
<1>1. Len(p) \in Nat /\ m \in Int /\ n \in Int /\ 1 <= m /\ n <= Len(p) /\ m - 1 <= n
  BY LenProperties
<1>2. \A i \in m..n : p[i] \in A
  BY <1>1, ElementOfSeq
<1>3. /\ part \in Seq(A)
      /\ Len(part) = IF m <= n THEN n - m + 1 ELSE 0
      /\ \A i \in 1..(n - m + 1) : part[i] = p[m + i - 1]
  BY <1>1, <1>2, SubSeqProperties, Z3
<1> HIDE DEF part
<1>4. Len(part) = n - m + 1
  BY <1>1, <1>3
<1>5. \A i \in 1..Len(part) : m + i - 1 \in m..n /\ part[i] = p[m + i - 1]
  BY <1>1, <1>3, <1>4
<1>6. \A i \in m..n : i - m + 1 \in 1..Len(part) /\ part[i - m + 1] = p[i]
  BY <1>1, <1>3, <1>4
<1>7. Members(part) = {p[i] : i \in m..n}
  <2>1. \A x \in Members(part) : x \in {p[i] : i \in m..n}
    BY <1>5 DEF Members
  <2>2. \A x \in {p[i] : i \in m..n} : x \in Members(part)
    BY <1>6 DEF Members
  <2>3. QED
    BY <2>1, <2>2
<1>8. ASSUME Distinct(p), NEW i \in 1..Len(part), NEW j \in 1..Len(part), part[i] = part[j]
      PROVE  i = j
  <2>1. m + i - 1 \in 1..Len(p) /\ m + j - 1 \in 1..Len(p)
    BY <1>1, <1>4
  <2>2. p[m + i - 1] = p[m + j - 1]
    BY <1>5, <1>8
  <2>3. m + i - 1 = m + j - 1
    BY <1>8, <2>1, <2>2 DEF Distinct
  <2>4. QED
    BY <1>1, <2>3
<1>9. QED
  BY <1>3, <1>4, <1>7, <1>8 DEF Distinct, part

LEMMA DistinctConcat ==
    ASSUME NEW A, NEW s \in Seq(A), NEW t \in Seq(A),
           Distinct(s), Distinct(t), Members(s) \cap Members(t) = {}
    PROVE  Distinct(s \o t)
<1> DEFINE G == {u \in Seq(A) : Distinct(u) /\ Members(s) \cap Members(u) = {} => Distinct(s \o u)}
<1>1. <<>> \in G
  <2>1. <<>> \in Seq(A) /\ s \o <<>> = s
    BY ConcatEmptySeq
  <2>2. QED
    BY <2>1
<1>2. ASSUME NEW u \in Seq(A), NEW a \in A, u \in G PROVE Append(u, a) \in G
  <2>1. Append(u, a) \in Seq(A)
    BY AppendProperties
  <2>2. SUFFICES ASSUME Distinct(Append(u, a)), Members(s) \cap Members(Append(u, a)) = {}
                 PROVE  Distinct(s \o Append(u, a))
    BY <2>1
  <2>3. Distinct(u) /\ a \notin Members(u) /\ Members(Append(u, a)) = Members(u) \cup {a}
    BY <2>2, DistinctAppend, MembersAppend
  <2>4. Distinct(s \o u)
    BY <1>2, <2>2, <2>3
  <2>5. s \o u \in Seq(A) /\ a \notin Members(s \o u)
    BY <2>2, <2>3, ConcatProperties, MembersConcat
  <2>6. s \o Append(u, a) = Append(s \o u, a)
    <3>1. <<a>> \in Seq(A)
      OBVIOUS
    <3>2. QED
      BY <2>5, <3>1, AppendIsConcat, ConcatAssociative
  <2>7. ASSUME NEW w \in Seq(A), Distinct(w), a \notin Members(w) PROVE Distinct(Append(w, a))
    BY <2>7, Pushed
  <2>8. QED
    BY <2>4, <2>5, <2>6, <2>7, Zenon
<1> HIDE DEF G
<1>3. Seq(A) \subseteq G
  BY <1>1, <1>2, LineInduction
<1>4. QED
  BY <1>3 DEF G

LEMMA DistinctTail ==
    ASSUME NEW A, NEW s \in Seq(A), NEW t \in Seq(A), Distinct(s \o t)
    PROVE  Distinct(t)
<1> DEFINE u == s \o t
<1>1. /\ Len(s) \in Nat /\ Len(t) \in Nat /\ Len(u) = Len(s) + Len(t)
      /\ \A i \in 1..(Len(s) + Len(t)) : u[i] = IF i <= Len(s) THEN s[i] ELSE t[i - Len(s)]
  BY ConcatProperties, LenProperties
<1>2. \A i, j \in 1..Len(u) : u[i] = u[j] => i = j
  BY DEF Distinct
<1> HIDE DEF u
<1>3. \A i \in 1..Len(t) : Len(s) + i \in 1..Len(u) /\ u[Len(s) + i] = t[i]
  <2>1. ASSUME NEW i \in 1..Len(t) PROVE Len(s) + i \in 1..Len(u) /\ u[Len(s) + i] = t[i]
    <3>1. Len(s) + i \in 1..Len(u) /\ ~(Len(s) + i <= Len(s)) /\ (Len(s) + i) - Len(s) = i
      BY <1>1
    <3>2. QED
      BY <1>1, <3>1
  <2>2. QED
    BY <2>1
<1>4. ASSUME NEW i \in 1..Len(t), NEW j \in 1..Len(t), t[i] = t[j] PROVE i = j
  <2>1. Len(s) + i = Len(s) + j
    BY <1>2, <1>3, <1>4
  <2>2. QED
    BY <1>1, <2>1
<1>5. QED
  BY <1>4 DEF Distinct

-----------------------------------------------------------------------------
(* Lines that hold, before each ask, the answers it awaits.                *)

\* Of the line s, the asks that are awaited by one come before it, and are of S.
ClosedIn(s, S) == \A i \in 1..Len(s) : After[s[i]] \subseteq First(s, i - 1) \cap S

LEMMA ClosedAppend ==
    ASSUME NEW S, NEW s \in Seq(Asks), NEW a \in Asks
    PROVE  ClosedIn(Append(s, a), S) <=> ClosedIn(s, S) /\ After[a] \subseteq Members(s) \cap S
<1> DEFINE t == Append(s, a)
           n == Len(s)
<1>1. /\ n \in Nat /\ Len(t) = n + 1
      /\ \A i \in 1..n : t[i] = s[i]
      /\ t[n + 1] = a
  BY AppendProperties, LenProperties
<1> HIDE DEF t
<1>2. ASSUME NEW i \in 1..(n + 1) PROVE First(t, i - 1) = First(s, i - 1)
  <2>1. \A j \in 1..(i - 1) : j \in 1..n
    BY <1>1
  <2>2. QED
    BY <1>1, <2>1 DEF First
<1>3. First(s, n) = Members(s)
  BY DEF First, Members
<1>4. n + 1 \in 1..(n + 1) /\ (n + 1) - 1 = n /\ \A i \in 1..n : i \in 1..(n + 1)
  BY <1>1
<1>5. ASSUME ClosedIn(t, S) PROVE ClosedIn(s, S) /\ After[a] \subseteq Members(s) \cap S
  <2>1. \A i \in 1..(n + 1) : After[t[i]] \subseteq First(t, i - 1) \cap S
    BY <1>1, <1>5 DEF ClosedIn
  <2>2. After[a] \subseteq Members(s) \cap S
    <3>1. After[t[n + 1]] \subseteq First(t, (n + 1) - 1) \cap S
      BY <1>4, <2>1, Zenon
    <3>2. First(t, (n + 1) - 1) = First(s, (n + 1) - 1)
      BY <1>2, <1>4, Zenon
    <3>3. QED
      BY <1>1, <1>3, <1>4, <3>1, <3>2
  <2>3. ASSUME NEW i \in 1..n PROVE After[s[i]] \subseteq First(s, i - 1) \cap S
    <3>1. After[t[i]] \subseteq First(t, i - 1) \cap S /\ t[i] = s[i]
      BY <1>1, <1>4, <2>1
    <3>2. First(t, i - 1) = First(s, i - 1)
      BY <1>2, <1>4
    <3>3. QED
      BY <3>1, <3>2
  <2>4. QED
    BY <2>2, <2>3 DEF ClosedIn
<1>6. ASSUME ClosedIn(s, S), After[a] \subseteq Members(s) \cap S PROVE ClosedIn(t, S)
  <2>1. ASSUME NEW i \in 1..(n + 1) PROVE After[t[i]] \subseteq First(t, i - 1) \cap S
    <3>1. CASE i = n + 1
      BY <1>1, <1>2, <1>3, <1>4, <1>6, <3>1
    <3>2. CASE i # n + 1
      <4>1. i \in 1..n /\ t[i] = s[i]
        BY <1>1, <3>2
      <4>2. After[s[i]] \subseteq First(s, i - 1) \cap S
        BY <1>6, <4>1 DEF ClosedIn
      <4>3. QED
        BY <1>2, <4>1, <4>2
    <3>3. QED
      BY <3>1, <3>2
  <2>2. QED
    BY <1>1, <2>1 DEF ClosedIn
<1>7. QED
  BY <1>5, <1>6 DEF t

LEMMA ClosedEmpty == ASSUME NEW S PROVE ClosedIn(<<>>, S)
<1>1. Len(<<>>) = 0
  OBVIOUS
<1>2. QED
  BY <1>1 DEF ClosedIn

LEMMA ClosedOnly ==
    ASSUME NEW S, NEW s \in Seq(Asks), ClosedIn(s, S)
    PROVE  ClosedIn(Only(s, S), S)
<1> DEFINE G == {t \in Seq(Asks) : ClosedIn(t, S) => ClosedIn(Only(t, S), S)}
<1>1. <<>> \in G
  <2>1. <<>> \in Seq(Asks)
    OBVIOUS
  <2>2. QED
    BY <2>1, OnlyEmpty
<1>2. ASSUME NEW t \in Seq(Asks), NEW a \in Asks, t \in G PROVE Append(t, a) \in G
  <2>1. /\ Append(t, a) \in Seq(Asks) /\ Only(t, S) \in Seq(Asks)
        /\ Members(Only(t, S)) = Members(t) \cap S
    BY AppendProperties, OnlyInSeq, OnlyMembers
  <2>2. SUFFICES ASSUME ClosedIn(Append(t, a), S) PROVE ClosedIn(Only(Append(t, a), S), S)
    BY <2>1
  <2>3. ClosedIn(t, S) /\ After[a] \subseteq Members(t) \cap S
    BY <2>2, ClosedAppend
  <2>4. ClosedIn(Only(t, S), S) /\ After[a] \subseteq Members(Only(t, S)) \cap S
    BY <1>2, <2>1, <2>3
  <2>5. ClosedIn(Append(Only(t, S), a), S)
    BY <2>1, <2>4, ClosedAppend
  <2>6. Only(Append(t, a), S) = IF a \in S THEN Append(Only(t, S), a) ELSE Only(t, S)
    BY OnlyAppend
  <2>7. QED
    BY <2>4, <2>5, <2>6
<1> HIDE DEF G
<1>3. Seq(Asks) \subseteq G
  BY <1>1, <1>2, LineInduction
<1>4. QED
  BY <1>3 DEF G

LEMMA ClosedConcat ==
    ASSUME NEW S, NEW s \in Seq(Asks), NEW t \in Seq(Asks), ClosedIn(s, S),
           \A q \in Members(t) : After[q] \subseteq Members(s) \cap S
    PROVE  ClosedIn(s \o t, S)
<1> DEFINE G == {u \in Seq(Asks) : (\A q \in Members(u) : After[q] \subseteq Members(s) \cap S)
                                      => ClosedIn(s \o u, S)}
<1>1. <<>> \in G
  <2>1. <<>> \in Seq(Asks) /\ s \o <<>> = s
    BY ConcatEmptySeq
  <2>2. QED
    BY <2>1
<1>2. ASSUME NEW u \in Seq(Asks), NEW a \in Asks, u \in G PROVE Append(u, a) \in G
  <2>1. Append(u, a) \in Seq(Asks) /\ Members(Append(u, a)) = Members(u) \cup {a}
    BY AppendProperties, MembersAppend
  <2>2. SUFFICES ASSUME \A q \in Members(Append(u, a)) : After[q] \subseteq Members(s) \cap S
                 PROVE  ClosedIn(s \o Append(u, a), S)
    BY <2>1
  <2>3. ClosedIn(s \o u, S) /\ After[a] \subseteq Members(s) \cap S
    BY <1>2, <2>1, <2>2
  <2>4. s \o u \in Seq(Asks) /\ After[a] \subseteq Members(s \o u) \cap S
    BY <2>3, ConcatProperties, MembersConcat
  <2>5. s \o Append(u, a) = Append(s \o u, a)
    <3>1. <<a>> \in Seq(Asks)
      OBVIOUS
    <3>2. QED
      BY <2>4, <3>1, AppendIsConcat, ConcatAssociative
  <2>6. ASSUME NEW w \in Seq(Asks), ClosedIn(w, S), After[a] \subseteq Members(w) \cap S
        PROVE  ClosedIn(Append(w, a), S)
    BY <2>6, ClosedAppend
  <2>7. QED
    BY <2>3, <2>4, <2>5, <2>6, Zenon
<1> HIDE DEF G
<1>3. Seq(Asks) \subseteq G
  BY <1>1, <1>2, LineInduction
<1>4. QED
  BY <1>3 DEF G

-----------------------------------------------------------------------------
(* The inductive invariant.                                                *)

\* The journal, which outlives the lives: an ask is logged once, after the settled asks whose
\* answers it awaited; but for the cancelled ones, the log is the order of the first answers.
Journal ==
    /\ Distinct(Logbook)
    /\ ClosedIn(Logbook, Settled)
    /\ Members(firstSeen) \subseteq Members(Logbook)
    /\ Only(Logbook, Asks \ Cancelled) = Only(firstSeen, Asks \ Cancelled)

\* The table is a part of the log, also of the log as it has grown since.
Table ==
    /\ order = Only(Logbook, Members(order))
    /\ Members(order) \subseteq Settled
    /\ TableClosed

\* What a life knows of the script: nothing is asked before what it awaits is answered, and only
\* what is settled is answered or waits at the gate.
Answered ==
    /\ Members(seen) \subseteq Settled \cap Members(Logbook)
    /\ \A q \in Asked : After[q] \subseteq Members(seen)
    /\ parked \cup Members(queue) \subseteq Settled

\* The asks being run are not settled, but for the one whose event is not yet written.
Running ==
    /\ Distinct(inFlight)
    /\ Members(inFlight) \cap Settled = writing
    /\ \A p, q \in writing : p = q
    /\ Members(inFlight) \cap Members(order) = {}

\* The gate: the table up to the cursor is released, the next entry has not been asked for.
Gate ==
    /\ Only(seen, Members(order)) \o queue = SubSeq(order, 1, cursor)
    /\ parked \subseteq Members(SubSeq(order, cursor + 1, Len(order)))
    /\ cursor < Len(order) => order[cursor + 1] \notin parked

RInv == TypeOK /\ Journal /\ Table /\ (life # 0 => Answered /\ Running /\ Gate)

\* The gate waits for nothing the script cannot do.
WaitsForAskable ==
    life # 0 /\ parked # {} /\ queue = <<>> =>
        /\ cursor < Len(order)
        /\ order[cursor + 1] \notin Asked
        /\ After[order[cursor + 1]] \subseteq Members(seen)

-----------------------------------------------------------------------------
(* The log.                                                                *)

LEMMA LogbookType ==
    ASSUME TypeOK
    PROVE  /\ Logbook \in Seq(Asks) /\ Len(Logbook) = Len(log)
           /\ Members(Logbook) \subseteq Asks /\ Cancelled \subseteq Members(Logbook)
<1>1. Len(log) \in Nat /\ \A i \in 1..Len(log) : log[i] \in [ask : Asks, outcome : {"answered", "cancelled"}]
  BY LenProperties, ElementOfSeq DEF TypeOK
<1>2. Logbook \in [1..Len(log) -> Asks]
  BY <1>1 DEF Logbook
<1>3. Logbook \in Seq(Asks) /\ Len(Logbook) = Len(log)
  BY <1>1, <1>2, SeqDef DEF Logbook
<1>4. \A i \in 1..Len(log) : log[i].ask \in Members(Logbook)
  BY <1>3 DEF Members, Logbook
<1>5. QED
  BY <1>3, <1>4, MembersOf DEF Cancelled

\* What a write to the log does to its asks and to the cancelled ones among them.
LEMMA LogWritten ==
    ASSUME TypeOK, NEW s \in Seq(Asks), NEW outcome \in {"answered", "cancelled"},
           log' = Logged(s, outcome)
    PROVE  /\ log' \in Seq([ask : Asks, outcome : {"answered", "cancelled"}])
           /\ Logbook' = Logbook \o Except(s, Members(Logbook))
           /\ outcome = "answered" => Cancelled' = Cancelled
           /\ outcome = "cancelled"
                => Cancelled' = Cancelled \cup Members(Except(s, Members(Logbook)))
<1> DEFINE fresh == Except(s, Members(Logbook))
           tail == [i \in 1..Len(fresh) |-> [ask |-> fresh[i], outcome |-> outcome]]
           Event == [ask : Asks, outcome : {"answered", "cancelled"}]
           n == Len(log)
<1>1. fresh \in Seq(Asks)
  BY ExceptIsOnly
<1>2. log' = log \o tail
  BY DEF Logged
<1> HIDE DEF fresh
<1>3. Len(fresh) \in Nat /\ \A i \in 1..Len(fresh) : fresh[i] \in Asks
  BY <1>1, LenProperties, ElementOfSeq
<1>4. tail \in [1..Len(fresh) -> Event]
  BY <1>3
<1>5. tail \in Seq(Event) /\ Len(tail) = Len(fresh)
  BY <1>3, <1>4, SeqDef
<1>6. \A i \in 1..Len(fresh) : tail[i].ask = fresh[i] /\ tail[i].outcome = outcome
  OBVIOUS
<1> HIDE DEF tail
<1>7. log \in Seq(Event) /\ n \in Nat
  BY LenProperties DEF TypeOK
<1>8. /\ log' \in Seq(Event) /\ Len(log') = n + Len(fresh)
      /\ \A i \in 1..(n + Len(fresh)) : log'[i] = IF i <= n THEN log[i] ELSE tail[i - n]
  <2> HIDE DEF Event
  <2>1. /\ log \o tail \in Seq(Event) /\ Len(log \o tail) = Len(log) + Len(tail)
        /\ \A i \in 1..(Len(log) + Len(tail)) :
              (log \o tail)[i] = IF i <= Len(log) THEN log[i] ELSE tail[i - Len(log)]
    BY <1>5, <1>7, ConcatProperties
  <2>2. QED
    BY <1>2, <1>5, <2>1, Zenon
<1>9. \A i \in 1..n : i \in 1..Len(log') /\ log'[i] = log[i]
  BY <1>3, <1>7, <1>8
<1>10. \A i \in 1..Len(fresh) : n + i \in 1..Len(log') /\ log'[n + i] = tail[i]
  <2>1. ASSUME NEW i \in 1..Len(fresh) PROVE n + i \in 1..Len(log') /\ log'[n + i] = tail[i]
    <3>1. n + i \in 1..Len(log') /\ ~(n + i <= n) /\ (n + i) - n = i
      BY <1>3, <1>7, <1>8
    <3>2. QED
      BY <1>8, <3>1
  <2>2. QED
    BY <2>1
<1>11. \A i \in 1..Len(log') : i \in 1..n \/ (i - n \in 1..Len(fresh) /\ i = n + (i - n))
  BY <1>3, <1>7, <1>8
<1>12. Logbook' = Logbook \o fresh
  <2> DEFINE l == Logbook \o fresh
  <2>1. /\ Logbook \in Seq(Asks) /\ Len(Logbook) = n
        /\ \A i \in 1..n : Logbook[i] = log[i].ask
    BY LogbookType DEF Logbook
  <2>2. /\ l \in Seq(Asks) /\ Len(l) = n + Len(fresh)
        /\ \A i \in 1..(n + Len(fresh)) : l[i] = IF i <= n THEN Logbook[i] ELSE fresh[i - n]
    <3>1. /\ l \in Seq(Asks) /\ Len(l) = Len(Logbook) + Len(fresh)
          /\ \A i \in 1..(Len(Logbook) + Len(fresh)) :
                l[i] = IF i <= Len(Logbook) THEN Logbook[i] ELSE fresh[i - Len(Logbook)]
      BY <1>1, <2>1, ConcatProperties
    <3>2. QED
      BY <2>1, <3>1, Zenon
  <2>3. Logbook' = [i \in 1..Len(log') |-> log'[i].ask]
    BY DEF Logbook
  <2>4. l = [i \in 1..Len(l) |-> l[i]]
    BY <2>2, LenProperties
  <2> HIDE DEF l
  <2>5. \A i \in 1..Len(log') : l[i] = log'[i].ask
    <3>1. ASSUME NEW i \in 1..Len(log') PROVE l[i] = log'[i].ask
      <4>1. CASE i <= n
        <5>1. i \in 1..n
          BY <4>1
        <5>2. QED
          BY <1>8, <1>9, <2>1, <2>2, <4>1, <5>1
      <4>2. CASE ~(i <= n)
        <5>1. i - n \in 1..Len(fresh)
          BY <1>7, <1>8, <1>11, <4>2
        <5>2. QED
          BY <1>6, <1>8, <2>2, <4>2, <5>1
      <4>3. QED
        BY <4>1, <4>2
    <3>2. QED
      BY <3>1
  <2>6. Len(l) = Len(log')
    BY <1>8, <2>2
  <2>7. QED
    BY <2>3, <2>4, <2>5, <2>6 DEF l
<1>13. Cancelled' = Cancelled \cup {fresh[i] : i \in {j \in 1..Len(fresh) : outcome = "cancelled"}}
  <2> DEFINE more == {fresh[i] : i \in {j \in 1..Len(fresh) : outcome = "cancelled"}}
             new == {log'[i].ask : i \in {j \in 1..Len(log') : log'[j].outcome = "cancelled"}}
  <2>1. ASSUME NEW x \in new PROVE x \in Cancelled \cup more
    <3>1. PICK i \in 1..Len(log') : x = log'[i].ask /\ log'[i].outcome = "cancelled"
      OBVIOUS
    <3>2. CASE i \in 1..n
      BY <1>9, <3>1, <3>2 DEF Cancelled
    <3>3. CASE i - n \in 1..Len(fresh) /\ i = n + (i - n)
      <4>1. log'[i] = tail[i - n]
        BY <1>10, <3>3
      <4>2. x = fresh[i - n] /\ outcome = "cancelled"
        BY <1>6, <3>1, <3>3, <4>1
      <4>3. QED
        BY <3>3, <4>2
    <3>4. QED
      BY <1>11, <3>2, <3>3
  <2>2. ASSUME NEW x \in Cancelled PROVE x \in new
    <3>1. PICK i \in 1..n : x = log[i].ask /\ log[i].outcome = "cancelled"
      BY DEF Cancelled
    <3>2. QED
      BY <1>9, <3>1
  <2>3. ASSUME NEW x \in more PROVE x \in new
    <3>1. PICK i \in 1..Len(fresh) : x = fresh[i] /\ outcome = "cancelled"
      OBVIOUS
    <3>2. n + i \in 1..Len(log') /\ log'[n + i].ask = x /\ log'[n + i].outcome = "cancelled"
      BY <1>6, <1>10, <3>1
    <3>3. QED
      BY <3>2
  <2>4. Cancelled' = new
    BY DEF Cancelled
  <2>5. QED
    BY <2>1, <2>2, <2>3, <2>4
<1>14. QED
  BY <1>8, <1>12, <1>13 DEF fresh, Members

-----------------------------------------------------------------------------
(* The parts of the step.                                                  *)

LEMMA SettledType == Settled \subseteq Asks /\ (row' = row => Settled' = Settled)
  BY DEF Settled

\* Asks that are logged when what they await is logged and settled keep the log in order, and a
\* table that is a part of it.
LEMMA LogGrows ==
    ASSUME TypeOK, Journal, Table, NEW s \in Seq(Asks), Distinct(s),
           \A q \in Members(s) : After[q] \subseteq Members(Logbook) \cap Settled,
           NEW outcome \in {"answered", "cancelled"}, log' = Logged(s, outcome),
           row' = row, order' = order
    PROVE  /\ Distinct(Logbook') /\ ClosedIn(Logbook', Settled')
           /\ Members(Logbook') = Members(Logbook) \cup Members(s)
           /\ Table'
<1> DEFINE fresh == Except(s, Members(Logbook))
<1>1. /\ fresh \in Seq(Asks) /\ Distinct(fresh)
      /\ Members(fresh) = Members(s) \ Members(Logbook)
  BY ExceptIsOnly
<1>2. Logbook' = Logbook \o fresh
  BY LogWritten
<1>3. Logbook \in Seq(Asks)
  BY LogbookType
<1> HIDE DEF fresh
<1>4. Distinct(Logbook \o fresh)
  BY <1>1, <1>3, DistinctConcat DEF Journal
<1>5. ClosedIn(Logbook \o fresh, Settled)
  BY <1>1, <1>3, ClosedConcat DEF Journal
<1>6. Members(Logbook \o fresh) = Members(Logbook) \cup Members(s)
  BY <1>1, <1>3, MembersConcat
<1>7. Only(Logbook \o fresh, Members(order)) = order
  <2>1. Members(order) \subseteq Members(Logbook)
    <3>1. Members(Only(Logbook, Members(order))) = Members(Logbook) \cap Members(order)
      BY <1>3, OnlyMembers
    <3>2. QED
      BY <3>1 DEF Table
  <2>2. Only(fresh, Members(order)) = <<>>
    BY <1>1, <2>1, OnlyNone
  <2>3. Only(Logbook \o fresh, Members(order))
            = Only(Logbook, Members(order)) \o Only(fresh, Members(order))
    BY <1>1, <1>3, OnlyConcat
  <2>4. order \in Seq(Asks) /\ Only(Logbook, Members(order)) = order
    BY DEF Table, TypeOK
  <2>5. order \o <<>> = order
    BY <2>4, ConcatEmptySeq
  <2>6. QED
    BY <2>2, <2>3, <2>4, <2>5
<1>8. Settled' = Settled
  BY SettledType
<1>9. Table'
  BY <1>2, <1>7, <1>8 DEF Table, TableClosed
<1>10. QED
  BY <1>2, <1>4, <1>5, <1>6, <1>8, <1>9

\* What is settled and logged may be answered.
LEMMA AnswerKeeps ==
    ASSUME TypeOK, Journal, Table, Answered, NEW s \in Seq(Asks), Distinct(s),
           Members(s) \subseteq Settled, \A q \in Members(s) : After[q] \subseteq Members(seen),
           Answer(s), row' = row, order' = order
    PROVE  /\ log' \in Seq([ask : Asks, outcome : {"answered", "cancelled"}])
           /\ seen' \in Seq(Asks) /\ firstSeen' \in Seq(Asks)
           /\ Journal' /\ Table'
           /\ Members(seen') = Members(seen) \cup Members(s)
           /\ Members(seen') \subseteq Settled' \cap Members(Logbook')
           /\ Only(seen', Members(order)) = Only(seen, Members(order)) \o Only(s, Members(order))
<1> DEFINE fresh == Except(s, Members(Logbook))
           first == Except(s, Members(firstSeen))
           Kept == Asks \ Cancelled
<1>1. /\ log' = Logged(s, "answered")
      /\ seen' = seen \o s
      /\ firstSeen' = firstSeen \o first
  BY DEF Answer
<1>2. seen \in Seq(Asks) /\ firstSeen \in Seq(Asks) /\ Logbook \in Seq(Asks)
  BY LogbookType DEF TypeOK
<1>3. /\ fresh \in Seq(Asks) /\ first \in Seq(Asks)
      /\ Members(fresh) = Members(s) \ Members(Logbook)
      /\ Members(first) = Members(s) \ Members(firstSeen)
      /\ fresh = Only(s, Asks \ Members(Logbook))
      /\ first = Only(s, Asks \ Members(firstSeen))
  BY <1>2, ExceptIsOnly
<1>4. /\ log' \in Seq([ask : Asks, outcome : {"answered", "cancelled"}])
      /\ Logbook' = Logbook \o fresh
      /\ Cancelled' = Cancelled
  BY <1>1, LogWritten
<1>5. /\ Distinct(Logbook') /\ ClosedIn(Logbook', Settled')
      /\ Members(Logbook') = Members(Logbook) \cup Members(s)
      /\ Table'
  <2>1. \A q \in Members(s) : After[q] \subseteq Members(Logbook) \cap Settled
    BY DEF Answered
  <2>2. QED
    BY <1>1, <2>1, LogGrows
<1> HIDE DEF fresh, first
<1>6. Members(firstSeen') = Members(firstSeen) \cup Members(s) /\ firstSeen' \in Seq(Asks)
  <2>1. Members(firstSeen \o first) = Members(firstSeen) \cup Members(first)
    <3>1. ASSUME NEW p \in Seq(Asks), NEW q \in Seq(Asks)
          PROVE  Members(p \o q) = Members(p) \cup Members(q)
      BY MembersConcat
    <3>2. QED
      BY <1>2, <1>3, <3>1, Zenon
  <2>2. firstSeen \o first \in Seq(Asks)
    BY <1>2, <1>3, ConcatProperties
  <2>3. QED
    BY <1>1, <1>3, <2>1, <2>2
<1>7. Members(firstSeen') \subseteq Members(Logbook')
  BY <1>5, <1>6 DEF Journal
<1>8. Only(fresh, Kept) = Only(first, Kept)
  <2>1. Members(Logbook) \cap Kept = Members(firstSeen) \cap Kept
    BY <1>2, OnlyMembers, Zenon DEF Journal
  <2>2. /\ Only(fresh, Kept) = Only(s, (Asks \ Members(Logbook)) \cap Kept)
        /\ Only(first, Kept) = Only(s, (Asks \ Members(firstSeen)) \cap Kept)
    BY <1>3, OnlyOnly
  <2>3. (Asks \ Members(Logbook)) \cap Kept = (Asks \ Members(firstSeen)) \cap Kept
    BY <2>1
  <2>4. QED
    BY <2>2, <2>3, Zenon
<1>9. Only(Logbook', Kept) = Only(firstSeen', Kept)
  <2>1. ASSUME NEW T, NEW p \in Seq(Asks), NEW q \in Seq(Asks)
        PROVE  Only(p \o q, T) = Only(p, T) \o Only(q, T)
    BY OnlyConcat
  <2> HIDE DEF Kept
  <2>2. Only(Logbook \o fresh, Kept) = Only(Logbook, Kept) \o Only(fresh, Kept)
    BY <1>2, <1>3, <2>1, Zenon
  <2>3. Only(firstSeen \o first, Kept) = Only(firstSeen, Kept) \o Only(first, Kept)
    BY <1>2, <1>3, <2>1, Zenon
  <2>4. Only(Logbook, Kept) = Only(firstSeen, Kept)
    BY DEF Journal, Kept
  <2>5. QED
    BY <1>1, <1>4, <1>8, <2>2, <2>3, <2>4, Zenon
<1>10. Journal'
  BY <1>4, <1>5, <1>7, <1>9 DEF Journal
<1>11. Members(seen') = Members(seen) \cup Members(s) /\ seen' \in Seq(Asks)
  BY <1>1, <1>2, MembersConcat, ConcatProperties
<1>12. Members(seen') \subseteq Settled' \cap Members(Logbook')
  BY <1>5, <1>11, SettledType DEF Answered
<1>13. Only(seen', Members(order)) = Only(seen, Members(order)) \o Only(s, Members(order))
  BY <1>1, <1>2, OnlyConcat
<1>14. QED
  BY <1>4, <1>5, <1>6, <1>10, <1>11, <1>12, <1>13

\* Rows only become settled, and the log does not care.
LEMMA RowsKeep ==
    ASSUME TypeOK, Journal, Table, UNCHANGED <<log, firstSeen, order>>, Settled \subseteq Settled'
    PROVE  Journal' /\ Table'
<1>1. Logbook' = Logbook /\ Cancelled' = Cancelled
  BY DEF Logbook, Cancelled
<1>2. ClosedIn(Logbook, Settled) => ClosedIn(Logbook, Settled')
  BY DEF ClosedIn
<1>3. Journal'
  BY <1>1, <1>2 DEF Journal
<1>4. Table'
  BY <1>1 DEF Table, TableClosed
<1>5. QED
  BY <1>3, <1>4

\* The gate opens as far as it can: Reach exists.
LEMMA ReachExists ==
    ASSUME TypeOK, NEW held
    PROVE  /\ Reach(held) \in cursor..Len(order)
           /\ \A i \in (cursor + 1)..Reach(held) : order[i] \in held
           /\ Reach(held) < Len(order) => order[Reach(held) + 1] \notin held
<1> DEFINE Stops == {n \in cursor..Len(order) : n < Len(order) => order[n + 1] \notin held}
           Far(n) == /\ \A i \in (cursor + 1)..n : order[i] \in held
                     /\ n < Len(order) => order[n + 1] \notin held
<1>1. Len(order) \in Nat /\ cursor \in 0..Len(order)
  BY LenProperties DEF TypeOK
<1>2. Stops \subseteq Nat /\ Stops # {}
  <2>1. Len(order) \in Stops
    BY <1>1
  <2>2. Stops \subseteq Nat
    BY <1>1
  <2>3. QED
    BY <2>1, <2>2
<1>3. PICK n \in Stops : \A m \in Stops : n <= m
  <2> HIDE DEF Stops
  <2>1. QED
    BY <1>2, LeastOf
<1>4. ASSUME NEW i \in (cursor + 1)..n, order[i] \notin held PROVE FALSE
  <2>1. i - 1 \in cursor..Len(order) /\ (i - 1) + 1 = i /\ i - 1 < n
    BY <1>1
  <2>2. i - 1 \in Stops
    BY <1>4, <2>1
  <2>3. n <= i - 1
    BY <1>3, <2>2
  <2>4. QED
    BY <1>1, <2>1, <2>3
<1>5. n \in cursor..Len(order) /\ Far(n)
  BY <1>4
<1>6. Reach(held) = CHOOSE m \in cursor..Len(order) : Far(m)
  BY DEF Reach
<1> HIDE DEF Far
<1>7. Reach(held) \in cursor..Len(order) /\ Far(Reach(held))
  BY <1>5, <1>6, Zenon
<1>8. QED
  BY <1>7 DEF Far

\* The table is typed, lists nobody twice, and is what is released followed by what is not.
LEMMA TableParts ==
    ASSUME TypeOK, Journal, Table
    PROVE  /\ Distinct(order)
           /\ SubSeq(order, 1, cursor) \in Seq(Asks)
           /\ Distinct(SubSeq(order, 1, cursor))
           /\ Members(SubSeq(order, 1, cursor)) = {order[i] : i \in 1..cursor}
           /\ SubSeq(order, cursor + 1, Len(order)) \in Seq(Asks)
           /\ Members(SubSeq(order, cursor + 1, Len(order))) = {order[i] : i \in (cursor + 1)..Len(order)}
           /\ Members(order) = Members(SubSeq(order, 1, cursor))
                                   \cup Members(SubSeq(order, cursor + 1, Len(order)))
<1>1. order \in Seq(Asks) /\ Len(order) \in Nat /\ cursor \in 0..Len(order)
  BY LenProperties DEF TypeOK
<1>2. Distinct(order)
  BY LogbookType, OnlyDistinct DEF Journal, Table
<1>3. /\ 1 \in 1..(Len(order) + 1) /\ cursor \in (1 - 1)..Len(order)
      /\ cursor + 1 \in 1..(Len(order) + 1) /\ Len(order) \in ((cursor + 1) - 1)..Len(order)
  BY <1>1
<1>4. 1..Len(order) = (1..cursor) \cup ((cursor + 1)..Len(order))
  BY <1>1
<1>5. /\ SubSeq(order, 1, cursor) \in Seq(Asks)
      /\ Distinct(SubSeq(order, 1, cursor))
      /\ Members(SubSeq(order, 1, cursor)) = {order[i] : i \in 1..cursor}
  BY <1>1, <1>2, <1>3, Part
<1>6. /\ SubSeq(order, cursor + 1, Len(order)) \in Seq(Asks)
      /\ Members(SubSeq(order, cursor + 1, Len(order))) = {order[i] : i \in (cursor + 1)..Len(order)}
  BY <1>1, <1>3, Part
<1>7. Members(order) = Members(SubSeq(order, 1, cursor))
                           \cup Members(SubSeq(order, cursor + 1, Len(order)))
  BY <1>4, <1>5, <1>6 DEF Members
<1>8. QED
  BY <1>2, <1>5, <1>6, <1>7

LEMMA ClosedTable ==
    ASSUME NEW S, NEW p \in Seq(Asks), ClosedIn(p, S)
    PROVE  \A i \in 1..Len(p) : After[p[i]] \subseteq Members(SubSeq(p, 1, i - 1))
<1>1. Len(p) \in Nat
  BY LenProperties
<1>2. ASSUME NEW i \in 1..Len(p) PROVE Members(SubSeq(p, 1, i - 1)) = First(p, i - 1)
  <2>1. 1 \in 1..(Len(p) + 1) /\ i - 1 \in (1 - 1)..Len(p)
    BY <1>1
  <2>2. QED
    BY <2>1, Part DEF First
<1>3. QED
  BY <1>2 DEF ClosedIn

-----------------------------------------------------------------------------
(* Every step keeps the invariant.                                         *)

LEMMA InitKeeps == Init => RInv
<1> SUFFICES ASSUME Init PROVE RInv
  OBVIOUS
<1>1. <<>> \in Seq(Asks) /\ Len(<<>>) = 0 /\ Members(<<>>) = {}
  BY Nobody
<1>2. log = <<>> /\ firstSeen = <<>> /\ order = <<>> /\ life = 0 /\ lives = 0
  BY DEF Init
<1>3. Len(log) = 0
  BY <1>1, <1>2
<1>4. TypeOK
  BY <1>1, <1>2, ReplayAssumption DEF Init, TypeOK
<1>5. Logbook = <<>>
  <2>1. Logbook \in Seq(Asks) /\ Len(Logbook) = 0
    BY <1>3, <1>4, LogbookType
  <2>2. QED
    BY <2>1, EmptySeq
<1>6. Journal
  BY <1>1, <1>2, <1>5, ClosedEmpty DEF Journal, Distinct
<1>7. Table
  BY <1>1, <1>2, <1>5, OnlyEmpty DEF Table, TableClosed
<1>8. QED
  BY <1>2, <1>4, <1>6, <1>7 DEF RInv

LEMMA BeginKeeps == RInv /\ Begin => RInv'
<1> SUFFICES ASSUME RInv, Begin PROVE RInv'
  OBVIOUS
<1>1. TypeOK /\ Journal /\ Logbook \in Seq(Asks)
  BY LogbookType DEF RInv
<1>2. /\ UNCHANGED <<row, log, firstSeen>> /\ lives' = lives + 1 /\ life' = lives + 1
      /\ lives < MaxLives
      /\ order' = Only(Logbook, Settled)
      /\ inFlight' = <<>> /\ writing' = {} /\ seen' = <<>>
      /\ cursor' = 0 /\ parked' = {} /\ queue' = <<>>
  BY DEF Begin, Recovered, journal
<1>3. Logbook' = Logbook /\ Cancelled' = Cancelled /\ Settled' = Settled
  BY <1>2 DEF Logbook, Cancelled, Settled
<1>4. <<>> \in Seq(Asks) /\ Len(<<>>) = 0 /\ Members(<<>>) = {}
  BY Nobody
<1>5. /\ order' \in Seq(Asks) /\ Len(order') \in Nat
      /\ Members(order') = Members(Logbook) \cap Settled
      /\ ClosedIn(order', Settled)
  BY <1>1, <1>2, OnlyInSeq, OnlyMembers, ClosedOnly, LenProperties DEF Journal
<1>6. TypeOK'
  <2>1. lives \in Nat /\ lives + 1 \in 0..MaxLives /\ lives + 1 \in 0..(lives + 1)
    BY <1>1, <1>2, ReplayAssumption DEF TypeOK
  <2>2. QED
    BY <1>1, <1>2, <1>4, <1>5, <2>1 DEF TypeOK
<1>7. Journal'
  BY <1>1, <1>2, <1>3 DEF Journal
<1>8. Table'
  <2>1. order' = Only(Logbook, Members(order'))
    <3>1. ASSUME NEW T, Members(Logbook) \cap Settled = Members(Logbook) \cap T
          PROVE  Only(Logbook, Settled) = Only(Logbook, T)
      BY <1>1, <3>1, OnlySame
    <3>2. Members(Logbook) \cap Settled = Members(Logbook) \cap Members(order')
      BY <1>5
    <3>3. QED
      BY <1>2, <3>1, <3>2, Zenon
  <2>2. \A i \in 1..Len(order') : After[order'[i]] \subseteq Members(SubSeq(order', 1, i - 1))
    BY <1>5, ClosedTable
  <2>3. Members(order') \subseteq Settled
    BY <1>5
  <2>4. QED
    BY <1>3, <2>1, <2>2, <2>3 DEF Table, TableClosed
<1>9. Answered' /\ Running'
  BY <1>2, <1>4 DEF Answered, Running, Asked, Distinct
<1>10. Gate'
  <2>1. SubSeq(order', 1, 0) = <<>>
    BY SubSeqEmpty
  <2>2. Only(<<>>, Members(order')) \o <<>> = <<>>
    BY <1>4, OnlyEmpty, ConcatEmptySeq
  <2>3. QED
    BY <1>2, <2>1, <2>2 DEF Gate
<1>11. QED
  BY <1>6, <1>7, <1>8, <1>9, <1>10 DEF RInv

\* An ask the gate lets through was never in the table, or else it would have been released.
LEMMA PassKeeps ==
    ASSUME RInv, NEW q \in Asks, Ask(q), row[q] = "settled",
           q \notin Members(SubSeq(order, cursor + 1, Len(order)))
    PROVE  RInv'
<1>1. /\ TypeOK /\ Journal /\ Table /\ Answered /\ Running /\ Gate
      /\ life # 0 /\ writing = {} /\ q \notin Asked /\ After[q] \subseteq Members(seen)
  BY DEF RInv, Ask
<1>2. /\ Answer(<<q>>)
      /\ UNCHANGED <<row, inFlight, life, lives, writing, order, cursor, parked, queue>>
  BY DEF Ask, Hold
<1>3. <<q>> \in Seq(Asks) /\ Members(<<q>>) = {q} /\ Distinct(<<q>>)
  BY One
<1>4. q \in Settled /\ Settled' = Settled
  BY <1>2 DEF Settled
<1>5. /\ log' \in Seq([ask : Asks, outcome : {"answered", "cancelled"}])
      /\ seen' \in Seq(Asks) /\ firstSeen' \in Seq(Asks)
      /\ Journal' /\ Table'
      /\ Members(seen') = Members(seen) \cup {q}
      /\ Members(seen') \subseteq Settled' \cap Members(Logbook')
      /\ Only(seen', Members(order)) = Only(seen, Members(order)) \o Only(<<q>>, Members(order))
  BY <1>1, <1>2, <1>3, <1>4, AnswerKeeps
<1>6. q \notin Members(order)
  <2>1. seen \in Seq(Asks) /\ queue \in Seq(Asks)
    BY <1>1 DEF TypeOK
  <2>2. Only(seen, Members(order)) \in Seq(Asks)
    BY <2>1, OnlyInSeq
  <2>3. Members(Only(seen, Members(order))) \subseteq Members(seen)
    BY <2>1, OnlyMembers
  <2>4. Members(SubSeq(order, 1, cursor)) = Members(Only(seen, Members(order))) \cup Members(queue)
    BY <1>1, <2>1, <2>2, MembersConcat DEF Gate
  <2>5. q \notin Members(SubSeq(order, 1, cursor))
    BY <1>1, <2>3, <2>4 DEF Asked
  <2>6. QED
    BY <1>1, <2>5, TableParts
<1>7. Only(seen', Members(order)) = Only(seen, Members(order))
  <2>1. Only(<<q>>, Members(order)) = <<>>
    BY <1>3, <1>6, OnlyNone
  <2>2. Only(seen, Members(order)) \in Seq(Asks)
    BY <1>1, OnlyInSeq DEF TypeOK
  <2>3. QED
    BY <1>5, <2>1, <2>2, ConcatEmptySeq
<1>8. TypeOK'
  BY <1>1, <1>2, <1>5 DEF TypeOK
<1>9. Asked' = Asked \cup {q}
  BY <1>2, <1>5 DEF Asked
<1>10. Answered'
  BY <1>1, <1>2, <1>4, <1>5, <1>9 DEF Answered
<1>11. Running'
  BY <1>1, <1>2, <1>4 DEF Running
<1>12. Gate'
  BY <1>1, <1>2, <1>7 DEF Gate
<1>13. QED
  BY <1>5, <1>8, <1>10, <1>11, <1>12 DEF RInv

\* An ask the gate holds releases the table up to the next entry that has not been asked for.
LEMMA HoldKeeps ==
    ASSUME RInv, NEW q \in Asks, Ask(q), row[q] = "settled",
           q \in Members(SubSeq(order, cursor + 1, Len(order)))
    PROVE  RInv'
<1> DEFINE held == parked \cup {q}
           n == Reach(held)
           released == SubSeq(order, cursor + 1, n)
<1>1. /\ TypeOK /\ Journal /\ Table /\ Answered /\ Running /\ Gate
      /\ life # 0 /\ writing = {} /\ q \notin Asked /\ After[q] \subseteq Members(seen)
  BY DEF RInv, Ask
<1>2. /\ cursor' = n /\ queue' = queue \o released /\ parked' = held \ Members(released)
      /\ UNCHANGED <<row, log, life, lives, inFlight, writing, seen, order, firstSeen>>
  BY DEF Ask, Hold
<1>3. q \in Settled /\ Settled' = Settled /\ Logbook' = Logbook /\ Cancelled' = Cancelled
  BY <1>2 DEF Settled, Logbook, Cancelled
<1>4. /\ n \in cursor..Len(order)
      /\ \A i \in (cursor + 1)..n : order[i] \in held
      /\ n < Len(order) => order[n + 1] \notin held
  BY <1>1, ReachExists
<1>5. order \in Seq(Asks) /\ Len(order) \in Nat /\ cursor \in 0..Len(order)
  BY <1>1, LenProperties DEF TypeOK
<1> HIDE DEF n
<1>6. n \in Nat /\ cursor \in Nat /\ cursor <= n /\ n <= Len(order)
  BY <1>4, <1>5
<1>7. released \in Seq(Asks) /\ Members(released) = {order[i] : i \in (cursor + 1)..n}
  <2>1. cursor + 1 \in 1..(Len(order) + 1) /\ n \in ((cursor + 1) - 1)..Len(order)
    BY <1>5, <1>6
  <2>2. QED
    BY <1>5, <2>1, Part
<1>8. Members(SubSeq(order, n + 1, Len(order))) = {order[i] : i \in (n + 1)..Len(order)}
  <2>1. n + 1 \in 1..(Len(order) + 1) /\ Len(order) \in ((n + 1) - 1)..Len(order)
    BY <1>5, <1>6
  <2>2. QED
    BY <1>5, <2>1, Part
<1>9. SubSeq(order, 1, cursor) \o released = SubSeq(order, 1, n)
  <2>1. /\ 1 \in 1..(Len(order) + 1) /\ cursor \in (1 - 1)..Len(order)
        /\ n \in cursor..Len(order)
    BY <1>5, <1>6
  <2>2. QED
    BY <1>5, <2>1, ConcatAdjacentSubSeq
<1> HIDE DEF released
<1>10. Members(released) \subseteq held
  BY <1>4, <1>7
<1>11. queue' \in Seq(Asks) /\ Members(queue') = Members(queue) \cup Members(released)
  <2>1. queue \in Seq(Asks)
    BY <1>1 DEF TypeOK
  <2>2. QED
    BY <1>2, <1>7, <2>1, MembersConcat, ConcatProperties
<1>12. TypeOK'
  <2>1. cursor' \in 0..Len(order) /\ parked' \subseteq Asks
    BY <1>1, <1>2, <1>6 DEF TypeOK
  <2>2. QED
    BY <1>1, <1>2, <1>11, <2>1 DEF TypeOK
<1>13. Journal' /\ Table'
  BY <1>1, <1>2, <1>3, RowsKeep
<1>14. Asked' = Asked \cup {q}
  BY <1>2, <1>10, <1>11 DEF Asked
<1>15. Answered'
  <2>1. parked' \cup Members(queue') \subseteq Settled'
    BY <1>1, <1>2, <1>3, <1>10, <1>11 DEF Answered
  <2>2. QED
    BY <1>1, <1>2, <1>3, <1>14, <2>1 DEF Answered
<1>16. Running'
  BY <1>1, <1>2, <1>3 DEF Running
<1>17. Gate'
  <2>1. Only(seen, Members(order)) \o queue' = SubSeq(order, 1, n)
    <3>1. seen \in Seq(Asks) /\ queue \in Seq(Asks)
      BY <1>1 DEF TypeOK
    <3>2. Only(seen, Members(order)) \in Seq(Asks)
      BY <3>1, OnlyInSeq
    <3>3. Only(seen, Members(order)) \o (queue \o released)
              = (Only(seen, Members(order)) \o queue) \o released
      BY <1>7, <3>1, <3>2, ConcatAssociative
    <3>4. QED
      BY <1>1, <1>2, <1>9, <3>3, Zenon DEF Gate
  <2>2. parked' \subseteq Members(SubSeq(order, n + 1, Len(order)))
    <3>1. held \subseteq {order[i] : i \in (cursor + 1)..Len(order)}
      BY <1>1, TableParts DEF Gate
    <3>2. \A i \in (cursor + 1)..Len(order) : i \in (cursor + 1)..n \/ i \in (n + 1)..Len(order)
      BY <1>5, <1>6
    <3>3. QED
      BY <1>2, <1>7, <1>8, <3>1, <3>2
  <2>3. n < Len(order) => order[n + 1] \notin parked'
    BY <1>2, <1>4
  <2>4. QED
    BY <1>2, <2>1, <2>2, <2>3 DEF Gate
<1>18. QED
  BY <1>12, <1>13, <1>15, <1>16, <1>17 DEF RInv

\* An ask that is not settled is run: it cannot stand in the table.
LEMMA RunKeeps ==
    ASSUME RInv, NEW q \in Asks, Ask(q), row[q] # "settled"
    PROVE  RInv'
<1>1. /\ TypeOK /\ Journal /\ Table /\ Answered /\ Running /\ Gate
      /\ life # 0 /\ writing = {} /\ q \notin Asked /\ After[q] \subseteq Members(seen)
  BY DEF RInv, Ask
<1>2. /\ row' = [row EXCEPT ![q] = "running"] /\ inFlight' = Append(inFlight, q)
      /\ UNCHANGED <<log, life, lives, writing, seen, order, cursor, parked, queue, firstSeen>>
  BY DEF Ask
<1>3. Settled' = Settled /\ q \notin Settled /\ Logbook' = Logbook
  BY <1>1, <1>2 DEF Settled, TypeOK, Logbook
<1>4. /\ inFlight' \in Seq(Asks) /\ Distinct(inFlight')
      /\ Members(inFlight') = Members(inFlight) \cup {q}
  BY <1>1, <1>2, Pushed DEF TypeOK, Running, Asked
<1>5. TypeOK'
  BY <1>1, <1>2, <1>4 DEF TypeOK
<1>6. Journal' /\ Table'
  BY <1>1, <1>2, <1>3, RowsKeep
<1>7. Asked' = Asked \cup {q}
  BY <1>2, <1>4 DEF Asked
<1>8. Answered'
  BY <1>1, <1>2, <1>3, <1>7 DEF Answered
<1>9. Running'
  BY <1>1, <1>2, <1>3, <1>4 DEF Running, Table
<1>10. Gate'
  BY <1>1, <1>2 DEF Gate
<1>11. QED
  BY <1>5, <1>6, <1>8, <1>9, <1>10 DEF RInv

LEMMA AskKeeps == ASSUME RInv, NEW q \in Asks, Ask(q) PROVE RInv'
BY PassKeeps, HoldKeeps, RunKeeps

LEMMA FlushKeeps == RInv /\ Flush => RInv'
<1> SUFFICES ASSUME RInv, Flush PROVE RInv'
  OBVIOUS
<1>1. /\ TypeOK /\ Journal /\ Table /\ Answered /\ Running /\ Gate /\ life # 0
  BY DEF RInv, Flush
<1>2. /\ Answer(queue) /\ queue' = <<>>
      /\ UNCHANGED <<row, life, lives, inFlight, writing, order, cursor, parked>>
  BY DEF Flush
<1>3. seen \in Seq(Asks) /\ queue \in Seq(Asks) /\ Only(seen, Members(order)) \in Seq(Asks)
  BY <1>1, OnlyInSeq DEF TypeOK
<1>4. Distinct(queue) /\ Members(queue) \subseteq Members(order)
  <2>1. Distinct(Only(seen, Members(order)) \o queue)
    BY <1>1, TableParts DEF Gate
  <2>2. Distinct(queue)
    BY <1>3, <2>1, DistinctTail
  <2>3. Members(SubSeq(order, 1, cursor)) = Members(Only(seen, Members(order))) \cup Members(queue)
    <3>1. ASSUME NEW p \in Seq(Asks) PROVE Members(p \o queue) = Members(p) \cup Members(queue)
      BY <1>3, MembersConcat
    <3>2. QED
      BY <1>1, <1>3, <3>1, Zenon DEF Gate
  <2>4. QED
    BY <1>1, <2>2, <2>3, TableParts
<1>5. Members(queue) \subseteq Settled /\ \A q \in Members(queue) : After[q] \subseteq Members(seen)
  BY <1>1 DEF Answered, Asked
<1>6. /\ log' \in Seq([ask : Asks, outcome : {"answered", "cancelled"}])
      /\ seen' \in Seq(Asks) /\ firstSeen' \in Seq(Asks)
      /\ Journal' /\ Table'
      /\ Members(seen') = Members(seen) \cup Members(queue)
      /\ Members(seen') \subseteq Settled' \cap Members(Logbook')
      /\ Only(seen', Members(order)) = Only(seen, Members(order)) \o Only(queue, Members(order))
  BY <1>1, <1>2, <1>3, <1>4, <1>5, AnswerKeeps
<1>7. Only(seen', Members(order)) \o <<>> = SubSeq(order, 1, cursor)
  <2>1. Only(queue, Members(order)) = queue
    BY <1>3, <1>4, OnlyAll
  <2>2. Only(seen', Members(order)) \in Seq(Asks)
    BY <1>6, OnlyInSeq
  <2>3. QED
    BY <1>1, <1>6, <2>1, <2>2, ConcatEmptySeq DEF Gate
<1>8. <<>> \in Seq(Asks) /\ Members(<<>>) = {}
  BY Nobody
<1>9. TypeOK'
  BY <1>1, <1>2, <1>6, <1>8 DEF TypeOK
<1>10. Asked' = Asked /\ Settled' = Settled
  BY <1>2, <1>6, <1>8, SettledType DEF Asked
<1>11. Answered'
  BY <1>1, <1>2, <1>6, <1>8, <1>10 DEF Answered
<1>12. Running'
  BY <1>1, <1>2, <1>10 DEF Running
<1>13. Gate'
  BY <1>1, <1>2, <1>7 DEF Gate
<1>14. QED
  BY <1>6, <1>9, <1>11, <1>12, <1>13 DEF RInv

LEMMA SettleRowKeeps == ASSUME RInv, NEW q \in Asks, SettleRow(q) PROVE RInv'
<1>1. /\ TypeOK /\ Journal /\ Table /\ Answered /\ Running /\ Gate
      /\ life # 0 /\ writing = {} /\ q \in Members(inFlight)
  BY DEF RInv, SettleRow
<1>2. /\ row' = [row EXCEPT ![q] = "settled"] /\ writing' = {q}
      /\ UNCHANGED <<log, life, lives, inFlight, seen, order, cursor, parked, queue, firstSeen>>
  BY DEF SettleRow
<1>3. Settled' = Settled \cup {q} /\ Logbook' = Logbook
  BY <1>1, <1>2 DEF Settled, TypeOK, Logbook
<1>4. TypeOK'
  BY <1>1, <1>2 DEF TypeOK
<1>5. Journal' /\ Table'
  BY <1>1, <1>2, <1>3, RowsKeep
<1>6. Answered'
  BY <1>1, <1>2, <1>3 DEF Answered, Asked
<1>7. Running'
  BY <1>1, <1>2, <1>3 DEF Running
<1>8. Gate'
  BY <1>1, <1>2 DEF Gate
<1>9. QED
  BY <1>4, <1>5, <1>6, <1>7, <1>8 DEF RInv

LEMMA SettleEventKeeps == RInv /\ SettleEvent => RInv'
<1> SUFFICES ASSUME RInv, SettleEvent PROVE RInv'
  OBVIOUS
<1>1. TypeOK /\ Journal /\ Table /\ Answered /\ Running /\ Gate /\ life # 0
  BY DEF RInv, SettleEvent
<1>2. PICK q \in writing : Answer(<<q>>) /\ inFlight' = Except(inFlight, {q})
  BY DEF SettleEvent
<1>3. writing' = {} /\ UNCHANGED <<row, life, lives, order, cursor, parked, queue>>
  BY DEF SettleEvent
<1>4. q \in Asks /\ q \in Settled /\ q \in Members(inFlight) /\ q \notin Members(order)
  BY <1>1 DEF TypeOK, Running
<1>5. <<q>> \in Seq(Asks) /\ Members(<<q>>) = {q} /\ Distinct(<<q>>)
  BY <1>4, One
<1>6. After[q] \subseteq Members(seen)
  BY <1>1, <1>4 DEF Answered, Asked
<1>7. /\ log' \in Seq([ask : Asks, outcome : {"answered", "cancelled"}])
      /\ seen' \in Seq(Asks) /\ firstSeen' \in Seq(Asks)
      /\ Journal' /\ Table'
      /\ Members(seen') = Members(seen) \cup {q}
      /\ Members(seen') \subseteq Settled' \cap Members(Logbook')
      /\ Only(seen', Members(order)) = Only(seen, Members(order)) \o Only(<<q>>, Members(order))
  BY <1>1, <1>2, <1>3, <1>4, <1>5, <1>6, AnswerKeeps
<1>8. Only(seen', Members(order)) = Only(seen, Members(order))
  <2>1. Only(<<q>>, Members(order)) = <<>>
    BY <1>4, <1>5, OnlyNone
  <2>2. Only(seen, Members(order)) \in Seq(Asks)
    BY <1>1, OnlyInSeq DEF TypeOK
  <2>3. QED
    BY <1>7, <2>1, <2>2, ConcatEmptySeq
<1>9. /\ inFlight' \in Seq(Asks) /\ Members(inFlight') = Members(inFlight) \ {q}
      /\ Distinct(inFlight')
  BY <1>1, <1>2, ExceptIsOnly DEF TypeOK, Running
<1>10. TypeOK'
  BY <1>1, <1>3, <1>7, <1>9 DEF TypeOK
<1>11. Asked' = Asked /\ Settled' = Settled
  BY <1>3, <1>4, <1>7, <1>9, SettledType DEF Asked
<1>12. Answered'
  BY <1>1, <1>3, <1>7, <1>11 DEF Answered
<1>13. Running'
  BY <1>1, <1>2, <1>3, <1>9, <1>11 DEF Running
<1>14. Gate'
  BY <1>1, <1>3, <1>8 DEF Gate
<1>15. QED
  BY <1>7, <1>10, <1>12, <1>13, <1>14 DEF RInv

LEMMA KillKeeps == RInv /\ Kill => RInv'
<1> SUFFICES ASSUME RInv, Kill PROVE RInv'
  OBVIOUS
<1>1. TypeOK /\ Journal /\ Table
  BY DEF RInv
<1>2. life' = 0 /\ UNCHANGED <<row, log, lives, memory, firstSeen>>
  BY DEF Kill, Down
<1>3. Settled' = Settled
  BY <1>2 DEF Settled
<1>4. Journal' /\ Table'
  BY <1>1, <1>2, <1>3, RowsKeep DEF memory
<1>5. TypeOK'
  BY <1>1, <1>2 DEF TypeOK, memory
<1>6. QED
  BY <1>2, <1>4, <1>5 DEF RInv

\* A stop cancels only what no life has answered.
LEMMA StopKeeps == RInv /\ Stop => RInv'
<1> SUFFICES ASSUME RInv, Stop PROVE RInv'
  OBVIOUS
<1> DEFINE fresh == Except(inFlight, Members(Logbook))
           Kept == Asks \ Cancelled
           KeptNow == Asks \ (Cancelled \cup Members(fresh))
<1>1. TypeOK /\ Journal /\ Table /\ Answered /\ Running
  BY DEF RInv, Stop
<1>2. life' = 0 /\ log' = Logged(inFlight, "cancelled") /\ UNCHANGED <<row, lives, memory, firstSeen>>
  BY DEF Stop, Down
<1>3. inFlight \in Seq(Asks) /\ Logbook \in Seq(Asks) /\ firstSeen \in Seq(Asks)
  BY <1>1, LogbookType DEF TypeOK
<1>4. fresh \in Seq(Asks) /\ Members(fresh) = Members(inFlight) \ Members(Logbook)
  BY <1>3, ExceptIsOnly
<1>5. /\ log' \in Seq([ask : Asks, outcome : {"answered", "cancelled"}])
      /\ Logbook' = Logbook \o fresh
      /\ Cancelled' = Cancelled \cup Members(fresh)
  BY <1>1, <1>2, <1>3, LogWritten
<1>6. /\ Distinct(Logbook') /\ ClosedIn(Logbook', Settled')
      /\ Members(Logbook') = Members(Logbook) \cup Members(inFlight)
      /\ Table'
  <2>1. \A q \in Members(inFlight) : After[q] \subseteq Members(Logbook) \cap Settled
    BY <1>1 DEF Answered, Asked
  <2>2. order' = order /\ row' = row /\ Distinct(inFlight)
    BY <1>1, <1>2 DEF memory, Running
  <2>3. QED
    BY <1>1, <1>2, <1>3, <2>1, <2>2, LogGrows
<1> HIDE DEF fresh
<1>7. Only(Logbook \o fresh, KeptNow) = Only(firstSeen, KeptNow)
  <2>1. ASSUME NEW p \in Seq(Asks), Members(p) \subseteq Members(Logbook)
        PROVE  Only(p, Kept) = Only(p, KeptNow)
    <3>1. Members(p) \cap Kept = Members(p) \cap KeptNow
      BY <1>4, <2>1
    <3>2. ASSUME NEW S, NEW T, Members(p) \cap S = Members(p) \cap T PROVE Only(p, S) = Only(p, T)
      BY <3>2, OnlySame
    <3>3. QED
      BY <3>1, <3>2, Zenon
  <2>2. Only(Logbook, Kept) = Only(Logbook, KeptNow) /\ Only(firstSeen, Kept) = Only(firstSeen, KeptNow)
    BY <1>1, <1>3, <2>1, Zenon DEF Journal
  <2>3. Only(fresh, KeptNow) = <<>>
    BY <1>4, OnlyNone
  <2> HIDE DEF KeptNow
  <2>4. Only(Logbook \o fresh, KeptNow) = Only(Logbook, KeptNow) \o Only(fresh, KeptNow)
    BY <1>3, <1>4, OnlyConcat
  <2>5. Only(Logbook, KeptNow) \o <<>> = Only(Logbook, KeptNow)
    BY <1>3, OnlyInSeq, ConcatEmptySeq
  <2>6. QED
    BY <1>1, <2>2, <2>3, <2>4, <2>5 DEF Journal
<1>8. Journal'
  BY <1>1, <1>2, <1>5, <1>6, <1>7 DEF Journal
<1>9. TypeOK'
  BY <1>1, <1>2, <1>5 DEF TypeOK, memory
<1>10. QED
  BY <1>2, <1>6, <1>8, <1>9 DEF RInv

LEMMA StutterKeeps == RInv /\ UNCHANGED vars => RInv'
<1> SUFFICES ASSUME RInv, UNCHANGED vars PROVE RInv'
  OBVIOUS
<1>1. UNCHANGED <<row, log, life, lives, inFlight, writing, seen, order, cursor, parked, queue, firstSeen>>
  BY DEF vars, journal, memory
<1>2. Settled' = Settled /\ Asked' = Asked
  BY <1>1 DEF Settled, Asked
<1>3. TypeOK'
  BY <1>1 DEF RInv, TypeOK
<1>4. Journal' /\ Table'
  BY <1>1, <1>2, RowsKeep DEF RInv
<1>5. life # 0 => Answered' /\ Running' /\ Gate'
  BY <1>1, <1>2 DEF RInv, Answered, Running, Gate, Logbook
<1>6. QED
  BY <1>1, <1>3, <1>4, <1>5 DEF RInv

LEMMA NextKeeps == RInv /\ [Next]_vars => RInv'
<1> SUFFICES ASSUME RInv, [Next]_vars PROVE RInv'
  OBVIOUS
<1>1. CASE Begin
  BY <1>1, BeginKeeps
<1>2. ASSUME NEW q \in Asks, Ask(q) PROVE RInv'
  BY <1>2, AskKeeps
<1>3. ASSUME NEW q \in Asks, SettleRow(q) PROVE RInv'
  BY <1>3, SettleRowKeeps
<1>4. CASE Flush
  BY <1>4, FlushKeeps
<1>5. CASE SettleEvent
  BY <1>5, SettleEventKeeps
<1>6. CASE Kill
  BY <1>6, KillKeeps
<1>7. CASE Stop
  BY <1>7, StopKeeps
<1>8. CASE UNCHANGED vars
  BY <1>8, StutterKeeps
<1>9. QED
  BY <1>1, <1>2, <1>3, <1>4, <1>5, <1>6, <1>7, <1>8 DEF Next

-----------------------------------------------------------------------------
(* The theorems.                                                           *)

LEMMA InvariantHolds == Spec => []RInv
<1>1. Init => RInv
  BY InitKeeps
<1>2. RInv /\ [Next]_vars => RInv'
  BY NextKeeps
<1>3. QED
  BY <1>1, <1>2, PTL DEF Spec

\* The state of the journal, of the gate and of the script keeps its type in every life, for every
\* set of asks, every script and every number of lives.
THEOREM ReplayTypeCorrect == Spec => []TypeOK
<1>1. RInv => TypeOK
  BY DEF RInv
<1>2. QED
  BY <1>1, InvariantHolds, PTL

\* The gate (ReplayOrder.hold) releases the recovered table in its order and without a gap,
\* whatever the order the script asks in and however its asks run meanwhile.
THEOREM ReleasesInTableOrder == Spec => []ReleasedInOrder
<1>1. RInv => ReleasedInOrder
  BY DEF RInv, Gate, ReleasedInOrder
<1>2. QED
  BY <1>1, InvariantHolds, PTL

\* In the table recoverSettleOrder reads from the journal, what an ask was asked after stands
\* before it, through any number of kills between the two writes of a settlement, and of stops.
THEOREM TableStaysClosed == Spec => []TableClosed
<1>1. RInv => TableClosed
  BY DEF RInv, Table
<1>2. QED
  BY <1>1, InvariantHolds, PTL

\* In the table, asks that were never cancelled stand in the order in which some life first
\* answered them: only the cancellations a stop logs can move an ask in it.
THEOREM UncancelledKeepTheirOrder == Spec => []UncancelledInSeenOrder
<1>1. ASSUME RInv PROVE UncancelledInSeenOrder
  <2> DEFINE O == Members(order)
             Kept == Asks \ Cancelled
  <2>1. /\ order \in Seq(Asks) /\ firstSeen \in Seq(Asks) /\ Logbook \in Seq(Asks)
        /\ O \subseteq Asks /\ Only(firstSeen, O) \in Seq(Asks)
    BY <1>1, LogbookType, OnlyInSeq, MembersOf DEF RInv, TypeOK
  <2>2. order = Only(Logbook, O) /\ Only(Logbook, Kept) = Only(firstSeen, Kept)
    BY <1>1 DEF RInv, Table, Journal
  <2> HIDE DEF O
  <2>3. Only(Only(Logbook, O), Kept) = Only(Only(Logbook, Kept), O)
    <3>1. Only(Only(Logbook, O), Kept) = Only(Logbook, O \cap Kept)
      BY <2>1, OnlyOnly
    <3>2. Only(Only(Logbook, Kept), O) = Only(Logbook, Kept \cap O)
      BY <2>1, OnlyOnly
    <3>3. O \cap Kept = Kept \cap O
      OBVIOUS
    <3>4. QED
      BY <3>1, <3>2, <3>3, Zenon
  <2>4. Only(Only(firstSeen, O), Kept) = Only(Only(firstSeen, Kept), O)
    <3>1. Only(Only(firstSeen, O), Kept) = Only(firstSeen, O \cap Kept)
      BY <2>1, OnlyOnly
    <3>2. Only(Only(firstSeen, Kept), O) = Only(firstSeen, Kept \cap O)
      BY <2>1, OnlyOnly
    <3>3. O \cap Kept = Kept \cap O
      OBVIOUS
    <3>4. QED
      BY <3>1, <3>2, <3>3, Zenon
  <2>5. Only(order, Kept) = Only(Only(firstSeen, O), Kept)
    BY <2>2, <2>3, <2>4, Zenon
  <2>6. /\ Except(order, Cancelled) = Only(order, Kept)
        /\ Except(Only(firstSeen, O), Cancelled) = Only(Only(firstSeen, O), Kept)
    BY <2>1, ExceptIsOnly
  <2>7. QED
    BY <2>5, <2>6 DEF UncancelledInSeenOrder, O
<1>2. QED
  BY <1>1, InvariantHolds, PTL

\* The gate never waits for what cannot come: when somebody is parked and nothing is queued, the
\* next entry of the table has not been asked for, and all it was asked after is answered.  So a
\* script that asks again what it asked before makes that ask, and the gate moves.
THEOREM GateWaitsForAskable == Spec => []WaitsForAskable
<1>1. ASSUME RInv, life # 0, parked # {}, queue = <<>>
      PROVE  /\ cursor < Len(order)
             /\ order[cursor + 1] \notin Asked
             /\ After[order[cursor + 1]] \subseteq Members(seen)
  <2> DEFINE a == order[cursor + 1]
  <2>1. TypeOK /\ Journal /\ Table /\ Answered /\ Running /\ Gate
    BY <1>1 DEF RInv
  <2>2. Len(order) \in Nat /\ cursor \in 0..Len(order) /\ order \in Seq(Asks)
    BY <2>1, LenProperties DEF TypeOK
  <2>3. cursor < Len(order)
    <3>1. parked \subseteq {order[i] : i \in (cursor + 1)..Len(order)}
      BY <2>1, TableParts DEF Gate
    <3>2. PICK i \in (cursor + 1)..Len(order) : TRUE
      BY <1>1, <3>1
    <3>3. QED
      BY <2>2, <3>2
  <2>4. cursor + 1 \in 1..Len(order) /\ a \in Members(order)
    BY <2>2, <2>3 DEF Members
  <2>5. Members(SubSeq(order, 1, cursor)) = Members(seen) \cap Members(order)
    <3>1. seen \in Seq(Asks) /\ Only(seen, Members(order)) \in Seq(Asks)
      BY <2>1, OnlyInSeq DEF TypeOK
    <3>2. Only(seen, Members(order)) \o <<>> = Only(seen, Members(order))
      BY <3>1, ConcatEmptySeq
    <3>3. SubSeq(order, 1, cursor) = Only(seen, Members(order))
      BY <1>1, <2>1, <3>2 DEF Gate
    <3>4. QED
      BY <3>1, <3>3, OnlyMembers
  <2>6. a \notin Members(seen)
    <3>1. a \notin Members(SubSeq(order, 1, cursor))
      <4>1. ASSUME NEW i \in 1..cursor, order[i] = a PROVE FALSE
        <5>1. i \in 1..Len(order) /\ i # cursor + 1
          BY <2>2, <2>3
        <5>2. QED
          BY <2>1, <2>4, <4>1, <5>1, TableParts DEF Distinct
      <4>2. QED
        BY <2>1, <4>1, TableParts
    <3>2. QED
      BY <2>4, <2>5, <3>1
  <2>7. a \notin Asked
    BY <1>1, <2>1, <2>3, <2>4, <2>6, Nobody DEF Asked, Running, Gate
  <2>8. After[a] \subseteq Members(seen)
    <3>1. After[a] \subseteq Members(SubSeq(order, 1, (cursor + 1) - 1))
      BY <2>1, <2>4 DEF Table, TableClosed
    <3>2. (cursor + 1) - 1 = cursor
      BY <2>2
    <3>3. QED
      BY <2>5, <3>1, <3>2
  <2>9. QED
    BY <2>3, <2>7, <2>8
<1>2. RInv => WaitsForAskable
  BY <1>1 DEF WaitsForAskable
<1>3. QED
  BY <1>2, InvariantHolds, PTL

-----------------------------------------------------------------------------
(* Nothing is answered twice, and nothing answered is run again.           *)

\* What the lives have answered, whichever first, stands: once each, after what it awaited.
Standing ==
    /\ Distinct(firstSeen)
    /\ Members(firstSeen) \subseteq Settled
    /\ ClosedIn(firstSeen, Settled)

\* An ask of this life is in one place: being run, at the gate, released or answered.
OnePlace ==
    /\ Distinct(seen) /\ Distinct(queue)
    /\ Members(seen) \subseteq Members(firstSeen)
    /\ Members(seen) \cap Members(queue) = {}
    /\ parked \cap (Members(seen) \cup Members(queue)) = {}
    /\ Members(inFlight) \cap (Members(firstSeen) \cup parked \cup Members(queue)) = {}

OInv == Standing /\ (life # 0 => OnePlace)

LEMMA AnswerStands ==
    ASSUME RInv, OInv, life # 0, NEW s \in Seq(Asks), Distinct(s), Members(s) \subseteq Settled,
           \A q \in Members(s) : After[q] \subseteq Members(seen), Answer(s), row' = row
    PROVE  /\ Standing'
           /\ Members(firstSeen') = Members(firstSeen) \cup Members(s)
           /\ Members(seen') = Members(seen) \cup Members(s)
           /\ Members(s) \cap Members(seen) = {} => Distinct(seen')
<1> DEFINE first == Except(s, Members(firstSeen))
<1>1. firstSeen' = firstSeen \o first /\ seen' = seen \o s
  BY DEF Answer
<1>2. seen \in Seq(Asks) /\ firstSeen \in Seq(Asks)
  BY DEF RInv, TypeOK
<1>3. /\ first \in Seq(Asks) /\ Distinct(first)
      /\ Members(first) = Members(s) \ Members(firstSeen)
  BY <1>2, ExceptIsOnly
<1> HIDE DEF first
<1>4. Settled' = Settled
  BY SettledType
<1>5. \A q \in Members(first) : After[q] \subseteq Members(firstSeen) \cap Settled
  BY <1>3 DEF OInv, Standing, OnePlace
<1>6. Distinct(firstSeen \o first)
  BY <1>2, <1>3, DistinctConcat DEF OInv, Standing
<1>7. ClosedIn(firstSeen \o first, Settled)
  BY <1>2, <1>3, <1>5, ClosedConcat DEF OInv, Standing
<1>8. Members(firstSeen \o first) = Members(firstSeen) \cup Members(s)
  <2>1. \A p, q \in Seq(Asks) : Members(p \o q) = Members(p) \cup Members(q)
    BY MembersConcat
  <2>2. Members(firstSeen \o first) = Members(firstSeen) \cup Members(first)
    BY <1>2, <1>3, <2>1, Zenon
  <2>3. QED
    BY <1>3, <2>2
<1>9. Standing'
  BY <1>1, <1>4, <1>6, <1>7, <1>8 DEF OInv, Standing
<1>10. Members(seen \o s) = Members(seen) \cup Members(s)
  BY <1>2, MembersConcat
<1>11. Members(s) \cap Members(seen) = {} => Distinct(seen \o s)
  BY <1>2, DistinctConcat DEF OInv, OnePlace
<1>12. QED
  BY <1>1, <1>8, <1>9, <1>10, <1>11

\* A step that answers nothing leaves the answers standing.
LEMMA SilenceStands ==
    ASSUME Standing, firstSeen' = firstSeen, Settled \subseteq Settled'
    PROVE  Standing'
<1>1. ClosedIn(firstSeen, Settled) => ClosedIn(firstSeen, Settled')
  BY DEF ClosedIn
<1>2. QED
  BY <1>1 DEF Standing

LEMMA AskStaysOnce == ASSUME RInv, OInv, NEW q \in Asks, Ask(q) PROVE OInv'
<1>1. /\ TypeOK /\ Journal /\ Table /\ Answered /\ Gate /\ Standing /\ OnePlace
      /\ life # 0 /\ life' = life /\ q \notin Asked /\ After[q] \subseteq Members(seen)
  BY DEF RInv, OInv, Ask
<1>2. /\ q \notin Members(inFlight) /\ q \notin Members(seen) /\ q \notin parked
      /\ q \notin Members(queue)
  BY <1>1 DEF Asked
<1>3. CASE row[q] = "settled" /\ q \notin Members(SubSeq(order, cursor + 1, Len(order)))
  <2>1. Answer(<<q>>) /\ UNCHANGED <<row, inFlight, parked, queue>>
    BY <1>3 DEF Ask, Hold
  <2>2. <<q>> \in Seq(Asks) /\ Members(<<q>>) = {q} /\ Distinct(<<q>>) /\ q \in Settled
    BY <1>3, One DEF Settled
  <2>3. /\ Standing' /\ Members(firstSeen') = Members(firstSeen) \cup {q}
        /\ Members(seen') = Members(seen) \cup {q} /\ Distinct(seen')
    <3>1. /\ Members(<<q>>) \subseteq Settled /\ Members(<<q>>) \cap Members(seen) = {}
          /\ \A p \in Members(<<q>>) : After[p] \subseteq Members(seen)
      BY <1>1, <1>2, <2>2
    <3>2. row' = row
      BY <2>1
    <3>3. QED
      BY <1>1, <2>1, <2>2, <3>1, <3>2, AnswerStands
  <2>4. OnePlace'
    BY <1>1, <1>2, <2>1, <2>3 DEF OnePlace
  <2>5. QED
    BY <2>3, <2>4 DEF OInv
<1>4. CASE row[q] = "settled" /\ q \in Members(SubSeq(order, cursor + 1, Len(order)))
  <2> DEFINE held == parked \cup {q}
             n == Reach(held)
             released == SubSeq(order, cursor + 1, n)
  <2>1. /\ queue' = queue \o released /\ parked' = held \ Members(released)
        /\ UNCHANGED <<row, inFlight, seen, firstSeen>>
    BY <1>4 DEF Ask, Hold
  <2>2. /\ released \in Seq(Asks) /\ Distinct(released) /\ Members(released) \subseteq held
    <3>1. order \in Seq(Asks) /\ Len(order) \in Nat /\ cursor \in 0..Len(order) /\ Distinct(order)
      BY <1>1, LenProperties, TableParts DEF TypeOK
    <3>2. n \in cursor..Len(order) /\ \A i \in (cursor + 1)..n : order[i] \in held
      BY <1>1, ReachExists
    <3> HIDE DEF n
    <3>3. cursor + 1 \in 1..(Len(order) + 1) /\ n \in ((cursor + 1) - 1)..Len(order)
      BY <3>1, <3>2
    <3>4. /\ released \in Seq(Asks) /\ Distinct(released)
          /\ Members(released) = {order[i] : i \in (cursor + 1)..n}
      BY <3>1, <3>3, Part
    <3>5. QED
      BY <3>2, <3>4
  <2> HIDE DEF released
  <2>3. queue \in Seq(Asks) /\ Members(queue) \cap Members(released) = {}
    BY <1>1, <1>2, <2>2 DEF TypeOK, OnePlace
  <2>4. /\ Members(queue \o released) = Members(queue) \cup Members(released)
        /\ Distinct(queue \o released)
    BY <1>1, <2>2, <2>3, MembersConcat, DistinctConcat DEF OnePlace
  <2>5. OnePlace'
    BY <1>1, <1>2, <2>1, <2>2, <2>4 DEF OnePlace
  <2>6. Standing'
    BY <1>1, <2>1, SilenceStands, SettledType
  <2>7. QED
    BY <2>5, <2>6 DEF OInv
<1>5. CASE row[q] # "settled"
  <2>1. /\ row' = [row EXCEPT ![q] = "running"] /\ inFlight' = Append(inFlight, q)
        /\ UNCHANGED <<parked, queue, seen, firstSeen>>
    BY <1>5 DEF Ask
  <2>2. Settled' = Settled /\ q \notin Settled
    BY <1>1, <1>5, <2>1 DEF Settled, TypeOK
  <2>3. Members(inFlight') = Members(inFlight) \cup {q}
    BY <1>1, <2>1, MembersAppend DEF TypeOK
  <2>4. OnePlace'
    BY <1>1, <1>2, <2>1, <2>2, <2>3 DEF OnePlace, Standing
  <2>5. Standing'
    BY <1>1, <2>1, <2>2, SilenceStands
  <2>6. QED
    BY <2>4, <2>5 DEF OInv
<1>6. QED
  BY <1>3, <1>4, <1>5

LEMMA FlushStaysOnce == RInv /\ OInv /\ Flush => OInv'
<1> SUFFICES ASSUME RInv, OInv, Flush PROVE OInv'
  OBVIOUS
<1>1. life # 0 /\ OnePlace /\ queue \in Seq(Asks)
  BY DEF RInv, OInv, Flush, TypeOK
<1>2. Answer(queue) /\ queue' = <<>> /\ UNCHANGED <<row, inFlight, parked>>
  BY DEF Flush
<1>3. Members(queue) \subseteq Settled /\ \A q \in Members(queue) : After[q] \subseteq Members(seen)
  BY <1>1 DEF RInv, Answered, Asked
<1>4. Distinct(queue) /\ Members(queue) \cap Members(seen) = {}
  BY <1>1 DEF OnePlace
<1>5. /\ Standing' /\ Members(firstSeen') = Members(firstSeen) \cup Members(queue)
      /\ Members(seen') = Members(seen) \cup Members(queue) /\ Distinct(seen')
  BY <1>1, <1>2, <1>3, <1>4, AnswerStands
<1>6. Members(queue') = {} /\ Distinct(queue')
  BY <1>2, Nobody DEF Distinct
<1>7. OnePlace'
  BY <1>1, <1>2, <1>5, <1>6 DEF OnePlace
<1>8. QED
  BY <1>5, <1>7 DEF OInv

LEMMA SettleEventStaysOnce == RInv /\ OInv /\ SettleEvent => OInv'
<1> SUFFICES ASSUME RInv, OInv, SettleEvent PROVE OInv'
  OBVIOUS
<1>1. life # 0 /\ OnePlace /\ TypeOK /\ Answered /\ Running
  BY DEF RInv, OInv, SettleEvent
<1>2. PICK q \in writing : Answer(<<q>>) /\ inFlight' = Except(inFlight, {q})
  BY DEF SettleEvent
<1>3. UNCHANGED <<row, parked, queue>>
  BY DEF SettleEvent
<1>4. q \in Asks /\ q \in Settled /\ q \in Members(inFlight)
  BY <1>1 DEF TypeOK, Running
<1>5. <<q>> \in Seq(Asks) /\ Members(<<q>>) = {q} /\ Distinct(<<q>>)
  BY <1>4, One
<1>6. After[q] \subseteq Members(seen) /\ q \notin Members(seen)
  BY <1>1, <1>4 DEF Answered, Asked, OnePlace
<1>7. /\ Standing' /\ Members(firstSeen') = Members(firstSeen) \cup {q}
      /\ Members(seen') = Members(seen) \cup {q} /\ Distinct(seen')
  BY <1>1, <1>2, <1>3, <1>4, <1>5, <1>6, AnswerStands
<1>8. Members(inFlight') = Members(inFlight) \ {q}
  BY <1>1, <1>2, ExceptIsOnly DEF TypeOK
<1>9. OnePlace'
  BY <1>1, <1>3, <1>4, <1>7, <1>8 DEF OnePlace
<1>10. QED
  BY <1>7, <1>9 DEF OInv

LEMMA NextStaysOnce == RInv /\ OInv /\ [Next]_vars => OInv'
<1> SUFFICES ASSUME RInv, OInv, [Next]_vars PROVE OInv'
  OBVIOUS
<1>1. CASE Begin
  <2>1. /\ UNCHANGED <<row, firstSeen>>
        /\ inFlight' = <<>> /\ seen' = <<>> /\ parked' = {} /\ queue' = <<>>
    BY <1>1 DEF Begin, journal
  <2>2. Standing'
    BY <2>1, SilenceStands, SettledType DEF OInv
  <2>3. OnePlace'
    BY <2>1, Nobody DEF OnePlace, Distinct
  <2>4. QED
    BY <2>2, <2>3 DEF OInv
<1>2. ASSUME NEW q \in Asks, Ask(q) PROVE OInv'
  BY <1>2, AskStaysOnce
<1>3. ASSUME NEW q \in Asks, SettleRow(q) PROVE OInv'
  <2>1. /\ row' = [row EXCEPT ![q] = "settled"]
        /\ UNCHANGED <<life, inFlight, seen, parked, queue, firstSeen>>
    BY <1>3 DEF SettleRow
  <2>2. Settled \subseteq Settled'
    BY <2>1 DEF RInv, TypeOK, Settled
  <2>3. QED
    BY <2>1, <2>2, SilenceStands DEF OInv, OnePlace
<1>4. CASE Flush
  BY <1>4, FlushStaysOnce
<1>5. CASE SettleEvent
  BY <1>5, SettleEventStaysOnce
<1>6. CASE Kill \/ Stop
  <2>1. life' = 0 /\ UNCHANGED <<row, firstSeen>>
    BY <1>6 DEF Kill, Stop, Down
  <2>2. QED
    BY <2>1, SilenceStands, SettledType DEF OInv
<1>7. CASE UNCHANGED vars
  <2>1. UNCHANGED <<row, life, inFlight, seen, parked, queue, firstSeen>>
    BY <1>7 DEF vars, journal, memory
  <2>2. QED
    BY <2>1, SilenceStands, SettledType DEF OInv, OnePlace
<1>8. QED
  BY <1>1, <1>2, <1>3, <1>4, <1>5, <1>6, <1>7 DEF Next

LEMMA OnceHolds == Spec => []OInv
<1>1. Init => OInv
  BY Nobody DEF Init, OInv, Standing, Distinct, ClosedIn
<1>2. RInv /\ OInv /\ [Next]_vars => OInv'
  BY NextStaysOnce
<1>3. QED
  BY <1>1, <1>2, InvariantHolds, PTL DEF Spec

\* Over all lives, each ask is answered for the first time once, after all that the script awaited
\* before it, and its row stays settled: the answers a resumed script gets make the same sense.
THEOREM AnswersStand == Spec => []Standing
<1>1. OInv => Standing
  BY DEF OInv
<1>2. QED
  BY <1>1, OnceHolds, PTL

\* In a life an ask is run, or waits at the gate, or is released, or is answered, and not two of
\* these, nor twice; and none that any life has answered is run again.
AnsweredOnce ==
    life # 0 =>
        /\ Distinct(seen \o queue)
        /\ parked \cap Members(seen \o queue) = {}
        /\ Members(inFlight) \cap (Members(firstSeen) \cup parked \cup Members(seen \o queue)) = {}

\* However the gate parks, releases and lets through, and however often the run is resumed, no
\* promise of the script is resolved twice, and nothing settled is paid for again.
THEOREM EachAnsweredOnce == Spec => []AnsweredOnce
<1>1. ASSUME RInv, OInv, life # 0
      PROVE  /\ Distinct(seen \o queue)
             /\ parked \cap Members(seen \o queue) = {}
             /\ Members(inFlight) \cap (Members(firstSeen) \cup parked \cup Members(seen \o queue)) = {}
  <2>1. seen \in Seq(Asks) /\ queue \in Seq(Asks) /\ OnePlace
    BY <1>1 DEF RInv, TypeOK, OInv
  <2>2. Distinct(seen \o queue) /\ Members(seen \o queue) = Members(seen) \cup Members(queue)
    BY <2>1, DistinctConcat, MembersConcat DEF OnePlace
  <2>3. QED
    BY <2>1, <2>2 DEF OnePlace
<1>2. RInv /\ OInv => AnsweredOnce
  BY <1>1 DEF AnsweredOnce
<1>3. QED
  BY <1>2, InvariantHolds, OnceHolds, PTL

\* The schedule the documentation promises (execution-engine.md, "Replaying the settle order") is
\* the one every life recovers as long as no ask has been cancelled by a stop: kills alone, at any
\* step, never change it.
THEOREM SameScheduleWithoutStops == Spec => [](Cancelled = {} => SameSchedule)
<1>1. ASSUME RInv, Cancelled = {} PROVE Only(order, Members(firstSeen)) = Only(firstSeen, Members(order))
  <2>1. /\ order \in Seq(Asks) /\ firstSeen \in Seq(Asks) /\ Logbook \in Seq(Asks)
    BY <1>1, LogbookType DEF RInv, TypeOK
  <2>2. Members(Logbook) \subseteq Asks /\ Members(firstSeen) \subseteq Asks
    BY <2>1, MembersOf
  <2>3. Logbook = firstSeen
    <3>1. Asks \ Cancelled = Asks
      BY <1>1
    <3>2. Only(Logbook, Asks) = Only(firstSeen, Asks)
      BY <1>1, <3>1 DEF RInv, Journal
    <3>3. Only(Logbook, Asks) = Logbook /\ Only(firstSeen, Asks) = firstSeen
      BY <2>1, <2>2, OnlyAll
    <3>4. QED
      BY <3>2, <3>3
  <2>4. order = Only(firstSeen, Members(order))
    BY <1>1, <2>3 DEF RInv, Table
  <2>5. Members(order) \subseteq Members(firstSeen)
    BY <2>1, <2>4, OnlyMembers
  <2>6. Only(order, Members(firstSeen)) = order
    BY <2>1, <2>5, OnlyAll
  <2>7. QED
    BY <2>4, <2>6
<1>2. RInv => (Cancelled = {} => SameSchedule)
  BY <1>1 DEF SameSchedule
<1>3. QED
  BY <1>2, InvariantHolds, PTL
=============================================================================
