--------------------------- MODULE SequenceLemmas ---------------------------
(* Induction over the naturals, and lemmas about what sequences hold and how often. *)
EXTENDS SequenceFilter, FiniteSetTheorems, WellFoundedInduction, TLAPS

\* Induction with a set for the predicate.
LEMMA NatSetInduction ==
    ASSUME NEW P, 0 \in P, \A n \in Nat : n \in P => n + 1 \in P
    PROVE  Nat \subseteq P
  <1>. SUFFICES ASSUME Nat \ P # {} PROVE FALSE
    OBVIOUS
  <1>. DEFINE R == {r \in Nat \X Nat : r[1] < r[2]}
  <1>1. IsWellFoundedOn(R, Nat)
    BY NatLessThanWellFounded DEF OpToRel
  <1>. HIDE DEF R
  <1>2. PICK m \in Nat \ P : \A k \in Nat \ P : <<k, m>> \notin R
    BY <1>1, WFMin
  <1>3. \A k \in Nat : k < m => <<k, m>> \in R
    BY DEF R
  <1>4. m - 1 \in Nat /\ m - 1 < m
    BY <1>2
  <1>5. m - 1 \in P
    BY <1>2, <1>3, <1>4
  <1>. QED  BY <1>2, <1>4, <1>5

-----------------------------------------------------------------------------
(* How often a value is in a sequence *)

Places(s, x) == {i \in 1 .. Len(s) : s[i] = x}

Count(s, x) == Cardinality(Places(s, x))

\* A sequence in which every value is at most once.
Distinct(s) == \A i, j \in 1 .. Len(s) : s[i] = s[j] => i = j

\* A count is a natural number.
LEMMA CountType ==
    ASSUME NEW S, NEW s \in Seq(S), NEW x
    PROVE  IsFiniteSet(Places(s, x)) /\ Count(s, x) \in Nat
  <1>1. IsFiniteSet(1 .. Len(s)) /\ Places(s, x) \subseteq 1 .. Len(s)
    BY FS_Interval DEF Places
  <1>2. IsFiniteSet(Places(s, x))
    BY <1>1, FS_Subset
  <1>. QED  BY <1>2, FS_CardinalityType DEF Count

\* What is not in a sequence has the count 0.
LEMMA CountAbsent ==
    ASSUME NEW S, NEW s \in Seq(S), NEW x
    PROVE  Count(s, x) = 0 <=> \A i \in 1 .. Len(s) : s[i] # x
  <1>1. IsFiniteSet(Places(s, x))
    BY CountType
  <1>2. Count(s, x) = 0 <=> Places(s, x) = {}
    BY <1>1, FS_EmptySet DEF Count
  <1>. QED  BY <1>2 DEF Places

\* In a distinct sequence no count is above 1.
LEMMA CountDistinct ==
    ASSUME NEW S, NEW s \in Seq(S), NEW x, Distinct(s)
    PROVE  Count(s, x) \in {0, 1}
  <1>1. CASE Places(s, x) = {}
    BY <1>1, FS_EmptySet DEF Count
  <1>2. CASE Places(s, x) # {}
    <2>1. PICK i : i \in Places(s, x)
      BY <1>2
    <2>2. Places(s, x) = {i}
      BY <2>1 DEF Places, Distinct
    <2>. QED  BY <2>2, FS_Singleton DEF Count
  <1>. QED  BY <1>1, <1>2

\* Appending counts one more.
LEMMA CountAppend ==
    ASSUME NEW S, NEW s \in Seq(S), NEW e \in S, NEW x
    PROVE  /\ e = x => Count(Append(s, e), x) = Count(s, x) + 1
           /\ e # x => Count(Append(s, e), x) = Count(s, x)
  <1>1. IsFiniteSet(Places(s, x)) /\ Count(s, x) \in Nat /\ Len(s) \in Nat
    BY CountType
  <1>2. Append(s, e) \in Seq(S) /\ Len(Append(s, e)) = Len(s) + 1
        /\ \A i \in 1 .. Len(s) : Append(s, e)[i] = s[i]
        /\ Append(s, e)[Len(s) + 1] = e
    OBVIOUS
  <1>3. Len(s) + 1 \notin Places(s, x)
    BY <1>1 DEF Places
  <1>4. CASE e = x
    <2>1. Places(Append(s, e), x) = Places(s, x) \cup {Len(s) + 1}
      BY <1>1, <1>2, <1>4 DEF Places
    <2>. QED  BY <1>1, <1>3, <1>4, <2>1, FS_AddElement DEF Count
  <1>5. CASE e # x
    <2>1. Places(Append(s, e), x) = Places(s, x)
      BY <1>1, <1>2, <1>5 DEF Places
    <2>. QED  BY <1>1, <1>5, <2>1 DEF Count
  <1>. QED  BY <1>4, <1>5

\* Counts add up over a concatenation.
LEMMA CountConcat ==
    ASSUME NEW S, NEW s \in Seq(S), NEW t \in Seq(S), NEW x
    PROVE  Count(s \o t, x) = Count(s, x) + Count(t, x)
  <1>. DEFINE shifted == {Len(s) + i : i \in Places(t, x)}
              f == [i \in Places(t, x) |-> Len(s) + i]
  <1>1. /\ IsFiniteSet(Places(s, x)) /\ IsFiniteSet(Places(t, x))
        /\ Len(s) \in Nat /\ Len(t) \in Nat
    BY CountType
  <1>2. /\ Len(s \o t) = Len(s) + Len(t)
        /\ \A i \in 1 .. Len(s) : (s \o t)[i] = s[i]
        /\ \A i \in 1 .. Len(t) : (s \o t)[Len(s) + i] = t[i]
    OBVIOUS
  <1>3. f \in Bijection(Places(t, x), shifted)
    BY <1>1 DEF Bijection, Injection, Surjection, IsInjective, Places
  <1>4. IsFiniteSet(shifted) /\ Cardinality(shifted) = Cardinality(Places(t, x))
    BY <1>1, <1>3, FS_Bijection DEF ExistsBijection
  <1>5. Places(s \o t, x) = Places(s, x) \cup shifted
    <2>1. ASSUME NEW i \in Places(s \o t, x) PROVE i \in Places(s, x) \cup shifted
      <3>1. CASE i <= Len(s)
        BY <1>1, <1>2, <2>1, <3>1 DEF Places
      <3>2. CASE i > Len(s)
        <4>1. i - Len(s) \in 1 .. Len(t) /\ i = Len(s) + (i - Len(s))
          BY <1>1, <1>2, <2>1, <3>2 DEF Places
        <4>2. i - Len(s) \in Places(t, x)
          BY <1>2, <2>1, <4>1 DEF Places
        <4>. QED  BY <4>1, <4>2
      <3>. QED  BY <1>1, <2>1, <3>1, <3>2 DEF Places
    <2>2. Places(s, x) \subseteq Places(s \o t, x)
      BY <1>1, <1>2 DEF Places
    <2>3. shifted \subseteq Places(s \o t, x)
      BY <1>1, <1>2 DEF Places
    <2>. QED  BY <2>1, <2>2, <2>3
  <1>6. Places(s, x) \cap shifted = {}
    BY <1>1 DEF Places
  <1>. HIDE DEF shifted
  <1>7. Cardinality(Places(s, x) \cup shifted)
          = Cardinality(Places(s, x)) + Cardinality(shifted)
    <2>1. /\ Cardinality(Places(s, x)) \in Nat /\ Cardinality(shifted) \in Nat
          /\ Cardinality(Places(s, x) \cap shifted) = 0
      BY <1>1, <1>4, <1>6, FS_CardinalityType, FS_EmptySet
    <2>2. Cardinality(Places(s, x) \cup shifted)
            = Cardinality(Places(s, x)) + Cardinality(shifted) - Cardinality(Places(s, x) \cap shifted)
      BY <1>1, <1>4, FS_Union, Zenon
    <2>. QED  BY <2>1, <2>2
  <1>. QED  BY <1>4, <1>5, <1>7 DEF Count

\* The count of a sequence is that of its tail, and one more if it is the head.
LEMMA CountTail ==
    ASSUME NEW S, NEW s \in Seq(S), s # << >>, NEW x
    PROVE  /\ Head(s) = x => Count(s, x) = Count(Tail(s), x) + 1
           /\ Head(s) # x => Count(s, x) = Count(Tail(s), x)
  <1>. DEFINE h == Append(<< >>, Head(s))
  <1>1. << >> \in Seq(S) /\ Len(<< >>) = 0 /\ Head(s) \in S /\ Tail(s) \in Seq(S)
    OBVIOUS
  <1>2. h \in Seq(S)
    BY <1>1
  <1>3. s = h \o Tail(s)
    OBVIOUS
  <1>4. /\ Head(s) = x => Count(h, x) = Count(<< >>, x) + 1
        /\ Head(s) # x => Count(h, x) = Count(<< >>, x)
    BY <1>1, CountAppend, Zenon
  <1>5. ASSUME NEW e \in Seq(S), Len(e) = 0 PROVE Count(e, x) = 0
    <2>1. \A i \in 1 .. Len(e) : e[i] # x
      BY <1>5
    <2>. QED  BY <2>1, CountAbsent, Zenon
  <1>6. Count(<< >>, x) = 0
    BY <1>1, <1>5, Zenon
  <1>. HIDE DEF h
  <1>7. Count(s, x) = Count(h, x) + Count(Tail(s), x)
    <2>1. Count(h \o Tail(s), x) = Count(h, x) + Count(Tail(s), x)
      BY <1>1, <1>2, CountConcat, Zenon
    <2>. QED  BY <1>3, <2>1, Zenon
  <1>8. Count(Tail(s), x) \in Nat
    BY <1>1, CountType, Zenon
  <1>. QED  BY <1>4, <1>6, <1>7, <1>8

\* A sequence without repetitions stays one when something new is appended.
LEMMA DistinctAppend ==
    ASSUME NEW S, NEW s \in Seq(S), NEW e \in S, Distinct(s), \A k \in 1 .. Len(s) : s[k] # e
    PROVE  Distinct(Append(s, e))
  <1>1. /\ Len(Append(s, e)) = Len(s) + 1 /\ Append(s, e)[Len(s) + 1] = e
        /\ \A k \in 1 .. Len(s) : Append(s, e)[k] = s[k]
        /\ Len(s) \in Nat
    OBVIOUS
  <1>2. \A i, j \in 1 .. Len(s) : s[i] = s[j] => i = j
    BY DEF Distinct
  <1>3. ASSUME NEW i \in 1 .. Len(s) + 1, NEW j \in 1 .. Len(s) + 1, Append(s, e)[i] = Append(s, e)[j]
        PROVE  i = j
    <2>1. CASE i = Len(s) + 1 /\ j = Len(s) + 1
      BY <2>1
    <2>2. CASE i \in 1 .. Len(s) /\ j \in 1 .. Len(s)
      BY <1>1, <1>2, <1>3, <2>2
    <2>3. CASE i \in 1 .. Len(s) /\ j = Len(s) + 1
      BY <1>1, <1>3, <2>3
    <2>4. CASE i = Len(s) + 1 /\ j \in 1 .. Len(s)
      BY <1>1, <1>3, <2>4
    <2>. QED  BY <1>1, <2>1, <2>2, <2>3, <2>4
  <1>. QED  BY <1>1, <1>3 DEF Distinct

\* Two sequences without repetitions that share nothing make one.
LEMMA DistinctConcat ==
    ASSUME NEW S, NEW s \in Seq(S), NEW t \in Seq(S), Distinct(s), Distinct(t),
           \A i \in 1 .. Len(s), j \in 1 .. Len(t) : s[i] # t[j]
    PROVE  Distinct(s \o t)
  <1>1. /\ Len(s \o t) = Len(s) + Len(t) /\ Len(s) \in Nat /\ Len(t) \in Nat
        /\ \A k \in 1 .. Len(s) : (s \o t)[k] = s[k]
    OBVIOUS
  <1>2. \A k \in 1 .. Len(s) + Len(t) : k > Len(s) => (s \o t)[k] = t[k - Len(s)]
    OBVIOUS
  <1>3. /\ \A i, j \in 1 .. Len(s) : s[i] = s[j] => i = j
        /\ \A i, j \in 1 .. Len(t) : t[i] = t[j] => i = j
    BY DEF Distinct
  <1>4. ASSUME NEW i \in 1 .. Len(s) + Len(t), NEW j \in 1 .. Len(s) + Len(t), (s \o t)[i] = (s \o t)[j]
        PROVE  i = j
    <2>1. CASE i <= Len(s) /\ j <= Len(s)
      <3>1. i \in 1 .. Len(s) /\ j \in 1 .. Len(s)
        BY <1>1, <2>1
      <3>. QED  BY <1>1, <1>3, <1>4, <3>1
    <2>2. CASE i > Len(s) /\ j > Len(s)
      <3>1. i - Len(s) \in 1 .. Len(t) /\ j - Len(s) \in 1 .. Len(t)
        BY <1>1, <2>2
      <3>2. t[i - Len(s)] = t[j - Len(s)]
        BY <1>2, <1>4, <2>2
      <3>3. i - Len(s) = j - Len(s)
        BY <1>3, <3>1, <3>2
      <3>. QED  BY <1>1, <3>3
    <2>3. CASE i <= Len(s) /\ j > Len(s)
      <3>1. i \in 1 .. Len(s) /\ j - Len(s) \in 1 .. Len(t)
        BY <1>1, <2>3
      <3>. QED  BY <1>1, <1>2, <1>4, <2>3, <3>1
    <2>4. CASE i > Len(s) /\ j <= Len(s)
      <3>1. j \in 1 .. Len(s) /\ i - Len(s) \in 1 .. Len(t)
        BY <1>1, <2>4
      <3>. QED  BY <1>1, <1>2, <1>4, <2>4, <3>1
    <2>. QED  BY <1>1, <2>1, <2>2, <2>3, <2>4
  <1>. QED  BY <1>1, <1>4 DEF Distinct

\* Where the elements of a concatenation are.
LEMMA ConcatElements ==
    ASSUME NEW S, NEW s \in Seq(S), NEW t \in Seq(S)
    PROVE  /\ Len(s \o t) = Len(s) + Len(t) /\ Len(s) \in Nat /\ Len(t) \in Nat
           /\ \A k \in 1 .. Len(s) : (s \o t)[k] = s[k] /\ k \in 1 .. Len(s \o t)
           /\ \A k \in 1 .. Len(t) : (s \o t)[Len(s) + k] = t[k] /\ Len(s) + k \in 1 .. Len(s \o t)
           /\ \A k \in 1 .. Len(s \o t) : k \in 1 .. Len(s) \/ \E j \in 1 .. Len(t) : (s \o t)[k] = t[j]
  <1>1. Len(s \o t) = Len(s) + Len(t) /\ Len(s) \in Nat /\ Len(t) \in Nat
    OBVIOUS
  <1>2. \A k \in 1 .. Len(s) : (s \o t)[k] = s[k] /\ k \in 1 .. Len(s \o t)
    BY <1>1
  <1>3. \A k \in 1 .. Len(s) + Len(t) : k > Len(s) => (s \o t)[k] = t[k - Len(s)]
    OBVIOUS
  <1>4. ASSUME NEW k \in 1 .. Len(t)
        PROVE  (s \o t)[Len(s) + k] = t[k] /\ Len(s) + k \in 1 .. Len(s \o t)
    <2>1. Len(s) + k \in 1 .. Len(s) + Len(t) /\ Len(s) + k > Len(s) /\ (Len(s) + k) - Len(s) = k
      BY <1>1
    <2>. QED  BY <1>1, <1>3, <2>1
  <1>5. ASSUME NEW k \in 1 .. Len(s \o t), k \notin 1 .. Len(s)
        PROVE  \E j \in 1 .. Len(t) : (s \o t)[k] = t[j]
    <2>1. k > Len(s) /\ k \in 1 .. Len(s) + Len(t) /\ k - Len(s) \in 1 .. Len(t)
      BY <1>1, <1>5
    <2>. QED  BY <1>3, <2>1
  <1>. QED  BY <1>1, <1>2, <1>4, <1>5

-----------------------------------------------------------------------------
(* Keep *)

\* Keep is the last value of a function that is defined by recursion.
LEMMA KeepUnfolds ==
    ASSUME NEW S, NEW q \in Seq(S), NEW T
    PROVE  \E kept :
              /\ Keep(q, T) = kept[Len(q)]
              /\ kept[0] = << >>
              /\ \A i \in 1 .. Len(q) :
                    kept[i] = IF q[i] \in T THEN Append(kept[i - 1], q[i]) ELSE kept[i - 1]
  <1>. DEFINE Step(k, i) == IF i = 0 THEN << >>
                            ELSE IF q[i] \in T THEN Append(k[i - 1], q[i])
                            ELSE k[i - 1]
              kept == CHOOSE k : k = [i \in 0 .. Len(q) |-> Step(k, i)]
  <1>1. Keep(q, T) = kept[Len(q)]
    BY DEF Keep
  <1>2. \A k : Step(k, 0) = << >>
    OBVIOUS
  <1>3. ASSUME NEW i, i # 0, NEW k
        PROVE  Step(k, i) = IF q[i] \in T THEN Append(k[i - 1], q[i]) ELSE k[i - 1]
    BY <1>3
  <1>4. ASSUME NEW i, i # 0, NEW k, NEW l, k[i - 1] = l[i - 1]
        PROVE  Step(k, i) = Step(l, i)
    BY <1>4
  <1>. HIDE DEF Step
  <1>. DEFINE Defined == {n \in Nat : \E k : k = [i \in 0 .. n |-> Step(k, i)]}
  <1>5. 0 \in Defined
    <2>. DEFINE k == [i \in 0 .. 0 |-> << >>]
    <2>1. k = [i \in 0 .. 0 |-> Step(k, i)]
      BY <1>2
    <2>. QED  BY <2>1
  <1>6. ASSUME NEW n \in Nat, n \in Defined PROVE n + 1 \in Defined
    <2>1. PICK k : k = [i \in 0 .. n |-> Step(k, i)]
      BY <1>6
    <2>. DEFINE l == [i \in 0 .. n + 1 |-> IF i = n + 1 THEN Step(k, i) ELSE k[i]]
    <2>2. \A i \in 0 .. n : k[i] = Step(k, i)
      BY <2>1
    <2>3. (\A i \in 0 .. n : l[i] = k[i]) /\ l[n + 1] = Step(k, n + 1)
      OBVIOUS
    <2>4. DOMAIN l = 0 .. n + 1 /\ l = [i \in 0 .. n + 1 |-> l[i]]
      OBVIOUS
    <2>. HIDE DEF l
    <2>5. ASSUME NEW i \in 0 .. n + 1 PROVE l[i] = Step(l, i)
      <3>1. l[i] = Step(k, i)
        BY <2>2, <2>3
      <3>2. CASE i = 0
        BY <1>2, <3>1, <3>2
      <3>3. CASE i # 0
        <4>1. i - 1 \in 0 .. n
          BY <3>3
        <4>. QED  BY <1>4, <2>3, <3>1, <3>3, <4>1
      <3>. QED  BY <3>2, <3>3
    <2>6. l = [i \in 0 .. n + 1 |-> Step(l, i)]
      BY <2>4, <2>5
    <2>. QED  BY <2>6
  <1>7. Len(q) \in Defined
    <2>1. Nat \subseteq Defined
      <3>. HIDE DEF Defined
      <3>. QED  BY <1>5, <1>6, NatSetInduction
    <2>. HIDE DEF Defined
    <2>2. Len(q) \in Nat
      OBVIOUS
    <2>. QED  BY <2>1, <2>2
  <1>8. kept = [i \in 0 .. Len(q) |-> Step(kept, i)]
    BY <1>7
  <1>. HIDE DEF kept
  <1>9. kept[0] = Step(kept, 0) /\ \A i \in 1 .. Len(q) : kept[i] = Step(kept, i)
    <2>1. Len(q) \in Nat
      OBVIOUS
    <2>. QED  BY <1>8, <2>1
  <1>10. \A i \in 1 .. Len(q) :
            kept[i] = IF q[i] \in T THEN Append(kept[i - 1], q[i]) ELSE kept[i - 1]
    <2>1. ASSUME NEW i \in 1 .. Len(q)
          PROVE  kept[i] = IF q[i] \in T THEN Append(kept[i - 1], q[i]) ELSE kept[i - 1]
      <3>1. i # 0 /\ kept[i] = Step(kept, i)
        BY <1>9
      <3>. QED  BY <1>3, <3>1, Zenon
    <2>. QED  BY <2>1
  <1>. QED  BY <1>1, <1>2, <1>9, <1>10

\* Keep keeps what is in T and nothing else, and repeats nothing that q does not.
LEMMA KeepProperties ==
    ASSUME NEW S, NEW q \in Seq(S), NEW T
    PROVE  /\ Keep(q, T) \in Seq(S)
           /\ \A x : (\E j \in DOMAIN Keep(q, T) : Keep(q, T)[j] = x)
                        <=> x \in T /\ \E j \in DOMAIN q : q[j] = x
           /\ Distinct(q) => Distinct(Keep(q, T))
  <1>1. PICK kept :
            /\ Keep(q, T) = kept[Len(q)]
            /\ kept[0] = << >>
            /\ \A i \in 1 .. Len(q) :
                  kept[i] = IF q[i] \in T THEN Append(kept[i - 1], q[i]) ELSE kept[i - 1]
    BY KeepUnfolds
  <1>. DEFINE Good(n) ==
                /\ kept[n] \in Seq(S)
                /\ \A x : (\E j \in 1 .. Len(kept[n]) : kept[n][j] = x)
                             <=> x \in T /\ \E j \in 1 .. n : q[j] = x
                /\ Distinct(q) => Distinct(kept[n])
              P == {n \in Nat : n <= Len(q) => Good(n)}
  <1>2. 0 \in P
    <2>1. kept[0] \in Seq(S) /\ Len(kept[0]) = 0
      BY <1>1
    <2>2. Good(0)
      BY <2>1 DEF Distinct
    <2>. QED  BY <2>2
  <1>3. ASSUME NEW n \in Nat, n \in P, n + 1 <= Len(q) PROVE Good(n + 1)
    <2>0. Len(q) \in Nat /\ n <= Len(q) /\ n + 1 \in 1 .. Len(q)
      BY <1>3
    <2>1. Good(n) /\ n + 1 \in 1 .. Len(q) /\ q[n + 1] \in S
      <3>. HIDE DEF Good
      <3>. QED  BY <1>3, <2>0
    <2>2. CASE q[n + 1] \notin T
      <3>1. kept[n + 1] = kept[n]
        BY <1>1, <2>1, <2>2
      <3>2. \A x : (x \in T /\ \E j \in 1 .. n : q[j] = x)
                     <=> (x \in T /\ \E j \in 1 .. n + 1 : q[j] = x)
        BY <2>2
      <3>. QED  BY <2>1, <3>1, <3>2
    <2>3. CASE q[n + 1] \in T
      <3>. DEFINE k == kept[n]
                  l == kept[n + 1]
      <3>1. l = Append(k, q[n + 1])
        <4>1. (n + 1) - 1 = n
          OBVIOUS
        <4>. QED  BY <1>1, <2>1, <2>3, <4>1
      <3>2. /\ k \in Seq(S)
            /\ \A x : (\E j \in 1 .. Len(k) : k[j] = x) <=> x \in T /\ \E j \in 1 .. n : q[j] = x
            /\ Distinct(q) => Distinct(k)
        BY <2>1
      <3>. HIDE DEF k, l
      <3>3. /\ l \in Seq(S) /\ Len(l) = Len(k) + 1 /\ l[Len(k) + 1] = q[n + 1]
            /\ \A j \in 1 .. Len(k) : l[j] = k[j]
            /\ Len(k) \in Nat
        BY <2>1, <3>1, <3>2
      <3>4. \A x : (\E j \in 1 .. Len(l) : l[j] = x)
                      <=> x = q[n + 1] \/ \E j \in 1 .. Len(k) : k[j] = x
        BY <3>3
      <3>5. \A x : (\E j \in 1 .. n + 1 : q[j] = x) <=> x = q[n + 1] \/ \E j \in 1 .. n : q[j] = x
        OBVIOUS
      <3>6. \A x : (\E j \in 1 .. Len(l) : l[j] = x) <=> x \in T /\ \E j \in 1 .. n + 1 : q[j] = x
        BY <2>3, <3>2, <3>4, <3>5
      <3>7. ASSUME Distinct(q) PROVE Distinct(l)
        <4>1. ~ \E j \in 1 .. n : q[j] = q[n + 1]
          BY <2>1, <3>7 DEF Distinct
        <4>2. \A j \in 1 .. Len(k) : k[j] # q[n + 1]
          BY <3>2, <4>1
        <4>. QED  BY <3>2, <3>3, <3>7, <4>2 DEF Distinct
      <3>. QED  BY <3>3, <3>6, <3>7 DEF l
    <2>. QED  BY <2>2, <2>3
  <1>4. Good(Len(q))
    <2>. HIDE DEF Good
    <2>1. \A n \in Nat : n \in P => n + 1 \in P
      BY <1>3
    <2>2. Nat \subseteq P
      <3>. HIDE DEF P
      <3>. QED  BY <1>2, <2>1, NatSetInduction
    <2>3. Len(q) \in Nat /\ Len(q) <= Len(q)
      OBVIOUS
    <2>. QED  BY <2>2, <2>3
  <1>5. DOMAIN Keep(q, T) = 1 .. Len(Keep(q, T)) /\ DOMAIN q = 1 .. Len(q)
    BY <1>1, <1>4
  <1>6. /\ Keep(q, T) \in Seq(S)
        /\ \A x : (\E j \in 1 .. Len(Keep(q, T)) : Keep(q, T)[j] = x)
                     <=> x \in T /\ \E j \in 1 .. Len(q) : q[j] = x
        /\ Distinct(q) => Distinct(Keep(q, T))
    BY <1>1, <1>4, Zenon
  <1>. QED  BY <1>5, <1>6, Zenon

\* Where everything is kept, nothing changes.
LEMMA KeepAll ==
    ASSUME NEW S, NEW q \in Seq(S), NEW T, \A j \in 1 .. Len(q) : q[j] \in T
    PROVE  Keep(q, T) = q
  <1>1. PICK kept :
            /\ Keep(q, T) = kept[Len(q)]
            /\ kept[0] = << >>
            /\ \A i \in 1 .. Len(q) :
                  kept[i] = IF q[i] \in T THEN Append(kept[i - 1], q[i]) ELSE kept[i - 1]
    BY KeepUnfolds
  <1>. DEFINE Good(n) == /\ kept[n] \in Seq(S) /\ Len(kept[n]) = n
                         /\ \A j \in 1 .. n : kept[n][j] = q[j]
              P == {n \in Nat : n <= Len(q) => Good(n)}
  <1>2. 0 \in P
    <2>1. kept[0] \in Seq(S) /\ Len(kept[0]) = 0
      BY <1>1
    <2>. QED  BY <2>1
  <1>3. ASSUME NEW n \in Nat, n \in P, n + 1 <= Len(q) PROVE Good(n + 1)
    <2>1. Len(q) \in Nat /\ n <= Len(q) /\ n + 1 \in 1 .. Len(q) /\ (n + 1) - 1 = n /\ q[n + 1] \in S
      BY <1>3
    <2>2. Good(n)
      BY <1>3, <2>1
    <2>. DEFINE k == kept[n]
                l == kept[n + 1]
    <2>3. l = Append(k, q[n + 1])
      BY <1>1, <2>1
    <2>4. k \in Seq(S) /\ Len(k) = n /\ \A j \in 1 .. n : k[j] = q[j]
      BY <2>2
    <2>. HIDE DEF k, l
    <2>5. l \in Seq(S) /\ Len(l) = n + 1 /\ l[n + 1] = q[n + 1] /\ \A j \in 1 .. n : l[j] = k[j]
      BY <2>1, <2>3, <2>4
    <2>6. \A j \in 1 .. n + 1 : l[j] = q[j]
      BY <2>4, <2>5
    <2>. QED  BY <2>5, <2>6 DEF l
  <1>4. Good(Len(q))
    <2>. HIDE DEF Good
    <2>1. \A n \in Nat : n \in P => n + 1 \in P
      BY <1>3
    <2>2. Nat \subseteq P
      <3>. HIDE DEF P
      <3>. QED  BY <1>2, <2>1, NatSetInduction
    <2>3. Len(q) \in Nat /\ Len(q) <= Len(q)
      OBVIOUS
    <2>. QED  BY <2>2, <2>3
  <1>5. Keep(q, T) \in Seq(S) /\ Len(Keep(q, T)) = Len(q) /\ \A j \in 1 .. Len(q) : Keep(q, T)[j] = q[j]
    BY <1>1, <1>4
  <1>. HIDE DEF Good
  <1>. DEFINE k == Keep(q, T)
  <1>6. k \in Seq(S) /\ Len(k) = Len(q) /\ \A j \in 1 .. Len(q) : k[j] = q[j]
    BY <1>5
  <1>. HIDE DEF k
  <1>7. k = q
    BY <1>6
  <1>. QED  BY <1>7 DEF k
=============================================================================
