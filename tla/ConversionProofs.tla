-------------------------- MODULE ConversionProofs --------------------------
(* Theorems about Conversions, for any width, key header, infos and JSON texts:
   conversions undo each other, and a value keeps its meaning through any number. *)
EXTENDS Conversions, SequenceLemmas, SequenceTheorems

\* What a buffer holds.
Byte == 0 .. 255

\* Byte, by its bounds.
LEMMA ByteIs ==
    ASSUME NEW x
    PROVE  x \in Byte <=> x \in Nat /\ x <= 255
  <1>. DEFINE n == 255
  <1>1. n \in Nat
    OBVIOUS
  <1>. HIDE DEF n
  <1>2. x \in 0 .. n <=> x \in Nat /\ x <= n
    BY <1>1
  <1>. QED  BY <1>2 DEF n, Byte

-----------------------------------------------------------------------------
(* Number *)

\* n[i] is the number of the first i bytes of b.
IsNumber(n, b) ==
    /\ Number(b) = n[Len(b)]
    /\ n[0] = 0
    /\ \A i \in 1 .. Len(b) : n[i] = 256 * n[i - 1] + b[i]

\* Number is the last value of a function that is defined by recursion.
LEMMA NumberUnfolds ==
    ASSUME NEW b \in Seq(Byte)
    PROVE  \E n : IsNumber(n, b)
  <1>. DEFINE Step(f, i) == IF i = 0 THEN 0 ELSE 256 * f[i - 1] + b[i]
              n == CHOOSE f : f = [i \in 0 .. Len(b) |-> Step(f, i)]
  <1>1. Number(b) = n[Len(b)]
    BY DEF Number
  <1>2. \A f : Step(f, 0) = 0
    OBVIOUS
  <1>3. ASSUME NEW i, i # 0, NEW f PROVE Step(f, i) = 256 * f[i - 1] + b[i]
    BY <1>3
  <1>4. ASSUME NEW i, i # 0, NEW f, NEW g, f[i - 1] = g[i - 1] PROVE Step(f, i) = Step(g, i)
    BY <1>4
  <1>. HIDE DEF Step
  <1>. DEFINE Defined == {m \in Nat : \E f : f = [i \in 0 .. m |-> Step(f, i)]}
  <1>5. 0 \in Defined
    <2>. DEFINE f == [i \in 0 .. 0 |-> 0]
    <2>1. f = [i \in 0 .. 0 |-> Step(f, i)]
      BY <1>2
    <2>. QED  BY <2>1
  <1>6. ASSUME NEW m \in Nat, m \in Defined PROVE m + 1 \in Defined
    <2>1. PICK f : f = [i \in 0 .. m |-> Step(f, i)]
      BY <1>6
    <2>. DEFINE g == [i \in 0 .. m + 1 |-> IF i = m + 1 THEN Step(f, i) ELSE f[i]]
    <2>2. \A i \in 0 .. m : f[i] = Step(f, i)
      BY <2>1
    <2>3. (\A i \in 0 .. m : g[i] = f[i]) /\ g[m + 1] = Step(f, m + 1)
      OBVIOUS
    <2>4. DOMAIN g = 0 .. m + 1 /\ g = [i \in 0 .. m + 1 |-> g[i]]
      OBVIOUS
    <2>. HIDE DEF g
    <2>5. ASSUME NEW i \in 0 .. m + 1 PROVE g[i] = Step(g, i)
      <3>1. g[i] = Step(f, i)
        BY <2>2, <2>3
      <3>2. CASE i = 0
        BY <1>2, <3>1, <3>2
      <3>3. CASE i # 0
        <4>1. i - 1 \in 0 .. m
          BY <3>3
        <4>. QED  BY <1>4, <2>3, <3>1, <3>3, <4>1
      <3>. QED  BY <3>2, <3>3
    <2>6. g = [i \in 0 .. m + 1 |-> Step(g, i)]
      BY <2>4, <2>5
    <2>. QED  BY <2>6
  <1>7. Len(b) \in Defined
    <2>1. Nat \subseteq Defined
      <3>. HIDE DEF Defined
      <3>. QED  BY <1>5, <1>6, NatSetInduction
    <2>. HIDE DEF Defined
    <2>2. Len(b) \in Nat
      OBVIOUS
    <2>. QED  BY <2>1, <2>2
  <1>8. n = [i \in 0 .. Len(b) |-> Step(n, i)]
    BY <1>7
  <1>. HIDE DEF n
  <1>9. n[0] = Step(n, 0) /\ \A i \in 1 .. Len(b) : n[i] = Step(n, i)
    <2>1. Len(b) \in Nat
      OBVIOUS
    <2>. QED  BY <1>8, <2>1
  <1>10. \A i \in 1 .. Len(b) : n[i] = 256 * n[i - 1] + b[i]
    <2>1. ASSUME NEW i \in 1 .. Len(b) PROVE n[i] = 256 * n[i - 1] + b[i]
      <3>1. i # 0 /\ n[i] = Step(n, i)
        BY <1>9
      <3>. QED  BY <1>3, <3>1, Zenon
    <2>. QED  BY <2>1
  <1>. QED  BY <1>1, <1>2, <1>9, <1>10 DEF IsNumber

\* Leading zeros change no number.
LEMMA NumberOfSuffix ==
    ASSUME NEW b \in Seq(Byte), NEW s \in Seq(Byte), NEW k \in Nat,
           Len(b) = k + Len(s),
           \A j \in 1 .. k : b[j] = 0,
           \A j \in 1 .. Len(s) : b[k + j] = s[j]
    PROVE  Number(b) = Number(s)
  <1>0. Len(s) \in Nat /\ Len(b) \in Nat
    OBVIOUS
  <1>1. PICK n : IsNumber(n, b)
    BY NumberUnfolds, Zenon
  <1>2. PICK m : IsNumber(m, s)
    BY NumberUnfolds, Zenon
  <1>3. n[k] = 0
    <2>. DEFINE P == {i \in Nat : i <= k => n[i] = 0}
    <2>1. 0 \in P
      BY <1>1 DEF IsNumber
    <2>2. ASSUME NEW i \in Nat, i \in P PROVE i + 1 \in P
      <3>1. CASE i + 1 <= k
        <4>1. i + 1 \in 1 .. Len(b) /\ i + 1 \in 1 .. k /\ (i + 1) - 1 = i
          BY <1>0, <3>1
        <4>2. n[i + 1] = 256 * n[i] + b[i + 1] /\ b[i + 1] = 0 /\ n[i] = 0
          BY <1>1, <2>2, <3>1, <4>1 DEF IsNumber
        <4>. QED  BY <4>2
      <3>. QED  BY <3>1
    <2>3. Nat \subseteq P
      <3>. HIDE DEF P
      <3>. QED  BY <2>1, <2>2, NatSetInduction
    <2>. QED  BY <2>3
  <1>4. n[k + Len(s)] = m[Len(s)]
    <2>. DEFINE P == {i \in Nat : i <= Len(s) => n[k + i] = m[i]}
    <2>1. 0 \in P
      BY <1>2, <1>3 DEF IsNumber
    <2>2. ASSUME NEW i \in Nat, i \in P PROVE i + 1 \in P
      <3>1. CASE i + 1 <= Len(s)
        <4>1. /\ k + (i + 1) \in 1 .. Len(b) /\ i + 1 \in 1 .. Len(s)
              /\ (i + 1) - 1 = i /\ k + (i + 1) - 1 = k + i
          BY <1>0, <3>1
        <4>2. n[k + (i + 1)] = 256 * n[k + i] + b[k + (i + 1)]
          BY <1>1, <4>1 DEF IsNumber
        <4>3. m[i + 1] = 256 * m[i] + s[i + 1]
          BY <1>2, <4>1 DEF IsNumber
        <4>4. b[k + (i + 1)] = s[i + 1] /\ n[k + i] = m[i]
          BY <1>0, <2>2, <3>1, <4>1
        <4>5. n[k + (i + 1)] = m[i + 1]
          BY <4>2, <4>3, <4>4, Zenon
        <4>. QED  BY <4>5
      <3>. QED  BY <3>1
    <2>3. Nat \subseteq P
      <3>. HIDE DEF P
      <3>. QED  BY <2>1, <2>2, NatSetInduction
    <2>. QED  BY <1>0, <2>3
  <1>. QED  BY <1>1, <1>2, <1>4 DEF IsNumber

-----------------------------------------------------------------------------
(* Stripped *)

\* What a part of a sequence is.
LEMMA PartProperties ==
    ASSUME NEW S, NEW b \in Seq(S), NEW i \in 1 .. Len(b) + 1, NEW k \in i - 1 .. Len(b)
    PROVE  /\ SubSeq(b, i, k) \in Seq(S)
           /\ Len(SubSeq(b, i, k)) = k - i + 1
           /\ \A j \in 1 .. k - i + 1 : SubSeq(b, i, k)[j] = b[i + j - 1]
  <1>1. i \in Int /\ k \in Int /\ Len(b) \in Nat /\ i - 1 <= k
    OBVIOUS
  <1>2. \A j \in i .. k : b[j] \in S
    OBVIOUS
  <1>. DEFINE t == SubSeq(b, i, k)
  <1>3. /\ t \in Seq(S)
        /\ Len(t) = IF i <= k THEN k - i + 1 ELSE 0
        /\ \A j \in 1 .. k - i + 1 : t[j] = b[i + j - 1]
    BY <1>1, <1>2, SubSeqProperties
  <1>. HIDE DEF t
  <1>4. Len(t) = k - i + 1
    BY <1>1, <1>3
  <1>. QED  BY <1>3, <1>4 DEF t

\* Position i is where Stripped(b) starts.
Strips(b, i) ==
    /\ i \in 1 .. Len(b)
    /\ i = Len(b) \/ b[i] # 0
    /\ \A j \in 1 .. i - 1 : b[j] = 0

\* There is such a position.
LEMMA StripsExists ==
    ASSUME NEW b \in Seq(Byte), b # << >>
    PROVE  \E i : Strips(b, i)
  <1>. SUFFICES ASSUME \A i : ~ Strips(b, i) PROVE FALSE
    OBVIOUS
  <1>0. Len(b) \in Nat /\ Len(b) >= 1
    OBVIOUS
  <1>. DEFINE P == {n \in Nat : n < Len(b) => \A j \in 1 .. n : b[j] = 0}
  <1>1. 0 \in P
    OBVIOUS
  <1>2. ASSUME NEW n \in Nat, n \in P PROVE n + 1 \in P
    <2>. SUFFICES ASSUME n + 1 < Len(b) PROVE \A j \in 1 .. n + 1 : b[j] = 0
      OBVIOUS
    <2>1. \A j \in 1 .. n : b[j] = 0
      BY <1>0, <1>2
    <2>2. ~ Strips(b, n + 1) /\ n + 1 \in 1 .. Len(b) /\ (n + 1) - 1 = n
      BY <1>0, <1>2
    <2>3. b[n + 1] = 0
      BY <2>1, <2>2 DEF Strips
    <2>. QED  BY <2>1, <2>3
  <1>3. Nat \subseteq P
    <2>1. \A n \in Nat : n \in P => n + 1 \in P
      BY <1>2
    <2>. HIDE DEF P
    <2>. QED  BY <1>1, <2>1, NatSetInduction
  <1>4. Len(b) - 1 \in Nat /\ Len(b) - 1 < Len(b)
    BY <1>0
  <1>5. \A j \in 1 .. Len(b) - 1 : b[j] = 0
    BY <1>3, <1>4
  <1>. QED  BY <1>0, <1>5 DEF Strips

\* There is one only, so Stripped(b) starts there.
LEMMA StrippedIs ==
    ASSUME NEW b \in Seq(Byte), NEW i, Strips(b, i)
    PROVE  Stripped(b) = SubSeq(b, i, Len(b))
  <1>. DEFINE Q(k) == /\ k = Len(b) \/ b[k] # 0
                      /\ \A j \in 1 .. k - 1 : b[j] = 0
  <1>0. Len(b) \in Nat /\ DOMAIN b = 1 .. Len(b) /\ i \in 1 .. Len(b) /\ b # << >>
    BY DEF Strips
  <1>1. i \in DOMAIN b /\ Q(i)
    BY <1>0 DEF Strips
  <1>2. ASSUME NEW k \in DOMAIN b, Q(k) PROVE k = i
    <2>1. i \in 1 .. Len(b) /\ k \in 1 .. Len(b)
      BY <1>0, <1>2
    <2>2. CASE k < i
      <3>1. k \in 1 .. i - 1
        BY <2>1, <2>2
      <3>2. b[k] = 0
        BY <1>1, <3>1
      <3>. QED  BY <1>2, <2>1, <2>2, <3>2
    <2>3. CASE i < k
      <3>1. i \in 1 .. k - 1
        BY <2>1, <2>3
      <3>2. b[i] = 0
        BY <1>2, <3>1
      <3>. QED  BY <1>1, <2>1, <2>3, <3>2
    <2>. QED  BY <2>1, <2>2, <2>3
  <1>3. Stripped(b) = SubSeq(b, CHOOSE k \in DOMAIN b : Q(k), Len(b))
    BY <1>0 DEF Stripped
  <1>. HIDE DEF Q
  <1>4. (CHOOSE k \in DOMAIN b : Q(k)) = i
    BY <1>1, <1>2
  <1>. QED  BY <1>3, <1>4

\* What Stripped leaves out is zeros, and what it leaves has no leading zero
\* unless it is the number zero.
LEMMA StrippedProperties ==
    ASSUME NEW b \in Seq(Byte), b # << >>
    PROVE  /\ Stripped(b) \in Seq(Byte)
           /\ Len(Stripped(b)) \in 1 .. Len(b)
           /\ Len(Stripped(b)) > 1 => Stripped(b)[1] # 0
           /\ \A j \in 1 .. Len(b) - Len(Stripped(b)) : b[j] = 0
           /\ \A j \in 1 .. Len(Stripped(b)) : b[Len(b) - Len(Stripped(b)) + j] = Stripped(b)[j]
  <1>1. PICK i : Strips(b, i)
    BY StripsExists
  <1>2. /\ i \in 1 .. Len(b) /\ Len(b) \in Nat /\ i \in Int /\ Len(b) \in Int
        /\ i = Len(b) \/ b[i] # 0
        /\ \A j \in 1 .. i - 1 : b[j] = 0
        /\ \A j \in i .. Len(b) : b[j] \in Byte
    BY <1>1 DEF Strips
  <1>. DEFINE s == Stripped(b)
  <1>3. s = SubSeq(b, i, Len(b))
    BY <1>1, StrippedIs
  <1>4. /\ s \in Seq(Byte) /\ Len(s) = Len(b) - i + 1
        /\ \A j \in 1 .. Len(b) - i + 1 : s[j] = b[i + j - 1]
    <2>. HIDE DEF s
    <2>1. i \in 1 .. Len(b) + 1 /\ Len(b) \in i - 1 .. Len(b)
      BY <1>2
    <2>. QED  BY <1>3, <2>1, PartProperties
  <1>. HIDE DEF s
  <1>5. Len(s) = Len(b) - i + 1 /\ Len(s) \in 1 .. Len(b) /\ Len(b) - Len(s) = i - 1
    BY <1>2, <1>4
  <1>6. s[1] = b[i]
    <2>1. 1 \in 1 .. Len(b) - i + 1 /\ i + 1 - 1 = i
      BY <1>2
    <2>. QED  BY <1>4, <2>1
  <1>7. \A j \in 1 .. Len(s) : b[Len(b) - Len(s) + j] = s[j]
    <2>1. ASSUME NEW j \in 1 .. Len(s) PROVE b[Len(b) - Len(s) + j] = s[j]
      <3>1. j \in 1 .. Len(b) - i + 1 /\ Len(b) - Len(s) + j = i + j - 1
        BY <1>2, <1>5
      <3>. QED  BY <1>4, <3>1
    <2>. QED  BY <2>1
  <1>8. Len(s) > 1 => s[1] # 0
    BY <1>2, <1>5, <1>6
  <1>9. \A j \in 1 .. Len(b) - Len(s) : b[j] = 0
    BY <1>2, <1>5
  <1>. QED  BY <1>4, <1>5, <1>7, <1>8, <1>9 DEF s

\* A suffix that could be Stripped(b) is Stripped(b).
LEMMA StrippedOf ==
    ASSUME NEW b \in Seq(Byte), NEW s \in Seq(Byte), NEW k \in Nat,
           s # << >>, Len(s) > 1 => s[1] # 0,
           Len(b) = k + Len(s),
           \A j \in 1 .. k : b[j] = 0,
           \A j \in 1 .. Len(s) : b[k + j] = s[j]
    PROVE  Stripped(b) = s
  <1>0. Len(s) \in Nat /\ Len(b) \in Nat /\ Len(s) >= 1
    OBVIOUS
  <1>1. Strips(b, k + 1)
    <2>1. k + 1 \in 1 .. Len(b) /\ (k + 1) - 1 = k
      BY <1>0
    <2>2. b[k + 1] = s[1]
      BY <1>0
    <2>3. k + 1 = Len(b) \/ b[k + 1] # 0
      BY <1>0, <2>2
    <2>. QED  BY <2>1, <2>3 DEF Strips
  <1>2. Stripped(b) = SubSeq(b, k + 1, Len(b))
    BY <1>1, StrippedIs
  <1>3. k + 1 \in 1 .. Len(b) + 1 /\ Len(b) \in (k + 1) - 1 .. Len(b)
    BY <1>0
  <1>. DEFINE t == SubSeq(b, k + 1, Len(b))
  <1>4. /\ t \in Seq(Byte)
        /\ Len(t) = Len(b) - (k + 1) + 1
        /\ \A j \in 1 .. Len(b) - (k + 1) + 1 : t[j] = b[k + 1 + j - 1]
    BY <1>3, PartProperties
  <1>. HIDE DEF t
  <1>5. Len(t) = Len(s)
    BY <1>0, <1>4
  <1>6. ASSUME NEW j \in 1 .. Len(t) PROVE t[j] = s[j]
    <2>1. j \in 1 .. Len(b) - (k + 1) + 1 /\ k + 1 + j - 1 = k + j /\ j \in 1 .. Len(s)
      BY <1>0, <1>5
    <2>. QED  BY <1>4, <2>1
  <1>7. t = s
    BY <1>4, <1>5, <1>6, SeqEqual
  <1>. QED  BY <1>2, <1>7 DEF t

-----------------------------------------------------------------------------
(* DER integers *)

\* What stands before a sequence moves its elements on.
LEMMA PrefixProperties ==
    ASSUME NEW S, NEW x \in S, NEW y \in S, NEW s \in Seq(S)
    PROVE  /\ <<x>> \o s \in Seq(S) /\ Len(<<x>> \o s) = 1 + Len(s)
           /\ (<<x>> \o s)[1] = x
           /\ \A j \in 1 .. Len(s) : (<<x>> \o s)[1 + j] = s[j]
           /\ <<x, y>> \o s \in Seq(S) /\ Len(<<x, y>> \o s) = 2 + Len(s)
           /\ (<<x, y>> \o s)[1] = x /\ (<<x, y>> \o s)[2] = y
           /\ \A j \in 1 .. Len(s) : (<<x, y>> \o s)[2 + j] = s[j]
  <1>1. /\ <<x>> \in Seq(S) /\ Len(<<x>>) = 1 /\ <<x>>[1] = x
        /\ <<x, y>> \in Seq(S) /\ Len(<<x, y>>) = 2 /\ <<x, y>>[1] = x /\ <<x, y>>[2] = y
        /\ Len(s) \in Nat
    OBVIOUS
  <1>2. ASSUME NEW p \in Seq(S)
        PROVE  /\ p \o s \in Seq(S) /\ Len(p \o s) = Len(p) + Len(s)
               /\ \A j \in 1 .. Len(p) : (p \o s)[j] = p[j]
               /\ \A j \in 1 .. Len(s) : (p \o s)[Len(p) + j] = s[j]
    <2>1. p \o s \in Seq(S)
      BY ConcatProperties
    <2>. QED  BY <2>1, ConcatElements
  <1>. DEFINE p == <<x>>
              q == <<x, y>>
  <1>4. /\ p \in Seq(S) /\ Len(p) = 1 /\ p[1] = x
        /\ q \in Seq(S) /\ Len(q) = 2 /\ q[1] = x /\ q[2] = y
    BY <1>1
  <1>. HIDE DEF p, q
  <1>0. Len(s) \in Nat
    BY <1>1
  <1>7. /\ p \o s \in Seq(S) /\ Len(p \o s) = Len(p) + Len(s)
        /\ \A j \in 1 .. Len(p) : (p \o s)[j] = p[j]
        /\ \A j \in 1 .. Len(s) : (p \o s)[Len(p) + j] = s[j]
    BY <1>2, <1>4
  <1>8. /\ q \o s \in Seq(S) /\ Len(q \o s) = Len(q) + Len(s)
        /\ \A j \in 1 .. Len(q) : (q \o s)[j] = q[j]
        /\ \A j \in 1 .. Len(s) : (q \o s)[Len(q) + j] = s[j]
    BY <1>2, <1>4
  <1>5. /\ p \o s \in Seq(S) /\ Len(p \o s) = 1 + Len(s) /\ (p \o s)[1] = x
        /\ \A j \in 1 .. Len(s) : (p \o s)[1 + j] = s[j]
    BY <1>0, <1>4, <1>7
  <1>6. /\ q \o s \in Seq(S) /\ Len(q \o s) = 2 + Len(s) /\ (q \o s)[1] = x /\ (q \o s)[2] = y
        /\ \A j \in 1 .. Len(s) : (q \o s)[2 + j] = s[j]
    BY <1>0, <1>4, <1>8
  <1>. QED  BY <1>5, <1>6 DEF p, q

\* What EncodeInteger puts behind the tag and the length.
Content(b) == IF Stripped(b)[1] >= 128 THEN <<0>> \o Stripped(b) ELSE Stripped(b)

\* The content is the number, in as few bytes as a positive number allows.
LEMMA ContentProperties ==
    ASSUME NEW b \in Seq(Byte), b # << >>
    PROVE  /\ Content(b) \in Seq(Byte) /\ Len(Content(b)) \in 1 .. Len(b) + 1
           /\ Content(b)[1] < 128
           /\ Len(Content(b)) > 1 => Content(b)[1] # 0 \/ Content(b)[2] >= 128
           /\ Stripped(Content(b)) = Stripped(b)
           /\ Number(Content(b)) = Number(b)
  <1>. DEFINE s == Stripped(b)
              c == Content(b)
  <1>1. /\ s \in Seq(Byte) /\ Len(s) \in 1 .. Len(b) /\ Len(b) \in Nat
        /\ Len(s) > 1 => s[1] # 0
        /\ \A j \in 1 .. Len(b) - Len(s) : b[j] = 0
        /\ \A j \in 1 .. Len(s) : b[Len(b) - Len(s) + j] = s[j]
    BY StrippedProperties
  <1>2. Number(b) = Number(s)
    <2>1. Len(b) - Len(s) \in Nat /\ Len(b) = (Len(b) - Len(s)) + Len(s)
      BY <1>1
    <2>. HIDE DEF s
    <2>. QED  BY <1>1, <2>1, NumberOfSuffix
  <1>3. s[1] \in Nat /\ s # << >> /\ Len(s) \in Nat
    <2>. HIDE DEF s
    <2>1. s[1] \in Byte
      BY <1>1
    <2>. QED  BY <1>1, <2>1, ByteIs
  <1>4. CASE s[1] >= 128
    <2>1. c = <<0>> \o s
      BY <1>4 DEF Content
    <2>. HIDE DEF s, c
    <2>2. /\ c \in Seq(Byte) /\ Len(c) = 1 + Len(s) /\ c[1] = 0
          /\ \A j \in 1 .. Len(s) : c[1 + j] = s[j]
      <3>1. 0 \in Byte
        BY ByteIs
      <3>. QED  BY <1>1, <2>1, <3>1, PrefixProperties
    <2>3. c[2] = s[1]
      BY <1>1, <2>2
    <2>4. Stripped(c) = s /\ Number(c) = Number(s)
      <3>1. 1 \in Nat /\ \A j \in 1 .. 1 : c[j] = 0
        BY <2>2
      <3>. QED  BY <1>1, <1>3, <2>2, <3>1, StrippedOf, NumberOfSuffix
    <2>5. Len(c) \in 1 .. Len(b) + 1
      BY <1>1, <2>2
    <2>. QED  BY <1>2, <1>4, <2>2, <2>3, <2>4, <2>5 DEF s, c
  <1>5. CASE ~ (s[1] >= 128)
    <2>1. c = s
      BY <1>5 DEF Content
    <2>. HIDE DEF s, c
    <2>2. Stripped(s) = s
      <3>1. 0 \in Nat /\ Len(s) = 0 + Len(s)
            /\ (\A j \in 1 .. 0 : s[j] = 0) /\ \A j \in 1 .. Len(s) : s[0 + j] = s[j]
        BY <1>1
      <3>. QED  BY <1>1, <1>3, <3>1, StrippedOf
    <2>3. Len(s) \in 1 .. Len(b) + 1 /\ s[1] < 128 /\ (Len(s) > 1 => s[1] # 0)
      <3>1. s[1] < 128
        BY <1>3, <1>5
      <3>2. Len(s) \in 1 .. Len(b) + 1
        BY <1>1
      <3>. QED  BY <1>1, <3>1, <3>2
    <2>4. /\ c \in Seq(Byte) /\ Len(c) \in 1 .. Len(b) + 1 /\ c[1] < 128
          /\ Len(c) > 1 => c[1] # 0
          /\ Stripped(c) = s /\ Number(c) = Number(b)
      BY <1>1, <1>2, <2>1, <2>2, <2>3
    <2>. QED  BY <2>4 DEF s, c
  <1>. QED  BY <1>4, <1>5

\* The encoding is a tag, a length and the content.
LEMMA EncodeIntegerIs ==
    ASSUME NEW b \in Seq(Byte), b # << >>, Len(b) < 128
    PROVE  /\ EncodeInteger(b) \in Seq(Byte)
           /\ Len(EncodeInteger(b)) = 2 + Len(Content(b))
           /\ EncodeInteger(b)[1] = 2 /\ EncodeInteger(b)[2] = Len(Content(b))
           /\ \A j \in 1 .. Len(Content(b)) : EncodeInteger(b)[2 + j] = Content(b)[j]
  <1>. DEFINE c == Content(b)
  <1>1. EncodeInteger(b) = <<2, Len(c)>> \o c
    BY DEF EncodeInteger, Content
  <1>2. c \in Seq(Byte) /\ Len(c) \in 1 .. Len(b) + 1 /\ Len(b) \in Nat
    BY ContentProperties
  <1>. HIDE DEF c
  <1>3. 2 \in Byte /\ Len(c) \in Byte
    <2>1. Len(c) \in Nat /\ Len(c) <= 255
      BY <1>2
    <2>. QED  BY <2>1, ByteIs
  <1>. DEFINE e == <<2, Len(c)>> \o c
  <1>4. /\ e \in Seq(Byte) /\ Len(e) = 2 + Len(c) /\ e[1] = 2 /\ e[2] = Len(c)
        /\ \A j \in 1 .. Len(c) : e[2 + j] = c[j]
    BY <1>2, <1>3, PrefixProperties
  <1>. HIDE DEF e
  <1>5. EncodeInteger(b) = e
    BY <1>1 DEF e
  <1>. QED  BY <1>4, <1>5, Zenon DEF c

\* What looks like the encoding of b is a DER INTEGER of the number b stands for.
LEMMA DerIntegerIs ==
    ASSUME NEW b \in Seq(Byte), b # << >>, NEW e \in Seq(Byte),
           Len(e) = 2 + Len(Content(b)), e[1] = 2, e[2] = Len(Content(b)),
           \A j \in 1 .. Len(Content(b)) : e[2 + j] = Content(b)[j]
    PROVE  IsDerInteger(e, Number(b))
  <1>. DEFINE c == Content(b)
              t == SubSeq(e, 3, Len(e))
  <1>1. /\ c \in Seq(Byte) /\ Len(c) \in 1 .. Len(b) + 1 /\ Len(b) \in Nat
        /\ c[1] < 128 /\ Number(c) = Number(b)
        /\ Len(c) > 1 => c[1] # 0 \/ c[2] >= 128
    BY ContentProperties
  <1>. HIDE DEF c
  <1>2. 3 \in 1 .. Len(e) + 1 /\ Len(e) \in 3 - 1 .. Len(e) /\ Len(e) \in Nat /\ Len(e) - 3 + 1 = Len(c)
    BY <1>1 DEF c
  <1>3. /\ t \in Seq(Byte) /\ Len(t) = Len(e) - 3 + 1
        /\ \A j \in 1 .. Len(e) - 3 + 1 : t[j] = e[3 + j - 1]
    BY <1>2, PartProperties
  <1>. HIDE DEF t
  <1>4. Len(t) = Len(c) /\ \A j \in 1 .. Len(t) : t[j] = c[j]
    BY <1>1, <1>2, <1>3 DEF c
  <1>5. t = c
    BY <1>1, <1>3, <1>4, SeqEqual
  <1>6. Len(e) >= 3 /\ e[1] = 2 /\ e[2] = Len(t)
    BY <1>1, <1>2, <1>4 DEF c
  <1>. QED  BY <1>1, <1>5, <1>6 DEF IsDerInteger, t

\* decodeInteger finds the content where an encoding stands.
LEMMA DecodeIntegerIs ==
    ASSUME NEW d \in Seq(Byte), NEW c \in Seq(Byte), c # << >>, NEW i \in 1 .. Len(d),
           i + 1 + Len(c) <= Len(d), d[i] = 2, d[i + 1] = Len(c),
           \A j \in 1 .. Len(c) : d[i + 1 + j] = c[j]
    PROVE  DecodeInteger(d, i) = [ok |-> TRUE, value |-> c, next |-> i + 2 + Len(c)]
  <1>1. /\ Len(c) \in Nat /\ Len(c) >= 1 /\ Len(d) \in Nat /\ DOMAIN d = 1 .. Len(d)
        /\ i \in Nat /\ i \in DOMAIN d /\ i + 1 \in DOMAIN d
    OBVIOUS
  <1>. DEFINE first == i + 2
              last  == i + 1 + Len(c)
              t     == SubSeq(d, first, last)
  <1>2. Bytes(d, i + 2, Len(c)) = t
    <2>1. ~ (i + 2 + Len(c) - 1 > Len(d)) /\ i + 2 + Len(c) - 1 = i + 1 + Len(c)
      BY <1>1
    <2>. QED  BY <2>1 DEF Bytes
  <1>3. /\ first \in 1 .. Len(d) + 1 /\ last \in first - 1 .. Len(d)
        /\ last - first + 1 = Len(c) /\ first = i + 2
    BY <1>1
  <1>. HIDE DEF first, last
  <1>4. /\ t \in Seq(Byte) /\ Len(t) = last - first + 1
        /\ \A j \in 1 .. last - first + 1 : t[j] = d[first + j - 1]
    BY <1>3, PartProperties
  <1>. HIDE DEF t
  <1>5. Len(t) = Len(c) /\ \A j \in 1 .. Len(t) : t[j] = c[j]
    <2>1. Len(t) = Len(c)
      BY <1>3, <1>4
    <2>2. ASSUME NEW j \in 1 .. Len(t) PROVE t[j] = c[j]
      <3>1. j \in 1 .. last - first + 1 /\ j \in 1 .. Len(c) /\ first + j - 1 = i + 1 + j
        BY <1>1, <1>3, <2>1
      <3>. QED  BY <1>4, <3>1
    <2>. QED  BY <2>1, <2>2
  <1>6. t = c
    BY <1>4, <1>5, SeqEqual
  <1>. QED  BY <1>1, <1>2, <1>6 DEF DecodeInteger

-----------------------------------------------------------------------------
(* Signatures *)

\* Signatures as R||S, and points as X||Y.
Pairs == [1 .. 2 * W -> Byte]

\* The two halves of a pair.
FirstHalf(c)  == SubSeq(c, 1, W)
SecondHalf(c) == SubSeq(c, W + 1, 2 * W)

\* A coordinate has bytes, and a DER signature a length of one byte.
LEMMA Widths ==
    W \in Nat /\ W >= 1 /\ 2 * W \in Nat /\ W < 128 /\ 2 * W < 122
  BY AdapterAssumption

\* The halves are W bytes each, are what p1363ToDer reads, and make the pair.
LEMMA HalvesAre ==
    ASSUME NEW c \in Pairs
    PROVE  /\ c \in Seq(Byte) /\ Len(c) = 2 * W
           /\ FirstHalf(c) \in Seq(Byte) /\ Len(FirstHalf(c)) = W /\ FirstHalf(c) # << >>
           /\ SecondHalf(c) \in Seq(Byte) /\ Len(SecondHalf(c)) = W /\ SecondHalf(c) # << >>
           /\ Bytes(c, 1, W) = FirstHalf(c) /\ Bytes(c, W + 1, W) = SecondHalf(c)
           /\ FirstHalf(c) \o SecondHalf(c) = c
  <1>. DEFINE n == 2 * W
              r == SubSeq(c, 1, W)
              s == SubSeq(c, W + 1, n)
  <1>0. W \in Nat /\ W >= 1 /\ n \in Nat /\ n = W + W
    BY Widths
  <1>1. c \in [1 .. n -> Byte]
    BY DEF Pairs
  <1>. HIDE DEF n
  <1>2. c \in Seq(Byte) /\ Len(c) = n
    BY <1>0, <1>1
  <1>3. r \in Seq(Byte) /\ Len(r) = W /\ \A j \in 1 .. W : r[j] = c[j]
    <2>1. 1 \in 1 .. Len(c) + 1 /\ W \in 1 - 1 .. Len(c) /\ W - 1 + 1 = W
      BY <1>0, <1>2
    <2>2. /\ r \in Seq(Byte) /\ Len(r) = W - 1 + 1
          /\ \A j \in 1 .. W - 1 + 1 : r[j] = c[1 + j - 1]
      BY <1>2, <2>1, PartProperties
    <2>. HIDE DEF r
    <2>. QED  BY <1>0, <2>1, <2>2
  <1>4. s \in Seq(Byte) /\ Len(s) = W /\ \A j \in 1 .. W : s[j] = c[W + j]
    <2>. DEFINE i == W + 1
                t == SubSeq(c, i, n)
    <2>1. i \in 1 .. Len(c) + 1 /\ n \in i - 1 .. Len(c) /\ n - i + 1 = W
      BY <1>0, <1>2
    <2>2. \A j \in 1 .. W : i + j - 1 = W + j
      BY <1>0
    <2>. HIDE DEF i
    <2>3. /\ t \in Seq(Byte) /\ Len(t) = n - i + 1
          /\ \A j \in 1 .. n - i + 1 : t[j] = c[i + j - 1]
      BY <1>2, <2>1, PartProperties
    <2>. HIDE DEF t
    <2>4. t \in Seq(Byte) /\ Len(t) = W /\ \A j \in 1 .. W : t[j] = c[W + j]
      BY <2>1, <2>2, <2>3
    <2>. QED  BY <2>4 DEF t, i
  <1>5. Bytes(c, 1, W) = r /\ Bytes(c, W + 1, W) = s
    <2>1. ~ (1 + W - 1 > Len(c)) /\ 1 + W - 1 = W
      BY <1>0, <1>2
    <2>2. ~ (W + 1 + W - 1 > Len(c)) /\ W + 1 + W - 1 = n
      BY <1>0, <1>2
    <2>. QED  BY <2>1, <2>2 DEF Bytes
  <1>. HIDE DEF r, s
  <1>6. r \o s = c
    <2>1. r \o s \in Seq(Byte)
      BY <1>3, <1>4, ConcatProperties
    <2>2. /\ Len(r \o s) = W + W
          /\ \A j \in 1 .. W : (r \o s)[j] = r[j]
          /\ \A j \in 1 .. W : (r \o s)[W + j] = s[j]
      <3>1. /\ Len(r \o s) = Len(r) + Len(s)
            /\ \A j \in 1 .. Len(r) : (r \o s)[j] = r[j]
            /\ \A j \in 1 .. Len(s) : (r \o s)[Len(r) + j] = s[j]
        <4>1. r \in Seq(Byte) /\ s \in Seq(Byte)
          BY <1>3, <1>4
        <4>. QED  BY <4>1, ConcatElements
      <3>2. Len(r) = W /\ Len(s) = W
        BY <1>3, <1>4
      <3>. QED  BY <3>1, <3>2, Zenon
    <2>3. ASSUME NEW j \in 1 .. Len(c) PROVE (r \o s)[j] = c[j]
      <3>1. CASE j <= W
        <4>1. j \in 1 .. W
          BY <1>0, <1>2, <2>3, <3>1
        <4>. QED  BY <1>3, <2>2, <4>1
      <3>2. CASE j > W
        <4>1. j - W \in 1 .. W /\ W + (j - W) = j
          BY <1>0, <1>2, <2>3, <3>2
        <4>2. (r \o s)[W + (j - W)] = s[j - W] /\ s[j - W] = c[W + (j - W)]
          BY <1>4, <2>2, <4>1
        <4>. QED  BY <4>1, <4>2
      <3>3. j \in Nat
        BY <1>0, <1>2
      <3>4. j <= W \/ j > W
        BY <1>0, <3>3
      <3>. QED  BY <3>1, <3>2, <3>4, Zenon
    <2>4. Len(r \o s) = Len(c)
      BY <1>0, <1>2, <2>2
    <2>. QED  BY <1>2, <2>1, <2>3, <2>4, SeqEqual
  <1>7. r # << >> /\ s # << >>
    BY <1>0, <1>3, <1>4
  <1>. QED
    BY <1>2, <1>3, <1>4, <1>5, <1>6, <1>7 DEF FirstHalf, SecondHalf, n, r, s

\* p1363ToDer lays out the two encoded halves behind a SEQUENCE header.
LEMMA DerLayout ==
    ASSUME NEW c \in Pairs
    PROVE  LET d == P1363ToDer(c)
               r == Content(FirstHalf(c))
               s == Content(SecondHalf(c))
           IN  /\ r \in Seq(Byte) /\ Len(r) \in 1 .. W + 1
               /\ s \in Seq(Byte) /\ Len(s) \in 1 .. W + 1
               /\ d \in Seq(Byte) /\ Len(d) = 6 + Len(r) + Len(s)
               /\ d[1] = 48 /\ d[2] = 4 + Len(r) + Len(s)
               /\ d[3] = 2 /\ d[4] = Len(r) /\ \A j \in 1 .. Len(r) : d[4 + j] = r[j]
               /\ d[5 + Len(r)] = 2 /\ d[6 + Len(r)] = Len(s)
               /\ \A j \in 1 .. Len(s) : d[6 + Len(r) + j] = s[j]
  <1>. DEFINE r == Content(FirstHalf(c))
              s == Content(SecondHalf(c))
              x == EncodeInteger(FirstHalf(c))
              y == EncodeInteger(SecondHalf(c))
              q == x \o y
              d == <<48, Len(q)>> \o q
  <1>0. W \in Nat /\ W >= 1 /\ W < 128 /\ 2 * W < 122
    BY Widths
  <1>1. /\ FirstHalf(c) \in Seq(Byte) /\ Len(FirstHalf(c)) = W /\ FirstHalf(c) # << >>
        /\ SecondHalf(c) \in Seq(Byte) /\ Len(SecondHalf(c)) = W /\ SecondHalf(c) # << >>
    BY HalvesAre
  <1>2. P1363ToDer(c) = d
    BY HalvesAre DEF P1363ToDer
  <1>3. /\ r \in Seq(Byte) /\ Len(r) \in 1 .. W + 1
        /\ s \in Seq(Byte) /\ Len(s) \in 1 .. W + 1
    BY <1>1, ContentProperties
  <1>4. /\ x \in Seq(Byte) /\ Len(x) = 2 + Len(r) /\ x[1] = 2 /\ x[2] = Len(r)
        /\ \A j \in 1 .. Len(r) : x[2 + j] = r[j]
    BY <1>0, <1>1, EncodeIntegerIs
  <1>5. /\ y \in Seq(Byte) /\ Len(y) = 2 + Len(s) /\ y[1] = 2 /\ y[2] = Len(s)
        /\ \A j \in 1 .. Len(s) : y[2 + j] = s[j]
    BY <1>0, <1>1, EncodeIntegerIs
  <1>. HIDE DEF x, y, r, s
  <1>6. q \in Seq(Byte)
    BY <1>4, <1>5, ConcatProperties
  <1>7. /\ Len(q) = Len(x) + Len(y)
        /\ \A j \in 1 .. Len(x) : q[j] = x[j]
        /\ \A j \in 1 .. Len(y) : q[Len(x) + j] = y[j]
    <2>1. x \in Seq(Byte) /\ y \in Seq(Byte)
      BY <1>4, <1>5
    <2>. QED  BY <2>1, ConcatElements
  <1>. HIDE DEF q
  <1>8. Len(r) \in Nat /\ Len(s) \in Nat /\ Len(q) = 4 + Len(r) + Len(s)
    BY <1>0, <1>3, <1>4, <1>5, <1>7
  <1>9. 48 \in Byte /\ Len(q) \in Byte
    <2>1. Len(q) \in Nat /\ Len(q) <= 255
      BY <1>0, <1>3, <1>8
    <2>. QED  BY <2>1, ByteIs
  <1>10. /\ d \in Seq(Byte) /\ Len(d) = 2 + Len(q) /\ d[1] = 48 /\ d[2] = Len(q)
         /\ \A j \in 1 .. Len(q) : d[2 + j] = q[j]
    BY <1>6, <1>9, PrefixProperties
  <1>. HIDE DEF d
  <1>11. d[3] = 2 /\ d[4] = Len(r)
    <2>1. 1 \in 1 .. Len(x) /\ 2 \in 1 .. Len(x) /\ 1 \in 1 .. Len(q) /\ 2 \in 1 .. Len(q)
      BY <1>3, <1>4, <1>8
    <2>2. d[2 + 1] = q[1] /\ d[2 + 2] = q[2]
      BY <1>10, <2>1
    <2>. QED  BY <1>4, <1>7, <2>1, <2>2
  <1>12. ASSUME NEW j \in 1 .. Len(r) PROVE d[4 + j] = r[j]
    <2>1. 2 + j \in 1 .. Len(x) /\ 2 + j \in 1 .. Len(q) /\ 2 + (2 + j) = 4 + j
      BY <1>4, <1>8
    <2>2. d[2 + (2 + j)] = q[2 + j] /\ q[2 + j] = x[2 + j] /\ x[2 + j] = r[j]
      BY <1>4, <1>7, <1>10, <2>1
    <2>. QED  BY <2>1, <2>2
  <1>13. ASSUME NEW k \in 1 .. Len(y) PROVE d[4 + Len(r) + k] = y[k]
    <2>1. /\ Len(x) + k \in 1 .. Len(q) /\ 2 + (Len(x) + k) = 4 + Len(r) + k
      BY <1>4, <1>5, <1>7, <1>8
    <2>2. d[2 + (Len(x) + k)] = q[Len(x) + k] /\ q[Len(x) + k] = y[k]
      BY <1>7, <1>10, <2>1
    <2>. QED  BY <2>1, <2>2
  <1>14. d[5 + Len(r)] = 2 /\ d[6 + Len(r)] = Len(s)
    <2>1. /\ 1 \in 1 .. Len(y) /\ 2 \in 1 .. Len(y)
          /\ 4 + Len(r) + 1 = 5 + Len(r) /\ 4 + Len(r) + 2 = 6 + Len(r)
      BY <1>5, <1>8
    <2>2. d[4 + Len(r) + 1] = y[1] /\ d[4 + Len(r) + 2] = y[2]
      BY <1>13, <2>1
    <2>. QED  BY <1>5, <2>1, <2>2
  <1>15. ASSUME NEW j \in 1 .. Len(s) PROVE d[6 + Len(r) + j] = s[j]
    <2>1. 2 + j \in 1 .. Len(y) /\ 4 + Len(r) + (2 + j) = 6 + Len(r) + j
      BY <1>5, <1>8
    <2>2. d[4 + Len(r) + (2 + j)] = y[2 + j] /\ y[2 + j] = s[j]
      BY <1>5, <1>13, <2>1
    <2>. QED  BY <2>1, <2>2
  <1>16. Len(d) = 6 + Len(r) + Len(s) /\ d[2] = 4 + Len(r) + Len(s)
    BY <1>8, <1>10
  <1>17. /\ r \in Seq(Byte) /\ Len(r) \in 1 .. W + 1
         /\ s \in Seq(Byte) /\ Len(s) \in 1 .. W + 1
         /\ d \in Seq(Byte) /\ Len(d) = 6 + Len(r) + Len(s)
         /\ d[1] = 48 /\ d[2] = 4 + Len(r) + Len(s)
         /\ d[3] = 2 /\ d[4] = Len(r) /\ \A j \in 1 .. Len(r) : d[4 + j] = r[j]
         /\ d[5 + Len(r)] = 2 /\ d[6 + Len(r)] = Len(s)
         /\ \A j \in 1 .. Len(s) : d[6 + Len(r) + j] = s[j]
    BY <1>3, <1>10, <1>11, <1>12, <1>14, <1>15, <1>16
  <1>. QED  BY <1>2, <1>17, Zenon DEF r, s

\* The result of p1363ToDer is the DER encoding of the pair.
THEOREM DerIsDer ==
    ASSUME NEW c \in Pairs
    PROVE  IsDerOf(P1363ToDer(c), c)
  <1>. DEFINE d == P1363ToDer(c)
              r == Content(FirstHalf(c))
              s == Content(SecondHalf(c))
              k == 4 + Len(r)
              e == SubSeq(d, 3, k)
              f == SubSeq(d, k + 1, Len(d))
  <1>1. /\ r \in Seq(Byte) /\ Len(r) \in 1 .. W + 1
        /\ s \in Seq(Byte) /\ Len(s) \in 1 .. W + 1
        /\ d \in Seq(Byte) /\ Len(d) = 6 + Len(r) + Len(s)
        /\ d[1] = 48 /\ d[2] = 4 + Len(r) + Len(s)
        /\ d[3] = 2 /\ d[4] = Len(r) /\ \A j \in 1 .. Len(r) : d[4 + j] = r[j]
        /\ d[5 + Len(r)] = 2 /\ d[6 + Len(r)] = Len(s)
        /\ \A j \in 1 .. Len(s) : d[6 + Len(r) + j] = s[j]
    BY DerLayout
  <1>2. /\ FirstHalf(c) \in Seq(Byte) /\ FirstHalf(c) # << >>
        /\ SecondHalf(c) \in Seq(Byte) /\ SecondHalf(c) # << >>
    BY HalvesAre
  <1>. HIDE DEF d, r, s
  <1>3. /\ Len(r) \in Nat /\ Len(r) >= 1 /\ Len(s) \in Nat /\ Len(s) >= 1 /\ Len(d) \in Nat
        /\ k \in Nat /\ k = 4 + Len(r) /\ Len(d) = k + 2 + Len(s)
    BY <1>1, Widths
  <1>. HIDE DEF k
  <1>4. IsDerInteger(e, Number(FirstHalf(c)))
    <2>1. 3 \in 1 .. Len(d) + 1 /\ k \in 3 - 1 .. Len(d) /\ k - 3 + 1 = 2 + Len(r)
      BY <1>3
    <2>2. /\ e \in Seq(Byte) /\ Len(e) = k - 3 + 1
          /\ \A j \in 1 .. k - 3 + 1 : e[j] = d[3 + j - 1]
      BY <1>1, <2>1, PartProperties
    <2>. HIDE DEF e
    <2>3. e[1] = 2 /\ e[2] = Len(r)
      <3>1. /\ 1 \in 1 .. k - 3 + 1 /\ 3 + 1 - 1 = 3
            /\ 2 \in 1 .. k - 3 + 1 /\ 3 + 2 - 1 = 4
        BY <1>3
      <3>2. e[1] = d[3] /\ e[2] = d[4]
        BY <2>2, <3>1
      <3>. QED  BY <1>1, <3>2
    <2>4. ASSUME NEW j \in 1 .. Len(r) PROVE e[2 + j] = r[j]
      <3>1. 2 + j \in 1 .. k - 3 + 1 /\ 3 + (2 + j) - 1 = 4 + j
        BY <1>3
      <3>2. e[2 + j] = d[4 + j]
        BY <2>2, <3>1
      <3>. QED  BY <1>1, <3>2
    <2>5. Len(e) = 2 + Len(r)
      BY <2>1, <2>2
    <2>. QED  BY <1>2, <2>2, <2>3, <2>4, <2>5, DerIntegerIs DEF r
  <1>5. IsDerInteger(f, Number(SecondHalf(c)))
    <2>. DEFINE i == k + 1
                n == Len(d)
                g == SubSeq(d, i, n)
    <2>1. /\ i \in 1 .. Len(d) + 1 /\ n \in i - 1 .. Len(d) /\ n - i + 1 = 2 + Len(s)
          /\ i \in Nat /\ i = 5 + Len(r)
      BY <1>3
    <2>. HIDE DEF i, n
    <2>2. /\ g \in Seq(Byte) /\ Len(g) = n - i + 1
          /\ \A j \in 1 .. n - i + 1 : g[j] = d[i + j - 1]
      BY <1>1, <2>1, PartProperties
    <2>. HIDE DEF g
    <2>3. g[1] = 2 /\ g[2] = Len(s)
      <3>1. /\ 1 \in 1 .. n - i + 1 /\ i + 1 - 1 = 5 + Len(r)
            /\ 2 \in 1 .. n - i + 1 /\ i + 2 - 1 = 6 + Len(r)
        BY <1>3, <2>1
      <3>2. g[1] = d[5 + Len(r)] /\ g[2] = d[6 + Len(r)]
        BY <2>2, <3>1
      <3>. QED  BY <1>1, <3>2
    <2>4. ASSUME NEW j \in 1 .. Len(s) PROVE g[2 + j] = s[j]
      <3>1. 2 + j \in 1 .. n - i + 1 /\ i + (2 + j) - 1 = 6 + Len(r) + j
        BY <1>3, <2>1
      <3>2. g[2 + j] = d[6 + Len(r) + j]
        BY <2>2, <3>1
      <3>. QED  BY <1>1, <3>2
    <2>5. Len(g) = 2 + Len(s)
      BY <2>1, <2>2
    <2>6. IsDerInteger(g, Number(SecondHalf(c)))
      BY <1>2, <2>2, <2>3, <2>4, <2>5, DerIntegerIs DEF s
    <2>. QED  BY <2>6 DEF g, i, n
  <1>6. Len(d) > 2 /\ d[1] = 48 /\ d[2] = Len(d) - 2 /\ k \in 3 .. Len(d) - 1
    BY <1>1, <1>3
  <1>7. /\ Number(FirstHalf(c)) = Number(SubSeq(c, 1, W))
        /\ Number(SecondHalf(c)) = Number(SubSeq(c, W + 1, 2 * W))
    BY DEF FirstHalf, SecondHalf
  <1>8. IsDerOf(d, c)
    <2>. HIDE DEF e, f
    <2>1. \E m \in 3 .. Len(d) - 1 :
              /\ IsDerInteger(SubSeq(d, 3, m), Number(SubSeq(c, 1, W)))
              /\ IsDerInteger(SubSeq(d, m + 1, Len(d)), Number(SubSeq(c, W + 1, 2 * W)))
      <3>1. IsDerInteger(SubSeq(d, 3, k), Number(SubSeq(c, 1, W)))
        BY <1>4, <1>7, Zenon DEF e
      <3>2. IsDerInteger(SubSeq(d, k + 1, Len(d)), Number(SubSeq(c, W + 1, 2 * W)))
        BY <1>5, <1>7, Zenon DEF f
      <3>. QED  BY <1>6, <3>1, <3>2, Zenon
    <2>. QED  BY <1>6, <2>1 DEF IsDerOf
  <1>. QED  BY <1>8 DEF d

\* padTo32 restores the leading zeros that the encoding left out.
LEMMA PadOfContent ==
    ASSUME NEW b \in Seq(Byte), b # << >>, Len(b) = W
    PROVE  PadToWidth(Content(b)) = b
  <1>. DEFINE s == Stripped(b)
              z == Zeros(W - Len(s))
  <1>0. Len(b) \in Nat
    OBVIOUS
  <1>1. /\ s \in Seq(Byte) /\ Len(s) \in 1 .. Len(b)
        /\ \A j \in 1 .. Len(b) - Len(s) : b[j] = 0
        /\ \A j \in 1 .. Len(s) : b[Len(b) - Len(s) + j] = s[j]
    BY StrippedProperties, Zenon
  <1>2. Stripped(Content(b)) = s
    BY ContentProperties
  <1>. HIDE DEF s
  <1>3. ~ (Len(s) > W) /\ W - Len(s) \in Nat
    BY <1>0, <1>1
  <1>4. PadToWidth(Content(b)) = z \o s
    BY <1>2, <1>3 DEF PadToWidth
  <1>5. z \in Seq(Byte) /\ Len(z) = W - Len(s) /\ \A j \in 1 .. W - Len(s) : z[j] = 0
    <2>. DEFINE n == W - Len(s)
    <2>1. n \in Nat
      BY <1>3
    <2>. HIDE DEF n
    <2>2. 0 \in Byte
      BY ByteIs
    <2>3. /\ Zeros(n) \in Seq(Byte) /\ Len(Zeros(n)) = n
          /\ \A j \in 1 .. n : Zeros(n)[j] = 0
      BY <2>1, <2>2 DEF Zeros
    <2>. QED  BY <2>3 DEF n
  <1>. HIDE DEF z
  <1>6. z \o s \in Seq(Byte)
    BY <1>1, <1>5, ConcatProperties
  <1>7. /\ Len(z \o s) = Len(z) + Len(s)
        /\ \A j \in 1 .. Len(z) : (z \o s)[j] = z[j]
        /\ \A j \in 1 .. Len(s) : (z \o s)[Len(z) + j] = s[j]
    <2>1. z \in Seq(Byte) /\ s \in Seq(Byte)
      BY <1>1, <1>5
    <2>. QED  BY <2>1, ConcatElements
  <1>8. Len(z \o s) = Len(b)
    BY <1>0, <1>1, <1>3, <1>5, <1>7
  <1>9. ASSUME NEW j \in 1 .. Len(b) PROVE (z \o s)[j] = b[j]
    <2>0. /\ Len(s) \in 1 .. W /\ W \in Nat /\ Len(z) = W - Len(s) /\ Len(b) = W /\ j \in 1 .. W
      BY <1>0, <1>1, <1>5
    <2>1. CASE j <= Len(z)
      <3>1. j \in 1 .. Len(z) /\ j \in 1 .. Len(b) - Len(s) /\ j \in 1 .. W - Len(s)
        BY <2>0, <2>1
      <3>. QED  BY <1>1, <1>5, <1>7, <3>1
    <2>2. CASE j > Len(z)
      <3>1. /\ j - Len(z) \in 1 .. Len(s) /\ Len(z) + (j - Len(z)) = j
            /\ Len(b) - Len(s) + (j - Len(z)) = j
        BY <2>0, <2>2
      <3>2. (z \o s)[Len(z) + (j - Len(z))] = s[j - Len(z)]
        BY <1>7, <3>1
      <3>3. b[Len(b) - Len(s) + (j - Len(z))] = s[j - Len(z)]
        BY <1>1, <3>1
      <3>. QED  BY <3>1, <3>2, <3>3
    <2>3. j <= Len(z) \/ j > Len(z)
      BY <2>0
    <2>. QED  BY <2>1, <2>2, <2>3, Zenon
  <1>10. z \o s = b
    BY <1>6, <1>8, <1>9, SeqEqual
  <1>. QED  BY <1>4, <1>10 DEF z

\* derToP1363 undoes p1363ToDer.
THEOREM SignatureRoundTrip ==
    ASSUME NEW c \in Pairs
    PROVE  DerToP1363(P1363ToDer(c)) = c
  <1>. DEFINE d == P1363ToDer(c)
              r == Content(FirstHalf(c))
              s == Content(SecondHalf(c))
              x == DecodeInteger(d, 3)
              y == DecodeInteger(d, 5 + Len(r))
  <1>1. /\ r \in Seq(Byte) /\ Len(r) \in 1 .. W + 1
        /\ s \in Seq(Byte) /\ Len(s) \in 1 .. W + 1
        /\ d \in Seq(Byte) /\ Len(d) = 6 + Len(r) + Len(s) /\ d[1] = 48
        /\ d[3] = 2 /\ d[4] = Len(r) /\ \A j \in 1 .. Len(r) : d[4 + j] = r[j]
        /\ d[5 + Len(r)] = 2 /\ d[6 + Len(r)] = Len(s)
        /\ \A j \in 1 .. Len(s) : d[6 + Len(r) + j] = s[j]
    BY DerLayout
  <1>2. /\ FirstHalf(c) \in Seq(Byte) /\ Len(FirstHalf(c)) = W /\ FirstHalf(c) # << >>
        /\ SecondHalf(c) \in Seq(Byte) /\ Len(SecondHalf(c)) = W /\ SecondHalf(c) # << >>
        /\ FirstHalf(c) \o SecondHalf(c) = c
    BY HalvesAre
  <1>3. PadToWidth(r) = FirstHalf(c) /\ PadToWidth(s) = SecondHalf(c)
    BY <1>2, PadOfContent
  <1>. HIDE DEF d, r, s
  <1>4. Len(r) \in Nat /\ Len(r) >= 1 /\ Len(s) \in Nat /\ Len(s) >= 1 /\ Len(d) \in Nat
    BY <1>1, Widths
  <1>5. x = [ok |-> TRUE, value |-> r, next |-> 5 + Len(r)]
    <2>1. /\ 3 \in 1 .. Len(d) /\ 3 + 1 + Len(r) <= Len(d) /\ d[3 + 1] = Len(r) /\ r # << >>
          /\ 3 + 2 + Len(r) = 5 + Len(r)
      BY <1>1, <1>4
    <2>2. \A j \in 1 .. Len(r) : d[3 + 1 + j] = r[j]
      BY <1>1, <1>4
    <2>3. x = [ok |-> TRUE, value |-> r, next |-> 3 + 2 + Len(r)]
      BY <1>1, <2>1, <2>2, DecodeIntegerIs
    <2>. HIDE DEF x
    <2>. QED  BY <2>1, <2>3
  <1>6. y.ok /\ y.value = s
    <2>. DEFINE i == 5 + Len(r)
                v == DecodeInteger(d, i)
    <2>1. /\ i \in 1 .. Len(d) /\ i + 1 + Len(s) <= Len(d) /\ d[i] = 2 /\ d[i + 1] = Len(s) /\ s # << >>
      <3>1. i + 1 = 6 + Len(r)
        BY <1>4
      <3>. QED  BY <1>1, <1>4, <3>1
    <2>2. \A j \in 1 .. Len(s) : d[i + 1 + j] = s[j]
      <3>1. i + 1 = 6 + Len(r)
        BY <1>4
      <3>. QED  BY <1>1, <3>1
    <2>. HIDE DEF i
    <2>3. v = [ok |-> TRUE, value |-> s, next |-> i + 2 + Len(s)]
      BY <1>1, <2>1, <2>2, DecodeIntegerIs
    <2>. HIDE DEF v
    <2>4. v.ok /\ v.value = s
      BY <2>3
    <2>. QED  BY <2>4 DEF i, v
  <1>7. HasTag(d, 48)
    <2>1. d # << >>
      BY <1>1, <1>4
    <2>. QED  BY <1>1, <2>1 DEF HasTag
  <1>8. x.ok /\ x.value = r /\ x.next = 5 + Len(r)
    <2>. HIDE DEF x
    <2>. QED  BY <1>5
  <1>9. DecodeInteger(d, x.next) = y
    <2>. HIDE DEF x
    <2>. QED  BY <1>8
  <1>. HIDE DEF x, y
  <1>10. DerToP1363(d) = PadToWidth(r) \o PadToWidth(s)
    <2>. DEFINE both == <<PadToWidth(x.value), PadToWidth(y.value)>>
    <2>1. both[1] = PadToWidth(r) /\ both[2] = PadToWidth(s)
      BY <1>6, <1>8
    <2>2. both[1] # Thrown /\ both[2] # Thrown
      BY <1>2, <1>3, <2>1 DEF Thrown
    <2>3. DerToP1363(d)
            = IF HasTag(d, 48) /\ x.ok /\ y.ok /\ both[1] # Thrown /\ both[2] # Thrown
              THEN both[1] \o both[2] ELSE Thrown
      BY <1>9 DEF DerToP1363, x
    <2>. HIDE DEF both
    <2>. QED  BY <1>6, <1>7, <1>8, <2>1, <2>2, <2>3
  <1>. QED  BY <1>2, <1>3, <1>10 DEF d

-----------------------------------------------------------------------------
(* Public keys *)

\* The two forms of the point c.
Point(c) == <<4>> \o c
Spki(c)  == SpkiHeader \o Point(c)

\* What the forms look like.
LEMMA KeysAre ==
    ASSUME NEW c \in Pairs
    PROVE  /\ Point(c) \in Seq(Byte) /\ Len(Point(c)) = 1 + 2 * W /\ HasTag(Point(c), 4)
           /\ Spki(c) \in Seq(Byte) /\ Len(Spki(c)) = Len(SpkiHeader) + 1 + 2 * W
           /\ HasTag(Spki(c), 48)
           /\ Len(SpkiHeader) \in Nat /\ Len(SpkiHeader) >= 1
           /\ Spki(c) = SpkiHeader \o <<4>> \o c
           /\ \A j \in 1 .. Len(SpkiHeader) : Spki(c)[j] = SpkiHeader[j]
           /\ \A j \in 1 .. Len(Point(c)) : Spki(c)[Len(SpkiHeader) + j] = Point(c)[j]
  <1>. DEFINE p == Point(c)
              k == Spki(c)
              h == SpkiHeader
  <1>0. c \in Seq(Byte) /\ Len(c) = 2 * W
    BY HalvesAre
  <1>1. h \in Seq(Byte) /\ h # << >> /\ h[1] = 48
    BY AdapterAssumption DEF Byte
  <1>. HIDE DEF h
  <1>2. Len(h) \in Nat /\ Len(h) >= 1
    BY <1>1
  <1>3. 4 \in Byte
    BY ByteIs
  <1>4. p \in Seq(Byte) /\ Len(p) = 1 + Len(c) /\ p[1] = 4
    BY <1>0, <1>3, PrefixProperties DEF Point
  <1>. HIDE DEF p
  <1>5. k \in Seq(Byte)
    BY <1>1, <1>4, ConcatProperties DEF Spki, h, p
  <1>6. /\ Len(k) = Len(h) + Len(p)
        /\ \A j \in 1 .. Len(h) : k[j] = h[j]
        /\ \A j \in 1 .. Len(p) : k[Len(h) + j] = p[j]
    <2>1. h \in Seq(Byte) /\ p \in Seq(Byte)
      BY <1>1, <1>4
    <2>2. k = h \o p
      BY DEF Spki, h, p
    <2>. HIDE DEF k
    <2>. QED  BY <2>1, <2>2, ConcatElements
  <1>. HIDE DEF k
  <1>7. k = h \o <<4>> \o c
    <2>1. <<4>> \in Seq(Byte)
      BY <1>3
    <2>2. (h \o <<4>>) \o c = h \o (<<4>> \o c)
      BY <1>0, <1>1, <2>1, ConcatAssociative
    <2>. QED  BY <2>2 DEF k, p, h, Spki, Point
  <1>8. Len(p) = 1 + 2 * W /\ Len(k) = Len(h) + 1 + 2 * W
    BY <1>0, <1>2, <1>4, <1>6, Widths
  <1>9. HasTag(p, 4) /\ HasTag(k, 48)
    <2>1. Len(p) >= 1 /\ Len(k) >= 1
      BY <1>2, <1>8, Widths
    <2>2. p # << >> /\ k # << >>
      BY <1>4, <1>5, <2>1
    <2>3. k[1] = h[1]
      BY <1>2, <1>6
    <2>. QED  BY <1>1, <1>4, <2>2, <2>3 DEF HasTag
  <1>. QED  BY <1>2, <1>4, <1>5, <1>6, <1>7, <1>8, <1>9, Zenon DEF p, k, h

\* Each conversion takes one form of a point to the other, and normalizing
\* gives DER/SPKI.
THEOREM KeyConversions ==
    ASSUME NEW c \in Pairs
    PROVE  /\ X963ToDerSpki(Point(c)) = Spki(c)
           /\ DerSpkiToX963(Spki(c)) = Point(c)
           /\ NormalizePublicKey(Point(c)) = Spki(c)
           /\ NormalizePublicKey(Spki(c)) = Spki(c)
  <1>. DEFINE p == Point(c)
              k == Spki(c)
              h == Len(SpkiHeader)
  <1>1. /\ p \in Seq(Byte) /\ Len(p) = 1 + 2 * W /\ HasTag(p, 4)
        /\ k \in Seq(Byte) /\ Len(k) = h + 1 + 2 * W /\ HasTag(k, 48)
        /\ h \in Nat /\ h >= 1
        /\ \A j \in 1 .. h : k[j] = SpkiHeader[j]
        /\ \A j \in 1 .. Len(p) : k[h + j] = p[j]
    BY KeysAre
  <1>2. SpkiHeader \in Seq(Byte) /\ W \in Nat /\ W >= 1
    BY AdapterAssumption DEF Byte
  <1>3. X963ToDerSpki(p) = k
    BY <1>1 DEF X963ToDerSpki, Spki
  <1>. HIDE DEF p, k
  <1>4. Bytes(k, 1, h) = SpkiHeader
    <2>. DEFINE n == h
                t == SubSeq(k, 1, n)
    <2>1. ~ (1 + h - 1 > Len(k)) /\ 1 + h - 1 = h
      BY <1>1, <1>2
    <2>2. Bytes(k, 1, h) = SubSeq(k, 1, h)
      BY <2>1 DEF Bytes
    <2>3. 1 \in 1 .. Len(k) + 1 /\ n \in 1 - 1 .. Len(k) /\ n - 1 + 1 = n /\ n \in Nat /\ n = Len(SpkiHeader)
      BY <1>1, <1>2
    <2>4. \A j \in 1 .. n : k[j] = SpkiHeader[j]
      BY <1>1
    <2>. HIDE DEF n
    <2>5. t \in Seq(Byte) /\ Len(t) = n - 1 + 1 /\ \A j \in 1 .. n - 1 + 1 : t[j] = k[1 + j - 1]
      BY <1>1, <2>3, PartProperties
    <2>. HIDE DEF t
    <2>6. Len(t) = Len(SpkiHeader) /\ \A j \in 1 .. Len(t) : t[j] = SpkiHeader[j]
      BY <2>3, <2>4, <2>5
    <2>7. t = SpkiHeader
      BY <1>2, <2>5, <2>6, SeqEqual
    <2>. QED  BY <2>2, <2>7 DEF t, n
  <1>5. SubSeq(k, h + 1, Len(k)) = p
    <2>. DEFINE i == h + 1
                n == Len(k)
                t == SubSeq(k, i, n)
    <2>1. /\ i \in 1 .. Len(k) + 1 /\ n \in i - 1 .. Len(k) /\ n - i + 1 = Len(p)
          /\ i = h + 1 /\ Len(p) \in Nat
      BY <1>1, <1>2
    <2>. HIDE DEF i, n
    <2>2. /\ t \in Seq(Byte) /\ Len(t) = n - i + 1
          /\ \A j \in 1 .. n - i + 1 : t[j] = k[i + j - 1]
      BY <1>1, <2>1, PartProperties
    <2>. HIDE DEF t
    <2>3. ASSUME NEW j \in 1 .. Len(t) PROVE t[j] = p[j]
      <3>1. j \in 1 .. n - i + 1 /\ j \in 1 .. Len(p) /\ i + j - 1 = h + j
        BY <1>1, <2>1, <2>2
      <3>. QED  BY <1>1, <2>2, <3>1
    <2>4. t = p
      BY <1>1, <2>1, <2>2, <2>3, SeqEqual
    <2>. QED  BY <2>4 DEF t, i, n
  <1>6. DerSpkiToX963(k) = p
    BY <1>1, <1>4, <1>5 DEF DerSpkiToX963
  <1>7. NormalizePublicKey(p) = k
    <2>1. Len(p) # h + 1 + 2 * W
      <3>. DEFINE n == 2 * W
      <3>1. n \in Nat
        BY <1>2
      <3>. HIDE DEF n
      <3>2. Len(p) = 1 + n => Len(p) # h + 1 + n
        BY <1>1, <3>1
      <3>. QED  BY <1>1, <3>2 DEF n
    <2>. QED  BY <1>3, <2>1 DEF NormalizePublicKey
  <1>8. NormalizePublicKey(k) = k
    BY <1>1 DEF NormalizePublicKey
  <1>. QED  BY <1>3, <1>6, <1>7, <1>8 DEF p, k

-----------------------------------------------------------------------------
(* Base64 *)

\* The four sextets of the bytes x, y and z, ...
Sextet1(x)    == x \div 4
Sextet2(x, y) == (x % 4) * 16 + y \div 16
Sextet3(y, z) == (y % 16) * 4 + z \div 64
Sextet4(z)    == z % 64

\* ... and the three bytes of the sextets a, b, c and d.
Octet1(a, b) == a * 4 + b \div 16
Octet2(b, c) == (b % 16) * 16 + c \div 4
Octet3(c, d) == (c % 4) * 64 + d

\* The number of a character of the Base64 alphabet.
IsSextet(n) == n \in Nat /\ n <= 63

\* The bytes come back from their sextets.
LEMMA SextetArithmetic ==
    ASSUME NEW x \in Byte, NEW y \in Byte, NEW z \in Byte
    PROVE  /\ IsSextet(Sextet1(x)) /\ IsSextet(Sextet2(x, y))
           /\ IsSextet(Sextet3(y, z)) /\ IsSextet(Sextet4(z))
           /\ Octet1(Sextet1(x), Sextet2(x, y)) = x
           /\ Octet2(Sextet2(x, y), Sextet3(y, z)) = y
           /\ Octet3(Sextet3(y, z), Sextet4(z)) = z
  <1>1. x \in Nat /\ x <= 255 /\ y \in Nat /\ y <= 255 /\ z \in Nat /\ z <= 255
    BY ByteIs
  <1>2. \E h, l \in Nat : x = 4 * h + l /\ l <= 3 /\ x \div 4 = h /\ x % 4 = l
    BY <1>1
  <1>3. \E h, l \in Nat : y = 16 * h + l /\ l <= 15 /\ y \div 16 = h /\ y % 16 = l
    BY <1>1
  <1>4. \E h, l \in Nat : z = 64 * h + l /\ l <= 63 /\ z \div 64 = h /\ z % 64 = l
    BY <1>1
  <1>. DEFINE xh == x \div 4
              xl == x % 4
              yh == y \div 16
              yl == y % 16
              zh == z \div 64
              zl == z % 64
  <1>5. /\ xh \in Nat /\ xl \in Nat /\ xl <= 3 /\ xh * 4 + xl = x
        /\ yh \in Nat /\ yl \in Nat /\ yl <= 15 /\ yh * 16 + yl = y
        /\ zh \in Nat /\ zl \in Nat /\ zl <= 63 /\ zh * 64 + zl = z
    <2>1. xh \in Nat /\ xl \in Nat /\ xl <= 3 /\ xh * 4 + xl = x
      <3>. HIDE DEF xh, xl
      <3>1. PICK h \in Nat, l \in Nat : x = 4 * h + l /\ l <= 3 /\ xh = h /\ xl = l
        BY <1>2 DEF xh, xl
      <3>. QED  BY <3>1
    <2>2. yh \in Nat /\ yl \in Nat /\ yl <= 15 /\ yh * 16 + yl = y
      <3>. HIDE DEF yh, yl
      <3>1. PICK h \in Nat, l \in Nat : y = 16 * h + l /\ l <= 15 /\ yh = h /\ yl = l
        BY <1>3 DEF yh, yl
      <3>. QED  BY <3>1
    <2>3. zh \in Nat /\ zl \in Nat /\ zl <= 63 /\ zh * 64 + zl = z
      <3>. HIDE DEF zh, zl
      <3>1. PICK h \in Nat, l \in Nat : z = 64 * h + l /\ l <= 63 /\ zh = h /\ zl = l
        BY <1>4 DEF zh, zl
      <3>. QED  BY <3>1
    <2>. HIDE DEF xh, xl, yh, yl, zh, zl
    <2>. QED  BY <2>1, <2>2, <2>3
  <1>. HIDE DEF xh, xl, yh, yl, zh, zl
  <1>9. xh <= 63 /\ yh <= 15 /\ zh <= 3
    BY <1>1, <1>5
  <1>6. /\ xl * 16 + yh \in Nat /\ xl * 16 + yh <= 63
        /\ (xl * 16 + yh) \div 16 = xl /\ (xl * 16 + yh) % 16 = yh
    BY <1>5, <1>9
  <1>7. /\ yl * 4 + zh \in Nat /\ yl * 4 + zh <= 63
        /\ (yl * 4 + zh) \div 4 = yl /\ (yl * 4 + zh) % 4 = zh
    BY <1>5, <1>9
  <1>8. /\ xh \in Nat /\ xh <= 63
        /\ xl * 16 + yh \in Nat /\ xl * 16 + yh <= 63
        /\ yl * 4 + zh \in Nat /\ yl * 4 + zh <= 63
        /\ zl \in Nat /\ zl <= 63
        /\ xh * 4 + (xl * 16 + yh) \div 16 = x
        /\ ((xl * 16 + yh) % 16) * 16 + (yl * 4 + zh) \div 4 = y
        /\ ((yl * 4 + zh) % 4) * 64 + zl = z
    BY <1>5, <1>6, <1>7, <1>9
  <1>10. IsSextet(Sextet1(x)) /\ IsSextet(Sextet2(x, y))
    BY <1>8 DEF IsSextet, Sextet1, Sextet2, xh, xl, yh
  <1>11. IsSextet(Sextet3(y, z)) /\ IsSextet(Sextet4(z))
    BY <1>8 DEF IsSextet, Sextet3, Sextet4, yl, zh, zl
  <1>12. Octet1(Sextet1(x), Sextet2(x, y)) = x
    BY <1>8 DEF Octet1, Sextet1, Sextet2, xh, xl, yh
  <1>13. Octet2(Sextet2(x, y), Sextet3(y, z)) = y
    BY <1>8 DEF Octet2, Sextet2, Sextet3, xl, yh, yl, zh
  <1>14. Octet3(Sextet3(y, z), Sextet4(z)) = z
    BY <1>8 DEF Octet3, Sextet3, Sextet4, yl, zh, zl
  <1>. QED  BY <1>10, <1>11, <1>12, <1>13, <1>14, Zenon

\* Every position is one of three in a group of bytes, ...
LEMMA Thirds ==
    ASSUME NEW i \in Nat, i >= 1
    PROVE  \E q \in Nat : /\ (i - 1) \div 3 = q
                          /\ \/ i = 3 * q + 1 /\ i % 3 = 1
                             \/ i = 3 * q + 2 /\ i % 3 = 2
                             \/ i = 3 * q + 3 /\ i % 3 = 0
  <1>. DEFINE q == (i - 1) \div 3
  <1>1. q \in Nat /\ (i = 3 * q + 1 \/ i = 3 * q + 2 \/ i = 3 * q + 3)
    OBVIOUS
  <1>. HIDE DEF q
  <1>2. /\ i = 3 * q + 1 => i % 3 = 1
        /\ i = 3 * q + 2 => i % 3 = 2
        /\ i = 3 * q + 3 => i % 3 = 0
    BY <1>1
  <1>. QED  BY <1>1, <1>2 DEF q

\* ... and one of four in a group of sextets.
LEMMA Quarters ==
    ASSUME NEW i \in Nat, i >= 1
    PROVE  \E q \in Nat : i = 4 * q + 1 \/ i = 4 * q + 2 \/ i = 4 * q + 3 \/ i = 4 * q + 4
  <1>. DEFINE q == (i - 1) \div 4
  <1>1. q \in Nat /\ (i = 4 * q + 1 \/ i = 4 * q + 2 \/ i = 4 * q + 3 \/ i = 4 * q + 4)
    OBVIOUS
  <1>. QED  BY <1>1

\* The byte at a position, and zero past the end.
ByteAt(b, i) == IF i \in DOMAIN b THEN b[i] ELSE 0

\* The sextets of one group of bytes.
LEMMA SextetsOf ==
    ASSUME NEW b \in Seq(Byte), NEW q \in Nat
    PROVE  /\ Sextet(b, 4 * q + 1) = Sextet1(ByteAt(b, 3 * q + 1))
           /\ Sextet(b, 4 * q + 2) = Sextet2(ByteAt(b, 3 * q + 1), ByteAt(b, 3 * q + 2))
           /\ Sextet(b, 4 * q + 3) = Sextet3(ByteAt(b, 3 * q + 2), ByteAt(b, 3 * q + 3))
           /\ Sextet(b, 4 * q + 4) = Sextet4(ByteAt(b, 3 * q + 3))
           /\ \A i \in Nat : ByteAt(b, i) \in Byte
  <1>1. \A i \in Nat : ByteAt(b, i) \in Byte
    <2>1. 0 \in Byte
      BY ByteIs
    <2>. QED  BY <2>1 DEF ByteAt
  <1>2. ASSUME NEW k \in 1 .. 4, NEW i, i = 4 * q + k
        PROVE  ((i - 1) \div 4) * 3 = 3 * q /\ i % 4 = k % 4
    BY <1>2
  <1>. DEFINE Group(i) == ((i - 1) \div 4) * 3
  <1>3. \A i : Sextet(b, i) =
            CASE i % 4 = 1 -> Sextet1(ByteAt(b, Group(i) + 1))
              [] i % 4 = 2 -> Sextet2(ByteAt(b, Group(i) + 1), ByteAt(b, Group(i) + 2))
              [] i % 4 = 3 -> Sextet3(ByteAt(b, Group(i) + 2), ByteAt(b, Group(i) + 3))
              [] OTHER     -> Sextet4(ByteAt(b, Group(i) + 3))
    BY DEF Sextet, ByteAt, Sextet1, Sextet2, Sextet3, Sextet4
  <1>4. /\ Group(4 * q + 1) = 3 * q /\ Group(4 * q + 2) = 3 * q
        /\ Group(4 * q + 3) = 3 * q /\ Group(4 * q + 4) = 3 * q
        /\ (4 * q + 1) % 4 = 1 /\ (4 * q + 2) % 4 = 2 /\ (4 * q + 3) % 4 = 3 /\ (4 * q + 4) % 4 = 0
    BY <1>2
  <1>. HIDE DEF Group
  <1>5. Sextet(b, 4 * q + 1) = Sextet1(ByteAt(b, 3 * q + 1))
    BY <1>3, <1>4
  <1>6. Sextet(b, 4 * q + 2) = Sextet2(ByteAt(b, 3 * q + 1), ByteAt(b, 3 * q + 2))
    BY <1>3, <1>4
  <1>7. Sextet(b, 4 * q + 3) = Sextet3(ByteAt(b, 3 * q + 2), ByteAt(b, 3 * q + 3))
    BY <1>3, <1>4
  <1>8. Sextet(b, 4 * q + 4) = Sextet4(ByteAt(b, 3 * q + 3))
    BY <1>3, <1>4
  <1>. QED  BY <1>1, <1>5, <1>6, <1>7, <1>8

\* A sextet is below 64.
LEMMA SextetType ==
    ASSUME NEW b \in Seq(Byte), NEW i \in Nat, i >= 1
    PROVE  IsSextet(Sextet(b, i))
  <1>1. PICK q \in Nat : i = 4 * q + 1 \/ i = 4 * q + 2 \/ i = 4 * q + 3 \/ i = 4 * q + 4
    BY Quarters
  <1>. DEFINE x == ByteAt(b, 3 * q + 1)
              y == ByteAt(b, 3 * q + 2)
              z == ByteAt(b, 3 * q + 3)
  <1>2. x \in Byte /\ y \in Byte /\ z \in Byte
    BY SextetsOf
  <1>3. /\ Sextet(b, 4 * q + 1) = Sextet1(x)
        /\ Sextet(b, 4 * q + 2) = Sextet2(x, y)
        /\ Sextet(b, 4 * q + 3) = Sextet3(y, z)
        /\ Sextet(b, 4 * q + 4) = Sextet4(z)
    BY SextetsOf
  <1>. HIDE DEF x, y, z
  <1>4. /\ IsSextet(Sextet1(x)) /\ IsSextet(Sextet2(x, y))
        /\ IsSextet(Sextet3(y, z)) /\ IsSextet(Sextet4(z))
    BY <1>2, SextetArithmetic
  <1>. QED  BY <1>1, <1>3, <1>4

\* How many sextets n bytes are, and what is missing to a multiple of four.
Sextets(n) == (4 * n + 2) \div 3
Missing(n) == (4 - (n % 4)) % 4

\* The lengths fit: padding fills up to a multiple of four with two "=" at most.
LEMMA SextetCount ==
    ASSUME NEW l \in Nat
    PROVE  LET n == Sextets(l) IN
           /\ n \in Nat /\ (3 * n) \div 4 = l
           /\ Missing(n) \in Nat /\ Missing(n) <= 2 /\ (n + Missing(n)) % 4 = 0
           /\ \A q \in Nat : /\ 3 * q + 1 <= l => 4 * q + 1 <= n /\ 4 * q + 2 <= n
                             /\ 3 * q + 2 <= l => 4 * q + 3 <= n
                             /\ 3 * q + 3 <= l => 4 * q + 4 <= n
           /\ l >= 1 => n >= 1
  <1>. DEFINE n == Sextets(l)
              k == l \div 3
  <1>1. k \in Nat /\ (l = 3 * k \/ l = 3 * k + 1 \/ l = 3 * k + 2)
    OBVIOUS
  <1>. HIDE DEF k
  <1>2. /\ l = 3 * k => n = 4 * k
        /\ l = 3 * k + 1 => n = 4 * k + 2
        /\ l = 3 * k + 2 => n = 4 * k + 3
    BY <1>1 DEF Sextets
  <1>. HIDE DEF n
  <1>3. n \in Nat /\ (l >= 1 => n >= 1)
    BY <1>1, <1>2
  <1>4. (3 * n) \div 4 = l
    <2>1. (3 * (4 * k)) \div 4 = 3 * k /\ (3 * (4 * k + 2)) \div 4 = 3 * k + 1 /\ (3 * (4 * k + 3)) \div 4 = 3 * k + 2
      BY <1>1
    <2>. QED  BY <1>1, <1>2, <2>1
  <1>5. Missing(n) \in Nat /\ Missing(n) <= 2 /\ (n + Missing(n)) % 4 = 0
    <2>1. CASE l = 3 * k
      <3>1. n = 4 * k /\ n % 4 = 0
        BY <1>1, <1>2, <2>1
      <3>2. Missing(n) = 0
        BY <3>1 DEF Missing
      <3>3. (4 * k + 0) % 4 = 0
        BY <1>1
      <3>. QED  BY <1>1, <1>3, <3>1, <3>2, <3>3
    <2>2. CASE l = 3 * k + 1
      <3>1. n = 4 * k + 2 /\ n % 4 = 2
        BY <1>1, <1>2, <2>2
      <3>2. Missing(n) = 2
        BY <3>1 DEF Missing
      <3>. QED  BY <1>1, <1>3, <3>1, <3>2
    <2>3. CASE l = 3 * k + 2
      <3>1. n = 4 * k + 3 /\ n % 4 = 3
        BY <1>1, <1>2, <2>3
      <3>2. Missing(n) = 1
        BY <3>1 DEF Missing
      <3>. QED  BY <1>1, <1>3, <3>1, <3>2
    <2>. QED  BY <1>1, <2>1, <2>2, <2>3
  <1>6. ASSUME NEW q \in Nat
        PROVE  /\ 3 * q + 1 <= l => 4 * q + 1 <= n /\ 4 * q + 2 <= n
               /\ 3 * q + 2 <= l => 4 * q + 3 <= n
               /\ 3 * q + 3 <= l => 4 * q + 4 <= n
    BY <1>1, <1>2
  <1>7. /\ n \in Nat /\ (3 * n) \div 4 = l
        /\ Missing(n) \in Nat /\ Missing(n) <= 2 /\ (n + Missing(n)) % 4 = 0
        /\ \A q \in Nat : /\ 3 * q + 1 <= l => 4 * q + 1 <= n /\ 4 * q + 2 <= n
                          /\ 3 * q + 2 <= l => 4 * q + 3 <= n
                          /\ 3 * q + 3 <= l => 4 * q + 4 <= n
        /\ l >= 1 => n >= 1
    BY <1>3, <1>4, <1>5, <1>6
  <1>. QED  BY <1>7 DEF n

\* Only the "=" at the end of a string are stripped.
LEMMA StripIs ==
    ASSUME NEW d \in Seq(Nat), NEW e \in Seq(Nat),
           \A j \in 1 .. Len(d) : d[j] # Equals,
           \A j \in 1 .. Len(e) : e[j] = Equals
    PROVE  StripTrailingEquals(d \o e) = d
  <1>. DEFINE c == d \o e
              keep == {i \in DOMAIN c : c[i] # Equals}
              n == Len(d)
              t == SubSeq(c, 1, n)
  <1>1. c \in Seq(Nat)
    BY ConcatProperties
  <1>2. /\ Len(c) = Len(d) + Len(e) /\ Len(d) \in Nat /\ Len(e) \in Nat
        /\ \A k \in 1 .. Len(d) : c[k] = d[k] /\ k \in 1 .. Len(c)
        /\ \A k \in 1 .. Len(c) : k \in 1 .. Len(d) \/ \E j \in 1 .. Len(e) : c[k] = e[j]
    BY ConcatElements
  <1>. HIDE DEF c
  <1>3. keep = 1 .. Len(d)
    <2>1. DOMAIN c = 1 .. Len(c)
      BY <1>1
    <2>. QED  BY <1>2, <2>1
  <1>. HIDE DEF keep
  <1>4. (IF keep = {} THEN 0 ELSE CHOOSE i \in keep : \A j \in keep : j <= i) = n
    <2>1. CASE n = 0
      BY <1>3, <2>1
    <2>2. CASE n # 0
      <3>1. n \in keep /\ \A j \in keep : j <= n
        BY <1>2, <1>3, <2>2
      <3>2. ASSUME NEW i \in keep, \A j \in keep : j <= i PROVE i = n
        BY <1>2, <1>3, <3>1, <3>2
      <3>. QED  BY <3>1, <3>2
    <2>. QED  BY <2>1, <2>2
  <1>5. StripTrailingEquals(c) = t
    BY <1>4 DEF StripTrailingEquals, keep
  <1>6. 1 \in 1 .. Len(c) + 1 /\ n \in 1 - 1 .. Len(c) /\ n - 1 + 1 = n /\ n \in Nat
    BY <1>2
  <1>7. \A k \in 1 .. n : c[k] = d[k]
    BY <1>2
  <1>. HIDE DEF n
  <1>8. t \in Seq(Nat) /\ Len(t) = n - 1 + 1 /\ \A j \in 1 .. n - 1 + 1 : t[j] = c[1 + j - 1]
    BY <1>1, <1>6, PartProperties
  <1>. HIDE DEF t
  <1>9. Len(t) = n /\ \A j \in 1 .. n : t[j] = d[j]
    <2>1. ASSUME NEW j \in 1 .. n PROVE t[j] = d[j]
      <3>1. j \in 1 .. n - 1 + 1 /\ 1 + j - 1 = j
        BY <1>6
      <3>. QED  BY <1>7, <1>8, <3>1
    <2>. QED  BY <1>6, <1>8, <2>1
  <1>10. t = d
    BY <1>8, <1>9, SeqEqual DEF n
  <1>. QED  BY <1>5, <1>10 DEF c

\* The characters of b in Base64, without padding, and the padding.
Data(b) == [i \in 1 .. Sextets(Len(b)) |-> Sextet(b, i)]
Pad(n)  == [i \in 1 .. Missing(n) |-> Equals]

\* Data and padding are sequences of characters.
LEMMA DataType ==
    ASSUME NEW b \in Seq(Byte)
    PROVE  /\ Len(b) \in Nat /\ Sextets(Len(b)) \in Nat
           /\ Data(b) \in Seq(Nat) /\ Len(Data(b)) = Sextets(Len(b))
           /\ \A j \in 1 .. Sextets(Len(b)) : Data(b)[j] = Sextet(b, j) /\ IsSextet(Data(b)[j])
           /\ Pad(Sextets(Len(b))) \in Seq(Nat)
           /\ Len(Pad(Sextets(Len(b)))) = Missing(Sextets(Len(b)))
           /\ \A j \in 1 .. Missing(Sextets(Len(b))) : Pad(Sextets(Len(b)))[j] = Equals
  <1>. DEFINE n == Sextets(Len(b))
              m == Missing(n)
  <1>1. Len(b) \in Nat
    OBVIOUS
  <1>2. n \in Nat /\ m \in Nat
    BY <1>1, SextetCount
  <1>. HIDE DEF n, m
  <1>3. \A j \in 1 .. n : IsSextet(Sextet(b, j)) /\ Sextet(b, j) \in Nat
    <2>1. ASSUME NEW j \in 1 .. n PROVE IsSextet(Sextet(b, j)) /\ Sextet(b, j) \in Nat
      <3>1. j \in Nat /\ j >= 1
        BY <1>2
      <3>. QED  BY <3>1, SextetType DEF IsSextet
    <2>. QED  BY <2>1
  <1>4. Data(b) = [i \in 1 .. n |-> Sextet(b, i)] /\ Pad(n) = [i \in 1 .. m |-> Equals]
    BY DEF Data, Pad, n, m
  <1>5. /\ Data(b) \in Seq(Nat) /\ Len(Data(b)) = n
        /\ \A j \in 1 .. n : Data(b)[j] = Sextet(b, j) /\ IsSextet(Data(b)[j])
    BY <1>2, <1>3, <1>4
  <1>6. Pad(n) \in Seq(Nat) /\ Len(Pad(n)) = m /\ \A j \in 1 .. m : Pad(n)[j] = Equals
    <2>1. Equals \in Nat
      BY DEF Equals
    <2>. QED  BY <1>2, <1>4, <2>1
  <1>. QED  BY <1>1, <1>2, <1>5, <1>6, Zenon DEF n, m

\* What Base64 adds to the data is what stripping takes away.
LEMMA Base64Is ==
    ASSUME NEW b \in Seq(Byte)
    PROVE  StripTrailingEquals(Data(b) \o Pad(Sextets(Len(b)))) = Data(b)
           /\ Base64(b) = Data(b) \o Pad(Sextets(Len(b)))
  <1>. DEFINE d == Data(b)
              e == Pad(Sextets(Len(b)))
  <1>1. /\ d \in Seq(Nat) /\ e \in Seq(Nat)
        /\ \A j \in 1 .. Len(d) : IsSextet(d[j])
        /\ \A j \in 1 .. Len(e) : e[j] = Equals
    BY DataType
  <1>. HIDE DEF d, e
  <1>2. \A j \in 1 .. Len(d) : d[j] # Equals
    BY <1>1 DEF IsSextet, Equals
  <1>3. StripTrailingEquals(d \o e) = d
    BY <1>1, <1>2, StripIs
  <1>4. Base64(b) = Data(b) \o Pad(Sextets(Len(b)))
    BY DEF Base64, Data, Pad, Sextets, Missing
  <1>. QED  BY <1>3, <1>4 DEF d, e

-----------------------------------------------------------------------------
(* The URL-safe alphabet *)

\* What a character is in the URL-safe alphabet.
UrlSafe(x) == IF x = Plus THEN Dash ELSE IF x = Slash THEN Underscore ELSE x

\* ReplaceAll works character by character.
LEMMA ReplaceAllIs ==
    ASSUME NEW s \in Seq(Nat), NEW old, NEW new \in Nat
    PROVE  /\ ReplaceAll(s, old, new) \in Seq(Nat)
           /\ Len(ReplaceAll(s, old, new)) = Len(s)
           /\ \A j \in 1 .. Len(s) : ReplaceAll(s, old, new)[j] = IF s[j] = old THEN new ELSE s[j]
  BY DEF ReplaceAll

\* A URL-safe text: the same characters, one by one, none of them special.
LEMMA UrlSafeIs ==
    ASSUME NEW b \in Seq(Byte)
    PROVE  LET u == ToUrlSafeBase64(b) IN
           /\ u \in Seq(Nat) /\ Len(u) = Sextets(Len(b))
           /\ \A j \in 1 .. Len(u) : u[j] = UrlSafe(Data(b)[j])
           /\ \A j \in 1 .. Len(u) : u[j] \notin {Plus, Slash, Equals}
  <1>. DEFINE d == Data(b)
              v == ReplaceAll(d, Plus, Dash)
              u == ReplaceAll(v, Slash, Underscore)
              n == Sextets(Len(b))
  <1>1. ToUrlSafeBase64(b) = u
    BY Base64Is DEF ToUrlSafeBase64
  <1>2. d \in Seq(Nat) /\ Len(d) = n /\ n \in Nat /\ \A j \in 1 .. n : IsSextet(d[j])
    BY DataType
  <1>. HIDE DEF d, n
  <1>3. Dash \in Nat /\ Underscore \in Nat
    BY DEF Dash, Underscore
  <1>4. /\ v \in Seq(Nat) /\ Len(v) = Len(d)
        /\ \A j \in 1 .. Len(d) : v[j] = IF d[j] = Plus THEN Dash ELSE d[j]
    BY <1>2, <1>3, ReplaceAllIs
  <1>. HIDE DEF v
  <1>5. /\ u \in Seq(Nat) /\ Len(u) = Len(v)
        /\ \A j \in 1 .. Len(v) : u[j] = IF v[j] = Slash THEN Underscore ELSE v[j]
    BY <1>3, <1>4, ReplaceAllIs
  <1>. HIDE DEF u
  <1>6. Len(u) = n
    BY <1>2, <1>4, <1>5
  <1>7. ASSUME NEW j \in 1 .. Len(u)
        PROVE  u[j] = UrlSafe(d[j]) /\ u[j] \notin {Plus, Slash, Equals}
    <2>1. IsSextet(d[j]) /\ v[j] = (IF d[j] = Plus THEN Dash ELSE d[j])
          /\ u[j] = (IF v[j] = Slash THEN Underscore ELSE v[j])
      BY <1>2, <1>4, <1>5, <1>6
    <2>2. Dash # Slash
      BY DEF Dash, Slash
    <2>3. u[j] = UrlSafe(d[j])
      BY <2>1, <2>2 DEF UrlSafe
    <2>4. u[j] \notin {Plus, Slash, Equals}
      BY <2>1, <2>3 DEF UrlSafe, IsSextet, Plus, Slash, Dash, Underscore, Equals
    <2>. QED  BY <2>3, <2>4
  <1>8. /\ u \in Seq(Nat) /\ Len(u) = n
        /\ \A j \in 1 .. Len(u) : u[j] = UrlSafe(d[j])
        /\ \A j \in 1 .. Len(u) : u[j] \notin {Plus, Slash, Equals}
    BY <1>5, <1>6, <1>7
  <1>. QED  BY <1>1, <1>8, Zenon DEF d, n

\* The byte at position i of what d encodes.
Octet(d, i) ==
    LET g == ((i - 1) \div 3) * 4 IN
    CASE i % 3 = 1 -> Octet1(ByteAt(d, g + 1), ByteAt(d, g + 2))
      [] i % 3 = 2 -> Octet2(ByteAt(d, g + 2), ByteAt(d, g + 3))
      [] OTHER     -> Octet3(ByteAt(d, g + 3), ByteAt(d, g + 4))

\* The bytes that the data of b encode are those of b.
LEMMA OctetIs ==
    ASSUME NEW b \in Seq(Byte), NEW i \in 1 .. Len(b)
    PROVE  Octet(Data(b), i) = b[i]
  <1>. DEFINE d == Data(b)
              n == Sextets(Len(b))
              l == Len(b)
  <1>1. /\ l \in Nat /\ n \in Nat /\ d \in Seq(Nat) /\ Len(d) = n
        /\ \A j \in 1 .. n : d[j] = Sextet(b, j)
    BY DataType
  <1>2. PICK q \in Nat : /\ (i - 1) \div 3 = q
                         /\ \/ i = 3 * q + 1 /\ i % 3 = 1
                            \/ i = 3 * q + 2 /\ i % 3 = 2
                            \/ i = 3 * q + 3 /\ i % 3 = 0
    <2>1. i \in Nat /\ i >= 1
      BY <1>1
    <2>. QED  BY <2>1, Thirds
  <1>3. /\ 3 * q + 1 <= l => 4 * q + 1 <= n /\ 4 * q + 2 <= n
        /\ 3 * q + 2 <= l => 4 * q + 3 <= n
        /\ 3 * q + 3 <= l => 4 * q + 4 <= n
    BY <1>1, SextetCount
  <1>. DEFINE x == ByteAt(b, 3 * q + 1)
              y == ByteAt(b, 3 * q + 2)
              z == ByteAt(b, 3 * q + 3)
  <1>4. /\ Sextet(b, 4 * q + 1) = Sextet1(x)
        /\ Sextet(b, 4 * q + 2) = Sextet2(x, y)
        /\ Sextet(b, 4 * q + 3) = Sextet3(y, z)
        /\ Sextet(b, 4 * q + 4) = Sextet4(z)
        /\ \A k \in Nat : ByteAt(b, k) \in Byte
    BY SextetsOf
  <1>5. x \in Byte /\ y \in Byte /\ z \in Byte
    <2>1. 3 * q + 1 \in Nat /\ 3 * q + 2 \in Nat /\ 3 * q + 3 \in Nat
      OBVIOUS
    <2>. QED  BY <1>4, <2>1
  <1>6. i <= l /\ i \in DOMAIN b /\ ByteAt(b, i) = b[i]
    BY <1>1 DEF ByteAt
  <1>7. \A j \in Nat : j >= 1 /\ j <= n => ByteAt(d, j) = Sextet(b, j)
    <2>. HIDE DEF d, n
    <2>. QED  BY <1>1 DEF ByteAt
  <1>8. /\ 4 * q + 1 \in Nat /\ 4 * q + 1 >= 1 /\ 4 * q + 2 \in Nat /\ 4 * q + 2 >= 1
        /\ 4 * q + 3 \in Nat /\ 4 * q + 3 >= 1 /\ 4 * q + 4 \in Nat /\ 4 * q + 4 >= 1
    OBVIOUS
  <1>. DEFINE g == ((i - 1) \div 3) * 4
  <1>9. g = 4 * q /\ g \in Nat
    BY <1>2
  <1>10. Octet(d, i) =
            CASE i % 3 = 1 -> Octet1(ByteAt(d, g + 1), ByteAt(d, g + 2))
              [] i % 3 = 2 -> Octet2(ByteAt(d, g + 2), ByteAt(d, g + 3))
              [] OTHER     -> Octet3(ByteAt(d, g + 3), ByteAt(d, g + 4))
    BY DEF Octet
  <1>11. /\ Octet1(Sextet1(x), Sextet2(x, y)) = x
         /\ Octet2(Sextet2(x, y), Sextet3(y, z)) = y
         /\ Octet3(Sextet3(y, z), Sextet4(z)) = z
    BY <1>5, SextetArithmetic
  <1>. HIDE DEF d, n, l, x, y, z, g
  <1>12. CASE i = 3 * q + 1 /\ i % 3 = 1
    <2>1. 4 * q + 1 <= n /\ 4 * q + 2 <= n
      BY <1>3, <1>6, <1>12
    <2>2. ByteAt(d, g + 1) = Sextet1(x) /\ ByteAt(d, g + 2) = Sextet2(x, y)
      BY <1>4, <1>7, <1>8, <1>9, <2>1
    <2>3. Octet(d, i) = x
      BY <1>10, <1>11, <1>12, <2>2
    <2>. QED  BY <1>6, <1>12, <2>3 DEF x, d
  <1>13. CASE i = 3 * q + 2 /\ i % 3 = 2
    <2>1. 4 * q + 2 <= n /\ 4 * q + 3 <= n
      BY <1>1, <1>3, <1>6, <1>13
    <2>2. ByteAt(d, g + 2) = Sextet2(x, y) /\ ByteAt(d, g + 3) = Sextet3(y, z)
      BY <1>4, <1>7, <1>8, <1>9, <2>1
    <2>3. Octet(d, i) = y
      BY <1>10, <1>11, <1>13, <2>2
    <2>. QED  BY <1>6, <1>13, <2>3 DEF y, d
  <1>14. CASE i = 3 * q + 3 /\ i % 3 = 0
    <2>1. 4 * q + 3 <= n /\ 4 * q + 4 <= n
      BY <1>1, <1>3, <1>6, <1>14
    <2>2. ByteAt(d, g + 3) = Sextet3(y, z) /\ ByteAt(d, g + 4) = Sextet4(z)
      BY <1>4, <1>7, <1>8, <1>9, <2>1
    <2>3. Octet(d, i) = z
      BY <1>10, <1>11, <1>14, <2>2
    <2>. QED  BY <1>6, <1>14, <2>3 DEF z, d
  <1>. QED  BY <1>2, <1>12, <1>13, <1>14 DEF d

\* atob gives the bytes that were encoded.
LEMMA FromBase64Is ==
    ASSUME NEW b \in Seq(Byte)
    PROVE  FromBase64(Data(b) \o Pad(Sextets(Len(b)))) = b
  <1>. DEFINE n == Sextets(Len(b))
              d == Data(b)
              e == Pad(n)
              c == d \o e
  <1>1. /\ Len(b) \in Nat /\ n \in Nat /\ d \in Seq(Nat) /\ Len(d) = n
        /\ \A j \in 1 .. n : IsSextet(d[j])
        /\ e \in Seq(Nat) /\ Len(e) = Missing(n)
    BY DataType
  <1>2. /\ (3 * n) \div 4 = Len(b)
        /\ Missing(n) \in Nat /\ Missing(n) <= 2 /\ (n + Missing(n)) % 4 = 0
    BY <1>1, SextetCount
  <1>3. StripTrailingEquals(c) = d
    BY Base64Is
  <1>4. \A i \in 1 .. Len(b) : Octet(d, i) = b[i]
    BY OctetIs
  <1>. HIDE DEF d, e, n
  <1>5. Len(c) = n + Missing(n)
    <2>1. d \in Seq(Nat) /\ e \in Seq(Nat)
      BY <1>1
    <2>2. Len(c) = Len(d) + Len(e)
      BY <2>1, ConcatElements
    <2>. QED  BY <1>1, <2>2
  <1>. HIDE DEF c
  <1>6. Len(c) % 4 = 0 /\ Len(c) - Len(d) <= 2
    BY <1>1, <1>2, <1>5
  <1>7. \A i \in DOMAIN d : d[i] < 64
    <2>1. DOMAIN d = 1 .. n
      BY <1>1
    <2>. QED  BY <1>1, <2>1 DEF IsSextet
  <1>8. FromBase64(c) = [i \in 1 .. (3 * Len(d)) \div 4 |-> Octet(d, i)]
    BY <1>3, <1>6, <1>7 DEF FromBase64, Octet, Octet1, Octet2, Octet3, ByteAt
  <1>9. FromBase64(c) = [i \in 1 .. Len(b) |-> Octet(d, i)]
    BY <1>1, <1>2, <1>8
  <1>10. [i \in 1 .. Len(b) |-> Octet(d, i)] = b
    <2>1. b = [i \in 1 .. Len(b) |-> b[i]]
      OBVIOUS
    <2>2. [i \in 1 .. Len(b) |-> Octet(d, i)] = [i \in 1 .. Len(b) |-> b[i]]
      BY <1>4
    <2>. QED  BY <2>1, <2>2, Zenon
  <1>. QED  BY <1>9, <1>10 DEF c, d, e, n

\* A text that is made URL-safe decodes to the bytes it was made of.
THEOREM UrlSafeRoundTrip ==
    ASSUME NEW b \in Seq(Byte)
    PROVE  FromUrlSafeBase64(ToUrlSafeBase64(b)) = b
  <1>. DEFINE u == ToUrlSafeBase64(b)
              n == Sextets(Len(b))
              d == Data(b)
              e == Pad(n)
              p == u \o e
              v == ReplaceAll(p, Dash, Plus)
              w == ReplaceAll(v, Underscore, Slash)
              c == d \o e
  <1>1. u \in Seq(Nat) /\ Len(u) = n /\ \A j \in 1 .. n : u[j] = UrlSafe(d[j])
    BY UrlSafeIs, Zenon
  <1>2. /\ n \in Nat /\ d \in Seq(Nat) /\ Len(d) = n
        /\ \A j \in 1 .. n : IsSextet(d[j])
        /\ e \in Seq(Nat) /\ Len(e) = Missing(n)
        /\ \A j \in 1 .. Missing(n) : e[j] = Equals
    BY DataType, Zenon
  <1>3. Missing(n) \in Nat
    <2>1. Len(b) \in Nat
      OBVIOUS
    <2>. QED  BY <2>1, SextetCount
  <1>4. FromBase64(c) = b
    BY FromBase64Is, Zenon
  <1>5. FromUrlSafeBase64(u) = FromBase64(w)
    <2>1. Len(u) = n
      BY <1>1
    <2>. HIDE DEF u, n
    <2>. QED  BY <2>1 DEF FromUrlSafeBase64, Pad, Missing
  <1>. HIDE DEF u, n, d, e
  <1>6. p \in Seq(Nat) /\ c \in Seq(Nat)
    BY <1>1, <1>2, ConcatProperties
  <1>7. /\ Len(p) = n + Missing(n) /\ Len(c) = n + Missing(n)
        /\ \A j \in 1 .. n : p[j] = u[j] /\ c[j] = d[j]
        /\ \A j \in 1 .. Missing(n) : p[n + j] = e[j] /\ c[n + j] = e[j]
    <2>1. u \in Seq(Nat) /\ d \in Seq(Nat) /\ e \in Seq(Nat)
      BY <1>1, <1>2
    <2>2. /\ Len(p) = Len(u) + Len(e) /\ Len(c) = Len(d) + Len(e)
          /\ \A j \in 1 .. Len(u) : p[j] = u[j]
          /\ \A j \in 1 .. Len(d) : c[j] = d[j]
          /\ \A j \in 1 .. Len(e) : p[Len(u) + j] = e[j] /\ c[Len(d) + j] = e[j]
      BY <2>1, ConcatElements
    <2>3. Len(u) = n /\ Len(d) = n /\ Len(e) = Missing(n)
      BY <1>1, <1>2
    <2>. HIDE DEF p, c
    <2>. QED  BY <2>2, <2>3
  <1>. HIDE DEF p, c
  <1>8. Plus \in Nat /\ Slash \in Nat
    BY DEF Plus, Slash
  <1>9. /\ v \in Seq(Nat) /\ Len(v) = Len(p)
        /\ \A j \in 1 .. Len(p) : v[j] = IF p[j] = Dash THEN Plus ELSE p[j]
    BY <1>6, <1>8, ReplaceAllIs
  <1>. HIDE DEF v
  <1>10. /\ w \in Seq(Nat) /\ Len(w) = Len(v)
         /\ \A j \in 1 .. Len(v) : w[j] = IF v[j] = Underscore THEN Slash ELSE v[j]
    BY <1>8, <1>9, ReplaceAllIs
  <1>. HIDE DEF w
  <1>11. ASSUME NEW j \in 1 .. Len(w) PROVE w[j] = c[j]
    <2>0. j \in 1 .. n + Missing(n) /\ j \in Nat
      BY <1>2, <1>3, <1>7, <1>9, <1>10
    <2>1. /\ v[j] = (IF p[j] = Dash THEN Plus ELSE p[j])
          /\ w[j] = (IF v[j] = Underscore THEN Slash ELSE v[j])
      BY <1>9, <1>10
    <2>2. CASE j <= n
      <3>1. j \in 1 .. n
        BY <1>2, <2>0, <2>2
      <3>2. p[j] = UrlSafe(d[j]) /\ c[j] = d[j] /\ IsSextet(d[j])
        BY <1>1, <1>2, <1>7, <3>1
      <3>. QED  BY <2>1, <3>2 DEF UrlSafe, IsSextet, Plus, Slash, Dash, Underscore
    <2>3. CASE j > n
      <3>1. j - n \in 1 .. Missing(n) /\ n + (j - n) = j
        BY <1>2, <1>3, <2>0, <2>3
      <3>2. p[j] = Equals /\ c[j] = Equals
        <4>1. p[n + (j - n)] = e[j - n] /\ c[n + (j - n)] = e[j - n] /\ e[j - n] = Equals
          BY <1>2, <1>7, <3>1
        <4>. QED  BY <3>1, <4>1
      <3>. QED  BY <2>1, <3>2 DEF Equals, Plus, Slash, Dash, Underscore
    <2>4. j <= n \/ j > n
      BY <1>2, <2>0
    <2>. QED  BY <2>2, <2>3, <2>4, Zenon
  <1>12. w = c
    BY <1>6, <1>7, <1>9, <1>10, <1>11, SeqEqual
  <1>. QED  BY <1>4, <1>5, <1>12 DEF u

-----------------------------------------------------------------------------
(* Infos *)

\* Filtering the texts out of an array leaves texts.
LEMMA TextsKept ==
    ASSUME NEW q \in Seq(Values)
    PROVE  Keep(q, Texts) \in Seq(Values) /\ \A k \in DOMAIN Keep(q, Texts) : IsText(Keep(q, Texts)[k])
  <1>1. Keep(q, Texts) \in Seq(Values)
    BY KeepProperties
  <1>2. \A x : (\E j \in DOMAIN Keep(q, Texts) : Keep(q, Texts)[j] = x)
                 <=> x \in Texts /\ \E j \in DOMAIN q : q[j] = x
    BY KeepProperties
  <1>. QED  BY <1>1, <1>2, Zenon DEF IsText

\* What normalizing gives is well formed and of the same node, or an error; it
\* changes nothing that was well formed.
LEMMA NormalizeIs ==
    ASSUME NEW i \in Info
    PROVE  LET n == NormalizeConnectionInfo(i) IN
           /\ n = Rejected \/ (WellFormed(n) /\ n \in Info /\ n.nodeId = i.nodeId)
           /\ WellFormed(i) => n = i
  <1>. DEFINE n == NormalizeConnectionInfo(i)
              caps == IF i.capabilities = <<"notAnArray">> THEN << >>
                      ELSE Keep(i.capabilities, Texts)
  <1>1. /\ i.version \in {0, 1} /\ i.nodeId \in Values /\ i.displayName \in Values
        /\ i.createdAt \in Values
        /\ i.capabilities \in Seq(Values) \/ i.capabilities = <<"notAnArray">>
        /\ i = [version |-> i.version, nodeId |-> i.nodeId, displayName |-> i.displayName,
                capabilities |-> i.capabilities, createdAt |-> i.createdAt]
    BY DEF Info
  <1>2. caps \in Seq(Values) /\ \A k \in DOMAIN caps : IsText(caps[k])
    <2>1. CASE i.capabilities = <<"notAnArray">>
      <3>1. caps = << >>
        BY <2>1
      <3>2. << >> \in Seq(Values) /\ DOMAIN << >> = {}
        OBVIOUS
      <3>. QED  BY <3>1, <3>2, Zenon
    <2>2. CASE i.capabilities # <<"notAnArray">>
      <3>1. i.capabilities \in Seq(Values) /\ caps = Keep(i.capabilities, Texts)
        BY <1>1, <2>2
      <3>. HIDE DEF caps
      <3>. QED  BY <3>1, TextsKept, Zenon
    <2>. QED  BY <2>1, <2>2
  <1>3. n = IF ~IsText(i.nodeId) \/ i.nodeId = "empty" \/ i.version # 1
            THEN Rejected
            ELSE [version |-> 1, nodeId |-> i.nodeId,
                  displayName |-> IF IsText(i.displayName) THEN i.displayName ELSE "null",
                  capabilities |-> caps,
                  createdAt |-> NormalizeCreatedAt(i.createdAt)]
    BY DEF NormalizeConnectionInfo
  <1>. HIDE DEF n, caps
  <1>4. n = Rejected \/ (WellFormed(n) /\ n \in Info /\ n.nodeId = i.nodeId)
    <2>1. CASE IsText(i.nodeId) /\ i.nodeId # "empty" /\ i.version = 1
      <3>1. i.nodeId \in {"text", "date"}
        BY <1>1, <2>1 DEF IsText, Texts, Values
      <3>2. /\ n.version = 1 /\ n.nodeId = i.nodeId /\ n.capabilities = caps
            /\ n.displayName = (IF IsText(i.displayName) THEN i.displayName ELSE "null")
            /\ n.createdAt = NormalizeCreatedAt(i.createdAt)
        BY <1>3, <2>1
      <3>3. n.createdAt \in {"date", "null"}
        BY <3>2 DEF NormalizeCreatedAt
      <3>4. IsText(n.displayName) \/ n.displayName = "null"
        BY <3>2
      <3>5. WellFormed(n)
        BY <1>2, <3>1, <3>2, <3>3, <3>4 DEF WellFormed
      <3>6. n.displayName \in Values
        BY <3>4 DEF IsText, Texts, Values
      <3>7. n \in Info
        BY <1>1, <1>2, <1>3, <2>1, <3>2, <3>3, <3>6 DEF Info, Values
      <3>. QED  BY <3>2, <3>5, <3>7
    <2>. QED  BY <1>3, <2>1
  <1>5. ASSUME WellFormed(i) PROVE n = i
    <2>1. i.version = 1 /\ i.nodeId \in {"text", "date"} /\ i.createdAt \in {"date", "null"}
          /\ (IsText(i.displayName) \/ i.displayName = "null")
          /\ \A k \in DOMAIN i.capabilities : IsText(i.capabilities[k])
      BY <1>5 DEF WellFormed
    <2>2. i.capabilities # <<"notAnArray">>
      <3>1. ~ IsText("notAnArray")
        BY DEF IsText, Texts
      <3>2. 1 \in DOMAIN <<"notAnArray">> /\ <<"notAnArray">>[1] = "notAnArray"
        OBVIOUS
      <3>. QED  BY <2>1, <3>1, <3>2, Zenon
    <2>3. caps = i.capabilities
      <3>. DEFINE q == i.capabilities
      <3>1. q \in Seq(Values) /\ \A k \in DOMAIN q : q[k] \in Texts
        BY <1>1, <2>1, <2>2 DEF IsText
      <3>2. caps = Keep(q, Texts)
        BY <2>2 DEF caps
      <3>. HIDE DEF q
      <3>3. Keep(q, Texts) = q
        BY <3>1, KeepAll
      <3>. QED  BY <3>2, <3>3 DEF q
    <2>4. IsText(i.nodeId) /\ i.nodeId # "empty"
      BY <2>1 DEF IsText, Texts
    <2>5. NormalizeCreatedAt(i.createdAt) = i.createdAt
      BY <2>1 DEF NormalizeCreatedAt
    <2>6. (IF IsText(i.displayName) THEN i.displayName ELSE "null") = i.displayName
      BY <2>1
    <2>. QED  BY <1>1, <1>3, <2>1, <2>3, <2>4, <2>5, <2>6
  <1>. QED  BY <1>4, <1>5 DEF n

\* A share URI carries the info it was made of, and whoever opens it gets that
\* info, normalized.
THEOREM ShareUriRoundTrip ==
    ASSUME NEW i \in DOMAIN Json
    PROVE  FromShareUri(ToShareUri(i)) = NormalizeConnectionInfo(i)
  <1>. DEFINE b == Json[i]
              u == ToShareUri(i)
              parsed == {j \in DOMAIN Json : Json[j] = FromUrlSafeBase64(u)}
  <1>1. b \in Seq(Byte) /\ b # << >>
    BY JsonAssumption DEF Byte
  <1>2. u = ToUrlSafeBase64(b)
    BY DEF ToShareUri
  <1>3. u # << >>
    <2>1. Len(b) \in Nat /\ Len(b) >= 1
      BY <1>1
    <2>2. Sextets(Len(b)) >= 1 /\ Sextets(Len(b)) \in Nat
      BY <2>1, SextetCount
    <2>3. u \in Seq(Nat) /\ Len(u) = Sextets(Len(b))
      <3>. HIDE DEF b, u
      <3>. QED  BY <1>1, <1>2, UrlSafeIs
    <2>. HIDE DEF b, u
    <2>. QED  BY <2>2, <2>3
  <1>4. FromUrlSafeBase64(u) = b
    BY <1>1, <1>2, UrlSafeRoundTrip
  <1>5. parsed = {i}
    <2>1. \A j \in DOMAIN Json : Json[j] = Json[i] => j = i
      BY JsonAssumption
    <2>. HIDE DEF u
    <2>. QED  BY <1>4, <2>1
  <1>6. (CHOOSE j \in parsed : TRUE) = i
    BY <1>5
  <1>. HIDE DEF parsed, u
  <1>7. FromShareUri(u) = NormalizeConnectionInfo(i)
    <2>1. FromShareUri(u) = IF u = << >> \/ parsed = {} THEN Rejected
                            ELSE NormalizeConnectionInfo(CHOOSE j \in parsed : TRUE)
      BY DEF FromShareUri, parsed
    <2>. QED  BY <1>3, <1>5, <1>6, <2>1
  <1>. QED  BY <1>7 DEF u

-----------------------------------------------------------------------------
(* The inductive invariant *)

\* A signature is the pair or its DER encoding, unless normalizeSignature takes
\* it for DER.
SignatureInv ==
    /\ form \in {"P1363", "DER"}
    /\ origin \in Pairs
    /\ origin[1] # 48 => value = IF form = "P1363" THEN origin ELSE P1363ToDer(origin)

\* A key is the point in the one form or the other.
KeyInv ==
    /\ form \in {"X963", "SPKI"}
    /\ origin \in Pairs
    /\ value = IF form = "X963" THEN Point(origin) ELSE Spki(origin)

\* The infos that a URI can carry: the shared one, and what became of it.
Carried ==
    {i \in DOMAIN Json : i = origin \/ (i = NormalizeConnectionInfo(origin) /\ i # Rejected)}

\* However often an info is shared again, a receiver gets the same.
InfoInv ==
    /\ form \in {"info", "uri", "received"}
    /\ origin \in Shared
    /\ form = "info"     => value = origin
    /\ form = "uri"      => \E i \in Carried : value = ToShareUri(i)
    /\ form = "received" => value = NormalizeConnectionInfo(origin)

\* What a value is follows from its form.
IInv == SignatureInv \/ KeyInv \/ InfoInv

-----------------------------------------------------------------------------
(* Signatures: the steps *)

\* Each step of a signature's.
LEMMA SignatureSteps ==
    ASSUME IInv, SignatureToDer \/ SignatureToP1363 \/ SignatureToOwn
    PROVE  IInv'
  <1>1. form \in {"P1363", "DER"} /\ form' \in {"P1363", "DER"} /\ origin' = origin
    BY DEF SignatureToDer, SignatureToP1363, SignatureToOwn, Convert
  <1>2. SignatureInv
    BY <1>1 DEF IInv, KeyInv, InfoInv
  <1>3. origin \in Pairs /\ origin' \in Pairs
    BY <1>1, <1>2 DEF SignatureInv
  <1>4. ASSUME origin[1] # 48
        PROVE  value' = IF form' = "P1363" THEN origin ELSE P1363ToDer(origin)
    <2>1. value = IF form = "P1363" THEN origin ELSE P1363ToDer(origin)
      BY <1>2, <1>4 DEF SignatureInv
    <2>2. CASE SignatureToDer
      BY <2>1, <2>2 DEF SignatureToDer, Convert
    <2>3. CASE SignatureToP1363
      <3>1. form = "DER" /\ form' = "P1363" /\ value' = DerToP1363(value)
        BY <2>3 DEF SignatureToP1363, Convert
      <3>2. value = P1363ToDer(origin)
        BY <2>1, <3>1
      <3>. QED  BY <1>3, <3>1, <3>2, SignatureRoundTrip
    <2>4. CASE SignatureToOwn
      <3>1. form' = "DER" /\ value' = NormalizeSignature(value)
        BY <2>4 DEF SignatureToOwn, Convert
      <3>2. CASE form = "P1363"
        <4>1. value = origin /\ ~ HasTag(origin, 48)
          BY <1>4, <2>1, <3>2 DEF HasTag
        <4>. QED  BY <3>1, <4>1 DEF NormalizeSignature
      <3>3. CASE form = "DER"
        <4>1. value = P1363ToDer(origin)
          BY <2>1, <3>3
        <4>2. HasTag(P1363ToDer(origin), 48)
          <5>. DEFINE d == P1363ToDer(origin)
          <5>1. d \in Seq(Byte) /\ d[1] = 48 /\ Len(d) >= 1
            BY <1>3, DerLayout
          <5>. HIDE DEF d
          <5>2. HasTag(d, 48)
            BY <5>1 DEF HasTag
          <5>. QED  BY <5>2 DEF d
        <4>. QED  BY <3>1, <4>1, <4>2 DEF NormalizeSignature
      <3>. QED  BY <1>1, <3>2, <3>3
    <2>. QED  BY <2>2, <2>3, <2>4
  <1>5. SignatureInv'
    BY <1>1, <1>3, <1>4 DEF SignatureInv
  <1>. QED  BY <1>5 DEF IInv

-----------------------------------------------------------------------------
(* Keys: the steps *)

\* Each step of a key's.
LEMMA KeySteps ==
    ASSUME IInv, KeyToSpki \/ KeyToX963 \/ KeyToOwn
    PROVE  IInv'
  <1>1. form \in {"X963", "SPKI"} /\ form' \in {"X963", "SPKI"} /\ origin' = origin
    BY DEF KeyToSpki, KeyToX963, KeyToOwn, Convert
  <1>2. KeyInv
    BY <1>1 DEF IInv, SignatureInv, InfoInv
  <1>3. origin \in Pairs /\ origin' \in Pairs
        /\ value = IF form = "X963" THEN Point(origin) ELSE Spki(origin)
    BY <1>1, <1>2 DEF KeyInv
  <1>4. /\ X963ToDerSpki(Point(origin)) = Spki(origin)
        /\ DerSpkiToX963(Spki(origin)) = Point(origin)
        /\ NormalizePublicKey(Point(origin)) = Spki(origin)
        /\ NormalizePublicKey(Spki(origin)) = Spki(origin)
    BY <1>3, KeyConversions
  <1>5. value' = IF form' = "X963" THEN Point(origin) ELSE Spki(origin)
    <2>1. CASE KeyToSpki
      BY <1>3, <1>4, <2>1 DEF KeyToSpki, Convert
    <2>2. CASE KeyToX963
      BY <1>3, <1>4, <2>2 DEF KeyToX963, Convert
    <2>3. CASE KeyToOwn
      <3>1. form' = "SPKI" /\ value' = NormalizePublicKey(value)
        BY <2>3 DEF KeyToOwn, Convert
      <3>2. NormalizePublicKey(value) = Spki(origin)
        BY <1>3, <1>4
      <3>. QED  BY <3>1, <3>2
    <2>. QED  BY <2>1, <2>2, <2>3
  <1>6. KeyInv'
    BY <1>1, <1>3, <1>5 DEF KeyInv
  <1>. QED  BY <1>6 DEF IInv

-----------------------------------------------------------------------------
(* Infos: the steps *)

\* A shared info is an info that has a text, and what became of it has one too.
LEMMA SharedIs ==
    ASSUME origin \in Shared
    PROVE  /\ origin \in DOMAIN Json /\ origin \in Info /\ origin \in Carried
           /\ NormalizeConnectionInfo(origin) # Rejected =>
                 /\ NormalizeConnectionInfo(origin) \in Carried
                 /\ WellFormed(NormalizeConnectionInfo(origin))
                 /\ NormalizeConnectionInfo(NormalizeConnectionInfo(origin)) = NormalizeConnectionInfo(origin)
           /\ \A i \in Carried : i \in DOMAIN Json /\ NormalizeConnectionInfo(i) = NormalizeConnectionInfo(origin)
  <1>. DEFINE n == NormalizeConnectionInfo(origin)
  <1>1. origin \in DOMAIN Json /\ n \in DOMAIN Json \cup {Rejected}
    BY SharedAssumption
  <1>2. origin \in Info
    BY <1>1, JsonAssumption
  <1>3. n = Rejected \/ (WellFormed(n) /\ n \in Info)
    BY <1>2, NormalizeIs
  <1>4. n # Rejected => NormalizeConnectionInfo(n) = n
    <2>. HIDE DEF n
    <2>. QED  BY <1>3, NormalizeIs
  <1>5. origin \in Carried /\ (n # Rejected => n \in Carried)
    BY <1>1 DEF Carried
  <1>6. \A i \in Carried : i \in DOMAIN Json /\ NormalizeConnectionInfo(i) = n
    BY <1>4 DEF Carried
  <1>. QED  BY <1>1, <1>2, <1>3, <1>4, <1>5, <1>6

\* Each step of an info's.
LEMMA InfoSteps ==
    ASSUME IInv, Share \/ Receive \/ ShareAgain
    PROVE  IInv'
  <1>1. form \in {"info", "uri", "received"} /\ form' \in {"uri", "received"} /\ origin' = origin
    BY DEF Share, Receive, ShareAgain, Convert
  <1>2. InfoInv
    BY <1>1 DEF IInv, SignatureInv, KeyInv
  <1>3. origin \in Shared /\ origin' \in Shared /\ Carried' = Carried
    BY <1>1, <1>2 DEF InfoInv, Carried
  <1>4. CASE Share
    <2>1. form = "info" /\ form' = "uri" /\ value' = ToShareUri(value)
      BY <1>4 DEF Share, Convert
    <2>2. value = origin /\ origin \in Carried
      BY <1>2, <1>3, <2>1, SharedIs DEF InfoInv
    <2>3. \E i \in Carried' : value' = ToShareUri(i)
      BY <1>3, <2>1, <2>2
    <2>4. InfoInv'
      BY <1>3, <2>1, <2>3 DEF InfoInv
    <2>. QED  BY <2>4 DEF IInv
  <1>5. CASE Receive
    <2>1. form = "uri" /\ form' = "received" /\ value' = FromShareUri(value)
      BY <1>5 DEF Receive, Convert
    <2>2. PICK i \in Carried : value = ToShareUri(i)
      BY <1>2, <2>1 DEF InfoInv
    <2>3. i \in DOMAIN Json /\ NormalizeConnectionInfo(i) = NormalizeConnectionInfo(origin)
      BY <1>3, SharedIs
    <2>4. value' = NormalizeConnectionInfo(origin)
      BY <2>1, <2>2, <2>3, ShareUriRoundTrip
    <2>5. InfoInv'
      BY <1>1, <1>3, <2>1, <2>4 DEF InfoInv
    <2>. QED  BY <2>5 DEF IInv
  <1>6. CASE ShareAgain
    <2>1. form = "received" /\ value # Rejected /\ form' = "uri" /\ value' = ToShareUri(value)
      BY <1>6 DEF ShareAgain, Convert
    <2>2. value = NormalizeConnectionInfo(origin)
      BY <1>2, <2>1 DEF InfoInv
    <2>3. value \in Carried
      BY <1>3, <2>1, <2>2, SharedIs
    <2>4. \E i \in Carried' : value' = ToShareUri(i)
      BY <1>3, <2>1, <2>3
    <2>5. InfoInv'
      BY <1>3, <2>1, <2>4 DEF InfoInv
    <2>. QED  BY <2>5 DEF IInv
  <1>. QED  BY <1>4, <1>5, <1>6

-----------------------------------------------------------------------------
(* The theorems *)

\* What a value is follows from its form, after any conversions.
THEOREM FormsAreKept == Spec => []IInv
  <1>1. Init => IInv
    <2>. SUFFICES ASSUME Init PROVE IInv
      OBVIOUS
    <2>1. CASE \E c \in [1 .. 2 * W -> CoordinateBytes] :
                  /\ origin = c
                  /\ \/ form = "P1363" /\ value = c
                     \/ form = "X963" /\ value = <<4>> \o c
      <3>1. PICK c \in [1 .. 2 * W -> CoordinateBytes] :
                  /\ origin = c
                  /\ \/ form = "P1363" /\ value = c
                     \/ form = "X963" /\ value = <<4>> \o c
        BY <2>1
      <3>2. c \in Pairs
        <4>1. CoordinateBytes \subseteq Byte
          BY SharedAssumption DEF Byte
        <4>. QED  BY <4>1 DEF Pairs
      <3>3. CASE form = "P1363" /\ value = c
        BY <3>1, <3>2, <3>3 DEF IInv, SignatureInv
      <3>4. CASE form = "X963" /\ value = <<4>> \o c
        BY <3>1, <3>2, <3>4 DEF IInv, KeyInv, Point
      <3>. QED  BY <3>1, <3>3, <3>4
    <2>2. CASE \E i \in Shared : origin = i /\ form = "info" /\ value = i
      BY <2>2 DEF IInv, InfoInv
    <2>. QED  BY <2>1, <2>2 DEF Init
  <1>2. IInv /\ [Next]_vars => IInv'
    <2>. SUFFICES ASSUME IInv, [Next]_vars PROVE IInv'
      OBVIOUS
    <2>1. CASE SignatureToDer \/ SignatureToP1363 \/ SignatureToOwn
      BY <2>1, SignatureSteps
    <2>2. CASE KeyToSpki \/ KeyToX963 \/ KeyToOwn
      BY <2>2, KeySteps
    <2>3. CASE Share \/ Receive \/ ShareAgain
      BY <2>3, InfoSteps
    <2>4. CASE UNCHANGED vars
      BY <2>4 DEF vars, IInv, SignatureInv, KeyInv, InfoInv, Carried
    <2>. QED  BY <2>1, <2>2, <2>3, <2>4 DEF Next
  <1>. QED  BY <1>1, <1>2, PTL DEF Spec

\* Whatever conversions a signature goes through, it stays the same pair (R, S):
\* its canonical DER encoding, or R||S, for coordinates of any width. This is of
\* the signatures whose R does not begin with the byte 48 (0x30) only:
\* normalizeSignature takes an R||S that does for DER and returns it as it is
\* (peer-crypto-adapter.js:102), so nothing is claimed of those.
THEOREM SignaturesAreKept == Spec => []SignatureKept
  <1>1. IInv => SignatureKept
    <2>. SUFFICES ASSUME IInv PROVE SignatureKept
      OBVIOUS
    <2>1. CASE SignatureInv
      <3>1. origin \in Pairs => IsDerOf(P1363ToDer(origin), origin)
        BY DerIsDer
      <3>. QED  BY <2>1, <3>1 DEF SignatureInv, SignatureKept
    <2>2. CASE KeyInv \/ InfoInv
      BY <2>2 DEF KeyInv, InfoInv, SignatureKept
    <2>. QED  BY <2>1, <2>2 DEF IInv
  <1>. QED  BY <1>1, FormsAreKept, PTL

\* Whatever conversions a public key goes through, it stays the same point.
THEOREM KeysAreKept == Spec => []KeyKept
  <1>1. IInv => KeyKept
    <2>. SUFFICES ASSUME IInv PROVE KeyKept
      OBVIOUS
    <2>1. CASE KeyInv
      <3>1. origin \in Pairs => Spki(origin) = SpkiHeader \o <<4>> \o origin
        BY KeysAre
      <3>. QED  BY <2>1, <3>1 DEF KeyInv, KeyKept, Point
    <2>2. CASE SignatureInv \/ InfoInv
      BY <2>2 DEF SignatureInv, InfoInv, KeyKept
    <2>. QED  BY <2>1, <2>2 DEF IInv
  <1>. QED  BY <1>1, FormsAreKept, PTL

\* A share URI needs no escaping, and who receives one, at first or second
\* hand, gets the info that was shared, if it was well formed, else a well-formed one of
\* the same node or none.
THEOREM InfosAreKept == Spec => []InfoKept
  <1>1. IInv => InfoKept
    <2>. SUFFICES ASSUME IInv PROVE InfoKept
      OBVIOUS
    <2>1. CASE InfoInv
      <3>1. origin \in Info
        BY <2>1, SharedIs DEF InfoInv
      <3>2. ASSUME form = "uri"
            PROVE  \A k \in DOMAIN value : value[k] \notin {Plus, Slash, Equals}
        <4>1. PICK i \in Carried : value = ToShareUri(i)
          BY <2>1, <3>2 DEF InfoInv
        <4>2. Json[i] \in Seq(Byte)
          BY <2>1, SharedIs, JsonAssumption DEF InfoInv, Byte
        <4>3. /\ value \in Seq(Nat)
              /\ \A k \in 1 .. Len(value) : value[k] \notin {Plus, Slash, Equals}
          BY <4>1, <4>2, UrlSafeIs DEF ToShareUri
        <4>. QED  BY <4>3
      <3>3. ASSUME form = "received"
            PROVE  IF WellFormed(origin) THEN value = origin
                   ELSE value = Rejected \/ (WellFormed(value) /\ value.nodeId = origin.nodeId)
        <4>1. value = NormalizeConnectionInfo(origin)
          BY <2>1, <3>3 DEF InfoInv
        <4>. QED  BY <3>1, <4>1, NormalizeIs
      <3>. QED  BY <3>2, <3>3 DEF InfoKept
    <2>2. CASE SignatureInv \/ KeyInv
      BY <2>2 DEF SignatureInv, KeyInv, InfoKept
    <2>. QED  BY <2>1, <2>2 DEF IInv
  <1>. QED  BY <1>1, FormsAreKept, PTL
=============================================================================
