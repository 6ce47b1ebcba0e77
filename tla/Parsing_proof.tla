---------------------------- MODULE Parsing_proof ----------------------------
(***************************************************************************)
(* What is parsed is what was packed: structures of every layout, property *)
(* descriptions of every type and form, and values.  What a property was   *)
(* set to by the tables is what is reported.                               *)
(***************************************************************************)
EXTENDS Encoding_proof

-----------------------------------------------------------------------------
(* What is left of the bytes behind a place.                               *)

\* It is the bytes behind that place.
LEMMA Dropped ==
  ASSUME NEW d \in Seq(Byte), NEW n \in Nat, n <= Len(d)
  PROVE  /\ Drop(d, n) \in Seq(Byte) /\ Len(Drop(d, n)) = Len(d) - n
         /\ \A i \in 1..(Len(d) - n) : Drop(d, n)[i] = d[n + i]
<1>1. Len(d) \in Nat
  OBVIOUS
<1>2. PICK r : r = SubSeq(d, n + 1, Len(d))
  OBVIOUS
<1>3. n + 1 \in Int /\ Len(d) \in Int /\ \A i \in (n + 1)..Len(d) : d[i] \in Byte
  BY <1>1
<1>4. /\ r \in Seq(Byte)
      /\ Len(r) = IF n + 1 <= Len(d) THEN Len(d) - (n + 1) + 1 ELSE 0
      /\ \A i \in 1..(Len(d) - (n + 1) + 1) : r[i] = d[n + 1 + i - 1]
  BY <1>2, <1>3, SubSeqProperties
<1>5. Len(d) - (n + 1) + 1 = Len(d) - n /\ \A i \in Int : n + 1 + i - 1 = n + i
  BY <1>1
<1>6. Len(r) = Len(d) - n
  <2>1. CASE n + 1 <= Len(d)
    BY <1>4, <1>5, <2>1
  <2>2. CASE ~(n + 1 <= Len(d))
    <3>1. Len(d) - n = 0
      BY <1>1, <2>2
    <3> QED BY <1>4, <2>2, <3>1
  <2> QED BY <2>1, <2>2
<1>7. ASSUME NEW i \in 1..(Len(d) - n) PROVE r[i] = d[n + i]
  <2>1. i \in 1..(Len(d) - (n + 1) + 1) /\ n + 1 + i - 1 = n + i
    BY <1>1
  <2> QED BY <1>4, <2>1
<1> QED BY <1>2, <1>4, <1>6, <1>7 DEF Drop

\* What lies behind it lies in what is left.
LEMMA DropLies ==
  ASSUME NEW d \in Seq(Byte), NEW n \in Nat, NEW p \in Nat, NEW e \in Seq(Byte),
         Lies(d, n + p, e)
  PROVE  Lies(Drop(d, n), p, e)
<1>1. /\ Len(d) \in Nat /\ Len(e) \in Nat /\ n + p + Len(e) <= Len(d)
      /\ \A i \in 1..Len(e) : d[n + p + i] = e[i]
  BY DEF Lies
<1>2. /\ n <= Len(d)
  BY <1>1
<1>3. /\ Len(Drop(d, n)) = Len(d) - n
      /\ \A i \in 1..(Len(d) - n) : Drop(d, n)[i] = d[n + i]
  BY <1>2, Dropped
<1>4. p + Len(e) <= Len(Drop(d, n))
  BY <1>1, <1>3
<1>5. ASSUME NEW i \in 1..Len(e) PROVE Drop(d, n)[p + i] = e[i]
  <2>1. p + i \in 1..(Len(d) - n) /\ n + (p + i) = n + p + i
    BY <1>1
  <2> QED BY <1>1, <1>3, <2>1
<1> QED BY <1>4, <1>5 DEF Lies

\* Taking away twice is taking away both.
LEMMA DropTwice ==
  ASSUME NEW d \in Seq(Byte), NEW n \in Nat, NEW m \in Nat, n + m <= Len(d)
  PROVE  Drop(Drop(d, n), m) = Drop(d, n + m)
<1>1. PICK e : e = Drop(d, n)
  OBVIOUS
<1>2. Len(d) \in Nat /\ n <= Len(d) /\ n + m \in Nat
  OBVIOUS
<1>3. /\ e \in Seq(Byte) /\ Len(e) = Len(d) - n
      /\ \A i \in 1..(Len(d) - n) : e[i] = d[n + i]
  BY <1>1, <1>2, Dropped
<1>4. m <= Len(e)
  BY <1>2, <1>3
<1>5. PICK f : f = Drop(e, m)
  OBVIOUS
<1>6. /\ f \in Seq(Byte) /\ Len(f) = Len(e) - m
      /\ \A i \in 1..(Len(e) - m) : f[i] = e[m + i]
  BY <1>3, <1>4, <1>5, Dropped
<1>7. PICK g : g = Drop(d, n + m)
  OBVIOUS
<1>8. /\ g \in Seq(Byte) /\ Len(g) = Len(d) - (n + m)
      /\ \A i \in 1..(Len(d) - (n + m)) : g[i] = d[n + m + i]
  BY <1>2, <1>7, Dropped
<1>9. Len(f) = Len(g)
  BY <1>2, <1>3, <1>6, <1>8
<1>10. ASSUME NEW i \in 1..Len(f) PROVE f[i] = g[i]
  <2>1. /\ i \in 1..(Len(e) - m) /\ m + i \in 1..(Len(d) - n)
        /\ i \in 1..(Len(d) - (n + m)) /\ n + (m + i) = n + m + i
    BY <1>2, <1>3, <1>6, <1>8
  <2> QED BY <1>3, <1>6, <1>8, <2>1
<1>11. f = g
  BY <1>6, <1>8, <1>9, <1>10, SeqEqual
<1> QED BY <1>1, <1>5, <1>7, <1>11
-----------------------------------------------------------------------------
(* Pieces one behind the other.                                            *)

\* One turn of FlattenSeq, if g says it of the turns before.
Flat(s, g, i) == IF i = 1 THEN s[i] ELSE g[i - 1] \o s[i]

\* There is a function that says it of n turns.
FlatTo(s, n) == \E g : g = [i \in 1..n |-> Flat(s, g, i)]

\* One turn after the other makes one for any number of turns.
LEMMA FlatExists ==
  ASSUME NEW s
  PROVE  \A n \in Nat : FlatTo(s, n)
<1> DEFINE none == {n \in Nat : ~FlatTo(s, n)}
<1>1. SUFFICES ASSUME none # {} PROVE FALSE
  OBVIOUS
<1>2. PICK n \in none : \A k \in none : n <= k
  <2>1. none \in SUBSET Nat
    OBVIOUS
  <2> HIDE DEF none
  <2> QED BY <1>1, <2>1, LeastNat
<1>3. n \in Nat /\ ~FlatTo(s, n)
  OBVIOUS
<1>4. CASE n = 0
  <2>1. PICK g : g = [i \in 1..0 |-> Flat(s, <<>>, i)]
    OBVIOUS
  <2>2. \A i \in 1..0 : Flat(s, <<>>, i) = Flat(s, g, i)
    OBVIOUS
  <2>3. g = [i \in 1..0 |-> Flat(s, g, i)]
    BY <2>1, <2>2, Zenon
  <2> QED BY <1>3, <1>4, <2>3, Zenon DEF FlatTo
<1>5. CASE n # 0
  <2>1. n - 1 \in Nat /\ ~(n <= n - 1)
    BY <1>3, <1>5
  <2>2. FlatTo(s, n - 1)
    <3>1. n - 1 \notin none
      <4> HIDE DEF none
      <4> QED BY <1>2, <2>1
    <3> QED BY <2>1, <3>1
  <2>3. PICK g : g = [i \in 1..(n - 1) |-> Flat(s, g, i)]
    BY <2>2, Zenon DEF FlatTo
  <2>4. PICK h : h = [i \in 1..n |-> IF i < n THEN g[i] ELSE Flat(s, g, n)]
    OBVIOUS
  <2>5. ASSUME NEW i \in 1..n PROVE h[i] = Flat(s, h, i)
    <3>1. Flat(s, g, i) = Flat(s, h, i)
      <4>1. i # 1 => i - 1 \in 1..n /\ i - 1 < n
        BY <1>3
      <4>2. i # 1 => g[i - 1] = h[i - 1]
        BY <2>4, <4>1
      <4> QED BY <4>2, Zenon DEF Flat
    <3>2. h[i] = Flat(s, g, i)
      <4>1. CASE i < n
        <5>1. i \in 1..(n - 1)
          BY <1>3, <4>1
        <5>2. g[i] = Flat(s, g, i)
          BY <2>3, <5>1, Zenon
        <5> QED BY <2>4, <4>1, <5>2
      <4>2. CASE ~(i < n)
        <5>1. i = n
          BY <1>3, <4>2
        <5> QED BY <2>4, <4>2, <5>1
      <4> QED BY <4>1, <4>2
    <3> QED BY <3>1, <3>2, Zenon
  <2>6. h = [i \in 1..n |-> h[i]]
    BY <2>4
  <2>7. h = [i \in 1..n |-> Flat(s, h, i)]
    BY <2>5, <2>6, Zenon
  <2> QED BY <1>3, <2>7, Zenon DEF FlatTo
<1> QED BY <1>4, <1>5

\* What is flattened is there after the last turn.
LEMMA FlatLast ==
  ASSUME NEW s, NEW n \in Nat, n = Len(s), n # 0
  PROVE  \E g : g = [i \in 1..n |-> Flat(s, g, i)] /\ FlattenSeq(s) = g[n]
<1> DEFINE flatten == CHOOSE g : g = [i \in 1..n |-> Flat(s, g, i)]
<1>1. \E g : g = [i \in 1..n |-> Flat(s, g, i)]
  BY FlatExists, Zenon DEF FlatTo
<1>2. flatten = [i \in 1..n |-> Flat(s, flatten, i)]
  BY <1>1, Zenon
<1>3. FlattenSeq(s) = flatten[n]
  BY Zenon DEF FlattenSeq, Flat
<1> QED BY <1>2, <1>3, Zenon

\* The pieces lie in d where at says, each behind the one before it.
LaidOut(d, s, at) ==
  /\ at \in [1..(Len(s) + 1) -> Nat] /\ at[1] = 0
  /\ \A k \in 1..Len(s) :
       at[k + 1] = at[k] + Len(s[k]) /\ Lies(d, at[k], s[k])

\* Where a piece begins, if g says what there is after each turn.
Begins(g, k) == IF k = 1 THEN 0 ELSE Len(g[k - 1])

\* After each turn the pieces so far lie one behind the other.
FlatSoFar(s, g, k) ==
  /\ g[k] \in Seq(Byte) /\ Len(g[k]) = Begins(g, k) + Len(s[k])
  /\ Begins(g, k) \in Nat
  /\ \A j \in 1..k : Lies(g[k], Begins(g, j), s[j])

\* One turn more keeps it.
LEMMA FlatTurn ==
  ASSUME NEW s \in Seq(Seq(Byte)), NEW n \in Nat, n = Len(s), NEW g,
         g = [i \in 1..n |-> Flat(s, g, i)], NEW k \in 1..n,
         k # 1 => FlatSoFar(s, g, k - 1),
         \A j \in 1..(k - 1) : Begins(g, j) \in Nat
  PROVE  FlatSoFar(s, g, k)
<1>1. s[k] \in Seq(Byte) /\ g[k] = Flat(s, g, k)
  <2>1. g[k] = Flat(s, g, k)
    BY Zenon
  <2> QED BY <2>1
<1>2. CASE k = 1
  <2>1. g[k] = s[k] /\ Begins(g, k) = 0
    BY <1>1, <1>2 DEF Flat, Begins
  <2>2. Lies(s[k], 0, s[k])
    BY <1>1 DEF Lies
  <2>3. \A j \in 1..k : j = k
    BY <1>2
  <2>4. Len(s[k]) = 0 + Len(s[k])
    BY <1>1
  <2>5. Lies(g[k], Begins(g, k), s[k])
    BY <2>1, <2>2, Zenon
  <2>6. \A j \in 1..k : Lies(g[k], Begins(g, j), s[j])
    BY <2>3, <2>5, Zenon
  <2>7. g[k] \in Seq(Byte) /\ Begins(g, k) \in Nat
        /\ Len(g[k]) = Begins(g, k) + Len(s[k])
    BY <1>1, <2>1, <2>4
  <2> QED BY <2>6, <2>7, Zenon DEF FlatSoFar
<1>3. CASE k # 1
  <2>1. PICK e : e = g[k - 1]
    OBVIOUS
  <2>2. g[k] = e \o s[k] /\ Begins(g, k) = Len(e)
    BY <1>1, <1>3, <2>1 DEF Flat, Begins
  <2>3. e \in Seq(Byte) /\ \A j \in 1..(k - 1) : Lies(e, Begins(g, j), s[j])
    BY <1>3, <2>1 DEF FlatSoFar
  <2>4. /\ g[k] \in Seq(Byte) /\ Len(g[k]) = Len(e) + Len(s[k])
        /\ Len(e) \in Nat /\ Lies(g[k], Len(e), s[k])
    BY <1>1, <2>2, <2>3, Joined
  <2>5. ASSUME NEW j \in 1..k PROVE Lies(g[k], Begins(g, j), s[j])
    <3>1. CASE j = k
      BY <2>2, <2>4, <3>1
    <3>2. CASE j # k
      <4>1. j \in 1..(k - 1) /\ j \in 1..n
        BY <3>2
      <4>2. /\ s[j] \in Seq(Byte) /\ Begins(g, j) \in Nat
            /\ Lies(e, Begins(g, j), s[j])
        BY <2>3, <4>1
      <4>3. Lies(e \o s[k], Begins(g, j), s[j])
        BY <1>1, <2>3, <4>2, Put, Zenon
      <4> QED BY <2>2, <4>3, Zenon
    <3> QED BY <3>1, <3>2
  <2> QED BY <2>2, <2>4, <2>5 DEF FlatSoFar
<1> QED BY <1>2, <1>3

\* Flattened pieces lie one behind the other, and there is nothing behind them.
LEMMA Flattened ==
  ASSUME NEW s \in Seq(Seq(Byte))
  PROVE  \E at : /\ LaidOut(FlattenSeq(s), s, at)
                 /\ FlattenSeq(s) \in Seq(Byte)
                 /\ Len(FlattenSeq(s)) = at[Len(s) + 1]
<1>1. PICK n \in Nat : n = Len(s)
  OBVIOUS
<1>2. CASE n = 0
  <2>1. s = <<>>
    BY <1>1, <1>2, EmptySeq
  <2>2. FlattenSeq(s) = <<>>
    BY <1>1, <1>2, <2>1 DEF FlattenSeq
  <2>3. PICK at : at = [k \in 1..1 |-> 0]
    OBVIOUS
  <2>4. at \in [1..1 -> Nat] /\ at[1] = 0
    BY <2>3
  <2>5. Len(s) + 1 = 1 /\ 1..Len(s) = {}
    BY <1>1, <1>2
  <2>6. LaidOut(FlattenSeq(s), s, at)
    BY <2>4, <2>5 DEF LaidOut
  <2>7. <<>> \in Seq(Byte) /\ Len(<<>>) = 0
    OBVIOUS
  <2> QED BY <2>2, <2>4, <2>5, <2>6, <2>7
<1>3. CASE n # 0
  <2>1. PICK g : g = [i \in 1..n |-> Flat(s, g, i)] /\ FlattenSeq(s) = g[n]
    BY <1>1, <1>3, FlatLast
  <2> DEFINE none == {k \in 1..n : ~FlatSoFar(s, g, k)}
  <2>2. none = {}
    <3>1. SUFFICES ASSUME none # {} PROVE FALSE
      OBVIOUS
    <3>2. PICK k \in none : \A j \in none : k <= j
      <4>1. none \in SUBSET Nat
        OBVIOUS
      <4> HIDE DEF none
      <4> QED BY <3>1, <4>1, LeastNat
    <3>3. k \in 1..n /\ ~FlatSoFar(s, g, k)
      OBVIOUS
    <3>4. ASSUME NEW j \in 1..(k - 1) PROVE FlatSoFar(s, g, j)
      <4>1. j \in 1..n /\ ~(k <= j)
        BY <3>3
      <4> QED BY <3>2, <4>1
    <3>5. k # 1 => FlatSoFar(s, g, k - 1)
      <4>1. k # 1 => k - 1 \in 1..(k - 1)
        BY <3>3
      <4> QED BY <3>4, <4>1
    <3>6. \A j \in 1..(k - 1) : Begins(g, j) \in Nat
      BY <3>4 DEF FlatSoFar
    <3> HIDE DEF none
    <3> QED BY <1>1, <2>1, <3>3, <3>5, <3>6, FlatTurn
  <2>3. \A k \in 1..n : FlatSoFar(s, g, k)
    BY <2>2
  <2> HIDE DEF none
  <2>4. PICK at : at = [k \in 1..(n + 1) |-> Begins(g, k)]
    OBVIOUS
  <2>5. ASSUME NEW k \in 1..n
        PROVE  /\ at[k] = Begins(g, k) /\ at[k] \in Nat
               /\ at[k + 1] = Len(g[k]) /\ at[k + 1] \in Nat
               /\ at[k + 1] = at[k] + Len(s[k])
    <3>1. k \in 1..(n + 1) /\ k + 1 \in 1..(n + 1) /\ k + 1 # 1 /\ k + 1 - 1 = k
      OBVIOUS
    <3>2. Begins(g, k + 1) = Len(g[k])
      BY <3>1 DEF Begins
    <3> QED BY <2>3, <2>4, <3>1, <3>2 DEF FlatSoFar
  <2>6. at[1] = 0
    BY <2>4 DEF Begins
  <2>7. n \in 1..n /\ 1 \in 1..n
    BY <1>3
  <2>8. at \in [1..(n + 1) -> Nat]
    <3>1. ASSUME NEW k \in 1..(n + 1) PROVE at[k] \in Nat
      <4>1. k \in 1..n \/ k = n + 1
        OBVIOUS
      <4> QED BY <2>5, <2>7, <4>1
    <3> QED BY <2>4, <3>1
  <2>9. ASSUME NEW k \in 1..n PROVE Lies(g[n], at[k], s[k])
    <3>1. Lies(g[n], Begins(g, k), s[k])
      BY <2>3, <2>7 DEF FlatSoFar
    <3> QED BY <2>5, <3>1
  <2>10. LaidOut(g[n], s, at)
    BY <1>1, <2>5, <2>6, <2>8, <2>9 DEF LaidOut
  <2>11. g[n] \in Seq(Byte) /\ Len(g[n]) = at[n + 1]
    BY <2>3, <2>5, <2>7 DEF FlatSoFar
  <2> QED BY <1>1, <2>1, <2>10, <2>11
<1> QED BY <1>2, <1>3

\* Pieces of one width lie at its multiples.
LEMMA Evenly ==
  ASSUME NEW s \in Seq(Seq(Byte)), NEW w \in {1, 2, 4},
         \A k \in 1..Len(s) : Len(s[k]) = w
  PROVE  /\ FlattenSeq(s) \in Seq(Byte) /\ Len(FlattenSeq(s)) = w * Len(s)
         /\ \A k \in 1..Len(s) : Lies(FlattenSeq(s), w * (k - 1), s[k])
<1>1. PICK at : /\ LaidOut(FlattenSeq(s), s, at)
                /\ FlattenSeq(s) \in Seq(Byte)
                /\ Len(FlattenSeq(s)) = at[Len(s) + 1]
  BY Flattened
<1>2. PICK n \in Nat : n = Len(s)
  OBVIOUS
<1>3. /\ at \in [1..(n + 1) -> Nat] /\ at[1] = 0
      /\ \A k \in 1..n : at[k + 1] = at[k] + w
      /\ \A k \in 1..n : Lies(FlattenSeq(s), at[k], s[k])
  BY <1>1, <1>2 DEF LaidOut
<1> DEFINE none == {k \in 1..(n + 1) : at[k] # w * (k - 1)}
<1>4. none = {}
  <2>1. SUFFICES ASSUME none # {} PROVE FALSE
    OBVIOUS
  <2>2. PICK k \in none : \A j \in none : k <= j
    <3>1. none \in SUBSET Nat
      OBVIOUS
    <3> HIDE DEF none
    <3> QED BY <2>1, <3>1, LeastNat
  <2>3. k \in 1..(n + 1) /\ at[k] # w * (k - 1)
    OBVIOUS
  <2>4. k # 1
    BY <1>3, <2>3
  <2>5. /\ k - 1 \in 1..n /\ k - 1 \in 1..(n + 1) /\ ~(k <= k - 1)
        /\ k - 1 + 1 = k
    BY <2>3, <2>4
  <2>6. at[k - 1] = w * ((k - 1) - 1)
    BY <2>2, <2>5
  <2>7. at[k] = at[k - 1] + w
    BY <1>3, <2>5
  <2> HIDE DEF none
  <2>8. w * ((k - 1) - 1) + w = w * (k - 1)
    <3>1. w = 1 \/ w = 2 \/ w = 4
      OBVIOUS
    <3> QED BY <2>3, <3>1
  <2> QED BY <2>3, <2>6, <2>7, <2>8
<1>5. \A k \in 1..(n + 1) : at[k] = w * (k - 1)
  BY <1>4
<1> HIDE DEF none
<1>6. at[n + 1] = w * n
  <2>1. n + 1 \in 1..(n + 1) /\ (n + 1) - 1 = n
    OBVIOUS
  <2> QED BY <1>5, <2>1
<1>7. ASSUME NEW k \in 1..n PROVE Lies(FlattenSeq(s), w * (k - 1), s[k])
  <2>1. k \in 1..(n + 1)
    OBVIOUS
  <2> QED BY <1>3, <1>5, <2>1
<1> QED BY <1>1, <1>2, <1>6, <1>7
-----------------------------------------------------------------------------
(* The fields of a structure.                                              *)

\* A character and a NUL are a number of two bytes.
LEMMA UnitBytes ==
  ASSUME NEW c \in Byte
  PROVE  <<c, 0>> = ToBytes(c, 2) /\ c < Limit(2) /\ c \in Nat
<1>1. c \in Nat /\ c < 256
  BY DEF Byte
<1>2. Weight[1] = 1 /\ Weight[2] = 256
  BY DEF Weight
<1>3. (c \div 1) % 256 = c /\ (c \div 256) % 256 = 0
  BY <1>1
<1>4. \A i \in 1..2 : i = 1 \/ i = 2
  OBVIOUS
<1>5. <<c, 0>> = [i \in 1..2 |-> IF i = 1 THEN c ELSE 0]
  OBVIOUS
<1>6. \A i \in 1..2 : (c \div Weight[i]) % 256 = IF i = 1 THEN c ELSE 0
  BY <1>2, <1>3, <1>4
<1>7. ToBytes(c, 2) = [i \in 1..2 |-> IF i = 1 THEN c ELSE 0]
  BY <1>6 DEF ToBytes
<1>8. c < Limit(2)
  BY <1>1 DEF Limit
<1> QED BY <1>1, <1>5, <1>7, <1>8

\* Numbers of one width, one behind the other.
LEMMA NumbersLie ==
  ASSUME NEW w \in {1, 2, 4}, NEW v \in Seq(Nat), NEW s, NEW n \in Nat,
         n = Len(v), s = [i \in 1..n |-> ToBytes(v[i], w)]
  PROVE  /\ FlattenSeq(s) \in Seq(Byte) /\ Len(FlattenSeq(s)) = w * n
         /\ \A k \in 1..n :
              Lies(FlattenSeq(s), w * (k - 1), ToBytes(v[k], w))
<1>1. \A i \in 1..n : ToBytes(v[i], w) \in Seq(Byte)
                      /\ Len(ToBytes(v[i], w)) = w
  <2>1. w \in 1..4 /\ \A i \in 1..n : v[i] \in Nat
    OBVIOUS
  <2> QED BY <2>1, BytesSeq
<1>2. s \in Seq(Seq(Byte)) /\ Len(s) = n
  BY <1>1
<1>3. \A i \in 1..n : s[i] = ToBytes(v[i], w)
  OBVIOUS
<1>4. \A k \in 1..Len(s) : Len(s[k]) = w
  BY <1>1, <1>2, <1>3
<1> QED BY <1>2, <1>3, <1>4, Evenly

\* What is put in front of some bytes and behind them.
LEMMA Between ==
  ASSUME NEW a \in Seq(Byte), NEW b \in Seq(Byte), NEW c \in Seq(Byte)
  PROVE  /\ a \o b \o c \in Seq(Byte)
         /\ Len(a \o b \o c) = Len(a) + Len(b) + Len(c)
         /\ Lies(a \o b \o c, 0, a) /\ Lies(a \o b \o c, Len(a), b)
         /\ Lies(a \o b \o c, Len(a) + Len(b), c)
<1> DEFINE d == a \o b \o c
<1>1. PICK e : e = a \o b
  OBVIOUS
<1>2. /\ e \in Seq(Byte) /\ Len(e) = Len(a) + Len(b) /\ Len(a) \in Nat
      /\ Lies(e, 0, a) /\ Lies(e, Len(a), b)
  BY <1>1, Joined
<1>3. /\ e \o c \in Seq(Byte) /\ Len(e \o c) = Len(e) + Len(c)
      /\ Lies(e \o c, Len(e), c)
      /\ \A f \in Seq(Byte), p \in Nat : Lies(e, p, f) => Lies(e \o c, p, f)
  BY <1>2, Put, Zenon
<1>4. 0 \in Nat /\ e \o c = d
  BY <1>1
<1> HIDE DEF d
<1>5. Lies(d, 0, a) /\ Lies(d, Len(a), b)
  BY <1>2, <1>3, <1>4, Zenon
<1>6. Len(d) = Len(a) + Len(b) + Len(c) /\ Lies(d, Len(a) + Len(b), c)
  BY <1>2, <1>3, <1>4
<1> QED BY <1>3, <1>4, <1>5, <1>6 DEF d

\* The bytes of a string: its length and one more, its characters and a NUL.
LEMMA StringBytes ==
  ASSUME NEW v \in Seq(32..128), NEW n \in Nat, n = Len(v), n # 0
  PROVE  /\ WriteString(v) \in Seq(Byte) /\ Len(WriteString(v)) = 3 + 2 * n
         /\ Lies(WriteString(v), 0, ToBytes(n + 1, 1))
         /\ \A i \in 1..n :
              Lies(WriteString(v), 1 + 2 * (i - 1), ToBytes(v[i], 2))
         /\ Lies(WriteString(v), 1 + 2 * n, ToBytes(0, 2))
<1>1. \A i \in 1..n : v[i] \in 32..128
  BY LenProperties
<1>2. \A i \in 1..n : v[i] \in Byte /\ v[i] \in Nat
  <2>1. \A x \in 32..128 : x \in Byte /\ x \in Nat
    BY DEF Byte
  <2> QED BY <1>1, <2>1, Zenon
<1>3. v \in Seq(Nat)
  BY <1>2
<1>4. PICK s : s = [i \in 1..n |-> ToBytes(v[i], 2)]
  OBVIOUS
<1>5. s = [i \in 1..n |-> <<v[i], 0>>]
  <2>1. \A i \in 1..n : <<v[i], 0>> = ToBytes(v[i], 2)
    BY <1>2, UnitBytes
  <2> QED BY <1>4, <2>1, Zenon
<1>6. PICK b : b = FlattenSeq(s)
  OBVIOUS
<1>7. /\ b \in Seq(Byte) /\ Len(b) = 2 * n
      /\ \A i \in 1..n : Lies(b, 2 * (i - 1), ToBytes(v[i], 2))
  <2>1. 2 \in {1, 2, 4}
    OBVIOUS
  <2> QED BY <1>3, <1>4, <1>6, <2>1, NumbersLie, Zenon
<1>8. PICK a, c : a = ToBytes(n + 1, 1) /\ c = ToBytes(0, 2)
  OBVIOUS
<1>9. a \in Seq(Byte) /\ Len(a) = 1 /\ c \in Seq(Byte) /\ Len(c) = 2
  BY <1>8, BytesSeq
<1>10. c = <<0, 0>>
  <2>1. 0 \in Byte
    BY DEF Byte
  <2> QED BY <1>8, <2>1, UnitBytes
<1>11. WriteString(v) = a \o b \o c
  <2>1. v # <<>>
    OBVIOUS
  <2> QED BY <1>5, <1>6, <1>8, <1>10, <2>1, Zenon DEF WriteString
<1>12. PICK d : d = WriteString(v)
  OBVIOUS
<1>13. /\ d \in Seq(Byte) /\ Len(d) = 1 + 2 * n + 2
       /\ Lies(d, 0, a) /\ Lies(d, 1, b) /\ Lies(d, 1 + 2 * n, c)
  <2>1. /\ d \in Seq(Byte) /\ Len(d) = Len(a) + Len(b) + Len(c)
        /\ Lies(d, 0, a) /\ Lies(d, Len(a), b)
        /\ Lies(d, Len(a) + Len(b), c)
    <3>1. /\ a \o b \o c \in Seq(Byte)
          /\ Len(a \o b \o c) = Len(a) + Len(b) + Len(c)
          /\ Lies(a \o b \o c, 0, a) /\ Lies(a \o b \o c, Len(a), b)
          /\ Lies(a \o b \o c, Len(a) + Len(b), c)
      BY <1>7, <1>9, Between
    <3> QED BY <1>11, <1>12, <3>1, Zenon
  <2> QED BY <1>7, <1>9, <2>1, Zenon
<1>14. ASSUME NEW i \in 1..n PROVE Lies(d, 1 + 2 * (i - 1), ToBytes(v[i], 2))
  <2>1. 2 * (i - 1) \in Nat /\ 1 \in Nat /\ 2 \in 1..4 /\ v[i] \in Nat
    BY <1>2
  <2>2. ToBytes(v[i], 2) \in Seq(Byte)
    BY <2>1, BytesSeq, Zenon
  <2> QED BY <1>7, <1>13, <2>1, <2>2, LiesIn, Zenon
<1>15. 1 + 2 * n + 2 = 3 + 2 * n
  OBVIOUS
<1> QED BY <1>8, <1>12, <1>13, <1>14, <1>15

\* A number of a part that lies at the start is read there.
LEMMA ReadPart ==
  ASSUME NEW d \in Seq(Byte), NEW e \in Seq(Byte), Lies(d, 0, e),
         NEW w \in {1, 2, 4}, NEW p \in Nat, NEW n \in Nat, n < Limit(w),
         Lies(e, p, ToBytes(n, w))
  PROVE  Read(d, p, w) = n
<1>1. w \in 1..4 /\ 0 \in Nat /\ 0 + p = p
  OBVIOUS
<1>2. ToBytes(n, w) \in Seq(Byte)
  BY <1>1, BytesSeq, Zenon
<1>3. Lies(d, 0 + p, ToBytes(n, w))
  BY <1>1, <1>2, LiesIn, Zenon
<1> QED BY <1>1, <1>3, ReadThere, Zenon

\* The C string in an array is what is in front of the NUL.
LEMMA Terminated ==
  ASSUME NEW v \in Seq(32..128), NEW n \in Nat, n = Len(v), NEW chars,
         chars = [i \in 1..(n + 1) |-> IF i = n + 1 THEN 0 ELSE v[i]]
  PROVE  CString(chars) = v
<1>1. \A i \in 1..n : v[i] \in 32..128
  BY LenProperties
<1>2. \A x \in 32..128 : x \in Byte /\ x # 0
  BY DEF Byte
<1>3. 0 \in Byte
  BY DEF Byte
<1>4. \A i \in 1..n : v[i] \in Byte /\ v[i] # 0
  BY <1>1, <1>2, Zenon
<1>5. /\ chars[n + 1] = 0
      /\ \A i \in 1..n : chars[i] = v[i] /\ chars[i] # 0 /\ i \in 1..(n + 1)
  <2>1. n + 1 \in 1..(n + 1) /\ \A i \in 1..n : i \in 1..(n + 1) /\ i # n + 1
    OBVIOUS
  <2> QED BY <1>4, <2>1
<1>6. chars \in Seq(Byte) /\ Len(chars) = n + 1
  <2>1. ASSUME NEW i \in 1..(n + 1) PROVE chars[i] \in Byte
    <3>1. i = n + 1 \/ i \in 1..n
      OBVIOUS
    <3> QED BY <1>3, <1>4, <1>5, <3>1
  <2>2. chars \in [1..(n + 1) -> Byte]
    BY <2>1
  <2> QED BY <2>2
<1>7. v \in Seq(Byte)
  BY <1>4
<1>8. Lies(chars, 0, v)
  BY <1>5, <1>6 DEF Lies
<1>9. SubSeq(chars, 0 + 1, 0 + Len(v)) = v
  BY <1>6, <1>7, <1>8, Taken
<1>10. SelectInSeq(chars, LAMBDA c : c = 0) = n + 1
  <2>1. Len(chars) \in Nat /\ n + 1 <= Len(chars)
    BY <1>6
  <2> QED BY <1>5, <2>1, FirstZero
<1>11. Contains(chars, 0)
  <2>1. n + 1 \in 1..Len(chars)
    BY <1>6
  <2> QED BY <1>5, <2>1 DEF Contains
<1>12. CString(chars) = SubSeq(chars, 1, (n + 1) - 1)
  BY <1>10, <1>11 DEF CString
<1>13. (n + 1) - 1 = 0 + Len(v) /\ 0 + 1 = 1
  OBVIOUS
<1> QED BY <1>9, <1>12, <1>13

\* The units of a string are read one by one.
LEMMA UnitsRead ==
  ASSUME NEW v \in Seq(32..128), NEW n \in Nat, n = Len(v), n # 0,
         n <= FieldSize - 2, NEW d \in Seq(Byte), Lies(d, 0, WriteString(v))
  PROVE  /\ d[1] = n + 1
         /\ \A i \in 1..(n + 1) :
              Char(Read(d, 2 * i - 1, 2)) = IF i = n + 1 THEN 0 ELSE v[i]
<1>1. PICK e : e = WriteString(v)
  OBVIOUS
<1>2. /\ e \in Seq(Byte) /\ Lies(d, 0, e) /\ Lies(e, 0, ToBytes(n + 1, 1))
      /\ \A i \in 1..n : Lies(e, 1 + 2 * (i - 1), ToBytes(v[i], 2))
      /\ Lies(e, 1 + 2 * n, ToBytes(0, 2))
  BY <1>1, StringBytes
<1>3. d[1] = n + 1
  <2>1. FieldSize \in 2..256
    BY EncodingAssumption
  <2>2. n + 1 < Limit(1) /\ n + 1 \in Nat
    <3>1. Limit(1) = 256
      BY DEF Limit
    <3>2. PICK m \in 2..256 : m = FieldSize /\ n <= m - 2
      BY <2>1
    <3>3. n + 1 < 256 /\ n + 1 \in Nat
      BY <3>2
    <3> QED BY <3>1, <3>3, Zenon
  <2>3. Read(d, 0, 1) = n + 1
    BY <1>2, <2>2, ReadPart
  <2>4. Read(d, 0, 1) = d[1] * 1 + 0 + 0 + 0
    <3>1. 0 + 1 = 1
      OBVIOUS
    <3> QED BY <3>1, ReadAs
  <2>5. d[1] \in Nat
    <3>1. Len(e) >= 1
      <4>1. 0 + Len(ToBytes(n + 1, 1)) <= Len(e)
        BY <1>2, Zenon DEF Lies
      <4>2. Len(ToBytes(n + 1, 1)) = 1
        BY <2>2, BytesSeq
      <4>3. Len(e) \in Nat
        BY <1>2
      <4>4. 0 + 1 <= Len(e)
        BY <4>1, <4>2, Zenon
      <4> QED BY <4>3, <4>4
    <3>2. 0 + Len(e) <= Len(d)
      BY <1>2, Zenon DEF Lies
    <3>3. Len(d) \in Nat /\ Len(e) \in Nat
      BY <1>2
    <3>4. 1 \in 1..Len(d)
      BY <3>1, <3>2, <3>3
    <3>5. d[1] \in Byte
      BY <3>4
    <3>6. \A x \in Byte : x \in Nat
      BY DEF Byte
    <3> QED BY <3>5, <3>6, Zenon
  <2> QED BY <2>3, <2>4, <2>5
<1>4. ASSUME NEW i \in 1..n PROVE Char(Read(d, 2 * i - 1, 2)) = v[i]
  <2>1. PICK c \in 32..128 : c = v[i]
    BY LenProperties
  <2>2. c \in Nat /\ c < Limit(2) /\ c \notin 1..31 /\ ~(c > 128)
    BY DEF Limit
  <2>3. 1 + 2 * (i - 1) \in Nat /\ 1 + 2 * (i - 1) = 2 * i - 1
    OBVIOUS
  <2>4. Read(d, 1 + 2 * (i - 1), 2) = c
    <3>1. PICK p \in Nat : p = 1 + 2 * (i - 1)
      BY <2>3
    <3>2. Lies(e, p, ToBytes(c, 2))
      BY <1>2, <2>1, <3>1
    <3>3. 2 \in {1, 2, 4}
      OBVIOUS
    <3>4. Read(d, p, 2) = c
      BY <1>2, <2>2, <3>2, <3>3, ReadPart, Zenon
    <3> QED BY <3>1, <3>4
  <2> QED BY <2>1, <2>2, <2>3, <2>4 DEF Char
<1>5. Char(Read(d, 2 * (n + 1) - 1, 2)) = 0
  <2>1. 1 + 2 * n \in Nat /\ 1 + 2 * n = 2 * (n + 1) - 1 /\ 0 < Limit(2)
    BY DEF Limit
  <2>2. Read(d, 1 + 2 * n, 2) = 0
    BY <1>2, <2>1, ReadPart
  <2>3. Char(0) = 0
    BY DEF Char
  <2> QED BY <2>1, <2>2, <2>3
<1>6. ASSUME NEW i \in 1..(n + 1)
      PROVE  Char(Read(d, 2 * i - 1, 2)) = IF i = n + 1 THEN 0 ELSE v[i]
  <2>1. i = n + 1 \/ (i \in 1..n /\ i # n + 1)
    OBVIOUS
  <2> QED BY <1>4, <1>5, <2>1
<1> QED BY <1>3, <1>6

\* A string that its array holds with two units to spare is read as it was
\* written, and what is behind it is left.
LEMMA StringRead ==
  ASSUME NEW v \in Seq(32..128), Len(v) <= FieldSize - 2,
         NEW d \in Seq(Byte), Lies(d, 0, WriteString(v))
  PROVE  /\ WriteString(v) \in Seq(Byte)
         /\ ReadString(d, FieldSize)
              = [value |-> v, rest |-> Drop(d, Len(WriteString(v)))]
<1>1. PICK n \in Nat : n = Len(v)
  OBVIOUS
<1>2. CASE n = 0
  <2>1. v = <<>>
    BY <1>1, <1>2, EmptySeq
  <2>2. WriteString(v) = <<0>>
    BY <2>1, Zenon DEF WriteString
  <2>3. <<0>> \in Seq(Byte) /\ Len(<<0>>) = 1
    BY DEF Byte
  <2>4. d[1] = 0
    <3>1. 1 \in 1..Len(<<0>>) /\ 0 + 1 = 1
      BY <2>3
    <3>2. d[0 + 1] = <<0>>[1]
      BY <2>2, <3>1, Zenon DEF Lies
    <3> QED BY <3>1, <3>2
  <2> QED BY <2>1, <2>2, <2>3, <2>4, Zenon DEF ReadString
<1>3. CASE n # 0
  <2>1. /\ d[1] = n + 1
        /\ \A i \in 1..(n + 1) :
             Char(Read(d, 2 * i - 1, 2)) = IF i = n + 1 THEN 0 ELSE v[i]
    BY <1>1, <1>3, UnitsRead
  <2>2. WriteString(v) \in Seq(Byte) /\ Len(WriteString(v)) = 3 + 2 * n
    BY <1>1, <1>3, StringBytes
  <2>3. PICK m : m = IF d[1] < FieldSize - 1 THEN d[1] ELSE FieldSize - 1
    OBVIOUS
  <2>4. m = n + 1
    <3>1. FieldSize \in 2..256
      BY EncodingAssumption
    <3>2. n + 1 <= FieldSize - 1 /\ FieldSize - 1 \in Int
      BY <1>1, <3>1
    <3> QED BY <2>1, <2>3, <3>1, <3>2
  <2>5. PICK chars : chars = [i \in 1..m |-> Char(Read(d, 2 * i - 1, 2))]
    OBVIOUS
  <2>6. chars = [i \in 1..(n + 1) |-> IF i = n + 1 THEN 0 ELSE v[i]]
    BY <2>1, <2>4, <2>5
  <2>7. CString(chars) = v
    BY <1>1, <2>6, Terminated
  <2>8. d[1] # 0
    BY <2>1
  <2>9. ReadString(d, FieldSize)
          = [value |-> CString(chars), rest |-> Drop(d, 1 + 2 * m)]
    BY <2>3, <2>5, <2>8, Zenon DEF ReadString
  <2>10. 1 + 2 * m = 3 + 2 * n
    BY <2>4
  <2> QED BY <2>2, <2>7, <2>9, <2>10
<1> QED BY <1>2, <1>3

\* In e there are a count n and numbers v of a width behind it, which are read
\* as they are wherever e is at the start.
Counted(e, n, v, w) ==
  /\ e \in Seq(Byte) /\ Len(e) = 4 + w * n
  /\ \A d \in Seq(Byte) : Lies(d, 0, e) =>
       /\ Read(d, 0, 4) = n
       /\ \A i \in 1..n : Read(d, 4 + w * (i - 1), w) = v[i]

\* Each part lies where w says.
Spaced(b, n, v, w) ==
  /\ b \in Seq(Byte) /\ Len(b) = w * n
  /\ \A i \in 1..n : Lies(b, w * (i - 1), ToBytes(v[i], w))

\* Numbers behind their count are.
LEMMA CountedRead ==
  ASSUME NEW w \in {2, 4}, NEW v \in Seq(Nat), NEW n \in Nat, n = Len(v),
         n < Limit(4), \A i \in 1..n : v[i] < Limit(w),
         NEW b, Spaced(b, n, v, w)
  PROVE  Counted(ToBytes(n, 4) \o b, n, v, w)
<1>0. /\ b \in Seq(Byte) /\ Len(b) = w * n
      /\ \A i \in 1..n : Lies(b, w * (i - 1), ToBytes(v[i], w))
  BY DEF Spaced
<1>1. PICK a : a = ToBytes(n, 4)
  OBVIOUS
<1>2. a \in Seq(Byte) /\ Len(a) = 4
  BY <1>1, BytesSeq
<1>3. PICK e : e = a \o b
  OBVIOUS
<1>4. /\ e \in Seq(Byte) /\ Len(e) = Len(a) + Len(b)
      /\ Lies(e, 0, a) /\ Lies(e, Len(a), b)
  BY <1>0, <1>2, <1>3, Joined
<1>5. Lies(e, 4, b)
  BY <1>2, <1>4
<1>6. ASSUME NEW d \in Seq(Byte), Lies(d, 0, e)
      PROVE  /\ Read(d, 0, 4) = n
             /\ \A i \in 1..n : Read(d, 4 + w * (i - 1), w) = v[i]
  <2>1. Read(d, 0, 4) = n
    <3>1. 4 \in {1, 2, 4} /\ 0 \in Nat
      OBVIOUS
    <3> QED BY <1>1, <1>4, <1>6, <3>1, ReadPart, Zenon
  <2>2. ASSUME NEW i \in 1..n PROVE Read(d, 4 + w * (i - 1), w) = v[i]
    <3>1. v[i] \in Nat /\ v[i] < Limit(w) /\ w \in {1, 2, 4} /\ w \in 1..4
      OBVIOUS
    <3>2. PICK p \in Nat : p = w * (i - 1)
      <4>1. w = 2 \/ w = 4
        OBVIOUS
      <4> QED BY <4>1
    <3>3. ToBytes(v[i], w) \in Seq(Byte) /\ Lies(b, p, ToBytes(v[i], w))
      BY <1>0, <3>1, <3>2, BytesSeq
    <3>4. 4 \in Nat /\ 4 + p \in Nat
      BY <3>2
    <3>5. Lies(e, 4 + p, ToBytes(v[i], w))
      BY <1>0, <1>4, <1>5, <3>2, <3>3, <3>4, LiesIn, Zenon
    <3>6. Read(d, 4 + p, w) = v[i]
      <4>1. PICK q \in Nat : q = 4 + p
        BY <3>4
      <4>2. PICK m \in Nat : m = v[i]
        BY <3>1
      <4>3. Lies(e, q, ToBytes(m, w)) /\ m < Limit(w)
        BY <3>1, <3>5, <4>1, <4>2, Zenon
      <4>4. Read(d, q, w) = m
        BY <1>4, <1>6, <3>1, <4>3, ReadPart, Zenon
      <4> QED BY <4>1, <4>2, <4>4, Zenon
    <3> QED BY <3>2, <3>6
  <2> QED BY <2>1, <2>2
<1>7. Len(e) = 4 + w * n
  BY <1>0, <1>2, <1>4
<1> QED BY <1>1, <1>3, <1>4, <1>6, <1>7, Zenon DEF Counted

\* An array that its place holds is read as it was written.
LEMMA ArrayRead ==
  ASSUME NEW v \in Seq(U16), Len(v) < Limit(4)
  PROVE  /\ WriteField("array", v) \in Seq(Byte)
         /\ Len(v) <= ArrayMax => \A d \in Seq(Byte) :
              Lies(d, 0, WriteField("array", v)) =>
                ReadArray(d, ArrayMax)
                  = [value |-> v, rest |-> Drop(d, Len(WriteField("array", v)))]
<1>1. PICK n \in Nat : n = Len(v)
  OBVIOUS
<1>2. \A i \in 1..n : v[i] \in U16
  BY <1>1
<1>3. \A i \in 1..n : v[i] \in Nat /\ v[i] < Limit(2)
  BY <1>2, Widths
<1>4. v \in Seq(Nat)
  BY <1>1, <1>3
<1>5. PICK s : s = [i \in 1..n |-> ToBytes(v[i], 2)]
  OBVIOUS
<1>6. PICK b : b = FlattenSeq(s)
  OBVIOUS
<1>7. /\ b \in Seq(Byte) /\ Len(b) = 2 * n
      /\ \A i \in 1..n : Lies(b, 2 * (i - 1), ToBytes(v[i], 2))
  <2>1. 2 \in {1, 2, 4}
    OBVIOUS
  <2> QED BY <1>1, <1>4, <1>5, <1>6, <2>1, NumbersLie, Zenon
<1>8. PICK e : e = ToBytes(n, 4) \o b
  OBVIOUS
<1>9. /\ e \in Seq(Byte) /\ Len(e) = 4 + 2 * n
      /\ \A d \in Seq(Byte) : Lies(d, 0, e) =>
           /\ Read(d, 0, 4) = n
           /\ \A i \in 1..n : Read(d, 4 + 2 * (i - 1), 2) = v[i]
  <2>1. n < Limit(4) /\ 2 \in {2, 4}
    BY <1>1
  <2>2. \A i \in 1..n : v[i] < Limit(2)
    BY <1>3
  <2>3. Spaced(b, n, v, 2)
    BY <1>7, Zenon DEF Spaced
  <2>4. Counted(e, n, v, 2)
    BY <1>1, <1>4, <1>8, <2>1, <2>2, <2>3, CountedRead, Zenon
  <2> QED BY <2>4, Zenon DEF Counted
<1>10. WriteField("array", v) = e
  <2>1. "array" # "string"
    OBVIOUS
  <2> QED BY <1>1, <1>5, <1>6, <1>8, <2>1, Zenon DEF WriteField
<1>11. ASSUME Len(v) <= ArrayMax, NEW d \in Seq(Byte), Lies(d, 0, e)
       PROVE  ReadArray(d, ArrayMax) = [value |-> v, rest |-> Drop(d, Len(e))]
  <2>1. Read(d, 0, 4) = n /\ ~(n > ArrayMax)
    <3>1. ArrayMax \in Nat
      BY EncodingAssumption
    <3>2. ~(n > ArrayMax)
      BY <1>1, <1>11, <3>1
    <3> QED BY <1>9, <1>11, <3>2
  <2>2. \A i \in 1..n : Read(d, 2 + 2 * i, 2) = v[i]
    <3>1. \A i \in 1..n : 4 + 2 * (i - 1) = 2 + 2 * i
      OBVIOUS
    <3> QED BY <1>9, <1>11, <3>1
  <2>3. [i \in 1..n |-> Read(d, 2 + 2 * i, 2)] = v
    <3>1. v = [i \in 1..n |-> v[i]]
      BY <1>1
    <3> QED BY <2>2, <3>1, Zenon
  <2>4. Drop(d, 4 + 2 * n) = Drop(d, Len(e))
    BY <1>9
  <2> QED BY <2>1, <2>3, <2>4, Zenon DEF ReadArray
<1> QED BY <1>9, <1>10, <1>11, Zenon

\* A list that is allocated is read as it was written.
LEMMA Array32Read ==
  ASSUME NEW v \in Seq(U32), Len(v) < Limit(4)
  PROVE  /\ WriteField("array32", v) \in Seq(Byte)
         /\ \A d \in Seq(Byte) :
              Lies(d, 0, WriteField("array32", v)) =>
                ReadArray32(d)
                  = [value |-> v,
                     rest |-> Drop(d, Len(WriteField("array32", v)))]
<1>1. PICK n \in Nat : n = Len(v)
  OBVIOUS
<1>2. \A i \in 1..n : v[i] \in U32
  BY <1>1
<1>3. \A i \in 1..n : v[i] \in Nat /\ v[i] < Limit(4)
  BY <1>2, Widths
<1>4. v \in Seq(Nat)
  BY <1>1, <1>3
<1>5. PICK b : b = Bytes(v)
  OBVIOUS
<1>6. /\ b \in Seq(Byte) /\ Len(b) = 4 * n
      /\ \A i \in 1..n : Lies(b, 4 * (i - 1), ToBytes(v[i], 4))
  BY <1>1, <1>5, Parameters
<1>7. PICK e : e = ToBytes(n, 4) \o b
  OBVIOUS
<1>8. /\ e \in Seq(Byte) /\ Len(e) = 4 + 4 * n
      /\ \A d \in Seq(Byte) : Lies(d, 0, e) =>
           /\ Read(d, 0, 4) = n
           /\ \A i \in 1..n : Read(d, 4 + 4 * (i - 1), 4) = v[i]
  <2>1. n < Limit(4) /\ 4 \in {2, 4}
    BY <1>1
  <2>2. \A i \in 1..n : v[i] < Limit(4)
    BY <1>3
  <2>3. Spaced(b, n, v, 4)
    BY <1>6, Zenon DEF Spaced
  <2>4. Counted(e, n, v, 4)
    BY <1>1, <1>4, <1>7, <2>1, <2>2, <2>3, CountedRead, Zenon
  <2> QED BY <2>4, Zenon DEF Counted
<1>9. WriteField("array32", v) = e
  <2>1. "array32" # "string" /\ "array32" # "array"
    OBVIOUS
  <2> QED BY <1>1, <1>5, <1>7, <2>1, Zenon DEF WriteField
<1>10. ASSUME NEW d \in Seq(Byte), Lies(d, 0, e)
       PROVE  ReadArray32(d) = [value |-> v, rest |-> Drop(d, Len(e))]
  <2>1. Read(d, 0, 4) = n
    BY <1>8, <1>10
  <2>2. \A i \in 1..n : Read(d, 4 * i, 4) = v[i]
    <3>1. \A i \in 1..n : 4 + 4 * (i - 1) = 4 * i
      OBVIOUS
    <3> QED BY <1>8, <1>10, <3>1
  <2>3. [i \in 1..n |-> Read(d, 4 * i, 4)] = v
    <3>1. v = [i \in 1..n |-> v[i]]
      BY <1>1
    <3> QED BY <2>2, <3>1, Zenon
  <2>4. Drop(d, 4 + 4 * n) = Drop(d, Len(e))
    BY <1>8
  <2> QED BY <2>1, <2>3, <2>4, Zenon DEF ReadArray32
<1> QED BY <1>8, <1>9, <1>10, Zenon

\* A number.
LEMMA NumberFieldRead ==
  ASSUME NEW field \in {"u8", "u16", "u32"}, NEW v \in FieldValues[field]
  PROVE  /\ WriteField(field, v) \in Seq(Byte)
         /\ \A d \in Seq(Byte) : Lies(d, 0, WriteField(field, v)) =>
              ReadField(field, d)
                = [value |-> v, rest |-> Drop(d, Len(WriteField(field, v)))]
<1>1. PICK w : w = Width[field]
  OBVIOUS
<1>2. w \in {1, 2, 4} /\ v \in Nat /\ v < Limit(w)
  <2>1. /\ field = "u8" => v \in Byte /\ w = 1
        /\ field = "u16" => v \in U16 /\ w = 2
        /\ field = "u32" => v \in U32 /\ w = 4
    BY <1>1 DEF FieldValues, Width
  <2>2. field = "u8" => w = 1 /\ v \in Nat /\ v < Limit(1)
    BY <2>1 DEF Byte, Limit
  <2> QED BY <2>1, <2>2, Widths
<1>3. w \in 1..4
  BY <1>2
<1>4. field # "string" /\ field # "array" /\ field # "array32"
  OBVIOUS
<1>5. PICK e : e = ToBytes(v, w)
  OBVIOUS
<1>6. WriteField(field, v) = e
  BY <1>1, <1>4, <1>5, Zenon DEF WriteField
<1>7. e \in Seq(Byte) /\ Len(e) = w
  BY <1>2, <1>3, <1>5, BytesSeq
<1>8. ASSUME NEW d \in Seq(Byte), Lies(d, 0, e)
      PROVE  ReadField(field, d) = [value |-> v, rest |-> Drop(d, w)]
  <2>1. Read(d, 0, w) = v
    BY <1>2, <1>5, <1>8, ReadThere
  <2> QED BY <1>1, <1>4, <2>1, Zenon DEF ReadField
<1> QED BY <1>6, <1>7, <1>8, Zenon

\* What was written fits its field.
Holds(field, v) ==
  /\ field = "string" => Len(v) <= FieldSize - 2
  /\ field = "array" => Len(v) <= ArrayMax
  /\ field \in {"array", "array32"} => Len(v) < Limit(4)

\* A field that holds what was written is read as it was written, and what is
\* behind it is left.
LEMMA FieldRead ==
  ASSUME NEW field \in DOMAIN FieldValues, NEW v \in FieldValues[field],
         Holds(field, v)
  PROVE  /\ WriteField(field, v) \in Seq(Byte)
         /\ \A d \in Seq(Byte) : Lies(d, 0, WriteField(field, v)) =>
              ReadField(field, d)
                = [value |-> v, rest |-> Drop(d, Len(WriteField(field, v)))]
<1>1. field \in {"u8", "u16", "u32"} \/ field \in {"string", "array", "array32"}
  BY DEF FieldValues
<1>2. CASE field \in {"u8", "u16", "u32"}
  BY <1>2, NumberFieldRead
<1>3. CASE field = "string"
  <2>1. v \in Seq(32..128) /\ Len(v) <= FieldSize - 2
    BY <1>3 DEF FieldValues, Holds
  <2>3. WriteField(field, v) = WriteString(v)
    BY <1>3, Zenon DEF WriteField
  <2>4. \A d : ReadField(field, d) = ReadString(d, FieldSize)
    BY <1>3, Zenon DEF ReadField
  <2>5. WriteString(v) \in Seq(Byte)
    <3>1. CASE Len(v) = 0
      <4>1. v = <<>>
        BY <2>1, <3>1, EmptySeq
      <4>2. WriteString(v) = <<0>>
        BY <4>1, Zenon DEF WriteString
      <4> QED BY <4>2 DEF Byte
    <3>2. CASE Len(v) # 0
      <4>1. Len(v) \in Nat
        BY <2>1
      <4> QED BY <2>1, <3>2, <4>1, StringBytes
    <3> QED BY <3>1, <3>2
  <2>6. \A d \in Seq(Byte) : Lies(d, 0, WriteString(v)) =>
          ReadString(d, FieldSize)
            = [value |-> v, rest |-> Drop(d, Len(WriteString(v)))]
    BY <2>1, StringRead
  <2> QED BY <2>3, <2>4, <2>5, <2>6, Zenon
<1>4. CASE field = "array"
  <2>1. v \in Seq(U16) /\ Len(v) <= ArrayMax /\ Len(v) < Limit(4)
    BY <1>4 DEF FieldValues, Holds
  <2>2. \A d : ReadField("array", d) = ReadArray(d, ArrayMax)
    <3>1. "array" # "string"
      OBVIOUS
    <3> QED BY <3>1, Zenon DEF ReadField
  <2> QED BY <1>4, <2>1, <2>2, ArrayRead, Zenon
<1>5. CASE field = "array32"
  <2>1. v \in Seq(U32) /\ Len(v) < Limit(4)
    BY <1>5 DEF FieldValues, Holds
  <2>2. \A d : ReadField("array32", d) = ReadArray32(d)
    <3>1. "array32" # "string" /\ "array32" # "array"
      OBVIOUS
    <3> QED BY <3>1, Zenon DEF ReadField
  <2> QED BY <1>5, <2>1, <2>2, Array32Read, Zenon
<1> QED BY <1>1, <1>2, <1>3, <1>4, <1>5
\* What is written for a field is bytes, and those of an array or a list are
\* more than it has numbers.
LEMMA FieldBytes ==
  ASSUME NEW field \in DOMAIN FieldValues, NEW v \in FieldValues[field]
  PROVE  /\ WriteField(field, v) \in Seq(Byte)
         /\ field \in {"array", "array32"} =>
              Len(v) \in Nat /\ Len(v) <= Len(WriteField(field, v))
<1>1. field \in {"u8", "u16", "u32"} \/ field \in {"string", "array", "array32"}
  BY DEF FieldValues
<1>2. CASE field \in {"u8", "u16", "u32"}
  <2>1. field \notin {"array", "array32"}
    BY <1>2
  <2>2. WriteField(field, v) \in Seq(Byte)
    BY <1>2, NumberFieldRead
  <2> QED BY <2>1, <2>2
<1>3. CASE field = "string"
  <2>1. v \in Seq(32..128)
    BY <1>3 DEF FieldValues
  <2>2. WriteField(field, v) = WriteString(v)
    BY <1>3, Zenon DEF WriteField
  <2>3. CASE Len(v) = 0
    <3>1. v = <<>>
      BY <2>1, <2>3, EmptySeq
    <3>2. WriteString(v) = <<0>>
      BY <3>1, Zenon DEF WriteString
    <3>3. <<0>> \in Seq(Byte) /\ field \notin {"array", "array32"}
      BY <1>3 DEF Byte
    <3> QED BY <2>2, <3>2, <3>3, Zenon
  <2>4. CASE Len(v) # 0
    <3>1. Len(v) \in Nat
      BY <2>1
    <3>2. WriteString(v) \in Seq(Byte)
      BY <2>1, <2>4, <3>1, StringBytes
    <3> QED BY <1>3, <2>2, <3>2
  <2> QED BY <2>3, <2>4
<1>4. CASE field = "array"
  <2>1. v \in Seq(U16)
    BY <1>4 DEF FieldValues
  <2>2. PICK n \in Nat : n = Len(v)
    BY <2>1
  <2>3. v \in Seq(Nat)
    BY <2>1 DEF U16
  <2>4. PICK s : s = [i \in 1..n |-> ToBytes(v[i], 2)]
    OBVIOUS
  <2>5. FlattenSeq(s) \in Seq(Byte) /\ Len(FlattenSeq(s)) = 2 * n
    <3>1. 2 \in {1, 2, 4}
      OBVIOUS
    <3> QED BY <2>2, <2>3, <2>4, <3>1, NumbersLie, Zenon
  <2>6. ToBytes(n, 4) \in Seq(Byte) /\ Len(ToBytes(n, 4)) = 4
    BY BytesSeq
  <2>7. PICK e : e = ToBytes(n, 4) \o FlattenSeq(s)
    OBVIOUS
  <2>8. e \in Seq(Byte) /\ Len(e) = 4 + 2 * n
    BY <2>5, <2>6, <2>7, Joined
  <2>9. WriteField(field, v) = e
    BY <1>4, <2>2, <2>4, <2>7, Zenon DEF WriteField
  <2> QED BY <2>2, <2>8, <2>9
<1>5. CASE field = "array32"
  <2>1. v \in Seq(U32)
    BY <1>5 DEF FieldValues
  <2>2. PICK n \in Nat : n = Len(v)
    BY <2>1
  <2>3. Bytes(v) \in Seq(Byte) /\ Len(Bytes(v)) = 4 * n
    BY <2>1, <2>2, Parameters
  <2>4. ToBytes(n, 4) \in Seq(Byte) /\ Len(ToBytes(n, 4)) = 4
    BY BytesSeq
  <2>5. PICK e : e = ToBytes(n, 4) \o Bytes(v)
    OBVIOUS
  <2>6. e \in Seq(Byte) /\ Len(e) = 4 + 4 * n
    BY <2>3, <2>4, <2>5, Joined
  <2>7. WriteField(field, v) = e
    BY <1>5, <2>2, <2>5, Zenon DEF WriteField
  <2> QED BY <2>2, <2>6, <2>7
<1> QED BY <1>1, <1>2, <1>3, <1>4, <1>5
-----------------------------------------------------------------------------
(* A structure.                                                            *)

\* What is there behind field k, if g says it of the fields before.
ParseTurn(layout, d, g, k) ==
  IF k = 0 THEN [value |-> <<>>, rest |-> d]
  ELSE ParseField(layout[k], g[k - 1])

\* What parses each field behind the one before it is what is parsed.
LEMMA ParseIs ==
  ASSUME NEW layout, NEW n \in Nat, n = Len(layout), NEW d,
         NEW g, g = [k \in 0..n |-> ParseTurn(layout, d, g, k)]
  PROVE  Parse(layout, d) = g[n].value
<1> DEFINE done == CHOOSE h : h = [k \in 0..n |-> ParseTurn(layout, d, h, k)]
<1>1. done = [k \in 0..n |-> ParseTurn(layout, d, done, k)]
  BY Zenon
<1>2. Parse(layout, d) = done[n].value
  BY Zenon DEF Parse, ParseTurn
<1> HIDE DEF done
<1> DEFINE none == {k \in 0..n : done[k] # g[k]}
<1>3. none = {}
  <2>1. SUFFICES ASSUME none # {} PROVE FALSE
    OBVIOUS
  <2>2. PICK k \in none : \A j \in none : k <= j
    <3>1. none \in SUBSET Nat
      OBVIOUS
    <3> HIDE DEF none
    <3> QED BY <2>1, <3>1, LeastNat
  <2>3. k \in 0..n /\ done[k] # g[k]
    OBVIOUS
  <2>4. k # 0 => done[k - 1] = g[k - 1]
    <3>1. k # 0 => k - 1 \in 0..n /\ ~(k <= k - 1)
      BY <2>3
    <3> QED BY <2>2, <3>1
  <2>5. ParseTurn(layout, d, done, k) = ParseTurn(layout, d, g, k)
    BY <2>4, Zenon DEF ParseTurn
  <2>6. /\ done[k] = ParseTurn(layout, d, done, k)
        /\ g[k] = ParseTurn(layout, d, g, k)
    BY <1>1, <2>3, Zenon
  <2> HIDE DEF none
  <2> QED BY <2>3, <2>5, <2>6, Zenon
<1>4. n \in 0..n
  OBVIOUS
<1>5. done[n] = g[n]
  BY <1>3, <1>4
<1> QED BY <1>2, <1>5, Zenon

\* With the next value the first ones are one more.
LEMMA OneMore ==
  ASSUME NEW v, NEW j \in Nat, NEW k \in Nat, j + 1 = k
  PROVE  Append([i \in 1..j |-> v[i]], v[k]) = [i \in 1..k |-> v[i]]
<1>1. PICK a : a = [i \in 1..j |-> v[i]]
  OBVIOUS
<1>2. PICK b : b = [i \in 1..k |-> v[i]]
  OBVIOUS
<1>3. Append(a, v[k]) = [i \in 1..(j + 1) |-> IF i = j + 1 THEN v[k] ELSE a[i]]
  BY <1>1
<1>4. \A i \in 1..k : b[i] = IF i = k THEN v[k] ELSE a[i]
  <2>1. \A i \in 1..k : i # k => i \in 1..j
    OBVIOUS
  <2> QED BY <1>1, <1>2, <2>1
<1>5. b = [i \in 1..k |-> IF i = k THEN v[k] ELSE a[i]]
  BY <1>2, <1>4
<1> QED BY <1>1, <1>2, <1>3, <1>5

\* A structure whose fields hold what was written is parsed to that.
LEMMA StructureRead ==
  ASSUME NEW s, Structure(s), NEW d \in Seq(Byte),
         Lies(d, 0, Pack(s[1], s[2])),
         \A i \in DOMAIN s[1] : s[1][i] = "string" => Len(s[2][i]) <= FieldSize - 2,
         \A i \in DOMAIN s[1] : s[1][i] = "array" => Len(s[2][i]) <= ArrayMax
  PROVE  Parse(s[1], d) = s[2]
<1>1. PICK layout, values : layout = s[1] /\ values = s[2]
  OBVIOUS
<1>2. PICK n \in Nat : n = Len(layout)
  BY <1>1 DEF Structure
<1>3. /\ layout \in Seq(DOMAIN FieldValues) /\ DOMAIN layout = 1..n
      /\ values = [i \in 1..n |-> values[i]]
      /\ \A i \in 1..n : layout[i] \in DOMAIN FieldValues
                         /\ values[i] \in FieldValues[layout[i]]
  <2>1. /\ layout \in Seq(DOMAIN FieldValues)
        /\ values = [i \in DOMAIN layout |-> values[i]]
        /\ \A i \in DOMAIN layout : values[i] \in FieldValues[layout[i]]
    BY <1>1 DEF Structure
  <2>2. DOMAIN layout = 1..n
    BY <1>2, <2>1
  <2> QED BY <2>1, <2>2
<1>4. PICK pieces : pieces = [i \in 1..n |-> WriteField(layout[i], values[i])]
  OBVIOUS
<1>5. \A i \in 1..n : pieces[i] = WriteField(layout[i], values[i])
                      /\ pieces[i] \in Seq(Byte)
  BY <1>3, <1>4, FieldBytes
<1>6. pieces \in Seq(Seq(Byte)) /\ Len(pieces) = n
  BY <1>2, <1>4, <1>5, SMTT(30)
<1>7. PICK e : e = FlattenSeq(pieces)
  OBVIOUS
<1>8. e = Pack(layout, values)
  BY <1>2, <1>4, <1>7, Zenon DEF Pack
<1>9. PICK at : LaidOut(e, pieces, at)
  BY <1>6, <1>7, Flattened
<1>10. /\ at \in [1..(n + 1) -> Nat] /\ at[1] = 0
       /\ \A k \in 1..n : at[k + 1] = at[k] + Len(pieces[k])
                          /\ Lies(e, at[k], pieces[k])
  BY <1>6, <1>9 DEF LaidOut
<1>11. e \in Seq(Byte) /\ Len(e) + 32 \in U32 /\ Lies(d, 0, e)
  BY <1>1, <1>8 DEF Structure, Payload
<1>12. \A k \in 1..n : /\ at[k] \in Nat /\ at[k + 1] \in Nat
                       /\ at[k + 1] = at[k] + Len(pieces[k])
                       /\ Len(pieces[k]) \in Nat
                       /\ at[k] + Len(pieces[k]) <= Len(d)
                       /\ Len(pieces[k]) <= Len(e) /\ Lies(d, at[k], pieces[k])
  <2> SUFFICES ASSUME NEW k \in 1..n
               PROVE  /\ at[k] \in Nat /\ at[k + 1] \in Nat
                      /\ at[k + 1] = at[k] + Len(pieces[k])
                      /\ Len(pieces[k]) \in Nat
                      /\ at[k] + Len(pieces[k]) <= Len(d)
                      /\ Len(pieces[k]) <= Len(e) /\ Lies(d, at[k], pieces[k])
    OBVIOUS
  <2>1. k \in 1..(n + 1) /\ k + 1 \in 1..(n + 1)
    OBVIOUS
  <2>2. at[k] \in Nat /\ at[k + 1] \in Nat
    BY <1>10, <2>1
  <2>3. at[k + 1] = at[k] + Len(pieces[k]) /\ Lies(e, at[k], pieces[k])
    BY <1>10
  <2>4. pieces[k] \in Seq(Byte)
    BY <1>5
  <2>5. Len(pieces[k]) \in Nat /\ Len(e) \in Nat /\ Len(d) \in Nat
    BY <1>11, <2>4
  <2>6. at[k] + Len(pieces[k]) <= Len(e) /\ 0 + Len(e) <= Len(d)
    BY <1>11, <2>3, Zenon DEF Lies
  <2>7. 0 \in Nat /\ 0 + at[k] = at[k]
    BY <2>2
  <2>8. Lies(d, 0 + at[k], pieces[k])
    BY <1>11, <2>2, <2>3, <2>4, <2>7, LiesIn, Zenon
  <2> QED BY <2>2, <2>3, <2>5, <2>6, <2>7, <2>8
<1>13. ASSUME NEW k \in 1..n PROVE Holds(layout[k], values[k])
  <2>1. layout[k] = "string" => Len(values[k]) <= FieldSize - 2
    BY <1>1, <1>3
  <2>2. layout[k] = "array" => Len(values[k]) <= ArrayMax
    BY <1>1, <1>3
  <2>3. layout[k] \in {"array", "array32"} => Len(values[k]) < Limit(4)
    <3> SUFFICES ASSUME layout[k] \in {"array", "array32"}
                 PROVE  Len(values[k]) < Limit(4)
      OBVIOUS
    <3>1. PICK l : l = Len(values[k])
      OBVIOUS
    <3>2. l \in Nat /\ l <= Len(pieces[k])
      BY <1>3, <1>5, <3>1, FieldBytes
    <3>3. l <= Len(e) + 32
      BY <1>11, <1>12, <3>2
    <3> QED BY <1>11, <3>1, <3>2, <3>3, Fits, Widths
  <2> QED BY <2>1, <2>2, <2>3 DEF Holds
<1> DEFINE so(k) == [value |-> [i \in 1..k |-> values[i]],
                     rest |-> Drop(d, at[k + 1])]
<1>14. PICK g : g = [k \in 0..n |-> so(k)]
  OBVIOUS
<1>15. so(0) = [value |-> <<>>, rest |-> d]
  <2>1. [i \in 1..0 |-> values[i]] = <<>>
    OBVIOUS
  <2>2. Drop(d, 0) = d
    <3>1. Len(d) \in Nat /\ 0 \in Nat
      OBVIOUS
    <3>2. PICK r : r = Drop(d, 0)
      OBVIOUS
    <3>3. r \in Seq(Byte) /\ Len(r) = Len(d) - 0
          /\ \A i \in 1..(Len(d) - 0) : r[i] = d[0 + i]
      BY <3>1, <3>2, Dropped
    <3>4. Len(r) = Len(d) /\ \A i \in 1..Len(r) : r[i] = d[i]
      BY <3>1, <3>3
    <3> QED BY <3>2, <3>3, <3>4, SeqEqual
  <2>3. at[0 + 1] = 0
    BY <1>10
  <2> QED BY <2>1, <2>2, <2>3, Zenon
<1>16. ASSUME NEW k \in 1..n PROVE so(k) = ParseField(layout[k], so(k - 1))
  <2>1. PICK j : j = k - 1
    OBVIOUS
  <2>2. j + 1 = k /\ j \in Nat /\ k \in Nat
    BY <2>1
  <2>3. PICK r : r = Drop(d, at[k])
    OBVIOUS
  <2>4. r \in Seq(Byte) /\ Lies(r, 0, pieces[k])
        /\ Drop(r, Len(pieces[k])) = Drop(d, at[k + 1])
    <3>1. /\ at[k] \in Nat /\ at[k + 1] = at[k] + Len(pieces[k])
          /\ Len(pieces[k]) \in Nat /\ Len(d) \in Nat
          /\ at[k] + Len(pieces[k]) <= Len(d) /\ Lies(d, at[k], pieces[k])
          /\ pieces[k] \in Seq(Byte)
      BY <1>5, <1>12
    <3>2. at[k] <= Len(d) /\ at[k] + 0 = at[k] /\ 0 \in Nat
      BY <3>1
    <3>3. r \in Seq(Byte)
      BY <2>3, <3>1, <3>2, Dropped
    <3>4. Lies(r, 0, pieces[k])
      BY <2>3, <3>1, <3>2, DropLies, Zenon
    <3>5. Drop(r, Len(pieces[k])) = Drop(d, at[k + 1])
      <4>1. PICK p \in Nat, l \in Nat : p = at[k] /\ l = Len(pieces[k])
        BY <3>1
      <4>2. p + l <= Len(d)
        BY <3>1, <4>1
      <4>3. Drop(Drop(d, p), l) = Drop(d, p + l)
        BY <4>2, DropTwice
      <4> QED BY <2>3, <3>1, <4>1, <4>3, Zenon
    <3> QED BY <3>3, <3>4, <3>5
  <2>5. ReadField(layout[k], r)
          = [value |-> values[k], rest |-> Drop(d, at[k + 1])]
    <3>1. PICK f, v : f = layout[k] /\ v = values[k]
      OBVIOUS
    <3>2. f \in DOMAIN FieldValues /\ v \in FieldValues[f] /\ Holds(f, v)
      BY <1>3, <1>13, <3>1, Zenon
    <3>3. pieces[k] = WriteField(f, v)
      BY <1>5, <3>1, Zenon
    <3>4. Lies(r, 0, WriteField(f, v))
      BY <2>4, <3>3, Zenon
    <3>5. ReadField(f, r)
            = [value |-> v, rest |-> Drop(r, Len(WriteField(f, v)))]
      BY <2>4, <3>2, <3>4, FieldRead
    <3> QED BY <2>4, <3>1, <3>3, <3>5, Zenon
  <2>6. Append([i \in 1..j |-> values[i]], values[k])
          = [i \in 1..k |-> values[i]]
    BY <2>2, OneMore
  <2>7. so(j).rest = r /\ so(j).value = [i \in 1..j |-> values[i]]
    BY <2>2, <2>3
  <2>8. ParseField(layout[k], so(j))
          = [value |-> Append(so(j).value, ReadField(layout[k], r).value),
             rest |-> ReadField(layout[k], r).rest]
    BY <2>7, Zenon DEF ParseField
  <2> HIDE DEF so
  <2>9. ParseField(layout[k], so(j))
          = [value |-> [i \in 1..k |-> values[i]], rest |-> Drop(d, at[k + 1])]
    <3>1. ReadField(layout[k], r).value = values[k]
          /\ ReadField(layout[k], r).rest = Drop(d, at[k + 1])
      BY <2>5
    <3> QED BY <2>6, <2>7, <2>8, <3>1, Zenon
  <2> QED BY <2>1, <2>9, Zenon DEF so
<1> HIDE DEF so
<1>17. g = [k \in 0..n |-> ParseTurn(layout, d, g, k)]
  <2>1. ASSUME NEW k \in 0..n PROVE so(k) = ParseTurn(layout, d, g, k)
    <3>1. CASE k = 0
      BY <1>15, <3>1, Zenon DEF ParseTurn
    <3>2. CASE k # 0
      <4>1. k \in 1..n /\ k - 1 \in 0..n
        BY <3>2
      <4>2. g[k - 1] = so(k - 1)
        BY <1>14, <4>1, Zenon
      <4> QED BY <1>16, <3>2, <4>1, <4>2, Zenon DEF ParseTurn
    <3> QED BY <3>1, <3>2
  <2> QED BY <1>14, <2>1, Zenon
<1>18. Parse(layout, d) = g[n].value
  BY <1>2, <1>17, ParseIs
<1>19. g[n].value = [i \in 1..n |-> values[i]]
  <2>1. n \in 0..n
    OBVIOUS
  <2>2. g[n] = so(n)
    BY <1>14, <2>1, Zenon
  <2> QED BY <2>2 DEF so
<1> QED BY <1>1, <1>3, <1>18, <1>19
-----------------------------------------------------------------------------
(* What is parsed is what was sent.                                        *)

\* The payload of a structure or a description is its bytes.
PackedOK ==
  stage = "answered" =>
    /\ answer.kind = "struct" =>
         \E s \in Structures :
           answer.content = s /\ answer.payload = Pack(s[1], s[2])
    /\ answer.kind = "desc" =>
         \E desc \in Descriptions :
           answer.content = desc /\ answer.payload = EncodeDesc(desc)

\* Every step keeps it.
LEMMA PackedNext == PackedOK /\ [Next]_vars => PackedOK'
<1> SUFFICES ASSUME PackedOK, [Next]_vars PROVE PackedOK'
  OBVIOUS
<1>1. CASE Answered
  <2>1. PICK c \in Codes, p \in ParamLists :
          LET reply == [code |-> c, transaction |-> command.transaction,
                        params |-> p]
          IN \/ Reply(reply, "none", <<>>, <<>>)
             \/ \E s \in Structures :
                  Reply(reply, "struct", s, Pack(s[1], s[2]))
             \/ \E desc \in Descriptions :
                  Reply(reply, "desc", desc, EncodeDesc(desc))
             \/ \E v \in Values : Reply(reply, "value", v, ToBytes(v[1], v[2]))
             \/ \E bmp \in Bitmaps : Reply(reply, "bitmap", <<>>, bmp)
    BY <1>1 DEF Answered
  <2> DEFINE reply == [code |-> c, transaction |-> command.transaction,
                       params |-> p]
  <2>2. ASSUME NEW kind, NEW content, NEW payload,
               Reply(reply, kind, content, payload)
        PROVE  /\ answer'.kind = kind /\ answer'.content = content
               /\ answer'.payload = payload
    BY <2>2 DEF Reply
  <2> HIDE DEF reply
  <2>3. \/ answer'.kind \in {"none", "value", "bitmap"}
        \/ \E s \in Structures : Reply(reply, "struct", s, Pack(s[1], s[2]))
        \/ \E desc \in Descriptions :
             Reply(reply, "desc", desc, EncodeDesc(desc))
    BY <2>1, <2>2, Zenon DEF reply
  <2>4. "struct" # "desc"
    OBVIOUS
  <2>5. CASE \E s \in Structures : Reply(reply, "struct", s, Pack(s[1], s[2]))
    BY <2>2, <2>4, <2>5, ZenonT(60) DEF PackedOK
  <2>6. CASE \E desc \in Descriptions :
               Reply(reply, "desc", desc, EncodeDesc(desc))
    BY <2>2, <2>4, <2>6, ZenonT(60) DEF PackedOK
  <2>7. CASE answer'.kind \in {"none", "value", "bitmap"}
    <3>1. answer'.kind # "struct" /\ answer'.kind # "desc"
      BY <2>7
    <3> QED BY <3>1 DEF PackedOK
  <2> QED BY <2>3, <2>5, <2>6, <2>7
<1>2. CASE Ask \/ AskIn \/ SendPayload \/ SetThenReported
  <2>1. stage' # "answered"
    BY <1>2 DEF Ask, AskIn, SendPayload, SetThenReported
  <2> QED BY <2>1 DEF PackedOK
<1>3. CASE UNCHANGED vars
  BY <1>3 DEF vars, PackedOK
<1> QED BY <1>1, <1>2, <1>3 DEF Next

\* The payload of a reply lies at the start of what ptp_get_payload returns.
LEMMA PayloadThere ==
  ASSUME CommandOK, Shape, stage = "answered", answer.kind # "none"
  PROVE  /\ ptp_get_payload \in Seq(Byte)
         /\ Lies(ptp_get_payload, 0, answer.payload)
<1>1. PICK at : Whole(at)
  BY WholeReply
<1> QED BY <1>1, Zenon DEF Whole

\* A structure is parsed to what was packed, for every layout and all values
\* that its arrays hold.
LEMMA PackedStructure == CommandOK /\ Shape /\ PackedOK => StructureParsed
<1> SUFFICES ASSUME CommandOK, Shape, PackedOK, stage = "answered",
                    answer.kind = "struct"
             PROVE  StructureParsed
  BY DEF StructureParsed
<1>1. PICK s \in Structures :
        answer.content = s /\ answer.payload = Pack(s[1], s[2])
  BY DEF PackedOK
<1>2. Structure(s)
  BY EncodingAssumption
<1>3. answer.kind # "none"
  OBVIOUS
<1>4. PICK d : d = ptp_get_payload
  OBVIOUS
<1>5. d \in Seq(Byte) /\ Lies(d, 0, Pack(s[1], s[2]))
  BY <1>1, <1>3, <1>4, PayloadThere, Zenon
<1>6. ASSUME \A i \in DOMAIN s[1] :
               s[1][i] = "string" => Len(s[2][i]) <= FieldSize - 2,
             \A i \in DOMAIN s[1] :
               s[1][i] = "array" => Len(s[2][i]) <= ArrayMax
      PROVE  Parse(s[1], d) = s[2]
  BY <1>2, <1>5, <1>6, StructureRead
<1> QED BY <1>1, <1>4, <1>6, Zenon DEF StructureParsed

\* It is in every state.
THEOREM StructureParsedHolds == Spec => []StructureParsed
<1>1. Init => Shape /\ PackedOK
  BY DEF Init, Shape, PackedOK
<1> QED BY <1>1, CommandInit, CommandNext, ShapeNext, PackedNext,
        PackedStructure, PTL DEF Spec
-----------------------------------------------------------------------------
(* The data of a property.                                                 *)

\* The two bytes of a number.
LEMMA TwoBytes ==
  ASSUME NEW n \in Int, NEW a, NEW b,
         a = (n \div 1) % 256, b = (n \div 256) % 256
  PROVE  ToBytes(n, 2) = [i \in 1..2 |-> IF i = 1 THEN a ELSE b]
<1>1. Weight[1] = 1 /\ Weight[2] = 256
  BY DEF Weight
<1>2. \A i \in 1..2 : i = 1 \/ i = 2
  OBVIOUS
<1>3. \A i \in 1..2 : (n \div Weight[i]) % 256 = IF i = 1 THEN a ELSE b
  BY <1>1, <1>2
<1> QED BY <1>3 DEF ToBytes

\* A number of two bytes has the bytes of its two's complement.
LEMMA TwosComplement ==
  ASSUME NEW n \in Int
  PROVE  ToBytes(n, 2) = ToBytes(n + 65536, 2)
<1>1. PICK a, b : a = (n \div 1) % 256 /\ b = (n \div 256) % 256
  OBVIOUS
<1>2. a = ((n + 65536) \div 1) % 256
  BY <1>1
<1>3. b = ((n + 65536) \div 256) % 256
  <2>1. (n + 65536) \div 256 = n \div 256 + 256
    OBVIOUS
  <2>2. PICK q \in Int : q = n \div 256
    OBVIOUS
  <2>3. (q + 256) % 256 = q % 256
    OBVIOUS
  <2> QED BY <1>1, <2>1, <2>2, <2>3
<1>4. ToBytes(n, 2) = [i \in 1..2 |-> IF i = 1 THEN a ELSE b]
  BY <1>1, TwoBytes
<1>5. PICK m \in Int : m = n + 65536
  OBVIOUS
<1>6. ToBytes(m, 2) = [i \in 1..2 |-> IF i = 1 THEN a ELSE b]
  BY <1>2, <1>3, <1>5, TwoBytes
<1> QED BY <1>4, <1>5, <1>6

\* Types of numbers.
LEMMA SmallTypes ==
  ASSUME NEW type \in DOMAIN Small
  PROVE  /\ type \in DOMAIN TypeCode /\ Small[type] \in {1, 2, 4}
         /\ type \in {"INT8", "UINT8"} => Small[type] = 1
         /\ type \in {"INT16", "UINT16"} => Small[type] = 2
         /\ type \in {"INT32", "UINT32"} => Small[type] = 4
         /\ type \in {"INT8", "UINT8", "INT16", "UINT16", "INT32", "UINT32"}
<1>1. type \in {"INT8", "UINT8", "INT16", "UINT16", "INT32", "UINT32"}
  BY DEF Small
<1>2. type \in DOMAIN TypeCode
  BY <1>1 DEF TypeCode
<1>3. /\ type \in {"INT8", "UINT8"} => Small[type] = 1
      /\ type \in {"INT16", "UINT16"} => Small[type] = 2
      /\ type \in {"INT32", "UINT32"} => Small[type] = 4
  BY DEF Small
<1> QED BY <1>1, <1>2, <1>3

\* A number is read as it was sent, and its size is that of its type.
LEMMA SmallRead ==
  ASSUME NEW type \in DOMAIN Small, NEW v, DataOf(type, v)
  PROVE  /\ EncodeData(type, v) \in Seq(Byte)
         /\ Len(EncodeData(type, v)) = Small[type]
         /\ \A d \in Seq(Byte) : Lies(d, 0, EncodeData(type, v)) =>
              PropSize(d, type) = Small[type] /\ ReadData(d, type) = v
<1>1. PICK w \in {1, 2, 4} : w = Small[type]
  BY SmallTypes
<1>2. v \in Seq(Numbers[type]) /\ Len(v) = 1
  BY DEF DataOf
<1>3. PICK n : n = v[1]
  OBVIOUS
<1>4. v = <<n>> /\ n \in Numbers[type]
  <2>1. PICK S : S = Numbers[type]
    OBVIOUS
  <2>2. v \in Seq(S) /\ Len(v) = 1
    BY <1>2, <2>1, Zenon
  <2>3. v[1] \in S
    BY <2>2
  <2>4. <<n>> \in Seq(S) /\ Len(<<n>>) = 1 /\ <<n>>[1] = n
    BY <1>3, <2>3
  <2>5. \A i \in 1..Len(v) : v[i] = <<n>>[i]
    <3>1. \A i \in 1..Len(v) : i = 1
      BY <2>2
    <3> QED BY <1>3, <2>4, <3>1, Zenon
  <2>6. v = <<n>>
    BY <2>2, <2>4, <2>5, SeqEqual
  <2> QED BY <1>3, <2>1, <2>3, <2>6, Zenon
<1>5. PICK m \in Nat :
        /\ m < Limit(w) /\ ToBytes(n, w) = ToBytes(m, w)
        /\ n = IF type = "INT16" /\ m >= 32768 THEN m - 65536 ELSE m
  <2>1. CASE type \in {"INT8", "UINT8"}
    <3>1. Numbers[type] = Byte /\ w = 1 /\ type # "INT16"
      BY <1>1, <2>1, SmallTypes DEF Numbers
    <3>2. n \in Nat /\ n < Limit(w)
      BY <1>4, <3>1 DEF Byte, Limit
    <3> QED BY <3>1, <3>2
  <2>2. CASE type = "UINT16"
    <3>1. Numbers[type] = U16 /\ w = 2 /\ type # "INT16"
      BY <1>1, <2>2, SmallTypes DEF Numbers
    <3>2. n \in Nat /\ n < Limit(w)
      BY <1>4, <3>1, Widths
    <3> QED BY <3>1, <3>2
  <2>3. CASE type \in {"INT32", "UINT32"}
    <3>1. Numbers[type] = I32 /\ w = 4 /\ type # "INT16"
      BY <1>1, <2>3, SmallTypes DEF Numbers
    <3>2. n \in U32
      BY <1>4, <3>1 DEF I32
    <3>3. n \in Nat /\ n < Limit(w)
      BY <3>1, <3>2, Widths
    <3> QED BY <3>1, <3>3
  <2>4. CASE type = "INT16"
    <3>1. Numbers[type] = I16 /\ w = 2 /\ Limit(2) = 65536
      BY <1>1, <2>4, SmallTypes DEF Numbers, Limit
    <3>2. n \in Int /\ n + 32768 >= 0 /\ n + 32768 < 65536
      BY <1>4, <3>1, Widths DEF I16
    <3>3. CASE n >= 0
      <4>1. n \in Nat /\ n < 65536 /\ ~(n >= 32768)
        BY <3>2, <3>3
      <4> QED BY <3>1, <4>1
    <3>4. CASE ~(n >= 0)
      <4>1. PICK m \in Nat : m = n + 65536
        BY <3>2
      <4>2. m < 65536 /\ m >= 32768 /\ m - 65536 = n
        BY <3>2, <3>4, <4>1
      <4>3. ToBytes(n, 2) = ToBytes(m, 2)
        BY <3>2, <4>1, TwosComplement
      <4> QED BY <2>4, <3>1, <4>2, <4>3
    <3> QED BY <3>3, <3>4
  <2> QED BY <2>1, <2>2, <2>3, <2>4, SmallTypes
<1>6. EncodeData(type, v) = ToBytes(m, w)
  <2>1. EncodeData(type, v) = ToBytes(v[1], Small[type])
    BY DEF EncodeData
  <2>2. ToBytes(n, w) = ToBytes(m, w)
    BY <1>5
  <2> QED BY <1>1, <1>3, <2>1, <2>2
<1>7. ToBytes(m, w) \in Seq(Byte) /\ Len(ToBytes(m, w)) = w
  <2>1. w \in 1..4
    OBVIOUS
  <2> QED BY <2>1, BytesSeq
<1>8. ASSUME NEW d \in Seq(Byte), Lies(d, 0, ToBytes(m, w))
      PROVE  PropSize(d, type) = w /\ ReadData(d, type) = v
  <2>1. Read(d, 0, w) = m
    BY <1>5, <1>8, ReadThere
  <2>2. PropSize(d, type) = w
    <3>1. PropSize(d, type) = Small[type]
      BY SmallTypes DEF PropSize, Item
    <3> QED BY <1>1, <3>1
  <2>3. ReadData(d, type)
          = IF type = "INT16" /\ m >= 32768 THEN <<m - 65536>> ELSE <<m>>
    <3>1. Read(d, 0, Small[type]) = m
      BY <1>1, <2>1, Zenon
    <3> QED BY <3>1 DEF ReadData
  <2> QED BY <1>4, <1>5, <2>2, <2>3
<1> QED BY <1>1, <1>6, <1>7, <1>8, Zenon

\* The size of what is not a number is in its first bytes.
LEMMA SizeThere ==
  ASSUME NEW type \in DOMAIN TypeCode, type \notin DOMAIN Small,
         NEW v \in Seq(Byte), Len(v) >= (IF type = "STRING" THEN 1 ELSE 4),
         NEW d \in Seq(Byte), Lies(d, 0, v)
  PROVE  PropSize(d, type) = PropSize(v, type)
<1>1. /\ Len(v) \in Nat /\ \A i \in 1..Len(v) : d[i] = v[i]
  <2>1. \A i \in 1..Len(v) : d[0 + i] = v[i]
    BY DEF Lies
  <2>2. Len(v) \in Nat /\ \A i \in 1..Len(v) : 0 + i = i
    OBVIOUS
  <2> QED BY <2>1, <2>2
<1>2. CASE type = "STRING"
  <2>1. 1 \in 1..Len(v)
    BY <1>1, <1>2
  <2>2. d[1] = v[1]
    BY <1>1, <2>1
  <2>3. 0 + 1 = 1
    OBVIOUS
  <2>4. Read(d, 0, 1) = Read(v, 0, 1)
    <3>1. Read(d, 0, 1) = v[1] * 1 + 0 + 0 + 0
      BY <2>2, <2>3 DEF Read, Weight
    <3>2. Read(v, 0, 1) = v[1] * 1 + 0 + 0 + 0
      BY <2>3 DEF Read, Weight
    <3> QED BY <3>1, <3>2
  <2>5. type \notin {"INT64", "UINT64"} /\ type \notin DOMAIN Item
    BY <1>2 DEF Item
  <2>6. PropSize(d, type) = 1 + 2 * Read(d, 0, 1)
    BY <1>2, <2>5 DEF PropSize
  <2>7. PropSize(v, type) = 1 + 2 * Read(v, 0, 1)
    BY <1>2, <2>5 DEF PropSize
  <2> QED BY <2>4, <2>6, <2>7
<1>3. CASE type # "STRING"
  <2>1. 1 \in 1..Len(v) /\ 2 \in 1..Len(v) /\ 3 \in 1..Len(v) /\ 4 \in 1..Len(v)
    BY <1>1, <1>3
  <2>2. d[1] = v[1] /\ d[2] = v[2] /\ d[3] = v[3] /\ d[4] = v[4]
    BY <1>1, <2>1
  <2>3. 0 + 1 = 1 /\ 0 + 2 = 2 /\ 0 + 3 = 3 /\ 0 + 4 = 4
    OBVIOUS
  <2>4. Read(d, 0, 4) = Read(v, 0, 4)
    <3>1. Read(d, 0, 4) = v[1] * 1 + v[2] * 256 + v[3] * 65536
                                 + v[4] * 16777216
      BY <2>2, <2>3 DEF Read, Weight
    <3>2. Read(v, 0, 4) = v[1] * 1 + v[2] * 256 + v[3] * 65536
                                 + v[4] * 16777216
      BY <2>3 DEF Read, Weight
    <3> QED BY <3>1, <3>2
  <2>5. type \in {"INT64", "UINT64"} \/ type \in DOMAIN Item
    BY <1>3 DEF TypeCode, Small, Item
  <2>6. PropSize(d, type) = IF type \in {"INT64", "UINT64"} THEN 8
                            ELSE 4 + Read(d, 0, 4) * Item[type]
    BY <2>5 DEF PropSize, Item
  <2>7. PropSize(v, type) = IF type \in {"INT64", "UINT64"} THEN 8
                            ELSE 4 + Read(v, 0, 4) * Item[type]
    BY <2>5 DEF PropSize, Item
  <2> QED BY <2>4, <2>6, <2>7
<1> QED BY <1>2, <1>3

\* Any value of a property is read as it was sent, and its size is its length.
LEMMA DataRead ==
  ASSUME NEW type \in DOMAIN TypeCode, NEW v, DataOf(type, v)
  PROVE  /\ EncodeData(type, v) \in Seq(Byte)
         /\ Len(EncodeData(type, v)) > 0
         /\ \A d \in Seq(Byte) : Lies(d, 0, EncodeData(type, v)) =>
              /\ PropSize(d, type) = Len(EncodeData(type, v))
              /\ ReadData(d, type) = v
<1>1. CASE type \in DOMAIN Small
  <2>1. Small[type] > 0
    <3>1. Small[type] \in {1, 2, 4}
      BY <1>1, SmallTypes
    <3> QED BY <3>1
  <2> QED BY <1>1, <2>1, SmallRead
<1>2. CASE type \notin DOMAIN Small
  <2>1. /\ v \in Seq(Byte) /\ Len(v) >= (IF type = "STRING" THEN 1 ELSE 4)
        /\ Len(v) = PropSize(v, type)
    BY <1>2 DEF DataOf
  <2>2. EncodeData(type, v) = v
    BY <1>2 DEF EncodeData
  <2>3. Len(v) > 0 /\ Len(v) \in Nat
    BY <2>1
  <2>4. ASSUME NEW d \in Seq(Byte), Lies(d, 0, v)
        PROVE  PropSize(d, type) = Len(v) /\ ReadData(d, type) = v
    <3>1. PropSize(d, type) = Len(v)
      BY <1>2, <2>1, <2>4, SizeThere
    <3>2. ReadData(d, type) = SubSeq(d, 1, Len(v))
      BY <1>2, <3>1 DEF ReadData
    <3>3. 0 + 1 = 1 /\ 0 + Len(v) = Len(v) /\ 0 \in Nat
      BY <2>3
    <3>4. SubSeq(d, 0 + 1, 0 + Len(v)) = v
      BY <2>1, <2>4, <3>3, Taken, Zenon
    <3> QED BY <3>1, <3>2, <3>3, <3>4, Zenon
  <2> QED BY <2>1, <2>2, <2>3, <2>4, Zenon
<1> QED BY <1>1, <1>2
\* It is read wherever it lies.
LEMMA DataThere ==
  ASSUME NEW type \in DOMAIN TypeCode, NEW v, DataOf(type, v),
         NEW d \in Seq(Byte), NEW p \in Nat, Lies(d, p, EncodeData(type, v))
  PROVE  /\ PropSize(Drop(d, p), type) = Len(EncodeData(type, v))
         /\ ReadData(Drop(d, p), type) = v
<1>1. PICK e : e = EncodeData(type, v)
  OBVIOUS
<1>2. e \in Seq(Byte) /\ Lies(d, p, e)
  BY <1>1, DataRead
<1>3. 0 \in Nat /\ p + 0 = p
  OBVIOUS
<1>4. Lies(Drop(d, p), 0, e)
  BY <1>2, <1>3, DropLies, Zenon
<1>5. Drop(d, p) \in Seq(Byte)
  <2>1. p <= Len(d)
    <3>1. p + Len(e) <= Len(d) /\ Len(e) \in Nat /\ Len(d) \in Nat
      BY <1>2 DEF Lies
    <3> QED BY <3>1
  <2> QED BY <2>1, Dropped
<1>6. PICK f : f = Drop(d, p)
  OBVIOUS
<1>7. f \in Seq(Byte) /\ Lies(f, 0, EncodeData(type, v))
  BY <1>1, <1>4, <1>5, <1>6, Zenon
<1>8. PropSize(f, type) = Len(EncodeData(type, v)) /\ ReadData(f, type) = v
  BY <1>7, DataRead
<1> QED BY <1>6, <1>8, Zenon

\* A type is found by its code.
LEMMA TypeFound ==
  ASSUME NEW type \in DOMAIN TypeCode
  PROVE  /\ TypeCode[type] \in Nat /\ TypeCode[type] < Limit(2)
         /\ (CHOOSE t \in DOMAIN TypeCode : TypeCode[t] = TypeCode[type]) = type
<1>1. TypeCode[type] \in Nat /\ TypeCode[type] < 65536
  BY DEF TypeCode
<1>2. \A t \in DOMAIN TypeCode : TypeCode[t] = TypeCode[type] => t = type
  BY DEF TypeCode
<1>3. PICK S : S = DOMAIN TypeCode
  OBVIOUS
<1>4. (CHOOSE t \in S : TypeCode[t] = TypeCode[type]) = type
  BY <1>2, <1>3, Zenon
<1> QED BY <1>1, <1>3, <1>4 DEF Limit
-----------------------------------------------------------------------------
(* The values of an enumeration or a range.                                *)

\* These are values of the type.
AllData(type, values, n) ==
  n = Len(values) /\ \A i \in 1..n : DataOf(type, values[i])

\* They lie one behind the other where at says.
LEMMA AllLaidOut ==
  ASSUME NEW type \in DOMAIN TypeCode, NEW values, NEW n \in Nat,
         AllData(type, values, n)
  PROVE  /\ EncodeAll(type, values) \in Seq(Byte)
         /\ \E at \in [1..(n + 1) -> Nat] :
              /\ at[1] = 0 /\ at[n + 1] = Len(EncodeAll(type, values))
              /\ \A i \in 1..n :
                   LET e == EncodeData(type, values[i]) IN
                   /\ at[i + 1] = at[i] + Len(e)
                   /\ e \in Seq(Byte)
                   /\ Lies(EncodeAll(type, values), at[i], e)
<1>1. PICK s : s = [i \in 1..n |-> EncodeData(type, values[i])]
  OBVIOUS
<1>2. \A i \in 1..n : s[i] = EncodeData(type, values[i]) /\ s[i] \in Seq(Byte)
  BY <1>1, DataRead DEF AllData
<1>3. s \in Seq(Seq(Byte)) /\ Len(s) = n
  BY <1>1, <1>2
<1>4. EncodeAll(type, values) = FlattenSeq(s)
  BY <1>1, Zenon DEF EncodeAll, AllData
<1>5. PICK e : e = EncodeAll(type, values)
  OBVIOUS
<1>6. PICK at : LaidOut(e, s, at) /\ e \in Seq(Byte) /\ Len(e) = at[Len(s) + 1]
  BY <1>3, <1>4, <1>5, Flattened
<1>7. /\ at \in [1..(n + 1) -> Nat] /\ at[1] = 0 /\ at[n + 1] = Len(e)
      /\ \A i \in 1..n : at[i + 1] = at[i] + Len(s[i]) /\ Lies(e, at[i], s[i])
  BY <1>3, <1>6, Zenon DEF LaidOut
<1> QED BY <1>2, <1>5, <1>6, <1>7, Zenon

\* The length of the values so far, if g says it of those before.
LengthTurn(d, type, g, i) == IF i = 0 THEN 0 ELSE Past(d, type, g[i - 1])

\* What adds one value after the other is the length of an enumeration.
LEMMA LengthIs ==
  ASSUME NEW d, NEW type, NEW n \in Nat,
         NEW g, g = [i \in 0..n |-> LengthTurn(d, type, g, i)]
  PROVE  EnumLength(d, type, n) = g[n]
<1> DEFINE length == CHOOSE h : h = [i \in 0..n |-> LengthTurn(d, type, h, i)]
<1>1. length = [i \in 0..n |-> LengthTurn(d, type, length, i)]
  BY Zenon
<1>2. EnumLength(d, type, n) = length[n]
  BY Zenon DEF EnumLength, LengthTurn
<1> HIDE DEF length
<1> DEFINE none == {k \in 0..n : length[k] # g[k]}
<1>3. none = {}
  <2>1. SUFFICES ASSUME none # {} PROVE FALSE
    OBVIOUS
  <2>2. PICK k \in none : \A j \in none : k <= j
    <3>1. none \in SUBSET Nat
      OBVIOUS
    <3> HIDE DEF none
    <3> QED BY <2>1, <3>1, LeastNat
  <2>3. k \in 0..n /\ length[k] # g[k]
    OBVIOUS
  <2>4. k # 0 => length[k - 1] = g[k - 1]
    <3>1. k # 0 => k - 1 \in 0..n /\ ~(k <= k - 1)
      BY <2>3
    <3> QED BY <2>2, <3>1
  <2>5. LengthTurn(d, type, length, k) = LengthTurn(d, type, g, k)
    BY <2>4, Zenon DEF LengthTurn
  <2>6. /\ length[k] = LengthTurn(d, type, length, k)
        /\ g[k] = LengthTurn(d, type, g, k)
    BY <1>1, <2>3, Zenon
  <2> HIDE DEF none
  <2> QED BY <2>3, <2>5, <2>6, Zenon
<1>4. n \in 0..n
  OBVIOUS
<1>5. length[n] = g[n]
  BY <1>3, <1>4
<1> QED BY <1>2, <1>5, Zenon

\* The length of the values of an enumeration is that of all of them.
LEMMA EnumRead ==
  ASSUME NEW type \in DOMAIN TypeCode, NEW values, NEW n \in Nat,
         AllData(type, values, n), NEW d \in Seq(Byte),
         Lies(d, 0, EncodeAll(type, values))
  PROVE  EnumLength(d, type, n) = Len(EncodeAll(type, values))
<1>1. PICK e : e = EncodeAll(type, values)
  OBVIOUS
<1>2. /\ e \in Seq(Byte) /\ Lies(d, 0, e)
  BY <1>1, AllLaidOut
<1>3. PICK at \in [1..(n + 1) -> Nat] :
        /\ at[1] = 0 /\ at[n + 1] = Len(e)
        /\ \A i \in 1..n :
             /\ at[i + 1] = at[i] + Len(EncodeData(type, values[i]))
             /\ EncodeData(type, values[i]) \in Seq(Byte)
             /\ Lies(e, at[i], EncodeData(type, values[i]))
  BY <1>1, AllLaidOut, Zenon
<1>4. PICK g : g = [i \in 0..n |-> at[i + 1]]
  OBVIOUS
<1>5. ASSUME NEW i \in 1..n PROVE at[i + 1] = Past(d, type, at[i])
  <2>1. PICK p, f : p = at[i] /\ f = EncodeData(type, values[i])
    OBVIOUS
  <2>2. p \in Nat /\ f \in Seq(Byte) /\ Lies(e, p, f) /\ at[i + 1] = p + Len(f)
    <3>1. i \in 1..(n + 1)
      OBVIOUS
    <3> QED BY <1>3, <2>1, <3>1
  <2>3. 0 \in Nat /\ 0 + p = p
    BY <2>2
  <2>4. Lies(d, 0 + p, f)
    BY <1>2, <2>2, <2>3, LiesIn, Zenon
  <2>5. Lies(d, p, EncodeData(type, values[i])) /\ DataOf(type, values[i])
    BY <2>1, <2>3, <2>4 DEF AllData
  <2>6. PropSize(Drop(d, p), type) = Len(EncodeData(type, values[i]))
    BY <2>2, <2>5, DataThere
  <2> QED BY <2>1, <2>2, <2>6, Zenon DEF Past
<1>6. g = [i \in 0..n |-> LengthTurn(d, type, g, i)]
  <2>1. ASSUME NEW i \in 0..n PROVE at[i + 1] = LengthTurn(d, type, g, i)
    <3>1. CASE i = 0
      <4>1. i + 1 = 1
        BY <3>1
      <4> QED BY <1>3, <3>1, <4>1, Zenon DEF LengthTurn
    <3>2. CASE i # 0
      <4>1. i \in 1..n /\ i - 1 \in 0..n /\ (i - 1) + 1 = i
        BY <3>2
      <4>2. g[i - 1] = at[i]
        BY <1>4, <4>1, Zenon
      <4> QED BY <1>5, <3>2, <4>1, <4>2, Zenon DEF LengthTurn
    <3> QED BY <3>1, <3>2
  <2> QED BY <1>4, <2>1, Zenon
<1>7. EnumLength(d, type, n) = g[n]
  BY <1>6, LengthIs
<1>8. g[n] = at[n + 1]
  BY <1>4
<1> QED BY <1>1, <1>3, <1>7, <1>8

\* Numbers of one type are read each at its place.
LEMMA EachRead ==
  ASSUME NEW type \in DOMAIN Small, NEW values, NEW n \in Nat,
         AllData(type, values, n), NEW d \in Seq(Byte),
         Lies(d, 0, EncodeAll(type, values))
  PROVE  /\ Len(EncodeAll(type, values)) = Small[type] * n
         /\ \A i \in 1..n :
              ReadData(Drop(d, (i - 1) * Small[type]), type) = values[i]
<1>1. PICK w \in {1, 2, 4} : w = Small[type]
  BY SmallTypes
<1>2. type \in DOMAIN TypeCode
  BY SmallTypes
<1>3. PICK s : s = [i \in 1..n |-> EncodeData(type, values[i])]
  OBVIOUS
<1>4. \A i \in 1..n : s[i] = EncodeData(type, values[i])
                      /\ s[i] \in Seq(Byte) /\ Len(s[i]) = w
  BY <1>1, <1>3, SmallRead DEF AllData
<1>5. s \in Seq(Seq(Byte)) /\ Len(s) = n
  BY <1>3, <1>4
<1>6. EncodeAll(type, values) = FlattenSeq(s)
  BY <1>3, Zenon DEF EncodeAll, AllData
<1>7. PICK e : e = EncodeAll(type, values)
  OBVIOUS
<1>8. /\ e \in Seq(Byte) /\ Len(e) = w * n
      /\ \A i \in 1..n : Lies(e, w * (i - 1), s[i])
  <2>1. \A k \in 1..Len(s) : Len(s[k]) = w
    BY <1>4, <1>5
  <2>2. /\ FlattenSeq(s) \in Seq(Byte) /\ Len(FlattenSeq(s)) = w * Len(s)
        /\ \A k \in 1..Len(s) : Lies(FlattenSeq(s), w * (k - 1), s[k])
    BY <1>5, <2>1, Evenly
  <2> QED BY <1>5, <1>6, <1>7, <2>2, Zenon
<1>9. ASSUME NEW i \in 1..n PROVE ReadData(Drop(d, (i - 1) * w), type) = values[i]
  <2>1. PICK p \in Nat : p = w * (i - 1) /\ p = (i - 1) * w
    <3>1. w = 1 \/ w = 2 \/ w = 4
      OBVIOUS
    <3> QED BY <3>1
  <2>2. 0 \in Nat /\ 0 + p = p
    OBVIOUS
  <2>3. s[i] \in Seq(Byte) /\ Lies(e, p, s[i]) /\ Lies(d, 0, e)
    BY <1>4, <1>7, <1>8, <2>1, Zenon
  <2>4. Lies(d, 0 + p, s[i])
    BY <1>8, <2>2, <2>3, LiesIn, Zenon
  <2>5. Lies(d, p, EncodeData(type, values[i])) /\ DataOf(type, values[i])
    BY <1>4, <2>2, <2>4 DEF AllData
  <2>6. ReadData(Drop(d, p), type) = values[i]
    BY <1>2, <2>5, DataThere
  <2> QED BY <2>1, <2>6, Zenon
<1> QED BY <1>1, <1>7, <1>8, <1>9, Zenon
-----------------------------------------------------------------------------
(* A description of a property.                                            *)

\* What lies in a lies at the same place in d.
Carries(a, d) ==
  \A e \in Seq(Byte), p \in Nat : Lies(a, p, e) => Lies(d, p, e)

\* Eight parts, one behind the other.
Parts(A, B, C, D, E, F, G, H) == A \o B \o C \o D \o E \o F \o G \o H

\* The lengths of the parts.
PartsFit(A, B, C, D, E, F, G, H, a, b, g) ==
  /\ A \in Seq(Byte) /\ B \in Seq(Byte) /\ C \in Seq(Byte) /\ D \in Seq(Byte)
  /\ E \in Seq(Byte) /\ F \in Seq(Byte) /\ G \in Seq(Byte) /\ H \in Seq(Byte)
  /\ Len(A) = 2 /\ Len(B) = 2 /\ Len(C) = 1 /\ a = Len(D) /\ b = Len(E)
  /\ Len(F) = 1 /\ g = Len(G)

\* Each lies behind the one before it.
LEMMA PartsLie ==
  ASSUME NEW A, NEW B, NEW C, NEW D, NEW E, NEW F, NEW G, NEW H,
         NEW a \in Nat, NEW b \in Nat, NEW g \in Nat,
         PartsFit(A, B, C, D, E, F, G, H, a, b, g)
  PROVE  LET x == Parts(A, B, C, D, E, F, G, H) IN
         /\ x \in Seq(Byte) /\ Lies(x, 0, A) /\ Lies(x, 2, B) /\ Lies(x, 4, C)
         /\ Lies(x, 5, D) /\ Lies(x, 5 + a, E) /\ Lies(x, 5 + a + b, F)
         /\ Lies(x, 6 + a + b, G) /\ Lies(x, 6 + a + b + g, H)
<1>a. PICK x : x = Parts(A, B, C, D, E, F, G, H)
  OBVIOUS
<1>b. /\ A \in Seq(Byte) /\ B \in Seq(Byte) /\ C \in Seq(Byte)
      /\ D \in Seq(Byte) /\ E \in Seq(Byte) /\ F \in Seq(Byte)
      /\ G \in Seq(Byte) /\ H \in Seq(Byte)
      /\ Len(A) = 2 /\ Len(B) = 2 /\ Len(C) = 1 /\ a = Len(D) /\ b = Len(E)
      /\ Len(F) = 1 /\ g = Len(G)
  BY Zenon DEF PartsFit
<1>0. Lies(A, 0, A)
  BY <1>b DEF Lies
<1>1. PICK y1 : y1 = A \o B
  OBVIOUS
<1>2. y1 \in Seq(Byte) /\ Len(y1) = 4 /\ Lies(y1, 2, B) /\ Carries(A, y1)
  <2>1. y1 \in Seq(Byte) /\ Len(y1) = Len(A) + Len(B) /\ Lies(y1, Len(A), B)
        /\ Carries(A, y1)
    BY <1>1, <1>b, Put, Zenon DEF Carries
  <2> QED BY <1>b, <2>1
<1>3. PICK y2 : y2 = y1 \o C
  OBVIOUS
<1>4. y2 \in Seq(Byte) /\ Len(y2) = 5 /\ Lies(y2, 4, C) /\ Carries(y1, y2)
  <2>1. y2 \in Seq(Byte) /\ Len(y2) = Len(y1) + Len(C) /\ Lies(y2, Len(y1), C)
        /\ Carries(y1, y2)
    BY <1>b, <1>2, <1>3, Put, Zenon DEF Carries
  <2> QED BY <1>b, <1>2, <2>1
<1>5. PICK y3 : y3 = y2 \o D
  OBVIOUS
<1>6. y3 \in Seq(Byte) /\ Len(y3) = 5 + a /\ Lies(y3, 5, D) /\ Carries(y2, y3)
  <2>1. y3 \in Seq(Byte) /\ Len(y3) = Len(y2) + Len(D) /\ Lies(y3, Len(y2), D)
        /\ Carries(y2, y3)
    BY <1>b, <1>4, <1>5, Put, Zenon DEF Carries
  <2> QED BY <1>b, <1>4, <2>1
<1>7. PICK y4 : y4 = y3 \o E
  OBVIOUS
<1>8. /\ y4 \in Seq(Byte) /\ Len(y4) = 5 + a + b /\ Lies(y4, 5 + a, E)
      /\ Carries(y3, y4)
  <2>1. y4 \in Seq(Byte) /\ Len(y4) = Len(y3) + Len(E) /\ Lies(y4, Len(y3), E)
        /\ Carries(y3, y4)
    BY <1>b, <1>6, <1>7, Put, Zenon DEF Carries
  <2> QED BY <1>b, <1>6, <2>1
<1>9. PICK y5 : y5 = y4 \o F
  OBVIOUS
<1>10. /\ y5 \in Seq(Byte) /\ Len(y5) = 6 + a + b /\ Lies(y5, 5 + a + b, F)
       /\ Carries(y4, y5)
  <2>1. y5 \in Seq(Byte) /\ Len(y5) = Len(y4) + Len(F) /\ Lies(y5, Len(y4), F)
        /\ Carries(y4, y5)
    BY <1>b, <1>8, <1>9, Put, Zenon DEF Carries
  <2>2. Len(y4) + Len(F) = 6 + a + b
    BY <1>b, <1>8
  <2> QED BY <1>b, <1>8, <2>1, <2>2, Zenon
<1>11. PICK y6 : y6 = y5 \o G
  OBVIOUS
<1>12. /\ y6 \in Seq(Byte) /\ Len(y6) = 6 + a + b + g
       /\ Lies(y6, 6 + a + b, G) /\ Carries(y5, y6)
  <2>1. y6 \in Seq(Byte) /\ Len(y6) = Len(y5) + Len(G) /\ Lies(y6, Len(y5), G)
        /\ Carries(y5, y6)
    BY <1>b, <1>10, <1>11, Put, Zenon DEF Carries
  <2> QED BY <1>b, <1>10, <2>1, Zenon
<1>13. x = y6 \o H
  BY <1>a, <1>1, <1>3, <1>5, <1>7, <1>9, <1>11, Zenon DEF Parts
<1>14. x \in Seq(Byte) /\ Lies(x, 6 + a + b + g, H) /\ Carries(y6, x)
  <2>1. PICK y7 : y7 = y6 \o H
    OBVIOUS
  <2>2. y7 \in Seq(Byte) /\ Lies(y7, Len(y6), H) /\ Carries(y6, y7)
    BY <1>b, <1>12, <2>1, Put, Zenon DEF Carries
  <2> QED BY <1>12, <1>13, <2>1, <2>2, Zenon
<1>15. /\ 0 \in Nat /\ 2 \in Nat /\ 4 \in Nat /\ 5 \in Nat /\ 5 + a \in Nat
       /\ 5 + a + b \in Nat /\ 6 + a + b \in Nat
  OBVIOUS
<1>16. Carries(y5, x)
  BY <1>12, <1>14, Zenon DEF Carries
<1>17. Carries(y4, x)
  BY <1>10, <1>16, Zenon DEF Carries
<1>18. Carries(y3, x)
  BY <1>8, <1>17, Zenon DEF Carries
<1>19. Carries(y2, x)
  BY <1>6, <1>18, Zenon DEF Carries
<1>20. Carries(y1, x)
  BY <1>4, <1>19, Zenon DEF Carries
<1>21. Carries(A, x)
  BY <1>2, <1>20, Zenon DEF Carries
<1>22. Lies(x, 0, A) /\ Lies(x, 2, B) /\ Lies(x, 4, C) /\ Lies(x, 5, D)
  BY <1>0, <1>b, <1>2, <1>4, <1>6, <1>15, <1>18, <1>19, <1>20, <1>21,
     Zenon DEF Carries
<1>23. Lies(x, 5 + a, E) /\ Lies(x, 5 + a + b, F) /\ Lies(x, 6 + a + b, G)
  BY <1>b, <1>8, <1>10, <1>12, <1>14, <1>15, <1>16, <1>17, Zenon DEF Carries
<1> QED BY <1>a, <1>14, <1>22, <1>23, Zenon

\* What a description says.
LEMMA DescriptionSays ==
  ASSUME NEW desc, Description(desc)
  PROVE  /\ desc.code \in U16 /\ desc.data_type \in DOMAIN TypeCode
         /\ desc.read_only \in Byte
         /\ desc.form_type \in {PTP_RangeForm, PTP_EnumerationForm}
         /\ DataOf(desc.data_type, desc.default)
         /\ DataOf(desc.data_type, desc.current)
         /\ desc.form = [i \in 1..Len(desc.form) |-> desc.form[i]]
         /\ Len(desc.form) \in Nat
         /\ AllData(desc.data_type, desc.form, Len(desc.form))
         /\ desc.form_type = PTP_EnumerationForm => Len(desc.form) \in U16
         /\ desc.form_type = PTP_RangeForm =>
              /\ desc.data_type \in DOMAIN Small
              /\ Len(desc.form) = 3 /\ desc.form[3][1] > 0
         /\ \A f : [desc EXCEPT !.form = f]
                     = [code |-> desc.code, data_type |-> desc.data_type,
                        read_only |-> desc.read_only,
                        default |-> desc.default, current |-> desc.current,
                        form_type |-> desc.form_type, form |-> f]
<1>1. desc \in [code : U16, data_type : DOMAIN TypeCode, read_only : Byte,
                default : {desc.default}, current : {desc.current},
                form_type : {PTP_RangeForm, PTP_EnumerationForm},
                form : Seq(Range(desc.form))]
  BY DEF Description
<1>2. /\ \A v \in {desc.default, desc.current} \cup Range(desc.form) :
           DataOf(desc.data_type, v)
      /\ desc.form_type = PTP_EnumerationForm => Len(desc.form) \in U16
      /\ desc.form_type = PTP_RangeForm =>
           /\ desc.data_type \in DOMAIN Small
           /\ Len(desc.form) = 3 /\ desc.form[3][1] > 0
  BY DEF Description
<1>3. /\ desc.code \in U16 /\ desc.data_type \in DOMAIN TypeCode
      /\ desc.read_only \in Byte
      /\ desc.form_type \in {PTP_RangeForm, PTP_EnumerationForm}
      /\ desc.form \in Seq(Range(desc.form))
  BY <1>1
<1>4. /\ desc.form = [i \in 1..Len(desc.form) |-> desc.form[i]]
      /\ Len(desc.form) \in Nat
      /\ \A i \in 1..Len(desc.form) : desc.form[i] \in Range(desc.form)
  BY <1>3
<1>5. DataOf(desc.data_type, desc.default) /\ DataOf(desc.data_type, desc.current)
  BY <1>2
<1>6. AllData(desc.data_type, desc.form, Len(desc.form))
  BY <1>2, <1>4 DEF AllData
<1>7. ASSUME NEW f
      PROVE  [desc EXCEPT !.form = f]
               = [code |-> desc.code, data_type |-> desc.data_type,
                  read_only |-> desc.read_only,
                  default |-> desc.default, current |-> desc.current,
                  form_type |-> desc.form_type, form |-> f]
  BY <1>1
<1> QED BY <1>2, <1>3, <1>4, <1>5, <1>6, <1>7, Zenon
\* Up to the form each part of a description is read where it lies; the values
\* of the form lie behind their count or, if it is a range, at once.
PartsRead(desc, d, a, b) ==
  /\ Read(d, 0, 2) = desc.code /\ Read(d, 2, 2) = TypeCode[desc.data_type]
  /\ Read(d, 4, 1) = desc.read_only
  /\ PropSize(Drop(d, 5), desc.data_type) = a
  /\ ReadData(Drop(d, 5), desc.data_type) = desc.default
  /\ PropSize(Drop(d, 5 + a), desc.data_type) = b
  /\ ReadData(Drop(d, 5 + a), desc.data_type) = desc.current
  /\ Read(d, 5 + a + b, 1) = desc.form_type
  /\ desc.form_type = PTP_EnumerationForm =>
       /\ Lies(d, 6 + a + b, ToBytes(Len(desc.form), 2))
       /\ Lies(d, 8 + a + b, EncodeAll(desc.data_type, desc.form))
  /\ desc.form_type = PTP_RangeForm =>
       Lies(d, 6 + a + b, EncodeAll(desc.data_type, desc.form))

\* So are the parts of every description.
LEMMA PartsAreRead ==
  ASSUME NEW desc, Description(desc), NEW d \in Seq(Byte),
         Lies(d, 0, EncodeDesc(desc))
  PROVE  \E a \in Nat, b \in Nat : PartsRead(desc, d, a, b)
<1>1. /\ desc.code \in U16 /\ desc.data_type \in DOMAIN TypeCode
      /\ desc.read_only \in Byte
      /\ desc.form_type \in {PTP_RangeForm, PTP_EnumerationForm}
      /\ DataOf(desc.data_type, desc.default)
      /\ DataOf(desc.data_type, desc.current)
      /\ Len(desc.form) \in Nat
      /\ AllData(desc.data_type, desc.form, Len(desc.form))
  BY DescriptionSays
<1>2. PICK type : type = desc.data_type
  OBVIOUS
<1>3. PICK A, B, C, D, E, F, H :
        /\ A = ToBytes(desc.code, 2) /\ B = ToBytes(TypeCode[type], 2)
        /\ C = ToBytes(desc.read_only, 1) /\ D = EncodeData(type, desc.default)
        /\ E = EncodeData(type, desc.current)
        /\ F = ToBytes(desc.form_type, 1) /\ H = EncodeAll(type, desc.form)
  OBVIOUS
<1>4. PICK G : G = IF desc.form_type = PTP_EnumerationForm
                   THEN ToBytes(Len(desc.form), 2) ELSE <<>>
  OBVIOUS
<1>5. /\ desc.code \in Nat /\ desc.code < Limit(2)
      /\ TypeCode[type] \in Nat /\ TypeCode[type] < Limit(2)
      /\ desc.read_only \in Nat /\ desc.read_only < Limit(1)
      /\ desc.form_type \in Nat /\ desc.form_type < Limit(1)
  <2>1. desc.code \in Nat /\ desc.code < Limit(2)
    BY <1>1, Widths
  <2>2. TypeCode[type] \in Nat /\ TypeCode[type] < Limit(2)
    BY <1>1, <1>2, TypeFound
  <2>3. \A n \in Byte : n \in Nat /\ n < Limit(1)
    BY DEF Byte, Limit
  <2>4. PTP_RangeForm \in Byte /\ PTP_EnumerationForm \in Byte
    BY DEF PTP_RangeForm, PTP_EnumerationForm, Byte
  <2>5. desc.read_only \in Byte /\ desc.form_type \in Byte
    BY <1>1, <2>4, SMTT(30)
  <2>6. desc.read_only \in Nat /\ desc.read_only < Limit(1)
    BY <2>3, <2>5, Zenon
  <2>7. desc.form_type \in Nat /\ desc.form_type < Limit(1)
    BY <2>3, <2>5, Zenon
  <2> QED BY <2>1, <2>2, <2>6, <2>7, Zenon
<1>6. /\ A \in Seq(Byte) /\ Len(A) = 2 /\ B \in Seq(Byte) /\ Len(B) = 2
      /\ C \in Seq(Byte) /\ Len(C) = 1 /\ F \in Seq(Byte) /\ Len(F) = 1
  BY <1>3, <1>5, BytesSeq
<1>7. D \in Seq(Byte) /\ E \in Seq(Byte) /\ H \in Seq(Byte)
  BY <1>1, <1>2, <1>3, DataRead, AllLaidOut
<1>8. /\ G \in Seq(Byte)
      /\ desc.form_type = PTP_EnumerationForm => Len(G) = 2
      /\ desc.form_type = PTP_RangeForm => Len(G) = 0
  <2>1. PTP_RangeForm # PTP_EnumerationForm
    BY DEF PTP_RangeForm, PTP_EnumerationForm
  <2>2. CASE desc.form_type = PTP_EnumerationForm
    BY <1>1, <1>4, <2>1, <2>2, BytesSeq
  <2>3. CASE desc.form_type # PTP_EnumerationForm
    BY <1>4, <2>3
  <2> QED BY <2>2, <2>3
<1>9. PICK a \in Nat, b \in Nat, g \in Nat :
        a = Len(D) /\ b = Len(E) /\ g = Len(G)
  BY <1>7, <1>8
<1>10. PICK x : x = Parts(A, B, C, D, E, F, G, H)
  OBVIOUS
<1>11. x = EncodeDesc(desc)
  BY <1>2, <1>3, <1>4, <1>10, Zenon DEF Parts, EncodeDesc
<1>12. /\ x \in Seq(Byte) /\ Lies(x, 0, A) /\ Lies(x, 2, B) /\ Lies(x, 4, C)
       /\ Lies(x, 5, D) /\ Lies(x, 5 + a, E) /\ Lies(x, 5 + a + b, F)
       /\ Lies(x, 6 + a + b, G) /\ Lies(x, 6 + a + b + g, H)
  <2>1. PartsFit(A, B, C, D, E, F, G, H, a, b, g)
    BY <1>6, <1>7, <1>8, <1>9, Zenon DEF PartsFit
  <2> QED BY <1>10, <2>1, PartsLie, Zenon
<1>13. ASSUME NEW e \in Seq(Byte), NEW p \in Nat, Lies(x, p, e)
       PROVE  Lies(d, p, e)
  <2>1. Lies(d, 0, x) /\ 0 \in Nat /\ 0 + p = p
    BY <1>11
  <2>2. Lies(d, 0 + p, e)
    BY <1>12, <1>13, <2>1, LiesIn, Zenon
  <2> QED BY <2>1, <2>2, Zenon
<1>14. /\ 0 \in Nat /\ 2 \in Nat /\ 4 \in Nat /\ 5 \in Nat /\ 5 + a \in Nat
       /\ 5 + a + b \in Nat /\ 6 + a + b \in Nat /\ 6 + a + b + g \in Nat
       /\ 1 \in {1, 2, 4} /\ 2 \in {1, 2, 4}
  OBVIOUS
<1>15. /\ Lies(d, 0, A) /\ Lies(d, 2, B) /\ Lies(d, 4, C)
       /\ Lies(d, 5, D) /\ Lies(d, 5 + a, E) /\ Lies(d, 5 + a + b, F)
       /\ Lies(d, 6 + a + b, G) /\ Lies(d, 6 + a + b + g, H)
  BY <1>6, <1>7, <1>8, <1>12, <1>13, <1>14, Zenon
<1>16. /\ Read(d, 0, 2) = desc.code /\ Read(d, 2, 2) = TypeCode[type]
       /\ Read(d, 4, 1) = desc.read_only
  <2>1. Lies(d, 0, ToBytes(desc.code, 2)) /\ Lies(d, 2, ToBytes(TypeCode[type], 2))
        /\ Lies(d, 4, ToBytes(desc.read_only, 1))
    BY <1>3, <1>15, Zenon
  <2>2. Read(d, 0, 2) = desc.code
    BY <1>5, <1>14, <2>1, ReadThere, Zenon
  <2>3. Read(d, 2, 2) = TypeCode[type]
    BY <1>5, <1>14, <2>1, ReadThere, Zenon
  <2>4. Read(d, 4, 1) = desc.read_only
    BY <1>5, <1>14, <2>1, ReadThere, Zenon
  <2> QED BY <2>2, <2>3, <2>4, Zenon
<1>17. Read(d, 5 + a + b, 1) = desc.form_type
  <2>1. PICK p \in Nat, n \in Nat : p = 5 + a + b /\ n = desc.form_type
    BY <1>5, <1>14, Zenon
  <2>2. n < Limit(1) /\ Lies(d, p, ToBytes(n, 1))
    BY <1>3, <1>5, <1>15, <2>1, Zenon
  <2>3. Read(d, p, 1) = n
    BY <1>14, <2>2, ReadThere, Zenon
  <2> QED BY <2>1, <2>3, Zenon
<1>18. /\ PropSize(Drop(d, 5), type) = a
       /\ ReadData(Drop(d, 5), type) = desc.default
  <2>1. Lies(d, 5, EncodeData(type, desc.default))
    BY <1>3, <1>15, ZenonT(40)
  <2>2. type \in DOMAIN TypeCode /\ DataOf(type, desc.default)
    BY <1>1, <1>2, Zenon
  <2>3. PICK p \in Nat : p = 5
    OBVIOUS
  <2>4. /\ PropSize(Drop(d, p), type) = Len(EncodeData(type, desc.default))
        /\ ReadData(Drop(d, p), type) = desc.default
    BY <2>1, <2>2, <2>3, DataThere, ZenonT(40)
  <2> QED BY <1>3, <1>9, <2>3, <2>4, Zenon
<1>19. /\ PropSize(Drop(d, 5 + a), type) = b
       /\ ReadData(Drop(d, 5 + a), type) = desc.current
  <2>1. Lies(d, 5 + a, EncodeData(type, desc.current))
    BY <1>3, <1>15, ZenonT(40)
  <2>2. type \in DOMAIN TypeCode /\ DataOf(type, desc.current)
    BY <1>1, <1>2, Zenon
  <2>3. PICK p \in Nat : p = 5 + a
    OBVIOUS
  <2>4. /\ PropSize(Drop(d, p), type) = Len(EncodeData(type, desc.current))
        /\ ReadData(Drop(d, p), type) = desc.current
    BY <2>1, <2>2, <2>3, DataThere, Zenon
  <2> QED BY <1>3, <1>9, <2>3, <2>4, Zenon
<1>20. desc.form_type = PTP_EnumerationForm =>
         /\ Lies(d, 6 + a + b, ToBytes(Len(desc.form), 2))
         /\ Lies(d, 8 + a + b, EncodeAll(type, desc.form))
  <2> SUFFICES ASSUME desc.form_type = PTP_EnumerationForm
               PROVE  /\ Lies(d, 6 + a + b, ToBytes(Len(desc.form), 2))
                      /\ Lies(d, 8 + a + b, EncodeAll(type, desc.form))
    OBVIOUS
  <2>1. 6 + a + b + g = 8 + a + b
    <3>1. g = 2
      BY <1>8, <1>9, Zenon
    <3> QED BY <3>1
  <2>2. G = ToBytes(Len(desc.form), 2)
    BY <1>4
  <2> QED BY <1>3, <1>15, <2>1, <2>2, Zenon
<1>21. desc.form_type = PTP_RangeForm =>
         Lies(d, 6 + a + b, EncodeAll(type, desc.form))
  <2> SUFFICES ASSUME desc.form_type = PTP_RangeForm
               PROVE  Lies(d, 6 + a + b, EncodeAll(type, desc.form))
    OBVIOUS
  <2>1. 6 + a + b + g = 6 + a + b
    BY <1>8, <1>9
  <2> QED BY <1>3, <1>15, <2>1, Zenon
<1> QED BY <1>2, <1>16, <1>17, <1>18, <1>19, <1>20, <1>21, Zenon DEF PartsRead

\* The form of a description as it is parsed.
FormOf(desc) ==
  IF desc.form_type = PTP_EnumerationForm
  THEN EncodeAll(desc.data_type, desc.form) ELSE desc.form

\* What is parsed if the form is at this place.
AsParsed(d, type, current, form, behind) ==
  [code |-> Read(d, 0, 2), data_type |-> type, read_only |-> Read(d, 4, 1),
   default |-> ReadData(Drop(d, 5), type),
   current |-> ReadData(Drop(d, current), type),
   form_type |-> Read(d, form, 1),
   form |-> CASE Read(d, form, 1) = PTP_RangeForm ->
                   [i \in 1..3 |->
                      ReadData(Drop(behind, (i - 1) * PropSize(behind, type)),
                               type)]
              [] Read(d, form, 1) = PTP_EnumerationForm ->
                   SubSeq(behind, 3, 2 + EnumLength(Drop(behind, 2), type,
                                                    Read(behind, 0, 2)))
              [] OTHER -> "panic"]

\* A description is parsed to what it says.
LEMMA DescriptionRead ==
  ASSUME NEW desc, Description(desc), NEW d \in Seq(Byte),
         Lies(d, 0, EncodeDesc(desc))
  PROVE  ParseDesc(d) = [desc EXCEPT !.form = FormOf(desc)]
<1>1. /\ desc.data_type \in DOMAIN TypeCode /\ Len(desc.form) \in Nat
      /\ desc.form = [i \in 1..Len(desc.form) |-> desc.form[i]]
      /\ AllData(desc.data_type, desc.form, Len(desc.form))
      /\ desc.form_type \in {PTP_RangeForm, PTP_EnumerationForm}
      /\ desc.form_type = PTP_EnumerationForm => Len(desc.form) \in U16
      /\ desc.form_type = PTP_RangeForm =>
           desc.data_type \in DOMAIN Small /\ Len(desc.form) = 3
  BY DescriptionSays
<1>2. PICK a \in Nat, b \in Nat : PartsRead(desc, d, a, b)
  BY PartsAreRead
<1>3. PICK type : type = desc.data_type
  OBVIOUS
<1>4. (CHOOSE t \in DOMAIN TypeCode : TypeCode[t] = Read(d, 2, 2)) = type
  <2>1. Read(d, 2, 2) = TypeCode[type]
    BY <1>2, <1>3, Zenon DEF PartsRead
  <2>2. (CHOOSE t \in DOMAIN TypeCode : TypeCode[t] = TypeCode[type]) = type
    <3>1. type \in DOMAIN TypeCode
      BY <1>1, <1>3, Zenon
    <3> QED BY <3>1, TypeFound, Zenon
  <2> QED BY <2>1, <2>2, Zenon
<1>5. PICK at \in Nat : at = 5 + a + b
  OBVIOUS
<1>6. PICK behind : behind = Drop(d, at + 1)
  OBVIOUS
<1>7. at + 1 \in Nat /\ at + 1 = 6 + a + b
  BY <1>5
<1>8. desc.form_type = PTP_EnumerationForm =>
        SubSeq(behind, 3, 2 + EnumLength(Drop(behind, 2), type,
                                         Read(behind, 0, 2)))
          = EncodeAll(type, desc.form)
  <2> SUFFICES ASSUME desc.form_type = PTP_EnumerationForm
               PROVE  SubSeq(behind, 3, 2 + EnumLength(Drop(behind, 2), type,
                                                       Read(behind, 0, 2)))
                        = EncodeAll(type, desc.form)
    OBVIOUS
  <2>1. PICK n \in Nat : n = Len(desc.form)
    BY <1>1
  <2>2. n < Limit(2) /\ AllData(type, desc.form, n)
    BY <1>1, <1>3, <2>1, Widths
  <2>3. PICK e, c : e = EncodeAll(type, desc.form) /\ c = ToBytes(n, 2)
    OBVIOUS
  <2>4. e \in Seq(Byte) /\ c \in Seq(Byte)
    <3>1. e \in Seq(Byte)
      BY <1>1, <1>3, <2>2, <2>3, AllLaidOut
    <3>2. c \in Seq(Byte)
      BY <2>3, BytesSeq
    <3> QED BY <3>1, <3>2
  <2>5. Lies(d, at + 1, c) /\ Lies(d, at + 1 + 2, e)
    <3>1. Lies(d, 6 + a + b, c) /\ Lies(d, 8 + a + b, e)
      BY <1>2, <1>3, <2>1, <2>3, Zenon DEF PartsRead
    <3>2. at + 1 + 2 = 8 + a + b
      BY <1>5
    <3> QED BY <1>7, <3>1, <3>2, Zenon
  <2>6. /\ behind \in Seq(Byte) /\ Lies(behind, 0, c) /\ Lies(behind, 2, e)
    <3>1. PICK p \in Nat : p = at + 1
      BY <1>7
    <3>2. Lies(d, p + 0, c) /\ Lies(d, p + 2, e)
      BY <2>5, <3>1
    <3>3. p <= Len(d)
      <4>1. p + 2 + Len(e) <= Len(d) /\ Len(e) \in Nat /\ Len(d) \in Nat
        BY <2>4, <3>2 DEF Lies
      <4> QED BY <4>1
    <3>4. 0 \in Nat /\ 2 \in Nat
      OBVIOUS
    <3>5. behind = Drop(d, p)
      BY <1>6, <3>1
    <3>6. behind \in Seq(Byte)
      BY <3>3, <3>5, Dropped
    <3>7. Lies(behind, 0, c) /\ Lies(behind, 2, e)
      BY <2>4, <3>2, <3>4, <3>5, DropLies, Zenon
    <3> QED BY <3>6, <3>7
  <2>7. Read(behind, 0, 2) = n
    <3>1. 2 \in {1, 2, 4} /\ 0 \in Nat
      OBVIOUS
    <3> QED BY <2>2, <2>3, <2>6, <3>1, ReadThere, Zenon
  <2>8. EnumLength(Drop(behind, 2), type, n) = Len(e)
    <3>1. 2 \in Nat /\ 0 \in Nat /\ 2 + 0 = 2
      OBVIOUS
    <3>2. PICK r : r = Drop(behind, 2)
      OBVIOUS
    <3>3. Lies(r, 0, e)
      BY <2>4, <2>6, <3>1, <3>2, DropLies, Zenon
    <3>4. 2 <= Len(behind)
      <4>1. 2 + Len(e) <= Len(behind) /\ Len(e) \in Nat /\ Len(behind) \in Nat
        BY <2>4, <2>6 DEF Lies
      <4> QED BY <4>1
    <3>5. r \in Seq(Byte)
      BY <2>6, <3>1, <3>2, <3>4, Dropped
    <3>6. type \in DOMAIN TypeCode
      BY <1>1, <1>3
    <3> QED BY <2>2, <2>3, <3>2, <3>3, <3>5, <3>6, EnumRead
  <2>9. SubSeq(behind, 2 + 1, 2 + Len(e)) = e
    <3>1. 2 \in Nat
      OBVIOUS
    <3> QED BY <2>4, <2>6, <3>1, Taken
  <2>10. 2 + 1 = 3
    OBVIOUS
  <2> QED BY <2>3, <2>7, <2>8, <2>9, <2>10, Zenon
<1>9. desc.form_type = PTP_RangeForm =>
        [i \in 1..3 |-> ReadData(Drop(behind, (i - 1) * PropSize(behind, type)),
                                 type)] = desc.form
  <2> SUFFICES ASSUME desc.form_type = PTP_RangeForm
               PROVE  [i \in 1..3 |->
                         ReadData(Drop(behind, (i - 1) * PropSize(behind, type)),
                                  type)] = desc.form
    OBVIOUS
  <2>1. type \in DOMAIN Small /\ Len(desc.form) = 3
    BY <1>1, <1>3
  <2>2. AllData(type, desc.form, 3) /\ 3 \in Nat
    BY <1>1, <1>3, <2>1
  <2>3. PICK e : e = EncodeAll(type, desc.form)
    OBVIOUS
  <2>4. e \in Seq(Byte)
    BY <1>1, <1>3, <2>2, <2>3, AllLaidOut
  <2>5. PICK p \in Nat : p = at + 1 /\ p = 6 + a + b
    BY <1>7
  <2>6. Lies(d, p, e) /\ p + 0 = p /\ 0 \in Nat
    BY <1>2, <1>3, <2>3, <2>5 DEF PartsRead
  <2>7. behind = Drop(d, p)
    BY <1>6, <2>5
  <2>8. behind \in Seq(Byte)
    <3>1. p + Len(e) <= Len(d) /\ Len(e) \in Nat /\ Len(d) \in Nat
      BY <2>4, <2>6 DEF Lies
    <3>2. p <= Len(d)
      BY <3>1
    <3> QED BY <2>7, <3>2, Dropped
  <2>9. Lies(behind, 0, e)
    BY <2>4, <2>6, <2>7, DropLies, Zenon
  <2>10. \A i \in 1..3 :
           ReadData(Drop(behind, (i - 1) * Small[type]), type) = desc.form[i]
    BY <2>1, <2>2, <2>3, <2>8, <2>9, EachRead
  <2>11. PropSize(behind, type) = Small[type]
    BY <2>1, SmallTypes DEF PropSize, Item
  <2>12. desc.form = [i \in 1..3 |-> desc.form[i]]
    BY <1>1, <2>1
  <2> QED BY <2>10, <2>11, <2>12, Zenon
<1>10. PICK x : x = Drop(d, 5) /\ a = PropSize(x, type)
  BY <1>2, <1>3, Zenon DEF PartsRead
<1>11. PICK y : y = Drop(d, 5 + a) /\ b = PropSize(y, type)
  BY <1>2, <1>3, Zenon DEF PartsRead
<1>12. /\ Read(d, 0, 2) = desc.code /\ Read(d, 4, 1) = desc.read_only
       /\ ReadData(x, type) = desc.default /\ ReadData(y, type) = desc.current
       /\ Read(d, at, 1) = desc.form_type
  BY <1>2, <1>3, <1>5, <1>10, <1>11, Zenon DEF PartsRead
<1>13. PTP_RangeForm # PTP_EnumerationForm
  BY DEF PTP_RangeForm, PTP_EnumerationForm
<1> DEFINE form ==
      CASE Read(d, at, 1) = PTP_RangeForm ->
             [i \in 1..3 |-> ReadData(Drop(behind, (i - 1) * PropSize(behind, type)),
                                      type)]
        [] Read(d, at, 1) = PTP_EnumerationForm ->
             SubSeq(behind, 3, 2 + EnumLength(Drop(behind, 2), type,
                                              Read(behind, 0, 2)))
        [] OTHER -> "panic"
<1>14. form = FormOf(desc)
  <2>1. CASE desc.form_type = PTP_RangeForm
    <3>1. form = [i \in 1..3 |->
                   ReadData(Drop(behind, (i - 1) * PropSize(behind, type)), type)]
      BY <1>12, <1>13, <2>1
    <3>2. FormOf(desc) = desc.form
      BY <1>13, <2>1, Zenon DEF FormOf
    <3> HIDE DEF form
    <3> QED BY <1>9, <2>1, <3>1, <3>2, Zenon
  <2>2. CASE desc.form_type = PTP_EnumerationForm
    <3>1. form = SubSeq(behind, 3, 2 + EnumLength(Drop(behind, 2), type,
                                                  Read(behind, 0, 2)))
      BY <1>12, <1>13, <2>2
    <3>2. FormOf(desc) = EncodeAll(type, desc.form)
      BY <1>3, <2>2, Zenon DEF FormOf
    <3> HIDE DEF form
    <3> QED BY <1>8, <2>2, <3>1, <3>2, Zenon
  <2> HIDE DEF form
  <2> QED BY <1>1, <2>1, <2>2
<1>15. ParseDesc(d) = [code |-> Read(d, 0, 2), data_type |-> type,
                       read_only |-> Read(d, 4, 1),
                       default |-> ReadData(x, type),
                       current |-> ReadData(y, type),
                       form_type |-> Read(d, at, 1), form |-> form]
  <2>1. ParseDesc(d)
          = LET s == CHOOSE t \in DOMAIN TypeCode : TypeCode[t] = Read(d, 2, 2)
                current == 5 + PropSize(Drop(d, 5), s)
                place == current + PropSize(Drop(d, current), s)
            IN AsParsed(d, s, current, place, Drop(d, place + 1))
    BY Zenon DEF ParseDesc, AsParsed
  <2>2. at = 5 + a + PropSize(Drop(d, 5 + a), type)
    BY <1>5, <1>11, Zenon
  <2>3. ParseDesc(d) = AsParsed(d, type, 5 + a, at, behind)
    BY <1>4, <1>6, <1>10, <2>1, <2>2, Zenon
  <2>4. Drop(d, 5) = x /\ Drop(d, 5 + a) = y
    BY <1>10, <1>11, Zenon
  <2> QED BY <2>3, <2>4, Zenon DEF AsParsed
<1> HIDE DEF form
<1>16. PICK f : f = FormOf(desc)
  OBVIOUS
<1>17. [desc EXCEPT !.form = f]
         = [code |-> desc.code, data_type |-> desc.data_type,
            read_only |-> desc.read_only,
            default |-> desc.default, current |-> desc.current,
            form_type |-> desc.form_type, form |-> f]
  BY DescriptionSays
<1>18. desc.data_type = type /\ form = f
  BY <1>3, <1>14, <1>16, Zenon
<1> QED BY <1>12, <1>15, <1>16, <1>17, <1>18, Zenon
-----------------------------------------------------------------------------
(* The numbers a description lists.                                        *)

\* A product grows with its first factor.
LEMMA TimesMore ==
  ASSUME NEW a \in Int, NEW b \in Int, NEW s \in Nat, a <= b
  PROVE  a * s <= b * s
<1>1. PICK c \in Nat : b = a + c
  <2>1. b - a \in Nat /\ b = a + (b - a)
    OBVIOUS
  <2> QED BY <2>1
<1>2. (a + c) * s = a * s + c * s /\ c * s >= 0 /\ a * s \in Int /\ c * s \in Int
  OBVIOUS
<1>3. b * s = a * s + c * s
  BY <1>1, <1>2
<1> QED BY <1>2, <1>3

\* What a division leaves out is less than its divisor.
LEMMA Divided ==
  ASSUME NEW x \in Nat, NEW s \in Nat, s > 0
  PROVE  /\ x \div s \in Nat /\ (x \div s) * s <= x
         /\ x < (x \div s) * s + s
<1> QED OBVIOUS

\* In a range the last number is the first that is not a step below its end.
LEMMA RangeLast ==
  ASSUME NEW min \in Int, NEW max \in Int, NEW step \in Nat, step > 0, max > min,
         NEW n \in Nat, n = (max - min + step - 1) \div step, NEW i \in 1..n
  PROVE  min + (i - 1) * step < max - step <=> i # n
<1>1. PICK x \in Nat : x = max - min + step - 1
  <2>1. max - min + step - 1 \in Nat
    OBVIOUS
  <2> QED BY <2>1
<1>2. n * step <= x /\ x < n * step + step
  BY <1>1, Divided
<1>3. PICK p \in Int, q \in Int : p = n * step /\ q = i * step
  OBVIOUS
<1>4. (i - 1) * step = q - step
  BY <1>3
<1>5. i # n => q + step <= p
  <2>1. i # n => i + 1 <= n
    OBVIOUS
  <2>2. i # n => (i + 1) * step <= n * step
    BY <2>1, TimesMore
  <2>3. (i + 1) * step = i * step + step
    OBVIOUS
  <2> QED BY <1>3, <2>2, <2>3
<1>6. i = n => q = p
  BY <1>3
<1>7. p <= x /\ x < p + step
  BY <1>2, <1>3
<1>8. min + (i - 1) * step = min + q - step
  BY <1>3, <1>4
<1>9. min + q - step < max - step <=> i # n
  BY <1>1, <1>5, <1>6, <1>7
<1> QED BY <1>8, <1>9

\* Of a parsed description the form is what FormOf says, the rest is as sent.
LEMMA Described ==
  ASSUME NEW desc, Description(desc),
         NEW p, p = [desc EXCEPT !.form = FormOf(desc)]
  PROVE  /\ p.form = FormOf(desc) /\ p.form_type = desc.form_type
         /\ p.data_type = desc.data_type
<1>1. PICK f : f = FormOf(desc)
  OBVIOUS
<1>2. p = [code |-> desc.code, data_type |-> desc.data_type,
           read_only |-> desc.read_only,
           default |-> desc.default, current |-> desc.current,
           form_type |-> desc.form_type, form |-> f]
  <2>1. [desc EXCEPT !.form = f]
         = [code |-> desc.code, data_type |-> desc.data_type,
            read_only |-> desc.read_only,
            default |-> desc.default, current |-> desc.current,
            form_type |-> desc.form_type, form |-> f]
    BY DescriptionSays
  <2> QED BY <1>1, <2>1, Zenon
<1>3. /\ p.form = f /\ p.form_type = desc.form_type
      /\ p.data_type = desc.data_type
  BY <1>2
<1> QED BY <1>1, <1>3, Zenon

\* A number of a type is an integer.
LEMMA IntOf ==
  ASSUME NEW type \in DOMAIN Small, NEW v, DataOf(type, v)
  PROVE  v[1] \in Int
<1>1. v \in Seq(Numbers[type]) /\ Len(v) = 1
  BY DEF DataOf
<1>2. v[1] \in Numbers[type]
  <2>1. PICK S : S = Numbers[type]
    OBVIOUS
  <2>2. v \in Seq(S) /\ 1 \in 1..Len(v)
    BY <1>1, <2>1
  <2> QED BY <2>1, <2>2
<1>3. Byte \subseteq Int /\ U16 \subseteq Int /\ I16 \subseteq Int
      /\ I32 \subseteq Int
  BY DEF Byte, U16, I16, I32, U32
<1>4. Numbers[type] \subseteq Int
  <2>1. Numbers[type] \in {Byte, U16, I16, I32}
    BY DEF Numbers, Small
  <2> QED BY <1>3, <2>1, Zenon
<1> QED BY <1>2, <1>4

\* The numbers of an enumeration are listed, with a separator behind each but
\* the last.
LEMMA EnumListed ==
  ASSUME NEW desc, Description(desc), desc.data_type \in DOMAIN Small,
         desc.form_type = PTP_EnumerationForm,
         NEW p, p = [desc EXCEPT !.form = FormOf(desc)]
  PROVE  /\ ValidEntries(p) = [i \in 1..Len(desc.form) |-> desc.form[i][1]]
         /\ \A i \in DOMAIN ValidEntries(p) :
              Separated(p, i) <=> i # Len(ValidEntries(p))
<1>1. PICK type, e : type = desc.data_type /\ e = EncodeAll(type, desc.form)
  OBVIOUS
<1>2. p.form = e /\ p.form_type = PTP_EnumerationForm /\ p.data_type = type
  BY <1>1, Described DEF FormOf
<1>3. PICK n \in Nat : n = Len(desc.form)
  BY DescriptionSays
<1>4. AllData(type, desc.form, n) /\ type \in DOMAIN TypeCode
  BY <1>1, <1>3, DescriptionSays
<1>5. PICK w \in {1, 2, 4} : w = Small[type]
  BY <1>1, SmallTypes
<1>6. e \in Seq(Byte) /\ Lies(e, 0, e)
  <2>1. e \in Seq(Byte)
    BY <1>1, <1>4, AllLaidOut
  <2> QED BY <2>1 DEF Lies
<1>7. /\ Len(e) = w * n
      /\ \A i \in 1..n : ReadData(Drop(e, (i - 1) * w), type) = desc.form[i]
  BY <1>1, <1>4, <1>5, <1>6, EachRead
<1>8. Len(e) \div w = n
  <2>1. w = 1 \/ w = 2 \/ w = 4
    OBVIOUS
  <2> QED BY <1>7, <2>1
<1>9. ValidEntries(p)
        = [i \in 1..(Len(e) \div w) |->
             ReadData(Drop(e, (i - 1) * w), type)[1]]
  <2>1. ValidEntries(p)
          = [i \in 1..(Len(p.form) \div Small[p.data_type]) |->
               ReadData(Drop(p.form, (i - 1) * Small[p.data_type]),
                        p.data_type)[1]]
    BY <1>2 DEF ValidEntries
  <2> QED BY <1>2, <1>5, <2>1, Zenon
<1>10. ValidEntries(p) = [i \in 1..n |-> desc.form[i][1]]
  BY <1>7, <1>8, <1>9, Zenon
<1>11. Len(ValidEntries(p)) = n /\ DOMAIN ValidEntries(p) = 1..n
  BY <1>10
<1>12. ASSUME NEW i \in 1..n PROVE Separated(p, i) <=> i # n
  <2>1. Separated(p, i) <=> i - 1 < n - 1
    BY <1>2, <1>11 DEF Separated
  <2> QED BY <2>1
<1> QED BY <1>3, <1>10, <1>11, <1>12, Zenon

\* The numbers of a range are listed with a separator behind each but the last.
LEMMA RangeListed ==
  ASSUME NEW desc, Description(desc), desc.form_type = PTP_RangeForm,
         NEW p, p = [desc EXCEPT !.form = FormOf(desc)]
  PROVE  \A i \in DOMAIN ValidEntries(p) :
           Separated(p, i) <=> i # Len(ValidEntries(p))
<1>1. desc.data_type \in DOMAIN Small /\ Len(desc.form) = 3
      /\ desc.form[3][1] > 0 /\ AllData(desc.data_type, desc.form, 3)
  BY DescriptionSays
<1>2. PTP_RangeForm # PTP_EnumerationForm
  BY DEF PTP_RangeForm, PTP_EnumerationForm
<1>3. p.form = desc.form /\ p.form_type # PTP_EnumerationForm
  BY <1>2, Described DEF FormOf
<1>4. PICK min \in Int, max \in Int, step \in Nat :
        /\ min = desc.form[1][1] /\ max = desc.form[2][1]
        /\ step = desc.form[3][1] /\ step > 0
  <2>1. \A i \in 1..3 : DataOf(desc.data_type, desc.form[i])
    BY <1>1 DEF AllData
  <2>2. 1 \in 1..3 /\ 2 \in 1..3 /\ 3 \in 1..3
    OBVIOUS
  <2>3. /\ desc.form[1][1] \in Int /\ desc.form[2][1] \in Int
        /\ desc.form[3][1] \in Int
    BY <1>1, <2>1, <2>2, IntOf
  <2> QED BY <1>1, <2>3
<1>5. PICK n : n = IF max > min THEN (max - min + step - 1) \div step ELSE 0
  OBVIOUS
<1>6. ValidEntries(p) = [i \in 1..n |-> min + (i - 1) * step]
  <2>1. ValidEntries(p)
          = [i \in 1..(IF p.form[2][1] > p.form[1][1]
                       THEN (p.form[2][1] - p.form[1][1] + p.form[3][1] - 1)
                              \div p.form[3][1]
                       ELSE 0) |-> p.form[1][1] + (i - 1) * p.form[3][1]]
    BY <1>3 DEF ValidEntries
  <2>2. p.form[1][1] = min /\ p.form[2][1] = max /\ p.form[3][1] = step
    BY <1>3, <1>4, Zenon
  <2> QED BY <1>5, <2>1, <2>2, Zenon
<1>7. n \in Nat
  <2>1. CASE max > min
    <3>1. PICK x \in Nat : x = max - min + step - 1
      <4>1. max - min + step - 1 \in Nat
        BY <2>1
      <4> QED BY <4>1
    <3>2. x \div step \in Nat
      BY <1>4, <3>1, Divided
    <3> QED BY <1>5, <2>1, <3>1, <3>2
  <2>2. CASE ~(max > min)
    BY <1>5, <2>2
  <2> QED BY <2>1, <2>2
<1>8. PICK v : v = ValidEntries(p)
  OBVIOUS
<1>9. DOMAIN v = 1..n /\ Len(v) = n
      /\ \A i \in 1..n : v[i] = min + (i - 1) * step
  BY <1>6, <1>7, <1>8
<1>10. ASSUME NEW i \in 1..n PROVE Separated(p, i) <=> i # n
  <2>1. max > min /\ n = (max - min + step - 1) \div step
    BY <1>5
  <2>2. min + (i - 1) * step < max - step <=> i # n
    BY <1>4, <1>7, <2>1, RangeLast
  <2>3. Separated(p, i) <=> v[i] < max - step
    BY <1>3, <1>4, <1>8, Zenon DEF Separated
  <2> QED BY <1>9, <2>2, <2>3
<1> QED BY <1>8, <1>9, <1>10, Zenon

\* A property description is parsed to what the camera described, and its
\* numbers are listed with a separator behind each but the last.
LEMMA PackedDescription == CommandOK /\ Shape /\ PackedOK => DescriptionParsed
<1> SUFFICES ASSUME CommandOK, Shape, PackedOK, stage = "answered",
                    answer.kind = "desc"
             PROVE  DescriptionParsed
  BY DEF DescriptionParsed
<1>1. PICK desc \in Descriptions :
        answer.content = desc /\ answer.payload = EncodeDesc(desc)
  BY DEF PackedOK
<1>2. Description(desc)
  BY EncodingAssumption
<1>3. answer.kind # "none"
  OBVIOUS
<1>4. PICK d : d = ptp_get_payload
  OBVIOUS
<1>5. d \in Seq(Byte) /\ Lies(d, 0, EncodeDesc(desc))
  BY <1>1, <1>3, <1>4, PayloadThere, Zenon
<1>6. PICK p : p = ParseDesc(d)
  OBVIOUS
<1>7. p = [desc EXCEPT !.form = FormOf(desc)]
  BY <1>2, <1>5, <1>6, DescriptionRead, Zenon
<1>8. desc.data_type \in DOMAIN Small =>
        /\ \A i \in DOMAIN ValidEntries(p) :
             Separated(p, i) <=> i # Len(ValidEntries(p))
        /\ desc.form_type = PTP_EnumerationForm =>
             ValidEntries(p) = [i \in 1..Len(desc.form) |-> desc.form[i][1]]
  <2>1. desc.form_type \in {PTP_RangeForm, PTP_EnumerationForm}
    BY <1>2, DescriptionSays
  <2>2. PTP_RangeForm # PTP_EnumerationForm
    BY DEF PTP_RangeForm, PTP_EnumerationForm
  <2>3. CASE desc.form_type = PTP_RangeForm
    BY <1>2, <1>7, <2>2, <2>3, RangeListed, Zenon
  <2>4. CASE desc.form_type = PTP_EnumerationForm
    BY <1>2, <1>7, <2>4, EnumListed, Zenon
  <2> QED BY <2>1, <2>3, <2>4
<1> QED BY <1>1, <1>4, <1>6, <1>7, <1>8, Zenon DEF DescriptionParsed, FormOf

\* It is in every state: for each type the library knows, each form and every
\* value, the sizes of the parts taken from the bytes themselves.
THEOREM DescriptionParsedHolds == Spec => []DescriptionParsed
<1>1. Init => Shape /\ PackedOK
  BY DEF Init, Shape, PackedOK
<1> QED BY <1>1, CommandInit, CommandNext, ShapeNext, PackedNext,
        PackedDescription, PTL DEF Spec

\* What is parsed is what was packed: structures, descriptions and values.
THEOREM ParsedAsPackedHolds == Spec => []ParsedAsPacked
BY StructureParsedHolds, DescriptionParsedHolds, ValueParsedHolds, PTL
   DEF ParsedAsPacked
-----------------------------------------------------------------------------
(* The tables of values.                                                   *)

\* ISO 640 has no code of its own.
OwnCode(v) == v # 640

\* A row with the data of an earlier one has its value, or no code of its own.
OneValue(table) ==
  \A i \in DOMAIN table, j \in DOMAIN table :
    table[i][2] = table[j][2] /\ j <= i /\ OwnCode(table[i][1]) =>
      table[j][1] = table[i][1]

\* The codes of the shutter speeds are distinct.
LEMMA ShutterRows ==
  OneValue(canon_shutter) /\ DOMAIN canon_shutter \subseteq Nat
<1>1. DOMAIN canon_shutter = 1..57
  BY DEF canon_shutter
<1>2. \A i \in 1..57, j \in 1..57 :
        canon_shutter[i][2] = canon_shutter[j][2] => i = j
  BY SMTT(60) DEF canon_shutter
<1>3. DOMAIN canon_shutter \subseteq Nat
  BY <1>1
<1>4. ASSUME NEW i \in DOMAIN canon_shutter, NEW j \in DOMAIN canon_shutter,
             canon_shutter[i][2] = canon_shutter[j][2]
      PROVE  i = j
  BY <1>1, <1>2, <1>4
<1> QED BY <1>3, <1>4, Zenon DEF OneValue

\* Those of the ISO speeds are too, but for the later of two rows.
LEMMA IsoRows == OneValue(canon_iso) /\ DOMAIN canon_iso \subseteq Nat
<1>1. DOMAIN canon_iso = 1..18
  BY DEF canon_iso
<1>2. \A i \in 1..18, j \in 1..18 :
        canon_iso[i][2] = canon_iso[j][2] /\ j <= i /\ canon_iso[i][1] # 640 =>
          i = j
  BY DEF canon_iso
<1> QED BY <1>1, <1>2 DEF OneValue, OwnCode

\* Those of the white balances are distinct,
LEMMA WhiteBalanceRows ==
  OneValue(canon_white_balance) /\ DOMAIN canon_white_balance \subseteq Nat
<1>1. DOMAIN canon_white_balance = 1..4
  BY DEF canon_white_balance
<1>2. \A i \in 1..4, j \in 1..4 :
        canon_white_balance[i][2] = canon_white_balance[j][2] => i = j
  BY DEF canon_white_balance
<1> QED BY <1>1, <1>2 DEF OneValue

\* and those of the apertures.
LEMMA ApertureRows ==
  OneValue(canon_aperture) /\ DOMAIN canon_aperture \subseteq Nat
<1>1. DOMAIN canon_aperture = 1..29
  BY SMTT(60) DEF canon_aperture
<1>2. \A i \in 1..29, j \in 1..29 :
        canon_aperture[i][2] = canon_aperture[j][2] => i = j
  BY SMTT(60) DEF canon_aperture
<1> QED BY <1>1, <1>2 DEF OneValue

\* So a row of any table whose code an earlier one has is ISO 640.
LEMMA TableRows ==
  ASSUME NEW code \in DOMAIN Table
  PROVE  OneValue(Table[code]) /\ DOMAIN Table[code] \subseteq Nat
<1>1. Table[code] \in {canon_shutter, canon_iso, canon_white_balance,
                       canon_aperture}
  BY DEF Table
<1> QED BY <1>1, ShutterRows, IsoRows, WhiteBalanceRows, ApertureRows, Zenon

\* A row has x in this column.
Has(table, from, x, i) == i \in DOMAIN table /\ table[i][from] = x

\* What is looked up is in the first of the rows that have it.
LEMMA FirstRow ==
  ASSUME NEW table, DOMAIN table \subseteq Nat, NEW from, NEW x, NEW i,
         Has(table, from, x, i)
  PROVE  \E m : /\ Has(table, from, x, m) /\ m <= i
                /\ First(table, from, x) = {table[m][3 - from]}
<1> DEFINE rows == {k \in DOMAIN table : table[k][from] = x}
<1>1. PICK m \in rows : \A k \in rows : m <= k
  <2>1. rows \in SUBSET Nat /\ i \in rows
    BY DEF Has
  <2> HIDE DEF rows
  <2> QED BY <2>1, LeastNat
<1>2. Has(table, from, x, m) /\ m <= i
  BY <1>1 DEF Has
<1>3. rows \subseteq Nat
  OBVIOUS
<1>4. First(table, from, x)
        = {table[k][3 - from] : k \in {j \in rows : \A l \in rows : j <= l}}
  BY Zenon DEF First
<1> HIDE DEF rows
<1>5. {j \in rows : \A l \in rows : j <= l} = {m}
  <2>1. ASSUME NEW j \in rows, \A l \in rows : j <= l PROVE j = m
    <3>1. j <= m /\ m <= j /\ j \in Nat /\ m \in Nat
      BY <1>1, <1>3, <2>1
    <3> QED BY <3>1
  <2> QED BY <1>1, <2>1, Zenon
<1>6. First(table, from, x) = {table[m][3 - from]}
  BY <1>4, <1>5, Zenon
<1> QED BY <1>2, <1>6, Zenon

\* A value has one code, and that code the value.
LEMMA ThereAndBack ==
  ASSUME NEW code \in DOMAIN Table, NEW v, NEW i, Has(Table[code], 1, v, i),
         OwnCode(v)
  PROVE  \E d : ToData(code, v) = {d} /\ ToValue(code, d) = {v}
<1>1. PICK table : table = Table[code]
  OBVIOUS
<1>2. OneValue(table) /\ DOMAIN table \subseteq Nat
  BY <1>1, TableRows, Zenon
<1>3. Has(table, 1, v, i)
  BY <1>1, Zenon
<1>4. PICK m : Has(table, 1, v, m) /\ First(table, 1, v) = {table[m][3 - 1]}
  BY <1>2, <1>3, FirstRow, Zenon
<1>5. PICK d : d = table[m][2]
  OBVIOUS
<1>6. PICK l : /\ Has(table, 2, d, l) /\ l <= m
               /\ First(table, 2, d) = {table[l][3 - 2]}
  <2>1. Has(table, 2, d, m)
    BY <1>4, <1>5, Zenon DEF Has
  <2> QED BY <1>2, <2>1, FirstRow, Zenon
<1>7. table[l][1] = v
  <2>1. /\ m \in DOMAIN table /\ l \in DOMAIN table /\ table[m][2] = table[l][2]
        /\ table[m][1] = v
    BY <1>4, <1>5, <1>6, Zenon DEF Has
  <2>2. table[m][2] = table[l][2] /\ l <= m /\ OwnCode(table[m][1]) =>
          table[l][1] = table[m][1]
    BY <1>2, <2>1, Zenon DEF OneValue
  <2> QED BY <1>6, <2>1, <2>2, Zenon
<1>8. 3 - 1 = 2 /\ 3 - 2 = 1
  OBVIOUS
<1>9. First(table, 1, v) = {d}
  BY <1>4, <1>5, <1>8, Zenon
<1>10. First(table, 2, d) = {v}
  BY <1>6, <1>7, <1>8, Zenon
<1> QED BY <1>1, <1>9, <1>10, Zenon DEF ToData, ToValue

\* A code is reported as its value.
LEMMA ReportedAs ==
  ASSUME NEW code \in DOMAIN Table, NEW d, NEW v, ToValue(code, d) = {v}
  PROVE  Reported(code, <<d>>) = v
<1>1. code # "BatteryPower" /\ code # "ImageFormat"
  BY DEF Table
<1>2. <<d>>[1] = d
  OBVIOUS
<1>3. (CHOOSE x \in {v} : TRUE) = v
  OBVIOUS
<1>4. Reported(code, <<d>>)
        = IF ToValue(code, d) = {} THEN d ELSE CHOOSE x \in ToValue(code, d) : TRUE
  BY <1>1, <1>2 DEF Reported
<1> QED BY <1>3, <1>4

\* A value that was set comes from a table.
ShownOK ==
  stage = "reported" =>
    \E code \in DOMAIN Table : \E i \in DOMAIN Table[code] :
      LET v == Table[code][i][1] IN
      value = [code |-> code, set |-> v,
               shown |-> {Reported(code, <<d>>) : d \in ToData(code, v)}]

\* Every step keeps it.
LEMMA ShownNext == ShownOK /\ [Next]_vars => ShownOK'
<1> SUFFICES ASSUME ShownOK, [Next]_vars PROVE ShownOK'
  OBVIOUS
<1>1. CASE SetThenReported
  BY <1>1, Zenon DEF SetThenReported, ShownOK
<1>2. CASE Ask \/ AskIn \/ SendPayload \/ Answered
  <2>1. stage' # "reported"
    BY <1>2 DEF Ask, AskIn, SendPayload, Answered
  <2> QED BY <2>1 DEF ShownOK
<1>3. CASE UNCHANGED vars
  BY <1>3 DEF ShownOK, vars
<1> QED BY <1>1, <1>2, <1>3 DEF Next

\* It makes what is shown what was set.
LEMMA ShownRead == ShownOK => ShownAsSet
<1> SUFFICES ASSUME ShownOK, stage = "reported", value.set # 640
             PROVE  value.shown = {value.set}
  BY DEF ShownAsSet
<1>0. PICK code \in DOMAIN Table :
        \E i \in DOMAIN Table[code] :
          LET v == Table[code][i][1] IN
          value = [code |-> code, set |-> v,
                   shown |-> {Reported(code, <<d>>) : d \in ToData(code, v)}]
  BY Zenon DEF ShownOK
<1>1. PICK i \in DOMAIN Table[code] :
        LET v == Table[code][i][1] IN
        value = [code |-> code, set |-> v,
                 shown |-> {Reported(code, <<d>>) : d \in ToData(code, v)}]
  BY <1>0, Zenon
<1>2. PICK v, s : /\ v = Table[code][i][1]
                  /\ s = {Reported(code, <<d>>) : d \in ToData(code, v)}
  OBVIOUS
<1>3. value = [code |-> code, set |-> v, shown |-> s]
  BY <1>1, <1>2, Zenon
<1>4. value.set = v /\ value.shown = s
  BY <1>3
<1>5. PICK d : ToData(code, v) = {d} /\ ToValue(code, d) = {v}
  <2>1. Has(Table[code], 1, v, i)
    BY <1>2, Zenon DEF Has
  <2>2. OwnCode(v)
    BY <1>4 DEF OwnCode
  <2> QED BY <2>1, <2>2, ThereAndBack, Zenon
<1>6. Reported(code, <<d>>) = v
  BY <1>5, ReportedAs, Zenon
<1>7. s = {v}
  <2>1. s = {Reported(code, <<c>>) : c \in {d}}
    BY <1>2, <1>5, Zenon
  <2> QED BY <1>6, <2>1
<1> QED BY <1>4, <1>7, Zenon

\* A property set to a value that a table knows is reported as that value;
\* ISO 640, whose row has the code of ISO 500, is the only exception.
THEOREM ShownAsSetHolds == Spec => []ShownAsSet
<1>1. Init => ShownOK
  BY DEF Init, ShownOK
<1> QED BY <1>1, ShownNext, ShownRead, PTL DEF Spec
=============================================================================
