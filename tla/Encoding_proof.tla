--------------------------- MODULE Encoding_proof ---------------------------
(***************************************************************************)
(* What is packed into r->data is what is read out of it, for all codes,   *)
(* transactions, parameters and payloads.                                  *)
(***************************************************************************)
EXTENDS Encoding, SequenceTheorems, NaturalsInduction, WellFoundedInduction,
        TLAPS

\* The largest number of a width, and one more.
Limit(width) ==
  IF width = 1 THEN 256 ELSE IF width = 2 THEN 65536 ELSE 65536 * 65536
-----------------------------------------------------------------------------
(* Numbers.                                                                *)

\* The numbers of two and of four bytes are those below the limit.
LEMMA Widths ==
  /\ \A n : n \in U16 <=> n \in Nat /\ n < Limit(2)
  /\ \A n : n \in U32 <=> n \in Nat /\ n < Limit(4)
  /\ U16 \subseteq U32
<1>1. Limit(2) = 65536 /\ Limit(4) = 65536 * 65536
  BY DEF Limit
<1>2. \A n \in Nat : n \div 65536 < 65536 <=> n < 65536 * 65536
  OBVIOUS
<1>3. ASSUME NEW n PROVE n \in U32 <=> n \in Nat /\ n < Limit(4)
  BY <1>1, <1>2 DEF U32
<1>4. ASSUME NEW n PROVE n \in U16 <=> n \in Nat /\ n < Limit(2)
  BY <1>1 DEF U16
<1>5. ASSUME NEW n \in Nat, n < Limit(2) PROVE n < Limit(4)
  <2>1. n < 65536
    BY <1>1, <1>5
  <2>2. n < 65536 * 65536
    BY <2>1
  <2> QED BY <1>1, <2>2
<1> QED BY <1>3, <1>4, <1>5

\* What is sent is a payload.
LEMMA Sent ==
  /\ \A s \in Structures : Payload(Pack(s[1], s[2]))
  /\ \A desc \in Descriptions : Payload(EncodeDesc(desc))
  /\ \A bmp \in Bitmaps : Payload(bmp)
<1>1. ASSUME NEW s \in Structures PROVE Payload(Pack(s[1], s[2]))
  <2>1. Structure(s)
    BY EncodingAssumption
  <2> QED BY <2>1, Zenon DEF Structure
<1>2. ASSUME NEW desc \in Descriptions PROVE Payload(EncodeDesc(desc))
  <2>1. Description(desc)
    BY EncodingAssumption
  <2> QED BY <2>1 DEF Description
<1>3. \A bmp \in Bitmaps : Payload(bmp)
  BY EncodingAssumption
<1> QED BY <1>1, <1>2, <1>3

\* The bytes of a number are a sequence.
LEMMA BytesSeq ==
  ASSUME NEW n \in Nat, NEW width \in 1..4
  PROVE  ToBytes(n, width) \in Seq(Byte) /\ Len(ToBytes(n, width)) = width
<1>1. /\ Weight[1] = 1 /\ Weight[2] = 256 /\ Weight[3] = 65536
      /\ Weight[4] = 16777216
  BY DEF Weight
<1>2. \A i \in 1..width : i = 1 \/ i = 2 \/ i = 3 \/ i = 4
  OBVIOUS
<1>3. \A i \in 1..width : (n \div Weight[i]) % 256 \in Byte
  BY <1>1, <1>2 DEF Byte
<1> QED BY <1>3 DEF ToBytes

\* A number of four bytes is made of them.
LEMMA Positional ==
  ASSUME NEW n \in Nat
  PROVE  /\ n < 256 => n % 256 = n
         /\ n < 65536 => (n % 256) + ((n \div 256) % 256) * 256 = n
         /\ n < 65536 * 65536 =>
              (n % 256) + ((n \div 256) % 256) * 256
                + ((n \div 65536) % 256) * 65536
                + ((n \div 16777216) % 256) * 16777216 = n
<1>1. n < 256 => n % 256 = n
  OBVIOUS
<1>2. n < 65536 => (n \div 256) % 256 = n \div 256
  OBVIOUS
<1>3. n = 256 * (n \div 256) + (n % 256)
  OBVIOUS
<1>4. (n \div 65536) = (n \div 256) \div 256
      /\ (n \div 16777216) = (n \div 65536) \div 256
  OBVIOUS
<1>5. /\ n \div 256 = 256 * (n \div 65536) + ((n \div 256) % 256)
      /\ n \div 65536 = 256 * (n \div 16777216) + ((n \div 65536) % 256)
  BY <1>4
<1>6. n < 65536 * 65536 => (n \div 16777216) % 256 = n \div 16777216
  OBVIOUS
<1> QED BY <1>1, <1>2, <1>3, <1>5, <1>6

\* Reading of each width, spelled out.
LEMMA ReadAs ==
  ASSUME NEW d, NEW of
  PROVE  /\ Read(d, of, 1) = d[of + 1] * 1 + 0 + 0 + 0
         /\ Read(d, of, 2) = d[of + 1] * 1 + d[of + 2] * 256 + 0 + 0
         /\ Read(d, of, 4) = d[of + 1] * 1 + d[of + 2] * 256
                               + d[of + 3] * 65536 + d[of + 4] * 16777216
BY DEF Read, Weight

\* A number that is at a place is read there.
LEMMA ReadNumber ==
  ASSUME NEW d \in Seq(Byte), NEW of \in Nat, NEW width \in {1, 2, 4},
         of + width <= Len(d), NEW n \in Nat, n < Limit(width),
         \A i \in 1..width : d[of + i] = ToBytes(n, width)[i]
  PROVE  Read(d, of, width) = n
<1> DEFINE b1 == n % 256
           b2 == (n \div 256) % 256
           b3 == (n \div 65536) % 256
           b4 == (n \div 16777216) % 256
           One == ToBytes(n, 1)
           Two == ToBytes(n, 2)
           Four == ToBytes(n, 4)
<1>4. /\ One[1] = b1 /\ Two[1] = b1 /\ Two[2] = b2
      /\ Four[1] = b1 /\ Four[2] = b2 /\ Four[3] = b3 /\ Four[4] = b4
  <2>1. /\ Weight[1] = 1 /\ Weight[2] = 256 /\ Weight[3] = 65536
        /\ Weight[4] = 16777216
    BY DEF Weight
  <2>2. n \div 1 = n
    OBVIOUS
  <2>3. One[1] = b1 /\ Two[1] = b1 /\ Four[1] = b1
    BY <2>1, <2>2 DEF ToBytes
  <2>4. Two[2] = b2
    <3>1. Two[2] = (n \div Weight[2]) % 256
      BY DEF ToBytes
    <3> QED BY <2>1, <3>1
  <2>7. Four[2] = b2
    <3>1. Four[2] = (n \div Weight[2]) % 256
      BY DEF ToBytes
    <3> QED BY <2>1, <3>1
  <2>5. Four[3] = b3
    <3>1. Four[3] = (n \div Weight[3]) % 256
      BY DEF ToBytes
    <3> QED BY <2>1, <3>1
  <2>6. Four[4] = b4
    <3>1. Four[4] = (n \div Weight[4]) % 256
      BY DEF ToBytes
    <3> QED BY <2>1, <3>1
  <2> QED BY <2>3, <2>4, <2>5, <2>6, <2>7
<1>5. /\ width = 1 => \A i \in 1..1 : d[of + i] = One[i]
      /\ width = 2 => \A i \in 1..2 : d[of + i] = Two[i]
      /\ width = 4 => \A i \in 1..4 : d[of + i] = Four[i]
  BY Zenon
<1>6. b1 \in Int /\ b2 \in Int /\ b3 \in Int /\ b4 \in Int
  OBVIOUS
<1>7. /\ n < 256 => b1 = n
      /\ n < 65536 => b1 + b2 * 256 = n
      /\ n < 65536 * 65536 => b1 + b2 * 256 + b3 * 65536 + b4 * 16777216 = n
  BY Positional
<1> HIDE DEF b1, b2, b3, b4, One, Two, Four
<1>1. CASE width = 1
  <2>1. d[of + 1] = b1
    BY <1>1, <1>4, <1>5
  <2>2. Read(d, of, 1) = b1
    BY <1>6, <2>1, ReadAs
  <2> QED BY <1>1, <1>7, <2>2 DEF Limit
<1>2. CASE width = 2
  <2>1. d[of + 1] = b1 /\ d[of + 2] = b2
    BY <1>2, <1>4, <1>5
  <2>2. Read(d, of, 2) = b1 * 1 + b2 * 256 + 0 + 0
    BY <2>1 DEF Read, Weight
  <2>3. b1 * 1 + b2 * 256 + 0 + 0 = b1 + b2 * 256
    BY <1>6
  <2> QED BY <1>2, <1>7, <2>2, <2>3 DEF Limit
<1>3. CASE width = 4
  <2>1. d[of + 1] = b1 /\ d[of + 2] = b2 /\ d[of + 3] = b3 /\ d[of + 4] = b4
    BY <1>3, <1>4, <1>5
  <2>2. Read(d, of, 4)
          = b1 * 1 + b2 * 256 + b3 * 65536 + b4 * 16777216
    BY <2>1 DEF Read, Weight
  <2>3. b1 * 1 + b2 * 256 + b3 * 65536 + b4 * 16777216
          = b1 + b2 * 256 + b3 * 65536 + b4 * 16777216
    BY <1>6
  <2> QED BY <1>3, <1>7, <2>2, <2>3 DEF Limit
<1> QED BY <1>1, <1>2, <1>3
-----------------------------------------------------------------------------
(* Places.                                                                 *)

\* The bytes e are at offset of in d.
Lies(d, of, e) ==
  of + Len(e) <= Len(d) /\ \A i \in 1..Len(e) : d[of + i] = e[i]

\* What is in a part is in the whole.
LEMMA LiesIn ==
  ASSUME NEW d \in Seq(Byte), NEW e \in Seq(Byte), NEW f \in Seq(Byte),
         NEW of \in Nat, NEW p \in Nat, Lies(d, of, e), Lies(e, p, f)
  PROVE  Lies(d, of + p, f)
<1>1. Len(d) \in Nat /\ Len(e) \in Nat /\ Len(f) \in Nat
  OBVIOUS
<1>2. of + p + Len(f) <= Len(d)
  BY <1>1 DEF Lies
<1>3. ASSUME NEW i \in 1..Len(f) PROVE d[(of + p) + i] = f[i]
  <2>1. (p + i) \in 1..Len(e) /\ (of + p) + i = of + (p + i)
    BY <1>1 DEF Lies
  <2>2. d[of + (p + i)] = e[p + i] /\ e[p + i] = f[i]
    BY <2>1 DEF Lies
  <2> QED BY <2>1, <2>2
<1> QED BY <1>2, <1>3 DEF Lies

\* The parts of what is put together.
LEMMA Joined ==
  ASSUME NEW a \in Seq(Byte), NEW b \in Seq(Byte)
  PROVE  /\ a \o b \in Seq(Byte) /\ Len(a \o b) = Len(a) + Len(b)
         /\ Len(a) \in Nat /\ Len(b) \in Nat
         /\ Lies(a \o b, 0, a) /\ Lies(a \o b, Len(a), b)
<1> DEFINE c == a \o b
<1>1. /\ c \in Seq(Byte) /\ Len(c) = Len(a) + Len(b)
      /\ Len(a) \in Nat /\ Len(b) \in Nat
      /\ \A i \in 1..(Len(a) + Len(b)) :
           c[i] = IF i <= Len(a) THEN a[i] ELSE b[i - Len(a)]
  BY ConcatProperties
<1> HIDE DEF c
<1>2. Lies(c, 0, a)
  BY <1>1 DEF Lies
<1>3. ASSUME NEW i \in 1..Len(b) PROVE c[Len(a) + i] = b[i]
  <2>1. Len(a) + i \in 1..(Len(a) + Len(b)) /\ ~(Len(a) + i <= Len(a))
        /\ (Len(a) + i) - Len(a) = i
    BY <1>1
  <2> QED BY <1>1, <2>1
<1>4. Lies(c, Len(a), b)
  BY <1>1, <1>3 DEF Lies
<1> QED BY <1>1, <1>2, <1>4 DEF c

\* A number that lies somewhere is read there.
LEMMA ReadThere ==
  ASSUME NEW d \in Seq(Byte), NEW of \in Nat, NEW width \in {1, 2, 4},
         NEW n \in Nat, n < Limit(width), Lies(d, of, ToBytes(n, width))
  PROVE  Read(d, of, width) = n
<1>1. Len(ToBytes(n, width)) = width
  <2>1. width \in 1..4
    OBVIOUS
  <2> QED BY <2>1, BytesSeq
<1>2. of + width <= Len(d)
      /\ \A i \in 1..width : d[of + i] = ToBytes(n, width)[i]
  BY <1>1 DEF Lies
<1> QED BY <1>2, ReadNumber

\* Each byte of the parameters, of which there are four for each.
LEMMA BytesAre ==
  ASSUME NEW params, NEW N, N = 4 * Len(params)
  PROVE  /\ Bytes(params) \in [1..N -> Range(Bytes(params))]
         /\ \A k \in 1..N :
              Bytes(params)[k] =
                ToBytes(params[((k - 1) \div 4) + 1], 4)[((k - 1) % 4) + 1]
  BY DEF Bytes, Range

\* The parameters are numbers of four bytes, one behind the other.
LEMMA Parameters ==
  ASSUME NEW params \in Seq(U32)
  PROVE  /\ Bytes(params) \in Seq(Byte)
         /\ Len(Bytes(params)) = 4 * Len(params)
         /\ \A i \in 1..Len(params) :
              Lies(Bytes(params), 4 * (i - 1), ToBytes(params[i], 4))
<1>1. PICK b : b = Bytes(params)
  OBVIOUS
<1>2. PICK n \in Nat : n = Len(params)
  OBVIOUS
<1>3. /\ b \in [1..(4 * n) -> Range(b)]
      /\ \A k \in 1..(4 * n) :
           b[k] = ToBytes(params[((k - 1) \div 4) + 1], 4)[((k - 1) % 4) + 1]
  BY <1>1, <1>2, BytesAre
<1>4. ASSUME NEW i \in 1..n
      PROVE  /\ params[i] \in Nat /\ ToBytes(params[i], 4) \in Seq(Byte)
             /\ Len(ToBytes(params[i], 4)) = 4
  <2>1. params[i] \in Nat
    BY <1>2, Widths
  <2> QED BY <2>1, BytesSeq
<1>5. ASSUME NEW k \in 1..(4 * n) PROVE b[k] \in Byte
  <2>1. ((k - 1) \div 4) + 1 \in 1..n /\ ((k - 1) % 4) + 1 \in 1..4
    OBVIOUS
  <2>2. PICK i \in 1..n, j \in 1..4 :
          i = ((k - 1) \div 4) + 1 /\ j = ((k - 1) % 4) + 1
    BY <2>1
  <2>3. b[k] = ToBytes(params[i], 4)[j]
    BY <1>3, <2>2
  <2> QED BY <1>4, <2>3
<1>6. b \in Seq(Byte) /\ Len(b) = 4 * n
  BY <1>3, <1>5
<1>7. ASSUME NEW i \in 1..n
      PROVE  Lies(b, 4 * (i - 1), ToBytes(params[i], 4))
  <2>1. ASSUME NEW j \in 1..4
        PROVE  b[4 * (i - 1) + j] = ToBytes(params[i], 4)[j]
    <3>1. PICK k \in 1..(4 * n) : k = 4 * (i - 1) + j
      OBVIOUS
    <3>2. ((k - 1) \div 4) + 1 = i /\ ((k - 1) % 4) + 1 = j
      BY <3>1
    <3>3. b[k] = ToBytes(params[((k - 1) \div 4) + 1], 4)[((k - 1) % 4) + 1]
      BY <1>3
    <3> QED BY <3>1, <3>2, <3>3
  <2>2. 4 * (i - 1) + 4 <= 4 * n
    OBVIOUS
  <2>3. Len(b) = 4 * n /\ Len(ToBytes(params[i], 4)) = 4
    BY <1>4, <1>6
  <2> QED BY <2>1, <2>2, <2>3, Zenon DEF Lies
<1> QED BY <1>1, <1>2, <1>6, <1>7

\* A part that is put behind others: what lies in them lies in the whole.
LEMMA Put ==
  ASSUME NEW a \in Seq(Byte), NEW b \in Seq(Byte)
  PROVE  /\ a \o b \in Seq(Byte) /\ Len(a \o b) = Len(a) + Len(b)
         /\ Lies(a \o b, Len(a), b)
         /\ \A e \in Seq(Byte), p \in Nat : Lies(a, p, e) => Lies(a \o b, p, e)
<1>1. /\ a \o b \in Seq(Byte) /\ Len(a \o b) = Len(a) + Len(b)
      /\ Lies(a \o b, 0, a) /\ Lies(a \o b, Len(a), b)
  BY Joined
<1>2. ASSUME NEW e \in Seq(Byte), NEW p \in Nat, Lies(a, p, e)
      PROVE  Lies(a \o b, p, e)
  <2>1. Lies(a \o b, 0 + p, e)
    BY <1>1, <1>2, LiesIn
  <2> QED BY <2>1
<1> QED BY <1>1, <1>2

\* The number of four bytes begins with the one of two.
LEMMA LowBytes ==
  ASSUME NEW n \in Nat
  PROVE  Lies(ToBytes(n, 4), 0, ToBytes(n, 2))
<1>1. Len(ToBytes(n, 4)) = 4 /\ Len(ToBytes(n, 2)) = 2
  BY BytesSeq
<1>2. \A i \in 1..2 : ToBytes(n, 4)[i] = ToBytes(n, 2)[i]
  BY DEF ToBytes
<1> QED BY <1>1, <1>2 DEF Lies

\* A number that is written lies where it is written, and what lies beside it
\* stays.
LEMMA Written ==
  ASSUME NEW d \in Seq(Byte), NEW of \in Nat, of + 4 <= Len(d), NEW n \in Nat
  PROVE  LET w == Write(d, of, 4, n) IN
         /\ w \in Seq(Byte) /\ Len(w) = Len(d)
         /\ Lies(w, of, ToBytes(n, 4))
         /\ \A p \in Nat, m \in Nat, v \in 1..4 :
              Lies(d, p, ToBytes(m, v)) /\ (p + v <= of \/ of + 4 <= p)
                => Lies(w, p, ToBytes(m, v))
<1> DEFINE w == Write(d, of, 4, n)
<1>1. PICK b : b = ToBytes(n, 4)
  OBVIOUS
<1>2. b \in Seq(Byte) /\ Len(b) = 4 /\ \A i \in 1..4 : b[i] \in Byte
  BY <1>1, BytesSeq
<1>3. Len(d) \in Nat /\ \A i \in 1..Len(d) : d[i] \in Byte
  OBVIOUS
<1>4. /\ w \in [1..Len(d) -> Byte]
      /\ \A i \in 1..Len(d) : w[i] = IF i - of \in 1..4 THEN b[i - of] ELSE d[i]
  BY <1>1, <1>2, <1>3 DEF Write
<1> HIDE DEF w
<1>5. w \in Seq(Byte) /\ Len(w) = Len(d)
  BY <1>3, <1>4
<1>6. Lies(w, of, b)
  <2>1. ASSUME NEW i \in 1..4 PROVE w[of + i] = b[i]
    <3>1. of + i \in 1..Len(d) /\ (of + i) - of = i
      BY <1>3
    <3> QED BY <1>4, <3>1
  <2> QED BY <1>2, <1>5, <2>1 DEF Lies
<1>7. ASSUME NEW p \in Nat, NEW m \in Nat, NEW v \in 1..4,
             Lies(d, p, ToBytes(m, v)), p + v <= of \/ of + 4 <= p
      PROVE  Lies(w, p, ToBytes(m, v))
  <2> DEFINE e == ToBytes(m, v)
  <2>3. Len(e) = v
    BY BytesSeq
  <2> HIDE DEF e
  <2>1. p + v <= Len(d)
    BY <1>7, <2>3 DEF Lies, e
  <2>2. ASSUME NEW i \in 1..v PROVE w[p + i] = e[i]
    <3>1. p + i \in 1..Len(d) /\ ~((p + i) - of \in 1..4)
      BY <1>3, <1>7, <2>1
    <3>2. d[p + i] = e[i]
      BY <1>7, <2>3 DEF Lies, e
    <3> QED BY <1>4, <3>1, <3>2
  <2>4. Lies(w, p, e)
    BY <1>5, <2>1, <2>2, <2>3 DEF Lies
  <2> QED BY <2>4 DEF e
<1> QED BY <1>1, <1>5, <1>6, <1>7, Zenon DEF w

\* Commands with numbers of their fields' widths.
Command ==
  [code : U16, transaction : U32, params : {p \in Seq(U32) : Len(p) <= 5}]

\* Although type and code are written over the start of the next field, each
\* field of the header of a USB packet has its value.
LEMMA HeaderFields ==
  ASSUME NEW length \in Nat, NEW type \in Nat, NEW cmd \in Command
  PROVE  LET h == UsbHeader(length, type, cmd) IN
         /\ h \in Seq(Byte) /\ Len(h) = 12
         /\ Lies(h, 0, ToBytes(length, 4)) /\ Lies(h, 4, ToBytes(type, 2))
         /\ Lies(h, 6, ToBytes(cmd.code, 2))
         /\ Lies(h, 8, ToBytes(cmd.transaction, 4))
<1>1. cmd.code \in Nat /\ cmd.transaction \in Nat
  BY Widths DEF Command
<1>2. PICK z : z = [i \in 1..12 |-> 0]
  OBVIOUS
<1>3. z \in Seq(Byte) /\ Len(z) = 12
  BY <1>2 DEF Byte
<1>4. PICK l : l = Write(z, 0, 4, length)
  OBVIOUS
<1>5. PICK t : t = Write(l, 4, 4, type)
  OBVIOUS
<1>6. PICK c : c = Write(t, 6, 4, cmd.code)
  OBVIOUS
<1>7. PICK h : h = Write(c, 8, 4, cmd.transaction)
  OBVIOUS
<1> DEFINE Field(w, d, of, n) ==
             /\ w \in Seq(Byte) /\ Len(w) = 12 /\ Lies(w, of, ToBytes(n, 4))
             /\ Lies(w, of, ToBytes(n, 2))
             /\ \A p \in Nat, m \in Nat, v \in 1..4 :
                  Lies(d, p, ToBytes(m, v)) /\ (p + v <= of \/ of + 4 <= p)
                    => Lies(w, p, ToBytes(m, v))
<1>8. ASSUME NEW d \in Seq(Byte), Len(d) = 12, NEW of \in 0..8, NEW n \in Nat
      PROVE  Field(Write(d, of, 4, n), d, of, n)
  <2>1. PICK w : w = Write(d, of, 4, n)
    OBVIOUS
  <2>2. of \in Nat /\ of + 4 <= Len(d)
    BY <1>8
  <2>3. /\ w \in Seq(Byte) /\ Len(w) = 12 /\ Lies(w, of, ToBytes(n, 4))
        /\ \A p \in Nat, m \in Nat, v \in 1..4 :
             Lies(d, p, ToBytes(m, v)) /\ (p + v <= of \/ of + 4 <= p)
               => Lies(w, p, ToBytes(m, v))
    BY <1>8, <2>1, <2>2, Written
  <2>4. ToBytes(n, 4) \in Seq(Byte) /\ ToBytes(n, 2) \in Seq(Byte)
    BY BytesSeq
  <2>5. Lies(w, of + 0, ToBytes(n, 2))
    BY <2>2, <2>3, <2>4, LowBytes, LiesIn
  <2> QED BY <2>1, <2>2, <2>3, <2>5
<1>9. 0 \in 0..8 /\ 4 \in 0..8 /\ 6 \in 0..8 /\ 8 \in 0..8
  OBVIOUS
<1>10. Field(l, z, 0, length)
  BY <1>3, <1>4, <1>8, <1>9
<1>11. Field(t, l, 4, type)
  BY <1>5, <1>8, <1>9, <1>10
<1>12. Lies(t, 0, ToBytes(length, 4))
  BY <1>10, <1>11
<1>13. Field(c, t, 6, cmd.code)
  BY <1>1, <1>6, <1>8, <1>9, <1>11
<1>14. Lies(c, 0, ToBytes(length, 4)) /\ Lies(c, 4, ToBytes(type, 2))
  BY <1>11, <1>12, <1>13
<1>15. Field(h, c, 8, cmd.transaction)
  BY <1>1, <1>7, <1>8, <1>9, <1>13
<1>16. /\ Lies(h, 0, ToBytes(length, 4)) /\ Lies(h, 4, ToBytes(type, 2))
       /\ Lies(h, 6, ToBytes(cmd.code, 2))
  BY <1>1, <1>13, <1>14, <1>15
<1>17. h = UsbHeader(length, type, cmd)
  BY <1>2, <1>4, <1>5, <1>6, <1>7 DEF UsbHeader
<1> QED BY <1>15, <1>16, <1>17
-----------------------------------------------------------------------------
(* Packets.                                                                *)

\* The numbers in a part are in the whole.
Keeps(a, d) ==
  \A p \in Nat, m \in Nat, v \in 1..4 :
    Lies(a, p, ToBytes(m, v)) => Lies(d, p, ToBytes(m, v))

\* They stay when another part is put behind.
LEMMA PutKeeps ==
  ASSUME NEW a \in Seq(Byte), NEW b \in Seq(Byte)
  PROVE  Keeps(a, a \o b)
<1>1. \A m \in Nat, v \in 1..4 : ToBytes(m, v) \in Seq(Byte)
  BY BytesSeq
<1> QED BY <1>1, Put DEF Keeps

\* A number put behind a part.
LEMMA PutNumber ==
  ASSUME NEW a \in Seq(Byte), NEW n \in Nat, NEW width \in 1..4
  PROVE  LET d == a \o ToBytes(n, width) IN
         /\ d \in Seq(Byte) /\ Len(d) = Len(a) + width
         /\ Lies(d, Len(a), ToBytes(n, width)) /\ Keeps(a, d)
<1>1. PICK b : b = ToBytes(n, width)
  OBVIOUS
<1>2. b \in Seq(Byte) /\ Len(b) = width
  BY <1>1, BytesSeq
<1>3. /\ a \o b \in Seq(Byte) /\ Len(a \o b) = Len(a) + width
      /\ Lies(a \o b, Len(a), b) /\ Keeps(a, a \o b)
  BY <1>2, Put, PutKeeps
<1> QED BY <1>1, <1>3

\* Parameters put behind a part are read there.
LEMMA PutParameters ==
  ASSUME NEW a \in Seq(Byte), NEW k \in Nat, Len(a) = k,
         NEW params \in Seq(U32)
  PROVE  LET d == a \o Bytes(params) IN
         /\ d \in Seq(Byte) /\ Len(d) = k + 4 * Len(params) /\ Keeps(a, d)
         /\ \A i \in DOMAIN params : Read(d, k + 4 * (i - 1), 4) = params[i]
<1>1. PICK b : b = Bytes(params)
  OBVIOUS
<1>2. /\ b \in Seq(Byte) /\ Len(b) = 4 * Len(params)
      /\ \A i \in 1..Len(params) : Lies(b, 4 * (i - 1), ToBytes(params[i], 4))
  BY <1>1, Parameters
<1>3. PICK d : d = a \o b
  OBVIOUS
<1>4. /\ d \in Seq(Byte) /\ Len(d) = k + 4 * Len(params)
      /\ Lies(d, k, b) /\ Keeps(a, d)
  BY <1>2, <1>3, Put, PutKeeps
<1>5. ASSUME NEW i \in 1..Len(params)
      PROVE  Read(d, k + 4 * (i - 1), 4) = params[i]
  <2>1. params[i] \in Nat /\ params[i] < Limit(4)
    BY Widths
  <2>2. 4 * (i - 1) \in Nat /\ k + 4 * (i - 1) \in Nat /\ 4 \in 1..4
    OBVIOUS
  <2>3. ToBytes(params[i], 4) \in Seq(Byte)
    BY <2>1, <2>2, BytesSeq
  <2>4. Lies(d, k + 4 * (i - 1), ToBytes(params[i], 4))
    BY <1>2, <1>4, <2>2, <2>3, LiesIn
  <2> QED BY <1>4, <2>1, <2>2, <2>4, ReadThere
<1>6. DOMAIN params = 1..Len(params)
  OBVIOUS
<1> QED BY <1>1, <1>3, <1>4, <1>5, <1>6

\* What a number kept in the whole is read as.
LEMMA ReadKept ==
  ASSUME NEW a, NEW d \in Seq(Byte), Keeps(a, d), NEW of \in Nat,
         NEW width \in {1, 2, 4}, NEW n \in Nat, n < Limit(width),
         Lies(a, of, ToBytes(n, width))
  PROVE  Read(d, of, width) = n
<1>1. width \in 1..4
  OBVIOUS
<1>2. Lies(d, of, ToBytes(n, width))
  BY <1>1 DEF Keeps
<1> QED BY <1>2, ReadThere

\* The header of a USB packet is read in front of what is put behind it.
LEMMA HeaderRead ==
  ASSUME NEW length \in U32, NEW type \in U16, NEW cmd \in Command,
         NEW d \in Seq(Byte), Keeps(UsbHeader(length, type, cmd), d)
  PROVE  /\ Read(d, 0, 4) = length /\ Read(d, 4, 2) = type
         /\ Read(d, 6, 2) = cmd.code /\ Read(d, 8, 4) = cmd.transaction
<1>1. PICK h : h = UsbHeader(length, type, cmd)
  OBVIOUS
<1>2. /\ length \in Nat /\ length < Limit(4)
      /\ type \in Nat /\ type < Limit(2)
      /\ cmd.code \in Nat /\ cmd.code < Limit(2)
      /\ cmd.transaction \in Nat /\ cmd.transaction < Limit(4)
  BY Widths DEF Command
<1>3. /\ Lies(h, 0, ToBytes(length, 4)) /\ Lies(h, 4, ToBytes(type, 2))
      /\ Lies(h, 6, ToBytes(cmd.code, 2))
      /\ Lies(h, 8, ToBytes(cmd.transaction, 4))
  BY <1>1, <1>2, HeaderFields
<1> QED BY <1>1, <1>2, <1>3, ReadKept

\* Lengths of packets, types and codes have the widths of their fields.
LEMMA Fits ==
  /\ \A n \in Nat : n < 65536 => n \in U16 /\ n \in U32
  /\ \A n \in U32, m \in Nat : m <= n => m \in U32
<1>1. \A n \in Nat : n < 65536 => n \in U16
  BY DEF U16
<1>2. ASSUME NEW n \in U32, NEW m \in Nat, m <= n PROVE m \in U32
  <2>1. n \in Nat /\ n < Limit(4) /\ Limit(4) = 65536 * 65536
    BY Widths DEF Limit
  <2>2. m < 65536 * 65536
    BY <1>2, <2>1
  <2> QED BY <2>1, <2>2, Widths
<1> QED BY <1>1, <1>2, Widths

\* A USB command is read as what it was made of.
LEMMA UsbCommandRead ==
  ASSUME NEW cmd \in Command
  PROVE  LET d == UsbCommand(cmd) IN
         /\ Read(d, 0, 4) = Len(d)
         /\ Read(d, 6, 2) = cmd.code /\ Read(d, 8, 4) = cmd.transaction
         /\ \A i \in DOMAIN cmd.params : Read(d, 8 + 4 * i, 4) = cmd.params[i]
<1>1. /\ cmd.params \in Seq(U32) /\ Len(cmd.params) \in Nat
      /\ Len(cmd.params) <= 5
  BY DEF Command
<1>2. PICK n \in Nat : n = 12 + 4 * Len(cmd.params)
  BY <1>1
<1>3. n \in U32 /\ COMMAND \in U16 /\ n \in Nat /\ COMMAND \in Nat
  BY <1>1, <1>2, Fits DEF COMMAND
<1>4. PICK h : h = UsbHeader(n, COMMAND, cmd)
  OBVIOUS
<1>5. h \in Seq(Byte) /\ Len(h) = 12
  BY <1>3, <1>4, HeaderFields
<1>6. PICK d : d = h \o Bytes(cmd.params)
  OBVIOUS
<1>7. /\ d \in Seq(Byte) /\ Len(d) = n /\ Keeps(h, d)
      /\ \A i \in DOMAIN cmd.params :
           Read(d, 12 + 4 * (i - 1), 4) = cmd.params[i]
  <2>1. PICK k \in Nat : k = 12
    OBVIOUS
  <2>2. /\ d \in Seq(Byte) /\ Len(d) = k + 4 * Len(cmd.params) /\ Keeps(h, d)
        /\ \A i \in DOMAIN cmd.params :
             Read(d, k + 4 * (i - 1), 4) = cmd.params[i]
    BY <1>1, <1>5, <1>6, <2>1, PutParameters
  <2> QED BY <1>2, <2>1, <2>2
<1>8. /\ Read(d, 0, 4) = n
      /\ Read(d, 6, 2) = cmd.code /\ Read(d, 8, 4) = cmd.transaction
  BY <1>3, <1>4, <1>7, HeaderRead
<1>9. \A i \in DOMAIN cmd.params : 12 + 4 * (i - 1) = 8 + 4 * i
  BY <1>1
<1>10. d = UsbCommand(cmd)
  BY <1>2, <1>4, <1>6 DEF UsbCommand
<1> QED BY <1>7, <1>8, <1>9, <1>10

\* What lies somewhere is taken from there.
LEMMA Taken ==
  ASSUME NEW d \in Seq(Byte), NEW b \in Seq(Byte), NEW k \in Nat, Lies(d, k, b)
  PROVE  /\ SubSeq(SubSeq(d, k + 1, Len(d)), 1, Len(b)) = b
         /\ k + Len(b) = Len(d) => Drop(d, k) = b
         /\ SubSeq(d, k + 1, k + Len(b)) = b
<1>1. /\ Len(d) \in Nat /\ Len(b) \in Nat /\ k + Len(b) <= Len(d)
      /\ \A i \in 1..Len(b) : d[k + i] = b[i]
  BY DEF Lies
<1>2. PICK r : r = SubSeq(d, k + 1, Len(d))
  OBVIOUS
<1>3. \A i \in (k + 1)..Len(d) : d[i] \in Byte
  BY <1>1
<1>4. /\ r \in Seq(Byte) /\ Len(r) = Len(d) - k
      /\ \A i \in 1..(Len(d) - k) : r[i] = d[k + i]
  <2>1. k + 1 \in Int /\ Len(d) \in Int
    BY <1>1
  <2>2. /\ r \in Seq(Byte)
        /\ Len(r) = IF k + 1 <= Len(d) THEN Len(d) - (k + 1) + 1 ELSE 0
        /\ \A i \in 1..(Len(d) - (k + 1) + 1) : r[i] = d[k + 1 + i - 1]
    BY <1>2, <1>3, <2>1, SubSeqProperties
  <2>3. Len(d) - (k + 1) + 1 = Len(d) - k
        /\ \A i \in Int : k + 1 + i - 1 = k + i
    BY <1>1
  <2>4. Len(r) = Len(d) - k
    <3>1. CASE k + 1 <= Len(d)
      BY <2>2, <2>3, <3>1
    <3>2. CASE ~(k + 1 <= Len(d))
      <4>1. Len(d) - k = 0
        BY <1>1, <3>2
      <4> QED BY <2>2, <3>2, <4>1
    <3> QED BY <3>1, <3>2
  <2>5. ASSUME NEW i \in 1..(Len(d) - k) PROVE r[i] = d[k + i]
    <3>1. r[i] = d[k + 1 + i - 1]
      BY <2>2, <2>3
    <3>2. k + 1 + i - 1 = k + i
      BY <1>1
    <3> QED BY <3>1, <3>2
  <2> QED BY <2>2, <2>4, <2>5
<1>5. SubSeq(r, 1, Len(b)) = b
  <2>1. PICK s : s = SubSeq(r, 1, Len(b))
    OBVIOUS
  <2>2. \A i \in 1..Len(b) : r[i] \in Byte
    BY <1>1, <1>4
  <2>3. /\ s \in Seq(Byte)
        /\ Len(s) = IF 1 <= Len(b) THEN Len(b) - 1 + 1 ELSE 0
        /\ \A i \in 1..(Len(b) - 1 + 1) : s[i] = r[1 + i - 1]
    BY <1>1, <2>1, <2>2, SubSeqProperties
  <2>4. Len(s) = Len(b) /\ \A i \in 1..Len(b) : s[i] = r[i]
    BY <1>1, <2>3
  <2>5. \A i \in 1..Len(b) : r[i] = b[i]
    BY <1>1, <1>4
  <2> QED BY <2>1, <2>3, <2>4, <2>5, SeqEqual
<1>6. ASSUME k + Len(b) = Len(d) PROVE r = b
  <2>1. Len(r) = Len(b)
    <3>1. Len(d) - k = Len(b)
      BY <1>1, <1>6
    <3> QED BY <1>4, <3>1
  <2>2. \A i \in 1..Len(b) : r[i] = b[i]
    BY <1>1, <1>4, <1>6
  <2> QED BY <1>4, <2>1, <2>2, SeqEqual
<1>7. SubSeq(d, k + 1, k + Len(b)) = b
  <2>1. PICK s : s = SubSeq(d, k + 1, k + Len(b))
    OBVIOUS
  <2>2. \A i \in (k + 1)..(k + Len(b)) : d[i] \in Byte
    BY <1>1
  <2>3. k + 1 \in Int /\ k + Len(b) \in Int
    BY <1>1
  <2>4. /\ s \in Seq(Byte)
        /\ Len(s) = IF k + 1 <= k + Len(b) THEN (k + Len(b)) - (k + 1) + 1
                    ELSE 0
        /\ \A i \in 1..((k + Len(b)) - (k + 1) + 1) : s[i] = d[(k + 1) + i - 1]
    BY <2>1, <2>2, <2>3, SubSeqProperties
  <2>5. Len(s) = Len(b)
    BY <1>1, <2>4
  <2>6. (k + Len(b)) - (k + 1) + 1 = Len(b)
        /\ \A i \in Int : (k + 1) + i - 1 = k + i
    BY <1>1
  <2>7. \A i \in 1..Len(b) : s[i] = b[i]
    BY <1>1, <2>4, <2>6
  <2> QED BY <2>1, <2>4, <2>5, <2>7, SeqEqual
<1> QED BY <1>2, <1>5, <1>6, <1>7 DEF Drop

\* A USB data packet is read as what it was made of.
LEMMA UsbDataRead ==
  ASSUME NEW cmd \in Command, NEW payload, Payload(payload)
  PROVE  LET d == UsbData(cmd, payload) IN
         /\ Read(d, 0, 4) = Len(d) /\ Read(d, 4, 2) = DATA
         /\ Read(d, 6, 2) = cmd.code /\ Read(d, 8, 4) = cmd.transaction
         /\ Drop(d, 12) = payload
<1>1. payload \in Seq(Byte) /\ Len(payload) \in Nat /\ Len(payload) + 32 \in U32
  BY DEF Payload
<1>2. PICK n \in Nat : n = 12 + Len(payload)
  BY <1>1
<1>3. n \in U32 /\ DATA \in U16 /\ DATA \in Nat
  <2>1. n <= Len(payload) + 32
    BY <1>1, <1>2
  <2> QED BY <1>1, <2>1, Fits DEF DATA
<1>4. PICK h : h = UsbHeader(n, DATA, cmd)
  OBVIOUS
<1>5. h \in Seq(Byte) /\ Len(h) = 12
  BY <1>3, <1>4, HeaderFields
<1>6. PICK d : d = h \o payload
  OBVIOUS
<1>7. /\ d \in Seq(Byte) /\ Len(d) = Len(h) + Len(payload) /\ Keeps(h, d)
      /\ Lies(d, Len(h), payload)
  BY <1>1, <1>5, <1>6, Put, PutKeeps
<1>8. /\ Read(d, 0, 4) = n /\ Read(d, 4, 2) = DATA
      /\ Read(d, 6, 2) = cmd.code /\ Read(d, 8, 4) = cmd.transaction
  BY <1>3, <1>4, <1>7, HeaderRead
<1>9. Len(h) \in Nat /\ Len(d) = n
  BY <1>2, <1>5, <1>7
<1>10. Drop(d, Len(h)) = payload
  BY <1>1, <1>7, <1>9, Taken
<1>11. d = UsbData(cmd, payload)
  BY <1>2, <1>4, <1>6 DEF UsbData
<1> QED BY <1>5, <1>8, <1>9, <1>10, <1>11

\* d is four numbers one behind the other, the first of four bytes.
Four(d, a, b, wb, c, wc, e, we) ==
  /\ d \in Seq(Byte) /\ Len(d) = 4 + wb + wc + we
  /\ Lies(d, 0, ToBytes(a, 4)) /\ Lies(d, 4, ToBytes(b, wb))
  /\ Lies(d, 4 + wb, ToBytes(c, wc))
  /\ Lies(d, 4 + wb + wc, ToBytes(e, we))

\* Four numbers that are put together.
LEMMA FourNumbers ==
  ASSUME NEW a \in Nat, NEW b \in Nat, NEW c \in Nat, NEW e \in Nat,
         NEW wb \in 1..4, NEW wc \in 1..4, NEW we \in 1..4
  PROVE  Four(ToBytes(a, 4) \o ToBytes(b, wb) \o ToBytes(c, wc)
                \o ToBytes(e, we), a, b, wb, c, wc, e, we)
<1>1. /\ 4 \in 1..4 /\ 4 \in Nat /\ 4 + wb \in Nat /\ 4 + wb + wc \in Nat
      /\ 0 \in Nat
  OBVIOUS
<1>2. PICK x : x = ToBytes(a, 4)
  OBVIOUS
<1>3. x \in Seq(Byte) /\ Len(x) = 4 /\ Lies(x, 0, ToBytes(a, 4))
  BY <1>1, <1>2, BytesSeq DEF Lies
<1>4. PICK y : y = x \o ToBytes(b, wb)
  OBVIOUS
<1>5. /\ y \in Seq(Byte) /\ Len(y) = 4 + wb
      /\ Lies(y, 4, ToBytes(b, wb)) /\ Keeps(x, y)
  <2>1. /\ y \in Seq(Byte) /\ Len(y) = Len(x) + wb
        /\ Lies(y, Len(x), ToBytes(b, wb)) /\ Keeps(x, y)
    BY <1>3, <1>4, PutNumber, Zenon
  <2> QED BY <1>3, <2>1
<1>6. PICK z : z = y \o ToBytes(c, wc)
  OBVIOUS
<1>7. /\ z \in Seq(Byte) /\ Len(z) = 4 + wb + wc
      /\ Lies(z, 4 + wb, ToBytes(c, wc)) /\ Keeps(y, z)
  <2>1. /\ z \in Seq(Byte) /\ Len(z) = Len(y) + wc
        /\ Lies(z, Len(y), ToBytes(c, wc)) /\ Keeps(y, z)
    BY <1>5, <1>6, PutNumber, Zenon
  <2> QED BY <1>5, <2>1
<1>8. PICK d : d = z \o ToBytes(e, we)
  OBVIOUS
<1>9. /\ d \in Seq(Byte) /\ Len(d) = 4 + wb + wc + we
      /\ Lies(d, 4 + wb + wc, ToBytes(e, we)) /\ Keeps(z, d)
  <2>1. /\ d \in Seq(Byte) /\ Len(d) = Len(z) + we
        /\ Lies(d, Len(z), ToBytes(e, we)) /\ Keeps(z, d)
    BY <1>7, <1>8, PutNumber, Zenon
  <2> QED BY <1>7, <2>1
<1>10. Lies(d, 0, ToBytes(a, 4))
  BY <1>1, <1>3, <1>5, <1>7, <1>9, Zenon DEF Keeps
<1>11. Lies(d, 4, ToBytes(b, wb))
  BY <1>1, <1>5, <1>7, <1>9, Zenon DEF Keeps
<1>12. Lies(d, 4 + wb, ToBytes(c, wc))
  BY <1>1, <1>7, <1>9, Zenon DEF Keeps
<1> QED BY <1>2, <1>4, <1>6, <1>8, <1>9, <1>10, <1>11, <1>12 DEF Four

\* A PTP/IP command is read as what it was made of.
LEMMA IpCommandRead ==
  ASSUME NEW cmd \in Command, NEW phase
  PROVE  LET d == IpCommand(cmd, phase) IN
         /\ Read(d, 0, 4) = Len(d)
         /\ Read(d, 12, 2) = cmd.code /\ Read(d, 14, 4) = cmd.transaction
         /\ \A i \in DOMAIN cmd.params : Read(d, 14 + 4 * i, 4) = cmd.params[i]
<1>1. /\ cmd.params \in Seq(U32) /\ Len(cmd.params) \in Nat
      /\ Len(cmd.params) <= 5
      /\ cmd.code \in Nat /\ cmd.code < Limit(2)
      /\ cmd.transaction \in Nat /\ cmd.transaction < Limit(4)
  BY Widths DEF Command
<1>2. PICK n \in Nat : n = 18 + 4 * Len(cmd.params)
  BY <1>1
<1>3. n \in Nat /\ n < Limit(4) /\ PTPIP_COMMAND_REQUEST \in Nat
  BY <1>1, <1>2, Fits, Widths DEF PTPIP_COMMAND_REQUEST
<1>4. PICK f \in Nat : f = IF phase = 0 THEN 1 ELSE 2
  OBVIOUS
<1>5. PICK x : x = ToBytes(n, 4) \o ToBytes(PTPIP_COMMAND_REQUEST, 4)
                   \o ToBytes(f, 4) \o ToBytes(cmd.code, 2)
  OBVIOUS
<1>6. /\ x \in Seq(Byte) /\ Len(x) = 14
      /\ Lies(x, 0, ToBytes(n, 4)) /\ Lies(x, 12, ToBytes(cmd.code, 2))
  <2>1. 4 \in 1..4 /\ 2 \in 1..4
    OBVIOUS
  <2>2. Four(x, n, PTPIP_COMMAND_REQUEST, 4, f, 4, cmd.code, 2)
    BY <1>1, <1>3, <1>4, <1>5, <2>1, FourNumbers, Zenon
  <2> QED BY <2>2 DEF Four
<1>7. PICK y : y = x \o ToBytes(cmd.transaction, 4)
  OBVIOUS
<1>8. /\ y \in Seq(Byte) /\ Len(y) = 18 /\ Keeps(x, y)
      /\ Lies(y, 14, ToBytes(cmd.transaction, 4))
  <2>1. 4 \in 1..4
    OBVIOUS
  <2>2. /\ y \in Seq(Byte) /\ Len(y) = Len(x) + 4 /\ Keeps(x, y)
        /\ Lies(y, Len(x), ToBytes(cmd.transaction, 4))
    BY <1>1, <1>6, <1>7, <2>1, PutNumber, Zenon
  <2> QED BY <1>6, <2>2
<1>9. PICK d : d = y \o Bytes(cmd.params)
  OBVIOUS
<1>10. /\ d \in Seq(Byte) /\ Len(d) = n /\ Keeps(y, d)
       /\ \A i \in DOMAIN cmd.params :
            Read(d, 18 + 4 * (i - 1), 4) = cmd.params[i]
  <2>1. PICK k \in Nat : k = 18
    OBVIOUS
  <2>2. /\ d \in Seq(Byte) /\ Len(d) = k + 4 * Len(cmd.params) /\ Keeps(y, d)
        /\ \A i \in DOMAIN cmd.params :
             Read(d, k + 4 * (i - 1), 4) = cmd.params[i]
    BY <1>1, <1>8, <1>9, <2>1, PutParameters
  <2> QED BY <1>2, <2>1, <2>2
<1>11. 0 \in Nat /\ 12 \in Nat /\ 14 \in Nat
       /\ 2 \in {1, 2, 4} /\ 4 \in {1, 2, 4} /\ 2 \in 1..4 /\ 4 \in 1..4
  OBVIOUS
<1>12. Read(d, 0, 4) = n
  <2>1. Lies(y, 0, ToBytes(n, 4))
    BY <1>3, <1>6, <1>8, <1>11, Zenon DEF Keeps
  <2> QED BY <1>3, <1>10, <1>11, <2>1, ReadKept, Zenon
<1>13. Read(d, 12, 2) = cmd.code
  <2>1. Lies(y, 12, ToBytes(cmd.code, 2))
    BY <1>1, <1>6, <1>8, <1>11, Zenon DEF Keeps
  <2> QED BY <1>1, <1>10, <1>11, <2>1, ReadKept, Zenon
<1>14. Read(d, 14, 4) = cmd.transaction
  <2>1. Lies(y, 14, ToBytes(cmd.transaction, 4))
    BY <1>8
  <2> QED BY <1>1, <1>10, <1>11, <2>1, ReadKept, Zenon
<1>15. \A i \in DOMAIN cmd.params : 18 + 4 * (i - 1) = 14 + 4 * i
  BY <1>1
<1>16. d = IpCommand(cmd, phase)
  BY <1>2, <1>4, <1>5, <1>7, <1>9, Zenon DEF IpCommand
<1> QED BY <1>10, <1>12, <1>13, <1>14, <1>15, <1>16

\* The first packet of a PTP/IP data phase.
LEMMA StartFields ==
  ASSUME NEW cmd \in Command, NEW length \in Nat
  PROVE  LET d == IpDataStart(cmd, length) IN
         /\ d \in Seq(Byte) /\ Len(d) = 20
         /\ Lies(d, 0, ToBytes(20, 4))
         /\ Lies(d, 4, ToBytes(PTPIP_DATA_PACKET_START, 4))
         /\ Lies(d, 12, ToBytes(length, 4))
<1>1. /\ cmd.transaction \in Nat /\ PTPIP_DATA_PACKET_START \in Nat
      /\ 20 \in Nat /\ 0 \in Nat /\ 4 \in Nat /\ 12 \in Nat /\ 4 \in 1..4
  BY Widths DEF Command, PTPIP_DATA_PACKET_START
<1>2. PICK x : x = ToBytes(20, 4) \o ToBytes(PTPIP_DATA_PACKET_START, 4)
                   \o ToBytes(cmd.transaction, 4) \o ToBytes(length, 4)
  OBVIOUS
<1>3. /\ x \in Seq(Byte) /\ Len(x) = 16 /\ Lies(x, 0, ToBytes(20, 4))
      /\ Lies(x, 4, ToBytes(PTPIP_DATA_PACKET_START, 4))
      /\ Lies(x, 12, ToBytes(length, 4))
  <2>1. Four(x, 20, PTPIP_DATA_PACKET_START, 4, cmd.transaction, 4, length, 4)
    BY <1>1, <1>2, FourNumbers, Zenon
  <2> QED BY <2>1 DEF Four
<1>4. PICK d : d = x \o ToBytes(0, 4)
  OBVIOUS
<1>5. d \in Seq(Byte) /\ Len(d) = 20 /\ Keeps(x, d)
  <2>1. d \in Seq(Byte) /\ Len(d) = Len(x) + 4 /\ Keeps(x, d)
    BY <1>1, <1>3, <1>4, PutNumber, Zenon
  <2> QED BY <1>3, <2>1
<1>6. /\ Lies(d, 0, ToBytes(20, 4))
      /\ Lies(d, 4, ToBytes(PTPIP_DATA_PACKET_START, 4))
      /\ Lies(d, 12, ToBytes(length, 4))
  BY <1>1, <1>3, <1>5, Zenon DEF Keeps
<1>7. d = IpDataStart(cmd, length)
  BY <1>2, <1>4, Zenon DEF IpDataStart
<1> QED BY <1>5, <1>6, <1>7

\* The second packet, with the payload.
LEMMA EndFields ==
  ASSUME NEW cmd \in Command, NEW payload \in Seq(Byte)
  PROVE  LET d == IpDataEnd(cmd, payload) IN
         /\ d \in Seq(Byte) /\ Len(d) = 12 + Len(payload)
         /\ Lies(d, 0, ToBytes(12 + Len(payload), 4))
         /\ Lies(d, 12, payload)
<1>1. /\ cmd.transaction \in Nat /\ PTPIP_DATA_PACKET_END \in Nat
      /\ 0 \in Nat /\ 4 \in 1..4 /\ Len(payload) \in Nat
  BY Widths DEF Command, PTPIP_DATA_PACKET_END
<1>2. PICK n \in Nat : n = 12 + Len(payload)
  BY <1>1
<1>3. PICK x : x = ToBytes(n, 4)
  OBVIOUS
<1>4. x \in Seq(Byte) /\ Len(x) = 4 /\ Lies(x, 0, ToBytes(n, 4))
  BY <1>1, <1>3, BytesSeq DEF Lies
<1>5. PICK y : y = x \o ToBytes(PTPIP_DATA_PACKET_END, 4)
  OBVIOUS
<1>6. y \in Seq(Byte) /\ Len(y) = Len(x) + 4 /\ Keeps(x, y)
  BY <1>1, <1>4, <1>5, PutNumber, Zenon
<1>7. PICK z : z = y \o ToBytes(cmd.transaction, 4)
  OBVIOUS
<1>8. z \in Seq(Byte) /\ Len(z) = Len(y) + 4 /\ Keeps(y, z)
  BY <1>1, <1>6, <1>7, PutNumber, Zenon
<1>9. Len(z) = 12
  BY <1>4, <1>6, <1>8
<1>10. PICK d : d = z \o payload
  OBVIOUS
<1>11. /\ d \in Seq(Byte) /\ Len(d) = Len(z) + Len(payload)
       /\ Lies(d, Len(z), payload) /\ Keeps(z, d)
  BY <1>8, <1>10, Put, PutKeeps, Zenon
<1>12. Lies(d, 0, ToBytes(n, 4))
  BY <1>1, <1>4, <1>6, <1>8, <1>11, Zenon DEF Keeps
<1>13. d = IpDataEnd(cmd, payload)
  BY <1>2, <1>3, <1>5, <1>7, <1>10, Zenon DEF IpDataEnd
<1> QED BY <1>2, <1>9, <1>11, <1>12, <1>13
-----------------------------------------------------------------------------
(* Names.                                                                  *)

\* The first element that is zero, behind n that are not.
LEMMA FirstZero ==
  ASSUME NEW q, NEW n \in Nat, Len(q) \in Nat, n + 1 <= Len(q), q[n + 1] = 0,
         \A i \in 1..n : q[i] # 0
  PROVE  SelectInSeq(q, LAMBDA c : c = 0) = n + 1
<1> DEFINE I == {i \in 1..Len(q) : q[i] = 0}
<1>1. n + 1 \in I /\ \A i \in I : n + 1 <= i
  <2>1. n + 1 \in I
    OBVIOUS
  <2>2. ASSUME NEW i \in I PROVE n + 1 <= i
    <3>1. i \in Nat /\ i >= 1 /\ ~(i \in 1..n)
      OBVIOUS
    <3> QED BY <3>1
  <2> QED BY <2>1, <2>2
<1>2. I \subseteq Int
  OBVIOUS
<1> HIDE DEF I
<1>3. \A x \in I : (\A i \in I : x <= i) => x = n + 1
  BY <1>1, <1>2
<1>4. Min(I) = n + 1
  BY <1>1, <1>3 DEF Min
<1>5. SelectInSeq(q, LAMBDA c : c = 0) = IF I # {} THEN Min(I) ELSE 0
  BY DEF SelectInSeq, I
<1> QED BY <1>1, <1>4, <1>5

\* A name is bytes.
LEMMA NameBytes == \A name \in Seq(1..255) : name \in Seq(Byte)
<1>1. (1..255) \subseteq Byte
  BY DEF Byte
<1> QED BY <1>1, SeqMonotonic

\* Of a name with a NUL behind it the name is read.
LEMMA Utf8Read ==
  ASSUME NEW name \in Seq(1..255)
  PROVE  /\ WriteUtf8(name) \in Seq(Byte)
         /\ Len(WriteUtf8(name)) = Len(name) + 1
         /\ ReadUtf8(WriteUtf8(name)) = name
<1>1. name \in Seq(Byte) /\ Len(name) \in Nat /\ 0 \in Byte
  BY NameBytes DEF Byte
<1>2. PICK d : d = Append(name, 0)
  OBVIOUS
<1>3. /\ d \in Seq(Byte) /\ Len(d) = Len(name) + 1
      /\ \A i \in 1..Len(name) : d[i] = name[i]
      /\ d[Len(name) + 1] = 0
  BY <1>1, <1>2, AppendProperties
<1>4. \A i \in 1..Len(name) : d[i] # 0
  <2>1. name \in [1..Len(name) -> 1..255]
    BY LenProperties
  <2>2. ASSUME NEW i \in 1..Len(name) PROVE d[i] # 0
    <3>1. name[i] \in 1..255
      BY <2>1
    <3>2. name[i] # 0
      <4>1. \A c \in 1..255 : c # 0
        OBVIOUS
      <4> QED BY <3>1, <4>1, Zenon
    <3>3. d[i] = name[i]
      BY <1>3
    <3> QED BY <3>2, <3>3, Zenon
  <2> QED BY <2>2
<1>5. SelectInSeq(d, LAMBDA c : c = 0) = Len(name) + 1
  <2>1. Len(d) \in Nat /\ Len(name) + 1 <= Len(d)
    BY <1>1, <1>3
  <2> QED BY <1>1, <1>3, <1>4, <2>1, FirstZero
<1>6. Lies(d, 0, name)
  BY <1>1, <1>3 DEF Lies
<1>7. SubSeq(d, 0 + 1, 0 + Len(name)) = name
  BY <1>1, <1>3, <1>6, Taken
<1>8. ReadUtf8(d) = SubSeq(d, 1, (Len(name) + 1) - 1)
  BY <1>5 DEF ReadUtf8
<1>9. 0 + 1 = 1 /\ 0 + Len(name) = Len(name) /\ (Len(name) + 1) - 1 = Len(name)
  BY <1>1
<1> QED BY <1>2, <1>3, <1>7, <1>8, <1>9 DEF WriteUtf8

\* In an upload the camera finds the name and the content of the file.
LEMMA UploadRead ==
  ASSUME NEW name \in Seq(1..255), NEW content \in Seq(Byte),
         Len(name) + Len(content) + 37 \in U32
  PROVE  /\ Payload(PackUpload(name, content))
         /\ LET p == PackUpload(name, content)
                found == SubSeq(p, 5, 4 + Read(p, 0, 4))
            IN ReadUtf8(found) = name /\ Drop(p, 4 + Len(found)) = content
<1>1. Len(name) \in Nat /\ Len(content) \in Nat /\ 0 \in Nat /\ 4 \in Nat
      /\ 4 \in 1..4 /\ 4 \in {1, 2, 4}
  OBVIOUS
<1>2. PICK n \in Nat : n = Len(name) + 1
  BY <1>1
<1>3. n < Limit(4)
  <2>1. n <= Len(name) + Len(content) + 37
    BY <1>1, <1>2
  <2> QED BY <2>1, Fits, Widths
<1>4. PICK x : x = ToBytes(n, 4)
  OBVIOUS
<1>5. x \in Seq(Byte) /\ Len(x) = 4 /\ Lies(x, 0, ToBytes(n, 4))
  BY <1>1, <1>4, BytesSeq DEF Lies
<1>6. PICK w : w = WriteUtf8(name)
  OBVIOUS
<1>7. w \in Seq(Byte) /\ Len(w) = n /\ ReadUtf8(w) = name
  BY <1>2, <1>6, Utf8Read
<1>8. PICK y : y = x \o w
  OBVIOUS
<1>9. /\ y \in Seq(Byte) /\ Len(y) = 4 + n /\ Keeps(x, y)
      /\ Lies(y, 4, w)
  <2>1. y \in Seq(Byte) /\ Len(y) = Len(x) + Len(w) /\ Lies(y, Len(x), w)
        /\ Keeps(x, y)
    BY <1>5, <1>7, <1>8, Put, PutKeeps, Zenon
  <2> QED BY <1>5, <1>7, <2>1
<1>10. PICK p : p = y \o content
  OBVIOUS
<1>11. /\ p \in Seq(Byte) /\ Len(p) = (4 + n) + Len(content) /\ Keeps(y, p)
       /\ Lies(p, 4 + n, content) /\ Lies(p, 4, w)
  <2>1. /\ p \in Seq(Byte) /\ Len(p) = Len(y) + Len(content)
        /\ Lies(p, Len(y), content) /\ Keeps(y, p) /\ Lies(p, 4, w)
    BY <1>1, <1>7, <1>9, <1>10, Put, PutKeeps, Zenon
  <2> QED BY <1>9, <2>1
<1>12. Read(p, 0, 4) = n
  <2>1. Lies(y, 0, ToBytes(n, 4))
    BY <1>1, <1>5, <1>9, Zenon DEF Keeps
  <2> QED BY <1>1, <1>3, <1>11, <2>1, ReadKept, Zenon
<1>13. SubSeq(p, 5, 4 + n) = w
  <2>1. SubSeq(p, 4 + 1, 4 + Len(w)) = w
    BY <1>1, <1>7, <1>11, Taken
  <2> QED BY <1>7, <2>1
<1>14. Drop(p, 4 + n) = content
  <2>1. 4 + n \in Nat
    OBVIOUS
  <2> QED BY <1>11, <2>1, Taken, Zenon
<1>15. Payload(p)
  <2>1. Len(p) + 32 = Len(name) + Len(content) + 37
    BY <1>1, <1>2, <1>11
  <2> QED BY <1>11, <2>1 DEF Payload
<1>16. p = PackUpload(name, content)
  BY <1>2, <1>4, <1>6, <1>8, <1>10 DEF PackUpload
<1> QED BY <1>7, <1>12, <1>13, <1>14, <1>15, <1>16

\* The packet before the name is written into it.
LEMMA RequestFields ==
  LET z == EmptyRequest IN
  /\ z \in Seq(Byte) /\ Len(z) = 36
  /\ Lies(z, 0, ToBytes(36, 4))
  /\ Lies(z, 4, ToBytes(PTPIP_INIT_COMMAND_REQ, 4))
  /\ \A i \in 25..34 : z[i] = 0
  /\ z[35] = 1 /\ z[36] = 0
<1>1. /\ 0 \in Nat /\ 1 \in Nat /\ 36 \in Nat /\ PTPIP_INIT_COMMAND_REQ \in Nat
      /\ 4 \in Nat /\ 2 \in 1..4 /\ 4 \in 1..4
  BY DEF PTPIP_INIT_COMMAND_REQ
<1>2. PICK g : g = [i \in 1..16 |-> 255]
  OBVIOUS
<1>3. PICK e : e = [i \in 1..8 |-> 0]
  OBVIOUS
<1>4. g \in Seq(Byte) /\ Len(g) = 16
  BY <1>2 DEF Byte
<1>5. e \in Seq(Byte) /\ Len(e) = 8 /\ \A i \in 1..8 : e[i] = 0
  BY <1>3 DEF Byte
<1>6. PICK a : a = ToBytes(36, 4)
  OBVIOUS
<1>7. a \in Seq(Byte) /\ Len(a) = 4 /\ Lies(a, 0, ToBytes(36, 4))
  BY <1>1, <1>6, BytesSeq DEF Lies
<1>8. PICK b : b = a \o ToBytes(PTPIP_INIT_COMMAND_REQ, 4)
  OBVIOUS
<1>9. /\ b \in Seq(Byte) /\ Len(b) = 8 /\ Keeps(a, b)
      /\ Lies(b, 4, ToBytes(PTPIP_INIT_COMMAND_REQ, 4))
  <2>1. /\ b \in Seq(Byte) /\ Len(b) = Len(a) + 4 /\ Keeps(a, b)
        /\ Lies(b, Len(a), ToBytes(PTPIP_INIT_COMMAND_REQ, 4))
    BY <1>1, <1>7, <1>8, PutNumber, Zenon
  <2> QED BY <1>7, <2>1
<1>10. PICK c : c = b \o g
  OBVIOUS
<1>11. c \in Seq(Byte) /\ Len(c) = 24 /\ Keeps(b, c)
  <2>1. c \in Seq(Byte) /\ Len(c) = Len(b) + Len(g) /\ Keeps(b, c)
    BY <1>4, <1>9, <1>10, Put, PutKeeps, Zenon
  <2> QED BY <1>4, <1>9, <2>1
<1>12. PICK d : d = c \o e
  OBVIOUS
<1>13. d \in Seq(Byte) /\ Len(d) = 32 /\ Keeps(c, d) /\ Lies(d, 24, e)
  <2>1. /\ d \in Seq(Byte) /\ Len(d) = Len(c) + Len(e) /\ Keeps(c, d)
        /\ Lies(d, Len(c), e)
    BY <1>5, <1>11, <1>12, Put, PutKeeps, Zenon
  <2> QED BY <1>5, <1>11, <2>1
<1>14. PICK f : f = d \o ToBytes(0, 2)
  OBVIOUS
<1>15. /\ f \in Seq(Byte) /\ Len(f) = 34 /\ Keeps(d, f)
       /\ Lies(f, 32, ToBytes(0, 2)) /\ Lies(f, 24, e)
  <2>1. /\ f \in Seq(Byte) /\ Len(f) = Len(d) + 2 /\ Keeps(d, f)
        /\ Lies(f, Len(d), ToBytes(0, 2))
    BY <1>1, <1>13, <1>14, PutNumber, Zenon
  <2>2. ToBytes(0, 2) \in Seq(Byte)
    BY <1>1, BytesSeq
  <2>3. 24 \in Nat
    OBVIOUS
  <2>4. Lies(f, 24, e)
    BY <1>5, <1>13, <1>14, <2>2, <2>3, Put, Zenon
  <2> QED BY <1>13, <2>1, <2>4
<1>26. PICK z : z = f \o ToBytes(1, 2)
  OBVIOUS
<1>27. z = EmptyRequest
  BY <1>2, <1>3, <1>6, <1>8, <1>10, <1>12, <1>14, <1>26, Zenon DEF EmptyRequest
<1>17. /\ z \in Seq(Byte) /\ Len(z) = 36 /\ Keeps(f, z)
       /\ Lies(z, 34, ToBytes(1, 2)) /\ Lies(z, 24, e)
  <2>1. /\ z \in Seq(Byte) /\ Len(z) = Len(f) + 2 /\ Keeps(f, z)
        /\ Lies(z, Len(f), ToBytes(1, 2))
    BY <1>1, <1>15, <1>26, PutNumber, Zenon
  <2>2. ToBytes(1, 2) \in Seq(Byte)
    BY <1>1, BytesSeq
  <2>3. 24 \in Nat
    OBVIOUS
  <2>4. Lies(z, 24, e)
    BY <1>5, <1>15, <1>26, <2>2, <2>3, Put, Zenon
  <2> QED BY <1>15, <2>1, <2>4
<1>18. Lies(z, 0, ToBytes(36, 4))
  BY <1>1, <1>7, <1>9, <1>11, <1>13, <1>15, <1>17, Zenon DEF Keeps
<1>19. Lies(z, 4, ToBytes(PTPIP_INIT_COMMAND_REQ, 4))
  BY <1>1, <1>9, <1>11, <1>13, <1>15, <1>17, Zenon DEF Keeps
<1>20. Lies(z, 32, ToBytes(0, 2))
  <2>1. 32 \in Nat
    OBVIOUS
  <2> QED BY <1>1, <1>15, <1>17, <2>1, Zenon DEF Keeps
<1>21. /\ ToBytes(0, 2)[1] = 0 /\ ToBytes(0, 2)[2] = 0
       /\ ToBytes(1, 2)[1] = 1 /\ ToBytes(1, 2)[2] = 0
  BY DEF ToBytes, Weight
<1>22. Len(ToBytes(0, 2)) = 2 /\ Len(ToBytes(1, 2)) = 2
  BY <1>1, BytesSeq
<1>23. z[32 + 1] = 0 /\ z[32 + 2] = 0 /\ z[34 + 1] = 1 /\ z[34 + 2] = 0
  <2>1. \A i \in 1..2 : z[32 + i] = ToBytes(0, 2)[i]
    BY <1>20, <1>22 DEF Lies
  <2>2. \A i \in 1..2 : z[34 + i] = ToBytes(1, 2)[i]
    BY <1>17, <1>22 DEF Lies
  <2>3. 1 \in 1..2 /\ 2 \in 1..2
    OBVIOUS
  <2> QED BY <1>21, <2>1, <2>2, <2>3
<1>24. \A i \in 1..8 : z[24 + i] = 0
  BY <1>5, <1>17 DEF Lies
<1>25. ASSUME NEW i \in 25..34 PROVE z[i] = 0
  <2>1. CASE i <= 32
    <3>1. i - 24 \in 1..8 /\ 24 + (i - 24) = i
      BY <2>1
    <3> QED BY <1>24, <3>1
  <2>2. CASE i = 33
    BY <1>23, <2>2
  <2>3. CASE i = 34
    BY <1>23, <2>3
  <2>4. i <= 32 \/ i = 33 \/ i = 34
    OBVIOUS
  <2> QED BY <2>1, <2>2, <2>3, <2>4
<1> QED BY <1>17, <1>18, <1>19, <1>23, <1>25, <1>27

\* The camera finds the name it was given, and the numbers around it.
LEMMA InitRead ==
  ASSUME NEW name \in Seq(1..255), Len(name) <= 3
  PROVE  LET d == InitRequest(name) IN
         /\ Read(d, 0, 4) = Len(d) /\ Read(d, 4, 4) = PTPIP_INIT_COMMAND_REQ
         /\ ReadUnicode(SubSeq(d, 25, 32)) = name
         /\ Read(d, 32, 4) = 65536
<1>1. PICK n \in 0..3 : n = Len(name)
  <2>1. PICK m : m = Len(name)
    OBVIOUS
  <2>2. m \in Nat /\ m <= 3
    BY <2>1, LenProperties, Zenon
  <2>3. m \in 0..3
    BY <2>2
  <2> QED BY <2>1, <2>3, Zenon
<1>2. name \in [1..n -> 1..255]
  BY <1>1, LenProperties
<1>3. \A i \in 1..n : name[i] \in Byte /\ name[i] # 0
  <2>1. \A c \in 1..255 : c \in Byte /\ c # 0
    BY DEF Byte
  <2> QED BY <1>2, <2>1, Zenon
<1>4. PICK z : z = EmptyRequest
  OBVIOUS
<1>5. /\ z \in Seq(Byte) /\ Len(z) = 36 /\ Lies(z, 0, ToBytes(36, 4))
      /\ Lies(z, 4, ToBytes(PTPIP_INIT_COMMAND_REQ, 4))
      /\ \A i \in 25..34 : z[i] = 0
      /\ z[35] = 1 /\ z[36] = 0
  BY <1>4, RequestFields
<1>6. PICK d : d = WriteUnicode(z, 24, name)
  OBVIOUS
<1>7. d = [i \in 1..36 |->
             LET at == i - 24 IN
             IF at \in 1..(2 * n) /\ at % 2 = 1 THEN name[(at + 1) \div 2]
             ELSE IF at \in 1..(2 * n + 2) /\ at % 2 = 0 THEN 0
             ELSE z[i]]
  BY <1>1, <1>5, <1>6 DEF WriteUnicode
<1>8. ASSUME NEW i \in 1..36 PROVE i \notin 25..32 => d[i] = z[i]
  <2>1. i \notin 25..32 => ~(i - 24 \in 1..(2 * n)) /\ ~(i - 24 \in 1..(2 * n + 2))
    OBVIOUS
  <2> QED BY <1>7, <2>1
<1>9. ASSUME NEW i \in 1..n PROVE d[23 + 2 * i] = name[i]
  <2>1. PICK k \in 1..36 : k = 23 + 2 * i
    OBVIOUS
  <2>2. /\ k - 24 \in 1..(2 * n) /\ (k - 24) % 2 = 1
        /\ ((k - 24) + 1) \div 2 = i
    BY <2>1
  <2> QED BY <1>7, <2>1, <2>2
<1>10. ASSUME NEW i \in (n + 1)..4 PROVE d[23 + 2 * i] = 0
  <2>1. PICK k \in 1..36 : k = 23 + 2 * i
    OBVIOUS
  <2>2. /\ ~(k - 24 \in 1..(2 * n)) /\ ~((k - 24) % 2 = 0)
        /\ k \in 25..34
    BY <2>1
  <2> QED BY <1>5, <1>7, <2>1, <2>2
<1>11. ASSUME NEW k \in 25..32 PROVE d[k] \in Byte
  <2>1. PICK i \in 1..4 : k = 23 + 2 * i \/ k = 24 + 2 * i
    <3>1. k \in {25, 26, 27, 28, 29, 30, 31, 32}
      OBVIOUS
    <3> QED BY <3>1
  <2>2. CASE k = 23 + 2 * i
    <3>1. i \in 1..n \/ i \in (n + 1)..4
      OBVIOUS
    <3>2. 0 \in Byte
      BY DEF Byte
    <3> QED BY <1>3, <1>9, <1>10, <2>2, <3>1, <3>2
  <2>3. CASE k = 24 + 2 * i
    <3>1. /\ (k - 24) % 2 = 0 /\ ~((k - 24) % 2 = 1)
          /\ k \in 1..36 /\ k \in 25..34
      BY <2>3
    <3>2. z[k] = 0
      BY <1>5, <3>1
    <3>3. d[k] = IF k - 24 \in 1..(2 * n + 2) THEN 0 ELSE z[k]
      BY <1>7, <3>1
    <3>4. d[k] = 0
      BY <3>2, <3>3
    <3> QED BY <3>4 DEF Byte
  <2> QED BY <2>1, <2>2, <2>3
<1>12. d \in Seq(Byte) /\ Len(d) = 36
  <2>1. z \in [1..36 -> Byte]
    BY <1>5, LenProperties
  <2>2. ASSUME NEW i \in 1..36 PROVE d[i] \in Byte
    <3>1. CASE i \in 25..32
      BY <1>11, <3>1
    <3>2. CASE i \notin 25..32
      BY <1>8, <2>1, <3>2
    <3> QED BY <3>1, <3>2
  <2>3. d \in [1..36 -> Byte]
    BY <1>7, <2>2
  <2>4. PICK m \in Nat : m = 36
    OBVIOUS
  <2>5. d \in [1..m -> Byte]
    BY <2>3, <2>4
  <2>6. d \in Seq(Byte) /\ Len(d) = m
    BY <2>5
  <2> QED BY <2>4, <2>6
<1>13. Read(d, 0, 4) = 36 /\ Read(d, 4, 4) = PTPIP_INIT_COMMAND_REQ
  <2>1. /\ 0 \in Nat /\ 4 \in Nat /\ 4 \in {1, 2, 4}
        /\ 36 \in Nat /\ 36 < Limit(4)
        /\ PTPIP_INIT_COMMAND_REQ \in Nat /\ PTPIP_INIT_COMMAND_REQ < Limit(4)
    BY Fits, Widths DEF PTPIP_INIT_COMMAND_REQ
  <2>2. Read(z, 0, 4) = 36 /\ Read(z, 4, 4) = PTPIP_INIT_COMMAND_REQ
    BY <1>5, <2>1, ReadThere, Zenon
  <2>3. ASSUME NEW i \in 1..8 PROVE d[i] = z[i]
    <3>1. i \in 1..36 /\ i \notin 25..32
      OBVIOUS
    <3> QED BY <1>8, <3>1, Zenon
  <2>4. Read(d, 0, 4) = Read(z, 0, 4)
    <3>1. /\ d[0 + 1] = z[0 + 1] /\ d[0 + 2] = z[0 + 2]
          /\ d[0 + 3] = z[0 + 3] /\ d[0 + 4] = z[0 + 4]
      BY <2>3
    <3> QED BY <3>1, ReadAs
  <2>5. Read(d, 4, 4) = Read(z, 4, 4)
    <3>1. /\ d[4 + 1] = z[4 + 1] /\ d[4 + 2] = z[4 + 2]
          /\ d[4 + 3] = z[4 + 3] /\ d[4 + 4] = z[4 + 4]
      BY <2>3
    <3> QED BY <3>1, ReadAs
  <2> QED BY <2>2, <2>4, <2>5
<1>14. Read(d, 32, 4) = 65536
  <2>1. ASSUME NEW i \in 33..36 PROVE d[i] = z[i]
    <3>1. i \in 1..36 /\ i \notin 25..32
      OBVIOUS
    <3> QED BY <1>8, <3>1, Zenon
  <2>2. d[32 + 1] = 0 /\ d[32 + 2] = 0 /\ d[32 + 3] = 1 /\ d[32 + 4] = 0
    BY <1>5, <2>1
  <2>3. Read(d, 32, 4) = 0 * 1 + 0 * 256 + 1 * 65536 + 0 * 16777216
    BY <2>2, ReadAs
  <2> QED BY <2>3
<1>15. ReadUnicode(SubSeq(d, 25, 32)) = name
  <2>1. PICK e : e = SubSeq(d, 25, 32)
    OBVIOUS
  <2>2. Len(e) = 8 /\ \A i \in 1..8 : e[i] = d[24 + i]
    <3>1. 25 \in Int /\ 32 \in Int
      OBVIOUS
    <3>2. /\ Len(e) = IF 25 <= 32 THEN 32 - 25 + 1 ELSE 0
          /\ \A i \in 1..(32 - 25 + 1) : e[i] = d[25 + i - 1]
      BY <1>11, <2>1, <3>1, SubSeqProperties
    <3>3. \A i \in Int : 25 + i - 1 = 24 + i
      OBVIOUS
    <3> QED BY <3>2, <3>3
  <2>3. PICK q : q = [i \in 1..(Len(e) \div 2) |-> e[2 * i - 1]]
    OBVIOUS
  <2>4. Len(q) = 4 /\ \A i \in 1..4 : q[i] = d[23 + 2 * i]
    <3>1. Len(e) \div 2 = 4
      BY <2>2
    <3>2. q = [i \in 1..4 |-> e[2 * i - 1]]
      BY <2>3, <3>1
    <3>3. ASSUME NEW i \in 1..4 PROVE q[i] = d[23 + 2 * i]
      <4>1. 2 * i - 1 \in 1..8 /\ 24 + (2 * i - 1) = 23 + 2 * i
        OBVIOUS
      <4> QED BY <2>2, <3>2, <4>1
    <3> QED BY <3>2, <3>3
  <2>5. q[n + 1] = 0 /\ \A i \in 1..n : q[i] # 0 /\ q[i] = name[i]
    <3>1. q[n + 1] = 0
      BY <1>10, <2>4
    <3>2. ASSUME NEW i \in 1..n PROVE q[i] = name[i]
      BY <1>9, <2>4
    <3> QED BY <1>3, <3>1, <3>2
  <2>6. SelectInSeq(q, LAMBDA c : c = 0) = n + 1
    <3>1. n \in Nat /\ Len(q) \in Nat /\ n + 1 <= Len(q)
      BY <2>4
    <3> QED BY <2>5, <3>1, FirstZero
  <2>7. ReadUnicode(e) = [i \in 1..((n + 1) - 1) |-> e[2 * i - 1]]
    BY <2>3, <2>6 DEF ReadUnicode
  <2>8. (n + 1) - 1 = n
    OBVIOUS
  <2>9. ASSUME NEW i \in 1..n PROVE e[2 * i - 1] = name[i]
    <3>1. 2 * i - 1 \in 1..8 /\ 24 + (2 * i - 1) = 23 + 2 * i
      OBVIOUS
    <3> QED BY <1>9, <2>2, <3>1
  <2>10. ReadUnicode(e) = [i \in 1..n |-> name[i]]
    BY <2>7, <2>8, <2>9
  <2> QED BY <1>2, <2>1, <2>10
<1>16. d = InitRequest(name)
  BY <1>4, <1>6 DEF InitRequest
<1>17. Read(d, 0, 4) = Len(d)
  BY <1>12, <1>13
<1>18. /\ Read(d, 0, 4) = Len(d) /\ Read(d, 4, 4) = PTPIP_INIT_COMMAND_REQ
       /\ ReadUnicode(SubSeq(d, 25, 32)) = name
       /\ Read(d, 32, 4) = 65536
  BY <1>13, <1>14, <1>15, <1>17
<1> QED BY <1>16, <1>18
-----------------------------------------------------------------------------
(* What the camera reads.                                                  *)

\* A command is one the caller may make.
CommandOK == command \in Command

\* No step makes another.
LEMMA CommandNext == CommandOK /\ [Next]_vars => CommandOK'
<1> SUFFICES ASSUME CommandOK, [Next]_vars PROVE CommandOK'
  OBVIOUS
<1>1. CASE Ask
  <2>1. PICK c \in Codes, t \in Transactions, p \in ParamLists :
          command' = [code |-> c, transaction |-> t, params |-> p]
    BY <1>1 DEF Ask
  <2>2. c \in U16 /\ t \in U32 /\ p \in Seq(U32) /\ Len(p) <= 5
    BY EncodingAssumption
  <2> QED BY <2>1, <2>2 DEF CommandOK, Command
<1>2. CASE UNCHANGED command
  BY <1>2 DEF CommandOK
<1> QED BY <1>1, <1>2
        DEF Next, AskIn, SendPayload, Answered, SetThenReported, vars

\* No command has been made yet.
LEMMA CommandInit == Init => CommandOK
<1>1. 0 \in U16 /\ 0 \in U32
  BY Fits
<1>2. <<>> \in Seq(U32) /\ Len(<<>>) <= 5
  OBVIOUS
<1>3. None \in Command
  BY <1>1, <1>2 DEF None, Command
<1> QED BY <1>3 DEF Init, CommandOK

\* A new command is whole.
LEMMA AskWhole == CommandOK' /\ Ask => AskedWhole'
<1> SUFFICES ASSUME CommandOK', Ask PROVE AskedWhole'
  OBVIOUS
<1>1. PICK phase : data' = IF Ip THEN IpCommand(command', phase)
                           ELSE UsbCommand(command')
  BY DEF Ask
<1>2. command' \in Command /\ Ip' = Ip
  BY DEF CommandOK, Ask, Ip
<1>3. CASE Ip
  <2>1. /\ Read(data', 0, 4) = Len(data')
        /\ Read(data', 12, 2) = command'.code
        /\ Read(data', 14, 4) = command'.transaction
        /\ \A i \in DOMAIN command'.params :
             Read(data', 14 + 4 * i, 4) = command'.params[i]
    BY <1>1, <1>2, <1>3, IpCommandRead
  <2>2. 12 + 2 = 14
    OBVIOUS
  <2> QED BY <1>2, <1>3, <2>1, <2>2 DEF AskedWhole
<1>4. CASE ~Ip
  <2>1. /\ Read(data', 0, 4) = Len(data')
        /\ Read(data', 6, 2) = command'.code
        /\ Read(data', 8, 4) = command'.transaction
        /\ \A i \in DOMAIN command'.params :
             Read(data', 8 + 4 * i, 4) = command'.params[i]
    BY <1>1, <1>2, <1>4, UsbCommandRead
  <2>2. 6 + 2 = 8
    OBVIOUS
  <2> QED BY <1>2, <1>4, <2>1, <2>2 DEF AskedWhole
<1> QED BY <1>3, <1>4

\* The packets of a data phase are whole.
LEMMA SendWhole == CommandOK /\ SendPayload => SentWhole' /\ UploadWhole'
<1> SUFFICES ASSUME CommandOK, SendPayload PROVE SentWhole' /\ UploadWhole'
  OBVIOUS
<1>1. PICK sent \in {[kind |-> "struct", content |-> s,
                      payload |-> Pack(s[1], s[2])] : s \in Structures}
                \cup {[kind |-> "upload", content |-> f,
                       payload |-> PackUpload(f[1], f[2])] : f \in Files} :
        /\ answer' = [reply |-> None, kind |-> sent.kind,
                      content |-> sent.content, payload |-> sent.payload]
        /\ \/ ~Ip /\ stage' = "data" /\ data' = UsbData(command, sent.payload)
           \/ /\ Ip /\ stage' = "start"
              /\ data' = IpDataStart(command, Len(sent.payload))
           \/ Ip /\ stage' = "end" /\ data' = IpDataEnd(command, sent.payload)
  BY DEF SendPayload
<1>2. /\ answer'.kind = sent.kind /\ answer'.content = sent.content
      /\ answer'.payload = sent.payload
      /\ command \in Command /\ command' = command
  BY <1>1 DEF CommandOK, SendPayload
<1> DEFINE name == SubSeq(sent.payload, 5, 4 + Read(sent.payload, 0, 4))
           Right == /\ ReadUtf8(name) = sent.content[1]
                    /\ Drop(sent.payload, 4 + Len(name)) = sent.content[2]
<1>3. Payload(sent.payload) /\ (sent.kind = "upload" => Right)
  <2>1. \/ \E s \in Structures :
             sent = [kind |-> "struct", content |-> s,
                     payload |-> Pack(s[1], s[2])]
        \/ \E f \in Files :
             sent = [kind |-> "upload", content |-> f,
                     payload |-> PackUpload(f[1], f[2])]
    BY <1>1
  <2>2. ASSUME NEW s \in Structures,
               sent = [kind |-> "struct", content |-> s,
                       payload |-> Pack(s[1], s[2])]
        PROVE  Payload(sent.payload) /\ sent.kind # "upload"
    BY <2>2, Sent
  <2>3. ASSUME NEW f \in Files,
               sent = [kind |-> "upload", content |-> f,
                       payload |-> PackUpload(f[1], f[2])]
        PROVE  Payload(sent.payload) /\ Right
    <3>1. /\ f[1] \in Seq(1..255) /\ f[2] \in Seq(Byte)
          /\ Len(f[1]) + Len(f[2]) + 37 \in U32
      BY EncodingAssumption
    <3>2. sent.content = f /\ sent.payload = PackUpload(f[1], f[2])
      BY <2>3
    <3>3. /\ Payload(PackUpload(f[1], f[2]))
          /\ LET p == PackUpload(f[1], f[2])
                 found == SubSeq(p, 5, 4 + Read(p, 0, 4))
             IN ReadUtf8(found) = f[1] /\ Drop(p, 4 + Len(found)) = f[2]
      BY <3>1, UploadRead, Zenon
    <3> QED BY <3>2, <3>3
  <2> HIDE DEF Right
  <2> QED BY <2>1, <2>2, <2>3
<1>4. UploadWhole'
  <2>1. UploadWhole' <=> (stage' \in {"data", "start", "end"}
                            /\ sent.kind = "upload" => Right)
    BY <1>2 DEF UploadWhole
  <2> HIDE DEF Right
  <2> QED BY <1>3, <2>1
<1>6. /\ sent.payload \in Seq(Byte) /\ Len(sent.payload) \in Nat
      /\ Len(sent.payload) + 32 \in U32
  BY <1>3 DEF Payload
<1>5. SentWhole'
  <2>1. CASE stage' = "data" /\ data' = UsbData(command, sent.payload)
    <3>1. /\ Read(data', 0, 4) = Len(data') /\ Read(data', 4, 2) = DATA
          /\ Read(data', 6, 2) = command.code
          /\ Read(data', 8, 4) = command.transaction
          /\ Drop(data', 12) = sent.payload
      BY <1>2, <1>3, <2>1, UsbDataRead
    <3>2. Drop(data', 12) = answer'.payload /\ stage' = "data"
      BY <1>2, <2>1, <3>1
    <3>3. ~(stage' = "start")
      BY <3>2
    <3> QED BY <1>2, <3>1, <3>2, <3>3, Zenon DEF SentWhole
  <2>2. CASE stage' = "start" /\ data' = IpDataStart(command, Len(sent.payload))
    <3>1. PICK n : n = Len(sent.payload)
      OBVIOUS
    <3>2. n \in Nat /\ n < Limit(4) /\ 20 < Limit(4) /\ 20 \in Nat
      <4>1. n <= Len(sent.payload) + 32
        BY <1>6, <3>1
      <4>2. n \in U32 /\ 20 \in U32
        BY <1>6, <3>1, <4>1, Fits
      <4> QED BY <4>2, Widths
    <3>3. /\ data' \in Seq(Byte) /\ Len(data') = 20
          /\ Lies(data', 0, ToBytes(20, 4)) /\ Lies(data', 12, ToBytes(n, 4))
      BY <1>2, <2>2, <3>1, <3>2, StartFields
    <3>4. 0 \in Nat /\ 12 \in Nat /\ 4 \in {1, 2, 4}
      OBVIOUS
    <3>5. Read(data', 0, 4) = 20 /\ Read(data', 12, 4) = n
      BY <3>2, <3>3, <3>4, ReadThere, Zenon
    <3> QED BY <1>2, <2>2, <3>1, <3>3, <3>5 DEF SentWhole
  <2>3. CASE stage' = "end" /\ data' = IpDataEnd(command, sent.payload)
    <3>1. PICK n : n = 12 + Len(sent.payload)
      OBVIOUS
    <3>2. n \in Nat /\ n < Limit(4)
      <4>1. n \in Nat /\ n <= Len(sent.payload) + 32
        BY <1>6, <3>1
      <4>2. n \in U32
        BY <1>6, <4>1, Fits
      <4> QED BY <4>2, Widths
    <3>3. /\ data' \in Seq(Byte) /\ Len(data') = n
          /\ Lies(data', 0, ToBytes(n, 4)) /\ Lies(data', 12, sent.payload)
      BY <1>2, <1>6, <2>3, <3>1, EndFields
    <3>4. 0 \in Nat /\ 12 \in Nat /\ 4 \in {1, 2, 4}
      OBVIOUS
    <3>5. Read(data', 0, 4) = n
      BY <3>2, <3>3, <3>4, ReadThere
    <3>6. 12 + Len(sent.payload) = Len(data')
      BY <3>1, <3>3
    <3>7. Drop(data', 12) = sent.payload
      BY <1>6, <3>3, <3>4, <3>6, Taken
    <3> QED BY <1>2, <2>3, <3>3, <3>5, <3>7 DEF SentWhole
  <2> QED BY <1>1, <2>1, <2>2, <2>3
<1> QED BY <1>4, <1>5

\* The first packet is whole.
LEMMA AskInWhole == AskIn => InitWhole'
<1> SUFFICES ASSUME AskIn PROVE InitWhole'
  OBVIOUS
<1>1. PICK name \in Names : /\ data' = InitRequest(name)
                            /\ answer' = [NoAnswer EXCEPT !.content = name]
  BY DEF AskIn
<1>2. name \in Seq(1..255) /\ Len(name) <= 3
  BY EncodingAssumption
<1>3. answer'.content = name
  BY <1>1 DEF NoAnswer
<1>4. /\ Read(data', 0, 4) = Len(data')
      /\ Read(data', 4, 4) = PTPIP_INIT_COMMAND_REQ
      /\ ReadUnicode(SubSeq(data', 25, 32)) = name
      /\ Read(data', 32, 4) = 65536
  BY <1>1, <1>2, InitRead
<1> QED BY <1>3, <1>4 DEF InitWhole

\* A camera finds the fields of the command, of a data packet and of the first
\* packet, and the name and content of an upload.
THEOREM CommandWholeHolds == Spec => []CommandWhole
<1> DEFINE Whole == AskedWhole /\ SentWhole /\ UploadWhole /\ InitWhole
<1>1. Init => Whole
  BY DEF Init, AskedWhole, SentWhole, UploadWhole, InitWhole
<1>2. CommandOK /\ Whole /\ [Next]_vars => Whole'
  <2> SUFFICES ASSUME CommandOK, Whole, [Next]_vars PROVE Whole'
    OBVIOUS
  <2>1. CommandOK'
    BY CommandNext
  <2>2. CASE Ask
    <3>1. stage' = "command"
      BY <2>2 DEF Ask
    <3>2. AskedWhole'
      BY <2>1, <2>2, AskWhole
    <3> QED BY <3>1, <3>2 DEF SentWhole, UploadWhole, InitWhole
  <2>3. CASE AskIn
    <3>1. stage' = "init"
      BY <2>3 DEF AskIn
    <3>2. InitWhole'
      BY <2>3, AskInWhole
    <3> QED BY <3>1, <3>2 DEF AskedWhole, SentWhole, UploadWhole
  <2>4. CASE SendPayload
    <3>1. stage' \in {"data", "start", "end"}
      BY <2>4 DEF SendPayload
    <3>2. SentWhole' /\ UploadWhole'
      BY <2>4, SendWhole
    <3> QED BY <3>1, <3>2 DEF AskedWhole, InitWhole
  <2>5. CASE Answered \/ SetThenReported
    <3>1. stage' \in {"answered", "reported"}
      BY <2>5 DEF Answered, SetThenReported
    <3> QED BY <3>1 DEF AskedWhole, SentWhole, UploadWhole, InitWhole
  <2>6. CASE UNCHANGED vars
    <3>1. /\ connection_type' = connection_type /\ data' = data
          /\ stage' = stage /\ command' = command /\ answer' = answer
      BY <2>6 DEF vars
    <3>2. AskedWhole'
      BY <3>1 DEF AskedWhole, Ip
    <3>3. SentWhole'
      BY <3>1 DEF SentWhole
    <3>4. UploadWhole'
      BY <3>1 DEF UploadWhole
    <3>5. InitWhole'
      BY <3>1 DEF InitWhole
    <3> QED BY <3>2, <3>3, <3>4, <3>5
  <2> QED BY <2>2, <2>3, <2>4, <2>5, <2>6 DEF Next
<1>3. Whole => CommandWhole
  BY DEF CommandWhole
<1> HIDE DEF Whole
<1> QED BY <1>1, <1>2, <1>3, CommandInit, CommandNext, PTL DEF Spec
-----------------------------------------------------------------------------
(* What is found in the reply.                                             *)

\* In d lies what does in phase, behind it the numbers in resp, and behind that
\* the parameters.
Found(d, phase, resp, params) ==
  /\ d \in Seq(Byte)
  /\ \A b \in Seq(Byte), p \in Nat : Lies(phase, p, b) => Lies(d, p, b)
  /\ \A o \in Nat, n \in Nat, v \in {1, 2, 4} :
       Lies(resp, o, ToBytes(n, v)) /\ n < Limit(v)
         => Read(d, Len(phase) + o, v) = n
  /\ \A i \in DOMAIN params :
       Read(d, Len(phase) + Len(resp) + 4 * (i - 1), 4) = params[i]

\* They are put together as a reply is.
LEMMA Behind ==
  ASSUME NEW phase \in Seq(Byte), NEW resp \in Seq(Byte),
         NEW params \in Seq(U32)
  PROVE  Found(phase \o resp \o Bytes(params), phase, resp, params)
<1>1. PICK a : a = phase \o resp
  OBVIOUS
<1>2. /\ a \in Seq(Byte) /\ Len(a) = Len(phase) + Len(resp)
      /\ Lies(a, Len(phase), resp)
      /\ \A b \in Seq(Byte), p \in Nat : Lies(phase, p, b) => Lies(a, p, b)
  BY <1>1, Put, Zenon
<1>3. PICK k : k = Len(phase) + Len(resp)
  OBVIOUS
<1>4. Len(phase) \in Nat /\ Len(resp) \in Nat /\ k \in Nat
  BY <1>3
<1>5. PICK d : d = a \o Bytes(params)
  OBVIOUS
<1>6. /\ d \in Seq(Byte) /\ Keeps(a, d)
      /\ \A i \in DOMAIN params : Read(d, k + 4 * (i - 1), 4) = params[i]
  BY <1>2, <1>3, <1>4, <1>5, PutParameters
<1>7. ASSUME NEW b \in Seq(Byte), NEW p \in Nat, Lies(phase, p, b)
      PROVE  Lies(d, p, b)
  <2>1. Bytes(params) \in Seq(Byte)
    BY Parameters
  <2>2. Lies(a, p, b)
    BY <1>2, <1>7
  <2> QED BY <1>2, <1>5, <2>1, <2>2, Put
<1>8. ASSUME NEW o \in Nat, NEW n \in Nat, NEW v \in {1, 2, 4},
             Lies(resp, o, ToBytes(n, v)), n < Limit(v)
      PROVE  Read(d, Len(phase) + o, v) = n
  <2>1. v \in 1..4
    OBVIOUS
  <2>2. ToBytes(n, v) \in Seq(Byte)
    BY <2>1, BytesSeq
  <2>3. PICK at \in Nat : at = Len(phase) + o
    BY <1>4
  <2>4. Lies(a, at, ToBytes(n, v))
    BY <1>2, <1>4, <1>8, <2>2, <2>3, LiesIn
  <2>5. Read(d, at, v) = n
    BY <1>6, <1>8, <2>4, ReadKept
  <2> QED BY <2>3, <2>5
<1> QED BY <1>1, <1>3, <1>5, <1>6, <1>7, <1>8, Zenon DEF Found

\* A response as the camera sends it: its type has two bytes or four.
ResponseBytes(reply, w, type) ==
  ToBytes(10 + w + Len(Bytes(reply.params)), 4) \o ToBytes(type, w)
  \o ToBytes(reply.code, 2) \o ToBytes(reply.transaction, 4)

\* Its fields and its parameters are read at their places from at on.
Responds(d, at, w, type, reply) ==
  /\ Read(d, at, 4) = 10 + w + 4 * Len(reply.params)
  /\ Read(d, at + 4, w) = type
  /\ Read(d, at + (4 + w), 2) = reply.code
  /\ Read(d, at + (6 + w), 4) = reply.transaction
  /\ \A i \in DOMAIN reply.params :
       Read(d, at + (10 + w) + 4 * (i - 1), 4) = reply.params[i]

\* They are, behind any data phase, in which nothing changes.
LEMMA ResponseRead ==
  ASSUME NEW phase \in Seq(Byte), NEW reply \in Command, NEW w \in 2..4,
         w # 3, NEW type \in U16, NEW at \in Nat, at = Len(phase)
  PROVE  LET d == phase \o ResponseBytes(reply, w, type)
                    \o Bytes(reply.params)
         IN /\ d \in Seq(Byte) /\ Responds(d, at, w, type, reply)
            /\ \A b \in Seq(Byte), p \in Nat :
                 Lies(phase, p, b) => Lies(d, p, b)
<1>1. /\ reply.params \in Seq(U32) /\ Len(reply.params) \in Nat
      /\ Len(reply.params) <= 5
      /\ reply.code \in Nat /\ reply.code < Limit(2)
      /\ reply.transaction \in Nat /\ reply.transaction < Limit(4)
  BY Widths DEF Command
<1>18. PICK m \in Nat : m = Len(reply.params) /\ m <= 5
  BY <1>1, Zenon
<1>19. w \in {1, 2, 4} /\ w \in 1..4 /\ (w = 2 \/ w = 4)
  OBVIOUS
<1>2. PICK n \in Nat : n = 10 + w + 4 * m
  OBVIOUS
<1>20. n < 65536
  <2>1. m <= 5 /\ n = 10 + w + 4 * m
    BY <1>2, <1>18, Zenon
  <2>2. n <= 10 + 4 + 4 * 5
    BY <2>1
  <2> QED BY <2>2
<1>3. n < Limit(4) /\ type \in Nat /\ type < Limit(w)
  <2>1. n \in U32 /\ type \in U32
    BY <1>20, Fits, Widths
  <2>2. type \in Nat /\ type < Limit(2) /\ type < Limit(4) /\ n < Limit(4)
    BY <2>1, Widths
  <2> QED BY <1>19, <2>2
<1>4. 10 + w + Len(Bytes(reply.params)) = n
  <2>1. Len(Bytes(reply.params)) = 4 * m
    BY <1>1, <1>18, Parameters
  <2> QED BY <1>2, <2>1
<1>5. PICK x : x = ToBytes(n, 4) \o ToBytes(type, w) \o ToBytes(reply.code, 2)
                   \o ToBytes(reply.transaction, 4)
  OBVIOUS
<1>6. /\ 2 \in 1..4 /\ 4 \in 1..4 /\ 2 \in {1, 2, 4} /\ 4 \in {1, 2, 4}
      /\ w \in 1..4 /\ w \in {1, 2, 4}
      /\ 0 \in Nat /\ 4 \in Nat /\ 4 + w \in Nat /\ 6 + w \in Nat
      /\ 4 + w + 2 = 6 + w /\ 4 + w + 2 + 4 = 10 + w
  OBVIOUS
<1>7. /\ x \in Seq(Byte) /\ Len(x) = 10 + w /\ Lies(x, 0, ToBytes(n, 4))
      /\ Lies(x, 4, ToBytes(type, w))
      /\ Lies(x, 4 + w, ToBytes(reply.code, 2))
      /\ Lies(x, 6 + w, ToBytes(reply.transaction, 4))
  <2>1. Four(x, n, type, w, reply.code, 2, reply.transaction, 4)
    BY <1>1, <1>3, <1>5, <1>6, FourNumbers, Zenon
  <2> QED BY <1>6, <2>1 DEF Four
<1>8. PICK d : d = phase \o x \o Bytes(reply.params)
  OBVIOUS
<1>9. Found(d, phase, x, reply.params)
  BY <1>1, <1>7, <1>8, Behind, Zenon
<1>10. Read(d, Len(phase) + 0, 4) = n
  BY <1>3, <1>6, <1>7, <1>9, Zenon DEF Found
<1>11. Read(d, Len(phase) + 4, w) = type
  BY <1>3, <1>6, <1>7, <1>9, Zenon DEF Found
<1>12. Read(d, Len(phase) + (4 + w), 2) = reply.code
  BY <1>1, <1>6, <1>7, <1>9, Zenon DEF Found
<1>13. Read(d, Len(phase) + (6 + w), 4) = reply.transaction
  BY <1>1, <1>6, <1>7, <1>9, Zenon DEF Found
<1>14. at + 0 = at
  OBVIOUS
<1>15. /\ Read(d, at, 4) = 10 + w + 4 * Len(reply.params)
       /\ Read(d, at + 4, w) = type
       /\ Read(d, at + (4 + w), 2) = reply.code
       /\ Read(d, at + (6 + w), 4) = reply.transaction
  <2>1. n = 10 + w + 4 * Len(reply.params)
    BY <1>2, <1>18, Zenon
  <2>2. Len(phase) + 0 = at
    BY <1>14, Zenon
  <2> QED BY <1>10, <1>11, <1>12, <1>13, <2>1, <2>2, Zenon
<1>16. \A i \in DOMAIN reply.params :
         Read(d, at + (10 + w) + 4 * (i - 1), 4) = reply.params[i]
  BY <1>7, <1>9 DEF Found
<1>17. /\ d \in Seq(Byte)
       /\ \A b \in Seq(Byte), p \in Nat : Lies(phase, p, b) => Lies(d, p, b)
  BY <1>9 DEF Found
<1>21. x = ResponseBytes(reply, w, type)
  BY <1>4, <1>5, Zenon DEF ResponseBytes
<1>22. Responds(d, at, w, type, reply)
  BY <1>15, <1>16, Zenon DEF Responds
<1> QED BY <1>8, <1>17, <1>21, <1>22, Zenon

\* The accessors return what is read from Response on.
LEMMA Accessed ==
  ASSUME NEW reply \in Command, NEW at \in Nat, Response = at, NEW type,
         Responds(data, at, IF Ip THEN 4 ELSE 2, type, reply)
  PROVE  /\ ptp_get_return_code = reply.code
         /\ ptp_get_last_transaction_id = reply.transaction
         /\ ptp_get_param_length = Len(reply.params)
         /\ Ip \/ at = 0 => \A i \in DOMAIN reply.params :
                              ptp_get_param(i - 1) = reply.params[i]
<1>1. PICK m \in Nat : m = Len(reply.params)
  BY DEF Command
<1>2. CASE Ip
  <2>1. Responds(data, at, 4, type, reply)
    BY <1>2
  <2>2. 4 + 4 = 8 /\ 6 + 4 = 10 /\ 10 + 4 = 14
    OBVIOUS
  <2>3. /\ Read(data, at, 4) = 14 + 4 * Len(reply.params)
        /\ Read(data, at + 8, 2) = reply.code
        /\ Read(data, at + 10, 4) = reply.transaction
        /\ \A i \in DOMAIN reply.params :
             Read(data, at + 14 + 4 * (i - 1), 4) = reply.params[i]
    BY <2>1, <2>2, Zenon DEF Responds
  <2>4. ((14 + 4 * m) - 14) \div 4 = m
    OBVIOUS
  <2>5. ptp_get_param_length = Len(reply.params)
    BY <1>1, <1>2, <2>3, <2>4, Zenon DEF ptp_get_param_length
  <2>6. \A i \in DOMAIN reply.params : ptp_get_param(i - 1) = reply.params[i]
    BY <1>2, <2>3 DEF ptp_get_param
  <2> QED BY <1>2, <2>3, <2>5, <2>6
          DEF ptp_get_return_code, ptp_get_last_transaction_id
<1>3. CASE ~Ip
  <2>1. Responds(data, at, 2, type, reply)
    BY <1>3
  <2>2. 4 + 2 = 6 /\ 6 + 2 = 8 /\ 10 + 2 = 12
    OBVIOUS
  <2>3. /\ Read(data, at, 4) = 12 + 4 * Len(reply.params)
        /\ Read(data, at + 6, 2) = reply.code
        /\ Read(data, at + 8, 4) = reply.transaction
        /\ \A i \in DOMAIN reply.params :
             Read(data, at + 12 + 4 * (i - 1), 4) = reply.params[i]
    BY <2>1, <2>2, Zenon DEF Responds
  <2>4. ((12 + 4 * m) - 12) \div 4 = m
    OBVIOUS
  <2>5. ptp_get_param_length = Len(reply.params)
    BY <1>1, <1>3, <2>3, <2>4, Zenon DEF ptp_get_param_length
  <2>6. at = 0 => \A i \in DOMAIN reply.params :
                    ptp_get_param(i - 1) = reply.params[i]
    BY <1>3, <2>3 DEF ptp_get_param
  <2> QED BY <1>3, <2>3, <2>5, <2>6
          DEF ptp_get_return_code, ptp_get_last_transaction_id
<1> QED BY <1>2, <1>3

\* The data phase of a reply.
PhaseOf(kind, payload) ==
  IF kind = "none" THEN <<>>
  ELSE IF Ip THEN IpDataStart(command, Len(payload))
                  \o IpDataEnd(command, payload)
  ELSE ToBytes(12 + Len(payload), 4) \o ToBytes(DATA, 2)
       \o ToBytes(command.code, 2) \o ToBytes(command.transaction, 4)
       \o payload

\* What r->data holds when the reply is there.
Shape ==
  stage = "answered" =>
    /\ answer.reply \in Command /\ Payload(answer.payload)
    /\ data = PhaseOf(answer.kind, answer.payload)
                \o ResponseBytes(answer.reply, IF Ip THEN 4 ELSE 2,
                                 IF Ip THEN PTPIP_COMMAND_RESPONSE
                                 ELSE RESPONSE)
                \o Bytes(answer.reply.params)

\* Whether or not there is a data phase, what is found in the reply is the
\* response and the payload.
Whole(at) ==
  /\ Response = at
  /\ Responds(data, at, IF Ip THEN 4 ELSE 2,
              IF Ip THEN PTPIP_COMMAND_RESPONSE ELSE RESPONSE, answer.reply)
  /\ answer.kind # "none" =>
       /\ ptp_get_payload_length = Len(answer.payload)
       /\ SubSeq(ptp_get_payload, 1, ptp_get_payload_length) = answer.payload
       /\ \A i \in 1..Len(answer.payload) :
            ptp_get_payload[i] = answer.payload[i]
       /\ ptp_get_payload \in Seq(Byte)
       /\ Lies(ptp_get_payload, 0, answer.payload)

\* Types have the width of their field.
LEMMA TypesFit ==
  /\ RESPONSE \in U16 /\ PTPIP_COMMAND_RESPONSE \in U16
  /\ RESPONSE # DATA /\ DATA # COMMAND /\ DATA \in Nat /\ DATA < Limit(2)
  /\ PTPIP_DATA_PACKET_START # PTPIP_COMMAND_RESPONSE
  /\ PTPIP_DATA_PACKET_START \in Nat /\ PTPIP_DATA_PACKET_START < Limit(4)
<1>1. 3 \in U16 /\ 7 \in U16 /\ 2 \in U16 /\ 9 \in U32
  BY Fits
<1>2. 3 # 2 /\ 2 # 1 /\ 9 # 7
  OBVIOUS
<1> QED BY <1>1, <1>2, Widths, Zenon
        DEF RESPONSE, PTPIP_COMMAND_RESPONSE, DATA, COMMAND,
            PTPIP_DATA_PACKET_START

\* A reply without a data phase.
LEMMA BareReply ==
  ASSUME CommandOK, Shape, stage = "answered", answer.kind = "none"
  PROVE  Whole(0)
<1>1. <<>> \in Seq(Byte) /\ Len(<<>>) = 0 /\ 0 \in Nat
      /\ 2 \in 2..4 /\ 4 \in 2..4 /\ 2 # 3 /\ 4 # 3 /\ 0 + 4 = 4
  OBVIOUS
<1>2. answer.reply \in Command
  BY DEF Shape
<1>3. CASE Ip
  <2>1. data = <<>> \o ResponseBytes(answer.reply, 4, PTPIP_COMMAND_RESPONSE)
                 \o Bytes(answer.reply.params)
    BY <1>3 DEF Shape, PhaseOf
  <2>2. Responds(data, 0, 4, PTPIP_COMMAND_RESPONSE, answer.reply)
    BY <1>1, <1>2, <2>1, TypesFit, ResponseRead, Zenon
  <2>3. Read(data, 4, 4) = PTPIP_COMMAND_RESPONSE
    BY <1>1, <2>2, Zenon DEF Responds
  <2>4. Response = 0
    BY <1>3, <2>3 DEF Response, Ip
  <2> QED BY <1>3, <2>2, <2>4 DEF Whole
<1>4. CASE ~Ip
  <2>1. data = <<>> \o ResponseBytes(answer.reply, 2, RESPONSE)
                 \o Bytes(answer.reply.params)
    BY <1>4 DEF Shape, PhaseOf
  <2>2. Responds(data, 0, 2, RESPONSE, answer.reply)
    BY <1>1, <1>2, <2>1, TypesFit, ResponseRead, Zenon
  <2>3. Read(data, 4, 2) = RESPONSE
    BY <1>1, <2>2, Zenon DEF Responds
  <2>4. Response = 0
    BY <1>4, <2>3, TypesFit DEF Response, Ip
  <2> QED BY <1>4, <2>2, <2>4 DEF Whole
<1> QED BY <1>3, <1>4

\* What is taken up to the end begins with it.
LEMMA TakenEach ==
  ASSUME NEW d \in Seq(Byte), NEW b \in Seq(Byte), NEW k \in Nat, Lies(d, k, b)
  PROVE  LET r == SubSeq(d, k + 1, Len(d))
         IN r \in Seq(Byte) /\ Lies(r, 0, b) /\ \A i \in 1..Len(b) : r[i] = b[i]
<1>1. /\ Len(d) \in Nat /\ Len(b) \in Nat /\ k + Len(b) <= Len(d)
      /\ \A i \in 1..Len(b) : d[k + i] = b[i]
  BY DEF Lies
<1>2. PICK r : r = SubSeq(d, k + 1, Len(d))
  OBVIOUS
<1>3. k + 1 \in Int /\ Len(d) \in Int /\ \A i \in (k + 1)..Len(d) : d[i] \in Byte
  BY <1>1
<1>4. /\ r \in Seq(Byte)
      /\ Len(r) = IF k + 1 <= Len(d) THEN Len(d) - (k + 1) + 1 ELSE 0
      /\ \A i \in 1..(Len(d) - (k + 1) + 1) : r[i] = d[k + 1 + i - 1]
  BY <1>2, <1>3, SubSeqProperties
<1>5. ASSUME NEW i \in 1..Len(b) PROVE r[i] = b[i]
  <2>1. i \in 1..(Len(d) - (k + 1) + 1) /\ k + 1 + i - 1 = k + i
    BY <1>1
  <2> QED BY <1>1, <1>4, <2>1
<1>6. 0 + Len(b) <= Len(r)
  BY <1>1, <1>4
<1>7. \A i \in 1..Len(b) : r[0 + i] = b[i]
  <2>1. \A i \in 1..Len(b) : 0 + i = i
    OBVIOUS
  <2> QED BY <1>5, <2>1
<1>8. Lies(r, 0, b)
  BY <1>6, <1>7 DEF Lies
<1> QED BY <1>2, <1>4, <1>5, <1>8

\* A USB data packet of the camera: its length, its type and its payload.
LEMMA UsbPhase ==
  ASSUME NEW cmd \in Command, NEW payload, Payload(payload),
         NEW d, d = ToBytes(12 + Len(payload), 4) \o ToBytes(DATA, 2)
                    \o ToBytes(cmd.code, 2) \o ToBytes(cmd.transaction, 4)
                    \o payload
  PROVE  /\ d \in Seq(Byte) /\ Len(d) = 12 + Len(payload)
         /\ Lies(d, 0, ToBytes(12 + Len(payload), 4))
         /\ Lies(d, 4, ToBytes(DATA, 2)) /\ Lies(d, 12, payload)
<1>1. payload \in Seq(Byte) /\ Len(payload) \in Nat
  BY DEF Payload
<1>2. PICK n \in Nat : n = 12 + Len(payload)
  BY <1>1
<1>3. PICK h : h = ToBytes(n, 4) \o ToBytes(DATA, 2) \o ToBytes(cmd.code, 2)
                   \o ToBytes(cmd.transaction, 4)
  OBVIOUS
<1>4. /\ 2 \in 1..4 /\ 4 \in 1..4 /\ 0 \in Nat /\ 4 \in Nat
      /\ 4 + 2 + 2 + 4 = 12
  OBVIOUS
<1>5. cmd.code \in Nat /\ cmd.transaction \in Nat /\ DATA \in Nat
  BY Widths, TypesFit DEF Command
<1>6. Four(h, n, DATA, 2, cmd.code, 2, cmd.transaction, 4)
  BY <1>2, <1>3, <1>4, <1>5, FourNumbers, Zenon
<1>7. /\ h \in Seq(Byte) /\ Len(h) = 12 /\ Lies(h, 0, ToBytes(n, 4))
      /\ Lies(h, 4, ToBytes(DATA, 2))
  BY <1>4, <1>6, Zenon DEF Four
<1>8. d = h \o payload
  BY <1>2, <1>3
<1>9. /\ d \in Seq(Byte) /\ Len(d) = Len(h) + Len(payload)
      /\ Lies(d, Len(h), payload) /\ Keeps(h, d)
  BY <1>1, <1>7, <1>8, Put, PutKeeps, Zenon
<1>10. Lies(d, 0, ToBytes(n, 4)) /\ Lies(d, 4, ToBytes(DATA, 2))
  BY <1>2, <1>4, <1>5, <1>7, <1>9, Zenon DEF Keeps
<1> QED BY <1>2, <1>7, <1>9, <1>10, Zenon

\* The two packets of a PTP/IP data phase: the length and type of the first,
\* the length of the payload, the length of the second, and the payload.
LEMMA IpPhase ==
  ASSUME NEW cmd \in Command, NEW payload, Payload(payload),
         NEW d, d = IpDataStart(cmd, Len(payload)) \o IpDataEnd(cmd, payload)
  PROVE  /\ d \in Seq(Byte) /\ Len(d) = 20 + (12 + Len(payload))
         /\ Lies(d, 0, ToBytes(20, 4))
         /\ Lies(d, 4, ToBytes(PTPIP_DATA_PACKET_START, 4))
         /\ Lies(d, 12, ToBytes(Len(payload), 4))
         /\ Lies(d, 20, ToBytes(12 + Len(payload), 4))
         /\ Lies(d, 32, payload)
<1>1. payload \in Seq(Byte) /\ Len(payload) \in Nat
  BY DEF Payload
<1>2. PICK m \in Nat : m = Len(payload)
  BY <1>1
<1>3. PICK n \in Nat : n = 12 + m
  OBVIOUS
<1>4. PICK a : a = IpDataStart(cmd, m)
  OBVIOUS
<1>5. PICK b : b = IpDataEnd(cmd, payload)
  OBVIOUS
<1>6. /\ a \in Seq(Byte) /\ Len(a) = 20 /\ Lies(a, 0, ToBytes(20, 4))
      /\ Lies(a, 4, ToBytes(PTPIP_DATA_PACKET_START, 4))
      /\ Lies(a, 12, ToBytes(m, 4))
  BY <1>4, StartFields, Zenon
<1>7. /\ b \in Seq(Byte) /\ Len(b) = n /\ Lies(b, 0, ToBytes(n, 4))
      /\ Lies(b, 12, payload)
  <2>1. /\ b \in Seq(Byte) /\ Len(b) = 12 + Len(payload)
        /\ Lies(b, 0, ToBytes(12 + Len(payload), 4)) /\ Lies(b, 12, payload)
    BY <1>1, <1>5, EndFields, Zenon
  <2> QED BY <1>2, <1>3, <2>1, Zenon
<1>8. d = a \o b
  BY <1>2, <1>4, <1>5, Zenon
<1>9. /\ d \in Seq(Byte) /\ Len(d) = 20 + n /\ Lies(d, 20, b) /\ Keeps(a, d)
  BY <1>6, <1>7, <1>8, Put, PutKeeps, Zenon
<1>10. /\ 0 \in Nat /\ 4 \in Nat /\ 12 \in Nat /\ 20 \in Nat /\ 4 \in 1..4
       /\ 20 + 0 = 20 /\ 20 + 12 = 32
  OBVIOUS
<1>11. ToBytes(n, 4) \in Seq(Byte)
  BY <1>10, BytesSeq, Zenon
<1>12. Lies(d, 20, ToBytes(n, 4))
  <2>1. Lies(d, 20 + 0, ToBytes(n, 4))
    BY <1>7, <1>9, <1>10, <1>11, LiesIn, Zenon
  <2> QED BY <1>10, <2>1, Zenon
<1>13. Lies(d, 32, payload)
  <2>1. Lies(d, 20 + 12, payload)
    BY <1>1, <1>7, <1>9, <1>10, LiesIn, Zenon
  <2> QED BY <1>10, <2>1, Zenon
<1>14. /\ Lies(d, 0, ToBytes(20, 4))
       /\ Lies(d, 4, ToBytes(PTPIP_DATA_PACKET_START, 4))
       /\ Lies(d, 12, ToBytes(m, 4))
  BY <1>6, <1>9, <1>10, TypesFit, Zenon DEF Keeps
<1> QED BY <1>2, <1>3, <1>9, <1>12, <1>13, <1>14, Zenon

\* A USB reply with a data phase.
LEMMA UsbReply ==
  ASSUME CommandOK, Shape, stage = "answered", answer.kind # "none", ~Ip
  PROVE  Whole(12 + Len(answer.payload))
<1>1. /\ answer.reply \in Command /\ Payload(answer.payload)
      /\ command \in Command
  BY DEF Shape, CommandOK
<1>2. PICK payload : payload = answer.payload
  OBVIOUS
<1>3. PICK p : p = ToBytes(12 + Len(payload), 4) \o ToBytes(DATA, 2)
                   \o ToBytes(command.code, 2)
                   \o ToBytes(command.transaction, 4) \o payload
  OBVIOUS
<1>4. PICK n : n = 12 + Len(payload)
  OBVIOUS
<1>5. /\ payload \in Seq(Byte) /\ n \in Nat /\ n < Limit(4)
      /\ n - 12 = Len(payload)
  <2>1. /\ payload \in Seq(Byte) /\ Len(payload) \in Nat
        /\ Len(payload) + 32 \in U32
    BY <1>1, <1>2 DEF Payload
  <2>2. n \in Nat /\ n <= Len(payload) + 32 /\ n - 12 = Len(payload)
    BY <1>4, <2>1
  <2>3. n \in U32
    BY <2>1, <2>2, Fits
  <2> QED BY <2>1, <2>2, <2>3, Widths
<1>6. /\ p \in Seq(Byte) /\ Len(p) = n /\ Lies(p, 0, ToBytes(n, 4))
      /\ Lies(p, 4, ToBytes(DATA, 2)) /\ Lies(p, 12, payload)
  BY <1>1, <1>2, <1>3, <1>4, UsbPhase, Zenon
<1>7. data = p \o ResponseBytes(answer.reply, 2, RESPONSE)
               \o Bytes(answer.reply.params)
  BY <1>2, <1>3 DEF Shape, PhaseOf
<1>8. /\ 2 \in 2..4 /\ 2 # 3 /\ 0 \in Nat /\ 4 \in Nat /\ 12 \in Nat
      /\ 2 \in 1..4 /\ 4 \in 1..4 /\ 2 \in {1, 2, 4} /\ 4 \in {1, 2, 4}
  OBVIOUS
<1>9. /\ data \in Seq(Byte) /\ Responds(data, n, 2, RESPONSE, answer.reply)
      /\ \A b \in Seq(Byte), o \in Nat : Lies(p, o, b) => Lies(data, o, b)
  BY <1>1, <1>5, <1>6, <1>7, <1>8, TypesFit, ResponseRead, Zenon
<1>10. ToBytes(n, 4) \in Seq(Byte) /\ ToBytes(DATA, 2) \in Seq(Byte)
  BY <1>5, <1>8, TypesFit, BytesSeq, Zenon
<1>11. /\ Lies(data, 0, ToBytes(n, 4)) /\ Lies(data, 4, ToBytes(DATA, 2))
       /\ Lies(data, 12, payload)
  BY <1>5, <1>6, <1>8, <1>9, <1>10, Zenon
<1>12. Read(data, 0, 4) = n /\ Read(data, 4, 2) = DATA
  BY <1>5, <1>8, <1>9, <1>11, TypesFit, ReadThere, Zenon
<1>13. Response = n
  BY <1>12, Zenon DEF Response, Ip
<1>14. ptp_get_payload_length = Len(payload)
  BY <1>5, <1>12, Zenon DEF ptp_get_payload_length
<1>15. /\ SubSeq(ptp_get_payload, 1, Len(payload)) = payload
       /\ \A i \in 1..Len(payload) : ptp_get_payload[i] = payload[i]
       /\ ptp_get_payload \in Seq(Byte) /\ Lies(ptp_get_payload, 0, payload)
  <2>1. ptp_get_payload = SubSeq(data, 12 + 1, Len(data))
    BY <1>12, TypesFit, Zenon DEF ptp_get_payload
  <2>2. PICK r : r = SubSeq(data, 12 + 1, Len(data))
    OBVIOUS
  <2>3. /\ r \in Seq(Byte) /\ Lies(r, 0, payload)
        /\ \A i \in 1..Len(payload) : r[i] = payload[i]
    BY <1>5, <1>8, <1>9, <1>11, <2>2, TakenEach
  <2>4. SubSeq(r, 1, Len(payload)) = payload
    BY <1>5, <1>8, <1>9, <1>11, <2>2, Taken, Zenon
  <2> QED BY <2>1, <2>2, <2>3, <2>4, Zenon
<1> QED BY <1>2, <1>4, <1>9, <1>13, <1>14, <1>15, Zenon DEF Whole

\* A PTP/IP reply with a data phase.
LEMMA IpReply ==
  ASSUME CommandOK, Shape, stage = "answered", answer.kind # "none", Ip
  PROVE  Whole(20 + (12 + Len(answer.payload)))
<1>1. /\ answer.reply \in Command /\ Payload(answer.payload)
      /\ command \in Command
  BY DEF Shape, CommandOK
<1>2. PICK payload : payload = answer.payload
  OBVIOUS
<1>3. PICK p : p = IpDataStart(command, Len(payload))
                   \o IpDataEnd(command, payload)
  OBVIOUS
<1>4. PICK m, n : m = Len(payload) /\ n = 12 + m
  OBVIOUS
<1>5. /\ payload \in Seq(Byte) /\ n \in Nat /\ n < Limit(4)
      /\ m \in Nat /\ m < Limit(4) /\ 20 + n \in Nat
  <2>1. /\ payload \in Seq(Byte) /\ m \in Nat /\ m + 32 \in U32
    BY <1>1, <1>2, <1>4 DEF Payload
  <2>2. n \in Nat /\ n <= m + 32 /\ m <= m + 32 /\ 20 + n \in Nat
    BY <1>4, <2>1
  <2>3. n \in U32 /\ m \in U32
    BY <2>1, <2>2, Fits
  <2> QED BY <2>1, <2>2, <2>3, Widths
<1>6. /\ p \in Seq(Byte) /\ Len(p) = 20 + n /\ Lies(p, 0, ToBytes(20, 4))
      /\ Lies(p, 4, ToBytes(PTPIP_DATA_PACKET_START, 4))
      /\ Lies(p, 12, ToBytes(m, 4)) /\ Lies(p, 20, ToBytes(n, 4))
      /\ Lies(p, 32, payload)
  BY <1>1, <1>2, <1>3, <1>4, IpPhase, Zenon
<1>7. data = p \o ResponseBytes(answer.reply, 4, PTPIP_COMMAND_RESPONSE)
               \o Bytes(answer.reply.params)
  BY <1>2, <1>3 DEF Shape, PhaseOf
<1>8. /\ 4 \in 2..4 /\ 4 # 3 /\ 0 \in Nat /\ 4 \in Nat /\ 12 \in Nat
      /\ 20 \in Nat /\ 32 \in Nat /\ 20 + 12 = 32
      /\ 4 \in 1..4 /\ 4 \in {1, 2, 4}
  OBVIOUS
<1>9. /\ data \in Seq(Byte)
      /\ Responds(data, 20 + n, 4, PTPIP_COMMAND_RESPONSE, answer.reply)
      /\ \A b \in Seq(Byte), o \in Nat : Lies(p, o, b) => Lies(data, o, b)
  BY <1>1, <1>5, <1>6, <1>7, <1>8, TypesFit, ResponseRead, Zenon
<1>10. \A k \in Nat : ToBytes(k, 4) \in Seq(Byte)
  BY <1>8, BytesSeq, Zenon
<1>11. /\ Lies(data, 0, ToBytes(20, 4))
       /\ Lies(data, 4, ToBytes(PTPIP_DATA_PACKET_START, 4))
       /\ Lies(data, 12, ToBytes(m, 4)) /\ Lies(data, 20, ToBytes(n, 4))
       /\ Lies(data, 32, payload)
  BY <1>5, <1>6, <1>8, <1>9, <1>10, TypesFit, Zenon
<1>12. 20 < Limit(4)
  BY Fits, Widths
<1>13. /\ Read(data, 0, 4) = 20 /\ Read(data, 4, 4) = PTPIP_DATA_PACKET_START
       /\ Read(data, 12, 4) = m /\ Read(data, 20, 4) = n
  BY <1>5, <1>8, <1>9, <1>11, <1>12, TypesFit, ReadThere, Zenon
<1>14. Response = 20 + n
  BY <1>13, TypesFit, Zenon DEF Response, Ip
<1>15. ptp_get_payload_length = Len(payload)
  BY <1>4, <1>13, Zenon DEF ptp_get_payload_length
<1>16. /\ SubSeq(ptp_get_payload, 1, Len(payload)) = payload
       /\ \A i \in 1..Len(payload) : ptp_get_payload[i] = payload[i]
       /\ ptp_get_payload \in Seq(Byte) /\ Lies(ptp_get_payload, 0, payload)
  <2>1. ptp_get_payload = SubSeq(data, 32 + 1, Len(data))
    BY <1>8, <1>13, Zenon DEF ptp_get_payload
  <2>2. PICK r : r = SubSeq(data, 32 + 1, Len(data))
    OBVIOUS
  <2>3. /\ r \in Seq(Byte) /\ Lies(r, 0, payload)
        /\ \A i \in 1..Len(payload) : r[i] = payload[i]
    <3>1. 32 \in Nat /\ Lies(data, 32, payload) /\ data \in Seq(Byte)
      BY <1>8, <1>9, <1>11, Zenon
    <3> QED BY <1>5, <2>2, <3>1, TakenEach
  <2>4. SubSeq(r, 1, Len(payload)) = payload
    BY <1>5, <1>8, <1>9, <1>11, <2>2, Taken, Zenon
  <2> QED BY <2>1, <2>2, <2>3, <2>4, Zenon
<1> QED BY <1>2, <1>4, <1>9, <1>14, <1>15, <1>16, Zenon DEF Whole

\* Every reply is found where it is.
LEMMA WholeReply ==
  ASSUME CommandOK, Shape, stage = "answered"
  PROVE  \E at \in Nat : Whole(at) /\ (answer.kind = "none" => at = 0)
<1>1. answer.reply \in Command /\ Len(answer.payload) \in Nat
  BY DEF Shape, Payload
<1>2. CASE answer.kind = "none"
  BY <1>2, BareReply
<1>3. CASE answer.kind # "none"
  <2>1. /\ 12 + Len(answer.payload) \in Nat
        /\ 20 + (12 + Len(answer.payload)) \in Nat
    BY <1>1
  <2> QED BY <1>3, <2>1, UsbReply, IpReply, Zenon
<1> QED BY <1>2, <1>3

\* A reply of that shape is read as it was sent.
LEMMA ShapeRead == CommandOK /\ Shape => ReplyRead
<1> SUFFICES ASSUME CommandOK, Shape, stage = "answered" PROVE ReplyRead
  BY DEF ReplyRead
<1>1. answer.reply \in Command /\ Len(answer.payload) \in Nat
  BY DEF Shape, Payload
<1>2. PICK at \in Nat : Whole(at) /\ (answer.kind = "none" => at = 0)
  BY WholeReply
<1> DEFINE t == IF Ip THEN PTPIP_COMMAND_RESPONSE ELSE RESPONSE
<1>3. /\ Response = at
      /\ Responds(data, at, IF Ip THEN 4 ELSE 2, t, answer.reply)
      /\ answer.kind # "none" =>
           /\ ptp_get_payload_length = Len(answer.payload)
           /\ SubSeq(ptp_get_payload, 1, ptp_get_payload_length)
                = answer.payload
  BY <1>2, Zenon DEF Whole
<1> HIDE DEF t
<1>4. /\ ptp_get_return_code = answer.reply.code
      /\ ptp_get_last_transaction_id = answer.reply.transaction
      /\ ptp_get_param_length = Len(answer.reply.params)
      /\ Ip \/ at = 0 => \A i \in DOMAIN answer.reply.params :
                           ptp_get_param(i - 1) = answer.reply.params[i]
  BY <1>1, <1>3, Accessed, Zenon
<1> QED BY <1>2, <1>3, <1>4, Zenon DEF ReplyRead

\* What the camera sends has that shape.
LEMMA ReplyShape ==
  ASSUME CommandOK, command' = command, connection_type' = connection_type,
         NEW reply \in Command, NEW kind, NEW content, NEW payload,
         Payload(payload), Reply(reply, kind, content, payload)
  PROVE  Shape'
<1>1. Len(Bytes(reply.params)) \in Nat
  <2>1. /\ reply.params \in Seq(U32) /\ Len(reply.params) \in Nat
    BY DEF Command
  <2>2. Len(Bytes(reply.params)) = 4 * Len(reply.params)
    BY <2>1, Parameters
  <2> QED BY <2>1, <2>2
<1>2. /\ 10 + 4 + Len(Bytes(reply.params)) = 14 + Len(Bytes(reply.params))
      /\ 10 + 2 + Len(Bytes(reply.params)) = 12 + Len(Bytes(reply.params))
  BY <1>1
<1>3. /\ answer'.reply = reply /\ answer'.kind = kind
      /\ answer'.payload = payload
  BY DEF Reply
<1>4. /\ Ip' = Ip
      /\ PhaseOf(kind, payload)' = PhaseOf(kind, payload)
  BY DEF Ip, PhaseOf
<1>5. ASSUME Ip
      PROVE  data' = PhaseOf(kind, payload)
                       \o ResponseBytes(reply, 4, PTPIP_COMMAND_RESPONSE)
                       \o Bytes(reply.params)
  BY <1>2, <1>5, Zenon DEF Reply, PhaseOf, ResponseBytes
<1>6. ASSUME ~Ip
      PROVE  data' = PhaseOf(kind, payload)
                       \o ResponseBytes(reply, 2, RESPONSE)
                       \o Bytes(reply.params)
  BY <1>2, <1>6, Zenon DEF Reply, PhaseOf, ResponseBytes
<1>7. CASE Ip
  BY <1>3, <1>4, <1>5, <1>7 DEF Shape, PhaseOf
<1>8. CASE ~Ip
  BY <1>3, <1>4, <1>6, <1>8 DEF Shape, PhaseOf
<1> QED BY <1>7, <1>8

\* No other step leaves a reply.
LEMMA ShapeNext == CommandOK /\ Shape /\ [Next]_vars => Shape'
<1> SUFFICES ASSUME CommandOK, Shape, [Next]_vars PROVE Shape'
  OBVIOUS
<1>1. CASE Answered
  <2>1. PICK c \in Codes, p \in ParamLists :
          LET reply == [code |-> c, transaction |-> command.transaction,
                        params |-> p]
          IN \/ Reply(reply, "none", <<>>, <<>>)
             \/ \E s \in Structures :
                  Reply(reply, "struct", s, Pack(s[1], s[2]))
             \/ \E desc \in Descriptions :
                  Reply(reply, "desc", desc, EncodeDesc(desc))
             \/ \E v \in Values : Reply(reply, "value", v, ToBytes(v[1], v[2]))
             \/ \E bmp \in Bitmaps : Reply(reply, "bitmap", <<>>, bmp)
    BY <1>1 DEF Answered
  <2> DEFINE reply == [code |-> c, transaction |-> command.transaction,
                       params |-> p]
  <2>2. reply \in Command
    BY EncodingAssumption DEF CommandOK, Command
  <2>3. command' = command /\ connection_type' = connection_type
    BY <1>1 DEF Answered
  <2>4. Payload(<<>>)
    <3>1. <<>> \in Seq(Byte) /\ Len(<<>>) + 32 \in Nat /\ Len(<<>>) + 32 < 65536
      OBVIOUS
    <3> QED BY <3>1, Fits DEF Payload
  <2>5. \A v \in Values : Payload(ToBytes(v[1], v[2]))
    <3> SUFFICES ASSUME NEW v \in Values PROVE Payload(ToBytes(v[1], v[2]))
      OBVIOUS
    <3>1. v[1] \in Nat /\ v[2] \in 1..4
      BY EncodingAssumption, Widths
    <3>2. PICK b : b = ToBytes(v[1], v[2])
      OBVIOUS
    <3>3. b \in Seq(Byte) /\ Len(b) = v[2]
      BY <3>1, <3>2, BytesSeq
    <3>4. Len(b) + 32 \in Nat /\ Len(b) + 32 < 65536
      BY <3>1, <3>3
    <3> QED BY <3>2, <3>3, <3>4, Fits DEF Payload
  <2>6. \E kind, content, payload :
          Payload(payload) /\ Reply(reply, kind, content, payload)
    <3> HIDE DEF reply
    <3>1. \/ Reply(reply, "none", <<>>, <<>>)
          \/ \E s \in Structures :
               Reply(reply, "struct", s, Pack(s[1], s[2]))
          \/ \E desc \in Descriptions :
               Reply(reply, "desc", desc, EncodeDesc(desc))
          \/ \E v \in Values : Reply(reply, "value", v, ToBytes(v[1], v[2]))
          \/ \E bmp \in Bitmaps : Reply(reply, "bitmap", <<>>, bmp)
      BY <2>1, Zenon DEF reply
    <3>2. /\ \A s \in Structures : Payload(Pack(s[1], s[2]))
          /\ \A desc \in Descriptions : Payload(EncodeDesc(desc))
          /\ \A bmp \in Bitmaps : Payload(bmp)
      BY Sent
    <3> QED BY <2>4, <2>5, <3>1, <3>2, Zenon
  <2> HIDE DEF reply
  <2> QED BY <2>2, <2>3, <2>6, ReplyShape, Zenon
<1>2. CASE Ask \/ AskIn \/ SendPayload \/ SetThenReported
  <2>1. stage' # "answered"
    BY <1>2 DEF Ask, AskIn, SendPayload, SetThenReported
  <2> QED BY <2>1 DEF Shape
<1>3. CASE UNCHANGED vars
  BY <1>3 DEF vars, Shape, PhaseOf, Ip
<1> QED BY <1>1, <1>2, <1>3 DEF Next

\* Every reply is read as it was sent: its code, transaction and parameters,
\* and its payload, by both transports and whether or not there was a data
\* phase.
THEOREM ReplyReadHolds == Spec => []ReplyRead
<1>1. Init => Shape
  BY DEF Init, Shape
<1> QED BY <1>1, CommandInit, CommandNext, ShapeNext, ShapeRead, PTL DEF Spec
-----------------------------------------------------------------------------
(* A property value.                                                       *)

\* The payload of a value is its bytes.
ValueOK ==
  stage = "answered" /\ answer.kind = "value" =>
    \E v \in Values : answer.content = v /\ answer.payload = ToBytes(v[1], v[2])

\* No other payload is sent as one.
LEMMA ValueNext == ValueOK /\ [Next]_vars => ValueOK'
<1> SUFFICES ASSUME ValueOK, [Next]_vars PROVE ValueOK'
  OBVIOUS
<1>1. CASE Answered
  <2>1. PICK c \in Codes, p \in ParamLists :
          LET reply == [code |-> c, transaction |-> command.transaction,
                        params |-> p]
          IN \/ Reply(reply, "none", <<>>, <<>>)
             \/ \E s \in Structures :
                  Reply(reply, "struct", s, Pack(s[1], s[2]))
             \/ \E desc \in Descriptions :
                  Reply(reply, "desc", desc, EncodeDesc(desc))
             \/ \E v \in Values : Reply(reply, "value", v, ToBytes(v[1], v[2]))
             \/ \E bmp \in Bitmaps : Reply(reply, "bitmap", <<>>, bmp)
    BY <1>1 DEF Answered
  <2> DEFINE reply == [code |-> c, transaction |-> command.transaction,
                       params |-> p]
  <2>2. ASSUME NEW kind, NEW content, NEW payload,
               Reply(reply, kind, content, payload)
        PROVE  /\ answer'.kind = kind /\ answer'.content = content
               /\ answer'.payload = payload
    BY <2>2 DEF Reply
  <2> HIDE DEF reply
  <2>3. \/ answer'.kind \in {"none", "struct", "desc", "bitmap"}
        \/ \E v \in Values : Reply(reply, "value", v, ToBytes(v[1], v[2]))
    BY <2>1, <2>2, Zenon DEF reply
  <2>4. CASE \E v \in Values : Reply(reply, "value", v, ToBytes(v[1], v[2]))
    BY <2>2, <2>4, Zenon DEF ValueOK
  <2>5. CASE answer'.kind \in {"none", "struct", "desc", "bitmap"}
    <3>1. answer'.kind # "value"
      BY <2>5
    <3> QED BY <3>1 DEF ValueOK
  <2> QED BY <2>3, <2>4, <2>5
<1>2. CASE Ask \/ AskIn \/ SendPayload \/ SetThenReported
  <2>1. stage' # "answered"
    BY <1>2 DEF Ask, AskIn, SendPayload, SetThenReported
  <2> QED BY <2>1 DEF ValueOK
<1>3. CASE UNCHANGED vars
  BY <1>3 DEF vars, ValueOK
<1> QED BY <1>1, <1>2, <1>3 DEF Next

\* The bytes of a number are read as that number, wherever they are.
LEMMA NumberRead ==
  ASSUME NEW n \in Nat, NEW width \in {1, 2, 4}, n < Limit(width), NEW d,
         \A i \in 1..width : d[i] = ToBytes(n, width)[i]
  PROVE  Read(d, 0, width) = n
<1>1. PICK b : b = ToBytes(n, width)
  OBVIOUS
<1>2. width \in 1..4 /\ width \in Nat /\ 0 \in Nat /\ 0 + width = width
      /\ width <= width
  OBVIOUS
<1>3. b \in Seq(Byte) /\ Len(b) = width
  BY <1>1, <1>2, BytesSeq, Zenon
<1>4. \A i \in 1..width : 0 + i = i
  OBVIOUS
<1>5. Lies(b, 0, b)
  BY <1>2, <1>3, <1>4 DEF Lies
<1>6. Read(b, 0, width) = n
  BY <1>1, <1>2, <1>3, <1>5, ReadThere, Zenon
<1>7. \A i \in 1..width : d[i] = b[i]
  BY <1>1, Zenon
<1>8. Read(d, 0, width) = Read(b, 0, width)
  <2>1. 0 + 1 = 1 /\ 0 + 2 = 2 /\ 0 + 3 = 3 /\ 0 + 4 = 4
    OBVIOUS
  <2>2. CASE width = 1
    <3>1. d[1] = b[1]
      BY <1>7, <2>2
    <3>2. Read(d, 0, 1) = b[1] * 1 + 0 + 0 + 0
      BY <2>1, <3>1 DEF Read, Weight
    <3>3. Read(b, 0, 1) = b[1] * 1 + 0 + 0 + 0
      BY <2>1 DEF Read, Weight
    <3> QED BY <2>2, <3>2, <3>3
  <2>3. CASE width = 2
    <3>1. d[1] = b[1] /\ d[2] = b[2]
      BY <1>7, <2>3
    <3>2. Read(d, 0, 2) = b[1] * 1 + b[2] * 256 + 0 + 0
      BY <2>1, <3>1 DEF Read, Weight
    <3>3. Read(b, 0, 2) = b[1] * 1 + b[2] * 256 + 0 + 0
      BY <2>1 DEF Read, Weight
    <3> QED BY <2>3, <3>2, <3>3
  <2>4. CASE width = 4
    <3>1. d[1] = b[1] /\ d[2] = b[2] /\ d[3] = b[3] /\ d[4] = b[4]
      BY <1>7, <2>4
    <3>2. Read(d, 0, 4) = b[1] * 1 + b[2] * 256 + b[3] * 65536
                                 + b[4] * 16777216
      BY <2>1, <3>1 DEF Read, Weight
    <3>3. Read(b, 0, 4) = b[1] * 1 + b[2] * 256 + b[3] * 65536
                                 + b[4] * 16777216
      BY <2>1 DEF Read, Weight
    <3> QED BY <2>4, <3>2, <3>3
  <2> QED BY <2>2, <2>3, <2>4
<1> QED BY <1>6, <1>8

\* A property value of one, two or four bytes that an int holds is read as it
\* was sent, and one of another size is refused.
THEOREM ValueParsedHolds == Spec => []ValueParsed
<1>1. Init => Shape /\ ValueOK
  BY DEF Init, Shape, ValueOK
<1>2. CommandOK /\ Shape /\ ValueOK => ValueParsed
  <2> SUFFICES ASSUME CommandOK, Shape, ValueOK, stage = "answered",
                      answer.kind = "value", answer.content[1] \in I32
               PROVE  ValueParsed
    BY DEF ValueParsed
  <2>1. PICK v \in Values :
          answer.content = v /\ answer.payload = ToBytes(v[1], v[2])
    BY DEF ValueOK
  <2>2. PICK n, w : n = v[1] /\ w = v[2]
    OBVIOUS
  <2>3. n \in U32 /\ w \in 1..4 /\ (w = 1 => n \in Byte) /\ (w = 2 => n \in U16)
    BY <2>2, EncodingAssumption, Zenon
  <2>4. n \in Nat /\ n < Limit(4) /\ (w = 2 => n < Limit(2))
        /\ (w = 1 => n < Limit(1))
    BY <2>3, Widths DEF Byte, Limit
  <2>5. Len(answer.payload) = w
    <3>1. answer.payload = ToBytes(n, w)
      BY <2>1, <2>2, Zenon
    <3> QED BY <2>3, <2>4, <3>1, BytesSeq, Zenon
  <2>6. PICK at : Whole(at)
    BY WholeReply
  <2>7. ptp_get_payload_length = w
        /\ \A i \in 1..w : ptp_get_payload[i] = ToBytes(n, w)[i]
    <3>1. answer.kind # "none"
      OBVIOUS
    <3> QED BY <2>1, <2>2, <2>5, <2>6, <3>1, Zenon DEF Whole
  <2>8. n \in I32 /\ answer.content[2] = w /\ answer.content[1] = n
    BY <2>1, <2>2, Zenon
  <2>9. PropValue(w, ptp_get_payload) = IF w \in {1, 2, 4} THEN n ELSE -1
    <3>1. CASE w \in {1, 2, 4}
      <4>1. n < Limit(w)
        BY <2>4, <3>1
      <4>2. Read(ptp_get_payload, 0, w) = n
        BY <2>4, <2>7, <3>1, <4>1, NumberRead, Zenon
      <4> QED BY <2>8, <3>1, <4>2 DEF PropValue
    <3>2. CASE w \notin {1, 2, 4}
      BY <3>2 DEF PropValue
    <3> QED BY <3>1, <3>2
  <2>10. ptp_get_payload_length = w
    BY <2>7
  <2> QED BY <2>8, <2>9, <2>10, Zenon DEF ValueParsed
<1> QED BY <1>1, <1>2, CommandInit, CommandNext, ShapeNext, ValueNext, PTL
        DEF Spec
-----------------------------------------------------------------------------
(* The live view frame.                                                    *)

\* Places in rows of a width are ordered as the rows are.
LEMMA Rows ==
  ASSUME NEW a \in Nat, NEW b \in Nat, NEW W \in Nat
  PROVE  /\ a <= b => a * W <= b * W
         /\ a < b => a * W + W <= b * W
<1>1. ASSUME a <= b
      PROVE  a * W <= b * W
  <2>1. (b - a) \in Nat
    BY <1>1
  <2>2. (b - a) * W >= 0 /\ b * W = a * W + (b - a) * W
    BY <2>1
  <2> QED BY <2>2
<1>2. ASSUME a < b
      PROVE  a * W + W <= b * W
  <2>1. (b - a - 1) \in Nat
    BY <1>2
  <2>2. (b - a - 1) * W >= 0 /\ b * W = a * W + W + (b - a - 1) * W
    BY <2>1
  <2> QED BY <2>2
<1> QED BY <1>1, <1>2

\* Column x of row y and column u of row z are one place.
SamePlace(W, y, x, z, u) == y * W + x = z * W + u

\* A place in rows is in one row only.
LEMMA OnePlace ==
  ASSUME NEW W \in Nat, NEW y \in Nat, NEW z \in Nat, NEW x \in 0..(W - 1),
         NEW u \in 0..(W - 1), SamePlace(W, y, x, z, u)
  PROVE  y = z /\ x = u
<1>1. PICK a \in Nat, b \in Nat : a = y * W /\ b = z * W
  OBVIOUS
<1>5. a + x = b + u
  BY <1>1 DEF SamePlace
<1>2. CASE y < z
  <2>1. a + W <= b
    BY <1>1, <1>2, Rows
  <2> QED BY <1>5, <2>1
<1>3. CASE z < y
  <2>1. b + W <= a
    BY <1>1, <1>3, Rows
  <2> QED BY <1>5, <2>1
<1>4. CASE y = z
  BY <1>1, <1>4, <1>5
<1> QED BY <1>2, <1>3, <1>4

\* A place in the first H rows is below their end.
LEMMA PlaceBelow ==
  ASSUME NEW W \in Nat, NEW H \in Nat, NEW y \in 0..(H - 1), NEW x \in 0..(W - 1)
  PROVE  y * W + x \in Nat /\ y * W + x < W * H
<1>1. PICK a \in Nat, b \in Nat : a = y * W /\ b = H * W
  OBVIOUS
<1>2. a + W <= b
  BY <1>1, Rows
<1>3. b = W * H
  BY <1>1
<1> QED BY <1>1, <1>2, <1>3

\* Each turn of the loops is at one place.
LEMMA TurnAt ==
  ASSUME NEW V \in Nat \ {0}, NEW H \in Nat, NEW k \in Nat, k < V * H
  PROVE  \E y \in 0..(H - 1), x \in 0..(V - 1) :
           k = y * V + x /\ y = k \div V /\ x = k % V
<1>1. PICK y \in Nat, x \in 0..(V - 1) : y = k \div V /\ x = k % V
  OBVIOUS
<1>2. k = V * y + x
  BY <1>1
<1>3. k = y * V + x
  BY <1>2
<1>4. y < H
  <2>1. SUFFICES ASSUME H <= y PROVE FALSE
    OBVIOUS
  <2>2. PICK a \in Nat, b \in Nat : a = y * V /\ b = H * V
    OBVIOUS
  <2>3. b <= a
    BY <2>1, <2>2, Rows
  <2>4. b = V * H
    BY <2>2
  <2> QED BY <1>3, <2>2, <2>3, <2>4
<1> QED BY <1>1, <1>3, <1>4

\* After k turns the places of the frame that they passed show their pixel.
PaintedIn(W, H, V, bmp, done, k) ==
  /\ done = [i |-> k, frame |-> done.frame]
  /\ done.frame = [p \in 0..(W * H) |-> done.frame[p]]
  /\ \A y \in 0..(H - 1), x \in 0..(W - 1) :
       y * V + x < k => done.frame[y * W + x] = Shown(bmp[y * V + x + 1])
Painted(bmp, done, k) ==
  PaintedIn(ScreenWidth, ScreenHeight, VramWidth, bmp, done, k)

\* One more turn: the pixel behind the column ScreenWidth is written into the
\* next row, which has not been passed.
LEMMA PixelStep ==
  ASSUME NEW bmp, NEW k \in Nat, k < VramWidth * ScreenHeight,
         NEW done, Painted(bmp, done, k)
  PROVE  Painted(bmp, Pixel(bmp, done, k \div VramWidth, k % VramWidth), k + 1)
<1>1. PICK W \in Nat, H \in Nat, V \in Nat \ {0} :
        W = ScreenWidth /\ H = ScreenHeight /\ V = VramWidth /\ V > W
  BY FrameAssumption
<1>2. PICK r \in 0..(H - 1), c \in 0..(V - 1) :
        k = r * V + c /\ r = k \div V /\ c = k % V
  BY <1>1, TurnAt
<1>3. PICK frame : frame = done.frame
  OBVIOUS
<1>9. PaintedIn(W, H, V, bmp, done, k)
  BY <1>1, Zenon DEF Painted
<1>4. /\ done = [i |-> k, frame |-> frame]
      /\ frame = [p \in 0..(W * H) |-> frame[p]]
      /\ \A y \in 0..(H - 1), x \in 0..(W - 1) :
           y * V + x < k => frame[y * W + x] = Shown(bmp[y * V + x + 1])
  BY <1>1, <1>3, <1>9, Zenon DEF PaintedIn
<1>5. PICK next : next = Pixel(bmp, done, k \div VramWidth, k % VramWidth)
  OBVIOUS
<1>6. r \in Nat /\ c \in Nat /\ H \in Nat /\ k + 1 \in Nat
  OBVIOUS
<1>7. CASE c > W
  <2>1. next = [i |-> k + 1, frame |-> frame]
    BY <1>1, <1>2, <1>4, <1>5, <1>7 DEF Pixel
  <2>2. ASSUME NEW y \in 0..(H - 1), NEW x \in 0..(W - 1), y * V + x < k + 1
        PROVE  y * V + x < k
    <3>1. CASE y * V + x = k
      <4>1. x \in 0..(V - 1) /\ y \in Nat
        BY <1>1
      <4>2. SamePlace(V, y, x, r, c) /\ V \in Nat
        BY <1>2, <3>1 DEF SamePlace
      <4>3. x = c
        BY <1>2, <1>6, <4>1, <4>2, OnePlace, Zenon
      <4> QED BY <1>1, <1>7, <4>3
    <3>2. PICK p \in Nat : p = y * V + x
      OBVIOUS
    <3> QED BY <2>2, <3>1, <3>2
  <2>3. \A y \in 0..(H - 1), x \in 0..(W - 1) :
          y * V + x < k + 1 => frame[y * W + x] = Shown(bmp[y * V + x + 1])
    BY <1>4, <2>2, Zenon
  <2>4. next.frame = frame
    BY <2>1
  <2>9. PaintedIn(W, H, V, bmp, next, k + 1)
    BY <1>4, <2>1, <2>3, <2>4, Zenon DEF PaintedIn
  <2> QED BY <1>1, <1>5, <2>9, Zenon DEF Painted
<1>8. CASE ~(c > W)
  <2>1. PICK at \in Nat : at = r * W + c
    OBVIOUS
  <2>2. at \in 0..(W * H)
    <3>1. PICK a \in Nat, b \in Nat : a = r * W /\ b = H * W
      OBVIOUS
    <3>2. a + W <= b
      BY <3>1, Rows
    <3>3. b = W * H
      BY <3>1
    <3> QED BY <1>8, <2>1, <3>1, <3>2, <3>3
  <2>3. PICK new : new = [frame EXCEPT ![at] = Shown(bmp[k + 1])]
    OBVIOUS
  <2>4. next = [i |-> k + 1, frame |-> new]
    BY <1>1, <1>2, <1>4, <1>5, <1>8, <2>1, <2>3 DEF Pixel
  <2>5. /\ new = [p \in 0..(W * H) |-> new[p]]
        /\ \A p \in 0..(W * H) :
             new[p] = IF p = at THEN Shown(bmp[k + 1]) ELSE frame[p]
    BY <1>4, <2>3
  <2>6. ASSUME NEW y \in 0..(H - 1), NEW x \in 0..(W - 1), y * V + x < k + 1
        PROVE  new[y * W + x] = Shown(bmp[y * V + x + 1])
    <3>1. PICK p \in Nat, q \in Nat : p = y * W + x /\ q = y * V + x
      OBVIOUS
    <3>2. p \in 0..(W * H)
      BY <3>1, PlaceBelow
    <3>3. x \in 0..(V - 1) /\ y \in Nat
      BY <1>1
    <3>4. CASE p = at
      <4>1. CASE c < W
        <5>1. c \in 0..(W - 1)
          BY <4>1
        <5>5. SamePlace(W, y, x, r, c)
          BY <2>1, <3>1, <3>4 DEF SamePlace
        <5>2. y = r /\ x = c
          BY <1>6, <3>3, <5>1, <5>5, OnePlace, Zenon
        <5>3. q = k
          BY <1>2, <3>1, <5>2
        <5>4. new[p] = Shown(bmp[k + 1])
          BY <2>5, <3>2, <3>4
        <5> QED BY <3>1, <5>3, <5>4
      <4>2. CASE c = W
        <5>1. 0 \in 0..(W - 1) /\ r + 1 \in Nat /\ (r + 1) * W = r * W + W
              /\ (r + 1) * W + 0 = r * W + W
          OBVIOUS
        <5>2. SamePlace(W, y, x, r + 1, 0)
          BY <2>1, <3>1, <3>4, <4>2, <5>1 DEF SamePlace
        <5>3. y = r + 1 /\ x = 0
          BY <3>3, <5>1, <5>2, OnePlace, Zenon
        <5>4. (r + 1) * V = r * V + V
          OBVIOUS
        <5>5. q = r * V + V
          BY <3>1, <5>3, <5>4
        <5>6. PICK e \in Nat : e = r * V
          OBVIOUS
        <5>7. q = e + V /\ k = e + c /\ c < V /\ q < k + 1
          BY <1>2, <2>6, <3>1, <5>5, <5>6
        <5> QED BY <5>7
      <4> QED BY <1>8, <4>1, <4>2
    <3>5. CASE p # at
      <4>1. q # k
        <5>1. SUFFICES ASSUME q = k PROVE FALSE
          OBVIOUS
        <5>2. SamePlace(V, y, x, r, c) /\ V \in Nat
          BY <1>2, <3>1, <5>1 DEF SamePlace
        <5>3. y = r /\ x = c
          BY <1>2, <1>6, <3>3, <5>2, OnePlace, Zenon
        <5> QED BY <2>1, <3>1, <3>5, <5>3
      <4>2. q < k
        BY <2>6, <3>1, <4>1
      <4>3. frame[p] = Shown(bmp[q + 1])
        BY <1>4, <3>1, <4>2
      <4>4. new[p] = frame[p]
        BY <2>5, <3>2, <3>5
      <4> QED BY <3>1, <4>3, <4>4
    <3> QED BY <3>4, <3>5
  <2>7. next.frame = new
    BY <2>4
  <2>9. PaintedIn(W, H, V, bmp, next, k + 1)
    BY <2>4, <2>5, <2>6, <2>7, Zenon DEF PaintedIn
  <2> QED BY <1>1, <1>5, <2>9, Zenon DEF Painted
<1> QED BY <1>7, <1>8

\* A set of natural numbers that is not empty has a least element.
LEMMA LeastNat ==
  ASSUME NEW T \in SUBSET Nat, T # {}
  PROVE  \E m \in T : \A k \in T : m <= k
<1>1. IsWellFoundedOn(OpToRel(<, Nat), Nat)
  BY NatLessThanWellFounded
<1>2. PICK m \in T : \A y \in T : ~(<<y, m>> \in OpToRel(<, Nat))
  BY <1>1, WFMin
<1>3. \A k \in T : k \in Nat /\ ~(k < m)
  BY <1>2 DEF OpToRel
<1>4. ASSUME NEW k \in T PROVE m <= k
  <2>1. m \in Nat /\ k \in Nat /\ ~(k < m) BY <1>2, <1>3
  <2> QED BY <2>1
<1> QED BY <1>4

\* What is done after turn k, if g says it of the turns before.
Turn(bmp, g, k) ==
  IF k = 0
  THEN [i |-> 0,
        frame |-> [p \in 0..(ScreenWidth * ScreenHeight) |-> "unset"]]
  ELSE Pixel(bmp, g[k - 1], (k - 1) \div VramWidth, (k - 1) % VramWidth)

\* A turn depends on the one before only.
LEMMA TurnBefore ==
  ASSUME NEW bmp, NEW g, NEW h, NEW k, k # 0 => g[k - 1] = h[k - 1]
  PROVE  Turn(bmp, g, k) = Turn(bmp, h, k)
<1>1. CASE k = 0
  BY <1>1, Zenon DEF Turn
<1>2. CASE k # 0
  BY <1>2, Zenon DEF Turn
<1> QED BY <1>1, <1>2

\* There is a function that says it of n turns.
TurnsTo(bmp, n) == \E g : g = [k \in 0..n |-> Turn(bmp, g, k)]

\* The turns of a bitmap can be counted for any number of turns.
LEMMA TurnsExist ==
  ASSUME NEW bmp
  PROVE  \A n \in Nat : TurnsTo(bmp, n)
<1> DEFINE none == {n \in Nat : ~TurnsTo(bmp, n)}
<1>1. SUFFICES ASSUME none # {} PROVE FALSE
  OBVIOUS
<1>2. PICK n \in none : \A k \in none : n <= k
  <2>1. none \in SUBSET Nat
    OBVIOUS
  <2> HIDE DEF none
  <2> QED BY <1>1, <2>1, LeastNat
<1>3. n \in Nat /\ ~TurnsTo(bmp, n)
  OBVIOUS
<1>4. CASE n = 0
  <2>1. PICK g : g = [k \in 0..0 |-> Turn(bmp, <<>>, k)]
    OBVIOUS
  <2>2. \A k \in 0..0 : Turn(bmp, <<>>, k) = Turn(bmp, g, k)
    <3>1. \A k \in 0..0 : k = 0
      OBVIOUS
    <3> QED BY <3>1, TurnBefore
  <2>3. g = [k \in 0..0 |-> Turn(bmp, g, k)]
    BY <2>1, <2>2, Zenon
  <2> QED BY <1>3, <1>4, <2>3, Zenon DEF TurnsTo
<1>5. CASE n # 0
  <2>1. n - 1 \in Nat /\ ~(n <= n - 1)
    BY <1>3, <1>5
  <2>2. TurnsTo(bmp, n - 1)
    <3>1. n - 1 \notin none
      <4> HIDE DEF none
      <4> QED BY <1>2, <2>1
    <3> QED BY <2>1, <3>1
  <2>3. PICK g : g = [k \in 0..(n - 1) |-> Turn(bmp, g, k)]
    BY <2>2, Zenon DEF TurnsTo
  <2>4. PICK h : h = [k \in 0..n |-> IF k < n THEN g[k] ELSE Turn(bmp, g, n)]
    OBVIOUS
  <2>5. ASSUME NEW k \in 0..n PROVE h[k] = Turn(bmp, h, k)
    <3>1. k # 0 => g[k - 1] = h[k - 1]
      <4>1. k # 0 => k - 1 \in 0..n /\ k - 1 < n
        BY <1>3
      <4> QED BY <2>4, <4>1
    <3>2. h[k] = Turn(bmp, g, k)
      <4>1. CASE k < n
        <5>1. k \in 0..(n - 1)
          BY <1>3, <4>1
        <5>2. g[k] = Turn(bmp, g, k)
          BY <2>3, <5>1, Zenon
        <5> QED BY <2>4, <4>1, <5>2
      <4>2. CASE ~(k < n)
        <5>1. k = n
          BY <1>3, <4>2
        <5> QED BY <2>4, <4>2, <5>1
      <4> QED BY <4>1, <4>2
    <3> QED BY <3>1, <3>2, TurnBefore, Zenon
  <2>6. h = [k \in 0..n |-> h[k]]
    BY <2>4
  <2>7. h = [k \in 0..n |-> Turn(bmp, h, k)]
    BY <2>5, <2>6, Zenon
  <2> QED BY <1>3, <2>7, Zenon DEF TurnsTo
<1> QED BY <1>4, <1>5

\* The frame is what is done after the last turn.
LEMMA FrameTurns ==
  ASSUME NEW bmp, NEW last \in Nat, last = VramWidth * ScreenHeight
  PROVE  \E g : /\ g = [k \in 0..last |-> Turn(bmp, g, k)]
                /\ FrameOf(bmp) = g[last].frame
<1> DEFINE after == CHOOSE g : g = [k \in 0..last |-> Turn(bmp, g, k)]
<1>1. \E g : g = [k \in 0..last |-> Turn(bmp, g, k)]
  BY TurnsExist, Zenon DEF TurnsTo
<1>2. after = [k \in 0..last |-> Turn(bmp, after, k)]
  BY <1>1, Zenon
<1>3. FrameOf(bmp) = after[last].frame
  BY Zenon DEF FrameOf, Turn
<1> QED BY <1>2, <1>3, Zenon

\* After each turn the places passed show their pixel.
LEMMA AllPainted ==
  ASSUME NEW bmp, NEW last \in Nat, last = VramWidth * ScreenHeight,
         NEW g, g = [k \in 0..last |-> Turn(bmp, g, k)]
  PROVE  \A k \in 0..last : Painted(bmp, g[k], k)
<1> DEFINE none == {k \in 0..last : ~Painted(bmp, g[k], k)}
<1>1. SUFFICES ASSUME none # {} PROVE FALSE
  OBVIOUS
<1>2. PICK k \in none : \A j \in none : k <= j
  <2>1. none \in SUBSET Nat
    OBVIOUS
  <2> HIDE DEF none
  <2> QED BY <1>1, <2>1, LeastNat
<1>3. k \in 0..last /\ ~Painted(bmp, g[k], k)
  OBVIOUS
<1>4. g[k] = Turn(bmp, g, k)
  BY <1>3, Zenon
<1>5. CASE k = 0
  <2>1. PICK W \in Nat, H \in Nat, V \in Nat :
          W = ScreenWidth /\ H = ScreenHeight /\ V = VramWidth
    BY FrameAssumption
  <2>2. PICK done : done = g[0]
    OBVIOUS
  <2>3. done = [i |-> 0, frame |-> [p \in 0..(W * H) |-> "unset"]]
    BY <1>4, <1>5, <2>1, <2>2, Zenon DEF Turn
  <2>4. ASSUME NEW y \in 0..(H - 1), NEW x \in 0..(W - 1)
        PROVE  ~(y * V + x < 0)
    <3>1. PICK a \in Nat : a = y * V
      OBVIOUS
    <3> QED BY <3>1
  <2>5. /\ done = [i |-> 0, frame |-> done.frame]
        /\ done.frame = [p \in 0..(W * H) |-> done.frame[p]]
    BY <2>3
  <2>6. PaintedIn(W, H, V, bmp, done, 0)
    BY <2>4, <2>5, Zenon DEF PaintedIn
  <2> QED BY <1>3, <1>5, <2>1, <2>2, <2>6, Zenon DEF Painted
<1>6. CASE k # 0
  <2>1. PICK j \in Nat : j = k - 1 /\ j + 1 = k /\ j \in 0..last /\ j < last
                         /\ ~(k <= j)
    BY <1>3, <1>6
  <2>2. Painted(bmp, g[j], j)
    <3>1. j \notin none
      <4> HIDE DEF none
      <4> QED BY <1>2, <2>1
    <3> QED BY <2>1, <3>1
  <2>3. j < VramWidth * ScreenHeight
    BY <2>1
  <2>4. Painted(bmp, Pixel(bmp, g[j], j \div VramWidth, j % VramWidth), j + 1)
    BY <2>2, <2>3, PixelStep, Zenon
  <2>5. g[k] = Pixel(bmp, g[j], j \div VramWidth, j % VramWidth)
    BY <1>4, <1>6, <2>1, Zenon DEF Turn
  <2> QED BY <1>3, <2>1, <2>4, <2>5, Zenon
<1> QED BY <1>5, <1>6

\* The loops crop a bitmap with all its rows to the frame.
LEMMA FrameWhole ==
  ASSUME NEW bmp
  PROVE  Cropped(bmp, FrameOf(bmp))
<1>1. PICK W \in Nat, H \in Nat, V \in Nat :
        W = ScreenWidth /\ H = ScreenHeight /\ V = VramWidth /\ V > W
  BY FrameAssumption
<1>2. PICK last \in Nat : last = V * H
  OBVIOUS
<1>3. last = VramWidth * ScreenHeight
  BY <1>1, <1>2, Zenon
<1>4. PICK g : /\ g = [k \in 0..last |-> Turn(bmp, g, k)]
               /\ FrameOf(bmp) = g[last].frame
  BY <1>3, FrameTurns, Zenon
<1>5. Painted(bmp, g[last], last)
  <2>1. last \in 0..last
    OBVIOUS
  <2> QED BY <1>3, <1>4, <2>1, AllPainted, Zenon
<1>6. PaintedIn(W, H, V, bmp, g[last], last)
  BY <1>1, <1>5, Zenon DEF Painted
<1>7. ASSUME NEW y \in 0..(H - 1), NEW x \in 0..(W - 1)
      PROVE  FrameOf(bmp)[y * W + x] = Shown(bmp[y * V + x + 1])
  <2>1. x \in 0..(V - 1)
    BY <1>1
  <2>2. y * V + x < V * H
    BY <2>1, PlaceBelow
  <2>3. y * V + x < last
    BY <1>2, <2>2, Zenon
  <2> QED BY <1>4, <1>6, <2>3, Zenon DEF PaintedIn
<1> QED BY <1>1, <1>7, Zenon DEF Cropped

\* The payload of a frame has all rows of the bitmap.
BitmapOK ==
  stage = "answered" /\ answer.kind = "bitmap" => answer.payload \in Bitmaps

\* Each step keeps it: only an answer sets the payload.
LEMMA BitmapNext == BitmapOK /\ [Next]_vars => BitmapOK'
<1> SUFFICES ASSUME BitmapOK, [Next]_vars PROVE BitmapOK'
  OBVIOUS
<1>1. CASE Answered
  <2>1. PICK c \in Codes, p \in ParamLists :
          LET reply == [code |-> c, transaction |-> command.transaction,
                        params |-> p]
          IN \/ Reply(reply, "none", <<>>, <<>>)
             \/ \E s \in Structures :
                  Reply(reply, "struct", s, Pack(s[1], s[2]))
             \/ \E desc \in Descriptions :
                  Reply(reply, "desc", desc, EncodeDesc(desc))
             \/ \E v \in Values : Reply(reply, "value", v, ToBytes(v[1], v[2]))
             \/ \E bmp \in Bitmaps : Reply(reply, "bitmap", <<>>, bmp)
    BY <1>1 DEF Answered
  <2> DEFINE reply == [code |-> c, transaction |-> command.transaction,
                       params |-> p]
  <2>2. ASSUME NEW kind, NEW content, NEW payload,
               Reply(reply, kind, content, payload)
        PROVE  answer'.kind = kind /\ answer'.payload = payload
    BY <2>2 DEF Reply
  <2> HIDE DEF reply
  <2>3. \/ answer'.kind \in {"none", "struct", "desc", "value"}
        \/ \E bmp \in Bitmaps : Reply(reply, "bitmap", <<>>, bmp)
    BY <2>1, <2>2, Zenon DEF reply
  <2>4. CASE \E bmp \in Bitmaps : Reply(reply, "bitmap", <<>>, bmp)
    BY <2>2, <2>4, Zenon DEF BitmapOK
  <2>5. CASE answer'.kind \in {"none", "struct", "desc", "value"}
    <3>1. answer'.kind # "bitmap"
      BY <2>5
    <3> QED BY <3>1 DEF BitmapOK
  <2> QED BY <2>3, <2>4, <2>5
<1>2. CASE Ask \/ AskIn \/ SendPayload \/ SetThenReported
  <2>1. stage' # "answered"
    BY <1>2 DEF Ask, AskIn, SendPayload, SetThenReported
  <2> QED BY <2>1 DEF BitmapOK
<1>3. CASE UNCHANGED vars
  BY <1>3 DEF vars, BitmapOK
<1> QED BY <1>1, <1>2, <1>3 DEF Next

\* Each pixel of a live view frame is that of its place in the bitmap, for
\* every size of screen and bitmap, though each row writes into the next.
THEOREM FrameCroppedHolds == Spec => []FrameCropped
<1>1. Init => Shape /\ BitmapOK
  BY DEF Init, Shape, BitmapOK
<1>2. CommandOK /\ Shape /\ BitmapOK => FrameCropped
  <2> SUFFICES ASSUME CommandOK, Shape, BitmapOK, stage = "answered",
                      answer.kind = "bitmap"
               PROVE  Cropped(answer.payload, FrameOf(ptp_get_payload))
    BY DEF FrameCropped
  <2>1. PICK W \in Nat, H \in Nat, V \in Nat :
          W = ScreenWidth /\ H = ScreenHeight /\ V = VramWidth /\ V > W
    BY FrameAssumption
  <2>2. Len(answer.payload) \in Nat /\ Len(answer.payload) >= V * H
    BY <2>1, EncodingAssumption DEF BitmapOK, Payload
  <2>3. PICK at : Whole(at)
    BY WholeReply
  <2>4. \A i \in 1..Len(answer.payload) :
          ptp_get_payload[i] = answer.payload[i]
    <3>1. answer.kind # "none"
      OBVIOUS
    <3> QED BY <2>3, <3>1, Zenon DEF Whole
  <2>5. ASSUME NEW y \in 0..(H - 1), NEW x \in 0..(W - 1)
        PROVE  ptp_get_payload[y * V + x + 1] = answer.payload[y * V + x + 1]
    <3>1. x \in 0..(V - 1)
      BY <2>1
    <3>2. y * V + x \in Nat /\ y * V + x < V * H
      BY <3>1, PlaceBelow
    <3>3. PICK q \in Nat, n \in Nat, l \in Nat :
            q = y * V + x /\ n = V * H /\ l = Len(answer.payload)
      <4>1. V * H \in Nat
        OBVIOUS
      <4> QED BY <2>2, <3>2, <4>1, Zenon
    <3>4. q + 1 \in 1..l
      BY <2>2, <3>2, <3>3
    <3> QED BY <2>4, <3>3, <3>4
  <2>6. Cropped(ptp_get_payload, FrameOf(ptp_get_payload))
    BY FrameWhole, Zenon
  <2> QED BY <2>1, <2>5, <2>6, Zenon DEF Cropped
<1> QED BY <1>1, <1>2, CommandInit, CommandNext, ShapeNext, BitmapNext, PTL
        DEF Spec
=============================================================================
