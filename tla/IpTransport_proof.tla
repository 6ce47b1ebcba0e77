------------------------- MODULE IpTransport_proof -------------------------
(***************************************************************************)
(* Proofs about IpTransport, for replies and packets of any length, cut    *)
(* anywhere: every read ends inside the buffer, if the length that is read *)
(* is sound; and while the exchange is Clear (the handshake did not tear   *)
(* its answer, and every packet has a header) a reply that is taken is     *)
(* whole and in its place, and a camera that refused is not listened to.   *)
(***************************************************************************)
EXTENDS IpTransport, NaturalsInduction, WellFoundedInduction, SequenceTheorems,
        TLAPS

\* The model looks at as many bytes of r->data as the packets of a reply take.
Visible ==
  /\ RequestSize <= BufferMax + 1
  /\ \A a \in Acks : a.length <= BufferMax + 1
  /\ \A r \in Replies : \A i \in 1..Len(r) : 3 * r[i].length <= BufferMax + 1

\* A set of natural numbers that is not empty has a least element.
LEMMA LeastNat ==
  ASSUME NEW T \in SUBSET Nat, T # {}
  PROVE  \E m \in T : \A k \in T : m <= k
<1>1. IsWellFoundedOn(OpToRel(<, Nat), Nat)
  BY NatLessThanWellFounded
<1>2. PICK m \in T : \A y \in T : ~(<<y, m>> \in OpToRel(<, Nat))
  BY <1>1, WFMin
<1>3. \A k \in T : k \in Nat /\ ~(k < m)
  BY <1>2 DEF OpToRel
<1>4. ASSUME NEW k \in T PROVE m <= k
  <2>1. m \in Nat /\ k \in Nat /\ ~(k < m) BY <1>2, <1>3
  <2> QED BY <2>1
<1> QED BY <1>4
-----------------------------------------------------------------------------
(* The stream of packets.                                                  *)

\* A packet of the stream.
Placed == [at : Nat, length : Nat, type : Type]

\* The packets of the stream follow each other, the answer to the handshake
\* is the first, and each can be seen where it may be read.
StreamOK ==
  /\ stream \in Seq(Placed)
  /\ \A i \in 1..Len(stream) :
       /\ stream[i].length \in IpHeader..(BufferMax + 1)
       /\ stream[i].length < Word
       /\ i > 1 => 3 * stream[i].length <= BufferMax + 1
  /\ \A i \in 1..(Len(stream) - 1) :
       stream[i + 1].at = stream[i].at + stream[i].length
  /\ stream # <<>> => /\ stream[1].at = 0
                      /\ stream[1].type \in {"INIT_COMMAND_ACK", "INIT_FAIL"}

\* Where packet k begins, or will begin.
Begin(k) == IF k \in 1..Len(stream) THEN stream[k].at ELSE Total

\* Each packet begins where the one before it ends.
LEMMA BeginStep ==
  ASSUME StreamOK
  PROVE  /\ Begin(1) = 0 /\ Len(stream) \in Nat
         /\ Total = Begin(Len(stream) + 1)
         /\ \A k \in 1..Len(stream) :
              /\ Begin(k) = stream[k].at /\ Begin(k) \in Nat
              /\ stream[k].length \in Nat /\ stream[k].length >= IpHeader
              /\ Begin(k + 1) = Begin(k) + stream[k].length
         /\ Total \in Nat
<1>1. Len(stream) \in Nat BY DEF StreamOK
<1>2. \A k \in 1..Len(stream) : stream[k] \in Placed BY DEF StreamOK
<1>3. stream = <<>> <=> Len(stream) = 0 BY DEF StreamOK
<1>4. ASSUME NEW k \in 1..Len(stream)
      PROVE  /\ Begin(k) = stream[k].at /\ Begin(k) \in Nat
             /\ stream[k].length \in Nat /\ stream[k].length >= IpHeader
             /\ Begin(k + 1) = Begin(k) + stream[k].length
  <2>1. Begin(k) = stream[k].at /\ stream[k].at \in Nat
        /\ stream[k].length \in Nat
    BY <1>2 DEF Begin, Placed
  <2>2. stream[k].length >= IpHeader
    BY <2>1, <1>1 DEF StreamOK, IpHeader
  <2>3. CASE k = Len(stream)
    BY <1>1, <1>3, <2>1, <2>2, <2>3 DEF Begin, Total
  <2>4. CASE k # Len(stream)
    BY <1>1, <2>1, <2>2, <2>4 DEF Begin, StreamOK
  <2> QED BY <2>1, <2>2, <2>3, <2>4
<1>5. Total = Begin(Len(stream) + 1) BY <1>1 DEF Begin
<1>6. Total \in Nat BY <1>1, <1>3, <1>4 DEF Total, Begin
<1>7. Begin(1) = 0 BY <1>1, <1>3 DEF Begin, Total, StreamOK
<1> QED BY <1>1, <1>4, <1>5, <1>6, <1>7

\* So the packets begin one after the other.
LEMMA BeginGrows ==
  ASSUME StreamOK, NEW i \in 1..Len(stream) + 1, NEW j \in 1..Len(stream) + 1,
         i < j
  PROVE  Begin(i) < Begin(j)
<1> DEFINE T == {n \in 1..Len(stream) + 1 : i < n /\ ~(Begin(i) < Begin(n))}
<1>1. SUFFICES ASSUME T # {} PROVE FALSE OBVIOUS
<1>2. PICK m \in T : \A n \in T : m <= n
  <2>1. T \in SUBSET Nat OBVIOUS
  <2> QED BY <1>1, <2>1, LeastNat
<1>3. m - 1 \in 1..Len(stream) /\ (m - 1 = i \/ i < m - 1)
  BY BeginStep
<1>4. Begin((m - 1) + 1) = Begin(m - 1) + stream[m - 1].length
  BY <1>3, BeginStep
<1>5. stream[m - 1].length \in Nat /\ stream[m - 1].length >= 8
      /\ Begin(m - 1) \in Nat
  BY <1>3, BeginStep DEF IpHeader
<1>6. Begin(i) \in Nat BY BeginStep DEF Begin
<1>7. m - 1 = i \/ Begin(i) < Begin(m - 1) BY <1>2, <1>3
<1>8. Begin(m) = Begin(m - 1) + stream[m - 1].length BY <1>4
<1>9. Begin(i) < Begin(m) BY <1>5, <1>6, <1>7, <1>8
<1> QED BY <1>9

\* The sums that place n packets p behind byte total.
Starts(p, n, total) ==
  {f \in [1..n -> Nat] : /\ n > 0 => f[1] = total
                         /\ \A k \in 2..n : f[k] = f[k - 1] + p[k - 1].length
                         /\ \A k \in 1..n : f[k] >= total}

\* They exist: induction on the number of packets.
LEMMA StartsExist ==
  ASSUME NEW p \in Seq(Packet), NEW total \in Nat
  PROVE  Starts(p, Len(p), total) # {}
<1> DEFINE T == {n \in 0..Len(p) : Starts(p, n, total) = {}}
<1>1. SUFFICES ASSUME T # {} PROVE FALSE OBVIOUS
<1>2. PICK m \in T : \A k \in T : m <= k
  <2>1. T \in SUBSET Nat OBVIOUS
  <2> QED BY <1>1, <2>1, LeastNat
<1>3. CASE m <= 1
  <2>1. [k \in 1..m |-> total] \in Starts(p, m, total)
    BY <1>3 DEF Starts
  <2> QED BY <1>2, <2>1
<1>4. CASE ~(m <= 1)
  <2>1. m \in 2..Len(p) /\ m - 1 \in 1..Len(p) /\ m - 1 \in 0..Len(p)
    BY <1>4
  <2>2. PICK f \in Starts(p, m - 1, total) : TRUE BY <1>2, <2>1
  <2> DEFINE g == [k \in 1..m |-> IF k = m THEN f[m - 1] + p[m - 1].length
                                  ELSE f[k]]
  <2>3. p[m - 1].length \in Nat
    <3>1. p[m - 1] \in Packet BY <2>1
    <3> QED BY <3>1 DEF Packet
  <2>4. /\ f \in [1..m - 1 -> Nat] /\ f[1] = total
        /\ \A k \in 2..m - 1 : f[k] = f[k - 1] + p[k - 1].length
        /\ \A k \in 1..m - 1 : f[k] >= total
    BY <2>1, <2>2 DEF Starts
  <2>5. g \in [1..m -> Nat] BY <2>1, <2>3, <2>4
  <2>6. g[1] = total BY <2>1, <2>4
  <2>7. \A k \in 2..m : g[k] = g[k - 1] + p[k - 1].length BY <2>1, <2>4
  <2>8. \A k \in 1..m : g[k] >= total BY <2>1, <2>3, <2>4
  <2>9. g \in Starts(p, m, total) BY <2>5, <2>6, <2>7, <2>8 DEF Starts
  <2> QED BY <1>2, <2>9
<1> QED BY <1>3, <1>4

\* The stream ends at a byte.
LEMMA TotalNat ==
  ASSUME stream \in Seq(Placed)
  PROVE  Total \in Nat
<1>1. CASE stream = <<>> BY <1>1 DEF Total
<1>2. CASE stream # <<>>
  <2>1. stream[Len(stream)] \in Placed BY <1>2
  <2>2. stream[Len(stream)].at \in Nat /\ stream[Len(stream)].length \in Nat
    BY <2>1 DEF Placed
  <2> QED BY <1>2, <2>2 DEF Total
<1> QED BY <1>1, <1>2

\* What the camera sends is put behind the stream, packet by packet.
LEMMA SentPlaced ==
  ASSUME stream \in Seq(Placed), NEW p \in Seq(Packet)
  PROVE  \E f \in Starts(p, Len(p), Total) :
           Sent(p) = stream \o [i \in 1..Len(p) |->
                                 [at |-> f[i], length |-> p[i].length,
                                  type |-> p[i].type]]
<1> DEFINE start == CHOOSE b : b = [i \in 1..Len(p) |->
                                      IF i = 1 THEN Total
                                      ELSE b[i - 1] + p[i - 1].length]
<1>1. Sent(p) = stream \o [i \in 1..Len(p) |->
                            [at |-> start[i], length |-> p[i].length,
                             type |-> p[i].type]]
  BY DEF Sent
<1>2. PICK f \in Starts(p, Len(p), Total) : TRUE BY TotalNat, StartsExist
<1>3. f = [i \in 1..Len(p) |-> IF i = 1 THEN Total
                               ELSE f[i - 1] + p[i - 1].length]
  BY <1>2 DEF Starts
<1>4. start = [i \in 1..Len(p) |-> IF i = 1 THEN Total
                                   ELSE start[i - 1] + p[i - 1].length]
  BY <1>3
<1> HIDE DEF start
<1>5. \A i \in 1..Len(p) :
        /\ start[i] = IF i = 1 THEN Total ELSE start[i - 1] + p[i - 1].length
        /\ f[i] = IF i = 1 THEN Total ELSE f[i - 1] + p[i - 1].length
  BY <1>3, <1>4
<1>6. \A i \in 1..Len(p) : start[i] = f[i]
  <2> DEFINE T == {i \in 1..Len(p) : start[i] # f[i]}
  <2>1. SUFFICES ASSUME T # {} PROVE FALSE OBVIOUS
  <2>2. PICK m \in T : \A k \in T : m <= k
    <3>1. T \in SUBSET Nat OBVIOUS
    <3> QED BY <2>1, <3>1, LeastNat
  <2>3. m # 1 BY <1>5
  <2>4. m - 1 \in 1..Len(p) /\ start[m - 1] = f[m - 1] BY <2>2, <2>3
  <2>5. start[m] = f[m] BY <1>5, <2>3, <2>4
  <2> QED BY <2>5
<1>7. [i \in 1..Len(p) |-> [at |-> start[i], length |-> p[i].length,
                            type |-> p[i].type]]
        = [i \in 1..Len(p) |-> [at |-> f[i], length |-> p[i].length,
                                type |-> p[i].type]]
  BY <1>6
<1> QED BY <1>1, <1>2, <1>7

\* What was sent before stays where it is.
LEMMA SentBehind ==
  ASSUME stream \in Seq(Placed), NEW p \in Seq(Packet), stream' = Sent(p)
  PROVE  /\ stream' \in Seq(Placed)
         /\ Len(stream') = Len(stream) + Len(p)
         /\ \A i \in 1..Len(stream) : stream'[i] = stream[i]
         /\ \E f \in Starts(p, Len(p), Total) :
              \A i \in 1..Len(p) :
                /\ stream'[Len(stream) + i].at = f[i]
                /\ stream'[Len(stream) + i].length = p[i].length
                /\ stream'[Len(stream) + i].type = p[i].type
<1> DEFINE n == Len(stream)
           q == Len(p)
<1>1. n \in Nat /\ q \in Nat /\ n = Len(stream) /\ q = Len(p)
  OBVIOUS
<1>2. Total \in Nat BY TotalNat
<1>3. \A i \in 1..q : p[i] \in Packet /\ p[i].length \in Nat
                     /\ p[i].type \in Type
  <2>1. ASSUME NEW i \in 1..q PROVE p[i] \in Packet OBVIOUS
  <2> QED BY <2>1 DEF Packet
<1>4. PICK f \in Starts(p, q, Total) :
        Sent(p) = stream \o [i \in 1..q |->
                    [at |-> f[i], length |-> p[i].length, type |-> p[i].type]]
  BY SentPlaced
<1> DEFINE t == [i \in 1..q |->
              [at |-> f[i], length |-> p[i].length, type |-> p[i].type]]
<1>5. f \in [1..q -> Nat] BY <1>4 DEF Starts
<1>6. t \in Seq(Placed) /\ Len(t) = q
  <2>1. \A i \in 1..q : [at |-> f[i], length |-> p[i].length,
                          type |-> p[i].type] \in Placed
    BY <1>3, <1>5 DEF Placed
  <2> QED BY <2>1, <1>1
<1>7. stream' \in Seq(Placed) /\ Len(stream') = n + q
  BY <1>1, <1>4, <1>6
<1>8. \A i \in 1..n : stream'[i] = stream[i]
  BY <1>1, <1>4, <1>6
<1>9. \A i \in 1..q : stream'[n + i] = [at |-> f[i], length |-> p[i].length,
                                        type |-> p[i].type]
  BY <1>1, <1>4, <1>6
<1>10. \A i \in 1..q : /\ stream'[n + i].at = f[i]
                       /\ stream'[n + i].length = p[i].length
                       /\ stream'[n + i].type = p[i].type
  <2>1. ASSUME NEW i \in 1..q
        PROVE  /\ stream'[n + i].at = f[i]
               /\ stream'[n + i].length = p[i].length
               /\ stream'[n + i].type = p[i].type
    <3>1. stream'[n + i] = [at |-> f[i], length |-> p[i].length,
                            type |-> p[i].type]
      BY <1>9
    <3> QED BY <3>1
  <2> QED BY <2>1
<1> HIDE DEF t
<1> QED BY <1>4, <1>7, <1>8, <1>10

\* So the stream stays in order.
LEMMA SentKeeps ==
  ASSUME StreamOK, NEW p \in Seq(Packet), stream' = Sent(p),
         \A i \in 1..Len(p) :
           /\ p[i].length \in IpHeader..(BufferMax + 1)
           /\ p[i].length < Word
           /\ Len(stream) + i > 1 => 3 * p[i].length <= BufferMax + 1,
         stream = <<>> /\ p # <<>> =>
           p[1].type \in {"INIT_COMMAND_ACK", "INIT_FAIL"}
  PROVE  /\ StreamOK'
         /\ Len(stream') = Len(stream) + Len(p)
         /\ \A i \in 1..Len(stream) : stream'[i] = stream[i]
         /\ \A k \in 1..Len(stream) + 1 : Begin(k)' = Begin(k)
         /\ Total' \in Nat /\ Total' >= Total
<1> DEFINE n == Len(stream)
           q == Len(p)
<1>1. n \in Nat /\ q \in Nat /\ stream \in Seq(Placed)
      /\ (stream = <<>> <=> n = 0) /\ (p = <<>> <=> q = 0)
      /\ n = Len(stream) /\ q = Len(p)
  BY DEF StreamOK
<1>2. Total \in Nat BY BeginStep
<1>3. \A i \in 1..q : p[i] \in Packet /\ p[i].length \in Nat
                     /\ p[i].type \in Type
  <2>1. ASSUME NEW i \in 1..q PROVE p[i] \in Packet OBVIOUS
  <2> QED BY <2>1 DEF Packet
<1>4. PICK f \in Starts(p, q, Total) :
        \A i \in 1..q : /\ stream'[n + i].at = f[i]
                        /\ stream'[n + i].length = p[i].length
                        /\ stream'[n + i].type = p[i].type
  BY <1>1, SentBehind
<1>5. /\ f \in [1..q -> Nat] /\ (q > 0 => f[1] = Total)
      /\ \A k \in 2..q : f[k] = f[k - 1] + p[k - 1].length
      /\ \A k \in 1..q : f[k] >= Total
  BY <1>4 DEF Starts
<1>7. stream' \in Seq(Placed) /\ Len(stream') = n + q
  BY <1>1, SentBehind
<1>8. \A i \in 1..n : stream'[i] = stream[i]
  BY <1>1, SentBehind
<1>10. \A i \in 1..q : /\ stream'[n + i].at = f[i]
                       /\ stream'[n + i].length = p[i].length
                       /\ stream'[n + i].type = p[i].type
  BY <1>4
<1> HIDE DEF n, q
<1>11. \A j \in 1..(n + q) : j \in 1..n \/ \E i \in 1..q : j = n + i
  <2>1. ASSUME NEW j \in 1..(n + q), j \notin 1..n
        PROVE  \E i \in 1..q : j = n + i
    <3>1. j - n \in 1..q /\ j = n + (j - n) BY <1>1, <2>1
    <3> QED BY <3>1
  <2> QED BY <2>1
<1>12. stream' = <<>> <=> n + q = 0 BY <1>7
<1>13. StreamOK'
  <2>1. ASSUME NEW j \in 1..(n + q)
        PROVE  /\ stream'[j].length \in IpHeader..(BufferMax + 1)
               /\ stream'[j].length < Word
               /\ j > 1 => 3 * stream'[j].length <= BufferMax + 1
    <3>1. CASE j \in 1..n BY <3>1, <1>1, <1>8 DEF StreamOK
    <3>2. CASE j \notin 1..n
      <4>1. PICK i \in 1..q : j = n + i BY <3>2, <1>11
      <4> QED BY <4>1, <1>1, <1>10
    <3> QED BY <3>1, <3>2
  <2>2. ASSUME NEW j \in 1..(n + q - 1)
        PROVE  stream'[j + 1].at = stream'[j].at + stream'[j].length
    <3>1. CASE j + 1 <= n
      <4>1. j \in 1..(n - 1) /\ j \in 1..n /\ j + 1 \in 1..n BY <3>1, <1>1
      <4>2. stream[j + 1].at = stream[j].at + stream[j].length
        BY <1>1, <4>1 DEF StreamOK
      <4> QED BY <1>8, <4>1, <4>2
    <3>2. CASE j = n
      <4>1. stream'[n + 1].at = Total BY <1>1, <1>5, <1>10, <3>2
      <4>2. Total = stream[n].at + stream[n].length
        BY <1>1, <3>2 DEF Total
      <4> QED BY <4>1, <4>2, <1>1, <1>8, <3>2
    <3>3. CASE j > n
      <4>1. PICK i \in 2..q : j + 1 = n + i /\ j = n + (i - 1)
        <5>1. j + 1 - n \in 2..q /\ j + 1 = n + (j + 1 - n)
              /\ j = n + ((j + 1 - n) - 1)
          BY <1>1, <3>3
        <5> QED BY <5>1
      <4>2. i \in 1..q /\ i - 1 \in 1..q BY <1>1
      <4> QED BY <4>1, <4>2, <1>5, <1>10
    <3> QED BY <1>1, <3>1, <3>2, <3>3
  <2>3. stream' # <<>> =>
          /\ stream'[1].at = 0
          /\ stream'[1].type \in {"INIT_COMMAND_ACK", "INIT_FAIL"}
    <3>1. CASE n > 0 BY <3>1, <1>1, <1>8 DEF StreamOK
    <3>2. CASE n = 0 /\ q > 0
      <4>1. stream'[1].at = Total /\ stream'[1].type = p[1].type
        BY <3>2, <1>1, <1>5, <1>10
      <4> QED BY <4>1, <3>2, <1>1 DEF Total
    <3> QED BY <3>1, <3>2, <1>1, <1>12
  <2>4. \A j \in 1..(n + q) :
          /\ stream'[j].length \in IpHeader..(BufferMax + 1)
          /\ stream'[j].length < Word
          /\ j > 1 => 3 * stream'[j].length <= BufferMax + 1
    BY <2>1
  <2>5. \A j \in 1..(n + q - 1) :
          stream'[j + 1].at = stream'[j].at + stream'[j].length
    BY <2>2
  <2>6. Len(stream') = n + q BY <1>7
  <2>7. /\ \A j \in 1..Len(stream') :
             /\ stream'[j].length \in IpHeader..(BufferMax + 1)
             /\ stream'[j].length < Word
             /\ j > 1 => 3 * stream'[j].length <= BufferMax + 1
        /\ \A j \in 1..(Len(stream') - 1) :
             stream'[j + 1].at = stream'[j].at + stream'[j].length
    BY <1>1, <2>4, <2>5, <2>6
  <2>8. stream' \in Seq(Placed) BY <1>7
  <2> QED BY <2>3, <2>7, <2>8, Zenon DEF StreamOK
<1>14. \A k \in 1..(n + 1) : Begin(k)' = Begin(k)
  <2>1. ASSUME NEW k \in 1..n PROVE Begin(k)' = Begin(k)
    BY <1>1, <1>7, <1>8 DEF Begin
  <2>2. CASE q = 0
    <3>1. Total' = Total
      BY <2>2, <1>1, <1>7, <1>8, <1>12 DEF Total
    <3> QED BY <2>1, <2>2, <3>1, <1>1, <1>7 DEF Begin
  <2>3. CASE q > 0
    <3>1. stream'[n + 1].at = Total BY <2>3, <1>1, <1>5, <1>10
    <3>2. ASSUME NEW k \in 1..(n + 1), k = n + 1 PROVE Begin(k)' = Begin(k)
      <4>1. k \in 1..Len(stream') BY <2>3, <3>2, <1>1, <1>7
      <4>2. Begin(k)' = Total BY <3>1, <3>2, <4>1 DEF Begin
      <4>3. Begin(k) = Total BY <3>2, <1>1 DEF Begin
      <4> QED BY <4>2, <4>3
    <3> QED BY <2>1, <3>2, <1>1
  <2> QED BY <2>2, <2>3, <1>1
<1>15. Total' \in Nat /\ Total' >= Total
  <2>1. CASE q = 0
    BY <2>1, <1>1, <1>2, <1>7, <1>8, <1>12 DEF Total
  <2>2. CASE q > 0
    <3>1. Total' = stream'[n + q].at + stream'[n + q].length
      BY <2>2, <1>1, <1>7, <1>12 DEF Total
    <3>2. Total' = f[q] + p[q].length BY <2>2, <3>1, <1>1, <1>10
    <3> QED BY <2>2, <3>2, <1>1, <1>2, <1>3, <1>5
  <2> QED BY <2>1, <2>2, <1>1
<1> QED BY <1>1, <1>7, <1>8, <1>13, <1>14, <1>15

-----------------------------------------------------------------------------
(* Reading.                                                                *)

\* No two packets begin at the same byte.
LEMMA OnePerPlace ==
  ASSUME StreamOK, NEW i \in 1..Len(stream), NEW k \in 1..Len(stream),
         Begin(i) = Begin(k)
  PROVE  i = k
<1>1. i \in 1..Len(stream) + 1 /\ k \in 1..Len(stream) + 1
      /\ Begin(i) \in Nat
  BY BeginStep
<1>2. ~(i < k) /\ ~(k < i) BY <1>1, BeginGrows
<1> QED BY <1>2, BeginStep

\* The first n bytes of packet k lie at b + o.
Lies(b, o, k, n) == \A j \in 0..(n - 1) : b[o + j] = Begin(k) + j

\* A packet is known by any byte of it.
LEMMA SeenOne ==
  ASSUME StreamOK, NEW b, NEW o \in Nat, NEW k \in 1..Len(stream),
         BufferMax \in Nat, NEW m \in Nat, NEW n \in Nat, m <= n,
         o + n <= BufferMax, NEW c \in Nat, c > n, Lies(b, o, k, c)
  PROVE  Seen(b, o, m, n) = {stream[k]}
<1>1. stream[k] \in Seen(b, o, m, n)
  <2>1. Begin(k) = stream[k].at BY BeginStep
  <2>2. ASSUME NEW j \in m..n PROVE Byte(b, o + j) = stream[k].at + j
    <3>1. j \in 0..(c - 1) /\ o + j <= BufferMax OBVIOUS
    <3> QED BY <2>1, <3>1 DEF Lies, Byte
  <2> QED BY <2>2 DEF Seen
<1>2. ASSUME NEW p \in Seen(b, o, m, n) PROVE p = stream[k]
  <2>1. PICK i \in 1..Len(stream) : p = stream[i] BY DEF Seen
  <2>2. m \in m..n /\ m \in 0..(c - 1) /\ o + m <= BufferMax OBVIOUS
  <2>3. b[o + m] = p.at + m /\ b[o + m] = Begin(k) + m
    BY <2>2 DEF Seen, Lies, Byte
  <2>4. Begin(i) = stream[i].at /\ Begin(i) \in Nat /\ Begin(k) \in Nat
    BY BeginStep
  <2>5. Begin(i) + m = Begin(k) + m BY <2>1, <2>3, <2>4
  <2>6. Begin(i) = Begin(k) BY <2>4, <2>5
  <2> QED BY <2>1, <2>6, OnePerPlace
<1> QED BY <1>1, <1>2

\* So where the first bytes of a packet are, its length is what is read.
LEMMA SeenLength ==
  ASSUME StreamOK, NEW b, NEW o \in Nat, NEW k \in 1..Len(stream),
         BufferMax \in Nat, o + 3 <= BufferMax, Lies(b, o, k, 4)
  PROVE  LengthsAt(b, o) = {stream[k].length}
<1>1. Seen(b, o, 0, 3) = {stream[k]}
  <2>1. 0 \in Nat /\ 3 \in Nat /\ 4 \in Nat /\ 0 <= 3 /\ 4 > 3 OBVIOUS
  <2> QED BY <2>1, SeenOne
<1> QED BY <1>1 DEF LengthsAt

\* And its type.
LEMMA SeenType ==
  ASSUME StreamOK, NEW b, NEW o \in Nat, NEW k \in 1..Len(stream),
         BufferMax \in Nat, o + 7 <= BufferMax, Lies(b, o, k, 8)
  PROVE  TypesAt(b, o) = {stream[k].type}
<1>1. Seen(b, o, 4, 7) = {stream[k]}
  <2>1. 4 \in Nat /\ 7 \in Nat /\ 8 \in Nat /\ 4 <= 7 /\ 8 > 7 OBVIOUS
  <2> QED BY <2>1, SeenOne
<1> QED BY <1>1 DEF TypesAt

\* What is true of the bytes that have come, and of the buffer.
TrafficOK ==
  /\ arrived \in Nat /\ consumed \in Nat /\ base \in Nat /\ calls \in Nat
  /\ consumed <= arrived /\ arrived <= Total
  /\ buf \in [0..BufferMax -> Int]
  /\ pc \in {"idle", "ack", "ack_rest", "length", "rest"}
  /\ pc # "idle" \/ rc = "PTP_OK" => stream # <<>>
  /\ pc = "ack" => Len(stream) = 1 /\ consumed = 0 /\ calls = 0
  /\ pc = "ack_rest" => Len(stream) = 1 /\ calls = 0
  /\ stream = <<>> => calls = 0 /\ consumed = 0

\* A reply that began with packet b is under way: the packets before the one
\* that is read are a start and an end, the reader stands where its packet
\* begins, and all that was read lies in its place.
ReadingAt(b) ==
  /\ base = Begin(b) /\ part \in 1..3 /\ b + part - 1 \in 1..Len(stream) + 1
  /\ of \in Nat /\ of = Begin(b + part - 1) - base
  /\ part > 1 => stream[b].type = "DATA_PACKET_START"
                 /\ pk1_of = stream[b].length
  /\ part > 2 => stream[b + 1].type = "DATA_PACKET_END"
  /\ pc = "length" => read = 0
  /\ pc = "rest" => /\ b + part - 1 <= Len(stream)
                    /\ read \in 4..size
                    /\ size = stream[b + part - 1].length
  /\ consumed = base + of + read
  /\ \A i \in 0..(consumed - base - 1) : buf[i] = base + i

ReadingInv ==
  pc \in {"length", "rest"} => \E b \in 1..Len(stream) + 1 : ReadingAt(b)

\* Between two replies that succeeded the reader stands where one begins.
IdleInv ==
  pc = "idle" /\ rc = "PTP_OK" =>
    \E b \in 1..Len(stream) + 1 : consumed = Begin(b)

\* After a refusal that came too late the first reply is read from where the
\* refusal lies.
RefusedInv ==
  stream # <<>> /\ stream[1].type = "INIT_FAIL" =>
    /\ pc = "idle" /\ rc = "PTP_OK" => consumed = 0 /\ calls = 0
    /\ pc \in {"length", "rest"} => base = 0

IpInv == StreamOK /\ TrafficOK /\ ReadingInv /\ IdleInv /\ RefusedInv
         /\ WholeIpReply

\* While a reply is read there is room for its packet among the bytes the
\* model looks at.
LEMMA PacketVisible ==
  ASSUME StreamOK, NEW b \in 1..Len(stream) + 1, ReadingAt(b),
         b + part - 1 <= Len(stream)
  PROVE  /\ of + stream[b + part - 1].length <= BufferMax + 1
         /\ part = 1 => of = 0
         /\ part = 2 => of = stream[b].length
         /\ part = 3 => of = stream[b].length + stream[b + 1].length
         /\ part > 1 => b > 1
<1>1. Len(stream) \in Nat /\ base \in Nat /\ part \in 1..3 /\ of \in Nat
      /\ BufferMax \in Nat
  BY BeginStep, IpAssumption DEF ReadingAt, Begin
<1>2. of = Begin(b + part - 1) - Begin(b) BY DEF ReadingAt
<1>3. CASE part = 1
  <2>1. b + part - 1 = b /\ b \in 1..Len(stream) BY <1>1, <1>3
  <2>2. Begin(b) \in Nat /\ stream[b].length \in Nat BY <2>1, BeginStep
  <2>3. of = 0 BY <1>2, <2>1, <2>2
  <2>4. stream[b].length <= BufferMax + 1
    BY <1>1, <2>1 DEF StreamOK, IpHeader
  <2> QED BY <1>1, <1>3, <2>1, <2>2, <2>3, <2>4
<1>4. ASSUME part > 1 PROVE b > 1
  <2>1. stream[b].type = "DATA_PACKET_START" BY <1>4 DEF ReadingAt
  <2>2. stream # <<>> BY <1>1 DEF StreamOK
  <2>3. b # 1 BY <2>1, <2>2 DEF StreamOK
  <2> QED BY <1>1, <2>3
<1>5. ASSUME part > 1, NEW i \in 1..Len(stream), i >= b
      PROVE  i > 1 /\ 3 * stream[i].length <= BufferMax + 1
             /\ stream[i].length \in Nat
  <2>1. i > 1 BY <1>4, <1>5, <1>1
  <2> QED BY <2>1, <1>1, BeginStep DEF StreamOK
<1>6. CASE part = 2
  <2>1. b + part - 1 = b + 1 /\ b \in 1..Len(stream)
        /\ b + 1 \in 1..Len(stream)
    BY <1>1, <1>6
  <2>2. Begin(b + 1) = Begin(b) + stream[b].length /\ Begin(b) \in Nat
    BY <2>1, BeginStep
  <2>3. of = stream[b].length BY <1>2, <1>5, <1>6, <2>1, <2>2
  <2>4. /\ 3 * stream[b].length <= BufferMax + 1
        /\ 3 * stream[b + 1].length <= BufferMax + 1
        /\ stream[b].length \in Nat /\ stream[b + 1].length \in Nat
    BY <1>1, <1>5, <1>6, <2>1
  <2>5. of + stream[b + 1].length <= BufferMax + 1 BY <1>1, <2>3, <2>4, SMTT(30)
  <2> QED BY <1>4, <1>6, <2>1, <2>3, <2>5
<1>7. CASE part = 3
  <2>1. b + part - 1 = b + 2 /\ b \in 1..Len(stream)
        /\ b + 1 \in 1..Len(stream) /\ b + 2 \in 1..Len(stream)
        /\ (b + 1) + 1 = b + 2
    BY <1>1, <1>7
  <2>2. Begin(b + 1) = Begin(b) + stream[b].length /\ Begin(b) \in Nat
        /\ Begin((b + 1) + 1) = Begin(b + 1) + stream[b + 1].length
    BY <2>1, BeginStep
  <2>3. of = stream[b].length + stream[b + 1].length
    BY <1>2, <1>5, <1>7, <2>1, <2>2, SMTT(30)
  <2>4. /\ 3 * stream[b].length <= BufferMax + 1
        /\ 3 * stream[b + 1].length <= BufferMax + 1
        /\ 3 * stream[b + 2].length <= BufferMax + 1
        /\ stream[b].length \in Nat /\ stream[b + 1].length \in Nat
        /\ stream[b + 2].length \in Nat
    BY <1>1, <1>5, <1>7, <2>1, SMTT(30)
  <2>5. \A x, y, z \in Nat : \A m \in Int :
          3 * x <= m /\ 3 * y <= m /\ 3 * z <= m => x + y + z <= m
    OBVIOUS
  <2>6. BufferMax + 1 \in Int BY <1>1
  <2>7. stream[b].length + stream[b + 1].length + stream[b + 2].length
          <= BufferMax + 1
    BY <2>4, <2>5, <2>6, Zenon
  <2>8. of + stream[b + 2].length <= BufferMax + 1 BY <2>3, <2>7
  <2> QED BY <1>4, <1>7, <2>1, <2>3, <2>8
<1> QED BY <1>1, <1>3, <1>6, <1>7

\* A read that stays inside its packet puts the bytes of the reply, from the
\* first one on, into their places.
LEMMA ReadsLands ==
  ASSUME StreamOK, TrafficOK, NEW b \in 1..Len(stream) + 1, ReadingAt(b),
         b + part - 1 <= Len(stream), NEW o \in Nat, o = of + read,
         NEW n \in Nat, read \in Nat,
         read + n <= stream[b + part - 1].length, Reads(o, n)
  PROVE  /\ buf' \in [0..BufferMax -> Int]
         /\ consumed' = consumed + n /\ consumed' \in Nat
         /\ of + read + n <= BufferMax + 1
         /\ \A i \in 0..(consumed' - base - 1) : buf'[i] = base + i
<1>1. consumed \in Nat /\ base \in Nat /\ of \in Nat
      /\ buf \in [0..BufferMax -> Int] /\ BufferMax \in Nat
      /\ consumed = base + of + read
  BY IpAssumption DEF TrafficOK, ReadingAt
<1>2. buf' = [i \in 0..BufferMax |-> IF i \in o..(o + n - 1)
                                     THEN consumed + (i - o) ELSE buf[i]]
      /\ consumed' = consumed + n
  BY DEF Reads
<1>3. o + n <= BufferMax + 1
  <2>1. stream[b + part - 1].length \in Nat
    <3>1. b + part - 1 \in 1..Len(stream) BY BeginStep DEF ReadingAt
    <3> QED BY <3>1, BeginStep
  <2> QED BY <1>1, <2>1, PacketVisible, SMTT(30)
<1>4. buf' \in [0..BufferMax -> Int]
  <2>1. \A i \in 0..BufferMax :
          (IF i \in o..(o + n - 1) THEN consumed + (i - o) ELSE buf[i]) \in Int
    BY <1>1
  <2> QED BY <1>2, <2>1
<1>5. ASSUME NEW i \in 0..(consumed' - base - 1) PROVE buf'[i] = base + i
  <2>1. i \in 0..(o + n - 1) /\ i \in 0..BufferMax BY <1>1, <1>2, <1>3, <1>5
  <2>2. CASE i >= o BY <1>1, <1>2, <2>1, <2>2
  <2>3. CASE i < o
    <3>1. i \in 0..(consumed - base - 1) BY <1>1, <2>1, <2>3
    <3>2. buf[i] = base + i BY <3>1 DEF ReadingAt
    <3> QED BY <1>1, <1>2, <2>1, <2>3, <3>2
  <2> QED BY <2>1, <2>2, <2>3
<1>6. \A i \in 0..(consumed' - base - 1) : buf'[i] = base + i BY <1>5
<1>7. of + read + n <= BufferMax + 1 BY <1>1, <1>3
<1>8. consumed' \in Nat BY <1>1, <1>2
<1> QED BY <1>2, <1>4, <1>6, <1>7, <1>8

\* What is not read yet belongs to the packet that is read.
LEMMA PacketThere ==
  ASSUME StreamOK, TrafficOK, NEW b \in 1..Len(stream) + 1, ReadingAt(b),
         pc \in {"length", "rest"}, pc = "rest" \/ Waiting > 0
  PROVE  /\ b + part - 1 \in 1..Len(stream) /\ b \in 1..Len(stream)
         /\ base \in Nat /\ of \in Nat /\ read \in Nat
         /\ stream[b + part - 1].length \in Nat
         /\ stream[b + part - 1].length >= 8
         /\ Begin(b + part - 1) = base + of
         /\ Begin(b + part) = base + of + stream[b + part - 1].length
<1>1. Len(stream) \in Nat /\ part \in 1..3 /\ of \in Nat
      /\ base \in Nat /\ Begin(b) \in Nat
      /\ b + part - 1 \in 1..Len(stream) + 1
  BY BeginStep DEF ReadingAt, TrafficOK, Begin
<1>2. read \in Nat
  <2>1. CASE pc = "length" BY <2>1 DEF ReadingAt
  <2>2. CASE pc = "rest"
    <3>1. b + part - 1 \in 1..Len(stream) BY <2>2, <1>1 DEF ReadingAt
    <3>2. stream[b + part - 1].length \in Nat BY <3>1, BeginStep
    <3> QED BY <2>2, <3>2 DEF ReadingAt
  <2> QED BY <2>1, <2>2
<1>3. Begin(b + part - 1) = base + of
  <2>1. Begin(b + part - 1) \in Nat BY <1>1, BeginStep DEF Begin
  <2>2. of = Begin(b + part - 1) - base BY DEF ReadingAt
  <2> QED BY <1>1, <2>1, <2>2
<1>4. b + part - 1 <= Len(stream)
  <2>1. CASE pc = "rest" BY <2>1 DEF ReadingAt
  <2>2. CASE pc = "length" /\ Waiting > 0
    <3>1. consumed = base + of BY <1>1, <2>2 DEF ReadingAt
    <3>2. consumed \in Nat /\ arrived \in Nat /\ arrived <= Total
      BY DEF TrafficOK
    <3>3. consumed < arrived BY <2>2, <3>2 DEF Waiting
    <3>4. Begin(b + part - 1) < Total
      BY <1>1, <1>3, <3>1, <3>2, <3>3, BeginStep
    <3>5. b + part - 1 # Len(stream) + 1
      BY <3>4, <1>1, <1>3, BeginStep
    <3> QED BY <1>1, <3>5
  <2> QED BY <2>1, <2>2
<1>5. b + part - 1 \in 1..Len(stream) /\ b \in 1..Len(stream)
      /\ (b + part - 1) + 1 = b + part
  BY <1>1, <1>4
<1>6. /\ stream[b + part - 1].length \in Nat
      /\ stream[b + part - 1].length >= 8
      /\ Begin((b + part - 1) + 1) =
           Begin(b + part - 1) + stream[b + part - 1].length
  BY <1>5, BeginStep DEF IpHeader
<1> QED BY <1>1, <1>2, <1>3, <1>5, <1>6
-----------------------------------------------------------------------------
(* The steps.                                                              *)

\* What is asked for is a number of bytes.
LEMMA AskedNat ==
  ASSUME NEW length \in Int, NEW n \in Int
  PROVE  Asked(length, n) \in Nat
<1>1. length - n \in Int /\ Word \in Nat \ {0} BY IpAssumption
<1>2. (length - n) % Word \in 0..(Word - 1) BY <1>1
<1> QED BY <1>1, <1>2 DEF Asked

\* Of a sound length, what is left of the packet.
LEMMA AskedLeft ==
  ASSUME NEW length \in Nat, NEW n \in Nat, n <= length, length < Word
  PROVE  Asked(length, n) = length - n
<1>1. length - n \in Nat /\ Word \in Nat \ {0} /\ length - n < Word
  BY IpAssumption
<1>2. (length - n) % Word = length - n BY <1>1
<1> QED BY <1>2 DEF Asked

\* A read takes no more than there is.
LEMMA ReadsSome ==
  ASSUME buf \in [0..BufferMax -> Int], consumed \in Nat, arrived \in Nat,
         consumed <= arrived, NEW o \in Nat, NEW m \in Nat,
         Reads(o, Least(Waiting, m))
  PROVE  /\ buf' \in [0..BufferMax -> Int]
         /\ consumed' \in Nat /\ consumed' <= arrived
<1>1. Waiting \in Nat /\ Waiting = arrived - consumed BY DEF Waiting
<1> DEFINE n == Least(Waiting, m)
<1>2. n \in Nat /\ n <= Waiting BY <1>1 DEF Least
<1>3. /\ buf' = [i \in 0..BufferMax |-> IF i \in o..(o + n - 1)
                                        THEN consumed + (i - o) ELSE buf[i]]
      /\ consumed' = consumed + n
  BY DEF Reads
<1> HIDE DEF n
<1>4. BufferMax \in Nat BY IpAssumption
<1>5. \A i \in 0..BufferMax :
        (IF i \in o..(o + n - 1) THEN consumed + (i - o) ELSE buf[i]) \in Int
  BY <1>2, <1>4
<1> QED BY <1>1, <1>2, <1>3, <1>5

\* The handshake: the answer is the first packet of the stream.
LEMMA InitCommandStep ==
  ASSUME Visible, IpInv, InitCommand, Clear'
  PROVE  IpInv'
<1> USE DEF IpInv
<1>1. calls = 0 /\ consumed = 0 /\ Len(stream) = 0 /\ arrived = 0
      /\ BufferMax \in Nat
  BY BeginStep, IpAssumption DEF TrafficOK, InitCommand, Total
<1>2. buf' \in [0..BufferMax -> Int]
  BY DEF InitCommand, TrafficOK
<1>3. ASSUME ~open PROVE IpInv'
  <2>1. pc' = "idle" /\ rc' = "PTP_IO_ERR" /\ stream' = stream
    BY <1>3 DEF InitCommand, Return
  <2>2. StreamOK' BY <2>1 DEF StreamOK
  <2>3. TrafficOK' BY <2>1, <1>2 DEF TrafficOK, InitCommand, Total
  <2> QED BY <2>1, <2>2, <2>3
        DEF ReadingInv, IdleInv, RefusedInv, WholeIpReply
<1>4. ASSUME open PROVE IpInv'
  <2>1. PICK a \in Acks : stream' = Sent(<<a>>) BY <1>4 DEF InitCommand
  <2>2. pc' = "ack" BY <1>4 DEF InitCommand, Return
  <2>3. /\ a.length \in Nat /\ a \in Packet
        /\ a.type \in {"INIT_COMMAND_ACK", "INIT_FAIL"}
        /\ a.length < Word /\ a.length <= BufferMax + 1
    BY IpAssumption DEF Packet, Type, Visible
  <2> DEFINE p == <<a>>
  <2>5. p \in Seq(Packet) /\ Len(p) = 1 /\ p[1] = a BY <2>3
  <2> HIDE DEF p
  <2>7. stream' = Sent(p) BY <2>1 DEF p
  <2>4. a.length >= 8
    <3>1. Len(stream') = 1 /\ stream'[0 + 1].length = a.length
      BY <1>1, <2>5, <2>7, SentBehind DEF StreamOK
    <3> QED BY <3>1 DEF Clear, IpHeader
  <2>6. \A i \in 1..Len(p) :
          /\ p[i].length \in IpHeader..(BufferMax + 1)
          /\ p[i].length < Word
          /\ Len(stream) + i > 1 => 3 * p[i].length <= BufferMax + 1
    BY <2>3, <2>4, <2>5, <1>1 DEF IpHeader
  <2>8. /\ StreamOK' /\ Len(stream') = Len(stream) + Len(p)
        /\ Total' \in Nat
    BY <2>3, <2>5, <2>6, <2>7, SentKeeps
  <2>9. stream' # <<>> /\ Len(stream') = 1
    BY <1>1, <2>5, <2>8
  <2>10. TrafficOK'
    BY <1>1, <1>2, <2>2, <2>8, <2>9 DEF TrafficOK, InitCommand
  <2> QED BY <2>2, <2>8, <2>10
        DEF ReadingInv, IdleInv, RefusedInv, WholeIpReply
<1> QED BY <1>3, <1>4

\* The first read of the handshake: at most four bytes of the answer.
LEMMA AckReadStep ==
  ASSUME IpInv, AckRead
  PROVE  IpInv'
<1> USE DEF IpInv
<1>1. /\ pc = "ack" /\ Len(stream) = 1 /\ consumed = 0 /\ calls = 0
      /\ calls' = 0 /\ stream' = stream /\ arrived' = arrived
      /\ base' = base /\ stream # <<>>
      /\ pc' = "ack_rest" \/ (pc' = "idle" /\ rc' # "PTP_OK")
  BY DEF AckRead, TrafficOK, camera, Return, StreamOK
<1>2. StreamOK' BY <1>1 DEF StreamOK
<1>3. Reads(0, Least(Waiting, 4)) BY DEF AckRead
<1>4. /\ buf' \in [0..BufferMax -> Int] /\ consumed' \in Nat
      /\ consumed' <= arrived
  BY <1>1, <1>3, ReadsSome DEF TrafficOK, Waiting
<1>5. TrafficOK' BY <1>1, <1>4 DEF TrafficOK, Total
<1> QED BY <1>1, <1>2, <1>5
      DEF ReadingInv, IdleInv, RefusedInv, WholeIpReply

\* The second read: unless it tears the answer, the next packet begins where
\* the reader stands, and a refusal is noticed.
LEMMA AckReadRestStep ==
  ASSUME IpInv, AckReadRest, Clear'
  PROVE  IpInv'
<1> USE DEF IpInv
<1>1. /\ pc = "ack_rest" /\ pc' = "idle" /\ Len(stream) = 1
      /\ calls = 0 /\ calls' = 0 /\ stream' = stream /\ arrived' = arrived
      /\ base' = base /\ stream # <<>>
  BY DEF AckReadRest, TrafficOK, camera, Return, StreamOK
<1>2. StreamOK' BY <1>1 DEF StreamOK
<1>3. \A k \in 1..(Len(stream) + 1) : Begin(k)' = Begin(k)
  BY <1>1 DEF Begin, Total
<1>4. stream[1].length \in Nat /\ Begin(2) = stream[1].length /\ Begin(1) = 0
      /\ RequestSize \in Int
  BY <1>1, BeginStep, IpAssumption
<1>5. Reads(4, Least(Waiting, Asked(AckLength, 4))) BY DEF AckReadRest
<1>6. Asked(AckLength, 4) \in Nat
  <2>1. AckLength \in Int BY <1>4 DEF AckLength
  <2> QED BY <2>1, AskedNat
<1>7. /\ buf' \in [0..BufferMax -> Int] /\ consumed' \in Nat
      /\ consumed' <= arrived
  BY <1>5, <1>6, ReadsSome DEF TrafficOK, Waiting
<1>8. TrafficOK' BY <1>1, <1>7 DEF TrafficOK, Total
<1>9. consumed' = 0 \/ (consumed' = stream[1].length /\ buf'[4] = 4)
  BY DEF AckReadRest, Clear
<1>10. IdleInv'
  <2>1. consumed' = Begin(1)' \/ consumed' = Begin(2)' BY <1>1, <1>3, <1>4, <1>9
  <2>2. 1 \in 1..(Len(stream') + 1) /\ 2 \in 1..(Len(stream') + 1) BY <1>1
  <2> QED BY <2>1, <2>2 DEF IdleInv
<1>11. RefusedInv'
  <2>1. SUFFICES ASSUME stream[1].type = "INIT_FAIL", rc' = "PTP_OK"
                 PROVE  consumed' = 0
    BY <1>1 DEF RefusedInv
  <2>2. ~Refused(buf') BY <2>1 DEF AckReadRest, Return
  <2> QED BY <1>9, <2>1, <2>2 DEF Refused
<1> QED BY <1>1, <1>2, <1>8, <1>10, <1>11 DEF ReadingInv, WholeIpReply

\* The event socket's handshake overwrites r->data before the first reply.
LEMMA InitEventsStep ==
  ASSUME IpInv, InitEvents
  PROVE  IpInv'
<1> USE DEF IpInv
<1>1. /\ pc' = pc /\ pc = "idle" /\ rc = "PTP_OK" /\ calls = 0 /\ calls' = 0
      /\ stream' = stream /\ arrived' = arrived /\ consumed' = consumed
      /\ base' = base /\ rc' \in {"PTP_OK", "PTP_IO_ERR"}
  BY DEF InitEvents, camera
<1>2. buf' \in [0..BufferMax -> Int]
  BY IpAssumption DEF InitEvents, TrafficOK
<1>3. StreamOK' BY <1>1 DEF StreamOK
<1>4. TrafficOK' BY <1>1, <1>2 DEF TrafficOK, Total
<1>5. IdleInv'
  <2>1. \A k \in 1..(Len(stream) + 1) : Begin(k)' = Begin(k)
    BY <1>1 DEF Begin, Total
  <2> QED BY <1>1, <2>1 DEF IdleInv
<1> QED BY <1>1, <1>3, <1>4, <1>5 DEF ReadingInv, RefusedInv, WholeIpReply

\* A call begins to read where a packet begins.
LEMMA ReceiveStep ==
  ASSUME Visible, IpInv, Receive, Clear'
  PROVE  IpInv'
<1> USE DEF IpInv
<1>1. /\ pc = "idle" /\ rc = "PTP_OK" /\ pc' = "length" /\ part' = 1
      /\ of' = 0 /\ read' = 0 /\ base' = consumed /\ consumed' = consumed
      /\ calls' = calls + 1 /\ arrived' = arrived /\ buf' = buf
      /\ stream # <<>>
  BY DEF Receive, TrafficOK
<1>2. PICK r \in Replies : stream' = Sent(r) BY DEF Receive
<1>3. /\ r \in Seq(Packet) /\ Len(stream) \in Nat /\ Len(stream) > 0
      /\ BufferMax \in Nat
  BY <1>1, IpAssumption, BeginStep DEF StreamOK
<1>4. ASSUME NEW i \in 1..Len(r)
      PROVE  /\ r[i].length \in IpHeader..(BufferMax + 1)
             /\ r[i].length < Word
             /\ Len(stream) + i > 1 => 3 * r[i].length <= BufferMax + 1
  <2>1. r[i] \in Packet BY <1>3
  <2>2. r[i].length \in Nat BY <2>1 DEF Packet
  <2>3. r[i].length < Word /\ 3 * r[i].length <= BufferMax + 1
    BY IpAssumption DEF Visible
  <2>4. r[i].length >= 8
    <3>1. /\ Len(stream') = Len(stream) + Len(r)
          /\ stream'[Len(stream) + i].length = r[i].length
      BY <1>2, <1>3, SentBehind DEF StreamOK
    <3>2. Len(stream) + i \in 1..Len(stream') BY <1>3, <3>1
    <3> QED BY <3>1, <3>2 DEF Clear, IpHeader
  <2> QED BY <1>3, <2>2, <2>3, <2>4 DEF IpHeader
<1>5. /\ StreamOK' /\ Len(stream') = Len(stream) + Len(r)
      /\ \A i \in 1..Len(stream) : stream'[i] = stream[i]
      /\ \A k \in 1..Len(stream) + 1 : Begin(k)' = Begin(k)
      /\ Total' \in Nat /\ Total' >= Total
  BY <1>1, <1>2, <1>3, <1>4, SentKeeps
<1>6. Len(r) \in Nat /\ Total \in Nat /\ stream' # <<>>
      /\ stream'[1] = stream[1]
  <2>1. Len(r) \in Nat /\ Total \in Nat BY <1>3, BeginStep
  <2>2. Len(stream') > 0 BY <1>3, <1>5, <2>1
  <2> QED BY <1>3, <1>5, <2>1, <2>2
<1>7. TrafficOK'
  <2>1. arrived <= Total' BY <1>5, <1>6 DEF TrafficOK
  <2> QED BY <1>1, <1>6, <2>1 DEF TrafficOK
<1>8. PICK b \in 1..Len(stream) + 1 : consumed = Begin(b)
  BY <1>1 DEF IdleInv
<1>9. b \in 1..(Len(stream') + 1) BY <1>3, <1>5, <1>6
<1>10. ReadingAt(b)'
  <2>1. Begin(b)' = consumed /\ consumed \in Nat
    BY <1>5, <1>8 DEF TrafficOK
  <2>3. b + 1 - 1 = b BY <1>3
  <2> QED BY <1>1, <1>9, <2>1, <2>3 DEF ReadingAt
<1>11. RefusedInv' BY <1>1, <1>6 DEF RefusedInv
<1> QED BY <1>1, <1>5, <1>7, <1>9, <1>10, <1>11
      DEF ReadingInv, IdleInv, WholeIpReply

\* A call that fails leaves everything where it was.
LEMMA FailsStep ==
  ASSUME IpInv, pc' = "idle", rc' # "PTP_OK", stream' = stream,
         arrived' = arrived, consumed' \in Nat, consumed' <= arrived,
         base' = base, calls' = calls, buf' \in [0..BufferMax -> Int],
         stream # <<>>
  PROVE  IpInv'
<1> USE DEF IpInv
<1>1. StreamOK' BY DEF StreamOK
<1>2. TrafficOK' BY DEF TrafficOK, Total
<1> QED BY <1>1, <1>2 DEF ReadingInv, IdleInv, RefusedInv, WholeIpReply

\* A length that does not come ends the call, and nothing is taken.
LEMMA LengthFailsStep ==
  ASSUME IpInv, LengthFails
  PROVE  IpInv'
<1> USE DEF IpInv
<1>1. /\ stream' = stream /\ arrived' = arrived /\ consumed' = consumed
      /\ base' = base /\ calls' = calls /\ buf' = buf /\ read' = read
      /\ size' = size /\ part' = part /\ of' = of
      /\ pk1_of' = pk1_of /\ pc = "length" /\ stream # <<>>
  BY DEF LengthFails, camera, memory, TrafficOK
<1>2. CASE wait_for_response = 1
  <2>1. pc' = "idle" /\ rc' # "PTP_OK" BY <1>2 DEF LengthFails, Return
  <2> QED BY <1>1, <2>1, FailsStep DEF TrafficOK
<1>3. CASE wait_for_response # 1
  <2>1. pc' = pc /\ rc' = rc BY <1>3 DEF LengthFails
  <2>2. StreamOK' BY <1>1 DEF StreamOK
  <2>3. TrafficOK' BY <1>1, <2>1 DEF TrafficOK, Total
  <2>4. PICK b \in 1..Len(stream) + 1 : ReadingAt(b)
    BY <1>1 DEF ReadingInv
  <2>5. ReadingAt(b)' BY <1>1, <2>1, <2>4 DEF ReadingAt, Begin, Total
  <2>6. RefusedInv' BY <1>1, <2>1 DEF RefusedInv
  <2> QED BY <1>1, <2>1, <2>2, <2>3, <2>4, <2>5, <2>6
        DEF ReadingInv, IdleInv, WholeIpReply
<1> QED BY <1>2, <1>3

\* Neither does the end of the connection in the rest of a packet.
LEMMA RestFailsStep ==
  ASSUME IpInv, RestFails
  PROVE  IpInv'
<1>1. /\ pc' = "idle" /\ rc' # "PTP_OK" /\ stream' = stream
      /\ arrived' = arrived /\ consumed' = consumed /\ base' = base
      /\ calls' = calls /\ buf' = buf /\ stream # <<>>
  BY DEF RestFails, Return, camera, memory, IpInv, TrafficOK
<1> QED BY <1>1, FailsStep DEF IpInv, TrafficOK

\* The network only makes more bytes available.
LEMMA NetworkStep ==
  ASSUME IpInv, Arrive \/ Close \/ Finished
  PROVE  IpInv'
<1> USE DEF IpInv
<1>1. /\ stream' = stream /\ consumed' = consumed /\ pc' = pc /\ rc' = rc
      /\ base' = base /\ calls' = calls /\ buf' = buf /\ read' = read
      /\ size' = size /\ part' = part /\ of' = of
      /\ pk1_of' = pk1_of
  BY DEF Arrive, Close, Finished, vars, camera, memory, reader
<1>0. ack' = ack BY DEF Arrive, Close, Finished, vars
<1>2. /\ arrived' \in Nat /\ consumed <= arrived' /\ arrived' <= Total
  <2>1. CASE Arrive
    <3>1. PICK n \in Pieces : arrived' = Least(arrived + n, Total)
      BY <2>1 DEF Arrive
    <3>2. n \in Nat /\ arrived \in Nat /\ Total \in Nat
          /\ consumed <= arrived /\ consumed \in Nat /\ arrived < Total
      BY <2>1, IpAssumption, BeginStep DEF TrafficOK, Arrive
    <3> QED BY <2>1, <3>1, <3>2 DEF Least
  <2>2. CASE Close \/ Finished
    <3>1. arrived' = arrived BY <2>2 DEF Close, Finished, vars
    <3> QED BY <3>1 DEF TrafficOK
  <2> QED BY <2>1, <2>2
<1>3. StreamOK' BY <1>1 DEF StreamOK
<1>4. TrafficOK' BY <1>1, <1>2 DEF TrafficOK, Total
<1>5. \A b \in 1..Len(stream) + 1 :
        /\ Begin(b)' = Begin(b) /\ (ReadingAt(b) => ReadingAt(b)')
  BY <1>1 DEF ReadingAt, Begin, Total
<1>6. ReadingInv' BY <1>1, <1>5 DEF ReadingInv
<1>7. IdleInv' BY <1>1, <1>5 DEF IdleInv
<1>8. RefusedInv' BY <1>1 DEF RefusedInv
<1>9. WholeIpReply' BY <1>0, <1>1 DEF WholeIpReply, Clear
<1> QED BY <1>3, <1>4, <1>6, <1>7, <1>8, <1>9

\* The length of a packet is seen, and room is made for the packet.
LEMMA ReadLengthStep ==
  ASSUME Visible, IpInv, ReadLength
  PROVE  IpInv'
<1> USE DEF IpInv
<1> DEFINE n == Least(Waiting, 4)
<1>1. /\ pc = "length" /\ Waiting > 0 /\ Reads(of, n) /\ stream' = stream
      /\ arrived' = arrived /\ base' = base /\ calls' = calls
      /\ stream # <<>>
  BY DEF ReadLength, camera, TrafficOK
<1>2. PICK b \in 1..Len(stream) + 1 : ReadingAt(b) BY <1>1 DEF ReadingInv
<1> DEFINE k == b + part - 1
<1>3. /\ k \in 1..Len(stream) /\ base \in Nat /\ of \in Nat /\ read = 0
      /\ stream[k].length \in Nat /\ stream[k].length >= 8
      /\ Begin(k) = base + of /\ consumed = base + of
  <2>1. read = 0 /\ consumed = base + of + read
    BY <1>1, <1>2 DEF ReadingAt
  <2> QED BY <1>1, <1>2, <2>1, PacketThere
<1>4. arrived \in Nat /\ consumed \in Nat /\ BufferMax \in Nat
  BY IpAssumption DEF TrafficOK
<1>5. n \in 1..4 /\ n <= Waiting /\ Waiting = arrived - consumed
  BY <1>1, <1>4 DEF Least, Waiting
<1> HIDE DEF n
<1>6. /\ buf' \in [0..BufferMax -> Int] /\ consumed' = consumed + n
      /\ consumed' \in Nat /\ of + n <= BufferMax + 1
      /\ \A i \in 0..(consumed' - base - 1) : buf'[i] = base + i
  <2>1. of = of + read /\ read + n <= stream[k].length /\ n \in Nat
        /\ read \in Nat /\ k <= Len(stream)
    BY <1>3, <1>5
  <2> QED BY <1>1, <1>2, <1>3, <2>1, ReadsLands
<1>7. consumed' <= arrived BY <1>4, <1>5, <1>6
<1>8. CASE Waiting < 4
  <2>1. pc' = "idle" /\ rc' # "PTP_OK" BY <1>8 DEF ReadLength, Return
  <2> QED BY <1>1, <1>6, <1>7, <2>1, FailsStep
<1>9. CASE ~(Waiting < 4)
  <2>0. n = 4 BY <1>4, <1>5, <1>9 DEF n, Least
  <2>2. LengthsAt(buf', of) = {stream[k].length}
    <3>1. ASSUME NEW j \in 0..(4 - 1) PROVE buf'[of + j] = Begin(k) + j
      <4>1. of + j \in 0..(consumed' - base - 1) BY <1>3, <1>6, <2>0
      <4>2. buf'[of + j] = base + (of + j) BY <1>6, <4>1
      <4>3. base + (of + j) = (base + of) + j BY <1>3
      <4> QED BY <1>3, <4>2, <4>3
    <3>2. \A j \in 0..(4 - 1) : buf'[of + j] = Begin(k) + j BY <3>1
    <3> HIDE DEF k
    <3>3. Lies(buf', of, k, 4) BY <3>2 DEF Lies
    <3>4. of + 3 <= BufferMax BY <1>3, <1>4, <1>6, <2>0
    <3> QED BY <1>3, <1>4, <3>3, <3>4, SeenLength
  <2>3. stream[k].length < Word BY <1>3 DEF StreamOK
  <2>1. /\ pc' = "rest" /\ read' = 4 /\ rc' = rc /\ part' = part /\ of' = of
        /\ pk1_of' = pk1_of /\ size' = stream[k].length
    <3>1. PICK length \in LengthsAt(buf', of) :
            /\ size' = length
            /\ \/ Asked(length, 4) = 0
               \/ /\ pc' = "rest" /\ read' = 4
                  /\ UNCHANGED <<part, of, pk1_of, rc>>
      BY <1>9 DEF ReadLength
    <3>2. length = stream[k].length BY <2>2, <3>1
    <3>3. Asked(length, 4) = length - 4 BY <1>3, <2>3, <3>2, AskedLeft
    <3>4. Asked(length, 4) # 0 BY <1>3, <3>2, <3>3
    <3> QED BY <3>1, <3>2, <3>4
  <2>4. StreamOK' BY <1>1 DEF StreamOK
  <2>5. TrafficOK' BY <1>1, <1>6, <1>7, <2>1 DEF TrafficOK, Total
  <2>6. ReadingAt(b)'
    <3>1. /\ base' = Begin(b)' /\ part' \in 1..3
          /\ of' = Begin(b + part - 1)' - base'
          /\ b + part' - 1 \in 1..Len(stream') + 1
          /\ of' \in Nat
      BY <1>1, <1>2, <2>1 DEF ReadingAt, Begin, Total
    <3>2. /\ part' > 1 => stream'[b].type = "DATA_PACKET_START"
                          /\ pk1_of' = stream'[b].length
          /\ part' > 2 => stream'[b + 1].type = "DATA_PACKET_END"
      BY <1>1, <1>2, <2>1 DEF ReadingAt
    <3>3. /\ b + part' - 1 <= Len(stream')
          /\ size' = stream'[b + part' - 1].length
          /\ read' \in 4..size'
      BY <1>1, <1>3, <2>1
    <3>4. consumed' = base' + of' + read'
      BY <1>1, <1>3, <1>6, <2>0, <2>1
    <3> QED BY <1>1, <1>6, <2>1, <3>1, <3>2, <3>3, <3>4 DEF ReadingAt
  <2>7. RefusedInv' BY <1>1, <2>1 DEF RefusedInv
  <2> QED BY <1>1, <2>1, <2>4, <2>5, <2>6, <2>7
        DEF ReadingInv, IdleInv, WholeIpReply
<1> QED BY <1>8, <1>9

\* Where the bytes of the reply lie in their places, so do those of a packet.
LEMMA BytesLie ==
  ASSUME NEW f, NEW c \in Nat, NEW s \in Nat, NEW o \in Nat, NEW n \in Nat,
         o + n <= c - s, NEW k, Begin(k) = s + o,
         \A i \in 0..(c - s - 1) : f[i] = s + i
  PROVE  Lies(f, o, k, n)
<1>1. ASSUME NEW j \in 0..(n - 1) PROVE f[o + j] = (s + o) + j
  <2>1. o + j \in 0..(c - s - 1) OBVIOUS
  <2>2. f[o + j] = s + (o + j) BY <2>1
  <2> QED BY <2>2
<1> QED BY <1>1 DEF Lies

\* The rest of a packet is read; when it is whole its type decides what is
\* read next, or how the call returns.
LEMMA ReadRestStep ==
  ASSUME Visible, IpInv, ReadRest
  PROVE  IpInv'
<1> USE DEF IpInv
<1>1. /\ pc = "rest" /\ Waiting > 0 /\ stream' = stream
      /\ arrived' = arrived /\ base' = base /\ calls' = calls
      /\ size' = size /\ stream # <<>>
  BY DEF ReadRest, camera, TrafficOK
<1>2. PICK b \in 1..Len(stream) + 1 : ReadingAt(b) BY <1>1 DEF ReadingInv
<1> DEFINE k == b + part - 1
<1>3. /\ k \in 1..Len(stream) /\ k = b + part - 1 /\ part \in 1..3
      /\ b \in 1..Len(stream) /\ Len(stream) \in Nat
  BY <1>1, <1>2, PacketThere, BeginStep DEF ReadingAt
<1>4. /\ base \in Nat /\ of \in Nat /\ read \in Nat /\ size \in Nat
      /\ arrived \in Nat /\ consumed \in Nat /\ BufferMax \in Nat
      /\ size >= 8 /\ size < Word /\ read >= 4 /\ read <= size
      /\ consumed <= arrived /\ consumed = base + of + read
      /\ size = stream[k].length
      /\ of + size <= BufferMax + 1
  <2>1. /\ base \in Nat /\ of \in Nat /\ read \in Nat
        /\ stream[k].length \in Nat /\ stream[k].length >= 8
    BY <1>1, <1>2, PacketThere
  <2>2. read \in 4..size /\ size = stream[k].length
        /\ consumed = base + of + read
    BY <1>1, <1>2 DEF ReadingAt
  <2>3. /\ arrived \in Nat /\ consumed \in Nat /\ consumed <= arrived
        /\ BufferMax \in Nat
    BY IpAssumption DEF TrafficOK
  <2>4. stream[k].length < Word BY <1>3 DEF StreamOK
  <2>5. of + stream[k].length <= BufferMax + 1
    BY <1>2, <1>3, PacketVisible
  <2> QED BY <2>1, <2>2, <2>3, <2>4, <2>5
<1>5. /\ Begin(k) = base + of /\ Begin(b) = base
      /\ Begin(b + part) = base + of + size
  BY <1>1, <1>2, <1>4, PacketThere DEF ReadingAt
<1>6. \A i \in 0..(consumed - base - 1) : buf[i] = base + i
  BY <1>2 DEF ReadingAt
<1>7. size = stream[k].length BY <1>4
<1> HIDE DEF k
<1> DEFINE n == Least(Waiting, Asked(size, read))
<1>8. Asked(size, read) = size - read BY <1>4, AskedLeft
<1>9. /\ Reads(of + read, n)
      /\ IF Asked(size, read + n) = 0 THEN PacketRead(buf', size)
         ELSE /\ read' = read + n
              /\ UNCHANGED <<pc, part, of, pk1_of, data_filled_length, rc>>
  BY DEF ReadRest
<1>10. n \in Nat /\ n <= Waiting /\ Waiting = arrived - consumed
       /\ read + n <= size
  <2>1. Waiting = arrived - consumed BY DEF Waiting
  <2>2. Waiting \in Nat BY <1>4, <2>1
  <2>3. n \in Nat /\ n <= Waiting /\ n <= Asked(size, read)
    <3>1. Asked(size, read) \in Nat BY <1>4, <1>8
    <3> QED BY <2>2, <3>1 DEF Least
  <2> HIDE DEF n
  <2>4. read + n <= size BY <1>4, <1>8, <2>3
  <2> QED BY <2>1, <2>3, <2>4
<1> HIDE DEF n
<1>16. Asked(size, read + n) = size - (read + n) BY <1>4, <1>10, AskedLeft
<1>11. /\ buf' \in [0..BufferMax -> Int] /\ consumed' = consumed + n
       /\ consumed' \in Nat
       /\ \A i \in 0..(consumed' - base - 1) : buf'[i] = base + i
  <2>1. of + read \in Nat /\ read \in Nat BY <1>4
  <2>2. b + part - 1 <= Len(stream) BY <1>3
  <2>3. read + n <= stream[b + part - 1].length BY <1>3, <1>7, <1>10
  <2>4. Reads(of + read, n) /\ n \in Nat BY <1>9, <1>10
  <2>5. b \in 1..Len(stream) + 1 /\ ReadingAt(b) BY <1>2
  <2>6. /\ buf' \in [0..BufferMax -> Int] /\ consumed' = consumed + n
        /\ consumed' \in Nat
        /\ \A i \in 0..(consumed' - base - 1) : buf'[i] = base + i
    BY <2>1, <2>2, <2>3, <2>4, <2>5, ReadsLands
  <2> QED BY <2>6
<1>12. consumed' <= arrived BY <1>4, <1>10, <1>11
<1>13. StreamOK' BY <1>1 DEF StreamOK
<1>14. CASE read + n # size
  <2>0. Asked(size, read + n) # 0 BY <1>4, <1>10, <1>14, <1>16
  <2>1. /\ read' = read + n /\ pc' = pc /\ part' = part /\ of' = of
        /\ pk1_of' = pk1_of /\ rc' = rc
    BY <1>9, <2>0
  <2>2. TrafficOK' BY <1>1, <1>11, <1>12, <2>1 DEF TrafficOK, Total
  <2>3. ReadingAt(b)'
    <3>1. /\ base' = Begin(b)' /\ part' \in 1..3
          /\ of' = Begin(b + part - 1)' - base'
          /\ b + part' - 1 \in 1..Len(stream') + 1
          /\ of' \in Nat
      BY <1>1, <1>2, <2>1 DEF ReadingAt, Begin, Total
    <3>2. /\ part' > 1 => stream'[b].type = "DATA_PACKET_START"
                          /\ pk1_of' = stream'[b].length
          /\ part' > 2 => stream'[b + 1].type = "DATA_PACKET_END"
      BY <1>1, <1>2, <2>1 DEF ReadingAt
    <3>3. k <= Len(stream) /\ read' \in 4..size'
      BY <1>1, <1>3, <1>4, <1>10, <2>1
    <3>4. stream'[b + part' - 1].length = size' /\ b + part' - 1 = k
      BY <1>1, <1>3, <1>7, <2>1
    <3>5. consumed' = base' + of' + read'
      BY <1>1, <1>4, <1>10, <1>11, <2>1
    <3> QED BY <1>1, <1>11, <2>1, <3>1, <3>2, <3>3, <3>4, <3>5
          DEF ReadingAt
  <2>4. RefusedInv' BY <1>1, <2>1 DEF RefusedInv
  <2> QED BY <1>1, <1>13, <2>1, <2>2, <2>3, <2>4
        DEF ReadingInv, IdleInv, WholeIpReply
<1>15. CASE read + n = size
  <2>1. PacketRead(buf', size) BY <1>4, <1>9, <1>15, <1>16
  <2>2. consumed' = base + of + size BY <1>4, <1>10, <1>11, <1>15
  <2>3. ASSUME NEW m \in Nat, m <= size PROVE Lies(buf', of, k, m)
    <3>1. PICK c \in Nat : c = consumed' BY <1>11
    <3>2. of + m <= c - base
      <4>1. c = base + of + size BY <2>2, <3>1
      <4>2. base \in Nat /\ of \in Nat /\ size \in Nat BY <1>4
      <4> QED BY <2>3, <4>1, <4>2
    <3>3. \A i \in 0..(c - base - 1) : buf'[i] = base + i BY <1>11, <3>1
    <3>4. base \in Nat /\ of \in Nat /\ Begin(k) = base + of BY <1>4, <1>5
    <3> QED BY <3>2, <3>3, <3>4, BytesLie
  <2>4. TypesAt(buf', of) = {stream[k].type}
    <3>1. Lies(buf', of, k, 8) BY <1>4, <2>3
    <3>2. of + 7 <= BufferMax BY <1>4
    <3> QED BY <1>3, <1>4, <3>1, <3>2, SeenType
  <2>5. ASSUME pc' = "length", part' = part + 1, of' = of + size,
               read' = 0, rc' = rc, part < 3,
               part' > 1 => stream[b].type = "DATA_PACKET_START"
                            /\ pk1_of' = stream[b].length,
               part' > 2 => stream[b + 1].type = "DATA_PACKET_END"
        PROVE  IpInv'
    <3>1. TrafficOK' BY <1>1, <1>11, <1>12, <2>5 DEF TrafficOK, Total
    <3>2. /\ part' \in 1..3 /\ b + part' - 1 = b + part
          /\ b + part \in 1..Len(stream) + 1
      BY <1>3, <2>5
    <3>3. base' = Begin(b)' BY <1>1, <1>5 DEF Begin, Total
    <3>4. of' = Begin(b + part - 1)' - base' /\ of' \in Nat
      <4>1. PICK m \in 1..Len(stream) + 1 : m = b + part BY <3>2
      <4>2. Begin(m)' = Begin(m) BY <1>1 DEF Begin, Total
      <4>3. Begin(b + part - 1)' = Begin(m)' BY <3>2, <4>1 DEF Begin
      <4>4. Begin(m) = base + of + size BY <1>5, <4>1
      <4>5. Begin(b + part - 1)' = base + of + size
        BY <4>2, <4>3, <4>4
      <4>6. of' = of + size /\ base' = base BY <1>1, <2>5
      <4>7. base \in Nat /\ of \in Nat /\ size \in Nat BY <1>4
      <4> QED BY <4>5, <4>6, <4>7
    <3>6. consumed' = base' + of' + read'
      <4>1. base \in Nat /\ of \in Nat /\ size \in Nat BY <1>4
      <4>2. of' = of + size /\ base' = base /\ read' = 0 BY <1>1, <2>5
      <4> QED BY <2>2, <4>1, <4>2
    <3>7. ReadingAt(b)'
      BY <1>1, <1>11, <2>5, <3>2, <3>3, <3>4, <3>6 DEF ReadingAt
    <3>8. RefusedInv' BY <1>1, <2>5 DEF RefusedInv
    <3> QED BY <1>1, <1>3, <1>13, <2>5, <3>1, <3>7, <3>8
          DEF ReadingInv, IdleInv, WholeIpReply
  <2>6. CASE part = 1 /\ stream[k].type = "DATA_PACKET_START"
    <3>1. k = b BY <2>6, <1>3
    <3>2. ReadPacket(2, size) /\ pk1_of' = size
      BY <2>1, <2>4, <2>6 DEF PacketRead
    <3>3. of = 0 BY <1>4, <1>5, <3>1
    <3>4. of + size = size BY <1>4, <3>3
    <3> QED BY <1>7, <2>5, <2>6, <3>1, <3>2, <3>4 DEF ReadPacket
  <2>7. CASE part = 2 /\ stream[k].type = "DATA_PACKET_END"
    <3>1. k = b + 1 BY <2>7, <1>3
    <3>2. pk1_of = stream[b].length /\ stream[b].type = "DATA_PACKET_START"
      BY <1>2, <2>7 DEF ReadingAt
    <3>3. of = stream[b].length /\ of = pk1_of
      BY <1>2, <1>3, <2>7, <3>2, PacketVisible
    <3>4. ReadPacket(3, pk1_of + size) /\ pk1_of' = pk1_of
      BY <2>1, <2>4, <2>7 DEF PacketRead
    <3> QED BY <2>5, <2>7, <3>1, <3>2, <3>3, <3>4 DEF ReadPacket
  <2>8. CASE /\ ~(part = 1 /\ stream[k].type = "DATA_PACKET_START")
             /\ ~(part = 2 /\ stream[k].type = "DATA_PACKET_END")
    <3>1. /\ pc' = "idle"
          /\ rc' = IF part # 2 /\ stream[k].type = "COMMAND_RESPONSE"
                   THEN "PTP_OK" ELSE "PTP_IO_ERR"
      BY <2>1, <2>4, <2>8 DEF PacketRead, Return
    <3>2. CASE ~(part # 2 /\ stream[k].type = "COMMAND_RESPONSE")
      <4>1. rc' # "PTP_OK" BY <3>1, <3>2
      <4> QED BY <1>1, <1>11, <1>12, <3>1, <4>1, FailsStep
    <3>3. CASE part # 2 /\ stream[k].type = "COMMAND_RESPONSE"
      <4>1. TrafficOK'
        BY <1>1, <1>11, <1>12, <3>1, <3>3 DEF TrafficOK, Total
      <4>2. IdleInv'
        <5>1. b + part \in 1..Len(stream) + 1 BY <1>3
        <5>2. PICK m \in 1..Len(stream) + 1 : m = b + part BY <5>1
        <5>3. Begin(m)' = consumed' BY <1>1, <1>5, <2>2, <5>2 DEF Begin, Total
        <5> QED BY <1>1, <5>3 DEF IdleInv
      <4>3. RefusedInv'
        <5>1. SUFFICES ASSUME stream[1].type = "INIT_FAIL" PROVE FALSE
          BY <1>1, <3>1 DEF RefusedInv
        <5>2. base = 0 BY <1>1, <5>1 DEF RefusedInv
        <5>3. 1 \in 1..Len(stream) /\ Begin(1) = Begin(b)
          BY <1>3, <1>5, <5>2, BeginStep
        <5>4. b = 1 BY <1>3, <5>3, OnePerPlace
        <5>5. part = 1
          <6>1. part > 1 => stream[b].type = "DATA_PACKET_START"
            BY <1>2 DEF ReadingAt
          <6> QED BY <1>3, <5>1, <5>4, <6>1
        <5>6. k = 1 BY <1>3, <5>4, <5>5
        <5> QED BY <3>3, <5>1, <5>6
      <4>4. WholeIpReply'
        <5>1. stream[b].at = base /\ stream[k].at = base + of
          BY <1>3, <1>5, BeginStep
        <5>2. stream[k].at + stream[k].length = consumed'
          BY <1>7, <2>2, <5>1
        <5>3. WellFormed([i \in 1..(k - b + 1) |-> stream[b + i - 1].type])
          <6>1. CASE part = 1
            <7>1. k = b BY <6>1, <1>3
            <7>2. [i \in 1..(k - b + 1) |-> stream[b + i - 1].type]
                    = <<stream[b].type>>
              <8>1. k - b + 1 = 1 /\ b + 1 - 1 = b BY <1>3, <7>1
              <8> DEFINE types == [i \in 1..1 |-> stream[b + i - 1].type]
              <8>2. types[1] = stream[b].type BY <8>1
              <8>3. types = <<types[1]>> OBVIOUS
              <8> QED BY <8>1, <8>2, <8>3
            <7> QED BY <3>3, <7>1, <7>2 DEF WellFormed
          <6>2. CASE part = 3
            <7>1. k = b + 2 BY <6>2, <1>3
            <7>2. [i \in 1..(k - b + 1) |-> stream[b + i - 1].type]
                    = <<stream[b].type, stream[b + 1].type,
                        stream[b + 2].type>>
              <8>1. k - b + 1 = 3 BY <1>3, <7>1
              <8> DEFINE types == [i \in 1..3 |-> stream[b + i - 1].type]
              <8>2. /\ types[1] = stream[b].type
                    /\ types[2] = stream[b + 1].type
                    /\ types[3] = stream[b + 2].type
                BY <1>3
              <8>3. types = <<types[1], types[2], types[3]>> OBVIOUS
              <8> QED BY <8>1, <8>2, <8>3
            <7>3. /\ stream[b].type = "DATA_PACKET_START"
                  /\ stream[b + 1].type = "DATA_PACKET_END"
              BY <1>2, <6>2 DEF ReadingAt
            <7> QED BY <3>3, <7>1, <7>2, <7>3 DEF WellFormed
          <6> QED BY <1>3, <3>3, <6>1, <6>2
        <5>4. k \in b..Len(stream) BY <1>3
        <5> QED BY <1>1, <1>3, <1>11, <5>1, <5>2, <5>3, <5>4
              DEF WholeIpReply
      <4> QED BY <1>13, <3>1, <4>1, <4>2, <4>3, <4>4 DEF ReadingInv
    <3> QED BY <3>2, <3>3
  <2> QED BY <2>6, <2>7, <2>8
<1> QED BY <1>14, <1>15
-----------------------------------------------------------------------------
(* Clear or not.                                                           *)

\* What holds of every exchange: a handshake that is under way has not torn
\* its answer yet.
BaseInv ==
  /\ stream \in Seq(Placed)
  /\ rc = "none" => ack = "none"
  /\ pc \in {"ack", "ack_rest"} => rc = "none"

\* What the camera sends leaves the packets before it as they are.
LEMMA SentClear ==
  ASSUME stream \in Seq(Placed), NEW p \in Seq(Packet), stream' = Sent(p),
         ack' = ack, Clear'
  PROVE  stream' \in Seq(Placed) /\ Clear
<1>1. /\ stream' \in Seq(Placed) /\ Len(stream') = Len(stream) + Len(p)
      /\ \A i \in 1..Len(stream) : stream'[i] = stream[i]
      /\ Len(p) \in Nat /\ Len(stream) \in Nat
  BY SentBehind
<1>2. \A i \in 1..Len(stream) : i \in 1..Len(stream') BY <1>1
<1> QED BY <1>1, <1>2 DEF Clear

\* So an exchange that is clear was clear all the time.
LEMMA ClearBefore ==
  ASSUME BaseInv, [Next]_vars
  PROVE  BaseInv' /\ (Clear' => Clear)
<1> USE DEF BaseInv
<1>1. ASSUME stream' = stream, ack' = ack,
             rc' = "none" => rc = "none",
             pc' \in {"ack", "ack_rest"} => rc' = "none"
      PROVE  BaseInv' /\ (Clear' => Clear)
  BY <1>1 DEF Clear
<1>2. CASE InitCommand
  <2>1. CASE open
    <3>1. PICK a \in Acks : stream' = Sent(<<a>>)
      BY <1>2, <2>1 DEF InitCommand
    <3>2. <<a>> \in Seq(Packet)
      <4>1. a \in Packet BY IpAssumption DEF Packet, Type
      <4> QED BY <4>1
    <3>3. ack' = ack /\ rc' = rc /\ rc = "none"
      BY <1>2, <2>1 DEF InitCommand, Return
    <3>4. stream' \in Seq(Placed) BY <3>1, <3>2, SentBehind
    <3>5. Clear' => Clear BY <3>1, <3>2, <3>3, SentClear
    <3> QED BY <3>3, <3>4, <3>5
  <2>2. CASE ~open BY <1>1, <1>2, <2>2 DEF InitCommand, Return
  <2> QED BY <2>1, <2>2
<1>3. CASE Receive
  <2>1. PICK r \in Replies : stream' = Sent(r) BY <1>3 DEF Receive
  <2>2. r \in Seq(Packet) BY IpAssumption
  <2>3. ack' = ack /\ rc' = rc /\ rc = "PTP_OK" /\ pc' = "length"
    BY <1>3 DEF Receive
  <2>4. stream' \in Seq(Placed) BY <2>1, <2>2, SentBehind
  <2>5. Clear' => Clear BY <2>1, <2>2, <2>3, SentClear
  <2> QED BY <2>3, <2>4, <2>5
<1>4. CASE AckReadRest
  <2>1. /\ stream' = stream /\ pc' = "idle" /\ rc' # "none"
        /\ pc = "ack_rest"
    BY <1>4 DEF AckReadRest, Return, camera
  <2>2. ack = "none" BY <2>1
  <2> QED BY <2>1, <2>2 DEF Clear
<1>5. CASE InitEvents BY <1>1, <1>5 DEF InitEvents, camera
<1>6. CASE AckRead
  BY <1>1, <1>6 DEF AckRead, Return, camera
<1>7. CASE LengthFails
  BY <1>1, <1>7 DEF LengthFails, Return, camera
<1>8. CASE ReadLength
  <2>1. stream' = stream /\ ack' = ack /\ pc = "length"
    BY <1>8 DEF ReadLength, camera
  <2>2. (rc' = rc \/ rc' # "none") /\ pc' \notin {"ack", "ack_rest"}
    BY <1>8 DEF ReadLength, PacketRead, ReadPacket, Return
  <2> QED BY <1>1, <2>1, <2>2
<1>9. CASE ReadRest
  <2>1. stream' = stream /\ ack' = ack /\ pc = "rest"
    BY <1>9 DEF ReadRest, camera
  <2>2. (rc' = rc \/ rc' # "none") /\ pc' \notin {"ack", "ack_rest"}
    BY <1>9, <2>1 DEF ReadRest, PacketRead, ReadPacket, Return
  <2> QED BY <1>1, <2>1, <2>2
<1>10. CASE RestFails BY <1>1, <1>10 DEF RestFails, Return, camera
<1>11. CASE Arrive \/ Close BY <1>1, <1>11 DEF Arrive, Close, camera
<1>12. CASE Finished \/ UNCHANGED vars
  BY <1>1, <1>12 DEF Finished, vars, camera
<1> QED BY <1>2, <1>3, <1>4, <1>5, <1>6, <1>7, <1>8, <1>9, <1>10, <1>11,
           <1>12 DEF Next, Step
-----------------------------------------------------------------------------
(* Room.                                                                   *)

\* Before a packet's length is read there is room for it, and before its rest
\* for the whole packet, whatever is taken for a packet: if its length is more
\* than its own four bytes, and the sum that is compared does not wrap.
FitsInv ==
  /\ of \in Nat /\ size \in 0..(Word - 1) /\ data_length \in Nat
  /\ pk1_of \in Nat /\ read \in Nat /\ part \in 1..3
  /\ data_length >= IpHeader
  /\ arrived \in Nat /\ consumed \in Nat /\ consumed <= arrived
  /\ part = 1 /\ pc \in {"length", "rest"} => of = 0
  /\ part = 2 => of = pk1_of
  /\ pc = "length" /\ part > 1 /\ size > 4 /\ of + 4 < Word =>
       of + 4 <= data_length
  /\ pc = "rest" /\ size > 4 /\ of + 4 + size < Word =>
       read \in 4..size /\ of + 4 + size <= data_length

\* The packets of the stream are the answer to the handshake, or of replies:
\* their lengths are numbers that h->length can hold.
LengthsInv ==
  /\ stream \in Seq(Placed)
  /\ \A i \in 1..Len(stream) : stream[i].length < Word
  /\ pc \in {"ack", "ack_rest"} => stream # <<>>

\* So is whatever is read as a length.
LEMMA LengthsAtWord ==
  ASSUME LengthsInv, NEW b, NEW o
  PROVE  LengthsAt(b, o) \subseteq 0..(Word - 1)
<1>1. ASSUME NEW p \in Seen(b, o, 0, 3) PROVE p.length \in 0..(Word - 1)
  <2>1. PICK i \in 1..Len(stream) : p = stream[i] BY DEF Seen
  <2>2. stream[i] \in Placed /\ stream[i].length < Word BY DEF LengthsInv
  <2> QED BY <2>1, <2>2, IpAssumption DEF Placed
<1>2. StrayLengths \subseteq 0..(Word - 1) BY IpAssumption
<1> QED BY <1>1, <1>2 DEF LengthsAt

\* What is sent has such lengths.
LEMMA SentLengths ==
  ASSUME LengthsInv, NEW p \in Seq(Packet), stream' = Sent(p),
         \A i \in 1..Len(p) : p[i].length < Word,
         p # <<>> \/ pc' \notin {"ack", "ack_rest"}
  PROVE  LengthsInv'
<1> DEFINE n == Len(stream)
<1>1. stream \in Seq(Placed) BY DEF LengthsInv
<1>2. /\ stream' \in Seq(Placed) /\ Len(stream') = n + Len(p)
      /\ \A i \in 1..n : stream'[i] = stream[i]
      /\ \A i \in 1..Len(p) : stream'[n + i].length = p[i].length
  BY <1>1, SentBehind
<1>3. n \in Nat /\ Len(p) \in Nat BY <1>1
<1>4. \A i \in 1..n : stream[i].length < Word BY DEF LengthsInv
<1> HIDE DEF n
<1>5. ASSUME NEW i \in 1..Len(stream') PROVE stream'[i].length < Word
  <2>1. CASE i \in 1..n BY <2>1, <1>2, <1>4
  <2>2. CASE i \notin 1..n
    <3>1. i - n \in 1..Len(p) /\ i = n + (i - n) BY <1>2, <1>3, <2>2
    <3>2. stream'[n + (i - n)].length = p[i - n].length BY <1>2, <3>1
    <3> QED BY <3>1, <3>2
  <2> QED BY <2>1, <2>2
<1>6. p # <<>> => stream' # <<>>
  <2>1. p # <<>> => Len(p) > 0 OBVIOUS
  <2>2. stream' = <<>> => Len(stream') = 0 OBVIOUS
  <2> QED BY <1>2, <1>3, <2>1, <2>2
<1> QED BY <1>2, <1>5, <1>6 DEF LengthsInv

\* Every step keeps the lengths.
LEMMA LengthsStep ==
  ASSUME LengthsInv, [Next]_vars
  PROVE  LengthsInv'
<1>1. ASSUME stream' = stream,
             pc' \in {"ack", "ack_rest"} => pc \in {"ack", "ack_rest"}
      PROVE  LengthsInv'
  BY <1>1 DEF LengthsInv
<1>2. CASE InitCommand /\ open
  <2>1. PICK a \in Acks : stream' = Sent(<<a>>) BY <1>2 DEF InitCommand
  <2>2. a \in Packet /\ a.length < Word
    BY IpAssumption DEF Packet, Type
  <2>3. /\ <<a>> \in Seq(Packet)
        /\ \A i \in 1..Len(<<a>>) : <<a>>[i].length < Word
        /\ <<a>> # <<>>
    BY <2>2
  <2> QED BY <2>1, <2>3, SentLengths
<1>3. CASE Receive
  <2>1. PICK r \in Replies : stream' = Sent(r) BY <1>3 DEF Receive
  <2>2. r \in Seq(Packet) /\ \A i \in 1..Len(r) : r[i].length < Word
    BY IpAssumption
  <2>3. pc' = "length" BY <1>3 DEF Receive
  <2> QED BY <2>1, <2>2, <2>3, SentLengths
<1>4. CASE ~Receive /\ ~(InitCommand /\ open)
  <2>1. /\ stream' = stream
        /\ pc' \in {"ack", "ack_rest"} => pc \in {"ack", "ack_rest"}
    <3>1. CASE ReadLength
      BY <3>1 DEF ReadLength, PacketRead, ReadPacket, Return, camera
    <3>2. CASE ReadRest
      BY <3>2 DEF ReadRest, PacketRead, ReadPacket, Return, camera
    <3>3. CASE ~ReadLength /\ ~ReadRest
      BY <1>4, <3>3 DEF Next, Step, InitCommand, AckRead, AckReadRest,
            InitEvents, LengthFails, RestFails, Arrive, Close, Finished,
            vars, camera, Return
    <3> QED BY <3>1, <3>2, <3>3
  <2> QED BY <1>1, <2>1
<1> QED BY <1>2, <1>3, <1>4

\* Where packet n + 1 begins, if type decides that there is one.
LEMMA PacketReadFits ==
  ASSUME FitsInv, NEW b, NEW length \in 0..(Word - 1), PacketRead(b, length),
         pc \in {"length", "rest"}, size' = length,
         data_length' \in Nat, data_length' >= data_length,
         consumed' \in Nat, arrived' \in Nat, consumed' <= arrived',
         length > 4 /\ of + 4 + length < Word =>
           of + 4 + length <= data_length'
  PROVE  FitsInv'
<1>1. PICK type \in TypesAt(b, of) :
        IF part = 1 /\ type = "DATA_PACKET_START"
          THEN ReadPacket(2, length) /\ pk1_of' = length
        ELSE IF part = 2 /\ type = "DATA_PACKET_END"
          THEN ReadPacket(3, pk1_of + length) /\ UNCHANGED pk1_of
        ELSE /\ pc' = "idle"
             /\ read' = length
             /\ UNCHANGED <<part, of, pk1_of>>
  BY DEF PacketRead, Return
<1>2. /\ of \in Nat /\ pk1_of \in Nat /\ part \in 1..3 /\ length \in Nat
      /\ length < Word /\ Word \in Nat /\ data_length \in Nat
      /\ data_length >= 8
      /\ (part = 1 => of = 0) /\ (part = 2 => of = pk1_of)
  BY IpAssumption DEF FitsInv, IpHeader
<1>3. CASE part = 1 /\ type = "DATA_PACKET_START"
  <2>1. /\ pc' = "length" /\ part' = 2 /\ of' = length /\ read' = 0
        /\ pk1_of' = length
    BY <1>1, <1>3 DEF ReadPacket
  <2>2. length > 4 /\ length + 4 < Word => length + 4 <= data_length'
    BY <1>2, <1>3
  <2> QED BY <1>2, <2>1, <2>2 DEF FitsInv, IpHeader
<1>4. CASE part = 2 /\ type = "DATA_PACKET_END"
  <2>1. /\ pc' = "length" /\ part' = 3 /\ of' = of + length /\ read' = 0
        /\ pk1_of' = pk1_of
    BY <1>1, <1>2, <1>4 DEF ReadPacket
  <2>2. length > 4 /\ of' + 4 < Word => of' + 4 <= data_length'
    BY <1>2, <2>1
  <2> QED BY <1>2, <2>1, <2>2 DEF FitsInv, IpHeader
<1>5. CASE /\ ~(part = 1 /\ type = "DATA_PACKET_START")
           /\ ~(part = 2 /\ type = "DATA_PACKET_END")
  <2>1. /\ pc' = "idle" /\ read' = length /\ part' = part /\ of' = of
        /\ pk1_of' = pk1_of
    BY <1>1, <1>5
  <2> QED BY <1>2, <2>1 DEF FitsInv, IpHeader
<1> QED BY <1>3, <1>4, <1>5

\* The length of a packet is read, and room is made for the rest.
LEMMA ReadLengthFits ==
  ASSUME FitsInv, LengthsInv, ReadLength
  PROVE  FitsInv'
<1>1. /\ pc = "length" /\ Waiting > 0 /\ arrived' = arrived
      /\ consumed' = consumed + Least(Waiting, 4)
  BY DEF ReadLength, Reads
<1>2. /\ of \in Nat /\ Word \in Nat \ {0} /\ data_length \in Nat
      /\ data_length >= 8 /\ part \in 1..3
  BY IpAssumption DEF FitsInv, IpHeader
<1>3. consumed' \in Nat /\ consumed' <= arrived'
  BY <1>1 DEF FitsInv, Least, Waiting
<1>4. CASE Waiting < 4
  <2>1. /\ pc' = "idle" /\ of' = of /\ size' = size /\ part' = part
        /\ data_length' = data_length /\ pk1_of' = pk1_of /\ read' = read
    BY <1>4 DEF ReadLength, Return
  <2> QED BY <1>3, <1>1, <2>1 DEF FitsInv
<1>5. CASE ~(Waiting < 4)
  <2>1. PICK length \in LengthsAt(buf', of) :
          /\ size' = length
          /\ \/ /\ Asked(length, 4) = 0
                /\ PacketRead(buf', length) /\ UNCHANGED data_length
             \/ /\ Asked(length, 4) # 0
                /\ data_length' = RoomFor(length)
                /\ pc' = "rest" /\ read' = 4
                /\ UNCHANGED <<part, of, pk1_of>>
    BY <1>5 DEF ReadLength
  <2>2. length \in 0..(Word - 1) BY LengthsAtWord
  <2>3. CASE Asked(length, 4) = 0
    <3>1. ~(length > 4)
      <4>1. length > 4 => Asked(length, 4) = length - 4
        BY <1>2, <2>2, AskedLeft
      <4> QED BY <2>2, <2>3, <4>1
    <3>2. PacketRead(buf', length) /\ data_length' = data_length
      BY <2>1, <2>3
    <3>3. data_length' \in Nat /\ data_length' >= data_length
      BY <1>2, <3>2
    <3>4. consumed' \in Nat /\ arrived' \in Nat /\ consumed' <= arrived'
      BY <1>1, <1>3 DEF FitsInv
    <3> QED BY <1>1, <2>1, <2>2, <3>1, <3>2, <3>3, <3>4, PacketReadFits
  <2>4. CASE Asked(length, 4) # 0
    <3>1. /\ pc' = "rest" /\ read' = 4 /\ part' = part /\ of' = of
          /\ pk1_of' = pk1_of /\ data_length' = RoomFor(length)
          /\ size' = length
      BY <2>1, <2>4
    <3>2. (of + 4 + length) % Word \in Nat
      BY <1>2, <2>2
    <3>3. data_length' \in Nat /\ data_length' >= data_length
          /\ (of + 4 + length) % Word <= data_length'
      BY <1>2, <3>1, <3>2 DEF RoomFor, Resized
    <3>4. of + 4 + length < Word => (of + 4 + length) % Word = of + 4 + length
      BY <1>2, <2>2
    <3>5. length > 4 => read' \in 4..size' BY <2>2, <3>1
    <3> QED BY <1>1, <1>2, <1>3, <2>2, <3>1, <3>3, <3>4, <3>5
          DEF FitsInv, IpHeader
  <2> QED BY <2>3, <2>4
<1> QED BY <1>4, <1>5

\* The rest of a packet is read into that room.
LEMMA ReadRestFits ==
  ASSUME FitsInv, ReadRest
  PROVE  FitsInv'
<1> DEFINE n == Least(Waiting, Asked(size, read))
<1>1. /\ pc = "rest" /\ Waiting > 0 /\ arrived' = arrived
      /\ consumed' = consumed + n /\ size' = size
      /\ data_length' = data_length
      /\ IF Asked(size, read + n) = 0 THEN PacketRead(buf', size)
         ELSE /\ read' = read + n
              /\ UNCHANGED <<pc, part, of, pk1_of>>
  BY DEF ReadRest, Reads
<1>2. /\ of \in Nat /\ size \in Nat /\ read \in Nat /\ data_length \in Nat
      /\ size < Word /\ Word \in Nat /\ arrived \in Nat /\ consumed \in Nat
      /\ consumed <= arrived /\ size \in 0..(Word - 1)
  BY IpAssumption DEF FitsInv
<1>3. n \in Nat /\ n <= Waiting /\ n <= Asked(size, read)
  <2>1. Asked(size, read) \in Nat BY <1>2, AskedNat
  <2>2. Waiting \in Nat BY <1>2 DEF Waiting
  <2> QED BY <2>1, <2>2 DEF Least
<1> HIDE DEF n
<1>4. consumed' \in Nat /\ consumed' <= arrived' /\ arrived' \in Nat
  BY <1>1, <1>2, <1>3 DEF Waiting
<1>5. CASE Asked(size, read + n) = 0
  <2>1. PacketRead(buf', size) BY <1>1, <1>5
  <2>2. data_length' \in Nat /\ data_length' >= data_length BY <1>1, <1>2
  <2>3. size > 4 /\ of + 4 + size < Word => of + 4 + size <= data_length'
    BY <1>1 DEF FitsInv
  <2> QED BY <1>1, <1>2, <1>4, <2>1, <2>2, <2>3, PacketReadFits
<1>6. CASE Asked(size, read + n) # 0
  <2>1. /\ read' = read + n /\ pc' = pc /\ part' = part /\ of' = of
        /\ pk1_of' = pk1_of
    BY <1>1, <1>6
  <2>2. size > 4 /\ of + 4 + size < Word => read' \in 4..size
    <3>1. SUFFICES ASSUME size > 4, of + 4 + size < Word
                   PROVE  read' \in 4..size
      OBVIOUS
    <3>2. read \in 4..size BY <1>1, <3>1 DEF FitsInv
    <3>3. Asked(size, read) = size - read BY <1>2, <3>2, AskedLeft
    <3> QED BY <1>2, <1>3, <2>1, <3>2, <3>3
  <2> QED BY <1>1, <1>2, <1>3, <1>4, <2>1, <2>2 DEF FitsInv
<1> QED BY <1>5, <1>6

\* The handshake reads, and a call begins, before there is a packet.
LEMMA FitsStep ==
  ASSUME FitsInv, LengthsInv, [Next]_vars
  PROVE  FitsInv'
<1>1. CASE ReadLength BY <1>1, ReadLengthFits
<1>2. CASE ReadRest BY <1>2, ReadRestFits
<1>3. CASE AckRead \/ AckReadRest
  <2>1. PICK o \in Nat, m \in Nat : consumed' = consumed + Least(Waiting, m)
    <3>1. CASE AckRead BY <3>1 DEF AckRead, Reads
    <3>2. CASE AckReadRest
      <4>1. stream \in Seq(Placed) /\ stream # <<>>
        BY <3>2 DEF AckReadRest, LengthsInv
      <4>2. Asked(AckLength, 4) \in Nat
        <5>1. stream[1] \in Placed BY <4>1
        <5>2. AckLength \in Int BY <5>1, IpAssumption DEF AckLength, Placed
        <5> QED BY <5>2, AskedNat
      <4>3. consumed' = consumed + Least(Waiting, Asked(AckLength, 4))
        BY <3>2 DEF AckReadRest, Reads
      <4> QED BY <4>2, <4>3
    <3> QED BY <1>3, <3>1, <3>2
  <2>2. /\ arrived' = arrived /\ of' = of /\ size' = size /\ part' = part
        /\ data_length' = data_length /\ pk1_of' = pk1_of /\ read' = read
        /\ pc' \notin {"length", "rest"}
    BY <1>3 DEF AckRead, AckReadRest, Return, reader
  <2>3. consumed' \in Nat /\ consumed' <= arrived'
    BY <2>1, <2>2 DEF FitsInv, Least, Waiting
  <2> QED BY <2>2, <2>3 DEF FitsInv
<1>4. CASE Receive
  <2>1. /\ pc' = "length" /\ part' = 1 /\ of' = 0 /\ pk1_of' = 0
        /\ read' = 0 /\ size' = 0 /\ data_length' = data_length
        /\ arrived' = arrived /\ consumed' = consumed
    BY <1>4 DEF Receive
  <2> QED BY <2>1, IpAssumption DEF FitsInv
<1>5. CASE Arrive
  <2>1. /\ pc' = pc /\ of' = of /\ size' = size /\ part' = part
        /\ data_length' = data_length /\ pk1_of' = pk1_of /\ read' = read
        /\ consumed' = consumed
    BY <1>5 DEF Arrive, reader, memory
  <2>2. arrived' \in Nat /\ consumed <= arrived'
    <3>1. PICK m \in Pieces : arrived' = Least(arrived + m, Total)
      BY <1>5 DEF Arrive
    <3>2. Total \in Nat /\ arrived < Total /\ m \in Nat
      BY <1>5, IpAssumption, TotalNat DEF Arrive, LengthsInv
    <3> QED BY <3>1, <3>2 DEF FitsInv, Least
  <2> QED BY <2>1, <2>2 DEF FitsInv
<1>6. CASE InitCommand \/ InitEvents \/ LengthFails \/ RestFails \/ Close
           \/ Finished \/ UNCHANGED vars
  <2>1. /\ of' = of /\ size' = size /\ part' = part
        /\ data_length' = data_length /\ pk1_of' = pk1_of /\ read' = read
        /\ consumed' = consumed /\ arrived' = arrived
        /\ pc' = pc \/ pc' \notin {"length", "rest"}
    BY <1>6 DEF InitCommand, InitEvents, LengthFails, RestFails, Close,
          Finished, vars, reader, memory, Return
  <2> QED BY <2>1 DEF FitsInv
<1> QED BY <1>1, <1>2, <1>3, <1>4, <1>5, <1>6 DEF Next, Step
-----------------------------------------------------------------------------
(* The theorems.                                                           *)

\* The invariant, as long as the exchange is clear: whatever is sent, and
\* however it is cut.
LEMMA IpInvariant ==
  ASSUME Visible
  PROVE  Spec => [](BaseInv /\ (Clear => IpInv))
<1>1. Init => BaseInv /\ IpInv
  <2>1. SUFFICES ASSUME Init PROVE BaseInv /\ IpInv OBVIOUS
  <2>2. StreamOK /\ BaseInv
    <3>1. stream = <<>> /\ <<>> \in Seq(Placed) /\ Len(<<>>) = 0
      BY <2>1 DEF Init
    <3> QED BY <2>1, <3>1 DEF StreamOK, BaseInv, Init
  <2>3. TrafficOK
    BY <2>1, IpAssumption DEF Init, TrafficOK, Total
  <2> QED BY <2>1, <2>2, <2>3
        DEF Init, IpInv, ReadingInv, IdleInv, RefusedInv, WholeIpReply
<1>2. ASSUME IpInv, Clear', [Next]_vars PROVE IpInv'
  <2>1. IpInv /\ Clear' BY <1>2
  <2>2. CASE InitCommand BY <2>1, <2>2, InitCommandStep
  <2>3. CASE InitEvents BY <2>1, <2>3, InitEventsStep
  <2>4. CASE Receive BY <2>1, <2>4, ReceiveStep
  <2>5. CASE AckRead BY <2>1, <2>5, AckReadStep
  <2>6. CASE LengthFails BY <2>1, <2>6, LengthFailsStep
  <2>7. CASE ReadLength BY <2>1, <2>7, ReadLengthStep
  <2>8. CASE ReadRest BY <2>1, <2>8, ReadRestStep
  <2>9. CASE RestFails BY <2>1, <2>9, RestFailsStep
  <2>10. CASE Arrive \/ Close \/ Finished BY <2>1, <2>10, NetworkStep
  <2>11. CASE AckReadRest BY <2>1, <2>11, AckReadRestStep
  <2>12. CASE UNCHANGED vars
    <3>2. /\ stream' = stream /\ consumed' = consumed /\ pc' = pc
          /\ rc' = rc /\ base' = base /\ calls' = calls /\ buf' = buf
          /\ read' = read /\ size' = size /\ part' = part
          /\ of' = of /\ pk1_of' = pk1_of /\ arrived' = arrived
          /\ ack' = ack
      BY <2>12 DEF vars, reader, memory, camera
    <3>3. StreamOK' BY <2>1, <3>2 DEF IpInv, StreamOK
    <3>4. TrafficOK' BY <2>1, <3>2 DEF IpInv, TrafficOK, Total
    <3>5. \A b \in 1..Len(stream) + 1 :
            /\ Begin(b)' = Begin(b) /\ (ReadingAt(b) => ReadingAt(b)')
      BY <3>2 DEF ReadingAt, Begin, Total
    <3>6. ReadingInv' BY <2>1, <3>2, <3>5 DEF IpInv, ReadingInv
    <3>7. IdleInv' BY <2>1, <3>2, <3>5 DEF IpInv, IdleInv
    <3>8. RefusedInv' BY <2>1, <3>2 DEF IpInv, RefusedInv
    <3>9. WholeIpReply' BY <2>1, <3>2 DEF IpInv, WholeIpReply, Clear
    <3> QED BY <3>3, <3>4, <3>6, <3>7, <3>8, <3>9 DEF IpInv
  <2> QED BY <1>2, <2>2, <2>3, <2>4, <2>5, <2>6, <2>7, <2>8, <2>9, <2>10,
             <2>11, <2>12 DEF Next, Step
<1>3. BaseInv /\ (Clear => IpInv) /\ [Next]_vars
        => BaseInv' /\ (Clear' => IpInv')
  BY <1>2, ClearBefore
<1> QED BY <1>1, <1>3, PTL DEF Spec

\* A reply that is taken is one whole reply, in its place and in order
\* (ptpip_receive_bulk_packets), whatever came before it and however TCP cut
\* its packets, if they have headers and the handshake got its answer whole
\* or not at all.
THEOREM WholeIpReplyHolds ==
  ASSUME Visible
  PROVE  Spec => []WholeIpReply
<1>1. BaseInv /\ (Clear => IpInv) => WholeIpReply
  BY DEF IpInv, WholeIpReply
<1> QED BY <1>1, IpInvariant, PTL

\* Every read of ptpip_read_packet ends inside r->data, for packets of every
\* length above four, well-formed or not, as long as the sum that is compared
\* with r->data_length does not wrap.
THEOREM IpReadFitsHolds == Spec => []IpReadFits
<1>1. Init => FitsInv /\ LengthsInv
  <2>1. SUFFICES ASSUME Init PROVE FitsInv /\ LengthsInv OBVIOUS
  <2>2. stream = <<>> /\ <<>> \in Seq(Placed) /\ Len(<<>>) = 0
    BY <2>1 DEF Init
  <2> QED BY <2>1, <2>2, IpAssumption DEF Init, FitsInv, LengthsInv, IpHeader
<1>2. FitsInv /\ LengthsInv /\ [Next]_vars => FitsInv' /\ LengthsInv'
  BY FitsStep, LengthsStep
<1>3. FitsInv => IpReadFits
  <2>1. SUFFICES ASSUME FitsInv PROVE IpReadFits OBVIOUS
  <2>2. CASE pc = "length" BY <2>1, <2>2 DEF FitsInv, IpReadFits, IpHeader
  <2>3. CASE pc = "rest" /\ size > 4 /\ of + 4 + size < Word
    <3>1. read \in 4..size /\ of + 4 + size <= data_length
      BY <2>1, <2>3 DEF FitsInv
    <3>2. /\ size \in Nat /\ read \in Nat /\ size < Word /\ of \in Nat
          /\ data_length \in Nat /\ Word \in Nat
      BY <2>1, IpAssumption DEF FitsInv
    <3>3. Asked(size, read) = size - read BY <3>1, <3>2, AskedLeft
    <3> QED BY <2>3, <3>1, <3>2, <3>3 DEF IpReadFits
  <2> QED BY <2>2, <2>3 DEF IpReadFits
<1> QED BY <1>1, <1>2, <1>3, PTL DEF Spec

\* A camera that refused the handshake is not listened to: a refusal that came
\* after ptpip_init_command_request had returned is read as the first reply,
\* and fails there.
THEOREM RefusedStaysOutHolds ==
  ASSUME Visible
  PROVE  Spec => []RefusedStaysOut
<1>1. BaseInv /\ (Clear => IpInv) => RefusedStaysOut
  BY DEF IpInv, TrafficOK, RefusedInv, RefusedStaysOut
<1> QED BY <1>1, IpInvariant, PTL
=============================================================================
