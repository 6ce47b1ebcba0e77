------------------------- MODULE UsbTransport_proof -------------------------
(***************************************************************************)
(* The read loop of ptpusb_read_all_packets stays inside r->data, for      *)
(* every size of packet and of buffer, every cut of the camera's bytes and *)
(* every fault.  It takes the whole reply to the call's own command, once, *)
(* and has only a command sent again that the camera ignored, however the  *)
(* reply is cut, as long as no read gives up on a reply that is coming.    *)
(***************************************************************************)
EXTENDS UsbTransport, SequenceTheorems, FiniteSetTheorems, TLAPS

\* The part of TypeOK that ReadFits rests on.
Sizes ==
  /\ read \in Nat /\ data_length \in Nat /\ command \in Command

\* What a resize leaves is at least what there was and what was asked for.
LEMMA ResizedCovers ==
  ASSUME data_length \in Nat, NEW size \in Nat
  PROVE  /\ Resized(size) \in Nat
         /\ Resized(size) >= size /\ Resized(size) >= data_length
BY DEF Resized

\* Before each read there is room for a packet behind what was read.
LEMMA RoomCovers ==
  ASSUME Sizes
  PROVE  /\ Room \in Nat
         /\ Room >= read + MaxPacketSize /\ Room >= data_length
<1>1. read + MaxPacketSize \in Nat
  BY TransportAssumption DEF Sizes
<1> QED BY <1>1, ResizedCovers DEF Room, Sizes

\* The end of the stream is a position.
LEMMA TotalNat ==
  ASSUME TypeOK
  PROVE  Total \in Nat
<1>1. CASE stream = <<>>
  BY <1>1 DEF Total
<1>2. CASE stream # <<>>
  <2>1. stream[Len(stream)] \in PacketType
    BY <1>2 DEF TypeOK
  <2> QED BY <1>2, <2>1 DEF Total, PacketType
<1> QED BY <1>1, <1>2

\* A transfer brings at least one byte and at most a packet.
LEMMA TransferBounded ==
  ASSUME TypeOK, NEW n \in Available
  PROVE  n \in 1..MaxPacketSize
<1>1. MaxPacketSize \in Nat \ {0}
  BY TransportAssumption
<1>2. Position \in Nat
  BY DEF Position, TypeOK
<1>3. stream \in Seq(PacketType)
  BY DEF TypeOK
<1>4. Total \in Nat /\ ~(Position >= Total)
  BY TotalNat DEF Available
<1>5. CASE connection_type = "PTP_IP_USB"
  <2>1. n \in 1..Least(Total - Position, MaxPacketSize)
    BY <1>4, <1>5 DEF Available
  <2> QED BY <1>1, <1>2, <1>4, <2>1 DEF Least
<1>6. CASE connection_type = "PTP_USB"
  <2>1. PICK i \in 1..Len(stream) :
          /\ stream[i].at <= Position
          /\ Position < stream[i].at + stream[i].length
          /\ n = Least(stream[i].at + stream[i].length - Position,
                       MaxPacketSize)
    BY <1>6, <1>4 DEF Available
  <2>2. stream[i] \in PacketType
    BY <1>3
  <2> QED BY <1>1, <1>2, <2>1, <2>2 DEF Least, PacketType
<1> QED BY <1>5, <1>6 DEF TypeOK
-----------------------------------------------------------------------------
\* The part of TypeOK that the end of an attempt touches.
Control ==
  /\ pc \in {"idle", "write", "read"} /\ attempt \in {1, 2}
  /\ phase \in {"command", "data"} /\ sent \in Nat
  /\ operation_kill_switch \in BOOLEAN
  /\ rc \in {"none", "PTP_OK", "PTP_IO_ERR", "PTP_COMMAND_IGNORED"}

controls == <<pc, attempt, phase, sent, operation_kill_switch, rc>>

\* The end of an attempt keeps the shapes.
LEMMA TypeEndAttempt ==
  ASSUME TypeOK,
         NEW result \in {"PTP_OK", "PTP_IO_ERR", "PTP_COMMAND_IGNORED"},
         EndAttempt(result)
  PROVE  Control'
<1>1. CASE result = "PTP_COMMAND_IGNORED" /\ attempt = 1
  BY <1>1 DEF EndAttempt, Attempt, TypeOK, Control
<1>2. CASE ~(result = "PTP_COMMAND_IGNORED" /\ attempt = 1)
  BY <1>2 DEF EndAttempt, TypeOK, Control
<1> QED BY <1>1, <1>2

\* So does a turn of the read loop that goes on.
LEMMA TypeGoesOn ==
  ASSUME TypeOK, UNCHANGED controls
  PROVE  Control'
BY DEF TypeOK, Control, controls

\* The loop decides for a result that the callers know.
LEMMA DecideKnown ==
  ASSUME NEW n, NEW d \in Decide(n), d # "more"
  PROVE  d \in {"PTP_OK", "PTP_IO_ERR", "PTP_COMMAND_IGNORED"}
<1>1. CASE n < Header
  BY <1>1 DEF Decide
<1>2. CASE ~(n < Header)
  <2> DEFINE Second(first) ==
        {IF second.type # "response" THEN "PTP_IO_ERR"
         ELSE IF n = first.length + second.length THEN "PTP_OK"
         ELSE IF n > first.length + second.length THEN "PTP_IO_ERR"
         ELSE "more" : second \in HeaderAt(first.length)}
  <2> DEFINE First(first) ==
        IF n < first.length THEN {"more"}
        ELSE IF first.type = "response" THEN {"PTP_OK"}
        ELSE IF first.type # "data" \/ first.length + Header > n THEN {"more"}
        ELSE Second(first)
  <2>1. \A first : Second(first) \subseteq {"PTP_OK", "PTP_IO_ERR", "more"}
    OBVIOUS
  <2>2. \A first : First(first) \subseteq {"PTP_OK", "PTP_IO_ERR", "more"}
    <3> HIDE DEF Second
    <3> QED BY <2>1
  <2>3. d \in UNION {First(first) : first \in HeaderAt(0)}
    BY <1>2 DEF Decide
  <2> HIDE DEF First
  <2> QED BY <2>2, <2>3
<1> QED BY <1>1, <1>2

\* A transfer keeps the shapes.
LEMMA TypeReadBytes ==
  ASSUME TypeOK, NEW n \in Nat, ReadBytes(n)
  PROVE  TypeOK'
<1>1. read' \in Nat /\ data_length' \in Nat
  BY RoomCovers DEF ReadBytes, TypeOK, Sizes
<1>2. Control'
  <2>1. CASE wait_for_response = 0 /\ read_attempts > 0
    <3>1. EndAttempt("PTP_COMMAND_IGNORED")
      BY <2>1 DEF ReadBytes
    <3> QED BY <3>1, TypeEndAttempt
  <2>2. CASE ~(wait_for_response = 0 /\ read_attempts > 0)
    <3>1. PICK d \in Decide(read + n) :
            IF d = "more" THEN UNCHANGED controls ELSE EndAttempt(d)
      BY <2>2 DEF ReadBytes, controls
    <3>2. CASE d = "more"
      BY <3>1, <3>2, TypeGoesOn
    <3>3. CASE d # "more"
      BY <3>1, <3>3, DecideKnown, TypeEndAttempt
    <3> QED BY <3>2, <3>3
  <2> QED BY <2>1, <2>2
<1> QED BY <1>1, <1>2 DEF ReadBytes, TypeOK, Control, camera, history

\* So does a read that brings nothing.
LEMMA TypeNothing ==
  ASSUME TypeOK, NEW result \in {"PTP_IO_ERR", "PTP_COMMAND_IGNORED"},
         Nothing(result), zlp' \subseteq Nat
  PROVE  TypeOK'
<1>1. data_length' \in Nat
  BY RoomCovers DEF Nothing, TypeOK, Sizes
<1>2. CASE wait_for_response > 0
  <2>1. wait_for_response' \in Nat /\ read_attempts' \in Nat
    BY <1>2 DEF Nothing, TypeOK
  <2>2. Control'
    BY <1>2, TypeGoesOn DEF Nothing, controls
  <2> QED BY <1>1, <2>1, <2>2 DEF Nothing, TypeOK, Control, history
<1>3. CASE ~(wait_for_response > 0)
  <2>1. Control' /\ UNCHANGED <<wait_for_response, read_attempts>>
    BY <1>3, TypeEndAttempt DEF Nothing
  <2> QED BY <1>1, <2>1 DEF Nothing, TypeOK, Control, history
<1> QED BY <1>2, <1>3

\* And an empty transfer, when there was never a try to use up.
LEMMA TypeReadZero ==
  ASSUME TypeOK, ReadZero
  PROVE  TypeOK'
<1>1. zlp' \subseteq Nat
  BY DEF ReadZero, TypeOK
<1>2. CASE wait_for_response = 0 /\ read_attempts = 0
  <2>1. data_length' \in Nat
    BY <1>2, RoomCovers DEF ReadZero, TypeOK, Sizes
  <2>2. PICK d \in Decide(read) :
          IF d = "more" THEN UNCHANGED controls ELSE EndAttempt(d)
    BY <1>2 DEF ReadZero, controls
  <2>3. Control'
    <3>1. CASE d = "more"
      BY <2>2, <3>1, TypeGoesOn
    <3>2. CASE d # "more"
      BY <2>2, <3>2, DecideKnown, TypeEndAttempt
    <3> QED BY <3>1, <3>2
  <2> QED BY <1>1, <1>2, <2>1, <2>3 DEF ReadZero, TypeOK, Control, history
<1>3. CASE ~(wait_for_response = 0 /\ read_attempts = 0)
  BY <1>1, <1>3, TypeNothing DEF ReadZero
<1> QED BY <1>2, <1>3

\* And what the camera sends.
LEMMA TypeAnswer ==
  ASSUME TypeOK, Answer
  PROVE  TypeOK'
<1>1. /\ Head(todo) \in [in : Int, of : Nat]
      /\ todo' \in Seq([in : Int, of : Nat])
  <2>1. todo \in Seq([in : Int, of : Nat]) /\ todo # <<>>
    BY DEF Answer, TypeOK
  <2>2. todo' = Tail(todo)
    BY DEF Answer
  <2> QED BY <2>1, <2>2, HeadTailProperties
<1>2. Total \in Nat
  BY TotalNat
<1> DEFINE reply == ReplyPackets(Head(todo))
<1>4. reply \in Seq(PacketType)
  <2>1. CASE Head(todo).in < 0
    BY <1>1, <1>2, <2>1 DEF ReplyPackets, PacketType, Header
  <2>2. CASE ~(Head(todo).in < 0)
    <3>1. Head(todo).in \in Nat
      BY <1>1, <2>2
    <3> QED BY <1>1, <1>2, <2>2, <3>1 DEF ReplyPackets, PacketType, Header
  <2> QED BY <2>1, <2>2
<1>5. stream' \in Seq(PacketType)
  <2>1. stream' = stream \/ stream' = stream \o reply
    BY DEF Answer
  <2> HIDE DEF reply
  <2>2. stream \in Seq(PacketType)
    BY DEF TypeOK
  <2> QED BY <1>4, <2>1, <2>2, ConcatProperties
<1>6. zlp' \subseteq Nat
  <2>1. CASE Len(reply) = 2
    <3>1. reply[2] \in PacketType
      BY <1>4, <2>1
    <3>2. reply[2].at \in Nat
      BY <3>1 DEF PacketType
    <3> HIDE DEF reply
    <3>3. zlp' = zlp \/ zlp' = zlp \cup {reply[2].at}
      BY DEF Answer, reply
    <3> QED BY <3>2, <3>3 DEF TypeOK
  <2>2. CASE Len(reply) # 2
    BY <2>2 DEF Answer, TypeOK
  <2> QED BY <2>1, <2>2
<1> QED BY <1>1, <1>5, <1>6 DEF Answer, TypeOK, host, history

-----------------------------------------------------------------------------
\* What is left to write of a packet is never negative: the test "sent too
\* many bytes" of ptp_send_packet cannot be true.
Sending == pc = "write" => sent < PacketLength

\* An attempt starts with a header to write.
LEMMA AttemptSends ==
  ASSUME NEW n, Attempt(n)
  PROVE  Sending'
BY DEF Attempt, Sending, PacketLength, Header

\* Whatever ends an attempt stops writing or starts anew.
LEMMA EndAttemptSends ==
  ASSUME NEW result, EndAttempt(result)
  PROVE  Sending'
<1>1. CASE result = "PTP_COMMAND_IGNORED" /\ attempt = 1
  BY <1>1, AttemptSends DEF EndAttempt
<1>2. CASE ~(result = "PTP_COMMAND_IGNORED" /\ attempt = 1)
  BY <1>2 DEF EndAttempt, Sending
<1> QED BY <1>1, <1>2

\* A write keeps the shapes.
LEMMA TypeWrite ==
  ASSUME TypeOK, Sending, Write
  PROVE  TypeOK' /\ Sending'
<1>1. MaxPacketSize \in Nat \ {0} /\ WaitDefault \in Nat
  BY TransportAssumption
<1>2. PacketLength \in Int /\ sent \in Nat /\ sent < PacketLength
  BY DEF PacketLength, TypeOK, Command, Header, Write, Sending
<1>3. PICK n \in (IF connection_type = "PTP_USB"
                  THEN {Least(PacketLength - sent, MaxPacketSize)}
                  ELSE 1..Least(PacketLength - sent, MaxPacketSize)) :
        \/ /\ sent + n < PacketLength /\ sent' = sent + n
           /\ UNCHANGED <<pc, phase, base, read, read_attempts,
                          wait_for_response, todo, executed>>
        \/ /\ command.out >= 0 /\ phase' = "data" /\ sent' = 0
           /\ UNCHANGED <<pc, base, read, read_attempts, wait_for_response,
                          todo, executed>>
        \/ /\ sent' = sent + n
           /\ todo' = Append(todo, [in |-> command.in, of |-> executed + 1])
           /\ executed' = executed + 1 /\ pc' = "read"
           /\ base' = Position /\ read' = 0 /\ read_attempts' = 0
           /\ wait_for_response' = WaitDefault /\ UNCHANGED phase
  BY DEF Write
<1>4. n \in Nat
  BY <1>1, <1>2, <1>3 DEF Least
<1>5. UNCHANGED <<connection_type, command, attempt, data_length,
                  operation_kill_switch, rc, stream, zlp, calls>>
  BY DEF Write
<1>6. CASE /\ sent + n < PacketLength /\ sent' = sent + n
           /\ UNCHANGED <<pc, phase, base, read, read_attempts,
                          wait_for_response, todo, executed>>
  BY <1>2, <1>4, <1>5, <1>6 DEF TypeOK, Sending, PacketLength
<1>7. CASE /\ command.out >= 0 /\ phase' = "data" /\ sent' = 0
           /\ UNCHANGED <<pc, base, read, read_attempts, wait_for_response,
                          todo, executed>>
  BY <1>5, <1>7 DEF TypeOK, Sending, PacketLength, Command, Header
<1>8. CASE /\ sent' = sent + n
           /\ todo' = Append(todo, [in |-> command.in, of |-> executed + 1])
           /\ executed' = executed + 1 /\ pc' = "read"
           /\ base' = Position /\ read' = 0 /\ read_attempts' = 0
           /\ wait_for_response' = WaitDefault /\ UNCHANGED phase
  <2>1. todo' \in Seq([in : Int, of : Nat])
    <3>1. [in |-> command.in, of |-> executed + 1] \in [in : Int, of : Nat]
      BY DEF TypeOK, Command
    <3> QED BY <1>8, <3>1 DEF TypeOK
  <2>2. Position \in Nat
    BY DEF TypeOK, Position
  <2> QED BY <1>1, <1>2, <1>4, <1>5, <1>8, <2>1, <2>2 DEF TypeOK, Sending
<1> QED BY <1>3, <1>6, <1>7, <1>8

\* A call starts with what the caller asked for.
LEMMA TypeCallStarts ==
  ASSUME TypeOK, Call
  PROVE  TypeOK' /\ Sending'
<1>1. command' \in Command
  BY TransportAssumption DEF Call
<1>2. wait_for_response' \in Nat
  BY TransportAssumption DEF Call
<1>3. data_length' \in Nat
  <2>1. command'.out \in Int
    BY <1>1 DEF Command
  <2>2. data_length' = data_length
          \/ (command'.out >= 0 /\ data_length' = Resized(command'.out))
    BY DEF Call
  <2>3. CASE data_length' = data_length
    BY <2>3 DEF TypeOK
  <2>4. CASE command'.out >= 0 /\ data_length' = Resized(command'.out)
    <3>1. command'.out \in Nat /\ data_length \in Nat
      BY <2>1, <2>4 DEF TypeOK
    <3> QED BY <2>4, <3>1, ResizedCovers
  <2> QED BY <2>2, <2>3, <2>4
<1>4. Attempt(1) /\ Sending'
  BY AttemptSends DEF Call
<1> QED BY <1>1, <1>2, <1>3, <1>4 DEF Call, Attempt, TypeOK, camera

\* What ReadFits rests on.
Inv == TypeOK /\ Sending /\ ReadFits

\* The beginning satisfies it.
LEMMA InvInit ==
  ASSUME Init
  PROVE  Inv
<1>1. command \in Command
  BY DEF Init, Command
<1>2. todo \in Seq([in : Int, of : Nat]) /\ stream \in Seq(PacketType)
  BY DEF Init
<1>3. BufferSize \in Nat
  BY TransportAssumption
<1>4. data_length \in Nat /\ read = 0
  BY <1>3 DEF Init
<1>5. TypeOK
  <2>1. zlp \subseteq Nat /\ operation_kill_switch \in BOOLEAN
    BY DEF Init
  <2>2. /\ sent \in Nat /\ base \in Nat /\ read \in Nat
        /\ read_attempts \in Nat /\ wait_for_response \in Nat
        /\ calls \in Nat /\ executed \in Nat
        /\ attempt \in {1, 2}
    BY DEF Init
  <2>3. /\ pc \in {"idle", "write", "read"} /\ phase \in {"command", "data"}
        /\ rc \in {"none", "PTP_OK", "PTP_IO_ERR", "PTP_COMMAND_IGNORED"}
    BY DEF Init
  <2>4. connection_type \in {"PTP_USB", "PTP_IP_USB"}
    BY TransportAssumption DEF Init
  <2> QED BY <1>1, <1>2, <1>4, <2>1, <2>2, <2>3, <2>4 DEF TypeOK
<1>6. Sending
  BY DEF Init, Sending
<1> QED BY <1>4, <1>5, <1>6 DEF Inv, ReadFits

\* Every step keeps it.
LEMMA InvNext ==
  ASSUME Inv, [Next]_vars
  PROVE  Inv'
<1>1. TypeOK /\ Sending /\ ReadFits /\ Sizes
  BY DEF Inv, TypeOK, Sizes
<1>2. CASE Call
  <2>1. read' = read /\ data_length' >= data_length
    <3>1. command'.out \in Int
      BY <1>2, TransportAssumption DEF Call, Command
    <3> QED BY <1>1, <1>2, <3>1, ResizedCovers DEF Call, Sizes
  <2>2. TypeOK' /\ Sending'
    BY <1>1, <1>2, TypeCallStarts
  <2> QED BY <1>1, <2>1, <2>2 DEF Inv, ReadFits, TypeOK
<1>3. CASE Write
  <2>1. TypeOK' /\ Sending'
    BY <1>1, <1>3, TypeWrite
  <2>2. (read' = read \/ read' = 0) /\ data_length' = data_length
    BY <1>3 DEF Write
  <2> QED BY <1>1, <2>1, <2>2 DEF Inv, ReadFits, TypeOK
<1>4. CASE WriteError
  <2>1. Control' /\ Sending'
    BY <1>1, <1>4, TypeEndAttempt, EndAttemptSends DEF WriteError
  <2> QED BY <1>1, <1>4, <2>1
       DEF WriteError, Inv, ReadFits, TypeOK, Control, camera, history
<1>5. CASE Read
  <2>1. PICK n \in Available : ReadBytes(n)
    BY <1>5 DEF Read
  <2>2. n \in 1..MaxPacketSize /\ MaxPacketSize \in Nat
    BY <1>1, TransferBounded, TransportAssumption
  <2>3. TypeOK'
    BY <1>1, <2>1, <2>2, TypeReadBytes
  <2>4. read' <= data_length'
    BY <1>1, <2>1, <2>2, RoomCovers DEF ReadBytes, Sizes
  <2>5. Sending'
    <3>1. CASE UNCHANGED pc
      BY <1>5, <3>1 DEF Read, Sending
    <3>2. CASE \E d : EndAttempt(d)
      BY <3>2, EndAttemptSends
    <3> QED BY <2>1, <3>1, <3>2 DEF ReadBytes
  <2> QED BY <2>3, <2>4, <2>5 DEF Inv, ReadFits
<1>6. CASE ReadError \/ ReadZero
  <2>1. TypeOK'
    <3>1. CASE ReadError
      <4>1. zlp' \subseteq Nat /\ Nothing("PTP_IO_ERR")
        BY <1>1, <3>1 DEF ReadError, TypeOK
      <4> QED BY <1>1, <4>1, TypeNothing
    <3>2. CASE ReadZero
      BY <1>1, <3>2, TypeReadZero
    <3> QED BY <1>6, <3>1, <3>2
  <2>2. read' = read /\ data_length' = Room
    BY <1>6 DEF ReadError, ReadZero, Nothing
  <2>3. Sending'
    <3>1. CASE UNCHANGED pc
      BY <1>6, <3>1 DEF ReadError, ReadZero, Sending
    <3>2. CASE \E d : EndAttempt(d)
      BY <3>2, EndAttemptSends
    <3> QED BY <1>6, <3>1, <3>2 DEF ReadError, ReadZero, Nothing
  <2> QED BY <1>1, <2>1, <2>2, <2>3, RoomCovers DEF Inv, ReadFits, Sizes
<1>7. CASE Answer
  <2>1. TypeOK'
    BY <1>1, <1>7, TypeAnswer
  <2> QED BY <1>1, <1>7, <2>1
       DEF Answer, host, Inv, ReadFits, Sending, PacketLength
<1>8. CASE UNCHANGED vars
  BY <1>1, <1>8
     DEF vars, host, camera, history, Inv, ReadFits, Sending, PacketLength,
         TypeOK
<1> QED BY <1>2, <1>3, <1>4, <1>5, <1>6, <1>7, <1>8 DEF Next, Step, Finished

\* The shapes of the variables, for every size and every fault.
THEOREM TypeCorrect == Spec => []TypeOK
<1>1. Inv /\ [Next]_vars => Inv'
  BY InvNext
<1>2. Inv => TypeOK
  BY DEF Inv
<1> QED BY <1>1, <1>2, InvInit, PTL DEF Spec

\* Whatever the packet size, the buffer and the camera, no read goes past the
\* end of r->data.
THEOREM ReadFitsHolds == Spec => []ReadFits
<1>1. Inv /\ [Next]_vars => Inv'
  BY InvNext
<1>2. Inv => ReadFits
  BY DEF Inv
<1> QED BY <1>1, <1>2, InvInit, PTL DEF Spec
-----------------------------------------------------------------------------
(* The answer and the question.                                            *)
(*                                                                         *)
(* WholeReply, NoRepeat and ResentOnlyIfIgnored need a camera and a host   *)
(* that keep their part: Patient.  A camera that stalls past the time-out, *)
(* or a transfer that fails in the middle, leaves bytes of one reply for   *)
(* the next call, or makes the code send a command again.  An empty packet *)
(* costs a try.  With the one try that ptp_new gives (WaitDefault = 1),    *)
(* the response behind it counts as ignored, which the run empty_packet    *)
(* shows; so with one try Patient assumes that there are none.  With two   *)
(* or more there may be any.                                               *)
Patient ==
  /\ Faults \subseteq {"ignore", "zlp"}
  /\ WaitDefault = 1 => "zlp" \notin Faults

\* The commands that were answered.
Answers == {stream[i].of : i \in 1..Len(stream)}

\* The packets of s follow each other and end at `end'; their commands are
\* among the first `last'.
InOrder(s, end, last) ==
  /\ \A i \in 1..Len(s) :
       /\ s[i].length >= Header /\ s[i].of <= last
       /\ s[i].at + s[i].length <= end
  /\ \A i, j \in 1..Len(s) :
       i < j => s[i].at + s[i].length <= s[j].at

\* What is on the wire is in order.
StreamOK == InOrder(stream, Total, executed)

\* Nothing has come: the camera has the command still, or swallowed it.
Unanswered ==
  /\ read = 0 /\ base = Total /\ zlp = {}
  /\ \A i \in 1..Len(stream) : stream[i].of # executed
  /\ \/ todo = <<>>
     \/ /\ todo = <<[in |-> command.in, of |-> executed]>>
        /\ wait_for_response = WaitDefault /\ read_attempts = 0

\* Packet k is the first of the reply to the last command.
First(k) ==
  /\ k \in 1..Len(stream)
  /\ stream[k].at = base /\ stream[k].of = executed
  /\ \A i \in 1..Len(stream) : i < k => stream[i].of # executed

\* It is a response.
Alone(k) ==
  /\ k = Len(stream) /\ zlp = {}
  /\ stream[k].type = "response"

\* It is a data packet, with the response behind it and perhaps an empty
\* USB packet between them.
Paired(k) ==
  /\ k + 1 = Len(stream)
  /\ stream[k].type = "data"
  /\ stream[k + 1].type = "response" /\ stream[k + 1].of = executed
  /\ stream[k + 1].at = base + stream[k].length
  /\ stream[k + 1].length = Header
  /\ zlp # {} =>
       /\ zlp = {base + stream[k].length} /\ connection_type = "PTP_USB"
       /\ "zlp" \in Faults
       /\ read <= stream[k].length
       /\ wait_for_response = WaitDefault /\ read_attempts = 0

Reply(k) == First(k) /\ (Alone(k) \/ Paired(k))

\* The whole reply is on the wire and not yet read, with a try left.
Answered ==
  /\ todo = <<>> /\ Position < Total
  /\ read_attempts > 0 => wait_for_response > 0
  /\ \E k \in 1..Len(stream) : Reply(k)

\* What the loop may find.
Reading == pc = "read" => Unanswered \/ Answered

\* Outside the loop nothing is left over.
Resting == pc # "read" => Position = Total /\ zlp = {} /\ todo = <<>>

\* A call under way without an answer has one still to come.
Asking ==
  /\ Cardinality(Answers) <= calls
  /\ pc = "write" \/ (pc = "read" /\ executed \notin Answers)
       => Cardinality(Answers) < calls

\* What the three properties rest on.
ReplyInv == StreamOK /\ Reading /\ Resting /\ Asking /\ WholeReply
-----------------------------------------------------------------------------
\* A packet of the stream has natural numbers for its place and length.
LEMMA PacketShape ==
  ASSUME TypeOK, NEW i \in 1..Len(stream)
  PROVE  /\ stream[i].at \in Nat /\ stream[i].length \in Nat
         /\ stream[i].of \in Nat
<1>1. stream[i] \in PacketType
  BY DEF TypeOK
<1> QED BY <1>1 DEF PacketType

\* The header read where packet k starts is that of packet k.
LEMMA HeaderThere ==
  ASSUME TypeOK, StreamOK, NEW k \in 1..Len(stream), NEW o \in Nat,
         stream[k].at = base + o
  PROVE  HeaderAt(o) = {stream[k]}
<1> DEFINE here == {i \in 1..Len(stream) : stream[i].at = base + o}
<1>1. ASSUME NEW i \in 1..Len(stream), i # k
      PROVE  stream[i].at # stream[k].at
  <2>1. /\ stream[i].at \in Nat /\ stream[i].length \in Nat
        /\ stream[k].at \in Nat /\ stream[k].length \in Nat
    BY PacketShape
  <2>2. stream[i].length >= 12 /\ stream[k].length >= 12
    BY DEF StreamOK, InOrder, Header
  <2>3. CASE i < k
    <3>1. stream[i].at + stream[i].length <= stream[k].at
      BY <2>3 DEF StreamOK, InOrder
    <3> QED BY <2>1, <2>2, <3>1
  <2>4. CASE k < i
    <3>1. stream[k].at + stream[k].length <= stream[i].at
      BY <2>4 DEF StreamOK, InOrder
    <3> QED BY <2>1, <2>2, <3>1
  <2>5. Len(stream) \in Nat
    BY DEF TypeOK
  <2> QED BY <1>1, <2>3, <2>4, <2>5
<1>2. here = {k}
  BY <1>1
<1>3. HeaderAt(o) = {stream[i] : i \in here}
  BY <1>2 DEF HeaderAt
<1> QED BY <1>2, <1>3

\* A reply ends where the stream ends.
LEMMA ReplyEnds ==
  ASSUME TypeOK, NEW k \in 1..Len(stream), Reply(k)
  PROVE  /\ Alone(k) => Total = base + stream[k].length
         /\ Paired(k) => Total = base + stream[k].length + Header
<1>1. Len(stream) \in Nat /\ stream # <<>>
  BY DEF TypeOK
<1>2. Total = stream[Len(stream)].at + stream[Len(stream)].length
  BY <1>1 DEF Total
<1>3. stream[k].at = base
  BY DEF Reply, First
<1>4. CASE Alone(k)
  <2>1. k = Len(stream) /\ ~Paired(k)
    BY <1>1, <1>4 DEF Alone, Paired
  <2> QED BY <1>2, <1>3, <2>1
<1>5. CASE Paired(k)
  <2>1. k + 1 = Len(stream) /\ ~Alone(k)
    BY <1>1, <1>5 DEF Alone, Paired
  <2>2. /\ stream[k + 1].at = base + stream[k].length
        /\ stream[k + 1].length = Header
    BY <1>5 DEF Paired
  <2> QED BY <1>2, <2>1, <2>2
<1> QED BY <1>4, <1>5

\* The loop goes on until it has the reply, and then it is satisfied.
LEMMA DecideOnReply ==
  ASSUME TypeOK, StreamOK, NEW k \in 1..Len(stream), Reply(k),
         NEW n \in Nat, base + n <= Total, NEW d \in Decide(n)
  PROVE  \/ d = "more" /\ base + n < Total
         \/ d = "PTP_OK" /\ base + n = Total
<1>1. base \in Nat /\ stream[k].length \in Nat /\ Header = 12
  BY PacketShape DEF TypeOK, Header
<1>2. stream[k].length >= 12
  BY DEF StreamOK, InOrder, Header
<1>3. HeaderAt(0) = {stream[k]}
  <2>1. stream[k].at = base + 0
    BY <1>1 DEF Reply, First
  <2> QED BY <2>1, HeaderThere
<1>4. CASE Alone(k)
  <2>1. Total = base + stream[k].length /\ stream[k].type = "response"
    BY <1>4, ReplyEnds DEF Alone
  <2>2. Decide(n) = IF n < stream[k].length THEN {"more"} ELSE {"PTP_OK"}
    <3>1. CASE n < Header
      BY <1>1, <1>2, <3>1 DEF Decide
    <3>2. CASE ~(n < Header)
      BY <1>3, <2>1, <3>2 DEF Decide
    <3> QED BY <3>1, <3>2
  <2>3. CASE n < stream[k].length
    <3>1. d = "more"
      BY <2>2, <2>3
    <3> QED BY <1>1, <2>1, <2>3, <3>1
  <2>4. CASE ~(n < stream[k].length)
    <3>1. d = "PTP_OK"
      BY <2>2, <2>4
    <3> QED BY <1>1, <2>1, <2>4, <3>1
  <2> QED BY <2>3, <2>4
<1>5. CASE Paired(k)
  <2>1. Total = base + stream[k].length + 12
    BY <1>5, ReplyEnds DEF Header
  <2>2. stream[k].type = "data" /\ k + 1 \in 1..Len(stream)
    <3>1. Len(stream) \in Nat
      BY DEF TypeOK
    <3> QED BY <1>5, <3>1 DEF Paired
  <2>3. stream[k + 1].type = "response" /\ stream[k + 1].length = 12
    BY <1>5 DEF Paired, Header
  <2>4. HeaderAt(stream[k].length) = {stream[k + 1]}
    <3>1. stream[k + 1].at = base + stream[k].length
      BY <1>5 DEF Paired
    <3> QED BY <1>1, <2>2, <3>1, HeaderThere
  <2>5. CASE n < stream[k].length + 12
    <3>1. d = "more"
      <4>1. CASE n < Header
        BY <4>1 DEF Decide
      <4>2. CASE ~(n < Header)
        <5>1. n < stream[k].length \/ stream[k].length + Header > n
          BY <1>1, <2>5
        <5> QED BY <1>3, <2>2, <4>2, <5>1 DEF Decide
      <4> QED BY <4>1, <4>2
    <3> QED BY <1>1, <2>1, <2>5, <3>1
  <2>6. CASE n = stream[k].length + 12
    <3>1. ~(n < Header) /\ ~(n < stream[k].length)
      BY <1>1, <2>6
    <3>2. ~(stream[k].length + Header > n)
      BY <1>1, <2>6
    <3>3. d = "PTP_OK"
      BY <1>3, <2>2, <2>3, <2>4, <2>6, <3>1, <3>2 DEF Decide
    <3> QED BY <1>1, <2>1, <2>6, <3>3
  <2> QED BY <1>1, <2>1, <2>5, <2>6
<1> QED BY <1>4, <1>5 DEF Reply

\* A transfer never reaches past what the camera has sent.
LEMMA TransferThere ==
  ASSUME TypeOK, StreamOK, NEW n \in Available
  PROVE  Position < Total /\ Position + n <= Total
<1>1. Position \in Nat /\ Total \in Nat /\ MaxPacketSize \in Nat
  BY TotalNat, TransportAssumption DEF Position, TypeOK
<1>2. ~(Position >= Total)
  BY DEF Available
<1>3. CASE connection_type = "PTP_IP_USB"
  <2>1. n \in 1..Least(Total - Position, MaxPacketSize)
    BY <1>2, <1>3 DEF Available
  <2> QED BY <1>1, <1>2, <2>1 DEF Least
<1>4. CASE connection_type = "PTP_USB"
  <2>1. PICK i \in 1..Len(stream) :
          n = Least(stream[i].at + stream[i].length - Position,
                    MaxPacketSize)
    BY <1>2, <1>4 DEF Available
  <2>2. stream[i].at \in Nat /\ stream[i].length \in Nat
    BY PacketShape
  <2>3. stream[i].at + stream[i].length <= Total
    BY DEF StreamOK, InOrder
  <2> QED BY <1>1, <1>2, <2>1, <2>2, <2>3 DEF Least
<1> QED BY <1>3, <1>4 DEF TypeOK

\* On USB a transfer ends with the packet it is in.
LEMMA TransferStops ==
  ASSUME TypeOK, StreamOK, connection_type = "PTP_USB",
         NEW k \in 1..Len(stream), stream[k].at = base,
         read < stream[k].length, NEW n \in Available
  PROVE  read + n <= stream[k].length
<1>1. /\ base \in Nat /\ read \in Nat /\ MaxPacketSize \in Nat
      /\ stream[k].at \in Nat /\ stream[k].length \in Nat
  BY PacketShape, TransportAssumption DEF TypeOK
<1>2. ~(Position >= Total)
  BY DEF Available
<1>3. PICK i \in 1..Len(stream) :
        /\ stream[i].at <= Position
        /\ Position < stream[i].at + stream[i].length
        /\ n = Least(stream[i].at + stream[i].length - Position,
                     MaxPacketSize)
  BY <1>2 DEF Available
<1>4. stream[i].at \in Nat /\ stream[i].length \in Nat
  BY PacketShape
<1>5. i = k
  <2>1. Len(stream) \in Nat
    BY DEF TypeOK
  <2>2. ~(i < k)
    <3>1. i < k => stream[i].at + stream[i].length <= stream[k].at
      BY DEF StreamOK, InOrder
    <3> QED BY <1>1, <1>3, <1>4, <3>1 DEF Position
  <2>3. ~(k < i)
    <3>1. k < i => stream[k].at + stream[k].length <= stream[i].at
      BY DEF StreamOK, InOrder
    <3> QED BY <1>1, <1>3, <1>4, <3>1 DEF Position
  <2> QED BY <2>1, <2>2, <2>3
<1> QED BY <1>1, <1>3, <1>5 DEF Least, Position
-----------------------------------------------------------------------------
\* What the steps that send nothing leave as it was.
LEMMA StreamKept ==
  ASSUME TypeOK, StreamOK, stream' = stream, executed' \in Nat,
         executed' >= executed
  PROVE  StreamOK' /\ Answers' = Answers /\ Total' = Total
<1>1. Total' = Total /\ Answers' = Answers
  BY DEF Total, Answers
<1>2. ASSUME NEW i \in 1..Len(stream)
      PROVE  stream[i].of <= executed'
  <2>1. stream[i].of <= executed /\ stream[i].of \in Nat
    BY PacketShape DEF StreamOK, InOrder
  <2> QED BY <2>1 DEF TypeOK
<1> QED BY <1>1, <1>2 DEF StreamOK, InOrder

\* How an attempt ends.
LEMMA HowItEnds ==
  ASSUME NEW result, EndAttempt(result)
  PROVE  /\ rc' = result
         /\ pc' = "idle" \/ (pc' = "write" /\ result = "PTP_COMMAND_IGNORED")
BY DEF EndAttempt, Attempt

\* The end of an attempt without an answer leaves nothing behind.
LEMMA EndsUnanswered ==
  ASSUME TypeOK, ReplyInv, pc = "read", Unanswered, todo = <<>>,
         NEW result \in {"PTP_IO_ERR", "PTP_COMMAND_IGNORED"},
         EndAttempt(result),
         UNCHANGED <<base, read, todo, stream, zlp, executed, calls>>
  PROVE  ReplyInv'
<1>1. StreamOK' /\ Answers' = Answers /\ Total' = Total
  BY StreamKept DEF ReplyInv, TypeOK
<1>2. rc' # "PTP_OK" /\ pc' # "read"
  BY HowItEnds
<1>3. Position' = Total' /\ zlp' = {} /\ todo' = <<>>
  BY <1>1, TotalNat DEF Unanswered, Position
<1>4. executed \notin Answers
  BY DEF Unanswered, Answers
<1>5. Asking'
  <2>1. Cardinality(Answers) < calls /\ Cardinality(Answers) <= calls
    BY <1>4 DEF ReplyInv, Asking
  <2> QED BY <1>1, <2>1 DEF Asking
<1> QED BY <1>1, <1>2, <1>3, <1>5
     DEF ReplyInv, Reading, Resting, WholeReply

\* Nor does a try used up before the answer.
LEMMA WaitsUnanswered ==
  ASSUME TypeOK, ReplyInv, pc = "read", Unanswered, todo = <<>>,
         UNCHANGED <<pc, base, read, todo, stream, zlp, executed, calls>>
  PROVE  ReplyInv'
<1>1. StreamOK' /\ Answers' = Answers /\ Total' = Total
  BY StreamKept DEF ReplyInv, TypeOK
<1>2. Unanswered'
  BY <1>1 DEF Unanswered
<1>3. Asking'
  BY <1>1 DEF ReplyInv, Asking
<1> QED BY <1>1, <1>2, <1>3 DEF ReplyInv, Reading, Resting, WholeReply

\* There are finitely many answers.
LEMMA AnswersFinite ==
  ASSUME TypeOK
  PROVE  IsFiniteSet(Answers) /\ Cardinality(Answers) \in Nat
<1> DEFINE f == [i \in 1..Len(stream) |-> stream[i].of]
<1>1. IsFiniteSet(1..Len(stream))
  BY FS_Interval DEF TypeOK
<1>2. Answers = {f[i] : i \in 1..Len(stream)}
  BY DEF Answers
<1>3. f \in Surjection(1..Len(stream), Answers)
  BY <1>2 DEF Surjection
<1>4. IsFiniteSet(Answers)
  BY <1>1, <1>3, FS_Surjection
<1> QED BY <1>4, FS_CardinalityType

\* A call starts with everything read.
LEMMA ReplyCall ==
  ASSUME TypeOK, ReplyInv, Call
  PROVE  ReplyInv'
<1>1. /\ UNCHANGED <<base, read, todo, stream, zlp, executed>>
      /\ pc = "idle" /\ pc' = "write" /\ calls' = calls + 1
  BY DEF Call, Attempt, camera
<1>2. StreamOK' /\ Answers' = Answers /\ Total' = Total
  BY <1>1, StreamKept DEF ReplyInv, TypeOK
<1>3. Resting'
  BY <1>1, <1>2 DEF ReplyInv, Resting, Position
<1>4. Asking'
  <2>1. Cardinality(Answers) <= calls /\ Cardinality(Answers) \in Nat
    BY AnswersFinite DEF ReplyInv, Asking
  <2> QED BY <1>1, <1>2, <2>1 DEF Asking, TypeOK
<1> QED BY <1>1, <1>2, <1>3, <1>4 DEF ReplyInv, Reading, WholeReply

\* A command sent is a question asked from where everything is read.
LEMMA ReplyWrite ==
  ASSUME TypeOK, ReplyInv, Write
  PROVE  ReplyInv'
<1>1. UNCHANGED <<command, stream, zlp, calls>> /\ pc = "write"
  BY DEF Write
<1>2. \/ UNCHANGED <<pc, base, read, todo, executed>>
      \/ /\ todo' = Append(todo, [in |-> command.in, of |-> executed + 1])
         /\ executed' = executed + 1 /\ pc' = "read"
         /\ base' = Position /\ read' = 0
         /\ read_attempts' = 0 /\ wait_for_response' = WaitDefault
  BY DEF Write
<1>3. /\ StreamOK /\ Position = Total /\ zlp = {} /\ todo = <<>>
      /\ Cardinality(Answers) < calls /\ Cardinality(Answers) <= calls
  BY <1>1 DEF ReplyInv, Resting, Asking
<1>4. executed' \in Nat /\ executed' >= executed
  BY <1>2 DEF TypeOK
<1>5. StreamOK' /\ Answers' = Answers /\ Total' = Total
  BY <1>1, <1>3, <1>4, StreamKept
<1>6. Asking'
  BY <1>1, <1>3, <1>5 DEF Asking
<1>7. CASE UNCHANGED <<pc, base, read, todo, executed>>
  <2>1. Position' = Total'
    BY <1>3, <1>5, <1>7 DEF Position
  <2> QED BY <1>1, <1>3, <1>5, <1>6, <1>7, <2>1
       DEF ReplyInv, Reading, Resting, WholeReply
<1>8. CASE /\ todo' = Append(todo, [in |-> command.in, of |-> executed + 1])
           /\ executed' = executed + 1 /\ pc' = "read"
           /\ base' = Position /\ read' = 0
           /\ read_attempts' = 0 /\ wait_for_response' = WaitDefault
  <2>1. todo' = <<[in |-> command'.in, of |-> executed']>>
    BY <1>1, <1>3, <1>8
  <2>2. ASSUME NEW i \in 1..Len(stream)
        PROVE  stream[i].of # executed'
    <3>1. stream[i].of <= executed /\ stream[i].of \in Nat
      BY <1>3, PacketShape DEF StreamOK, InOrder
    <3> QED BY <1>8, <3>1 DEF TypeOK
  <2>3. Unanswered'
    BY <1>1, <1>3, <1>5, <1>8, <2>1, <2>2 DEF Unanswered
  <2> QED BY <1>5, <1>6, <1>8, <2>3
       DEF ReplyInv, Reading, Resting, WholeReply
<1> QED BY <1>2, <1>7, <1>8

\* A packet that starts at the end keeps them in order.
LEMMA InOrderGrows ==
  ASSUME NEW s \in Seq(PacketType), NEW end \in Nat, NEW last \in Nat,
         InOrder(s, end, last),
         NEW p \in PacketType, p.at = end, p.length >= Header, p.of <= last
  PROVE  /\ Append(s, p) \in Seq(PacketType)
         /\ InOrder(Append(s, p), end + p.length, last)
<1> DEFINE t == Append(s, p)
           N == Len(s)
<1>1. /\ N \in Nat /\ Len(t) = N + 1 /\ t[N + 1] = p
      /\ \A i \in 1..N : t[i] = s[i]
      /\ t \in Seq(PacketType)
  OBVIOUS
<1> HIDE DEF t
<1>2. p.at \in Nat /\ p.length \in Nat
  BY DEF PacketType
<1>3. ASSUME NEW i \in 1..N
      PROVE  /\ t[i].at \in Nat /\ t[i].length \in Nat
             /\ t[i].length >= Header /\ t[i].of <= last
             /\ t[i].at + t[i].length <= end
  <2>1. s[i] \in PacketType /\ t[i] = s[i]
    BY <1>1
  <2> QED BY <2>1 DEF InOrder, PacketType
<1>4. ASSUME NEW i \in 1..Len(t)
      PROVE  /\ t[i].length >= Header /\ t[i].of <= last
             /\ t[i].at + t[i].length <= end + p.length
  <2>1. CASE i \in 1..N
    <3>1. /\ t[i].at \in Nat /\ t[i].length \in Nat
          /\ t[i].length >= Header /\ t[i].of <= last
          /\ t[i].at + t[i].length <= end
      BY <1>3, <2>1
    <3> QED BY <1>2, <3>1
  <2>2. CASE i = N + 1
    <3>1. t[i] = p
      BY <1>1, <2>2
    <3> QED BY <1>2, <3>1
  <2> QED BY <1>1, <2>1, <2>2
<1>5. ASSUME NEW i \in 1..Len(t), NEW j \in 1..Len(t), i < j
      PROVE  t[i].at + t[i].length <= t[j].at
  <2>1. i \in 1..N
    BY <1>1, <1>5
  <2>2. CASE j \in 1..N
    <3>1. t[i] = s[i] /\ t[j] = s[j]
      BY <1>1, <2>1, <2>2
    <3> QED BY <1>5, <2>1, <2>2, <3>1 DEF InOrder
  <2>3. CASE j = N + 1
    <3>1. t[j] = p /\ t[i].at + t[i].length <= end
      BY <1>1, <1>3, <2>1, <2>3
    <3> QED BY <3>1
  <2> QED BY <1>1, <2>2, <2>3
<1> QED BY <1>1, <1>4, <1>5 DEF InOrder, t

\* What the camera sends is the answer to the question that is open.
LEMMA ReplyAnswer ==
  ASSUME TypeOK, ReplyInv, Answer
  PROVE  ReplyInv'
<1> DEFINE reply == ReplyPackets(Head(todo))
<1>1. /\ UNCHANGED <<pc, command, base, read, read_attempts,
                     wait_for_response, rc, connection_type, calls, executed>>
      /\ todo # <<>> /\ todo' = Tail(todo)
  BY DEF Answer, host, history
<1>2. StreamOK /\ pc = "read"
  BY <1>1 DEF ReplyInv, Resting
<1>3. Unanswered /\ todo = <<[in |-> command.in, of |-> executed]>>
  BY <1>1, <1>2 DEF ReplyInv, Reading, Answered, Unanswered
<1>4. todo' = <<>> /\ Head(todo) = [in |-> command.in, of |-> executed]
  BY <1>1, <1>3
<1>5. CASE UNCHANGED <<stream, zlp>>
  <2>1. StreamOK' /\ Answers' = Answers /\ Total' = Total
    BY <1>1, <1>2, <1>5, StreamKept DEF TypeOK
  <2>2. Unanswered'
    BY <1>1, <1>3, <1>4, <1>5, <2>1 DEF Unanswered
  <2>3. Asking'
    BY <1>1, <2>1 DEF ReplyInv, Asking
  <2> QED BY <1>1, <1>2, <2>1, <2>2, <2>3
       DEF ReplyInv, Reading, Resting, WholeReply
<1>6. CASE /\ stream' = stream \o reply
           /\ zlp' = IF /\ "zlp" \in Faults /\ connection_type = "PTP_USB"
                        /\ Len(reply) = 2
                        /\ reply[1].length % MaxPacketSize = 0
                     THEN zlp \cup {reply[2].at} ELSE zlp
  <2> DEFINE r == [at |-> Total, length |-> Header, type |-> "response",
                   of |-> executed]
             d == [at |-> Total, length |-> Header + command.in,
                   type |-> "data", of |-> executed]
             e == [at |-> Total + (Header + command.in), length |-> Header,
                   type |-> "response", of |-> executed]
  <2>0. PICK N \in Nat : N = Len(stream)
    BY DEF TypeOK
  <2>1. /\ Total \in Nat /\ base = Total /\ read = 0 /\ zlp = {}
        /\ executed \in Nat /\ N \in Nat /\ stream \in Seq(PacketType)
        /\ command.in \in Int
    BY <1>3, <2>0, TotalNat DEF Unanswered, TypeOK, Command
  <2>2. reply = IF command.in < 0 THEN <<r>> ELSE <<d, e>>
    BY <1>4 DEF ReplyPackets
  <2>3. ASSUME NEW i \in 1..N
        PROVE  /\ stream[i].at \in Nat /\ stream[i].length \in Nat
               /\ stream[i].length >= Header /\ stream[i].of <= executed
               /\ stream[i].at + stream[i].length <= Total
               /\ stream[i].of # executed
    BY <1>2, <1>3, <2>0, PacketShape DEF StreamOK, InOrder, Unanswered
  <2>4. ASSUME NEW i \in 1..N, NEW j \in 1..N, i < j
        PROVE  stream[i].at + stream[i].length <= stream[j].at
    BY <1>2, <2>0, <2>4 DEF StreamOK, InOrder
  <2>5. StreamOK' /\ Answered' /\ Answers' = Answers \cup {executed}
    <3> HIDE DEF reply
    <3>1. CASE command.in < 0
      <4> DEFINE s == Append(stream, r)
      <4>1. stream' = s
        BY <1>6, <2>1, <2>2, <3>1
      <4>2. /\ Len(s) = N + 1 /\ s[N + 1] = r
            /\ \A i \in 1..N : s[i] = stream[i]
            /\ \A i \in 1..(N + 1) : i \in 1..N \/ i = N + 1
        BY <2>0, <2>1
      <4>3. zlp' = {}
        BY <1>6, <2>1, <2>2, <3>1
      <4> HIDE DEF s
      <4>4. s # <<>>
        BY <4>2, <2>1
      <4>5. Total' = Total + Header
        BY <4>1, <4>2, <4>4 DEF Total
      <4>6. StreamOK'
        <5>1. r \in PacketType /\ r.at = Total /\ r.length = Header
              /\ r.of = executed /\ Header >= Header
          BY <2>1 DEF PacketType, Header
        <5>2. InOrder(stream, Total, executed)
          BY <1>2 DEF StreamOK
        <5> HIDE DEF r
        <5>3. InOrder(s, Total + Header, executed)
          BY <2>1, <5>1, <5>2, InOrderGrows DEF s
        <5> QED BY <1>1, <4>1, <4>5, <5>3 DEF StreamOK
      <4>7. First(N + 1)'
        <5>1. /\ (N + 1) \in 1..Len(s)
              /\ \A i \in 1..Len(s) : i < N + 1 => i \in 1..N
          BY <2>0, <4>2
        <5>2. stream' = s /\ base' = base /\ executed' = executed
          BY <1>1, <4>1
        <5>3. s[N + 1].at = base /\ s[N + 1].of = executed
          BY <2>1, <4>2
        <5>4. ASSUME NEW i \in 1..Len(s), i < N + 1
              PROVE  s[i].of # executed
          <6>1. i \in 1..N
            BY <5>1, <5>4
          <6>2. s[i] = stream[i] /\ stream[i].of # executed
            BY <2>3, <4>2, <6>1
          <6> QED BY <6>2
        <5> QED BY <5>1, <5>2, <5>3, <5>4 DEF First
      <4>8. Alone(N + 1)'
        BY <4>1, <4>2, <4>3 DEF Alone
      <4>9. Position' < Total'
        BY <1>1, <2>1, <4>5 DEF Position, Header
      <4>10. Answered'
        <5>1. (N + 1) \in 1..Len(stream')
          BY <2>1, <4>1, <4>2
        <5>2. read_attempts' = 0
          BY <1>1, <1>3 DEF Unanswered
        <5> QED BY <1>4, <4>7, <4>8, <4>9, <5>1, <5>2 DEF Answered, Reply
      <4>11. Answers' = Answers \cup {executed}
        <5>1. Answers' = {s[i].of : i \in 1..(N + 1)}
          BY <4>1, <4>2 DEF Answers
        <5>2. s[N + 1].of = executed
          BY <4>2
        <5>3. (N + 1) \in 1..(N + 1) /\ 1..N \subseteq 1..(N + 1)
          BY <2>0
        <5>4. {s[i].of : i \in 1..(N + 1)}
                = {stream[i].of : i \in 1..N} \cup {executed}
          BY <4>2, <5>2, <5>3, Zenon
        <5> QED BY <2>0, <5>1, <5>4 DEF Answers
      <4> QED BY <4>6, <4>10, <4>11
    <3>2. CASE ~(command.in < 0)
      <4> DEFINE s == Append(Append(stream, d), e)
      <4>1. stream' = s
        BY <1>6, <2>1, <2>2, <3>2
      <4>2. /\ Len(s) = N + 2 /\ s[N + 1] = d /\ s[N + 2] = e
            /\ \A i \in 1..N : s[i] = stream[i]
            /\ \A i \in 1..(N + 2) : i \in 1..N \/ i = N + 1 \/ i = N + 2
        BY <2>0, <2>1
      <4>3. /\ zlp' = {} \/ zlp' = {Total + (Header + command.in)}
            /\ zlp' # {} => /\ "zlp" \in Faults
                            /\ connection_type = "PTP_USB"
        BY <1>6, <2>1, <2>2, <3>2
      <4> HIDE DEF s
      <4>4. s # <<>>
        BY <4>2, <2>1
      <4>5. Total' = Total + (Header + command.in) + Header
        BY <4>1, <4>2, <4>4 DEF Total
      <4>6. StreamOK'
        <5>1. /\ d \in PacketType /\ d.at = Total /\ d.length >= Header
              /\ d.length = Header + command.in /\ d.of = executed
          BY <2>1, <3>2 DEF PacketType, Header
        <5>2. /\ e \in PacketType /\ e.at = Total + (Header + command.in)
              /\ e.length = Header /\ e.of = executed /\ Header >= Header
              /\ Total + (Header + command.in) \in Nat
          BY <2>1, <3>2 DEF PacketType, Header
        <5>3. InOrder(stream, Total, executed)
          BY <1>2 DEF StreamOK
        <5> HIDE DEF d, e
        <5>4. /\ Append(stream, d) \in Seq(PacketType)
              /\ InOrder(Append(stream, d), Total + (Header + command.in),
                         executed)
          BY <2>1, <5>1, <5>3, InOrderGrows
        <5>5. InOrder(s, Total + (Header + command.in) + Header, executed)
          <6> DEFINE t == Append(stream, d)
                     end == Total + (Header + command.in)
          <6>1. t \in Seq(PacketType) /\ InOrder(t, end, executed)
            BY <5>4
          <6>2. end \in Nat /\ e.at = end /\ e.of <= executed
            BY <2>1, <5>2
          <6>3. s = Append(t, e)
            BY DEF s
          <6> HIDE DEF t, end
          <6>4. InOrder(Append(t, e), end + e.length, executed)
            BY <2>1, <5>2, <6>1, <6>2, InOrderGrows
          <6> QED BY <5>2, <6>3, <6>4 DEF end
        <5> QED BY <1>1, <4>1, <4>5, <5>5 DEF StreamOK
      <4>7. First(N + 1)'
        <5>1. /\ (N + 1) \in 1..Len(s)
              /\ \A i \in 1..Len(s) : i < N + 1 => i \in 1..N
          BY <2>0, <4>2
        <5>2. stream' = s /\ base' = base /\ executed' = executed
          BY <1>1, <4>1
        <5>3. s[N + 1].at = base /\ s[N + 1].of = executed
          BY <2>1, <4>2
        <5>4. ASSUME NEW i \in 1..Len(s), i < N + 1
              PROVE  s[i].of # executed
          <6>1. i \in 1..N
            BY <5>1, <5>4
          <6>2. s[i] = stream[i] /\ stream[i].of # executed
            BY <2>3, <4>2, <6>1
          <6> QED BY <6>2
        <5> QED BY <5>1, <5>2, <5>3, <5>4 DEF First
      <4>8. Paired(N + 1)'
        <5>1. /\ (N + 1) + 1 = Len(s) /\ (N + 1) + 1 = N + 2
              /\ s[N + 2] = e
          BY <2>1, <4>2
        <5>2. /\ read' = 0 /\ base' = Total /\ executed' = executed
              /\ wait_for_response' = WaitDefault /\ read_attempts' = 0
              /\ connection_type' = connection_type
          BY <1>1, <1>3 DEF Unanswered
        <5>3. 0 <= Header + command.in
          BY <2>1, <3>2 DEF Header
        <5> QED BY <4>1, <4>2, <4>3, <5>1, <5>2, <5>3 DEF Paired
      <4>9. Position' < Total'
        BY <1>1, <2>1, <3>2, <4>5 DEF Position, Header
      <4>10. Answered'
        <5>1. (N + 1) \in 1..Len(stream')
          BY <2>1, <4>1, <4>2
        <5>2. read_attempts' = 0
          BY <1>1, <1>3 DEF Unanswered
        <5> QED BY <1>4, <4>7, <4>8, <4>9, <5>1, <5>2 DEF Answered, Reply
      <4>11. Answers' = Answers \cup {executed}
        <5>1. Answers' = {s[i].of : i \in 1..(N + 2)}
          BY <4>1, <4>2 DEF Answers
        <5>2. {s[i].of : i \in 1..(N + 2)}
                = {stream[i].of : i \in 1..N} \cup {executed}
          BY <2>1, <4>2, SMTT(30)
        <5> QED BY <2>0, <5>1, <5>2 DEF Answers
      <4> QED BY <4>6, <4>10, <4>11
    <3> QED BY <3>1, <3>2
  <2>6. Asking'
    <3>1. executed \notin Answers
      BY <1>3 DEF Answers, Unanswered
    <3>2. Cardinality(Answers) < calls
      BY <1>2, <3>1 DEF ReplyInv, Asking
    <3>3. Cardinality(Answers') = Cardinality(Answers) + 1
      BY <2>5, <3>1, AnswersFinite, FS_AddElement
    <3>4. executed' \in Answers' /\ pc' = "read"
      BY <1>1, <1>2, <2>5
    <3> QED BY <1>1, <3>2, <3>3, <3>4, AnswersFinite DEF Asking, TypeOK
  <2> QED BY <1>1, <1>2, <2>5, <2>6
       DEF ReplyInv, Reading, Resting, WholeReply
<1>7. \/ UNCHANGED <<stream, zlp>>
      \/ /\ stream' = stream \o reply
         /\ zlp' = IF /\ "zlp" \in Faults /\ connection_type = "PTP_USB"
                      /\ Len(reply) = 2
                      /\ reply[1].length % MaxPacketSize = 0
                   THEN zlp \cup {reply[2].at} ELSE zlp
  BY DEF Answer
<1> HIDE DEF reply
<1> QED BY <1>5, <1>6, <1>7

\* The thread waits in vain only for a camera that has nothing left to send.
LEMMA SilentUnanswered ==
  ASSUME Patient, TypeOK, ReplyInv, pc = "read", Silent
  PROVE  Unanswered /\ todo = <<>>
<1>1. todo = <<>>
  BY DEF Silent, Patient
<1>2. ~Answered
  BY TotalNat DEF Silent, Answered, Position, TypeOK
<1> QED BY <1>1, <1>2 DEF ReplyInv, Reading

\* Nothing read while nothing has come.
LEMMA ReplyNothing ==
  ASSUME Patient, TypeOK, ReplyInv, pc = "read", Silent, zlp' = zlp,
         NEW result \in {"PTP_IO_ERR", "PTP_COMMAND_IGNORED"}, Nothing(result)
  PROVE  ReplyInv'
<1>1. Unanswered /\ todo = <<>>
  BY SilentUnanswered
<1>2. UNCHANGED <<base, read, todo, stream, zlp, executed, calls>>
  BY DEF Nothing, history
<1>3. UNCHANGED pc \/ EndAttempt(result)
  BY DEF Nothing
<1> QED BY <1>1, <1>2, <1>3, EndsUnanswered, WaitsUnanswered

\* A time-out of libusb.
LEMMA ReplyReadError ==
  ASSUME Patient, TypeOK, ReplyInv, ReadError
  PROVE  ReplyInv'
<1>1. Silent /\ pc = "read" /\ zlp' = zlp /\ Nothing("PTP_IO_ERR")
  BY DEF ReadError, Patient
<1> QED BY <1>1, ReplyNothing

\* The empty packet between the data and the response.
LEMMA EmptyPacketBetween ==
  ASSUME TypeOK, ReplyInv, pc = "read", Position \in zlp
  PROVE  /\ Answered /\ "zlp" \in Faults /\ zlp = {Position}
         /\ wait_for_response = WaitDefault /\ read_attempts = 0
         /\ \E k \in 1..Len(stream) : Reply(k)
<1>1. Answered
  BY DEF ReplyInv, Reading, Unanswered
<1>2. PICK k \in 1..Len(stream) : Reply(k)
  BY <1>1 DEF Answered
<1>3. Paired(k)
  BY <1>2 DEF Reply, Alone
<1> QED BY <1>1, <1>2, <1>3 DEF Paired

\* Zero bytes: nothing has come, or the empty packet costs a try and there is
\* one left.
LEMMA ReplyReadZero ==
  ASSUME Patient, TypeOK, ReplyInv, ReadZero
  PROVE  ReplyInv'
<1>1. pc = "read" /\ StreamOK
  BY DEF ReadZero, ReplyInv
<1>2. UNCHANGED <<base, read, todo, stream, executed, calls, connection_type>>
  BY DEF ReadZero, Nothing, history
<1>3. StreamOK' /\ Answers' = Answers /\ Total' = Total
  BY <1>1, <1>2, StreamKept DEF TypeOK
<1>4. CASE Silent /\ zlp' = zlp
  <2>1. Unanswered /\ todo = <<>>
    BY <1>1, <1>4, SilentUnanswered
  <2>2. CASE wait_for_response = 0 /\ read_attempts = 0
    <3>1. PICK d \in Decide(read) :
            IF d = "more" THEN UNCHANGED pc ELSE EndAttempt(d)
      BY <2>2 DEF ReadZero
    <3>2. d = "more"
      <4>1. read < Header
        BY <2>1 DEF Unanswered, Header
      <4> QED BY <4>1 DEF Decide
    <3> QED BY <1>1, <1>2, <1>4, <2>1, <3>1, <3>2, WaitsUnanswered
  <2>3. CASE ~(wait_for_response = 0 /\ read_attempts = 0)
    <3>1. Nothing("PTP_COMMAND_IGNORED")
      BY <2>3 DEF ReadZero
    <3> QED BY <1>1, <1>4, <3>1, ReplyNothing
  <2> QED BY <2>2, <2>3
<1>5. CASE Position \in zlp /\ zlp' = zlp \ {Position}
  <2>1. /\ Answered /\ "zlp" \in Faults /\ zlp = {Position}
        /\ wait_for_response = WaitDefault /\ read_attempts = 0
    BY <1>1, <1>5, EmptyPacketBetween
  <2>2. PICK k \in 1..Len(stream) : Reply(k)
    BY <1>1, <1>5, EmptyPacketBetween
  <2>3. zlp' = {} /\ WaitDefault \in Nat /\ WaitDefault # 1
    BY <1>5, <2>1, TransportAssumption DEF Patient
  <2>4. UNCHANGED pc /\ (read_attempts' > 0 => wait_for_response' > 0)
    <3>1. CASE wait_for_response = 0
      <4>1. /\ UNCHANGED <<read_attempts, wait_for_response>>
            /\ \E d \in Decide(read) :
                 IF d = "more" THEN UNCHANGED pc ELSE EndAttempt(d)
        BY <2>1, <3>1 DEF ReadZero
      <4>2. PICK d \in Decide(read) :
              IF d = "more" THEN UNCHANGED pc ELSE EndAttempt(d)
        BY <4>1
      <4>3. base + read < Total /\ base \in Nat /\ read \in Nat
        BY <2>1 DEF Answered, Position, TypeOK
      <4>4. base + read <= Total
        BY <4>3, TotalNat
      <4>5. d = "more"
        BY <1>1, <2>2, <4>3, <4>4, TotalNat, DecideOnReply
      <4> QED BY <2>1, <4>1, <4>2, <4>5
    <3>2. CASE wait_for_response # 0
      <4>1. wait_for_response > 0 /\ wait_for_response - 1 > 0
        BY <2>1, <2>3, <3>2
      <4>2. Nothing("PTP_COMMAND_IGNORED")
        BY <3>2 DEF ReadZero
      <4>3. UNCHANGED pc /\ wait_for_response' = wait_for_response - 1
        BY <4>1, <4>2 DEF Nothing
      <4> QED BY <4>1, <4>3
    <3> QED BY <3>1, <3>2
  <2>5. Reply(k)'
    BY <1>2, <2>2, <2>3 DEF Reply, First, Alone, Paired
  <2>6. Answered'
    <3>1. Position' = Position
      BY <1>2 DEF Position
    <3> QED BY <1>2, <1>3, <2>1, <2>4, <2>5, <3>1 DEF Answered
  <2>7. Asking'
    BY <1>2, <1>3, <2>4 DEF ReplyInv, Asking
  <2> QED BY <1>1, <1>3, <2>4, <2>6, <2>7
       DEF ReplyInv, Reading, Resting, WholeReply
<1> QED BY <1>4, <1>5 DEF ReadZero

\* What WholeReply asks for is what the reply is.
LEMMA ReplyIsWhole ==
  ASSUME TypeOK, StreamOK, NEW k \in 1..Len(stream), Reply(k)
  PROVE  \A i \in 1..Len(stream) :
           stream[i].at >= base <=> stream[i].of = executed
<1> SUFFICES ASSUME NEW i \in 1..Len(stream)
             PROVE  stream[i].at >= base <=> stream[i].of = executed
  OBVIOUS
<1>1. /\ stream[i].at \in Nat /\ stream[i].length \in Nat
      /\ stream[k].length \in Nat /\ stream[k].at = base
      /\ base \in Nat /\ Len(stream) \in Nat
  BY PacketShape DEF Reply, First, TypeOK
<1>2. CASE i < k
  <2>1. stream[i].of # executed
    BY <1>2 DEF Reply, First
  <2>2. stream[i].at + stream[i].length <= base /\ stream[i].length >= 12
    BY <1>1, <1>2 DEF StreamOK, InOrder, Header
  <2> QED BY <1>1, <2>1, <2>2
<1>3. CASE i = k
  BY <1>1, <1>3 DEF Reply, First
<1>4. CASE k < i
  <2>1. Paired(k) /\ i = k + 1
    BY <1>1, <1>4 DEF Reply, Alone, Paired
  <2>2. /\ stream[k + 1].of = executed
        /\ stream[k + 1].at = base + stream[k].length
    BY <2>1 DEF Paired
  <2> QED BY <1>1, <2>1, <2>2
<1> QED BY <1>1, <1>2, <1>3, <1>4

\* A transfer brings bytes of the reply; the last of them ends the call.
LEMMA ReplyRead ==
  ASSUME TypeOK, ReplyInv, Read
  PROVE  ReplyInv' /\ pc' # "write"
<1>1. pc = "read" /\ Position \notin zlp /\ StreamOK
  BY DEF Read, ReplyInv
<1>2. PICK n \in Available : ReadBytes(n)
  BY DEF Read
<1>3. Position < Total /\ Position + n <= Total
  BY <1>1, TransferThere
<1>4. n \in Nat /\ base \in Nat /\ read \in Nat /\ Total \in Nat
  BY TransferBounded, TotalNat, TransportAssumption DEF TypeOK
<1>5. Answered
  BY <1>1, <1>3, <1>4 DEF ReplyInv, Reading, Unanswered, Position
<1>6. PICK k \in 1..Len(stream) : Reply(k)
  BY <1>5 DEF Answered
<1>7. /\ read' = read + n
      /\ UNCHANGED <<base, read_attempts, wait_for_response, todo, stream,
                     zlp, connection_type, calls, executed>>
  BY <1>2 DEF ReadBytes, camera, history
<1>8. StreamOK' /\ Answers' = Answers /\ Total' = Total
  BY <1>1, <1>7, StreamKept DEF TypeOK
<1>9. PICK d \in Decide(read + n) :
        IF d = "more" THEN UNCHANGED pc ELSE EndAttempt(d)
  <2>1. ~(wait_for_response = 0 /\ read_attempts > 0)
    BY <1>5 DEF Answered
  <2> QED BY <1>2, <2>1 DEF ReadBytes
<1>10. \/ d = "more" /\ base + (read + n) < Total
       \/ d = "PTP_OK" /\ base + (read + n) = Total
  <2>1. read + n \in Nat /\ base + (read + n) <= Total
    BY <1>3, <1>4 DEF Position
  <2> QED BY <1>1, <1>6, <2>1, DecideOnReply
<1>11. zlp # {} => read + n <= stream[k].length
  <2> SUFFICES ASSUME zlp # {}
               PROVE  read + n <= stream[k].length
    OBVIOUS
  <2>1. Paired(k) /\ stream[k].at = base
    BY <1>6 DEF Reply, Alone, First
  <2>2. /\ zlp = {base + stream[k].length} /\ connection_type = "PTP_USB"
        /\ read <= stream[k].length /\ stream[k].length \in Nat
    BY <2>1, PacketShape DEF Paired
  <2>3. read < stream[k].length
    BY <1>1, <1>4, <2>2 DEF Position
  <2> QED BY <1>1, <2>1, <2>2, <2>3, TransferStops
<1>12. Reply(k)'
  <2>1. First(k)'
    BY <1>6, <1>7 DEF Reply, First
  <2>2. Alone(k) => Alone(k)'
    BY <1>7 DEF Alone
  <2>3. Paired(k) => Paired(k)'
    BY <1>7, <1>11 DEF Paired
  <2> QED BY <1>6, <2>1, <2>2, <2>3 DEF Reply
<1>13. executed \in Answers
  BY <1>6 DEF Reply, First, Answers
<1>14. CASE d = "more" /\ base + (read + n) < Total
  <2>1. pc' = "read"
    BY <1>1, <1>9, <1>14
  <2>2. Position' < Total'
    BY <1>7, <1>8, <1>14 DEF Position
  <2>3. Answered'
    BY <1>5, <1>7, <1>12, <2>2 DEF Answered
  <2>4. Asking'
    BY <1>7, <1>8, <1>13, <2>1 DEF ReplyInv, Asking
  <2> QED BY <1>8, <2>1, <2>3, <2>4
       DEF ReplyInv, Reading, Resting, WholeReply
<1>15. CASE d = "PTP_OK" /\ base + (read + n) = Total
  <2>1. pc' = "idle"
    BY <1>9, <1>15, HowItEnds
  <2>2. read' = Total' - base' /\ Position' = Total'
    BY <1>4, <1>7, <1>8, <1>15 DEF Position
  <2>3. zlp' = {} /\ todo' = <<>>
    <3>1. zlp = {}
      <4> SUFFICES ASSUME zlp # {}
                   PROVE  FALSE
        OBVIOUS
      <4>1. Paired(k) /\ read + n <= stream[k].length
        BY <1>6, <1>11 DEF Reply, Alone
      <4>2. Total = base + stream[k].length + 12
        BY <1>6, <4>1, ReplyEnds DEF Header
      <4>3. stream[k].length \in Nat
        BY PacketShape
      <4> QED BY <1>4, <1>15, <4>1, <4>2, <4>3
    <3> QED BY <1>5, <1>7, <3>1 DEF Answered
  <2>4. WholeReply'
    <3>1. \A i \in 1..Len(stream') :
            stream'[i].at >= base' <=> stream'[i].of = executed'
      BY <1>1, <1>6, <1>7, ReplyIsWhole
    <3>2. \E i \in 1..Len(stream') : stream'[i].at = base'
      BY <1>6, <1>7 DEF Reply, First
    <3> QED BY <2>2, <3>1, <3>2 DEF WholeReply
  <2>5. Asking'
    BY <1>7, <1>8, <2>1 DEF ReplyInv, Asking
  <2> QED BY <1>8, <2>1, <2>2, <2>3, <2>4, <2>5
       DEF ReplyInv, Reading, Resting
<1> QED BY <1>10, <1>14, <1>15
-----------------------------------------------------------------------------
\* The beginning: no question, no answer.
LEMMA ReplyInit ==
  ASSUME Init
  PROVE  ReplyInv
<1>1. stream = <<>> /\ Len(stream) = 0 /\ Total = 0
  BY DEF Init, Total
<1>2. StreamOK
  BY <1>1 DEF StreamOK, InOrder
<1>3. Asking
  <2>1. Answers = {}
    BY <1>1 DEF Answers
  <2>2. Cardinality(Answers) = 0
    BY <2>1, FS_EmptySet
  <2> QED BY <2>2 DEF Asking, Init
<1> QED BY <1>1, <1>2, <1>3
     DEF Init, ReplyInv, Reading, Resting, Position, WholeReply

\* Every step of a patient host and camera keeps it, and a command is sent
\* again only where nothing was read.
LEMMA ReplyNext ==
  ASSUME Patient, TypeOK, ReplyInv, [Next]_vars
  PROVE  /\ ReplyInv'
         /\ pc = "read" /\ pc' = "write" => read' = 0
<1>1. CASE Call
  <2>1. pc # "read"
    BY <1>1 DEF Call
  <2> QED BY <1>1, <2>1, ReplyCall
<1>2. CASE Write
  <2>1. pc # "read"
    BY <1>2 DEF Write
  <2> QED BY <1>2, <2>1, ReplyWrite
<1>3. CASE WriteError
  BY <1>3 DEF WriteError, Patient
<1>4. CASE Read
  BY <1>4, ReplyRead
<1>5. CASE ReadError
  <2>1. pc' # "write"
    BY <1>5, HowItEnds DEF ReadError, Nothing
  <2> QED BY <1>5, <2>1, ReplyReadError
<1>6. CASE ReadZero
  <2>1. ReplyInv'
    BY <1>6, ReplyReadZero
  <2>2. pc = "read" /\ pc' = "write" => read' = 0
    <3> SUFFICES ASSUME pc' = "write"
                 PROVE  read' = 0
      OBVIOUS
    <3>1. pc = "read" /\ read' = read
      BY <1>6 DEF ReadZero, Nothing
    <3>2. CASE Silent
      BY <3>1, <3>2, SilentUnanswered DEF Unanswered
    <3>3. CASE Position \in zlp
      <4>1. Answered /\ zlp = {Position} /\ zlp' = {}
        BY <1>6, <3>1, <3>3, EmptyPacketBetween DEF ReadZero, Silent
      <4>2. Total' = Total /\ Position' = Position
        BY <1>6 DEF ReadZero, Nothing, Total, Position
      <4> QED BY <2>1, <4>1, <4>2, TotalNat
           DEF ReplyInv, Resting, Answered, Position, TypeOK
    <3> QED BY <1>6, <3>2, <3>3 DEF ReadZero
  <2> QED BY <2>1, <2>2
<1>7. CASE Answer
  <2>1. pc' = pc
    BY <1>7 DEF Answer, host
  <2> QED BY <1>7, <2>1, ReplyAnswer
<1>8. CASE UNCHANGED vars
  <2>1. UNCHANGED <<pc, command, base, read, read_attempts, wait_for_response,
                    rc, todo, stream, zlp, connection_type, calls, executed>>
    BY <1>8 DEF vars, host, camera, history
  <2>2. StreamOK' /\ Answers' = Answers /\ Total' = Total
    BY <2>1, StreamKept DEF ReplyInv, TypeOK
  <2>3. Reading'
    BY <2>1, <2>2 DEF ReplyInv, Reading, Unanswered, Answered, Reply, First,
                      Alone, Paired, Position
  <2> QED BY <2>1, <2>2, <2>3
       DEF ReplyInv, Resting, Asking, WholeReply, Position
<1> QED BY <1>1, <1>2, <1>3, <1>4, <1>5, <1>6, <1>7, <1>8
     DEF Next, Step, Finished

\* Both invariants together.
LEMMA ReplyAlways ==
  ASSUME Patient
  PROVE  Spec => []Inv /\ []ReplyInv
<1>1. Inv /\ [Next]_vars => Inv'
  BY InvNext
<1>2. Inv /\ ReplyInv /\ [Next]_vars => ReplyInv'
  BY ReplyNext DEF Inv
<1> QED BY <1>1, <1>2, InvInit, ReplyInit, PTL DEF Spec

\* A call that succeeds holds its own reply, whole and alone, whatever the
\* commands before it met and however the bytes were cut; with the single try
\* of ptp_new, from a camera that sends no empty packets (Patient).
THEOREM WholeReplyHolds ==
  ASSUME Patient
  PROVE  Spec => []WholeReply
<1>1. ReplyInv => WholeReply
  BY DEF ReplyInv
<1> QED BY <1>1, ReplyAlways, PTL

\* No call makes the camera act twice, although ptp_send tries twice: under
\* Patient, which excludes the empty packet that uses up the only try.
THEOREM NoRepeatHolds ==
  ASSUME Patient
  PROVE  Spec => []NoRepeat
<1>1. ReplyInv => NoRepeat
  BY DEF ReplyInv, Asking, Answers, NoRepeat
<1> QED BY <1>1, ReplyAlways, PTL

\* The second try of ptp_send is made only where not a byte was read: under
\* Patient, which excludes the empty packet that uses up the only try.
THEOREM ResentOnlyIfIgnoredHolds ==
  ASSUME Patient
  PROVE  Spec => ResentOnlyIfIgnored
<1>1. /\ Inv /\ ReplyInv /\ [Next]_vars
      => [pc = "read" /\ pc' = "write" => read' = 0]_vars
  BY ReplyNext DEF Inv
<1> QED BY <1>1, ReplyAlways, PTL DEF Spec, ResentOnlyIfIgnored
=============================================================================
