----------------------------- MODULE IpTransport ----------------------------
(***************************************************************************)
(* One application on a PTP_IP runtime: the handshake of the command and   *)
(* the event socket (src/operations.c), then one reply after the other     *)
(* through ptpip_receive_bulk_packets and ptpip_read_packet of             *)
(* src/transport.c, which know each packet's length before they read it.   *)
(*                                                                         *)
(* The camera's bytes on the command socket are numbered from 0 on; buf[i] *)
(* is the number of the byte in r->data[i].  TCP cuts them anywhere, and   *)
(* brings nothing for as long as SO_RCVTIMEO (five seconds) at times.      *)
(***************************************************************************)
EXTENDS Integers, Sequences

CONSTANTS
  Replies,      \* the replies a camera may send: sequences of Packet
  Acks,         \* what it may answer to the handshake: sets of Packet
  StrayLengths, \* what bytes that are no header may read as, for a length
  Word,         \* lengths are unsigned: they count modulo this
  RequestSize,  \* sizeof(struct PtpIpInitPacket)
  BufferSize,   \* r->data_length at the start
  BufferMax,    \* bound: the bytes of r->data the model looks at
  WaitDefault,  \* r->response_wait_default
  Waits,        \* what callers put in r->wait_for_response
  Pieces,       \* bound: how many bytes come at a time
  CallLimit     \* bound: replies read

\* The types of packets, as ptp.h names them.
Type == {"INIT_COMMAND_ACK", "INIT_FAIL", "COMMAND_RESPONSE",
         "DATA_PACKET_START", "DATA_PACKET_END", "EVENT"}

IpHeader == 8     \* length and type

\* A packet has the length it says, whatever that is.
Packet == [type : Type, length : Nat]

ASSUME IpAssumption ==
  /\ Replies \subseteq Seq(Packet)
  /\ Acks \subseteq [type : {"INIT_COMMAND_ACK", "INIT_FAIL"}, length : Nat]
  /\ Word \in Nat \ {0} /\ StrayLengths \subseteq 0..(Word - 1)
  /\ \A r \in Replies : \A i \in 1..Len(r) : r[i].length < Word
  /\ \A a \in Acks : a.length < Word
  /\ RequestSize \in Nat /\ RequestSize >= IpHeader
  /\ BufferSize \in Nat /\ BufferSize >= RequestSize
  /\ BufferMax \in Nat /\ WaitDefault \in Nat \ {0}
  /\ Waits \subseteq Nat \ {0} /\ Pieces \subseteq Nat \ {0}
  /\ CallLimit \in Nat

Least(a, b) == IF a < b THEN a ELSE b
-----------------------------------------------------------------------------
VARIABLES
  pc,        \* "idle", or what is read: "ack", "ack_rest", "length", "rest"
  part,      \* which packet of the reply: the first, second or third
  of, pk1_of, read, wait_for_response,  \* variables of the same name
  size,      \* h->length of the packet that is read
  data_length, data_filled_length, buf, \* r->data
  events,    \* the state of the event socket: "closed", "connected", "ready"
  rc,        \* what the last call returned
  \* the camera and the network
  stream,    \* packets it has sent: [at, length, type]
  arrived,   \* bytes of them that have come
  open,      \* is the connection open?
  \* history
  consumed,  \* bytes read so far
  base,      \* where in the stream the reply under way begins
  calls,
  ack        \* how the handshake got its answer: "none", "whole", "torn"

reader == <<part, of, pk1_of, read, wait_for_response, size>>
memory == <<data_length, data_filled_length, buf>>
camera == <<stream, open>>
vars == <<pc, reader, memory, events, rc, camera, arrived, consumed, base,
          calls, ack>>

Total == IF stream = <<>> THEN 0
         ELSE stream[Len(stream)].at + stream[Len(stream)].length

\* What the camera sends next: packets one behind the other.
Sent(packets) ==
  LET start[i \in 1..Len(packets)] ==
        IF i = 1 THEN Total ELSE start[i - 1] + packets[i - 1].length
  IN stream \o [i \in 1..Len(packets) |->
       [at |-> start[i], length |-> packets[i].length,
        type |-> packets[i].type]]

\* Bytes that can be read now: read() takes of them what it was asked for.
Waiting == arrived - consumed

\* A read puts the next n bytes at r->data + o.
Reads(o, n) ==
  /\ buf' = [i \in 0..BufferMax |->
               IF i \in o..(o + n - 1) THEN consumed + (i - o) ELSE buf[i]]
  /\ consumed' = consumed + n

Byte(b, i) == IF i <= BufferMax THEN b[i] ELSE -1

\* The packets whose bytes from byte m to byte n lie at r->data + o.
Seen(b, o, m, n) ==
  {p \in {stream[i] : i \in 1..Len(stream)} :
     \A k \in m..n : Byte(b, o + k) = p.at + k}

\* h->length; of bytes that are no length, anything.
LengthsAt(b, o) == IF Seen(b, o, 0, 3) = {} THEN StrayLengths
                   ELSE {p.length : p \in Seen(b, o, 0, 3)}

\* h->type; of other bytes, anything.
TypesAt(b, o) == IF Seen(b, o, 4, 7) = {} THEN Type \cup {"none"}
                 ELSE {p.type : p \in Seen(b, o, 4, 7)}

\* h->length - read
Asked(length, n) == (length - n) % Word

\* ptp_buffer_resize
Resized(n) == IF n <= data_length THEN data_length ELSE n + 100
-----------------------------------------------------------------------------
(* The handshake.                                                          *)

Return(result) == pc' = "idle" /\ rc' = result

\* ptpip_init_command_request writes its request over r->data and sends it;
\* the camera answers.
InitCommand ==
  /\ pc = "idle" /\ stream = <<>> /\ rc = "none"
  /\ \/ /\ open
        /\ \E a \in Acks : stream' = Sent(<<a>>)
        /\ pc' = "ack" /\ UNCHANGED rc
     \/ ~open /\ Return("PTP_IO_ERR") /\ UNCHANGED stream
  /\ buf' = [i \in 0..BufferMax |-> IF i < RequestSize THEN -1 ELSE buf[i]]
  /\ UNCHANGED <<reader, data_length, data_filled_length, events, open,
                 arrived, consumed, base, calls, ack>>

\* "Read the packet size, then receive the rest": two reads, of what there is
\* by then, whose results are tested for an error only.
AckRead ==
  /\ pc = "ack"
  /\ Reads(0, Least(Waiting, 4))
  /\ IF Waiting = 0 /\ ~open THEN Return("PTP_IO_ERR")
     ELSE pc' = "ack_rest" /\ UNCHANGED rc
  /\ UNCHANGED <<reader, data_length, data_filled_length, events, camera,
                 arrived, base, calls, ack>>

\* p->length: its low byte, which tells, is still that of the request if
\* nothing has come.
AckLength == IF buf[0] = 0 THEN stream[1].length ELSE RequestSize

\* hdr->type: its low byte is the first that the second read brings, if the
\* first has brought four.
Refused(b) == b[4] = 4 /\ stream[1].type = "INIT_FAIL"

\* Mutant of AckReadRest: the type is not looked at.
AckReadRestBlind ==
  /\ pc = "ack_rest"
  /\ Reads(4, Least(Waiting, Asked(AckLength, 4)))
  /\ Return(IF Waiting = 0 /\ ~open THEN "PTP_IO_ERR" ELSE "PTP_OK")
  /\ ack' = IF consumed' = 0 THEN "none"
            ELSE IF buf'[4] = 4 /\ consumed' = stream[1].length THEN "whole"
            ELSE "torn"
  /\ UNCHANGED <<reader, data_length, data_filled_length, events, camera,
                 arrived, base, calls>>

\* A camera that is silent for both passes.
AckReadRest ==
  /\ pc = "ack_rest"
  /\ Reads(4, Least(Waiting, Asked(AckLength, 4)))
  /\ Return(IF Waiting = 0 /\ ~open THEN "PTP_IO_ERR"
            ELSE IF Refused(buf') THEN "PTP_CHECK_CODE" ELSE "PTP_OK")
  /\ ack' = IF consumed' = 0 THEN "none"
            ELSE IF buf'[4] = 4 /\ consumed' = stream[1].length THEN "whole"
            ELSE "torn"
  /\ UNCHANGED <<reader, data_length, data_filled_length, events, camera,
                 arrived, base, calls>>

\* ptpip_connect_events, then ptpip_init_events: its answer must come whole.
InitEvents ==
  /\ pc = "idle" /\ rc = "PTP_OK" /\ calls = 0 /\ events # "ready"
  /\ \/ events = "closed" /\ events' = "connected" /\ UNCHANGED <<buf, rc>>
     \/ /\ events = "connected"
        /\ buf' = [i \in 0..BufferMax |-> IF i < 8 THEN -1 ELSE buf[i]]
        /\ \/ events' = "ready" /\ UNCHANGED rc
           \/ rc' = "PTP_IO_ERR" /\ UNCHANGED events
  /\ UNCHANGED <<pc, reader, data_length, data_filled_length, camera, arrived,
                 consumed, base, calls, ack>>
-----------------------------------------------------------------------------
(* ptpip_receive_bulk_packets and ptpip_read_packet.                       *)

\* A command was sent, and the camera answers; a caller stops after an error.
Receive ==
  /\ pc = "idle" /\ rc = "PTP_OK" /\ calls < CallLimit
  /\ calls' = calls + 1
  /\ \E r \in Replies : stream' = Sent(r)
  /\ \E w \in Waits : wait_for_response' = w
  /\ pc' = "length" /\ part' = 1 /\ of' = 0 /\ pk1_of' = 0 /\ read' = 0
  /\ base' = consumed /\ size' = 0
  /\ data_filled_length' = 0
  /\ UNCHANGED <<data_length, buf, events, rc, open, arrived, consumed, ack>>

\* Goes on to packet n, at r->data + o.
ReadPacket(n, o) ==
  /\ pc' = "length" /\ part' = n /\ of' = o /\ read' = 0
  /\ UNCHANGED rc

\* Mutant of PacketRead: the third packet is not looked for.
PacketReadTwo(b, length) ==
  \E type \in TypesAt(b, of) :
    /\ data_filled_length' = data_filled_length
                              + (IF part = 1 THEN 0 ELSE length)
    /\ IF part = 1 /\ type = "DATA_PACKET_START"
         THEN ReadPacket(2, length) /\ pk1_of' = length
       ELSE /\ Return(IF <<part, type>> \in {<<1, "COMMAND_RESPONSE">>,
                                            <<2, "DATA_PACKET_END">>}
                      THEN "PTP_OK" ELSE "PTP_IO_ERR")
            /\ read' = length
            /\ UNCHANGED <<part, of, pk1_of>>

\* ptpip_read_packet returned length: what ptpip_receive_bulk_packets does.
PacketRead(b, length) ==
  \E type \in TypesAt(b, of) :
    /\ data_filled_length' = data_filled_length
                              + (IF part = 1 THEN 0 ELSE length)
    /\ IF part = 1 /\ type = "DATA_PACKET_START"
         THEN ReadPacket(2, length) /\ pk1_of' = length
       ELSE IF part = 2 /\ type = "DATA_PACKET_END"
         THEN ReadPacket(3, pk1_of + length) /\ UNCHANGED pk1_of
       ELSE /\ Return(IF part # 2 /\ type = "COMMAND_RESPONSE" THEN "PTP_OK"
                      ELSE "PTP_IO_ERR")
            /\ read' = length
            /\ UNCHANGED <<part, of, pk1_of>>

\* Nothing came in time, or the connection is closed: a try is used up.  When
\* none is left an error of the socket counts as an ignored command.
LengthFails ==
  /\ pc = "length" /\ Waiting = 0
  /\ IF wait_for_response = 1
       THEN /\ wait_for_response' = WaitDefault
            /\ Return(IF open THEN "PTP_IO_ERR" ELSE "PTP_COMMAND_IGNORED")
       ELSE /\ wait_for_response' = wait_for_response - 1
            /\ UNCHANGED <<pc, rc>>
  /\ UNCHANGED <<part, of, pk1_of, read, size, memory, events, camera, arrived,
                 consumed, base, calls, ack>>

\* Mutant of RoomFor: what is read already is not counted.
RoomForPacket(length) ==
  IF (of + length) % Word >= data_length THEN Resized((of + length) % Word)
  ELSE data_length

\* "Ensure data buffer is large enough for the rest of the packet"
RoomFor(length) ==
  IF (of + 4 + length) % Word >= data_length
  THEN Resized((of + 4 + length) % Word) ELSE data_length

\* The length of a packet; it counts only in one piece.  A packet that is no
\* longer than that is read.
ReadLength ==
  /\ pc = "length" /\ Waiting > 0
  /\ wait_for_response' = WaitDefault
  /\ Reads(of, Least(Waiting, 4))
  /\ IF Waiting < 4
       THEN /\ Return("PTP_IO_ERR")
            /\ UNCHANGED <<part, of, pk1_of, read, size, data_length,
                           data_filled_length>>
       ELSE \E length \in LengthsAt(buf', of) :
              /\ size' = length
              /\ \/ /\ Asked(length, 4) = 0
                    /\ PacketRead(buf', length) /\ UNCHANGED data_length
                 \/ /\ Asked(length, 4) # 0
                    /\ data_length' = RoomFor(length)
                    /\ pc' = "rest" /\ read' = 4
                    /\ UNCHANGED <<part, of, pk1_of, data_filled_length, rc>>
  /\ UNCHANGED <<events, camera, arrived, base, calls, ack>>

\* The rest of it, in as many pieces as it comes.  (A read that brings
\* nothing changes nothing, and is tried again.)
ReadRest ==
  /\ pc = "rest" /\ Waiting > 0
  /\ LET n == Least(Waiting, Asked(size, read)) IN
       /\ Reads(of + read, n)
       /\ IF Asked(size, read + n) = 0 THEN PacketRead(buf', size)
          ELSE /\ read' = read + n
               /\ UNCHANGED <<pc, part, of, pk1_of, data_filled_length, rc>>
  /\ UNCHANGED <<wait_for_response, size, data_length, events, camera, arrived,
                 base, calls, ack>>

\* Mutant of RestFails: the error is waited out like a silence.
RestWaits ==
  /\ pc = "rest" /\ Waiting = 0 /\ ~open
  /\ UNCHANGED vars

RestFails ==
  /\ pc = "rest" /\ Waiting = 0 /\ ~open
  /\ Return("PTP_IO_ERR")
  /\ UNCHANGED <<reader, memory, events, camera, arrived, consumed, base,
                 calls, ack>>
-----------------------------------------------------------------------------
(* The network.                                                            *)

\* Bytes come, cut anywhere, when those before are read (what comes sooner
\* comes with them, as one larger piece).
Arrive ==
  /\ open /\ Waiting = 0 /\ arrived < Total
  /\ \E n \in Pieces : arrived' = Least(arrived + n, Total)
  /\ UNCHANGED <<pc, reader, memory, events, rc, camera, consumed, base,
                 calls, ack>>

\* The connection is closed, with or without what is still to come.
Close ==
  /\ open /\ open' = FALSE
  /\ UNCHANGED <<pc, reader, memory, events, rc, stream, arrived, consumed,
                 base, calls, ack>>
-----------------------------------------------------------------------------
\* A runtime whose command socket is connected.
Init ==
  /\ pc = "idle" /\ part = 1 /\ of = 0 /\ pk1_of = 0 /\ read = 0 /\ size = 0
  /\ wait_for_response = 1
  /\ data_length = BufferSize /\ data_filled_length = 0
  /\ buf = [i \in 0..BufferMax |-> -1]
  /\ events = "closed" /\ rc = "none"
  /\ stream = <<>> /\ arrived = 0 /\ open = TRUE
  /\ consumed = 0 /\ base = 0 /\ calls = 0 /\ ack = "none"

\* The call under way goes on.
Step == AckRead \/ AckReadRest \/ LengthFails \/ ReadLength \/ ReadRest
        \/ RestFails

Finished == /\ pc = "idle" /\ ~open
            /\ UNCHANGED vars

Next == \/ InitCommand \/ InitEvents \/ Receive \/ Step \/ Arrive \/ Close
        \/ Finished

Spec == Init /\ [][Next]_vars

\* The thread runs; TCP delivers what was sent, unless it closes.
FairSpec == Spec /\ WF_vars(Step) /\ WF_vars(Arrive)
-----------------------------------------------------------------------------
(* Correctness.                                                            *)

\* What a reply may be.
WellFormed(types) ==
  types \in {<<"COMMAND_RESPONSE">>,
             <<"DATA_PACKET_START", "DATA_PACKET_END", "COMMAND_RESPONSE">>}

\* The handshake has got its answer whole or not at all, and every packet has
\* a header.
Clear == /\ ack # "torn"
         /\ \A i \in 1..Len(stream) : stream[i].length >= IpHeader

\* A call that succeeds has read one whole reply, from where one begins to
\* where it ends, byte by byte into its place in r->data, and its packets are
\* in the order the standard asks for, however TCP cut them.
WholeIpReply ==
  Clear /\ pc = "idle" /\ rc = "PTP_OK" /\ calls > 0 =>
    /\ \A i \in 0..(consumed - base - 1) : buf[i] = base + i
    /\ \E m \in 1..Len(stream) : \E n \in m..Len(stream) :
         /\ stream[m].at = base
         /\ stream[n].at + stream[n].length = consumed
         /\ WellFormed([i \in 1..(n - m + 1) |-> stream[m + i - 1].type])

\* Every read ends inside r->data, although the sizes of the packets are only
\* known one after the other, and whatever is read as one: if the length is
\* more than its own four bytes, and the sum the code compares with
\* r->data_length does not wrap.
IpReadFits ==
  /\ pc = "length" /\ (part > 1 => size > 4 /\ of + 4 < Word) =>
       of + 4 <= data_length
  /\ pc = "rest" /\ size > 4 /\ of + 4 + size < Word =>
       of + read + Asked(size, read) <= data_length

\* No reply is taken from a camera that refused the handshake, even if the
\* refusal came too late for the handshake to see it.
RefusedStaysOut ==
  Clear /\ stream # <<>> /\ stream[1].type = "INIT_FAIL" /\ calls > 0 =>
    ~(pc = "idle" /\ rc = "PTP_OK")

\* Every call returns, if what the camera began to send comes or the
\* connection is closed.
IpTerminates == pc # "idle" /\ Clear ~> pc = "idle"
=============================================================================
