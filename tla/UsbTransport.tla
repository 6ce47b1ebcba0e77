---------------------------- MODULE UsbTransport ----------------------------
(***************************************************************************)
(* One library call of ptp_send or ptp_send_data after the other, over     *)
(* PTP_USB or PTP_IP_USB: the loops of src/transport.c that write a packet *)
(* in pieces of max_packet_size and collect a reply in r->data, the retry  *)
(* of src/lib.c, and a camera that answers in its own time.                *)
(*                                                                         *)
(* The camera's bytes form one stream.  Position p of the stream is where  *)
(* byte p starts; the buffer holds the bytes [base, base + read).  Only    *)
(* the headers are interpreted: length and type.                           *)
(***************************************************************************)
EXTENDS Integers, Sequences, FiniteSets

CONSTANTS
  ConnectionTypes, \* what r->connection_type may be
  MaxPacketSize,   \* r->max_packet_size
  BufferSize,      \* r->data_length at the start
  WaitDefault,     \* r->response_wait_default
  Waits,           \* what callers put in r->wait_for_response before a call
  Commands,        \* the operations callers ask for: see Command
  CallLimit,       \* bound: number of calls
  Faults           \* see Fault

Header == 12       \* bytes of a container header

\* out: the payload length of the data phase, or -1 when there is none;
\* in: the payload length of the camera's data packet, or -1.
Command == [out : Int, in : Int]

\* "ignore": the camera swallows a command without a reply.
\* "stall": a read gives up while the camera is still to answer.
\* "zlp": a data packet that fills its last USB packet is followed by an
\*   empty one.
\* "error": a read or a write fails.
Fault == {"ignore", "stall", "zlp", "error"}

ASSUME TransportAssumption ==
  /\ ConnectionTypes \subseteq {"PTP_USB", "PTP_IP_USB"}
  /\ MaxPacketSize \in Nat \ {0}
  /\ BufferSize \in Nat
  /\ WaitDefault \in Nat
  /\ Waits \subseteq Nat
  /\ Commands \subseteq Command
  /\ CallLimit \in Nat
  /\ Faults \subseteq Fault

Least(a, b) == IF a < b THEN a ELSE b
-----------------------------------------------------------------------------
VARIABLES
  connection_type,
  pc,        \* "idle", "write", "read"
  command,   \* the operation of the call under way
  attempt,   \* 1 or 2: which ptp_send_try
  phase,     \* the packet being written: "command" or "data"
  sent,      \* ptp_send_packet: bytes of it written
  base,      \* where in the stream the attempt started to read
  read,      \* ptpusb_read_all_packets: bytes read
  read_attempts, wait_for_response,  \* variables of the same name
  data_length,                       \* size of r->data
  operation_kill_switch,
  rc,        \* result of the last attempt
  \* the camera
  todo,      \* commands it has received and not answered
  stream,    \* packets it has sent: [at, length, type, of]
  zlp,       \* positions where an empty USB packet waits
  \* history
  calls,     \* calls made
  executed   \* commands the camera has received

host   == <<pc, command, attempt, phase, sent, base, read, read_attempts,
            wait_for_response, data_length, operation_kill_switch, rc>>
camera == <<todo, stream, zlp>>
history == <<connection_type, calls, executed>>
vars   == <<host, camera, history>>

\* Bytes the camera has put on the wire, and bytes read of them.
Total == IF stream = <<>> THEN 0
         ELSE stream[Len(stream)].at + stream[Len(stream)].length
Position == base + read

\* ptpusb_new_cmd_packet with no parameters, ptpusb_new_data_packet.
PacketLength == IF phase = "command" THEN Header ELSE Header + command.out

\* ptp_buffer_resize
Resized(size) == IF size <= data_length THEN data_length ELSE size + 100
-----------------------------------------------------------------------------
(* ptp_send, ptp_send_data                                                 *)

\* Start or restart an attempt.
Attempt(n) ==
  /\ attempt' = n
  /\ pc' = "write" /\ phase' = "command" /\ sent' = 0

\* The call: a caller may have set wait_for_response before.
Call ==
  /\ pc = "idle" /\ calls < CallLimit /\ ~operation_kill_switch
  /\ \E c \in Commands : command' = c
  /\ \E w \in Waits : wait_for_response' = w
  /\ data_length' = IF command'.out + 50 > data_length /\ command'.out >= 0
                    THEN Resized(command'.out) ELSE data_length
  /\ Attempt(1)
  /\ calls' = calls + 1
  /\ rc' = "none"
  /\ UNCHANGED <<base, read, read_attempts, operation_kill_switch, camera,
                 connection_type, executed>>

\* An attempt ends: a command that was ignored is sent once more, any other
\* failure, and a second one, stops all operations.
EndAttempt(result) ==
  /\ rc' = result
  /\ IF result = "PTP_COMMAND_IGNORED" /\ attempt = 1
       THEN /\ Attempt(2)
            /\ UNCHANGED operation_kill_switch
       ELSE /\ pc' = "idle"
            /\ operation_kill_switch' = (operation_kill_switch
                                         \/ result # "PTP_OK")
            /\ UNCHANGED <<attempt, phase, sent>>
-----------------------------------------------------------------------------
(* ptp_send_packet                                                         *)

\* One ptp_cmd_write or ptpip_cmd_write.  A USB transfer is complete, a
\* socket may take less.
Write ==
  /\ pc = "write"
  /\ LET max == Least(PacketLength - sent, MaxPacketSize) IN
       \E n \in (IF connection_type = "PTP_USB" THEN {max} ELSE 1..max) :
         IF sent + n < PacketLength
         THEN /\ sent' = sent + n
              /\ UNCHANGED <<pc, phase, base, read, read_attempts,
                             wait_for_response, todo, executed>>
         ELSE IF phase = "command" /\ command.out >= 0
         THEN /\ phase' = "data" /\ sent' = 0
              /\ UNCHANGED <<pc, base, read, read_attempts,
                             wait_for_response, todo, executed>>
         ELSE \* the camera has the command; ptpusb_read_all_packets begins
              /\ sent' = sent + n
              /\ todo' = Append(todo, [in |-> command.in, of |-> executed + 1])
              /\ executed' = executed + 1
              /\ pc' = "read"
              /\ base' = Position /\ read' = 0
              /\ read_attempts' = 0 /\ wait_for_response' = WaitDefault
              /\ UNCHANGED phase
  /\ UNCHANGED <<command, attempt, data_length, operation_kill_switch, rc,
                 stream, zlp, connection_type, calls>>

WriteError ==
  /\ pc = "write" /\ "error" \in Faults
  /\ EndAttempt("PTP_IO_ERR")
  /\ UNCHANGED <<command, base, read, read_attempts, wait_for_response,
                 data_length, camera, history>>
-----------------------------------------------------------------------------
(* ptpusb_read_all_packets: one turn of the loop is one read.              *)

\* The container header at byte o of the buffer; where no packet of the
\* camera starts there, what is read as one can be anything.
HeaderAt(o) ==
  LET here == {i \in 1..Len(stream) : stream[i].at = base + o} IN
  IF here # {} THEN {stream[i] : i \in here}
  ELSE [at : {base + o}, of : {0}, length : {0, Header, 1000},
        type : {"response", "data", "other"}]

\* Mutant of Decide: a data packet ends the reply.
DecideData(n) ==
  IF n < Header THEN {"more"}
  ELSE {IF n < first.length \/ first.type = "other" THEN "more" ELSE "PTP_OK"
        : first \in HeaderAt(0)}

\* Mutant of Decide: less than a header counts as nothing.
DecideShort(n) ==
  IF n < Header THEN {"PTP_COMMAND_IGNORED"}
  ELSE {IF n < first.length THEN "more" ELSE "PTP_OK" : first \in HeaderAt(0)}

\* What the loop decides when it has the first n bytes: "more", or the result.
Decide(n) ==
  IF n < Header THEN {"more"}
  ELSE UNION {
    IF n < first.length THEN {"more"}
    ELSE IF first.type = "response" THEN {"PTP_OK"}
    ELSE IF first.type # "data" \/ first.length + Header > n THEN {"more"}
    ELSE {IF second.type # "response" THEN "PTP_IO_ERR"
          ELSE IF n = first.length + second.length THEN "PTP_OK"
          ELSE IF n > first.length + second.length THEN "PTP_IO_ERR"
          ELSE "more" : second \in HeaderAt(first.length)}
    : first \in HeaderAt(0)}

\* Mutant of Room: what is already read is forgotten.
RoomForOne == IF data_length < MaxPacketSize THEN Resized(MaxPacketSize)
              ELSE data_length

\* The room the loop makes before each read.
Room == IF data_length < read + MaxPacketSize THEN Resized(read + MaxPacketSize)
        ELSE data_length

\* A transfer of n > 0 bytes.
ReadBytes(n) ==
  /\ read' = read + n
  /\ data_length' = Room
  /\ IF wait_for_response = 0 /\ read_attempts > 0
       THEN EndAttempt("PTP_COMMAND_IGNORED")
       ELSE \E d \in Decide(read + n) :
              IF d = "more"
              THEN UNCHANGED <<pc, attempt, phase, sent,
                               operation_kill_switch, rc>>
              ELSE EndAttempt(d)
  /\ UNCHANGED <<command, base, read_attempts, wait_for_response, camera,
                 history>>

\* What a transfer can bring: on USB the rest of the packet, at most
\* MaxPacketSize of it; on a socket any part of what is there.
Available ==
  IF Position >= Total THEN {}
  ELSE IF connection_type = "PTP_IP_USB"
    THEN 1..Least(Total - Position, MaxPacketSize)
  ELSE {Least(p.at + p.length - Position, MaxPacketSize) :
          p \in {stream[i] : i \in {j \in 1..Len(stream) :
                   /\ stream[j].at <= Position
                   /\ Position < stream[j].at + stream[j].length}}}

Read == /\ pc = "read" /\ Position \notin zlp
        /\ \E n \in Available : ReadBytes(n)

\* Mutant of Nothing: the tries are not counted down.
NothingForever(result) ==
  /\ data_length' = Room
  /\ IF wait_for_response > 0
       THEN UNCHANGED <<pc, attempt, phase, sent, operation_kill_switch, rc,
                        wait_for_response, read_attempts>>
       ELSE /\ EndAttempt(result)
            /\ UNCHANGED <<wait_for_response, read_attempts>>
  /\ UNCHANGED <<command, base, read, todo, stream, history>>

\* Mutant of Nothing: they are counted below zero.
NothingWraps(result) ==
  /\ data_length' = Room
  /\ wait_for_response' = wait_for_response - 1
  /\ IF wait_for_response > 0
       THEN /\ read_attempts' = read_attempts + 1
            /\ UNCHANGED <<pc, attempt, phase, sent, operation_kill_switch, rc>>
       ELSE EndAttempt(result) /\ UNCHANGED read_attempts
  /\ UNCHANGED <<command, base, read, todo, stream, history>>

\* Nothing is read: rc = 0 or rc < 0.  A try is used up, or the loop ends.
Nothing(result) ==
  /\ data_length' = Room
  /\ IF wait_for_response > 0
       THEN /\ wait_for_response' = wait_for_response - 1
            /\ read_attempts' = read_attempts + 1
            /\ UNCHANGED <<pc, attempt, phase, sent, operation_kill_switch, rc>>
       ELSE /\ EndAttempt(result)
            /\ UNCHANGED <<wait_for_response, read_attempts>>
  /\ UNCHANGED <<command, base, read, todo, stream, history>>

\* The camera is silent for PTP_TIMEOUT.
Silent == /\ Position >= Total /\ Position \notin zlp
          /\ todo # <<>> => "stall" \in Faults

\* A libusb time-out is an error; so is a failing socket.
ReadError ==
  /\ pc = "read"
  /\ (connection_type = "PTP_USB" /\ Silent) \/ "error" \in Faults
  /\ Nothing("PTP_IO_ERR")
  /\ UNCHANGED zlp

\* Zero bytes: a socket has nothing (EAGAIN), or USB has an empty packet.
\* With no try left and none used (WaitDefault = 0) the loop just goes on.
ReadZero ==
  /\ pc = "read"
  /\ \/ connection_type = "PTP_IP_USB" /\ Silent /\ UNCHANGED zlp
     \/ Position \in zlp /\ zlp' = zlp \ {Position}
  /\ IF wait_for_response = 0 /\ read_attempts = 0
       THEN /\ \E d \in Decide(read) :
                 IF d = "more"
                 THEN UNCHANGED <<pc, attempt, phase, sent,
                                  operation_kill_switch, rc>>
                 ELSE EndAttempt(d)
            /\ data_length' = Room
            /\ UNCHANGED <<command, base, read, read_attempts,
                           wait_for_response, todo, stream, history>>
       ELSE Nothing("PTP_COMMAND_IGNORED")
-----------------------------------------------------------------------------
(* The camera.                                                             *)

\* The packets of the reply to command c.
ReplyPackets(c) ==
  LET response(at) == [at |-> at, length |-> Header, type |-> "response",
                       of |-> c.of]
      dat == [at |-> Total, length |-> Header + c.in, type |-> "data",
              of |-> c.of]
  IN IF c.in < 0 THEN <<response(Total)>>
     ELSE <<dat, response(Total + dat.length)>>

Answer ==
  /\ todo # <<>>
  /\ todo' = Tail(todo)
  /\ LET reply == ReplyPackets(Head(todo)) IN
       \/ /\ stream' = stream \o reply
          /\ zlp' = IF /\ "zlp" \in Faults /\ connection_type = "PTP_USB"
                       /\ Len(reply) = 2
                       /\ reply[1].length % MaxPacketSize = 0
                    THEN zlp \cup {reply[2].at} ELSE zlp
       \/ "ignore" \in Faults /\ UNCHANGED <<stream, zlp>>
  /\ UNCHANGED <<host, history>>
-----------------------------------------------------------------------------
Init ==
  /\ connection_type \in ConnectionTypes
  /\ pc = "idle" /\ command = [out |-> -1, in |-> -1] /\ attempt = 1
  /\ phase = "command" /\ sent = 0 /\ base = 0 /\ read = 0
  /\ read_attempts = 0 /\ wait_for_response = 1
  /\ data_length = BufferSize /\ operation_kill_switch = FALSE /\ rc = "none"
  /\ todo = <<>> /\ stream = <<>> /\ zlp = {}
  /\ calls = 0 /\ executed = 0

\* The call under way goes on.
Step == Write \/ WriteError \/ Read \/ ReadError \/ ReadZero

\* All calls are made, or operations are stopped.
Finished == /\ pc = "idle" /\ (calls = CallLimit \/ operation_kill_switch)
            /\ todo = <<>>
            /\ UNCHANGED vars

Next == Call \/ Step \/ Answer \/ Finished

Spec == Init /\ [][Next]_vars

\* The thread runs, and its transfers return; the camera answers, or ignores,
\* what it was asked.
FairSpec == Spec /\ WF_vars(Step) /\ WF_vars(Answer)
-----------------------------------------------------------------------------
(* Correctness.                                                            *)

PacketType == [at : Nat, length : Nat, type : {"response", "data"}, of : Nat]

\* The variables have the shapes the code gives them.
TypeOK ==
  /\ connection_type \in {"PTP_USB", "PTP_IP_USB"}
  /\ pc \in {"idle", "write", "read"}
  /\ command \in Command /\ attempt \in {1, 2}
  /\ phase \in {"command", "data"} /\ sent \in Nat
  /\ base \in Nat /\ read \in Nat /\ read_attempts \in Nat
  /\ wait_for_response \in Nat /\ data_length \in Nat
  /\ operation_kill_switch \in BOOLEAN
  /\ rc \in {"none", "PTP_OK", "PTP_IO_ERR", "PTP_COMMAND_IGNORED"}
  /\ todo \in Seq([in : Int, of : Nat]) /\ stream \in Seq(PacketType)
  /\ zlp \subseteq Nat
  /\ calls \in Nat /\ executed \in Nat

\* What is read never goes past the end of r->data, however the camera cuts
\* its reply.
ReadFits == read <= data_length

\* A call that succeeds has the whole reply to its last command in r->data,
\* from the first byte, and nothing else.
WholeReply ==
  pc = "idle" /\ rc = "PTP_OK" =>
    /\ read = Total - base
    /\ \A i \in 1..Len(stream) :
         stream[i].at >= base <=> stream[i].of = executed
    /\ \E i \in 1..Len(stream) : stream[i].at = base

\* The camera executes a command once per call, whatever is sent again.  (Not
\* so when a reply comes after the only try was used up, by a late answer or by
\* an empty packet: transport.c:186 then sends an answered command again.)
NoRepeat == Cardinality({stream[i].of : i \in 1..Len(stream)}) <= calls

\* A command is sent again only if not a byte of a reply has come.
ResentOnlyIfIgnored ==
  [][pc = "read" /\ pc' = "write" => read' = 0]_vars

\* Every call returns: a silent camera cannot hold the thread, nor its mutex.
Terminates == pc # "idle" ~> pc = "idle"
=============================================================================
