--------------------------- MODULE MCIpTransport ----------------------------
(***************************************************************************)
(* An instance of IpTransport for TLC: packets of their real sizes, with   *)
(* four bytes of payload, in a buffer the longer reply outgrows.           *)
(***************************************************************************)
EXTENDS IpTransport

P(type, length) == [type |-> type, length |-> length]

Response == P("COMMAND_RESPONSE", 14)
Start    == P("DATA_PACKET_START", 20)
End      == P("DATA_PACKET_END", 16)

\* Replies as they should be, with a packet missing, doubled or foreign, and
\* with packets that are shorter than a header.
MCReplies == {<<Response>>, <<Start, End, Response>>, <<End, Response>>,
              <<Start, P("EVENT", 12), Response>>,
              <<P("COMMAND_RESPONSE", 4)>>,
              <<Start, P("DATA_PACKET_END", 6), Response>>}

MCAcks == {P("INIT_COMMAND_ACK", 34), P("INIT_FAIL", 12)}
=============================================================================
