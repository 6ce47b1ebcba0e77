------------------------------ MODULE Encoding ------------------------------
(***************************************************************************)
(* The bytes of one operation: the packets src/packet.c builds in r->data  *)
(* and finds its way through when the reply is there, and the structures   *)
(* src/data.c writes and parses in their payloads.  data is the bytes of   *)
(* r->data; offsets count from 0.                                          *)
(***************************************************************************)
EXTENDS Conversion, Frame

CONSTANTS
  ConnectionTypes,  \* of "PTP_USB" and "PTP_IP"
  Codes,            \* operation and response codes
  Transactions,     \* transaction IDs
  ParamLists,       \* lists of at most five parameters
  FieldSize,        \* size of the char arrays of the parsed structures
  ArrayMax,         \* size of the uint16_t arrays of PtpDeviceInfo
  Structures,       \* <<layout, values>> of the structures sent
  Descriptions,     \* property descriptions: see EncodeDesc
  Values,           \* <<value, width>> of property values sent
  Bitmaps,          \* bitmaps of Magic Lantern's live view
  Files,            \* <<name, content>> of the files uploaded to CHDK
  Names             \* device names for a PTP/IP camera

\* Bytes, the numbers of two and of four bytes, those that an int holds, and
\* the numbers of two bytes with a sign.
Byte == 0..255
U16 == {n \in Nat : n < 65536}
U32 == {n \in Nat : n \div 65536 < 65536}
I32 == {n \in U32 : n \div 65536 < 32768}
I16 == {n \in Int : n + 32768 \in U16}

VARIABLES
  connection_type,
  data,     \* r->data
  stage,    \* the packet that data holds, or what has been done
  command,  \* [code, transaction, params] of the command
  answer,   \* what the camera has answered
  value     \* a property value that was set, and how it is reported

vars == <<connection_type, data, stage, command, answer, value>>
-----------------------------------------------------------------------------
(* Numbers.  ptp_write_u8, _u16, _u32 and ptp_read_u8, _u16, _u32.         *)

\* What a byte counts for; the lowest comes first.
Weight == <<1, 256, 65536, 16777216>>

ToBytes(n, width) == [i \in 1..width |-> (n \div Weight[i]) % 256]

Write(d, of, width, n) ==
  [i \in 1..Len(d) |->
     IF i - of \in 1..width THEN ToBytes(n, width)[i - of] ELSE d[i]]

Read(d, of, width) ==
  LET part(i) == IF i <= width THEN d[of + i] * Weight[i] ELSE 0
  IN part(1) + part(2) + part(3) + part(4)
-----------------------------------------------------------------------------
(* Packets.                                                                *)

COMMAND == 1
DATA == 2
RESPONSE == 3
PTPIP_COMMAND_REQUEST == 6
PTPIP_COMMAND_RESPONSE == 7
PTPIP_DATA_PACKET_START == 9
PTPIP_DATA_PACKET_END == 12

Bytes(params) ==
  [k \in 1..(4 * Len(params)) |->
     ToBytes(params[((k - 1) \div 4) + 1], 4)[((k - 1) % 4) + 1]]

\* Mutant of UsbHeader: the code is written before the type.
UsbHeaderSwapped(length, type, cmd) ==
  LET l == Write([i \in 1..12 |-> 0], 0, 4, length)
      c == Write(l, 6, 4, cmd.code)
      t == Write(c, 4, 4, type)
  IN Write(t, 8, 4, cmd.transaction)

\* The header fields of struct PtpBulkContainer.  Type and code have two bytes
\* and are written as four: each overwrites the start of the next.
UsbHeader(length, type, cmd) ==
  LET l == Write([i \in 1..12 |-> 0], 0, 4, length)
      t == Write(l, 4, 4, type)
      c == Write(t, 6, 4, cmd.code)
  IN Write(c, 8, 4, cmd.transaction)

\* ptpusb_new_cmd_packet
UsbCommand(cmd) ==
  UsbHeader(12 + 4 * Len(cmd.params), COMMAND, cmd) \o Bytes(cmd.params)

\* ptpusb_new_data_packet
UsbData(cmd, payload) ==
  UsbHeader(12 + Len(payload), DATA, cmd) \o payload

\* ptpip_bulk_packet: data_phase is 2 if a data phase follows.
IpCommand(cmd, data_phase_length) ==
  ToBytes(18 + 4 * Len(cmd.params), 4) \o ToBytes(PTPIP_COMMAND_REQUEST, 4)
  \o ToBytes(IF data_phase_length = 0 THEN 1 ELSE 2, 4)
  \o ToBytes(cmd.code, 2) \o ToBytes(cmd.transaction, 4) \o Bytes(cmd.params)

\* ptpip_data_start_packet, ptpip_data_end_packet
IpDataStart(cmd, length) ==
  ToBytes(20, 4) \o ToBytes(PTPIP_DATA_PACKET_START, 4)
  \o ToBytes(cmd.transaction, 4) \o ToBytes(length, 4) \o ToBytes(0, 4)
IpDataEnd(cmd, payload) ==
  ToBytes(12 + Len(payload), 4) \o ToBytes(PTPIP_DATA_PACKET_END, 4)
  \o ToBytes(cmd.transaction, 4) \o payload

\* Mutant of Response: the data packet is not passed over.
ResponseFirst == 0

\* Where the response is in r->data: ptpip_get_response_packet, and the
\* "after data packet" of each accessor for USB.
Response ==
  IF connection_type = "PTP_IP"
  THEN IF Read(data, 4, 4) = PTPIP_COMMAND_RESPONSE THEN 0
       ELSE LET ds == Read(data, 0, 4) IN ds + Read(data, ds, 4)
  ELSE IF Read(data, 4, 2) = DATA THEN Read(data, 0, 4) ELSE 0

Ip == connection_type = "PTP_IP"
ptp_get_return_code == Read(data, Response + (IF Ip THEN 8 ELSE 6), 2)
ptp_get_last_transaction_id == Read(data, Response + (IF Ip THEN 10 ELSE 8), 4)
ptp_get_param_length ==
  (Read(data, Response, 4) - (IF Ip THEN 14 ELSE 12)) \div 4

\* Behind a USB data packet it is the return code that comes back.
ptp_get_param(index) ==
  IF ~Ip /\ Response # 0 THEN ptp_get_return_code
  ELSE Read(data, Response + (IF Ip THEN 14 ELSE 12) + 4 * index, 4)

\* For PTP_IP only if there was a data phase: without it they panic.
ptp_get_payload ==
  LET of == IF Ip THEN Read(data, 0, 4) + 12
            ELSE IF Read(data, 4, 2) = COMMAND THEN 28 ELSE 12
  IN SubSeq(data, of + 1, Len(data))
ptp_get_payload_length ==
  IF Ip THEN Read(data, 12, 4) ELSE Read(data, 0, 4) - 12
-----------------------------------------------------------------------------
(* Strings, arrays and structures.  A parser returns a value and what is   *)
(* left of the bytes.                                                      *)

Drop(d, n) == SubSeq(d, n + 1, Len(d))

\* ptp_write_string: UTF-16 with a terminator, and a count of both.
WriteString(string) ==
  IF string = <<>> THEN <<0>>
  ELSE ToBytes(Len(string) + 1, 1)
       \o FlattenSeq([i \in 1..Len(string) |-> <<string[i], 0>>]) \o <<0, 0>>

\* What ptp_read_string makes of a unit: another character, or the NUL.
Char(unit) == IF unit > 128 THEN 63 ELSE IF unit \in 1..31 THEN 32 ELSE unit

\* The C string in an array that starts with these characters.  Without a NUL
\* what was in the array before belongs to it.
CString(chars) ==
  IF Contains(chars, 0) THEN SubSeq(chars, 1, SelectInSeq(chars,
                                              LAMBDA c : c = 0) - 1)
  ELSE Append(chars, -1)

\* Mutant of ReadString: one unit less is read.
ReadStringShort(d, max) ==
  IF d[1] = 0 THEN [value |-> <<>>, rest |-> Drop(d, 1)]
  ELSE LET n == IF d[1] < max - 2 THEN d[1] ELSE max - 2
       IN [value |-> CString([i \in 1..n |-> Char(Read(d, 2 * i - 1, 2))]),
           rest |-> Drop(d, 1 + 2 * n)]

\* ptp_read_string: of a longer string, max - 1 units are read.
ReadString(d, max) ==
  IF d[1] = 0 THEN [value |-> <<>>, rest |-> Drop(d, 1)]
  ELSE LET n == IF d[1] < max - 1 THEN d[1] ELSE max - 1
       IN [value |-> CString([i \in 1..n |-> Char(Read(d, 2 * i - 1, 2))]),
           rest |-> Drop(d, 1 + 2 * n)]

\* ptp_read_uint16_array_s: more than max aborts.  What is sent lies inside the
\* buffer, so that boundcheck, which is given an end behind it, is passed.
ReadArray(d, max) ==
  LET n == Read(d, 0, 4)
  IN [value |-> IF n > max THEN "panic"
                ELSE [i \in 1..n |-> Read(d, 2 + 2 * i, 2)],
      rest |-> Drop(d, 4 + 2 * n)]

\* dup_uint_array allocates what the count says.
ReadArray32(d) ==
  LET n == Read(d, 0, 4)
  IN [value |-> [i \in 1..n |-> Read(d, 4 * i, 4)], rest |-> Drop(d, 4 + 4 * n)]

\* ptp_parse_prop_value tells the type from the length, so that no sign is read,
\* and returns an int.
PropValue(length, d) ==
  LET n == Read(d, 0, length) IN
  IF length \notin {1, 2, 4} THEN -1
  ELSE IF n \in I32 THEN n ELSE n - 65536 * 65536

\* ptp_write_utf8_string, and ptp_read_utf8_string of what fits.
WriteUtf8(string) == Append(string, 0)
ReadUtf8(d) == SubSeq(d, 1, SelectInSeq(d, LAMBDA c : c = 0) - 1)

\* ptp_write_unicode_string, over bytes that are zero: of the terminator only
\* the second byte is written.
WriteUnicode(d, of, string) ==
  [i \in 1..Len(d) |->
     LET at == i - of IN
     IF at \in 1..(2 * Len(string)) /\ at % 2 = 1 THEN string[(at + 1) \div 2]
     ELSE IF at \in 1..(2 * Len(string) + 2) /\ at % 2 = 0 THEN 0
     ELSE d[i]]

\* ptp_read_unicode_string: up to a unit whose first byte is 0.
ReadUnicode(d) ==
  LET n == SelectInSeq([i \in 1..(Len(d) \div 2) |-> d[2 * i - 1]],
                       LAMBDA c : c = 0) - 1
  IN [i \in 1..n |-> d[2 * i - 1]]

\* The fields of a structure; a 64 bit number is two of 32.
Width == [u8 |-> 1, u16 |-> 2, u32 |-> 4]

\* ptp_parse_object_info and ptp_pack_object_info, ptp_parse_storage_info,
\* ptp_parse_device_info
ObjectInfo ==
  <<"u32", "u16", "u16", "u32", "u16", "u32", "u32", "u32", "u32", "u32",
    "u32", "u32", "u16", "u32", "u32", "string", "string", "string",
    "string">>
StorageInfo ==
  <<"u16", "u16", "u16", "u32", "u32", "u32", "u32", "u32", "string",
    "string">>
DeviceInfo ==
  <<"u16", "u32", "u16", "string", "u16", "array", "array", "array", "array",
    "array", "string", "string", "string", "string">>

\* The handles of ptp_get_object_handles, the IDs of ptp_get_storage_ids
ObjectHandles == <<"array32">>

ReadField(field, d) ==
  CASE field = "string" -> ReadString(d, FieldSize)
    [] field = "array"  -> ReadArray(d, ArrayMax)
    [] field = "array32" -> ReadArray32(d)
    [] OTHER -> [value |-> Read(d, 0, Width[field]),
                 rest |-> Drop(d, Width[field])]

WriteField(field, v) ==
  CASE field = "string" -> WriteString(v)
    [] field = "array"  -> ToBytes(Len(v), 4)
                           \o FlattenSeq([i \in 1..Len(v) |->
                                             ToBytes(v[i], 2)])
    [] field = "array32" -> ToBytes(Len(v), 4) \o Bytes(v)
    [] OTHER -> ToBytes(v, Width[field])

Pack(layout, values) ==
  FlattenSeq([i \in 1..Len(layout) |-> WriteField(layout[i], values[i])])

\* The next field behind those that are done.
ParseField(field, done) ==
  LET f == ReadField(field, done.rest)
  IN [value |-> Append(done.value, f.value), rest |-> f.rest]

Parse(layout, d) ==
  LET done[k \in 0..Len(layout)] ==
        IF k = 0 THEN [value |-> <<>>, rest |-> d]
        ELSE ParseField(layout[k], done[k - 1])
  IN done[Len(layout)].value
-----------------------------------------------------------------------------
(* Property descriptions.                                                  *)

TypeCode ==
  [INT8 |-> 1, UINT8 |-> 2, INT16 |-> 3, UINT16 |-> 4, INT32 |-> 5,
   UINT32 |-> 6, INT64 |-> 7, UINT64 |-> 8, UINT8ARRAY |-> 16386,
   UINT16ARRAY |-> 16388, UINT32ARRAY |-> 16390, UINT64ARRAY |-> 16392,
   STRING |-> 65535]
Small ==
  [INT8 |-> 1, UINT8 |-> 1, INT16 |-> 2, UINT16 |-> 2, INT32 |-> 4,
   UINT32 |-> 4]
Item ==
  [UINT8ARRAY |-> 1, UINT16ARRAY |-> 2, UINT32ARRAY |-> 4, UINT64ARRAY |-> 8]

PTP_RangeForm == 1
PTP_EnumerationForm == 2

\* ptp_get_prop_size
PropSize(d, type) ==
  CASE type \in DOMAIN Small -> Small[type]
    [] type \in {"INT64", "UINT64"} -> 8
    [] type \in DOMAIN Item -> 4 + Read(d, 0, 4) * Item[type]
    [] type = "STRING" -> 1 + 2 * Read(d, 0, 1)

\* parse_data_data_or_u32: one number, or the bytes as they are.  Only INT16 is
\* read with its sign; of four bytes, a number that an int holds.
ReadData(d, type) ==
  LET n == Read(d, 0, Small[type]) IN
  IF type \notin DOMAIN Small THEN SubSeq(d, 1, PropSize(d, type))
  ELSE IF type = "INT16" /\ n >= 32768 THEN <<n - 65536>> ELSE <<n>>

\* The loop of ptp_parse_prop_desc over the values of an enumeration: the
\* length of all of them.
Past(d, type, length) == length + PropSize(Drop(d, length), type)
EnumLength(d, type, n) ==
  LET length[i \in 0..n] == IF i = 0 THEN 0 ELSE Past(d, type, length[i - 1])
  IN length[n]

\* ptp_parse_prop_desc.  A property with no form aborts the program; a range is
\* of numbers.
ParseDesc(d) ==
  LET type == CHOOSE t \in DOMAIN TypeCode : TypeCode[t] = Read(d, 2, 2)
      current == 5 + PropSize(Drop(d, 5), type)
      form == current + PropSize(Drop(d, current), type)
      behind == Drop(d, form + 1)
      step == PropSize(behind, type)
  IN [code |-> Read(d, 0, 2), data_type |-> type, read_only |-> Read(d, 4, 1),
      default |-> ReadData(Drop(d, 5), type),
      current |-> ReadData(Drop(d, current), type),
      form_type |-> Read(d, form, 1),
      form |-> CASE Read(d, form, 1) = PTP_RangeForm ->
                      [i \in 1..3 |-> ReadData(Drop(behind, (i - 1) * step),
                                               type)]
                 [] Read(d, form, 1) = PTP_EnumerationForm ->
                      SubSeq(behind, 3, 2 + EnumLength(Drop(behind, 2), type,
                                                       Read(behind, 0, 2)))
                 [] OTHER -> "panic"]

\* The numbers ptp_prop_desc_json lists for an enumeration or a range, which
\* it ends before max.
ValidEntries(desc) ==
  IF desc.form_type = PTP_EnumerationForm
  THEN LET width == Small[desc.data_type]
       IN [i \in 1..(Len(desc.form) \div width) |->
             ReadData(Drop(desc.form, (i - 1) * width), desc.data_type)[1]]
  ELSE LET min == desc.form[1][1]
           max == desc.form[2][1]
           step == desc.form[3][1]
       IN [i \in 1..(IF max > min THEN (max - min + step - 1) \div step
                     ELSE 0) |-> min + (i - 1) * step]

\* Where a separator follows.
Separated(desc, i) ==
  IF desc.form_type = PTP_EnumerationForm
  THEN i - 1 < Len(ValidEntries(desc)) - 1
  ELSE ValidEntries(desc)[i] < desc.form[2][1] - desc.form[3][1]

\* What a camera sends for it.
EncodeData(type, v) ==
  IF type \in DOMAIN Small THEN ToBytes(v[1], Small[type]) ELSE v
EncodeAll(type, values) ==
  FlattenSeq([i \in 1..Len(values) |-> EncodeData(type, values[i])])
EncodeDesc(desc) ==
  ToBytes(desc.code, 2) \o ToBytes(TypeCode[desc.data_type], 2)
  \o ToBytes(desc.read_only, 1) \o EncodeData(desc.data_type, desc.default)
  \o EncodeData(desc.data_type, desc.current) \o ToBytes(desc.form_type, 1)
  \o (IF desc.form_type = PTP_EnumerationForm
      THEN ToBytes(Len(desc.form), 2) ELSE <<>>)
  \o EncodeAll(desc.data_type, desc.form)
-----------------------------------------------------------------------------
(* Payloads with a name in them.                                           *)

\* ptp_pack_chdk_upload_file
PackUpload(name, content) ==
  ToBytes(Len(name) + 1, 4) \o WriteUtf8(name) \o content

PTPIP_INIT_COMMAND_REQ == 1

\* ptpip_init_command_request fills a struct PtpIpInitPacket of 36 bytes; its
\* device_name has eight.
EmptyRequest ==
  ToBytes(36, 4) \o ToBytes(PTPIP_INIT_COMMAND_REQ, 4)
  \o [i \in 1..16 |-> 255] \o [i \in 1..8 |-> 0] \o ToBytes(0, 2)
  \o ToBytes(1, 2)
InitRequest(name) == WriteUnicode(EmptyRequest, 24, name)
-----------------------------------------------------------------------------
(* What is sent: numbers of the widths of their fields, names of characters*)
(* other than NUL, payloads whose packets have a length of four bytes, and *)
(* bitmaps with all their rows.                                            *)

Payload(d) == d \in Seq(Byte) /\ Len(d) + 32 \in U32

\* The values of a field of a structure.  A string has the characters that
\* ptp_read_string leaves as they are.
FieldValues ==
  [u8 |-> Byte, u16 |-> U16, u32 |-> U32, array |-> Seq(U16),
   array32 |-> Seq(U32), string |-> Seq(32..128)]
Structure(s) ==
  /\ s[1] \in Seq(DOMAIN FieldValues)
  /\ s[2] = [i \in DOMAIN s[1] |-> s[2][i]]
  /\ \A i \in DOMAIN s[1] : s[2][i] \in FieldValues[s[1][i]]
  /\ Payload(Pack(s[1], s[2]))

\* A value of a property: one number, or bytes that begin with their count.
Numbers ==
  [INT8 |-> Byte, UINT8 |-> Byte, INT16 |-> I16, UINT16 |-> U16,
   INT32 |-> I32, UINT32 |-> I32]
DataOf(type, v) ==
  IF type \in DOMAIN Small THEN v \in Seq(Numbers[type]) /\ Len(v) = 1
  ELSE /\ v \in Seq(Byte) /\ Len(v) >= (IF type = "STRING" THEN 1 ELSE 4)
       /\ Len(v) = PropSize(v, type)

\* A description has a range, in which an int can be counted up to its end, or
\* an enumeration.
Description(desc) ==
  /\ desc \in [code : U16, data_type : DOMAIN TypeCode, read_only : Byte,
               default : {desc.default}, current : {desc.current},
               form_type : {PTP_RangeForm, PTP_EnumerationForm},
               form : Seq(Range(desc.form))]
  /\ \A v \in {desc.default, desc.current} \cup Range(desc.form) :
       DataOf(desc.data_type, v)
  /\ desc.form_type = PTP_EnumerationForm => Len(desc.form) \in U16
  /\ desc.form_type = PTP_RangeForm =>
       /\ desc.data_type \in DOMAIN Small
       /\ Len(desc.form) = 3 /\ desc.form[3][1] > 0
       /\ (desc.form[2][1] + desc.form[3][1]) \div 65536 < 32768
  /\ Payload(EncodeDesc(desc))

ASSUME EncodingAssumption ==
  /\ ConnectionTypes \subseteq {"PTP_USB", "PTP_IP"}
  /\ Codes \subseteq U16 /\ Transactions \subseteq U32
  /\ \A p \in ParamLists : p \in Seq(U32) /\ Len(p) <= 5
  /\ FieldSize \in 2..256 /\ ArrayMax \in Nat
  /\ \A s \in Structures : Structure(s)
  /\ \A desc \in Descriptions : Description(desc)
  /\ \A v \in Values : /\ v[1] \in U32 /\ v[2] \in 1..4
                       /\ v[2] = 1 => v[1] \in Byte
                       /\ v[2] = 2 => v[1] \in U16
  /\ \A bmp \in Bitmaps : Payload(bmp) /\ Len(bmp) >= VramWidth * ScreenHeight
  /\ \A f \in Files : /\ f[1] \in Seq(1..255) /\ f[2] \in Seq(Byte)
                      /\ Len(f[1]) + Len(f[2]) + 37 \in U32
  /\ \A name \in Names : name \in Seq(1..255) /\ Len(name) <= 3
-----------------------------------------------------------------------------
(* One operation after another.                                            *)

None == [code |-> 0, transaction |-> 0, params |-> <<>>]
NoAnswer == [reply |-> None, kind |-> "none", content |-> <<>>,
             payload |-> <<>>]
NoValue == [code |-> "none", set |-> 0, shown |-> {}]

\* ptp_new_cmd_packet: a command without or with a data phase.
Ask ==
  /\ stage # "command" /\ stage' = "command"
  /\ \E c \in Codes, t \in Transactions, p \in ParamLists, phase \in {0, 1} :
       /\ command' = [code |-> c, transaction |-> t, params |-> p]
       /\ data' = IF Ip THEN IpCommand(command', phase)
                  ELSE UsbCommand(command')
  /\ answer' = NoAnswer /\ value' = NoValue /\ UNCHANGED connection_type

\* The first packet to a PTP/IP camera, which reads the name as it was given.
AskIn ==
  /\ Ip /\ stage = "idle" /\ stage' = "init"
  /\ \E name \in Names :
       /\ data' = InitRequest(name)
       /\ answer' = [NoAnswer EXCEPT !.content = name]
  /\ UNCHANGED <<connection_type, command, value>>

\* The packets of the data phase, one after the other in r->data.
SendPayload ==
  /\ stage = "command"
  /\ \E sent \in {[kind |-> "struct", content |-> s,
                   payload |-> Pack(s[1], s[2])] : s \in Structures}
                \cup {[kind |-> "upload", content |-> f,
                       payload |-> PackUpload(f[1], f[2])] : f \in Files} :
       LET payload == sent.payload IN
         /\ answer' = [reply |-> None, kind |-> sent.kind,
                       content |-> sent.content, payload |-> payload]
         /\ \/ ~Ip /\ stage' = "data" /\ data' = UsbData(command, payload)
            \/ /\ Ip /\ stage' = "start"
               /\ data' = IpDataStart(command, Len(payload))
            \/ Ip /\ stage' = "end" /\ data' = IpDataEnd(command, payload)
  /\ UNCHANGED <<connection_type, command, value>>

\* The reply of the camera: the payload, if any, and the response.
Reply(reply, kind, content, payload) ==
  LET params == Bytes(reply.params)
      usb == ToBytes(12 + Len(params), 4) \o ToBytes(RESPONSE, 2)
             \o ToBytes(reply.code, 2) \o ToBytes(reply.transaction, 4)
      ip == ToBytes(14 + Len(params), 4) \o ToBytes(PTPIP_COMMAND_RESPONSE, 4)
            \o ToBytes(reply.code, 2) \o ToBytes(reply.transaction, 4)
      phase == IF kind = "none" THEN <<>>
               ELSE IF Ip THEN IpDataStart(command, Len(payload))
                               \o IpDataEnd(command, payload)
               ELSE ToBytes(12 + Len(payload), 4) \o ToBytes(DATA, 2)
                    \o ToBytes(command.code, 2)
                    \o ToBytes(command.transaction, 4) \o payload
  IN /\ data' = phase \o (IF Ip THEN ip ELSE usb) \o params
     /\ answer' = [reply |-> reply, kind |-> kind, content |-> content,
                   payload |-> payload]

Answered ==
  /\ stage \in {"command", "data", "start", "end"} /\ stage' = "answered"
  /\ \E c \in Codes, p \in ParamLists :
       LET reply == [code |-> c, transaction |-> command.transaction,
                     params |-> p]
       IN \/ Reply(reply, "none", <<>>, <<>>)
          \/ \E s \in Structures : Reply(reply, "struct", s, Pack(s[1], s[2]))
          \/ \E desc \in Descriptions :
               Reply(reply, "desc", desc, EncodeDesc(desc))
          \/ \E v \in Values : Reply(reply, "value", v, ToBytes(v[1], v[2]))
          \/ \E bmp \in Bitmaps : Reply(reply, "bitmap", <<>>, bmp)
  /\ UNCHANGED <<connection_type, command, value>>

\* A property is set to a value the tables know, and the camera reports what
\* it was set to.
SetThenReported ==
  /\ stage = "idle" /\ stage' = "reported"
  /\ \E code \in DOMAIN Table : \E i \in DOMAIN Table[code] :
       LET v == Table[code][i][1] IN
         value' = [code |-> code, set |-> v,
                   shown |-> {Reported(code, <<d>>) : d \in ToData(code, v)}]
  /\ UNCHANGED <<connection_type, data, command, answer>>

Init ==
  /\ connection_type \in ConnectionTypes
  /\ data = <<>> /\ stage = "idle" /\ command = None /\ answer = NoAnswer
  /\ value = NoValue

Next == Ask \/ AskIn \/ SendPayload \/ Answered \/ SetThenReported

Spec == Init /\ [][Next]_vars
-----------------------------------------------------------------------------
(* Correctness.                                                            *)

\* A camera that reads the command by the layout of the standard finds its
\* length, code, transaction and parameters.
AskedWhole ==
  stage = "command" =>
    LET code == IF Ip THEN 12 ELSE 6 IN
    /\ Read(data, 0, 4) = Len(data)
    /\ Read(data, code, 2) = command.code
    /\ Read(data, code + 2, 4) = command.transaction
    /\ \A i \in DOMAIN command.params :
         Read(data, code + 2 + 4 * i, 4) = command.params[i]

\* It finds the length of each packet of a data phase, and the payload or, in
\* the packet before it, its length; in a USB packet the fields of the header.
SentWhole ==
  /\ stage \in {"data", "start", "end"} => Read(data, 0, 4) = Len(data)
  /\ stage \in {"data", "end"} => Drop(data, 12) = answer.payload
  /\ stage = "start" => Read(data, 12, 4) = Len(answer.payload)
  /\ stage = "data" =>
       /\ Read(data, 4, 2) = DATA /\ Read(data, 6, 2) = command.code
       /\ Read(data, 8, 4) = command.transaction

\* It finds the name and the content of an uploaded file,
UploadWhole ==
  stage \in {"data", "start", "end"} /\ answer.kind = "upload" =>
    LET name == SubSeq(answer.payload, 5, 4 + Read(answer.payload, 0, 4))
    IN /\ ReadUtf8(name) = answer.content[1]
       /\ Drop(answer.payload, 4 + Len(name)) = answer.content[2]

\* and in the first packet its own name, between the numbers around it.
InitWhole ==
  stage = "init" =>
    /\ Read(data, 0, 4) = Len(data)
    /\ Read(data, 4, 4) = PTPIP_INIT_COMMAND_REQ
    /\ ReadUnicode(SubSeq(data, 25, 32)) = answer.content
    /\ Read(data, 32, 4) = 65536

\* What the camera gets is what was meant, although the fields of a USB header
\* are written over each other.
CommandWhole == AskedWhole /\ SentWhole /\ UploadWhole /\ InitWhole

\* The accessors find the return code, the transaction and the parameters of
\* the response, and the payload, whether or not there was a data phase.
\* ptp_get_param behind a USB data packet is the exception.
ReplyRead ==
  stage = "answered" =>
    /\ ptp_get_return_code = answer.reply.code
    /\ ptp_get_last_transaction_id = answer.reply.transaction
    /\ ptp_get_param_length = Len(answer.reply.params)
    /\ Ip \/ answer.kind = "none" =>
         \A i \in DOMAIN answer.reply.params :
           ptp_get_param(i - 1) = answer.reply.params[i]
    /\ answer.kind # "none" =>
         /\ ptp_get_payload_length = Len(answer.payload)
         /\ SubSeq(ptp_get_payload, 1, ptp_get_payload_length)
              = answer.payload

\* A structure whose strings fit their array with two units to spare, and
\* whose arrays fit, is parsed to what was packed, each field behind the one
\* before it.
StructureParsed ==
  stage = "answered" /\ answer.kind = "struct" =>
    LET layout == answer.content[1]
        sent == answer.content[2]
        room == \A i \in DOMAIN layout :
                  layout[i] = "string" => Len(sent[i]) <= FieldSize - 2
        fits == \A i \in DOMAIN layout :
                  layout[i] = "array" => Len(sent[i]) <= ArrayMax
    IN room /\ fits => Parse(layout, ptp_get_payload) = sent

\* A property description of any type the library knows is parsed to what the
\* camera described, with the values of an enumeration one behind the other;
\* numbers are listed as JSON with a separator behind each but the last.
DescriptionParsed ==
  stage = "answered" /\ answer.kind = "desc" =>
    LET sent == answer.content
        form == IF sent.form_type = PTP_EnumerationForm
                THEN EncodeAll(sent.data_type, sent.form) ELSE sent.form
        parsed == ParseDesc(ptp_get_payload)
    IN /\ parsed = [sent EXCEPT !.form = form]
       /\ sent.data_type \in DOMAIN Small =>
            LET listed == ValidEntries(parsed) IN
            /\ \A i \in DOMAIN listed :
                 Separated(parsed, i) <=> i # Len(listed)
            /\ sent.form_type = PTP_EnumerationForm =>
                 listed = [i \in 1..Len(sent.form) |-> sent.form[i][1]]

\* A property value of a size the library knows is read as it was sent, if an
\* int holds it; another size is refused.
ValueParsed ==
  stage = "answered" /\ answer.kind = "value" /\ answer.content[1] \in I32 =>
    PropValue(ptp_get_payload_length, ptp_get_payload)
      = IF answer.content[2] \in {1, 2, 4} THEN answer.content[1] ELSE -1

\* What is parsed is what was packed: a structure, a description of a property
\* or its value.
ParsedAsPacked == StructureParsed /\ DescriptionParsed /\ ValueParsed

\* Each pixel of a live view frame is that of its place in the bitmap, although
\* every row writes one pixel into the next.
FrameCropped ==
  stage = "answered" /\ answer.kind = "bitmap" =>
    Cropped(answer.payload, FrameOf(ptp_get_payload))

\* A value that was set is reported as it was set.  ISO 640 has the code of
\* ISO 500 and is reported as that.
ShownAsSet ==
  stage = "reported" /\ value.set # 640 => value.shown = {value.set}
=============================================================================
