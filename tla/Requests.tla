------------------------------ MODULE Requests ------------------------------
(***************************************************************************)
(* The requests of src/bind.c, and the procedures of src/generic.c,        *)
(* src/liveview.c, src/ml.c, src/canon.c and src/operations.c that are     *)
(* several operations: taking a picture, bulb exposures, live view,        *)
(* downloading a file, sending firmware.  One request at a time; each of   *)
(* its operations may succeed, be refused by the camera or fail, and how   *)
(* its result is looked at differs.                                        *)
(***************************************************************************)
EXTENDS Integers, Sequences, FiniteSets

CONSTANTS
  Camera,        \* kinds of cameras that may be connected: see Kind
  ObjectSize,    \* sizes of the file on the camera, and of firmware files
  PieceSize,     \* max of ptp_download_object
  FirmwareMax,   \* EOS_FIRM_MAX
  NameLength,    \* EOS_NAME_LEN
  Word,          \* how many values an unsigned int has
  BufferSize,    \* PTP_DEFAULT_SIZE
  RequestLimit   \* bound: number of requests

\* What a device info leads ptp_device_type and ptp_check_opcode to.
\* "EOS_BMP" and "EOS_ML" are EOS cameras with a Magic Lantern operation.
Kind == {"EOS", "EOS_BMP", "EOS_ML", "other"}

ASSUME RequestsAssumption ==
  /\ Camera \subseteq Kind /\ Camera # {}
  /\ ObjectSize \subseteq Nat
  /\ PieceSize \in Nat \ {0} /\ BufferSize \in Nat /\ RequestLimit \in Nat
  /\ NameLength \in Nat /\ FirmwareMax \in Nat /\ FirmwareMax > NameLength
  /\ Word \in Nat /\ Word > FirmwareMax
-----------------------------------------------------------------------------
VARIABLES
  \* the runtime
  di,                     \* "null", "garbage" or the kind of camera it is of
  operation_kill_switch,  \* no operation is sent
  io_kill_switch,         \* there is no connection
  code,                   \* what ptp_get_return_code finds: "OK" or "other"
  data_length,            \* size of r->data
  \* the request
  request,                \* the last request
  steps,                  \* the operations it is made of
  next,                   \* the one to do next, or 0
  error,                  \* the last reply; "none" while a request runs
  read, written, closes,  \* ptp_download_object: offset, pieces, fclose calls
  sent, payload,          \* ptp_eos_update_firmware; read is the place in f
  \* the camera
  camera, size, shutter, vf_output, destination,
  image,                  \* the firmware it has, byte for byte
  \* history
  done,                   \* operations of this request the camera has done
  failed,                 \* one of them has failed
  requests

runtime == <<di, operation_kill_switch, code, data_length>>
transfer == <<read, written, closes, sent, payload, image>>
settings == <<shutter, vf_output, destination>>
vars == <<runtime, io_kill_switch, request, steps, next, error, transfer,
          camera, size, settings, done, failed, requests>>

\* An operation, and how its result is looked at: "rc", the result of
\* ptp_send; "code", ptp_get_return_code; "payload", the result and the length
\* of the payload; "none".
Do(op, arg, look) == [op |-> op, arg |-> arg, look |-> look]

\* A procedure: operations, or an answer without one.
Steps(seq) == [error |-> "PTP_OK", steps |-> seq]
Answer(e) == [error |-> e, steps |-> <<>>]

\* ptp_device_type: what is left in memory after a failed GetDeviceInfo may
\* look like any camera.
Kinds == IF di = "garbage" THEN Kind ELSE {di}
IsEos(kind) == kind \in {"EOS", "EOS_BMP", "EOS_ML"}
-----------------------------------------------------------------------------
(* The procedures, for a device info of some kind.                         *)

PreTakePicture(kind) ==
  IF IsEos(kind) THEN Steps(<<Do("release_on", 1, "rc")>>)
  ELSE Answer("PTP_OK")

\* Mutant of TakePicture: the shutter is not let go of altogether.
TakePictureHeld(kind) ==
  IF IsEos(kind)
  THEN Steps(<<Do("release_on", 2, "rc"), Do("release_off", 2, "rc")>>)
  ELSE Answer("PTP_UNSUPPORTED")

TakePicture(kind) ==
  IF IsEos(kind)
  THEN Steps(<<Do("release_on", 2, "rc"), Do("release_off", 2, "rc"),
               Do("release_off", 1, "rc")>>)
  ELSE Answer("PTP_UNSUPPORTED")

\* Mutant of BulbStart: the first result is not looked at.
BulbStartBlind(kind) ==
  IF IsEos(kind)
  THEN Steps(<<Do("release_on", 1, "none"), Do("release_on", 2, "code")>>)
  ELSE Answer("PTP_UNSUPPORTED")

BulbStart(kind) ==
  IF IsEos(kind)
  THEN Steps(<<Do("release_on", 1, "code"), Do("release_on", 2, "code")>>)
  ELSE Answer("PTP_UNSUPPORTED")

BulbStop(kind) ==
  IF IsEos(kind)
  THEN Steps(<<Do("release_off", 2, "code"), Do("release_off", 1, "code")>>)
  ELSE Answer("PTP_UNSUPPORTED")

\* The camera lists the operation, as all EOS kinds here do.
CancelAf(kind) ==
  IF IsEos(kind) THEN Steps(<<Do("AfCancel", 0, "code")>>)
  ELSE Answer("PTP_UNSUPPORTED")

\* ptp_mirror_up, ptp_mirror_down, ptp_drive_lens
EosOnly(kind, op, arg) ==
  IF IsEos(kind) THEN Steps(<<Do(op, arg, "rc")>>)
  ELSE Answer("PTP_UNSUPPORTED")

LiveviewInit(kind) ==
  LET eos == <<Do("VF_Output", 3, "rc"), Do("CaptureDestination", 4, "rc")>>
  IN CASE kind = "EOS_ML"  -> Answer("PTP_OK")
       [] kind = "EOS_BMP" -> Steps(<<Do("LiveBmpRam", 0, "rc")>> \o eos)
       [] kind = "EOS"     -> Steps(eos)
       [] OTHER            -> Answer("PTP_RUNTIME_ERR")

LiveviewDeinit(kind) ==
  CASE kind \in {"EOS_ML", "EOS_BMP"} -> Answer("PTP_OK")
    [] kind = "EOS" -> Steps(<<Do("CaptureDestination", 2, "rc"),
                               Do("PCHDDCapacity", 0, "rc")>>)
    [] OTHER -> Answer("PTP_RUNTIME_ERR")

\* ptp_set_generic_property for white balance: the first result is
\* overwritten; nothing is set on another camera.
SetWhiteBalance(kind) ==
  IF IsEos(kind)
  THEN Steps(<<Do("WhiteBalance", 0, "none"), Do("EVFWBMode", 0, "rc")>>)
  ELSE Answer("PTP_OK")

\* bind_set_property: a raw value; a name nothing is set for; a value that is
\* not in the tables, or not among those supported; white balance, and the
\* others.
SetProperty(kind) ==
  {Steps(<<Do("SetPropValue", 0, "rc")>>), Answer("PTP_UNSUPPORTED"),
   SetWhiteBalance(kind)}
  \cup (IF IsEos(kind) THEN {Answer("PTP_RUNTIME_ERR"), Answer("2")} ELSE {})

\* bind_get_events, bind_get_all_props
GetEvents(kind) ==
  IF IsEos(kind) THEN Steps(<<Do("GetEvent", 0, "rc")>>)
  ELSE Steps(<<Do("interrupt", 0, "event")>>)
GetAllProps(kind) ==
  IF IsEos(kind) THEN GetEvents(kind) ELSE Answer("PTP_OK")

\* ptp_ml_get_bmp_lv: each 100th call asks for the palette first, and does not
\* look whether it came.
GetBitmap ==
  LET frame == <<Do("LiveBmpRam", 1, "rc")>>
  IN {Steps(frame), Steps(<<Do("LiveBmpRam", 0, "none")>> \o frame)}

\* ptp_eos_update_firmware: the name is too long, or pieces are sent.
UpdateFirmware == {Answer("-1"), Steps(<<Do("UpdateFirmware", 0, "firmware")>>)}

\* Requests that are one operation, on any camera, alike to all that follows:
\* ptp_open_session, ptp_close_session, ptp_get_storage_ids,
\* ptp_get_storage_info, ptp_get_object_handles, ptp_get_object_info,
\* ptp_send_object_info, ptp_get_property, ptp_custom,
\* ptp_eos_set_remote_mode, ptp_eos_set_event_mode.
Single == {"one operation"}

\* Those that need a payload in the reply.
WithPayload == {"ptp_get_thumbnail", "ptp_get_partial_object"}

Procedure(name, kind) ==
  CASE name = "ptp_pre_take_picture" -> PreTakePicture(kind)
    [] name = "ptp_take_picture" -> TakePicture(kind)
    [] name = "ptp_bulb_start" -> BulbStart(kind)
    [] name = "ptp_bulb_stop" -> BulbStop(kind)
    [] name = "ptp_cancel_af" -> CancelAf(kind)
    [] name = "ptp_mirror_up" -> EosOnly(kind, "VF_Output", 3)
    [] name = "ptp_mirror_down" -> EosOnly(kind, "VF_Output", 0)
    [] name = "ptp_drive_lens" -> EosOnly(kind, "DriveLens", 0)
    [] name = "ptp_init_liveview" -> LiveviewInit(kind)
    [] name = "ptp_deinit_liveview" -> LiveviewDeinit(kind)
    [] name = "ptp_get_events" -> GetEvents(kind)
    [] name = "ptp_get_all_props" -> GetAllProps(kind)
    [] name = "ptp_ml_init_bmp_lv" -> Steps(<<Do("LiveBmpRam", 0, "rc")>>)
    [] name = "ptp_get_all_known" ->
         \* a camera with two properties
         Steps(<<Do("Single", 0, "rc"), Do("Single", 0, "rc")>>)
    [] name = "ptp_get_device_info" -> Steps(<<Do("GetDeviceInfo", 0, "rc")>>)
    [] name = "ptp_download_file" ->
         Steps(<<Do("GetPartialObject", 0, "piece")>>)
    [] name \in WithPayload -> Steps(<<Do("Get", 0, "payload")>>)
    [] name \in Single -> Steps(<<Do("Single", 0, "rc")>>)

Procedures(name, kind) ==
  CASE name = "ptp_set_property" -> SetProperty(kind)
    [] name = "ptp_ml_get_bmp_lv" -> GetBitmap
    [] name = "ptp_eos_update_firmware" -> UpdateFirmware
    [] OTHER -> {Procedure(name, kind)}

Requested == {"ptp_pre_take_picture", "ptp_take_picture", "ptp_bulb_start",
              "ptp_bulb_stop", "ptp_cancel_af", "ptp_mirror_up",
              "ptp_mirror_down", "ptp_drive_lens", "ptp_init_liveview",
              "ptp_deinit_liveview", "ptp_set_property",
              "ptp_get_device_info", "ptp_download_file", "ptp_get_events",
              "ptp_get_all_props", "ptp_ml_init_bmp_lv", "ptp_ml_get_bmp_lv",
              "ptp_get_all_known", "ptp_eos_update_firmware"}
             \cup WithPayload \cup Single
-----------------------------------------------------------------------------
(* A request.                                                              *)

\* What a piece of firmware has behind the name.
FirmwarePiece == FirmwareMax - NameLength

\* A transfer has not begun: the buffer for firmware has any bytes.
AnyBytes(length) == [i \in 1..length |-> -1]
NoTransfer(length) ==
  /\ read' = 0 /\ written' = <<>> /\ closes' = 0
  /\ sent' = 0 /\ payload' = AnyBytes(FirmwarePiece)
  /\ image' = AnyBytes(length)

\* bind_run_req finds the handler, which chooses the operations.  The first
\* bind_get_device_info allocates r->di before it is filled;
\* ptp_get_all_known needs it.
Request ==
  /\ next = 0 /\ requests < RequestLimit
  /\ \E name \in Requested, kind \in Kinds :
       /\ name = "ptp_get_all_known" => di # "null"
       /\ request' = name
       /\ \E p \in Procedures(name, kind) :
            /\ steps' = p.steps
            /\ next' = (IF p.steps = <<>> THEN 0 ELSE 1)
            /\ error' = (IF p.steps = <<>> THEN p.error ELSE "none")
       /\ di' = IF name = "ptp_get_device_info" /\ di = "null"
                THEN "garbage" ELSE di
  /\ NoTransfer(size)
  /\ done' = {} /\ failed' = FALSE /\ requests' = requests + 1
  /\ UNCHANGED <<operation_kill_switch, io_kill_switch, code, data_length,
                 camera, size, settings>>

\* The handler answers.
Reply(e) == error' = e /\ next' = 0

\* Mutant of Look: an operation that is not the last may end the request.
LookOnce(rc, c) ==
  LET look == steps[next].look IN
  IF look = "rc" /\ rc # "PTP_OK" THEN Reply(rc)
  ELSE IF look = "code" /\ c # "OK" THEN Reply("PTP_CHECK_CODE")
  ELSE Reply(rc)

\* What a handler does with the result rc of an operation, or with the return
\* code c that it finds in r->data.
Look(rc, c) ==
  LET look == steps[next].look IN
  IF look = "rc" /\ rc # "PTP_OK" THEN Reply(rc)
  ELSE IF look = "code" /\ c # "OK" THEN Reply("PTP_CHECK_CODE")
  ELSE IF next = Len(steps) THEN Reply(rc)
  ELSE next' = next + 1 /\ UNCHANGED error

\* What the camera does on an operation.
Effect(step) ==
  /\ shutter' = CASE step.op = "release_on" -> shutter \cup {step.arg}
                  [] step.op = "release_off" -> shutter \ {step.arg}
                  [] OTHER -> shutter
  /\ vf_output' = IF step.op = "VF_Output" THEN step.arg ELSE vf_output
  /\ destination' = IF step.op = "CaptureDestination" THEN step.arg
                    ELSE destination

\* A camera refuses what it does not know.
Standard == {"GetDeviceInfo", "GetPartialObject", "Get", "Single"}
Knows(op) == \/ op \in Standard
             \/ op = "LiveBmpRam" /\ camera = "EOS_BMP"
             \/ op # "LiveBmpRam" /\ IsEos(camera)

Looks(look) == next # 0 /\ steps[next].look = look
InRequest == Looks("rc") \/ Looks("code") \/ Looks("payload") \/ Looks("none")

\* The camera does the operation.  bind_get_device_info prints its text over
\* the reply in r->data.
Succeeds ==
  /\ InRequest /\ ~operation_kill_switch /\ Knows(steps[next].op)
  /\ Effect(steps[next])
  /\ done' = done \cup {next}
  /\ IF steps[next].op = "GetDeviceInfo" THEN di' = camera /\ code' = "other"
     ELSE code' = "OK" /\ UNCHANGED di
  /\ \/ Look("PTP_OK", "OK")
     \/ steps[next].look = "payload" /\ Reply("PTP_CHECK_CODE")
  /\ UNCHANGED <<operation_kill_switch, io_kill_switch, data_length, request,
                 steps, transfer, camera, size, failed, requests>>

\* The camera refuses it.
Refused ==
  /\ InRequest /\ ~operation_kill_switch
  /\ code' = "other" /\ failed' = TRUE
  /\ Look("PTP_CHECK_CODE", "other")
  /\ UNCHANGED <<operation_kill_switch, io_kill_switch, di, data_length,
                 request, steps, transfer, camera, size, settings, done,
                 requests>>

\* The transfer fails, before or after the camera has done the operation: all
\* operations stop, and r->data holds the command or part of a reply.
TransferFails ==
  /\ InRequest /\ ~operation_kill_switch
  /\ operation_kill_switch' = TRUE /\ failed' = TRUE
  /\ code' \in {"OK", "other"}
  /\ \/ UNCHANGED <<settings, done>>
     \/ /\ Knows(steps[next].op) /\ Effect(steps[next])
        /\ done' = done \cup {next}
  /\ Look("PTP_IO_ERR", code')
  /\ UNCHANGED <<di, io_kill_switch, data_length, request, steps, transfer,
                 camera, size, requests>>

\* ptp_send returns at once: r->data still holds the reply to another
\* operation.
Stopped ==
  /\ InRequest /\ operation_kill_switch
  /\ failed' = TRUE
  /\ Look("PTP_IO_ERR", code)
  /\ UNCHANGED <<runtime, io_kill_switch, request, steps, transfer, camera,
                 size, settings, done, requests>>
-----------------------------------------------------------------------------
(* ptp_download_object, called by bind_download_file.                      *)

\* What GetPartialObject brings from offset read.
Piece == IF size - read < PieceSize THEN size - read ELSE PieceSize

\* Mutant of LastPiece: any piece up to the maximum is taken for the last.
LastPieceAny(n) == n <= PieceSize

\* A piece shorter than what was asked for is the last.
LastPiece(n) == n # PieceSize

\* A piece is received, in a buffer that grows for it, and written.
TakePiece ==
  /\ Looks("piece") /\ ~operation_kill_switch
  /\ code' = "OK" /\ done' = {next}
  /\ data_length' = IF Piece > data_length THEN Piece ELSE data_length
  /\ read' = read + Piece
  /\ IF Piece = 0
     THEN \* the file is closed here and once more by bind_download_file
          closes' = 2 /\ Reply("PTP_OK") /\ UNCHANGED written
     ELSE /\ written' = Append(written, <<read, read + Piece>>)
          /\ IF LastPiece(Piece) THEN closes' = 1 /\ Reply("PTP_OK")
             ELSE UNCHANGED <<closes, next, error>>
  /\ UNCHANGED <<di, operation_kill_switch, io_kill_switch, request, steps,
                 sent, payload, image, camera, size, settings, failed,
                 requests>>

\* GetPartialObject is refused, fails or is not sent.
PieceFails ==
  /\ Looks("piece")
  /\ operation_kill_switch' \in {operation_kill_switch, TRUE}
  /\ code' \in IF operation_kill_switch THEN {code}
               ELSE IF operation_kill_switch' THEN {"OK", "other"}
               ELSE {"other"}
  /\ closes' = 1 /\ failed' = TRUE /\ Reply("-1")
  /\ UNCHANGED <<di, io_kill_switch, data_length, request, steps, read,
                 written, sent, payload, image, camera, size, settings, done,
                 requests>>
-----------------------------------------------------------------------------
(* ptp_eos_update_firmware.                                                *)

\* The buffer after fread, which leaves what is behind the end of the file.
Loaded == [i \in 1..FirmwarePiece |->
             IF read + i <= size THEN read + i ELSE payload[i]]

\* How much is sent of it, with the name: what is left of the file is taken
\* from the length, and not from the file's.
PieceLength ==
  IF sent + FirmwareMax > size THEN FirmwareMax - (size - sent)
  ELSE FirmwareMax

\* A piece is sent, from a buffer that grows for it, with the offset "sent".
SendPiece ==
  /\ Looks("firmware") /\ ~operation_kill_switch /\ Knows("UpdateFirmware")
  /\ code' = "OK" /\ done' = {next}
  /\ data_length' = IF PieceLength > data_length THEN PieceLength
                    ELSE data_length
  /\ payload' = Loaded
  /\ read' = IF read + FirmwarePiece < size THEN read + FirmwarePiece ELSE size
  /\ image' = [k \in DOMAIN image |->
                 IF k - sent \in 1..(PieceLength - NameLength)
                 THEN Loaded[k - sent] ELSE image[k]]
  /\ sent' = (sent + PieceLength - NameLength) % Word
  /\ IF sent' >= size THEN Reply("PTP_OK") ELSE UNCHANGED <<next, error>>
  /\ UNCHANGED <<di, operation_kill_switch, io_kill_switch, request, steps,
                 written, closes, camera, size, settings, failed, requests>>

\* The camera refuses a piece, or the transfer fails; no other is sent.
SendPieceFails ==
  /\ Looks("firmware") /\ failed' = TRUE
  /\ \/ /\ ~operation_kill_switch /\ code' = "other"
        /\ UNCHANGED operation_kill_switch /\ Reply("PTP_CHECK_CODE")
     \/ /\ operation_kill_switch' = TRUE
        /\ code' \in IF operation_kill_switch THEN {code} ELSE {"OK", "other"}
        /\ Reply("PTP_IO_ERR")
  /\ UNCHANGED <<di, io_kill_switch, data_length, request, steps, transfer,
                 camera, size, settings, done, requests>>
-----------------------------------------------------------------------------
\* ptp_get_event: without a connection nothing is read, and a device that is
\* gone is an error.  A container from the interrupt endpoint is left in
\* r->data, and its length is the result; none in a second, or another error,
\* gives 0, for which bind_get_events has an answer of 0 as well.
ReadEvent ==
  /\ Looks("event")
  /\ \/ /\ io_kill_switch /\ failed' = TRUE /\ Reply("-1")
        /\ UNCHANGED <<code, done>>
     \/ /\ ~io_kill_switch /\ failed' = TRUE
        /\ Reply("PTP_IO_ERR") \/ Reply("PTP_OK")
        /\ UNCHANGED <<code, done>>
     \/ /\ ~io_kill_switch /\ Reply("PTP_OK")
        /\ done' = {next} /\ code' \in {"OK", "other"}
        /\ UNCHANGED failed
     \/ /\ ~io_kill_switch /\ Reply("PTP_OK")
        /\ UNCHANGED <<code, done, failed>>
  /\ UNCHANGED <<di, operation_kill_switch, io_kill_switch, data_length,
                 request, steps, transfer, camera, size, settings, requests>>
-----------------------------------------------------------------------------
(* bind_connect, bind_disconnect.                                          *)

\* A new connection, perhaps to another camera; what the runtime knows of the
\* last one stays.  A buffer that has grown is taken for a runtime that is not
\* initialized; else ptp_comm_init panics if there is a connection, which is
\* left out.  There may be no camera, or none that can be opened.
Connect ==
  /\ next = 0 /\ requests < RequestLimit
  /\ request' = "ptp_connect" /\ steps' = <<>> /\ requests' = requests + 1
  /\ \/ /\ data_length # BufferSize /\ error' = "PTP_OUT_OF_MEM"
        /\ UNCHANGED <<operation_kill_switch, io_kill_switch, camera, size,
                       settings>>
     \/ /\ data_length = BufferSize /\ io_kill_switch
        /\ error' \in {"PTP_NO_DEVICE", "PTP_OPEN_FAIL"}
        /\ UNCHANGED <<operation_kill_switch, io_kill_switch, camera, size,
                       settings>>
     \/ /\ data_length = BufferSize /\ io_kill_switch
        /\ error' = "PTP_OK"
        /\ operation_kill_switch' = FALSE /\ io_kill_switch' = FALSE
        /\ camera' \in Camera /\ size' \in ObjectSize
        /\ shutter' = {} /\ vf_output' = 0 /\ destination' = 2
  /\ NoTransfer(size')
  /\ done' = {} /\ failed' = FALSE
  /\ UNCHANGED <<di, code, data_length, next>>

\* The interface may not be released; the connection is over all the same.
Disconnect ==
  /\ next = 0 /\ requests < RequestLimit /\ ~io_kill_switch
  /\ request' = "ptp_disconnect" /\ steps' = <<>>
  /\ requests' = requests + 1
  /\ error' \in {"PTP_OK", "1"}
  /\ operation_kill_switch' = TRUE /\ io_kill_switch' = TRUE
  /\ NoTransfer(size)
  /\ done' = {} /\ failed' = FALSE
  /\ UNCHANGED <<di, code, data_length, next, camera, size, settings>>

\* All requests are answered.
Finished == next = 0 /\ requests = RequestLimit /\ UNCHANGED vars
-----------------------------------------------------------------------------
\* After bind_init and a first connection.
Init ==
  /\ di = "null" /\ code = "other"
  /\ operation_kill_switch = FALSE /\ io_kill_switch = FALSE
  /\ data_length = BufferSize
  /\ request = "ptp_connect" /\ steps = <<>> /\ next = 0 /\ error = "PTP_OK"
  /\ camera \in Camera /\ size \in ObjectSize
  /\ read = 0 /\ written = <<>> /\ closes = 0
  /\ sent = 0 /\ payload = AnyBytes(FirmwarePiece) /\ image = AnyBytes(size)
  /\ shutter = {} /\ vf_output = 0 /\ destination = 2
  /\ done = {} /\ failed = FALSE /\ requests = 0

Operation == Succeeds \/ Refused \/ TransferFails \/ Stopped
Pieces == TakePiece \/ PieceFails \/ SendPiece \/ SendPieceFails

Next == \/ Request \/ Operation \/ Pieces \/ ReadEvent
        \/ Connect \/ Disconnect \/ Finished

Spec == Init /\ [][Next]_vars
-----------------------------------------------------------------------------
(* Correctness.                                                            *)

\* A request answers "error": 0 only if the camera has done each of its
\* operations, however the results are looked at.  The first of the two that
\* set the white balance is the exception, and the palette of Magic Lantern;
\* and of the interrupt endpoint 0 says nothing.
SuccessMeansDone ==
  error = "PTP_OK" =>
    \A i \in DOMAIN steps :
      steps[i].look \notin {"none", "event"} => i \in done

\* After such an answer the camera is as the request says: the shutter is let
\* go of after a picture or a bulb exposure, held in both ways during one, and
\* live view has the mirror and the destination it needs.
CameraAsAsked ==
  error = "PTP_OK" /\ steps # <<>> =>
    CASE request \in {"ptp_take_picture", "ptp_bulb_stop"} -> shutter = {}
      [] request = "ptp_bulb_start" -> shutter = {1, 2}
      [] request = "ptp_mirror_down" -> vf_output = 0
      [] request = "ptp_mirror_up" -> vf_output = 3
      [] request = "ptp_init_liveview" -> vf_output = 3 /\ destination = 4
      [] request = "ptp_deinit_liveview" -> destination = 2
      [] OTHER -> TRUE

\* Once an operation of a request has failed the camera does no other for it,
\* although some handlers look at a return code that may be that of an earlier
\* reply.  White balance and the palette of Magic Lantern are the exceptions.
NothingAfterFailure ==
  [][failed /\ next # 0
       /\ request \notin {"ptp_set_property", "ptp_ml_get_bmp_lv"}
       => done' \subseteq done]_vars

\* A download that answers "error": 0 has written the whole object, each byte
\* once and in its place.
ObjectWhole ==
  request = "ptp_download_file" /\ error = "PTP_OK" =>
    /\ read = size
    /\ \A i \in DOMAIN written :
         /\ written[i][1] = IF i = 1 THEN 0 ELSE written[i - 1][2]
         /\ i = Len(written) => written[i][2] = size
    /\ size > 0 => written # <<>>

\* A firmware file has arrived whole, each byte in its place, when the update
\* returns 0, if what is left of it for the last piece is between the length
\* of a name and half a piece.  Of whole pieces it does not return.
FirmwareWhole ==
  LET rest == size % FirmwarePiece IN
  /\ request = "ptp_eos_update_firmware" /\ error = "PTP_OK"
  /\ 2 * rest <= FirmwarePiece
  /\ rest >= NameLength \/ size = rest
  => image = [i \in 1..size |-> i]

\* What is transferred in pieces arrives whole.
FileWhole == ObjectWhole /\ FirmwareWhole
=============================================================================
