--------------------------- MODULE Requests_proof ---------------------------
(***************************************************************************)
(* Proofs about Requests, for any cameras, any sizes of files and of       *)
(* buffers, and any number of requests: what an answer of 0 says about the *)
(* camera and about the file, although the handlers look at the results of *)
(* their operations in four different ways.                                *)
(***************************************************************************)
EXTENDS Requests, SequenceTheorems, TLAPS

Looking == {"rc", "code", "payload", "none", "piece", "firmware", "event"}

\* The operations of the procedures.
Named == {"release_on", "release_off", "AfCancel", "VF_Output", "DriveLens",
          "CaptureDestination", "PCHDDCapacity", "LiveBmpRam", "SetPropValue",
          "WhiteBalance", "EVFWBMode", "GetEvent", "interrupt", "Single",
          "UpdateFirmware", "GetDeviceInfo", "GetPartialObject", "Get"}

\* One of them.  Only the shutter's argument matters.
Op == {s \in [op : Named, arg : Nat, look : Looking] :
         s.op \in {"release_on", "release_off"} => s.arg \in {1, 2}}

\* The requests that go on after an operation that failed.
GoesOn == {"ptp_set_property", "ptp_ml_get_bmp_lv"}

\* How the only operation of a procedure may be looked at.
Lone == {"payload", "piece", "firmware", "event"}

\* What all procedures have in common.
Common(name, s) ==
  /\ s \in Seq(Op)
  /\ \A i \in 1..Len(s) : s[i].look \in Lone => Len(s) = 1
  /\ name \notin GoesOn => \A i \in 1..Len(s) : s[i].look # "none"
  /\ \A i \in 1..Len(s) : s[i].look = "none" => i < Len(s)
  /\ name = "ptp_download_file" <=>
       \E i \in 1..Len(s) : s[i].look = "piece"
  /\ name = "ptp_eos_update_firmware" /\ s # <<>> =>
       s = <<Do("UpdateFirmware", 0, "firmware")>>
  /\ (\E i \in 1..Len(s) : s[i].look = "firmware") =>
       name = "ptp_eos_update_firmware"

\* What CameraAsAsked needs to know of some.
Asked(name, s) ==
  /\ name = "ptp_take_picture" =>
       s = <<Do("release_on", 2, "rc"), Do("release_off", 2, "rc"),
             Do("release_off", 1, "rc")>>
  /\ name = "ptp_bulb_stop" =>
       s = <<Do("release_off", 2, "code"), Do("release_off", 1, "code")>>
  /\ name = "ptp_bulb_start" =>
       s = <<Do("release_on", 1, "code"), Do("release_on", 2, "code")>>
  /\ name = "ptp_mirror_up" => s = <<Do("VF_Output", 3, "rc")>>
  /\ name = "ptp_mirror_down" => s = <<Do("VF_Output", 0, "rc")>>
  /\ name = "ptp_init_liveview" =>
       \/ s = <<Do("VF_Output", 3, "rc"), Do("CaptureDestination", 4, "rc")>>
       \/ s = <<Do("LiveBmpRam", 0, "rc"), Do("VF_Output", 3, "rc"),
                Do("CaptureDestination", 4, "rc")>>
  /\ name = "ptp_deinit_liveview" =>
       s = <<Do("CaptureDestination", 2, "rc"), Do("PCHDDCapacity", 0, "rc")>>

\* What a procedure of one operation has to be for Common to hold.
LEMMA CommonOne ==
  ASSUME NEW name, NEW a \in Op,
         a.look # "none",
         name = "ptp_download_file" <=> a.look = "piece",
         name = "ptp_eos_update_firmware" <=> a.look = "firmware",
         a.look = "firmware" => a = Do("UpdateFirmware", 0, "firmware")
  PROVE  Common(name, <<a>>)
<1> DEFINE s == <<a>>
<1>1. s \in Seq(Op) /\ Len(s) = 1 /\ s[1] = a
  OBVIOUS
<1>2. \A i \in 1..Len(s) : i = 1
  BY <1>1
<1> HIDE DEF s
<1> QED BY <1>1, <1>2 DEF Common, s

\* The same for two operations.
LEMMA CommonTwo ==
  ASSUME NEW name, NEW a \in Op, NEW b \in Op,
         name \notin {"ptp_download_file", "ptp_eos_update_firmware"},
         a.look \notin Lone, b.look \notin Lone, b.look # "none",
         a.look = "none" => name \in GoesOn
  PROVE  Common(name, <<a, b>>)
<1> DEFINE s == <<a, b>>
<1>1. s \in Seq(Op) /\ Len(s) = 2 /\ s[1] = a /\ s[2] = b
  OBVIOUS
<1>2. \A i \in 1..Len(s) : i = 1 \/ i = 2
  BY <1>1
<1> HIDE DEF s
<1> QED BY <1>1, <1>2 DEF Common, Lone

\* And for three, which are all looked at by their result.
LEMMA CommonThree ==
  ASSUME NEW name, NEW a \in Op, NEW b \in Op, NEW c \in Op,
         name \notin {"ptp_download_file", "ptp_eos_update_firmware"},
         a.look = "rc", b.look = "rc", c.look = "rc"
  PROVE  Common(name, <<a, b, c>>)
<1> DEFINE s == <<a, b, c>>
<1>1. /\ s \in Seq(Op) /\ Len(s) = 3
      /\ s[1] = a /\ s[2] = b /\ s[3] = c
  OBVIOUS
<1>2. \A i \in 1..Len(s) : i = 1 \/ i = 2 \/ i = 3
  BY <1>1
<1> HIDE DEF s
<1> QED BY <1>1, <1>2 DEF Common, Lone

\* A request that makes no operation satisfies Common, except a download.
LEMMA CommonNone ==
  ASSUME NEW name, name # "ptp_download_file"
  PROVE  Common(name, <<>>)
BY DEF Common

\* Operations put before others make one tuple.
LEMMA PairJoined ==
  ASSUME NEW S, NEW a \in S, NEW b \in S
  PROVE  <<a>> \o <<b>> = <<a, b>>
<1> DEFINE s == <<a>> \o <<b>>
           t == <<a, b>>
<1>1. s \in Seq(S) /\ Len(s) = 2 /\ s[1] = a /\ s[2] = b
  OBVIOUS
<1>2. t \in Seq(S) /\ Len(t) = 2 /\ t[1] = a /\ t[2] = b
  OBVIOUS
<1> HIDE DEF s, t
<1>3. s = t
  BY <1>1, <1>2, SeqEqual
<1> QED BY <1>3 DEF s, t

\* The same for two operations behind one.
LEMMA TripleJoined ==
  ASSUME NEW S, NEW a \in S, NEW b \in S, NEW c \in S
  PROVE  <<a>> \o <<b, c>> = <<a, b, c>>
<1> DEFINE s == <<a>> \o <<b, c>>
           t == <<a, b, c>>
<1>1. s \in Seq(S) /\ Len(s) = 3 /\ s[1] = a /\ s[2] = b /\ s[3] = c
  OBVIOUS
<1>2. t \in Seq(S) /\ Len(t) = 3 /\ t[1] = a /\ t[2] = b /\ t[3] = c
  OBVIOUS
<1> HIDE DEF s, t
<1>3. \A i \in 1..Len(s) : s[i] = t[i]
  BY <1>1, <1>2
<1>4. s = t
  BY <1>1, <1>2, <1>3, SeqEqual
<1> QED BY <1>4 DEF s, t

\* Do builds operations.
LEMMA DoOp ==
  ASSUME NEW op \in Named, NEW arg \in Nat, NEW look \in Looking,
         op \notin {"release_on", "release_off"} \/ arg \in {1, 2}
  PROVE  /\ Do(op, arg, look) \in Op
         /\ Do(op, arg, look).op = op /\ Do(op, arg, look).arg = arg
         /\ Do(op, arg, look).look = look
BY DEF Do, Op

\* Each procedure is as Common and Asked say, whatever the camera.
LEMMA ProcedureShape ==
  ASSUME NEW name \in Requested, NEW kind, NEW p \in Procedures(name, kind)
  PROVE  /\ Common(name, p.steps)
         /\ p.steps # <<>> => Asked(name, p.steps)
<1> DEFINE Good(q) == /\ Common(name, q.steps)
                      /\ q.steps # <<>> => Asked(name, q.steps)
<1> USE DEF Looking, Named
<1>1. CASE name \in {"ptp_pre_take_picture", "ptp_cancel_af", "ptp_drive_lens"}
  <2>1. p = Procedure(name, kind)
    BY <1>1 DEF Procedures
  <2>2. PICK a \in Op : /\ p.steps = <<>> \/ p.steps = <<a>>
                        /\ a.look \in {"rc", "code"}
    <3>1. CASE name = "ptp_pre_take_picture"
      BY <2>1, <3>1, DoOp
         DEF Procedure, WithPayload, Single, PreTakePicture, Steps, Answer
    <3>2. CASE name = "ptp_cancel_af"
      BY <2>1, <3>2, DoOp
         DEF Procedure, WithPayload, Single, CancelAf, Steps, Answer
    <3>3. CASE name = "ptp_drive_lens"
      BY <2>1, <3>3, DoOp
         DEF Procedure, WithPayload, Single, EosOnly, Steps, Answer
    <3> QED BY <1>1, <3>1, <3>2, <3>3
  <2>3. Common(name, <<>>) /\ Common(name, <<a>>)
    BY <1>1, <2>2, CommonOne, CommonNone
  <2> QED BY <1>1, <2>2, <2>3 DEF Asked
<1>2. CASE name = "ptp_take_picture"
  <2> DEFINE a == Do("release_on", 2, "rc")
             b == Do("release_off", 2, "rc")
             c == Do("release_off", 1, "rc")
  <2>1. a \in Op /\ b \in Op /\ c \in Op
        /\ a.look = "rc" /\ b.look = "rc" /\ c.look = "rc"
    BY DoOp
  <2>2. Common(name, <<a, b, c>>)
    <3> HIDE DEF a, b, c
    <3> QED BY <1>2, <2>1, CommonThree
  <2>3. p.steps = <<>> \/ p.steps = <<a, b, c>>
    BY <1>2
       DEF Procedures, Procedure, WithPayload, Single, TakePicture, Steps,
           Answer
  <2>4. Common(name, <<>>)
    BY <1>2, CommonNone
  <2> QED BY <1>2, <2>2, <2>3, <2>4 DEF Asked
<1>3. CASE name = "ptp_bulb_start"
  <2> DEFINE a == Do("release_on", 1, "code")
             b == Do("release_on", 2, "code")
  <2>1. a \in Op /\ b \in Op /\ a.look = "code" /\ b.look = "code"
    BY DoOp
  <2>2. Common(name, <<a, b>>)
    <3> HIDE DEF a, b
    <3> QED BY <1>3, <2>1, CommonTwo DEF Lone
  <2>3. p.steps = <<>> \/ p.steps = <<a, b>>
    BY <1>3
       DEF Procedures, Procedure, WithPayload, Single, BulbStart, Steps, Answer
  <2>4. Common(name, <<>>)
    BY <1>3, CommonNone
  <2> QED BY <1>3, <2>2, <2>3, <2>4 DEF Asked
<1>4. CASE name = "ptp_bulb_stop"
  <2> DEFINE a == Do("release_off", 2, "code")
             b == Do("release_off", 1, "code")
  <2>1. a \in Op /\ b \in Op /\ a.look = "code" /\ b.look = "code"
    BY DoOp
  <2>2. Common(name, <<a, b>>)
    <3> HIDE DEF a, b
    <3> QED BY <1>4, <2>1, CommonTwo DEF Lone
  <2>3. p.steps = <<>> \/ p.steps = <<a, b>>
    BY <1>4
       DEF Procedures, Procedure, WithPayload, Single, BulbStop, Steps, Answer
  <2>4. Common(name, <<>>)
    BY <1>4, CommonNone
  <2> QED BY <1>4, <2>2, <2>3, <2>4 DEF Asked
<1>5. CASE name \in {"ptp_mirror_up", "ptp_mirror_down"}
  <2> DEFINE up == IF name = "ptp_mirror_up" THEN 3 ELSE 0
             a == Do("VF_Output", up, "rc")
  <2>1. a \in Op /\ a.look = "rc"
    BY DoOp
  <2>2. Common(name, <<a>>) /\ Common(name, <<>>)
    <3> HIDE DEF a
    <3> QED BY <1>5, <2>1, CommonOne, CommonNone
  <2>3. p.steps = <<>> \/ p.steps = <<a>>
    <3>1. CASE name = "ptp_mirror_up"
      BY <3>1 DEF Procedures, Procedure, WithPayload, Single, EosOnly, Steps,
                  Answer
    <3>2. CASE name = "ptp_mirror_down"
      BY <3>2 DEF Procedures, Procedure, WithPayload, Single, EosOnly, Steps,
                  Answer
    <3> QED BY <1>5, <3>1, <3>2
  <2> QED BY <1>5, <2>2, <2>3 DEF Asked
<1>6. CASE name = "ptp_init_liveview"
  <2> DEFINE a == Do("LiveBmpRam", 0, "rc")
             b == Do("VF_Output", 3, "rc")
             c == Do("CaptureDestination", 4, "rc")
  <2>1. a \in Op /\ b \in Op /\ c \in Op
        /\ a.look = "rc" /\ b.look = "rc" /\ c.look = "rc"
    BY DoOp
  <2>2. <<a>> \o <<b, c>> = <<a, b, c>>
    <3> HIDE DEF a, b, c
    <3> QED BY <2>1, TripleJoined
  <2>3. p.steps \in {<<>>, <<b, c>>, <<a>> \o <<b, c>>}
    BY <1>6
       DEF Procedures, Procedure, WithPayload, Single, LiveviewInit, Steps,
           Answer
  <2>4. Common(name, <<a, b, c>>) /\ Common(name, <<b, c>>)
    <3> HIDE DEF a, b, c
    <3> QED BY <1>6, <2>1, CommonThree, CommonTwo DEF Lone
  <2>5. Common(name, <<>>)
    BY <1>6, CommonNone
  <2> QED BY <1>6, <2>2, <2>3, <2>4, <2>5 DEF Asked
<1>7. CASE name = "ptp_deinit_liveview"
  <2> DEFINE a == Do("CaptureDestination", 2, "rc")
             b == Do("PCHDDCapacity", 0, "rc")
  <2>1. a \in Op /\ b \in Op /\ a.look = "rc" /\ b.look = "rc"
    BY DoOp
  <2>2. Common(name, <<a, b>>)
    <3> HIDE DEF a, b
    <3> QED BY <1>7, <2>1, CommonTwo DEF Lone
  <2>3. p.steps = <<>> \/ p.steps = <<a, b>>
    BY <1>7
       DEF Procedures, Procedure, WithPayload, Single, LiveviewDeinit, Steps,
           Answer
  <2>4. Common(name, <<>>)
    BY <1>7, CommonNone
  <2> QED BY <1>7, <2>2, <2>3, <2>4 DEF Asked
<1>8. CASE name = "ptp_set_property"
  <2> DEFINE a == Do("SetPropValue", 0, "rc")
             b == Do("WhiteBalance", 0, "none")
             c == Do("EVFWBMode", 0, "rc")
  <2>1. a \in Op /\ b \in Op /\ c \in Op
        /\ a.look = "rc" /\ b.look = "none" /\ c.look = "rc"
    BY DoOp
  <2>2. p.steps \in {<<>>, <<a>>, <<b, c>>}
    BY <1>8 DEF Procedures, SetProperty, SetWhiteBalance, Steps, Answer
  <2>3. Common(name, <<a>>) /\ Common(name, <<b, c>>) /\ Common(name, <<>>)
    <3> HIDE DEF a, b, c
    <3> QED BY <1>8, <2>1, CommonOne, CommonTwo, CommonNone
            DEF Lone, GoesOn
  <2> QED BY <1>8, <2>2, <2>3 DEF Asked
<1>9. CASE name = "ptp_ml_get_bmp_lv"
  <2> DEFINE a == Do("LiveBmpRam", 1, "rc")
             b == Do("LiveBmpRam", 0, "none")
  <2>1. a \in Op /\ b \in Op /\ a.look = "rc" /\ b.look = "none"
    BY DoOp
  <2>2. <<b>> \o <<a>> = <<b, a>>
    <3> HIDE DEF a, b
    <3> QED BY <2>1, PairJoined
  <2>3. p.steps \in {<<a>>, <<b>> \o <<a>>}
    BY <1>9 DEF Procedures, GetBitmap, Steps
  <2>4. Common(name, <<a>>) /\ Common(name, <<b, a>>)
    <3> HIDE DEF a, b
    <3> QED BY <1>9, <2>1, CommonOne, CommonTwo DEF Lone, GoesOn
  <2> QED BY <1>9, <2>2, <2>3, <2>4 DEF Asked
<1>10. CASE name = "ptp_eos_update_firmware"
  <2> DEFINE a == Do("UpdateFirmware", 0, "firmware")
  <2>1. a \in Op /\ a.look = "firmware"
    BY DoOp
  <2>2. p.steps \in {<<>>, <<a>>}
    BY <1>10 DEF Procedures, UpdateFirmware, Steps, Answer
  <2>3. Common(name, <<a>>) /\ Common(name, <<>>)
    BY <1>10, <2>1, CommonOne, CommonNone
  <2> QED BY <1>10, <2>2, <2>3 DEF Asked
<1>11. CASE name = "ptp_download_file"
  <2> DEFINE a == Do("GetPartialObject", 0, "piece")
  <2>1. a \in Op /\ a.look = "piece"
    BY DoOp
  <2>2. p.steps = <<a>>
    BY <1>11 DEF Procedures, Procedure, WithPayload, Single, Steps
  <2>3. Common(name, <<a>>)
    <3> HIDE DEF a
    <3> QED BY <1>11, <2>1, CommonOne
  <2> QED BY <1>11, <2>2, <2>3 DEF Asked
<1>12. CASE name = "ptp_get_all_known"
  <2> DEFINE a == Do("Single", 0, "rc")
  <2>1. a \in Op /\ a.look = "rc"
    BY DoOp
  <2>2. p.steps = <<a, a>>
    BY <1>12 DEF Procedures, Procedure, WithPayload, Single, Steps
  <2>3. Common(name, <<a, a>>)
    <3> HIDE DEF a
    <3> QED BY <1>12, <2>1, CommonTwo DEF Lone
  <2> QED BY <1>12, <2>2, <2>3 DEF Asked
<1>13. CASE name \in {"ptp_get_device_info", "ptp_ml_init_bmp_lv",
                      "ptp_get_events", "ptp_get_all_props"}
                     \cup WithPayload \cup Single
  <2>1. PICK a \in Op : /\ p.steps = <<>> \/ p.steps = <<a>>
                        /\ a.look \in {"rc", "payload", "event"}
    <3>1. CASE name = "ptp_get_device_info"
      BY <3>1, DoOp DEF Procedures, Procedure, WithPayload, Single, Steps
    <3>2. CASE name = "ptp_ml_init_bmp_lv"
      BY <3>2, DoOp DEF Procedures, Procedure, WithPayload, Single, Steps
    <3>3. CASE name = "ptp_get_events"
      BY <3>3, DoOp
         DEF Procedures, Procedure, WithPayload, Single, GetEvents, Steps
    <3>4. CASE name = "ptp_get_all_props"
      BY <3>4, DoOp
         DEF Procedures, Procedure, WithPayload, Single, GetAllProps,
                GetEvents, Steps, Answer
    <3>5. CASE name \in WithPayload
      <4> DEFINE a == Do("Get", 0, "payload")
      <4>1. a \in Op /\ a.look = "payload"
        BY DoOp
      <4>2. p.steps = <<a>>
        <5>1. CASE name = "ptp_get_thumbnail"
          BY <5>1 DEF Procedures, Procedure, WithPayload, Single, Steps
        <5>2. CASE name = "ptp_get_partial_object"
          BY <5>2 DEF Procedures, Procedure, WithPayload, Single, Steps
        <5> QED BY <3>5, <5>1, <5>2 DEF WithPayload
      <4> HIDE DEF a
      <4> QED BY <4>1, <4>2
    <3>6. CASE name \in Single
      <4> DEFINE a == Do("Single", 0, "rc")
      <4>1. a \in Op /\ a.look = "rc"
        BY DoOp
      <4>2. p.steps = <<a>>
        <5>1. name = "one operation"
          BY <3>6 DEF Single
        <5>2. p = Procedure("one operation", kind)
          BY <5>1 DEF Procedures
        <5>3. "one operation" \in Single /\ "one operation" \notin WithPayload
          BY DEF Single, WithPayload
        <5>4. Procedure("one operation", kind)
                = Steps(<<Do("Single", 0, "rc")>>)
          BY <5>3 DEF Procedure
        <5>5. Steps(<<a>>).steps = <<a>>
          BY DEF Steps
        <5>6. p = Steps(<<a>>)
          BY <5>2, <5>4
        <5> QED BY <5>5, <5>6
      <4> HIDE DEF a
      <4> QED BY <4>1, <4>2
    <3> QED BY <1>13, <3>1, <3>2, <3>3, <3>4, <3>5, <3>6
  <2>2. Common(name, <<>>) /\ Common(name, <<a>>)
    BY <1>13, <2>1, CommonOne, CommonNone DEF WithPayload, Single
  <2> QED BY <1>13, <2>1, <2>2 DEF Asked, WithPayload, Single
<1> QED BY <1>1, <1>2, <1>3, <1>4, <1>5, <1>6, <1>7, <1>8, <1>9, <1>10,
           <1>11, <1>12, <1>13 DEF Requested
-----------------------------------------------------------------------------
(* What holds while a request runs.                                        *)

\* The shapes of the variables the properties speak of.
Shapes ==
  /\ next \in 0..Len(steps)
  /\ next # 0 => error = "none"
  /\ operation_kill_switch \in BOOLEAN /\ failed \in BOOLEAN
  /\ di \in Kind \cup {"null", "garbage"} /\ camera \in Camera
  /\ shutter \subseteq {1, 2}

\* The operations are those of a procedure for the request.
FromProcedure ==
  /\ Common(request, steps)
  /\ steps # <<>> => Asked(request, steps)

\* An operation the request has gone past was done, unless nothing looked at
\* its result or all operations are stopped: then no answer can be 0.
DoneSoFar ==
  \A i \in 1..Len(steps) :
    i < next /\ steps[i].look # "none" => i \in done \/ operation_kill_switch

\* A request that goes on after a failure finds everything stopped, and has
\* its first operation behind it.
FailedStops ==
  failed /\ next # 0 /\ request \notin GoesOn =>
    operation_kill_switch /\ next > 1

\* Where the camera is in the middle of a request.
CameraSoFar ==
  ~operation_kill_switch =>
    /\ request = "ptp_take_picture" /\ next = 3 => 2 \notin shutter
    /\ request = "ptp_bulb_stop" /\ next = 2 => 2 \notin shutter
    /\ request = "ptp_bulb_start" /\ next = 2 => 1 \in shutter
    /\ request = "ptp_init_liveview" /\ next # 0 /\ next = Len(steps) =>
         vf_output = 3
    /\ request = "ptp_deinit_liveview" /\ next = 2 => destination = 2

\* What SuccessMeansDone, CameraAsAsked and NothingAfterFailure rest on.
StepsInv ==
  /\ Shapes /\ FromProcedure /\ DoneSoFar /\ FailedStops /\ CameraSoFar
  /\ SuccessMeansDone /\ CameraAsAsked

\* What the steps inside a request leave alone.
InsideFrame ==
  UNCHANGED <<request, steps, camera, size>>

\* The operation to do next.
LEMMA NextOp ==
  ASSUME Shapes, FromProcedure, next # 0
  PROVE  /\ next \in 1..Len(steps) /\ steps[next] \in Op /\ steps # <<>>
         /\ Len(steps) \in Nat /\ DOMAIN steps = 1..Len(steps)
         /\ steps[next].look \in Lone => Len(steps) = 1 /\ next = 1
<1>1. steps \in Seq(Op)
  BY DEF FromProcedure, Common
<1>2. Len(steps) \in Nat /\ DOMAIN steps = 1..Len(steps)
  BY <1>1
<1>3. next \in 1..Len(steps)
  BY <1>2 DEF Shapes
<1>4. steps # <<>> /\ steps[next] \in Op
  BY <1>1, <1>3
<1>5. steps[next].look \in Lone => Len(steps) = 1
  BY <1>3 DEF FromProcedure, Common
<1> QED BY <1>2, <1>3, <1>4, <1>5

\* A download and an update are not done in the way of the others.
LEMMA NotInPieces ==
  ASSUME Shapes, FromProcedure, next # 0
  PROVE  /\ request = "ptp_download_file" => steps[next].look = "piece"
         /\ request = "ptp_eos_update_firmware"
              => steps[next].look = "firmware"
         /\ steps[next].look = "piece" => request = "ptp_download_file"
         /\ steps[next].look = "firmware"
              => request = "ptp_eos_update_firmware"
         /\ steps[next].look = "none"
              => request \in GoesOn /\ next < Len(steps)
<1>1. next \in 1..Len(steps) /\ steps # <<>>
  BY NextOp
<1>2. ASSUME request = "ptp_download_file"
      PROVE  steps[next].look = "piece"
  <2>1. PICK i \in 1..Len(steps) : steps[i].look = "piece"
    BY <1>2 DEF FromProcedure, Common
  <2>2. Len(steps) = 1
    BY <2>1 DEF FromProcedure, Common, Lone
  <2> QED BY <1>1, <2>1, <2>2
<1>3. ASSUME request = "ptp_eos_update_firmware"
      PROVE  steps[next].look = "firmware"
  <2>1. steps = <<Do("UpdateFirmware", 0, "firmware")>>
    BY <1>1, <1>3 DEF FromProcedure, Common
  <2>2. next = 1 /\ steps[1] = Do("UpdateFirmware", 0, "firmware")
    BY <1>1, <2>1
  <2> QED BY <2>2 DEF Do
<1> QED BY <1>1, <1>2, <1>3 DEF FromProcedure, Common

\* A failed result ends the request, unless the return code that is looked at
\* is good, or nothing is looked at; then the answer is still to come.
LEMMA LookFailed ==
  ASSUME Shapes, FromProcedure, next # 0, InRequest,
         NEW rc \in {"PTP_CHECK_CODE", "PTP_IO_ERR"}, NEW c, Look(rc, c)
  PROVE  \/ next' = 0 /\ error' # "PTP_OK"
         \/ /\ next' = next + 1 /\ next < Len(steps) /\ error' = error
            /\ \/ steps[next].look = "none" /\ request \in GoesOn
               \/ steps[next].look = "code" /\ c = "OK"
<1>1. /\ next \in 1..Len(steps) /\ Len(steps) \in Nat
      /\ steps[next].look \in Lone => Len(steps) = 1 /\ next = 1
  BY NextOp
<1>2. steps[next].look \in {"rc", "code", "payload", "none"}
  BY DEF InRequest, Looks
<1>3. steps[next].look = "none" => request \in GoesOn
  BY NotInPieces
<1>4. next # Len(steps) => next < Len(steps)
  BY <1>1
<1>5. CASE steps[next].look = "rc"
  BY <1>5 DEF Look, Reply
<1>6. CASE steps[next].look = "code"
  BY <1>4, <1>6 DEF Look, Reply
<1>7. CASE steps[next].look = "none"
  BY <1>3, <1>4, <1>7 DEF Look, Reply
<1>8. CASE steps[next].look = "payload"
  BY <1>1, <1>8 DEF Look, Reply, Lone
<1> QED BY <1>2, <1>5, <1>6, <1>7, <1>8

\* A good one leads to the next operation, or to the answer 0.
LEMMA LookGood ==
  ASSUME Shapes, FromProcedure, next # 0, Look("PTP_OK", "OK")
  PROVE  \/ next' = 0 /\ error' = "PTP_OK" /\ next = Len(steps)
         \/ next' = next + 1 /\ next < Len(steps) /\ error' = error
<1>1. next \in 1..Len(steps) /\ Len(steps) \in Nat
  BY NextOp
<1> QED BY <1>1 DEF Look, Reply

\* The end of a request with an error.
LEMMA EndsBadly ==
  ASSUME StepsInv, InsideFrame, next' = 0, error' # "PTP_OK",
         operation_kill_switch' \in BOOLEAN, failed' \in BOOLEAN,
         di' \in Kind \cup {"null", "garbage"}, shutter' \subseteq {1, 2}
  PROVE  StepsInv'
<1>1. Len(steps) \in Nat
  BY DEF StepsInv, FromProcedure, Common
<1>2. Shapes' /\ FromProcedure'
  BY <1>1 DEF InsideFrame, StepsInv, Shapes, FromProcedure
<1>3. DoneSoFar'
  BY DEF DoneSoFar
<1> QED BY <1>2, <1>3 DEF InsideFrame, StepsInv, FailedStops, CameraSoFar,
                          SuccessMeansDone, CameraAsAsked

\* A request that goes on after a failure.
LEMMA GoesOnBadly ==
  ASSUME StepsInv, InsideFrame, next # 0, next' = next + 1,
         next < Len(steps), error' = error,
         \/ steps[next].look = "none" /\ request \in GoesOn
         \/ operation_kill_switch',
         operation_kill_switch => operation_kill_switch',
         operation_kill_switch' \in BOOLEAN, failed' \in BOOLEAN,
         di' \in Kind \cup {"null", "garbage"}, shutter' \subseteq {1, 2},
         done \subseteq done'
  PROVE  StepsInv'
<1>1. Shapes /\ FromProcedure /\ error = "none"
  BY DEF StepsInv, Shapes
<1>2. next \in 1..Len(steps) /\ Len(steps) \in Nat
  BY <1>1, NextOp
<1>3. Shapes' /\ FromProcedure'
  BY <1>1, <1>2 DEF InsideFrame, Shapes, FromProcedure
<1>4. DoneSoFar'
  <2> SUFFICES ASSUME NEW i \in 1..Len(steps), i < next + 1,
                      steps[i].look # "none"
               PROVE  i \in done' \/ operation_kill_switch'
    BY DEF DoneSoFar, InsideFrame
  <2>1. CASE i = next
    BY <2>1
  <2>2. CASE i < next
    BY <2>2 DEF StepsInv, DoneSoFar
  <2> QED BY <1>2, <2>1, <2>2
<1>5. next' # 0 /\ next' > 1
  BY <1>2
<1>6. FailedStops'
  BY <1>5 DEF FailedStops, InsideFrame
<1>7. CameraSoFar'
  BY DEF CameraSoFar, InsideFrame, GoesOn
<1> QED BY <1>1, <1>3, <1>4, <1>5, <1>6, <1>7
     DEF StepsInv, SuccessMeansDone, CameraAsAsked

\* An operation keeps the shutter among its two positions.
LEMMA EffectShutter ==
  ASSUME Shapes, NEW s \in Op, Effect(s)
  PROVE  shutter' \subseteq {1, 2}
<1>1. s.op = "release_on" => s.arg \in {1, 2}
  BY DEF Op
<1> QED BY <1>1 DEF Effect, Shapes

\* What an operation that is done brings the camera to.
LEMMA CameraStep ==
  ASSUME StepsInv, next # 0, ~operation_kill_switch, Effect(steps[next])
  PROVE  /\ request = "ptp_take_picture" =>
              /\ next = 2 => 2 \notin shutter'
              /\ next = Len(steps) => shutter' = {}
         /\ request = "ptp_bulb_stop" =>
              /\ next = 1 => 2 \notin shutter'
              /\ next = Len(steps) => shutter' = {}
         /\ request = "ptp_bulb_start" =>
              /\ next = 1 => 1 \in shutter'
              /\ next = Len(steps) => shutter' = {1, 2}
         /\ request = "ptp_init_liveview" =>
              /\ next + 1 = Len(steps) => vf_output' = 3
              /\ next = Len(steps) => vf_output' = 3 /\ destination' = 4
         /\ request = "ptp_deinit_liveview" =>
              /\ next = 1 => destination' = 2
              /\ next = Len(steps) => destination' = 2
         /\ request = "ptp_mirror_down" => vf_output' = 0
         /\ request = "ptp_mirror_up" => vf_output' = 3
<1> USE DEF Do
<1>1. /\ next \in 1..Len(steps) /\ steps[next] \in Op /\ steps # <<>>
      /\ Asked(request, steps) /\ shutter \subseteq {1, 2}
  BY NextOp DEF StepsInv, Shapes, FromProcedure
<1>2. shutter' \subseteq {1, 2}
  BY <1>1, EffectShutter DEF StepsInv
<1>3. CameraSoFar
  BY DEF StepsInv
<1>4. CASE request = "ptp_take_picture"
  <2>1. /\ Len(steps) = 3 /\ steps[2] = Do("release_off", 2, "rc")
        /\ steps[3] = Do("release_off", 1, "rc")
    BY <1>1, <1>4 DEF Asked
  <2>2. next = 2 => shutter' = shutter \ {2}
    BY <2>1 DEF Effect
  <2>3. next = 3 => shutter' = shutter \ {1} /\ 2 \notin shutter
    BY <1>3, <1>4, <2>1 DEF Effect, CameraSoFar
  <2> QED BY <1>1, <1>4, <2>1, <2>2, <2>3
<1>5. CASE request = "ptp_bulb_stop"
  <2>1. /\ Len(steps) = 2 /\ steps[1] = Do("release_off", 2, "code")
        /\ steps[2] = Do("release_off", 1, "code")
    BY <1>1, <1>5 DEF Asked
  <2>2. next = 1 => shutter' = shutter \ {2}
    BY <2>1 DEF Effect
  <2>3. next = 2 => shutter' = shutter \ {1} /\ 2 \notin shutter
    BY <1>3, <1>5, <2>1 DEF Effect, CameraSoFar
  <2> QED BY <1>1, <1>5, <2>1, <2>2, <2>3
<1>6. CASE request = "ptp_bulb_start"
  <2>1. /\ Len(steps) = 2 /\ steps[1] = Do("release_on", 1, "code")
        /\ steps[2] = Do("release_on", 2, "code")
    BY <1>1, <1>6 DEF Asked
  <2>2. next = 1 => shutter' = shutter \cup {1}
    BY <2>1 DEF Effect
  <2>3. next = 2 => shutter' = shutter \cup {2} /\ 1 \in shutter
    BY <1>3, <1>6, <2>1 DEF Effect, CameraSoFar
  <2> QED BY <1>1, <1>2, <1>6, <2>1, <2>2, <2>3
<1>7. CASE request = "ptp_init_liveview"
  <2>1. \/ /\ Len(steps) = 2 /\ steps[1] = Do("VF_Output", 3, "rc")
           /\ steps[2] = Do("CaptureDestination", 4, "rc")
        \/ /\ Len(steps) = 3 /\ steps[2] = Do("VF_Output", 3, "rc")
           /\ steps[3] = Do("CaptureDestination", 4, "rc")
    BY <1>1, <1>7 DEF Asked
  <2>2. next + 1 = Len(steps) => vf_output' = 3
    BY <1>1, <2>1 DEF Effect
  <2>3. next = Len(steps) => vf_output' = vf_output /\ destination' = 4
    BY <1>1, <2>1 DEF Effect
  <2>4. next = Len(steps) => vf_output = 3
    BY <1>3, <1>7 DEF CameraSoFar
  <2> QED BY <1>7, <2>2, <2>3, <2>4
<1>8. CASE request = "ptp_deinit_liveview"
  <2>1. /\ Len(steps) = 2 /\ steps[1] = Do("CaptureDestination", 2, "rc")
        /\ steps[2] = Do("PCHDDCapacity", 0, "rc")
    BY <1>1, <1>8 DEF Asked
  <2>2. next = 1 => destination' = 2
    BY <2>1 DEF Effect
  <2>3. next = 2 => destination' = destination /\ destination = 2
    BY <1>3, <1>8, <2>1 DEF Effect, CameraSoFar
  <2> QED BY <1>1, <1>8, <2>1, <2>2, <2>3
<1>9. CASE request \in {"ptp_mirror_up", "ptp_mirror_down"}
  <2>1. /\ Len(steps) = 1
        /\ request = "ptp_mirror_up" => steps[1] = Do("VF_Output", 3, "rc")
        /\ request = "ptp_mirror_down" => steps[1] = Do("VF_Output", 0, "rc")
    BY <1>1, <1>9 DEF Asked
  <2>2. next = 1
    BY <1>1, <2>1
  <2> QED BY <1>9, <2>1, <2>2 DEF Effect
<1> QED BY <1>4, <1>5, <1>6, <1>7, <1>8, <1>9

\* The camera does an operation.
LEMMA StepsSucceeds ==
  ASSUME StepsInv, Succeeds
  PROVE  StepsInv'
<1>1. /\ InsideFrame /\ next # 0 /\ ~operation_kill_switch
      /\ UNCHANGED <<operation_kill_switch, failed>>
      /\ done' = done \cup {next} /\ Effect(steps[next])
      /\ \/ Look("PTP_OK", "OK")
         \/ next' = 0 /\ error' = "PTP_CHECK_CODE"
  BY DEF Succeeds, InsideFrame, InRequest, Looks, Reply
<1>2. Shapes /\ FromProcedure
  BY DEF StepsInv
<1>3. next \in 1..Len(steps) /\ steps[next] \in Op /\ Len(steps) \in Nat
      /\ DOMAIN steps = 1..Len(steps)
  BY <1>1, <1>2, NextOp
<1>4. shutter' \subseteq {1, 2}
  BY <1>1, <1>2, <1>3, EffectShutter
<1>5. di' \in Kind \cup {"null", "garbage"}
  BY <1>2, RequestsAssumption DEF Succeeds, Shapes
<1>6. /\ operation_kill_switch' \in BOOLEAN /\ failed' \in BOOLEAN
      /\ camera' \in Camera /\ error = "none"
  BY <1>1, <1>2 DEF Shapes, InsideFrame
<1>7. CASE next' = 0 /\ error' = "PTP_CHECK_CODE"
  BY <1>1, <1>4, <1>5, <1>6, <1>7, EndsBadly
<1>8. FromProcedure'
  BY <1>1, <1>2 DEF FromProcedure, InsideFrame
<1>9. ASSUME NEW i \in 1..Len(steps), i < next + 1, steps[i].look # "none"
      PROVE  i \in done'
  <2>1. CASE i = next
    BY <1>1, <2>1
  <2>2. CASE i < next
    <3>1. i \in done
      BY <1>1, <1>9, <2>2 DEF StepsInv, DoneSoFar
    <3> QED BY <1>1, <3>1
  <2> QED BY <1>3, <1>9, <2>1, <2>2
<1>10. CASE next' = 0 /\ error' = "PTP_OK" /\ next = Len(steps)
  <2>1. Shapes' /\ DoneSoFar' /\ FailedStops' /\ CameraSoFar'
    <3>1. Shapes'
      BY <1>1, <1>3, <1>4, <1>5, <1>6, <1>10 DEF Shapes, InsideFrame
    <3>2. DoneSoFar'
      BY <1>10 DEF DoneSoFar
    <3>3. FailedStops' /\ CameraSoFar'
      BY <1>10 DEF FailedStops, CameraSoFar
    <3> QED BY <3>1, <3>2, <3>3
  <2>2. SuccessMeansDone'
    <3>1. steps' = steps
      BY <1>1 DEF InsideFrame
    <3>2. \A i \in 1..Len(steps) : i < next + 1
      BY <1>3, <1>10
    <3>3. \A i \in 1..Len(steps) : steps[i].look # "none" => i \in done'
      BY <1>9, <3>2
    <3> QED BY <1>3, <3>1, <3>3 DEF SuccessMeansDone
  <2>3. CameraAsAsked'
    BY <1>1, <1>10, CameraStep DEF CameraAsAsked, InsideFrame
  <2> QED BY <1>8, <2>1, <2>2, <2>3 DEF StepsInv
<1>11. CASE next' = next + 1 /\ next < Len(steps) /\ error' = error
  <2>1. Shapes'
    BY <1>1, <1>3, <1>4, <1>5, <1>6, <1>11 DEF Shapes, InsideFrame
  <2>2. DoneSoFar'
    BY <1>1, <1>9, <1>11 DEF DoneSoFar, InsideFrame
  <2>3. FailedStops'
    BY <1>1, <1>11 DEF StepsInv, FailedStops, InsideFrame
  <2>4. CameraSoFar'
    <3>1. /\ next + 1 = 2 => next = 1
          /\ next + 1 = 3 => next = 2
      BY <1>3
    <3> QED BY <1>1, <1>11, <3>1, CameraStep DEF CameraSoFar, InsideFrame
  <2>5. SuccessMeansDone' /\ CameraAsAsked'
    BY <1>6, <1>11 DEF SuccessMeansDone, CameraAsAsked
  <2> QED BY <1>8, <2>1, <2>2, <2>3, <2>4, <2>5 DEF StepsInv
<1> QED BY <1>1, <1>2, <1>7, <1>10, <1>11, LookGood

\* The camera refuses it.
LEMMA StepsRefused ==
  ASSUME StepsInv, Refused
  PROVE  StepsInv'
<1>1. /\ InsideFrame /\ next # 0 /\ InRequest /\ failed' = TRUE
      /\ UNCHANGED <<operation_kill_switch, di, settings, done>>
      /\ Look("PTP_CHECK_CODE", "other")
  BY DEF Refused, InsideFrame, InRequest, Looks
<1>2. /\ Shapes /\ FromProcedure /\ operation_kill_switch' \in BOOLEAN
      /\ di' \in Kind \cup {"null", "garbage"} /\ shutter' \subseteq {1, 2}
  BY <1>1 DEF StepsInv, Shapes, settings
<1>3. \/ next' = 0 /\ error' # "PTP_OK"
      \/ /\ next' = next + 1 /\ next < Len(steps) /\ error' = error
         /\ steps[next].look = "none" /\ request \in GoesOn
  BY <1>1, <1>2, LookFailed
<1> QED BY <1>1, <1>2, <1>3, EndsBadly, GoesOnBadly

\* The transfer fails.
LEMMA StepsTransferFails ==
  ASSUME StepsInv, TransferFails
  PROVE  StepsInv'
<1>1. /\ InsideFrame /\ next # 0 /\ InRequest /\ failed' = TRUE
      /\ di' = di /\ operation_kill_switch' = TRUE
      /\ Look("PTP_IO_ERR", code')
      /\ \/ UNCHANGED <<settings, done>>
         \/ Effect(steps[next]) /\ done' = done \cup {next}
  BY DEF TransferFails, InsideFrame, InRequest, Looks
<1>2. /\ Shapes /\ FromProcedure
      /\ di' \in Kind \cup {"null", "garbage"}
  BY <1>1 DEF StepsInv, Shapes
<1>3. shutter' \subseteq {1, 2}
  BY <1>1, <1>2, NextOp, EffectShutter DEF Shapes, settings
<1>4. \/ next' = 0 /\ error' # "PTP_OK"
      \/ next' = next + 1 /\ next < Len(steps) /\ error' = error
  BY <1>1, <1>2, LookFailed
<1>5. done \subseteq done'
  BY <1>1
<1> QED BY <1>1, <1>2, <1>3, <1>4, <1>5, EndsBadly, GoesOnBadly

\* Nothing is sent, and a handler that looks at the return code finds the old
\* one.
LEMMA StepsStopped ==
  ASSUME StepsInv, Stopped
  PROVE  StepsInv'
<1>1. /\ InsideFrame /\ next # 0 /\ InRequest /\ failed' = TRUE
      /\ UNCHANGED <<operation_kill_switch, di, settings, done>>
      /\ operation_kill_switch /\ Look("PTP_IO_ERR", code)
  BY DEF Stopped, InsideFrame, InRequest, Looks, runtime
<1>2. /\ Shapes /\ FromProcedure /\ operation_kill_switch' \in BOOLEAN
      /\ di' \in Kind \cup {"null", "garbage"} /\ shutter' \subseteq {1, 2}
  BY <1>1 DEF StepsInv, Shapes, settings
<1>3. \/ next' = 0 /\ error' # "PTP_OK"
      \/ next' = next + 1 /\ next < Len(steps) /\ error' = error
  BY <1>1, <1>2, LookFailed
<1> QED BY <1>1, <1>2, <1>3, EndsBadly, GoesOnBadly

\* The requests CameraAsAsked is about.
AskedOf == {"ptp_take_picture", "ptp_bulb_stop", "ptp_bulb_start",
            "ptp_mirror_down", "ptp_mirror_up", "ptp_init_liveview",
            "ptp_deinit_liveview"}

\* They are not done in pieces.
LEMMA AskedNotLone ==
  ASSUME Shapes, FromProcedure, next # 0,
         steps[next].look \in {"piece", "firmware", "event"}
  PROVE  request \notin AskedOf
<1> USE DEF Do
<1>1. /\ next \in 1..Len(steps) /\ steps # <<>> /\ Asked(request, steps)
      /\ Len(steps) = 1 /\ next = 1
  BY NextOp DEF FromProcedure, Lone
<1>2. CASE request \in {"ptp_mirror_down", "ptp_mirror_up"}
  <2>1. \/ steps[1] = Do("VF_Output", 3, "rc")
        \/ steps[1] = Do("VF_Output", 0, "rc")
    BY <1>1, <1>2 DEF Asked
  <2> QED BY <1>1, <2>1
<1>3. CASE request \in AskedOf \ {"ptp_mirror_down", "ptp_mirror_up"}
  BY <1>1, <1>3 DEF Asked, AskedOf
<1> QED BY <1>2, <1>3

\* The only operation of a request is done.
LEMMA EndsLone ==
  ASSUME StepsInv, InsideFrame, next # 0,
         steps[next].look \in {"piece", "firmware", "event"},
         next' = 0, error' = "PTP_OK", done' = {next},
         UNCHANGED <<operation_kill_switch, di, settings, failed>>
  PROVE  StepsInv'
<1>1. Shapes /\ FromProcedure
  BY DEF StepsInv
<1>2. request \notin AskedOf /\ Len(steps) = 1 /\ next = 1
      /\ DOMAIN steps = 1..1
  BY <1>1, AskedNotLone, NextOp DEF Lone
<1>3. Shapes' /\ FromProcedure'
  BY <1>1, <1>2 DEF Shapes, FromProcedure, InsideFrame, settings
<1>4. DoneSoFar' /\ FailedStops' /\ CameraSoFar'
  BY DEF DoneSoFar, FailedStops, CameraSoFar
<1>5. SuccessMeansDone'
  BY <1>2 DEF SuccessMeansDone, InsideFrame
<1>6. CameraAsAsked'
  BY <1>2 DEF CameraAsAsked, AskedOf, InsideFrame
<1> QED BY <1>3, <1>4, <1>5, <1>6 DEF StepsInv

\* A piece is done, and others follow.
LEMMA StaysLone ==
  ASSUME StepsInv, InsideFrame, next # 0,
         steps[next].look \in {"piece", "firmware", "event"},
         UNCHANGED <<next, error>>, done' = {next},
         UNCHANGED <<operation_kill_switch, di, settings, failed>>
  PROVE  StepsInv'
<1>1. Shapes /\ FromProcedure /\ error = "none"
  BY DEF StepsInv, Shapes
<1>2. request \notin AskedOf /\ Len(steps) = 1 /\ next = 1
  BY <1>1, AskedNotLone, NextOp DEF Lone
<1>3. Shapes' /\ FromProcedure'
  BY <1>1 DEF Shapes, FromProcedure, InsideFrame, settings
<1>4. DoneSoFar'
  BY <1>2 DEF DoneSoFar, InsideFrame
<1>5. FailedStops' /\ CameraSoFar'
  <2>1. FailedStops'
    BY DEF StepsInv, FailedStops, InsideFrame
  <2>2. CameraSoFar'
    BY <1>2 DEF CameraSoFar, AskedOf, InsideFrame
  <2> QED BY <2>1, <2>2
<1> QED BY <1>1, <1>3, <1>4, <1>5
     DEF StepsInv, SuccessMeansDone, CameraAsAsked

\* A piece of a file arrives.
LEMMA StepsTakePiece ==
  ASSUME StepsInv, TakePiece
  PROVE  StepsInv'
<1>1. /\ InsideFrame /\ next # 0 /\ steps[next].look = "piece"
      /\ done' = {next}
      /\ UNCHANGED <<operation_kill_switch, di, settings, failed>>
      /\ \/ next' = 0 /\ error' = "PTP_OK"
         \/ UNCHANGED <<next, error>>
  BY DEF TakePiece, InsideFrame, Looks, Reply
<1> QED BY <1>1, EndsLone, StaysLone

\* Or does not.
LEMMA StepsPieceFails ==
  ASSUME StepsInv, PieceFails
  PROVE  StepsInv'
<1>1. /\ InsideFrame /\ next' = 0 /\ error' # "PTP_OK" /\ failed' \in BOOLEAN
      /\ UNCHANGED <<di, settings>>
      /\ operation_kill_switch' \in {operation_kill_switch, TRUE}
  BY DEF PieceFails, InsideFrame, Reply
<1>2. Shapes
  BY DEF StepsInv
<1>3. /\ operation_kill_switch' \in BOOLEAN /\ shutter' \subseteq {1, 2}
      /\ di' \in Kind \cup {"null", "garbage"}
  BY <1>1, <1>2 DEF Shapes, settings
<1> QED BY <1>1, <1>3, EndsBadly

\* A piece of firmware is sent.
LEMMA StepsSendPiece ==
  ASSUME StepsInv, SendPiece
  PROVE  StepsInv'
<1>1. /\ InsideFrame /\ next # 0 /\ steps[next].look = "firmware"
      /\ done' = {next}
      /\ UNCHANGED <<operation_kill_switch, di, settings, failed>>
      /\ \/ next' = 0 /\ error' = "PTP_OK"
         \/ UNCHANGED <<next, error>>
  BY DEF SendPiece, InsideFrame, Looks, Reply
<1> QED BY <1>1, EndsLone, StaysLone

\* Or is not.
LEMMA StepsSendPieceFails ==
  ASSUME StepsInv, SendPieceFails
  PROVE  StepsInv'
<1>1. /\ InsideFrame /\ next' = 0 /\ error' # "PTP_OK" /\ failed' \in BOOLEAN
      /\ UNCHANGED <<di, settings>>
      /\ operation_kill_switch' \in {operation_kill_switch, TRUE}
  BY DEF SendPieceFails, InsideFrame, Reply
<1>2. Shapes
  BY DEF StepsInv
<1>3. /\ operation_kill_switch' \in BOOLEAN /\ shutter' \subseteq {1, 2}
      /\ di' \in Kind \cup {"null", "garbage"}
  BY <1>1, <1>2 DEF Shapes, settings
<1> QED BY <1>1, <1>3, EndsBadly

\* The interrupt endpoint is read.
LEMMA StepsReadEvent ==
  ASSUME StepsInv, ReadEvent
  PROVE  StepsInv'
<1>1. /\ InsideFrame /\ next # 0 /\ steps[next].look = "event"
      /\ UNCHANGED <<operation_kill_switch, di, settings>> /\ next' = 0
      /\ failed' \in {failed, TRUE}
  BY DEF ReadEvent, InsideFrame, Looks, Reply
<1>2. Shapes /\ FromProcedure
  BY DEF StepsInv
<1>3. request \notin AskedOf /\ Len(steps) = 1 /\ next = 1
      /\ DOMAIN steps = 1..1
  BY <1>1, <1>2, AskedNotLone, NextOp DEF Lone
<1>4. Shapes' /\ FromProcedure'
  <2>1. /\ next' \in 0..Len(steps') /\ failed' \in BOOLEAN
        /\ operation_kill_switch' \in BOOLEAN /\ next' = 0
        /\ di' \in Kind \cup {"null", "garbage"} /\ camera' \in Camera
        /\ shutter' \subseteq {1, 2}
    <3>1. next' = 0 /\ steps' = steps /\ Len(steps) = 1
      BY <1>1, <1>3 DEF InsideFrame
    <3>2. next' \in 0..Len(steps') BY <3>1
    <3>3. failed' \in BOOLEAN
      <4>1. failed \in BOOLEAN BY <1>2 DEF Shapes
      <4> QED BY <1>1, <4>1
    <3>4. /\ UNCHANGED <<operation_kill_switch, di, camera, shutter>>
          /\ operation_kill_switch \in BOOLEAN /\ shutter \subseteq {1, 2}
          /\ di \in Kind \cup {"null", "garbage"} /\ camera \in Camera
      BY <1>1, <1>2 DEF Shapes, InsideFrame, settings
    <3> QED BY <3>1, <3>2, <3>3, <3>4
  <2>2. FromProcedure' BY <1>1, <1>2 DEF FromProcedure, InsideFrame
  <2> QED BY <2>1, <2>2 DEF Shapes
<1>5. DoneSoFar' /\ FailedStops' /\ CameraSoFar'
  BY <1>1 DEF DoneSoFar, FailedStops, CameraSoFar
<1>6. SuccessMeansDone'
  BY <1>1, <1>3 DEF SuccessMeansDone, InsideFrame
<1>7. CameraAsAsked'
  BY <1>1, <1>3 DEF CameraAsAsked, AskedOf, InsideFrame
<1> QED BY <1>4, <1>5, <1>6, <1>7 DEF StepsInv

\* A request that is no operation, or a connection made or ended.
LEMMA StepsNone ==
  ASSUME Shapes, next' = 0, steps' = <<>>, request' # "ptp_download_file",
         operation_kill_switch' \in BOOLEAN, failed' \in BOOLEAN,
         di' \in Kind \cup {"null", "garbage"}, camera' \in Camera,
         shutter' \subseteq {1, 2}
  PROVE  StepsInv'
<1>1. Shapes'
  BY DEF Shapes
<1>2. FromProcedure'
  <2>1. Common(request', <<>>)
    BY CommonNone
  <2> QED BY <2>1 DEF FromProcedure
<1>3. DoneSoFar' /\ FailedStops' /\ CameraSoFar'
  BY DEF DoneSoFar, FailedStops, CameraSoFar
<1>4. SuccessMeansDone' /\ CameraAsAsked'
  BY DEF SuccessMeansDone, CameraAsAsked
<1> QED BY <1>1, <1>2, <1>3, <1>4 DEF StepsInv

\* A request chooses its operations.
LEMMA StepsRequest ==
  ASSUME StepsInv, Request
  PROVE  StepsInv'
<1>1. PICK name \in Requested, kind \in Kinds :
        \E p \in Procedures(name, kind) :
          /\ request' = name /\ steps' = p.steps
          /\ next' = (IF p.steps = <<>> THEN 0 ELSE 1)
          /\ error' = (IF p.steps = <<>> THEN p.error ELSE "none")
          /\ di' = IF name = "ptp_get_device_info" /\ di = "null"
                   THEN "garbage" ELSE di
  BY DEF Request
<1>2. PICK p \in Procedures(name, kind) :
        /\ request' = name /\ steps' = p.steps
        /\ next' = (IF p.steps = <<>> THEN 0 ELSE 1)
        /\ error' = (IF p.steps = <<>> THEN p.error ELSE "none")
        /\ di' = IF name = "ptp_get_device_info" /\ di = "null"
                 THEN "garbage" ELSE di
  BY <1>1
<1>3. Common(name, p.steps) /\ (p.steps # <<>> => Asked(name, p.steps))
  BY ProcedureShape
<1>4. /\ UNCHANGED <<operation_kill_switch, camera, settings>>
      /\ failed' = FALSE
  BY DEF Request
<1>5. Shapes
  BY DEF StepsInv
<1>6. /\ operation_kill_switch' \in BOOLEAN /\ camera' \in Camera
      /\ shutter' \subseteq {1, 2} /\ failed' \in BOOLEAN
      /\ di' \in Kind \cup {"null", "garbage"}
  BY <1>2, <1>4, <1>5 DEF Shapes, settings
<1>7. p.steps \in Seq(Op)
  BY <1>3 DEF Common
<1>8. CASE p.steps = <<>>
  <2>1. name # "ptp_download_file"
    BY <1>3, <1>8 DEF Common
  <2> QED BY <1>2, <1>5, <1>6, <1>8, <2>1, StepsNone
<1>9. CASE p.steps # <<>>
  <2>1. next' = 1 /\ error' = "none" /\ 1 \in 0..Len(steps')
    BY <1>2, <1>7, <1>9
  <2>2. Shapes' /\ FromProcedure'
    BY <1>2, <1>3, <1>6, <2>1 DEF Shapes, FromProcedure
  <2>3. DoneSoFar' /\ FailedStops'
    BY <1>4, <2>1 DEF DoneSoFar, FailedStops
  <2>4. CameraSoFar'
    <3>1. request' = "ptp_init_liveview" => Len(steps') # 1
      BY <1>2, <1>3, <1>9 DEF Asked
    <3> QED BY <2>1, <3>1 DEF CameraSoFar
  <2> QED BY <2>1, <2>2, <2>3, <2>4
       DEF StepsInv, SuccessMeansDone, CameraAsAsked
<1> QED BY <1>8, <1>9

\* Every step keeps the invariant.
LEMMA StepsNext ==
  ASSUME StepsInv, [Next]_vars
  PROVE  StepsInv'
<1>1. CASE Connect \/ Disconnect
  <2>1. /\ next' = 0 /\ steps' = <<>> /\ failed' = FALSE /\ di' = di
        /\ request' \in {"ptp_connect", "ptp_disconnect"}
        /\ operation_kill_switch' \in {operation_kill_switch, TRUE, FALSE}
        /\ camera' \in Camera \/ camera' = camera
        /\ shutter' = {} \/ shutter' = shutter
    BY <1>1 DEF Connect, Disconnect, settings
  <2>2. Shapes
    BY DEF StepsInv
  <2>3. /\ operation_kill_switch' \in BOOLEAN /\ camera' \in Camera
        /\ shutter' \subseteq {1, 2} /\ di' \in Kind \cup {"null", "garbage"}
    BY <2>1, <2>2 DEF Shapes
  <2> QED BY <2>1, <2>2, <2>3, StepsNone
<1>2. CASE UNCHANGED vars
  BY <1>2 DEF vars, runtime, transfer, settings, StepsInv, Shapes,
       FromProcedure, DoneSoFar, FailedStops, CameraSoFar, SuccessMeansDone,
       CameraAsAsked
<1> QED BY <1>1, <1>2, StepsRequest, StepsSucceeds, StepsRefused,
           StepsTransferFails, StepsStopped, StepsTakePiece, StepsPieceFails,
           StepsSendPiece, StepsSendPieceFails, StepsReadEvent
     DEF Next, Operation, Pieces, Finished

\* The beginning satisfies it.
LEMMA StepsInit ==
  ASSUME Init
  PROVE  StepsInv
<1>1. Common(request, <<>>)
  BY CommonNone DEF Init
<1>2. next = 0 /\ steps = <<>> /\ Len(steps) = 0
  BY DEF Init
<1>3. Shapes
  <2>1. next \in 0..Len(steps)
    BY <1>2
  <2>2. operation_kill_switch \in BOOLEAN /\ failed \in BOOLEAN
    BY DEF Init
  <2>3. di = "null" /\ camera \in Camera /\ shutter = {}
    BY DEF Init
  <2> QED BY <1>2, <2>1, <2>2, <2>3 DEF Shapes
<1>4. DoneSoFar /\ FailedStops /\ CameraSoFar
  BY <1>2 DEF DoneSoFar, FailedStops, CameraSoFar
<1>5. SuccessMeansDone /\ CameraAsAsked
  BY <1>2 DEF SuccessMeansDone, CameraAsAsked
<1> QED BY <1>1, <1>2, <1>3, <1>4, <1>5 DEF StepsInv, FromProcedure

\* It holds always.
LEMMA StepsAlways == Spec => []StepsInv
BY StepsInit, StepsNext, PTL DEF Spec

\* An answer of 0 means that the camera has done each operation that anything
\* looked at, for every procedure and every way of failing.
THEOREM SuccessMeansDoneHolds == Spec => []SuccessMeansDone
<1>1. StepsInv => SuccessMeansDone
  BY DEF StepsInv
<1> QED BY <1>1, StepsAlways, PTL

\* After an answer of 0 the shutter, the mirror and the destination are as
\* asked, whatever the requests before it left.
THEOREM CameraAsAskedHolds == Spec => []CameraAsAsked
<1>1. StepsInv => CameraAsAsked
  BY DEF StepsInv
<1> QED BY <1>1, StepsAlways, PTL

\* After a failure the camera does nothing more for the request: either it has
\* ended, or all operations are stopped.
THEOREM NothingAfterFailureHolds == Spec => NothingAfterFailure
<1> DEFINE A == failed /\ next # 0
                  /\ request \notin {"ptp_set_property", "ptp_ml_get_bmp_lv"}
                  => done' \subseteq done
<1>1. StepsInv /\ [Next]_vars => [A]_vars
  <2> SUFFICES ASSUME StepsInv, Next, failed, next # 0,
                      request \notin GoesOn
               PROVE  done' \subseteq done
    BY DEF GoesOn
  <2>1. operation_kill_switch
    BY DEF StepsInv, FailedStops
  <2>2. ~(Succeeds \/ Refused \/ TransferFails \/ TakePiece \/ SendPiece)
    BY <2>1 DEF Succeeds, Refused, TransferFails, TakePiece, SendPiece
  <2>3. ~(Request \/ Connect \/ Disconnect)
    BY DEF Request, Connect, Disconnect
  <2>4. Stopped \/ PieceFails \/ SendPieceFails => done' = done
    BY DEF Stopped, PieceFails, SendPieceFails
  <2>5. ~ReadEvent
    <3>1. Shapes /\ FromProcedure /\ next # 1
      BY DEF StepsInv, FailedStops
    <3>2. steps[next].look # "event"
      BY <3>1, NextOp DEF Lone
    <3> QED BY <3>2 DEF ReadEvent, Looks
  <2>6. UNCHANGED vars => done' = done
    BY DEF vars
  <2> QED BY <2>2, <2>3, <2>4, <2>5, <2>6
       DEF Next, Operation, Pieces, Finished
<1> HIDE DEF A
<1>2. Spec => [][A]_vars
  BY <1>1, StepsAlways, PTL DEF Spec
<1> QED BY <1>2 DEF A, NothingAfterFailure
-----------------------------------------------------------------------------
(* What is transferred in pieces.                                          *)

\* A file, with the last piece added to what is counted, is smaller than what
\* an unsigned int counts to: a firmware of 4 GiB less a piece wraps "sent".
Counted == \A s \in ObjectSize : s + FirmwareMax < Word

\* The pieces of an object follow each other and end where the next begins.
ObjectSoFar ==
  request = "ptp_download_file" /\ next # 0 =>
    /\ read \in 0..size /\ written \in Seq(Nat \X Nat)
    /\ written = <<>> => read = 0
    /\ \A i \in 1..Len(written) :
         /\ written[i][1] = IF i = 1 THEN 0 ELSE written[i - 1][2]
         /\ i = Len(written) => written[i][2] = read

\* What is left of a firmware file behind its whole pieces.
Rest == size % FirmwarePiece

\* The sizes FirmwareWhole is about.
CanArrive == 2 * Rest <= FirmwarePiece /\ (Rest >= NameLength \/ size = Rest)

\* The whole pieces of a firmware that are sent are in their place, and none
\* reaches into the rest.
FirmwareSoFar ==
  request = "ptp_eos_update_firmware" /\ next # 0 =>
    /\ DOMAIN image = 1..size
    /\ CanArrive =>
         /\ read = sent /\ sent \in Nat /\ sent <= size - Rest
         /\ \E k \in Nat : sent = k * FirmwarePiece
         /\ \A j \in 1..sent : image[j] = j

\* What FileWhole rests on.
FilesInv ==
  size \in ObjectSize /\ ObjectSoFar /\ FirmwareSoFar /\ FileWhole
-----------------------------------------------------------------------------
\* Multiples of a piece are ordered as their numbers are.
LEMMA Multiples ==
  ASSUME NEW a \in Nat, NEW b \in Nat, NEW P \in Nat \ {0}
  PROVE  /\ a <= b => a * P <= b * P
         /\ a < b => a * P + P <= b * P
<1>1. ASSUME a <= b
      PROVE  a * P <= b * P
  <2>1. (b - a) \in Nat
    BY <1>1
  <2>2. (b - a) * P >= 0 /\ b * P = a * P + (b - a) * P
    BY <2>1
  <2> QED BY <2>2
<1>2. ASSUME a < b
      PROVE  a * P + P <= b * P
  <2>1. (b - a - 1) \in Nat
    BY <1>2
  <2>2. (b - a - 1) * P >= 0 /\ b * P = a * P + P + (b - a - 1) * P
    BY <2>1
  <2> QED BY <2>2
<1> QED BY <1>1, <1>2

\* A file is whole pieces and a rest.
LEMMA WholePieces ==
  ASSUME NEW s \in Nat, NEW P \in Nat \ {0}
  PROVE  \E q \in Nat : s = q * P + (s % P) /\ (s % P) \in 0..(P - 1)
<1>1. /\ (s \div P) \in Nat /\ s = P * (s \div P) + (s % P)
      /\ (s % P) \in 0..(P - 1)
  OBVIOUS
<1>2. P * (s \div P) = (s \div P) * P
  BY <1>1
<1> QED BY <1>1, <1>2

\* A piece that is not the last by the test of the loop does not reach into
\* the rest; the last begins with the rest.
LEMMA LastBegins ==
  ASSUME NEW s \in Nat, NEW P \in Nat \ {0}, NEW n \in Nat, NEW k \in Nat,
         k * P <= s - (s % P)
  PROVE  /\ k * P + P + n <= s => k * P + P <= s - (s % P)
         /\ k * P + P + n > s /\ (s % P >= n \/ s = (s % P)) =>
              k * P = s - (s % P)
<1>1. PICK q \in Nat : s = q * P + (s % P) /\ (s % P) \in 0..(P - 1)
  BY WholePieces
<1> DEFINE kP == k * P
           qP == q * P
           r == s % P
<1>2. kP \in Nat /\ qP \in Nat /\ r \in 0..(P - 1) /\ s = qP + r
  BY <1>1
<1>3. /\ q <= k => qP <= kP
      /\ k < q => kP + P <= qP
  BY Multiples
<1>4. q <= k \/ k < q
  OBVIOUS
<1>5. kP <= s - r
  OBVIOUS
<1> HIDE DEF kP, qP, r
<1>6. kP + P + n <= s => kP + P <= s - r
  BY <1>2, <1>3, <1>4, <1>5
<1>7. kP + P + n > s /\ (r >= n \/ s = r) => kP = s - r
  BY <1>2, <1>3, <1>4, <1>5
<1> QED BY <1>6, <1>7 DEF kP, qP, r

\* A piece of firmware has at least a byte.
LEMMA PieceShape ==
  /\ FirmwarePiece \in Nat \ {0} /\ NameLength \in Nat
  /\ FirmwareMax = FirmwarePiece + NameLength
  /\ FirmwareMax \in Nat /\ PieceSize \in Nat \ {0} /\ Word \in Nat \ {0}
BY RequestsAssumption DEF FirmwarePiece

\* An object piece is written behind the others.
LEMMA FilesTakePiece ==
  ASSUME StepsInv, FilesInv, TakePiece
  PROVE  FilesInv'
<1>1. /\ next # 0 /\ steps[next].look = "piece"
      /\ UNCHANGED <<request, size>> /\ read' = read + Piece
      /\ \/ Piece = 0 /\ next' = 0 /\ written' = written
         \/ /\ Piece # 0 /\ written' = Append(written, <<read, read + Piece>>)
            /\ \/ Piece # PieceSize /\ next' = 0
               \/ Piece = PieceSize /\ next' = next /\ error' = error
  BY DEF TakePiece, Looks, Reply, LastPiece
<1>2. request = "ptp_download_file"
  BY <1>1, NotInPieces DEF StepsInv
<1>3. /\ read \in 0..size /\ written \in Seq(Nat \X Nat) /\ size \in Nat
      /\ written = <<>> => read = 0
      /\ \A i \in 1..Len(written) :
           /\ written[i][1] = IF i = 1 THEN 0 ELSE written[i - 1][2]
           /\ i = Len(written) => written[i][2] = read
  BY <1>1, <1>2, RequestsAssumption DEF FilesInv, ObjectSoFar
<1>4. /\ Piece \in Nat /\ read + Piece \in 0..size
      /\ Piece # PieceSize => read + Piece = size
      /\ Piece = 0 => read = size
  BY <1>3, PieceShape, SMTT(30) DEF Piece
<1>5. written' \in Seq(Nat \X Nat)
      /\ (written' = <<>> => read' = 0)
      /\ \A i \in 1..Len(written') :
           /\ written'[i][1] = IF i = 1 THEN 0 ELSE written'[i - 1][2]
           /\ i = Len(written') => written'[i][2] = read'
  <2>1. CASE Piece = 0
    BY <1>1, <1>3, <1>4, <2>1
  <2>2. CASE Piece # 0
    <3> DEFINE w == Append(written, <<read, read + Piece>>)
               N == Len(written)
    <3>1. <<read, read + Piece>> \in Nat \X Nat
      BY <1>3, <1>4
    <3>2. /\ w \in Seq(Nat \X Nat) /\ N \in Nat /\ Len(w) = N + 1
          /\ w[N + 1] = <<read, read + Piece>>
          /\ \A i \in 1..N : w[i] = written[i]
      BY <1>3, <3>1
    <3> HIDE DEF w
    <3>3. w # <<>>
      BY <3>2
    <3>4. ASSUME NEW i \in 1..(N + 1)
          PROVE  /\ w[i][1] = IF i = 1 THEN 0 ELSE w[i - 1][2]
                 /\ i = N + 1 => w[i][2] = read + Piece
      <4>1. CASE i \in 1..N
        <5>1. w[i] = written[i] /\ i # N + 1
          BY <3>2, <4>1, SMTT(30)
        <5>2. i # 1 => w[i - 1] = written[i - 1]
          <6>1. i # 1 => (i - 1) \in 1..N
            BY <3>2, <4>1
          <6> QED BY <3>2, <6>1
        <5> QED BY <1>3, <4>1, <5>1, <5>2
      <4>2. CASE i = N + 1
        <5>1. w[i][1] = read /\ w[i][2] = read + Piece
          BY <3>2, <4>2
        <5>2. CASE N = 0
          <6>1. written = <<>>
            BY <1>3, <5>2
          <6> QED BY <1>3, <4>2, <5>1, <5>2, <6>1
        <5>3. CASE N # 0
          <6>1. w[i - 1] = written[N] /\ written[N][2] = read /\ i # 1
            BY <1>3, <3>2, <4>2, <5>3, SMTT(30)
          <6> QED BY <5>1, <6>1
        <5> QED BY <5>2, <5>3
      <4> QED BY <3>2, <4>1, <4>2
    <3>5. written' = w /\ read' = read + Piece
      BY <1>1, <2>2 DEF w
    <3> QED BY <3>2, <3>3, <3>4, <3>5
  <2> QED BY <2>1, <2>2
<1>6. ObjectSoFar' /\ read' \in 0..size
  BY <1>1, <1>4, <1>5 DEF ObjectSoFar
<1>7. ObjectWhole'
  <2> SUFFICES ASSUME error' = "PTP_OK"
               PROVE  ObjectWhole'
    BY DEF ObjectWhole
  <2>1. error = "none"
    BY <1>1 DEF StepsInv, Shapes
  <2>2. read' = size
    BY <1>1, <1>3, <1>4, <2>1
  <2>3. DOMAIN written' = 1..Len(written')
    BY <1>5
  <2>4. size > 0 => written' # <<>>
    BY <1>5, <2>2
  <2> QED BY <1>1, <1>5, <2>2, <2>3, <2>4 DEF ObjectWhole
<1>8. FirmwareSoFar' /\ FirmwareWhole'
  BY <1>1, <1>2 DEF FirmwareSoFar, FirmwareWhole
<1> QED BY <1>1, <1>6, <1>7, <1>8 DEF FilesInv, FileWhole

\* A piece of firmware goes to its place, and the last one ends the file.
LEMMA FilesSendPiece ==
  ASSUME Counted, StepsInv, FilesInv, SendPiece
  PROVE  FilesInv'
<1> DEFINE P == FirmwarePiece
<1>1. /\ next # 0 /\ steps[next].look = "firmware"
      /\ UNCHANGED <<request, size>>
      /\ read' = IF read + P < size THEN read + P ELSE size
      /\ image' = [k \in DOMAIN image |->
                     IF k - sent \in 1..(PieceLength - NameLength)
                     THEN Loaded[k - sent] ELSE image[k]]
      /\ sent' = (sent + PieceLength - NameLength) % Word
      /\ IF sent' >= size THEN next' = 0 /\ error' = "PTP_OK"
         ELSE next' = next /\ error' = error
  BY DEF SendPiece, Looks, Reply
<1>2. request = "ptp_eos_update_firmware"
  BY <1>1, NotInPieces DEF StepsInv
<1>3. ObjectSoFar' /\ ObjectWhole'
  BY <1>1, <1>2 DEF ObjectSoFar, ObjectWhole
<1>4. /\ size \in Nat /\ size + FirmwareMax < Word
      /\ DOMAIN image = 1..size /\ error = "none"
  BY <1>1, <1>2, RequestsAssumption
     DEF Counted, FilesInv, FirmwareSoFar, StepsInv, Shapes
<1>5. DOMAIN image' = 1..size
  BY <1>1, <1>4
<1>6. /\ P \in Nat \ {0} /\ NameLength \in Nat /\ FirmwareMax = P + NameLength
      /\ Word \in Nat \ {0}
  BY PieceShape
<1>7. ASSUME CanArrive
      PROVE  /\ next' # 0 =>
                  /\ read' = sent' /\ sent' \in Nat /\ sent' <= size - Rest
                  /\ \E k \in Nat : sent' = k * P
                  /\ \A j \in 1..sent' : image'[j] = j
             /\ next' = 0 => \A j \in 1..size : image'[j] = j
  <2>1. PICK k \in Nat : sent = k * P
    BY <1>1, <1>2, <1>7 DEF FilesInv, FirmwareSoFar
  <2>2. /\ read = sent /\ sent \in Nat /\ sent <= size - Rest
        /\ \A j \in 1..sent : image[j] = j
    BY <1>1, <1>2, <1>7 DEF FilesInv, FirmwareSoFar
  <2>3. Rest \in 0..(P - 1) /\ Rest <= size
    <3>1. PICK q \in Nat : /\ size = q * P + (size % P)
                           /\ (size % P) \in 0..(P - 1)
      BY <1>4, <1>6, WholePieces
    <3>2. q * P \in Nat
      BY <1>6
    <3>3. Rest = size % P
      BY DEF Rest
    <3> HIDE DEF P
    <3> QED BY <1>4, <1>6, <3>1, <3>2, <3>3
  <2>4. 2 * Rest <= P /\ (Rest >= NameLength \/ size = Rest)
    BY <1>7 DEF CanArrive
  <2>5. /\ sent + P + NameLength <= size => sent + P <= size - Rest
        /\ sent + P + NameLength > size => sent = size - Rest
    <3>1. sent <= size - (size % P) /\ Rest = size % P
      BY <2>2 DEF Rest
    <3> HIDE DEF P
    <3> QED BY <1>4, <1>6, <2>1, <2>4, <3>1, LastBegins
  <2> DEFINE n == PieceLength - NameLength
  <2>6. /\ sent + P + NameLength <= size => n = P
        /\ sent + P + NameLength > size => n = P - Rest
    <3> HIDE DEF P
    <3> QED BY <1>4, <1>6, <2>2, <2>3, <2>5 DEF PieceLength
  <2>7. /\ n \in 0..P /\ sent + n \in Nat /\ sent + n < Word
    <3>1. sent + P <= size + P
      BY <1>4, <1>6, <2>2, <2>3
    <3> HIDE DEF P, n
    <3> QED BY <1>4, <1>6, <2>2, <2>3, <2>6, <3>1
  <2>8. sent' = sent + n
    <3>1. sent + PieceLength - NameLength = sent + n
      BY <1>6, <2>2, <2>7 DEF PieceLength
    <3> HIDE DEF n
    <3> QED BY <1>1, <1>6, <2>7, <3>1
  <2>9. /\ n = P => sent + P <= size - Rest \/ sent = size - Rest
        /\ sent + n >= size \/ n = P
    <3> HIDE DEF n, P
    <3> QED BY <1>4, <1>6, <2>2, <2>3, <2>4, <2>5, <2>6
  <2>10. ASSUME NEW j \in 1..size, j <= sent + n
         PROVE  image'[j] = j
    <3> HIDE DEF n
    <3>1. image'[j] = IF j - sent \in 1..n THEN Loaded[j - sent] ELSE image[j]
      BY <1>1, <1>4 DEF n
    <3>2. CASE j <= sent
      <4>1. ~(j - sent \in 1..n) /\ j \in 1..sent
        BY <2>2, <2>7, <3>2
      <4> QED BY <2>2, <3>1, <4>1
    <3>3. CASE ~(j <= sent)
      <4>1. j - sent \in 1..n /\ j - sent \in 1..P
        BY <1>6, <2>2, <2>7, <2>10, <3>3
      <4>2. read + (j - sent) = j /\ j <= size
        BY <1>4, <2>2
      <4>3. Loaded[j - sent] = j
        BY <4>1, <4>2 DEF Loaded
      <4> QED BY <3>1, <4>1, <4>3
    <3> QED BY <2>2, <3>2, <3>3
  <2>11. ASSUME next' # 0
         PROVE  /\ read' = sent' /\ sent' \in Nat /\ sent' <= size - Rest
                /\ \E m \in Nat : sent' = m * P
                /\ \A j \in 1..sent' : image'[j] = j
    <3> HIDE DEF n
    <3>1. ~(sent' >= size)
      BY <1>1, <2>11
    <3>2. n = P /\ sent' = sent + P /\ sent + P < size
      BY <1>4, <2>7, <2>8, <2>9, <3>1
    <3>3. sent + P <= size - Rest
      <4>1. sent + P + NameLength <= size \/ sent + P + NameLength > size
        BY <1>4, <1>6, <2>2
      <4>2. CASE sent + P + NameLength > size
        <5>1. sent = size - Rest /\ n = P - Rest
          BY <2>5, <2>6, <4>2 DEF n
        <5> HIDE DEF P
        <5> QED BY <1>4, <1>6, <2>2, <2>3, <3>2, <5>1
      <4> QED BY <2>5, <4>1, <4>2
    <3>4. read' = sent'
      BY <1>1, <2>2, <3>2
    <3>5. sent' = (k + 1) * P /\ (k + 1) \in Nat
      <4>1. (k + 1) * P = k * P + P
        BY <1>6
      <4> QED BY <2>1, <3>2, <4>1
    <3>6. \A j \in 1..sent' : image'[j] = j
      <4> SUFFICES ASSUME NEW j \in 1..sent'
                   PROVE  image'[j] = j
        OBVIOUS
      <4>1. j \in 1..size /\ j <= sent + n
        BY <1>4, <1>6, <2>2, <3>2
      <4> QED BY <2>10, <4>1
    <3>7. \E m \in Nat : sent' = m * P
      BY <3>5
    <3>8. sent' \in Nat /\ sent' <= size - Rest
      BY <1>6, <2>2, <3>2, <3>3
    <3> QED BY <3>4, <3>6, <3>7, <3>8
  <2>12. ASSUME next' = 0
         PROVE  \A j \in 1..size : image'[j] = j
    <3> HIDE DEF n
    <3>1. sent + n >= size
      BY <1>1, <2>8, <2>12
    <3> SUFFICES ASSUME NEW j \in 1..size
                 PROVE  image'[j] = j
      OBVIOUS
    <3>2. j <= sent + n
      BY <1>4, <2>7, <3>1
    <3> QED BY <2>10, <3>2
  <2> QED BY <2>11, <2>12
<1>8. Rest' = Rest /\ CanArrive' = CanArrive
  BY <1>1 DEF Rest, CanArrive
<1>9. FirmwareSoFar'
  BY <1>1, <1>5, <1>7, <1>8 DEF FirmwareSoFar
<1>10. FirmwareWhole'
  <2> SUFFICES ASSUME error' = "PTP_OK", CanArrive
               PROVE  image' = [i \in 1..size |-> i]
    BY <1>1 DEF FirmwareWhole, CanArrive, Rest
  <2>1. \A j \in 1..size : image'[j] = j
    BY <1>1, <1>4, <1>7
  <2>2. image' = [j \in DOMAIN image' |-> image'[j]]
    BY <1>1
  <2> QED BY <1>5, <2>1, <2>2
<1> QED BY <1>1, <1>3, <1>9, <1>10 DEF FilesInv, FileWhole

\* Where nothing is transferred in pieces there is nothing to show.
LEMMA FilesElse ==
  ASSUME size' \in ObjectSize,
         request' \notin {"ptp_download_file", "ptp_eos_update_firmware"}
  PROVE  FilesInv'
BY DEF FilesInv, FileWhole, ObjectSoFar, ObjectWhole, FirmwareSoFar,
       FirmwareWhole

\* A transfer that fails answers with an error.
LEMMA FilesFail ==
  ASSUME size' \in ObjectSize, next' = 0, error' # "PTP_OK"
  PROVE  FilesInv'
BY DEF FilesInv, FileWhole, ObjectSoFar, ObjectWhole, FirmwareSoFar,
       FirmwareWhole

\* An answer without an operation is no success of an update.
LEMMA UpdateAnswers ==
  ASSUME NEW kind,
         NEW p \in Procedures("ptp_eos_update_firmware", kind), p.steps = <<>>
  PROVE  p.error = "-1"
BY SMTT(30) DEF Procedures, UpdateFirmware, Steps, Answer

\* A request starts with nothing transferred.
LEMMA FilesRequest ==
  ASSUME FilesInv, Request
  PROVE  FilesInv'
<1>1. PICK name \in Requested, kind \in Kinds :
        \E p \in Procedures(name, kind) :
          /\ request' = name
          /\ next' = (IF p.steps = <<>> THEN 0 ELSE 1)
          /\ error' = (IF p.steps = <<>> THEN p.error ELSE "none")
  BY DEF Request
<1>2. PICK p \in Procedures(name, kind) :
        /\ request' = name
        /\ next' = (IF p.steps = <<>> THEN 0 ELSE 1)
        /\ error' = (IF p.steps = <<>> THEN p.error ELSE "none")
  BY <1>1
<1>3. /\ read' = 0 /\ written' = <<>> /\ sent' = 0
      /\ image' = [i \in 1..size |-> -1] /\ size' = size
  BY DEF Request, NoTransfer, AnyBytes
<1>4. size \in ObjectSize /\ size \in Nat
  BY RequestsAssumption DEF FilesInv
<1>5. CASE p.steps = <<>>
  <2>1. name # "ptp_download_file"
    BY <1>5, ProcedureShape DEF Common
  <2>2. CASE name = "ptp_eos_update_firmware"
    BY <1>2, <1>3, <1>4, <1>5, <2>2, UpdateAnswers, FilesFail
  <2>3. CASE name # "ptp_eos_update_firmware"
    BY <1>2, <1>3, <1>4, <2>1, <2>3, FilesElse
  <2> QED BY <2>2, <2>3
<1>6. CASE p.steps # <<>>
  <2>1. error' = "none"
    BY <1>2, <1>6
  <2>2. ObjectSoFar'
    BY <1>3, <1>4 DEF ObjectSoFar
  <2>3. FirmwareSoFar'
    <3>1. DOMAIN image' = 1..size' /\ read' = sent' /\ sent' \in Nat
      BY <1>3
    <3>2. 0 = 0 * FirmwarePiece /\ 0 \in Nat
      BY PieceShape
    <3>3. \A j \in 1..sent' : image'[j] = j
      BY <1>3
    <3>4. sent' <= size' - Rest'
      <4> DEFINE P == FirmwarePiece
      <4>1. PICK q \in Nat :
              size = q * P + (size % P) /\ (size % P) \in 0..(P - 1)
        BY <1>4, PieceShape, WholePieces
      <4>2. P \in Nat \ {0}
        BY PieceShape
      <4> HIDE DEF P
      <4>3. q * P \in Nat
        BY <4>2
      <4>4. 0 <= size - (size % P)
        BY <1>4, <4>1, <4>2, <4>3
      <4>5. Rest' = size % P
        BY <1>3 DEF Rest, P
      <4> QED BY <1>3, <4>4, <4>5
    <3> QED BY <1>3, <3>1, <3>2, <3>3, <3>4 DEF FirmwareSoFar
  <2> QED BY <1>3, <1>4, <2>1, <2>2, <2>3
       DEF FilesInv, FileWhole, ObjectWhole, FirmwareWhole
<1> QED BY <1>5, <1>6

\* Every step keeps the invariant.
LEMMA FilesNext ==
  ASSUME Counted, StepsInv, FilesInv, [Next]_vars
  PROVE  FilesInv'
<1>1. Shapes /\ FromProcedure /\ size \in ObjectSize
  BY DEF StepsInv, FilesInv
<1>2. CASE Operation
  <2>1. next # 0 /\ UNCHANGED <<request, size>> /\ InRequest
    BY <1>2 DEF Operation, Succeeds, Refused, TransferFails, Stopped,
                InRequest, Looks
  <2>2. request \notin {"ptp_download_file", "ptp_eos_update_firmware"}
    BY <1>1, <2>1, NotInPieces DEF InRequest, Looks
  <2> QED BY <1>1, <2>1, <2>2, FilesElse
<1>3. CASE ReadEvent
  <2>1. /\ next # 0 /\ UNCHANGED <<request, size>>
        /\ steps[next].look = "event"
    BY <1>3 DEF ReadEvent, Looks
  <2>2. request \notin {"ptp_download_file", "ptp_eos_update_firmware"}
    BY <1>1, <2>1, NotInPieces
  <2> QED BY <1>1, <2>1, <2>2, FilesElse
<1>4. CASE PieceFails \/ SendPieceFails
  <2>1. next' = 0 /\ error' # "PTP_OK" /\ size' = size
    BY <1>4 DEF PieceFails, SendPieceFails, Reply
  <2> QED BY <1>1, <2>1, FilesFail
<1>5. CASE Connect \/ Disconnect
  <2>1. /\ request' \in {"ptp_connect", "ptp_disconnect"}
        /\ size' \in ObjectSize
    BY <1>1, <1>5 DEF Connect, Disconnect
  <2> QED BY <2>1, FilesElse
<1>6. CASE UNCHANGED vars
  BY <1>6 DEF vars, runtime, transfer, settings, FilesInv, FileWhole,
       ObjectSoFar, ObjectWhole, FirmwareSoFar, FirmwareWhole, CanArrive, Rest
<1> QED BY <1>2, <1>3, <1>4, <1>5, <1>6, FilesTakePiece, FilesSendPiece,
           FilesRequest
     DEF Next, Pieces, Finished

\* What arrives in pieces is whole: an object is written from its first byte
\* to its last, and a firmware of the sizes that can arrive is in place.
THEOREM FileWholeHolds ==
  ASSUME Counted
  PROVE  Spec => []FileWhole
<1>1. Init => FilesInv
  BY DEF Init, FilesInv, FileWhole, ObjectSoFar, ObjectWhole, FirmwareSoFar,
         FirmwareWhole
<1>2. StepsInv /\ FilesInv /\ [Next]_vars => FilesInv'
  BY FilesNext
<1>3. FilesInv => FileWhole
  BY DEF FilesInv
<1> QED BY <1>1, <1>2, <1>3, StepsAlways, PTL DEF Spec
=============================================================================
