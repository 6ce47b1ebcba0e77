-------------------------- MODULE Connection_proof --------------------------
(***************************************************************************)
(* Proofs about Connection, for any applications, cameras and failures:    *)
(* what io_kill_switch says of the handle and the socket behind comm_priv, *)
(* who holds the mutex, and whose parameters the runtime keeps.            *)
(***************************************************************************)
EXTENDS Connection, FiniteSetTheorems, TLAPS

\* The shapes of the variables.
Handle == [dev : Device, state : {"open", "closed", "claimed"}]

ShapeOK ==
  /\ setting \in Settings
  /\ io_kill_switch \in BOOLEAN /\ operation_kill_switch \in BOOLEAN
  /\ comm_priv \in {"NULL", "usb", "ip"} /\ pc \in {"idle", "list", "open"}
  /\ handles \in Seq(Handle) /\ handle \in 0..Len(handles)
  /\ list \in Seq(Device) /\ queue \in Seq(Device) /\ found \in Seq(Device)
  /\ pc = "open" => found # <<>>
  /\ depth \in Nat /\ held \in {0, 1}

\* Opening a device adds at most a handle, and a connection is only made on
\* a new handle that has claimed the device.
LEMMA OpenResult ==
  ASSUME ShapeOK, NEW d \in Device, OpenHandle(d)
  PROVE  /\ handles' \in Seq(Handle) /\ handle' \in 0..Len(handles')
         /\ \/ UNCHANGED <<handle, handles>>
            \/ /\ handle' = Len(handles) + 1
               /\ Len(handles') = Len(handles) + 1
               /\ \A i \in 1..Len(handles) : handles'[i] = handles[i]
               /\ handles'[handle'].dev = d
               /\ handles'[handle'].state = "claimed" => ClaimOk(d)
         /\ \/ UNCHANGED kill
            \/ /\ StartConnection
               /\ handle' = Len(handles) + 1
               /\ handles'[handle'].state = "claimed"
               /\ handles'[handle'].dev = d
<1>1. Len(handles) \in Nat /\ handles \in Seq(Handle) BY DEF ShapeOK
<1>2. ASSUME NEW s \in {"open", "closed", "claimed"}, Opened(d, s)
      PROVE  /\ handles' \in Seq(Handle) /\ handle' = Len(handles) + 1
             /\ Len(handles') = Len(handles) + 1
             /\ \A i \in 1..Len(handles) : handles'[i] = handles[i]
             /\ handles'[handle'].dev = d /\ handles'[handle'].state = s
             /\ handle' \in 0..Len(handles')
  <2>1. [dev |-> d, state |-> s] \in Handle BY DEF Handle
  <2>2. handles' = Append(handles, [dev |-> d, state |-> s])
        /\ handle' = Len(handles) + 1
    BY <1>2 DEF Opened
  <2>3. handles'[Len(handles) + 1] = [dev |-> d, state |-> s]
        /\ Len(handles') = Len(handles) + 1 /\ handles' \in Seq(Handle)
        /\ \A i \in 1..Len(handles) : handles'[i] = handles[i]
    BY <1>1, <2>1, <2>2
  <2> QED BY <1>1, <2>2, <2>3
<1>3. CASE UNCHANGED <<handle, handles, kill>>
  BY <1>3 DEF ShapeOK
<1>4. CASE Opened(d, "open") /\ UNCHANGED kill
  BY <1>2, <1>4
<1>5. CASE Opened(d, "closed") /\ UNCHANGED kill
  BY <1>2, <1>5
<1>6. CASE ClaimOk(d) /\ Opened(d, "claimed") /\ StartConnection
  BY <1>2, <1>6
<1> QED BY <1>3, <1>4, <1>5, <1>6 DEF OpenHandle

\* The devices are listed in a sequence.
LEMMA OrdersAreSeqs == Orders \subseteq Seq(Device)
<1>1. Cardinality(Device) \in Nat
  BY ConnectionAssumption, FS_CardinalityType
<1>2. ASSUME NEW q \in Orders PROVE q \in Seq(Device)
  <2>1. PICK n \in 0..Cardinality(Device) : q \in [1..n -> Device]
    BY DEF Orders
  <2> QED BY <1>1, <2>1
<1> QED BY <1>2

\* The shapes are kept by every step.
LEMMA ShapeStep == ShapeOK /\ [Next]_vars => ShapeOK'
<1>1. SUFFICES ASSUME ShapeOK, [Next]_vars PROVE ShapeOK' OBVIOUS
<1> USE DEF kind, kill, priv, listing, past
<1>2. CASE DeviceList \/ DeviceConnect
  <2>1. queue' \in Seq(Device) /\ found' = <<>> /\ pc' = "list"
    BY <1>2, OrdersAreSeqs DEF DeviceList, DeviceConnect, StartList
  <2>2. /\ comm_priv' \in {"NULL", "usb", "ip"} /\ depth' = depth + 1
        /\ UNCHANGED <<setting, io_kill_switch, operation_kill_switch,
                       handles, handle, list, held>>
    BY <1>1, <1>2 DEF DeviceList, DeviceConnect, StartList, CommInit, ShapeOK
  <2> QED BY <1>1, <2>1, <2>2 DEF ShapeOK
<1>3. CASE FillEntry
  <2>1. /\ queue' = Tail(queue) /\ queue # <<>> /\ pc' = pc /\ pc = "list"
        /\ found' = Append(found, Head(queue)) \/ found' = found
        /\ depth' = depth \/ depth' = Unlock(depth)
        /\ UNCHANGED <<setting, io_kill_switch, operation_kill_switch,
                       comm_priv, handles, handle, list, held>>
    BY <1>3 DEF FillEntry
  <2>2. queue' \in Seq(Device) /\ found' \in Seq(Device)
    <3>1. queue \in Seq(Device) /\ found \in Seq(Device) BY <1>1 DEF ShapeOK
    <3>2. Head(queue) \in Device /\ Tail(queue) \in Seq(Device)
      BY <2>1, <3>1
    <3>3. Append(found, Head(queue)) \in Seq(Device) BY <3>1, <3>2
    <3> QED BY <2>1, <3>1, <3>2, <3>3
  <2>3. depth' \in Nat BY <1>1, <2>1 DEF ShapeOK, Unlock
  <2> QED BY <1>1, <2>1, <2>2, <2>3 DEF ShapeOK
<1>4. CASE EndList
  BY <1>1, <1>4 DEF EndList, ShapeOK, Unlock
<1>5. CASE ConnectFirst
  <2>1. found \in Seq(Device) /\ found # <<>>
    BY <1>1, <1>5 DEF ShapeOK, ConnectFirst
  <2>2. found[1] \in Device BY <2>1
  <2>3. handles' \in Seq(Handle) /\ handle' \in 0..Len(handles')
        /\ (UNCHANGED kill \/ StartConnection)
    BY <1>1, <1>5, <2>2, OpenResult DEF ConnectFirst
  <2> QED BY <1>1, <1>5, <2>3 DEF ConnectFirst, ShapeOK, StartConnection
<1>6. CASE DeviceOpen
  <2>1. PICK i \in 1..Len(list) :
          IF io_kill_switch
          THEN endpoints' = list[i] /\ OpenHandle(list[i])
          ELSE UNCHANGED <<kill, endpoints, handle, handles>>
    BY <1>6 DEF DeviceOpen
  <2>2. list[i] \in Device BY <1>1 DEF ShapeOK
  <2>3. handles' \in Seq(Handle) /\ handle' \in 0..Len(handles')
        /\ (UNCHANGED kill \/ StartConnection)
    <3>1. CASE io_kill_switch BY <1>1, <2>1, <2>2, <3>1, OpenResult
    <3>2. CASE ~io_kill_switch BY <1>1, <2>1, <3>2 DEF ShapeOK
    <3> QED BY <3>1, <3>2
  <2>4. depth' \in Nat BY <1>1, <1>6 DEF DeviceOpen, Unlock, ShapeOK
  <2> QED BY <1>1, <1>6, <2>3, <2>4 DEF DeviceOpen, ShapeOK, StartConnection
<1>7. CASE ConnectFromHandle
  <2>1. PICK d \in Device :
          \/ OpenHandle(d) /\ UNCHANGED depth
          \/ /\ depth' = Unlock(depth) /\ UNCHANGED <<kill, handle, handles>>
    BY <1>7 DEF ConnectFromHandle
  <2>2. handles' \in Seq(Handle) /\ handle' \in 0..Len(handles')
        /\ (UNCHANGED kill \/ StartConnection) /\ depth' \in Nat
    <3>1. CASE OpenHandle(d) /\ UNCHANGED depth
      BY <1>1, <3>1, OpenResult DEF ShapeOK
    <3>2. CASE depth' = Unlock(depth) /\ UNCHANGED <<kill, handle, handles>>
      BY <1>1, <3>2 DEF ShapeOK, Unlock
    <3> QED BY <2>1, <3>1, <3>2
  <2> QED BY <1>1, <1>7, <2>2
        DEF ConnectFromHandle, ShapeOK, StartConnection, CommInit
<1>8. CASE FreeList BY <1>1, <1>8 DEF FreeList, ShapeOK
<1>9. CASE DeviceClose
  <2>1. /\ handle \in 1..Len(handles) /\ handles \in Seq(Handle)
        /\ handle' = handle /\ Len(handles) \in Nat
    BY <1>1, <1>9 DEF DeviceClose, ShapeOK
  <2>2. handles' \in Seq(Handle) /\ Len(handles') = Len(handles)
    <3>1. CASE handles' = handles BY <2>1, <3>1
    <3>2. CASE handles' = [handles EXCEPT ![handle].state = "closed"]
      <4>1. handles[handle] \in Handle BY <2>1
      <4>2. [handles[handle] EXCEPT !.state = "closed"] \in Handle
        BY <4>1 DEF Handle
      <4>3. handles' = [handles EXCEPT ![handle] =
                          [handles[handle] EXCEPT !.state = "closed"]]
        BY <3>2
      <4> QED BY <2>1, <4>2, <4>3
    <3> QED BY <1>9, <3>1, <3>2 DEF DeviceClose
  <2> QED BY <1>1, <1>9, <2>1, <2>2 DEF DeviceClose, ShapeOK
<1>10. CASE IpConnect \/ IpClose
  <2>1. /\ UNCHANGED <<setting, handles, handle, list, queue, found, pc,
                       depth, held>>
        /\ comm_priv' = IF comm_priv = "NULL" THEN "ip" ELSE comm_priv
    BY <1>10 DEF IpConnect, IpClose, InitComm
  <2>2. UNCHANGED kill \/ StartConnection BY <1>10 DEF IpConnect, IpClose
  <2> QED BY <1>1, <2>1, <2>2 DEF ShapeOK, StartConnection
<1>11. CASE Reset BY <1>1, <1>11 DEF Reset, ShapeOK
<1>12. CASE Send
  <2>1. operation_kill_switch' \in BOOLEAN BY <1>1, <1>12 DEF Send, ShapeOK
  <2> QED BY <1>1, <1>12, <2>1 DEF Send, ShapeOK
<1>13. CASE ReportError BY <1>1, <1>13 DEF ReportError, ShapeOK
<1>14. CASE CallerLock \/ CallerUnlock
  BY <1>1, <1>14 DEF CallerLock, CallerUnlock, ShapeOK, Unlock
<1>15. CASE UNCHANGED vars BY <1>1, <1>15 DEF vars, ShapeOK
<1> HIDE DEF kind, kill, priv, listing, past
<1> QED BY <1>1, <1>2, <1>3, <1>4, <1>5, <1>6, <1>7, <1>8, <1>9, <1>10,
           <1>11, <1>12, <1>13, <1>14, <1>15 DEF Next, Usb, Ip, Runtime
-----------------------------------------------------------------------------
(* The invariants.                                                         *)

\* No device is claimed through two handles.
Single ==
  \A i, j \in 1..Len(handles) :
    handles[i].state = "claimed" /\ handles[j] = handles[i] => i = j

\* While there is a connection comm_priv points to a struct, and a USB
\* struct holds the handle that was opened last, and claimed.  Devices are
\* listed and opened while there is none, and only for a USB runtime.
ClaimInv ==
  /\ pc # "idle" => io_kill_switch /\ comm_priv # "NULL"
  /\ Connected => comm_priv # "NULL"
  /\ Connected /\ comm_priv = "usb" =>
       handle # 0 /\ handles[handle].state = "claimed"
  /\ comm_priv = "usb" => connection_type = "PTP_USB"
  /\ pc # "idle" => connection_type = "PTP_USB"
  /\ Single

\* The application does not close a socket in use, and does not reset a
\* runtime with sockets: ptp_reset makes it one for USB, and leaves the
\* socket's struct behind comm_priv.
KeepsKind ==
  \A s \in Settings : /\ "close_active" \notin s.ops
                      /\ "ptpip_connect" \in s.ops => "ptp_reset" \notin s.ops

\* Under it the struct behind comm_priv is the backend's, and its socket is
\* open while there is a connection.
KindInv ==
  /\ comm_priv = "ip" => /\ connection_type # "PTP_USB"
                         /\ "ptpip_connect" \in Ops
                         /\ Connected => fd
  /\ SendsToDevice

\* The mutex is locked once more in the loop over the devices.
LockInv ==
  "listed_open" \notin Faults =>
    depth = IF pc = "list" THEN held + 1 ELSE held

\* The application lets the library find its devices, all of which can be
\* opened while they are listed, or it finds them itself.
OneWay ==
  \A s \in Settings :
    \/ {"ptpusb_device_list", "ptp_device_connect"} \cap s.ops = {}
    \/ /\ {"ptp_device_connect_from_libusb_handle", "ptpip_connect"}
            \cap s.ops = {}
       /\ "listed_open" \notin s.faults

\* The endpoints are set before the handle, to the same device.
EndpointInv ==
  Connected /\ comm_priv = "usb"
  /\ "ptp_device_connect_from_libusb_handle" \notin Ops =>
    endpoints = OpenDevice

\* An application that lists devices has the packet size of the last one; one
\* that does not has that of its connection.
SizeInv ==
  /\ caller = "none" =>
       /\ list = <<>> /\ found = <<>> /\ pc = "idle"
       /\ Connected /\ comm_priv = "usb" =>
            max_packet_size = PacketSize[OpenDevice]
  /\ caller # "none" =>
       /\ {"ptpusb_device_list", "ptp_device_connect"} \cap Ops # {}
       /\ found # <<>> => max_packet_size = PacketSize[found[Len(found)]]

SettledInv == ShapeOK /\ ClaimInv
-----------------------------------------------------------------------------
(* Handles.                                                                *)

\* A handle that is added is the only one that has claimed its device.
LEMMA OpenSingle ==
  ASSUME ShapeOK, Single, NEW d \in Device, OpenHandle(d)
  PROVE  Single'
<1>1. CASE UNCHANGED <<handle, handles>> BY <1>1 DEF Single
<1>2. CASE ~(UNCHANGED <<handle, handles>>)
  <2>1. /\ handle' = Len(handles) + 1 /\ Len(handles') = Len(handles) + 1
        /\ \A i \in 1..Len(handles) : handles'[i] = handles[i]
        /\ handles'[handle'].dev = d
        /\ handles'[handle'].state = "claimed" => ClaimOk(d)
        /\ handles' \in Seq(Handle)
    BY <1>2, OpenResult
  <2>2. Len(handles) \in Nat BY DEF ShapeOK
  <2>3. handles'[handle'] \in Handle BY <2>1, <2>2
  <2>4. ASSUME NEW i \in 1..Len(handles), handles'[handle'].state = "claimed"
        PROVE  handles[i] # handles'[handle']
    <3>1. handles'[handle'] = [dev |-> d, state |-> "claimed"]
      BY <2>1, <2>3, <2>4 DEF Handle
    <3> QED BY <2>1, <2>4, <3>1 DEF ClaimOk
  <2>5. ASSUME NEW i \in 1..Len(handles'), NEW j \in 1..Len(handles'),
               handles'[i].state = "claimed", handles'[j] = handles'[i]
        PROVE  i = j
    <3>1. (i \in 1..Len(handles) \/ i = handle')
          /\ (j \in 1..Len(handles) \/ j = handle')
      BY <2>1, <2>2
    <3>2. CASE i \in 1..Len(handles) /\ j \in 1..Len(handles)
      BY <2>1, <2>5, <3>2 DEF Single
    <3>3. CASE i = handle' /\ j \in 1..Len(handles)
      BY <2>1, <2>4, <2>5, <3>3
    <3>4. CASE i \in 1..Len(handles) /\ j = handle'
      BY <2>1, <2>4, <2>5, <3>4
    <3> QED BY <3>1, <3>2, <3>3, <3>4
  <2> QED BY <2>5 DEF Single
<1> QED BY <1>1, <1>2

\* A call that opens a device for a runtime without a connection.
LEMMA OpenClaims ==
  ASSUME ShapeOK, ClaimInv, NEW d \in Device, OpenHandle(d), pc' = "idle",
         io_kill_switch, comm_priv' # "NULL",
         connection_type' = "PTP_USB"
  PROVE  ClaimInv'
<1>1. Single' BY OpenSingle DEF ClaimInv
<1>2. CASE UNCHANGED kill
  BY <1>1, <1>2 DEF ClaimInv, Connected, kill
<1>3. CASE ~UNCHANGED kill
  <2>1. handle' = Len(handles) + 1 /\ handles'[handle'].state = "claimed"
        /\ Len(handles) \in Nat
    BY <1>3, OpenResult DEF ShapeOK
  <2> QED BY <1>1, <2>1 DEF ClaimInv
<1> QED BY <1>2, <1>3

\* What the handles and io_kill_switch say of each other.
LEMMA ClaimStep == SettledInv /\ [Next]_vars => ClaimInv'
<1>1. SUFFICES ASSUME SettledInv, [Next]_vars PROVE ClaimInv' OBVIOUS
<1>2. ShapeOK /\ ClaimInv BY <1>1 DEF SettledInv
<1> USE DEF kind, kill, priv, listing, past
<1>3. ASSUME UNCHANGED <<handle, handles, connection_type>>,
             comm_priv' = comm_priv,
             io_kill_switch => io_kill_switch',
             pc' = pc \/ pc' = "idle"
      PROVE  ClaimInv'
  <2>1. Single' BY <1>2, <1>3 DEF ClaimInv, Single
  <2>2. Connected' => Connected BY <1>3 DEF Connected
  <2> QED BY <1>2, <1>3, <2>1, <2>2 DEF ClaimInv
<1>4. CASE DeviceList \/ DeviceConnect
  <2>1. /\ UNCHANGED <<handle, handles, connection_type, io_kill_switch>>
        /\ io_kill_switch /\ connection_type = "PTP_USB"
        /\ comm_priv' # "NULL"
    BY <1>4 DEF DeviceList, DeviceConnect, StartList, CommInit, UsbIdle
  <2> QED BY <1>2, <2>1 DEF ClaimInv, Connected, Single
<1>5. CASE FillEntry BY <1>2, <1>3, <1>5 DEF FillEntry, ShapeOK
<1>6. CASE EndList
  <2>1. /\ UNCHANGED <<handle, handles, connection_type, io_kill_switch,
                       comm_priv>>
        /\ pc = "list"
    BY <1>6 DEF EndList
  <2> QED BY <1>2, <2>1 DEF ClaimInv, Connected, Single
<1>7. CASE ConnectFirst
  <2>1. found[1] \in Device
    <3>1. found \in Seq(Device) /\ found # <<>>
      BY <1>2, <1>7 DEF ShapeOK, ConnectFirst
    <3> QED BY <3>1
  <2>2. /\ OpenHandle(found[1]) /\ pc' = "idle" /\ io_kill_switch
        /\ comm_priv' # "NULL" /\ connection_type' = "PTP_USB"
    BY <1>2, <1>7 DEF ConnectFirst, ClaimInv
  <2> QED BY <1>2, <2>1, <2>2, OpenClaims
<1>8. CASE DeviceOpen
  <2>1. PICK i \in 1..Len(list) :
          IF io_kill_switch
          THEN endpoints' = list[i] /\ OpenHandle(list[i])
          ELSE UNCHANGED <<kill, endpoints, handle, handles>>
    BY <1>8 DEF DeviceOpen
  <2>2. /\ list[i] \in Device /\ pc' = pc /\ pc = "idle"
        /\ comm_priv' = comm_priv /\ comm_priv = "usb"
        /\ connection_type' = connection_type
    BY <1>2, <1>8 DEF ShapeOK, DeviceOpen, Makes
  <2>3. CASE io_kill_switch
    BY <1>2, <2>1, <2>2, <2>3, OpenClaims DEF ClaimInv
  <2>4. CASE ~io_kill_switch
    BY <1>2, <1>3, <2>1, <2>2, <2>4 DEF ShapeOK
  <2> QED BY <2>3, <2>4
<1>9. CASE ConnectFromHandle
  <2>1. PICK d \in Device :
          \/ OpenHandle(d) /\ UNCHANGED depth
          \/ /\ depth' = Unlock(depth) /\ UNCHANGED <<kill, handle, handles>>
    BY <1>9 DEF ConnectFromHandle
  <2>2. /\ pc' = pc /\ pc = "idle" /\ io_kill_switch /\ comm_priv' # "NULL"
        /\ connection_type' = connection_type /\ connection_type = "PTP_USB"
    BY <1>9 DEF ConnectFromHandle, Makes, UsbIdle, CommInit
  <2>3. CASE OpenHandle(d) BY <1>2, <2>2, <2>3, OpenClaims
  <2>4. CASE UNCHANGED <<kill, handle, handles>>
    BY <1>2, <2>2, <2>4 DEF ClaimInv, Connected, Single
  <2> QED BY <2>1, <2>3, <2>4
<1>10. CASE DeviceClose
  <2>1. /\ handle \in 1..Len(handles) /\ handles \in Seq(Handle)
        /\ pc' = "idle" /\ io_kill_switch' = TRUE /\ Len(handles) \in Nat
        /\ UNCHANGED <<connection_type, comm_priv>> /\ handle' = handle
    BY <1>2, <1>10 DEF DeviceClose, ShapeOK, Makes
  <2>2. Single'
    <3>1. CASE handles' = handles BY <1>2, <3>1 DEF ClaimInv, Single
    <3>2. CASE handles' = [handles EXCEPT ![handle].state = "closed"]
      <4>1. /\ Len(handles') = Len(handles)
            /\ \A i \in 1..Len(handles) :
                 i # handle => handles'[i] = handles[i]
            /\ handles'[handle].state = "closed"
        <5>1. handles[handle] \in Handle BY <2>1
        <5>2. [handles[handle] EXCEPT !.state = "closed"].state = "closed"
          BY <5>1 DEF Handle
        <5>3. handles' = [handles EXCEPT ![handle] =
                            [handles[handle] EXCEPT !.state = "closed"]]
          BY <3>2
        <5> QED BY <2>1, <5>2, <5>3
      <4> QED BY <1>2, <4>1 DEF ClaimInv, Single
    <3> QED BY <1>10, <3>1, <3>2 DEF DeviceClose
  <2> QED BY <1>2, <2>1, <2>2 DEF ClaimInv, Connected
<1>11. CASE IpConnect \/ IpClose
  <2>1. /\ UNCHANGED <<handle, handles, connection_type, pc>> /\ pc = "idle"
        /\ comm_priv' = "ip"
    BY <1>2, <1>11
      DEF IpConnect, IpClose, InitComm, Makes, ForSockets, ShapeOK
  <2> QED BY <1>2, <2>1 DEF ClaimInv, Single
<1>12. CASE Reset
  BY <1>2, <1>12 DEF Reset, ClaimInv, Connected, Single, Makes
<1>13. CASE FreeList \/ Send \/ CallerLock \/ CallerUnlock
  BY <1>2, <1>3, <1>13
    DEF FreeList, Send, CallerLock, CallerUnlock, ShapeOK
<1>14. CASE ReportError BY <1>2, <1>3, <1>14 DEF ReportError
<1>15. CASE UNCHANGED vars BY <1>2, <1>3, <1>15 DEF vars, ShapeOK
<1> HIDE DEF kind, kill, priv, listing, past
<1> QED BY <1>1, <1>4, <1>5, <1>6, <1>7, <1>8, <1>9, <1>10, <1>11, <1>12,
           <1>13, <1>14, <1>15 DEF Next, Usb, Ip, Runtime
-----------------------------------------------------------------------------
(* Packets.                                                                *)

\* Where a packet goes while there is a connection.
LEMMA DispatchSafe ==
  ASSUME SettledInv, KindInv, Connected, Dispatch # "panic"
  PROVE  Dispatch \in {"claimed", "socket"}
<1>1. comm_priv \in {"usb", "ip"}
  BY DEF SettledInv, ShapeOK, ClaimInv
<1>2. CASE comm_priv = "usb"
  BY <1>2 DEF SettledInv, ClaimInv, Dispatch, UsbTarget
<1>3. CASE comm_priv = "ip"
  BY <1>3 DEF KindInv, Dispatch, IpTarget
<1> QED BY <1>1, <1>2, <1>3

\* The struct behind comm_priv stays the backend's, and its socket open.
LEMMA KindStep ==
  ASSUME KeepsKind
  PROVE  SettledInv /\ KindInv /\ [Next]_vars => KindInv'
<1>1. SUFFICES ASSUME SettledInv, KindInv, [Next]_vars PROVE KindInv'
  OBVIOUS
<1>2. ShapeOK /\ ClaimInv BY <1>1 DEF SettledInv
<1>3. "close_active" \notin Ops
      /\ ("ptpip_connect" \in Ops => "ptp_reset" \notin Ops)
  BY <1>2 DEF ShapeOK, KeepsKind, Ops
<1> USE DEF kind, kill, priv, listing, past
<1>4. ASSUME UNCHANGED <<setting, connection_type, comm_priv, fd>>,
             target' \in {target, "claimed", "socket"},
             io_kill_switch => io_kill_switch'
      PROVE  KindInv'
  BY <1>1, <1>4 DEF KindInv, Connected, SendsToDevice, Ops
<1>5. CASE DeviceList \/ DeviceConnect \/ ConnectFromHandle
  <2>1. /\ UNCHANGED <<setting, connection_type, target>>
        /\ connection_type = "PTP_USB"
        /\ comm_priv' = IF comm_priv = "NULL" THEN "usb" ELSE comm_priv
    BY <1>5 DEF DeviceList, DeviceConnect, ConnectFromHandle, StartList,
                CommInit, UsbIdle
  <2>2. comm_priv' # "ip" BY <1>1, <2>1 DEF KindInv
  <2> QED BY <1>1, <2>1, <2>2 DEF KindInv, SendsToDevice
<1>6. CASE FillEntry \/ EndList \/ FreeList \/ CallerLock \/ CallerUnlock
  BY <1>4, <1>6 DEF FillEntry, EndList, FreeList, CallerLock, CallerUnlock
<1>7. CASE ConnectFirst \/ DeviceOpen
  <2>1. comm_priv # "ip"
    <3>1. connection_type = "PTP_USB"
      BY <1>2, <1>7 DEF ClaimInv, ConnectFirst, DeviceOpen
    <3> QED BY <1>1, <3>1 DEF KindInv
  <2>2. UNCHANGED <<comm_priv, target>> BY <1>7 DEF ConnectFirst, DeviceOpen
  <2> QED BY <1>1, <2>1, <2>2 DEF KindInv, SendsToDevice
<1>8. CASE DeviceClose BY <1>4, <1>8 DEF DeviceClose
<1>9. CASE IpConnect
  <2>1. /\ UNCHANGED <<setting, connection_type, target>>
        /\ "ptpip_connect" \in Ops /\ io_kill_switch
        /\ (fd' = TRUE \/ UNCHANGED kill)
    BY <1>9 DEF IpConnect, Makes
  <2>2. connection_type # "PTP_USB"
    BY <1>1, <1>9 DEF IpConnect, ForSockets, KindInv
  <2> QED BY <1>1, <2>1, <2>2 DEF KindInv, SendsToDevice, Connected, Ops
<1>10. CASE IpClose
  <2>1. /\ UNCHANGED <<setting, connection_type, target, io_kill_switch>>
        /\ comm_priv = "ip" /\ io_kill_switch
    BY <1>3, <1>10 DEF IpClose
  <2> QED BY <1>1, <2>1 DEF KindInv, SendsToDevice, Connected, Ops
<1>11. CASE Reset
  <2>1. /\ UNCHANGED <<comm_priv, target>> /\ "ptp_reset" \in Ops
    BY <1>11 DEF Reset, Makes
  <2>2. comm_priv # "ip" BY <1>1, <1>3, <2>1 DEF KindInv
  <2> QED BY <1>1, <2>1, <2>2 DEF KindInv, SendsToDevice
<1>12. CASE Send
  <2>1. target' \in {target, "claimed", "socket"}
    <3>1. target' = target
          \/ (target' = Dispatch /\ Dispatch # "panic" /\ ~io_kill_switch)
      BY <1>12 DEF Send
    <3> QED BY <1>1, <3>1, DispatchSafe DEF Connected
  <2> QED BY <1>4, <1>12, <2>1 DEF Send
<1>13. CASE ReportError
  <2>1. target' \in {target, "claimed", "socket"}
    <3>1. Connected /\ (target' = target
                        \/ (target' = Dispatch /\ Dispatch # "panic"))
      BY <1>13 DEF ReportError
    <3> QED BY <1>1, <3>1, DispatchSafe
  <2> QED BY <1>4, <1>13, <2>1 DEF ReportError
<1>14. CASE UNCHANGED vars BY <1>4, <1>14 DEF vars
<1> HIDE DEF kind, kill, priv, listing, past
<1> QED BY <1>1, <1>5, <1>6, <1>7, <1>8, <1>9, <1>10, <1>11, <1>12, <1>13,
           <1>14 DEF Next, Usb, Ip, Runtime
-----------------------------------------------------------------------------
(* The mutex.                                                              *)

\* Each lock has its unlock, unless the open of a listed device fails.
LEMMA LockStep == ShapeOK /\ LockInv /\ [Next]_vars => LockInv'
<1>1. SUFFICES ASSUME ShapeOK, LockInv, [Next]_vars PROVE LockInv' OBVIOUS
<1> USE DEF kind, kill, priv, listing, past
<1>2. setting' = setting
  BY <1>1 DEF Next, Usb, Ip, Runtime, vars, DeviceList, DeviceConnect,
     StartList, FillEntry, EndList, ConnectFirst, DeviceOpen, FreeList,
     ConnectFromHandle, DeviceClose, IpConnect, IpClose, Reset, Send,
     ReportError, CallerLock, CallerUnlock
<1>3. SUFFICES ASSUME "listed_open" \notin Faults
               PROVE  depth' = IF pc' = "list" THEN held' + 1 ELSE held'
  BY <1>2 DEF LockInv, Faults
<1>4. /\ depth = (IF pc = "list" THEN held + 1 ELSE held)
      /\ depth \in Nat /\ held \in {0, 1}
  BY <1>1, <1>3 DEF LockInv, ShapeOK
<1>5. CASE DeviceList \/ DeviceConnect
  <2>1. /\ pc = "idle" /\ pc' = "list" /\ held' = held
        /\ depth' = depth + 1
    BY <1>5 DEF DeviceList, DeviceConnect, StartList, Makes
  <2> QED BY <1>4, <2>1
<1>6. CASE FillEntry BY <1>3, <1>4, <1>6 DEF FillEntry
<1>7. CASE EndList BY <1>4, <1>7 DEF EndList, Unlock
<1>8. CASE ConnectFirst BY <1>4, <1>8 DEF ConnectFirst
<1>9. CASE DeviceOpen
  <2>1. /\ pc = "idle" /\ pc' = pc /\ held' = held
        /\ depth' = Unlock(depth + 1)
    BY <1>9 DEF DeviceOpen, Makes
  <2> QED BY <1>4, <2>1 DEF Unlock
<1>10. CASE ConnectFromHandle
  <2>1. depth' = depth BY <1>3, <1>10 DEF ConnectFromHandle
  <2>2. pc' = pc /\ held' = held BY <1>10 DEF ConnectFromHandle
  <2> QED BY <1>4, <2>1, <2>2
<1>11. CASE FreeList \/ DeviceClose \/ Ip \/ Reset \/ Send \/ ReportError
  <2>1. UNCHANGED <<depth, held, pc>>
    BY <1>11 DEF FreeList, DeviceClose, Ip, IpConnect, IpClose, Reset, Send,
                 ReportError
  <2> QED BY <1>4, <2>1
<1>12. CASE CallerLock BY <1>4, <1>12 DEF CallerLock, Makes
<1>13. CASE CallerUnlock BY <1>4, <1>13 DEF CallerUnlock, Unlock
<1>14. CASE UNCHANGED vars BY <1>4, <1>14 DEF vars
<1> HIDE DEF kind, kill, priv, listing, past
<1> QED BY <1>1, <1>5, <1>6, <1>7, <1>8, <1>9, <1>10, <1>11, <1>12, <1>13,
           <1>14 DEF Next, Usb, Runtime
-----------------------------------------------------------------------------
(* Endpoints and packet size.                                              *)

\* An application stays the same.
LEMMA SettingKept == [Next]_vars => setting' = setting
<1> SUFFICES ASSUME [Next]_vars PROVE setting' = setting OBVIOUS
<1> QED
  BY DEF Next, Usb, Ip, Runtime, vars, DeviceList, DeviceConnect,
     StartList, FillEntry, EndList, ConnectFirst, DeviceOpen, FreeList,
     ConnectFromHandle, DeviceClose, IpConnect, IpClose, Reset, Send,
     ReportError, CallerLock, CallerUnlock, kind

\* Who opens a device sets the endpoints to it.
LEMMA EndpointStep == SettledInv /\ EndpointInv /\ [Next]_vars => EndpointInv'
<1>1. SUFFICES ASSUME SettledInv, EndpointInv, [Next]_vars
               PROVE  EndpointInv'
  OBVIOUS
<1>2. ShapeOK /\ ClaimInv BY <1>1 DEF SettledInv
<1>3. Ops' = Ops BY <1>1, SettingKept DEF Ops
<1> USE DEF kind, kill, priv, listing, past
<1>4. ASSUME ~Connected' PROVE EndpointInv' BY <1>4 DEF EndpointInv
<1>5. ASSUME UNCHANGED <<comm_priv, endpoints, handle, handles>>,
             io_kill_switch => io_kill_switch'
      PROVE  EndpointInv'
  BY <1>1, <1>3, <1>5 DEF EndpointInv, Connected, OpenDevice
<1>6. ASSUME NEW d \in Device, endpoints' = d, OpenHandle(d), io_kill_switch
      PROVE  EndpointInv'
  <2>1. CASE UNCHANGED kill BY <1>4, <1>6, <2>1 DEF Connected
  <2>2. CASE ~UNCHANGED kill
    <3>1. handles'[handle'].dev = d BY <1>2, <1>6, <2>2, OpenResult
    <3> QED BY <1>6, <3>1 DEF EndpointInv, OpenDevice
  <2> QED BY <2>1, <2>2
<1>7. CASE DeviceList \/ DeviceConnect
  <2>1. io_kill_switch' = io_kill_switch /\ io_kill_switch
    BY <1>7 DEF DeviceList, DeviceConnect, StartList, UsbIdle
  <2> QED BY <1>4, <2>1 DEF Connected
<1>8. CASE ConnectFirst
  <2>1. found[1] \in Device
    <3>1. found \in Seq(Device) /\ found # <<>>
      BY <1>2, <1>8 DEF ShapeOK, ConnectFirst
    <3> QED BY <3>1
  <2>2. endpoints' = found[1] /\ OpenHandle(found[1]) /\ io_kill_switch
    BY <1>2, <1>8 DEF ConnectFirst, ClaimInv
  <2> QED BY <1>6, <2>1, <2>2
<1>9. CASE DeviceOpen
  <2>1. PICK i \in 1..Len(list) :
          IF io_kill_switch
          THEN endpoints' = list[i] /\ OpenHandle(list[i])
          ELSE UNCHANGED <<kill, endpoints, handle, handles>>
    BY <1>9 DEF DeviceOpen
  <2>2. list[i] \in Device /\ comm_priv' = comm_priv
    BY <1>2, <1>9 DEF ShapeOK, DeviceOpen
  <2> QED BY <1>5, <1>6, <2>1, <2>2
<1>10. CASE ConnectFromHandle
  BY <1>3, <1>10 DEF ConnectFromHandle, Makes, EndpointInv
<1>11. CASE DeviceClose \/ Reset \/ ReportError
  BY <1>4, <1>11 DEF DeviceClose, Reset, ReportError, Connected
<1>12. CASE IpConnect \/ IpClose
  <2>1. comm_priv' = "ip"
    BY <1>2, <1>12 DEF IpConnect, IpClose, InitComm, ForSockets
  <2> QED BY <2>1 DEF EndpointInv
<1>13. CASE FillEntry \/ EndList \/ FreeList \/ Send
            \/ CallerLock \/ CallerUnlock
  BY <1>5, <1>13
    DEF FillEntry, EndList, FreeList, Send, CallerLock, CallerUnlock
<1>14. CASE UNCHANGED vars BY <1>5, <1>14 DEF vars
<1> HIDE DEF kind, kill, priv, listing, past
<1> QED BY <1>1, <1>7, <1>8, <1>9, <1>10, <1>11, <1>12, <1>13, <1>14
      DEF Next, Usb, Ip, Runtime

\* The packet size is that of the last device listed, or of the connection.
LEMMA SizeStep ==
  ASSUME OneWay
  PROVE  SettledInv /\ KindInv /\ SizeInv /\ [Next]_vars => SizeInv'
<1>1. SUFFICES ASSUME SettledInv, KindInv, SizeInv, [Next]_vars
               PROVE  SizeInv'
  OBVIOUS
<1>2. ShapeOK /\ ClaimInv BY <1>1 DEF SettledInv
<1>3. Ops' = Ops /\ setting \in Settings
  BY <1>1, <1>2, SettingKept DEF Ops, ShapeOK
<1> DEFINE Lists == {"ptpusb_device_list", "ptp_device_connect"} \cap Ops # {}
<1>4. Lists => /\ "ptp_device_connect_from_libusb_handle" \notin Ops
               /\ "ptpip_connect" \notin Ops
               /\ "listed_open" \notin Faults
  BY <1>3 DEF OneWay, Ops, Faults
<1>5. caller = "none" => list = <<>> /\ found = <<>> /\ pc = "idle"
  BY <1>1 DEF SizeInv
<1>6. caller # "none" =>
        Lists /\ (found # <<>> =>
                    max_packet_size = PacketSize[found[Len(found)]])
  BY <1>1 DEF SizeInv
<1> USE DEF kind, kill, priv, listing, past
<1>7. ASSUME UNCHANGED <<max_packet_size, handle, handles, comm_priv, caller,
                         found>>,
             list' = list \/ list' = <<>> \/ caller # "none",
             pc' = pc \/ caller # "none",
             io_kill_switch => io_kill_switch'
      PROVE  SizeInv'
  BY <1>1, <1>3, <1>7 DEF SizeInv, Connected, OpenDevice
<1>8. ASSUME UNCHANGED <<max_packet_size, caller, found>>, caller # "none"
      PROVE  SizeInv'
  BY <1>3, <1>6, <1>8 DEF SizeInv
<1>9. CASE DeviceList \/ DeviceConnect
  <2>1. /\ caller' \in {"ptpusb_device_list", "ptp_device_connect"}
        /\ caller' \in Ops /\ found' = <<>>
    BY <1>9 DEF DeviceList, DeviceConnect, StartList, Makes
  <2> QED BY <1>3, <2>1 DEF SizeInv
<1>10. CASE FillEntry
  <2>1. caller # "none" /\ caller' = caller BY <1>5, <1>10 DEF FillEntry
  <2>2. /\ found' = Append(found, Head(queue))
        /\ max_packet_size' = PacketSize[Head(queue)]
    BY <1>4, <1>6, <1>10, <2>1 DEF FillEntry
  <2>3. found \in Seq(Device) /\ Head(queue) \in Device
    <3>1. queue \in Seq(Device) /\ queue # <<>> /\ found \in Seq(Device)
      BY <1>2, <1>10 DEF ShapeOK, FillEntry
    <3> QED BY <3>1
  <2>4. found'[Len(found')] = Head(queue) BY <2>2, <2>3
  <2> QED BY <1>3, <1>6, <2>1, <2>2, <2>4 DEF SizeInv
<1>11. CASE EndList
  <2>1. caller # "none" BY <1>5, <1>11 DEF EndList
  <2> QED BY <1>8, <1>11, <2>1 DEF EndList
<1>12. CASE ConnectFirst
  <2>1. caller # "none" BY <1>5, <1>12 DEF ConnectFirst
  <2> QED BY <1>8, <1>12, <2>1 DEF ConnectFirst
<1>13. CASE DeviceOpen
  <2>1. list # <<>>
    <3>1. PICK i \in 1..Len(list) : TRUE BY <1>13 DEF DeviceOpen
    <3> QED BY <3>1
  <2>2. caller # "none" BY <1>5, <2>1
  <2> QED BY <1>8, <1>13, <2>2 DEF DeviceOpen
<1>14. CASE ConnectFromHandle
  <2>1. /\ "ptp_device_connect_from_libusb_handle" \in Ops
        /\ UNCHANGED <<list, found, pc, caller>> /\ io_kill_switch
    BY <1>14 DEF ConnectFromHandle, Makes, UsbIdle
  <2>2. caller = "none" BY <1>4, <1>6, <2>1
  <2>3. PICK d \in Device :
          /\ max_packet_size' = PacketSize[d]
          /\ OpenHandle(d) \/ UNCHANGED <<kill, handle, handles>>
    BY <1>14 DEF ConnectFromHandle
  <2>4. Connected' => max_packet_size' = PacketSize[OpenDevice]'
    <3>1. CASE UNCHANGED kill BY <2>1, <3>1 DEF Connected
    <3>2. CASE ~UNCHANGED kill
      <4>1. handles'[handle'].dev = d BY <1>2, <2>3, <3>2, OpenResult
      <4> QED BY <2>3, <4>1 DEF OpenDevice
    <3> QED BY <3>1, <3>2
  <2> QED BY <1>5, <2>1, <2>2, <2>4 DEF SizeInv
<1>15. CASE IpConnect \/ IpClose
  <2>1. /\ UNCHANGED <<list, found, pc, caller>> /\ comm_priv' = "ip"
        /\ "ptpip_connect" \in Ops
    BY <1>1, <1>2, <1>15
      DEF IpConnect, IpClose, InitComm, ForSockets, Makes, KindInv
  <2>2. caller = "none" BY <1>4, <1>6, <2>1
  <2> QED BY <1>5, <2>1, <2>2 DEF SizeInv
<1>16. CASE DeviceClose
  <2>1. /\ UNCHANGED <<max_packet_size, list, found, pc, caller>>
        /\ io_kill_switch' = TRUE
    BY <1>16 DEF DeviceClose
  <2> QED BY <1>1, <1>3, <2>1 DEF SizeInv, Connected
<1>17. CASE FreeList \/ Reset \/ Send \/ ReportError
            \/ CallerLock \/ CallerUnlock
  BY <1>7, <1>17
    DEF FreeList, Reset, Send, ReportError, CallerLock, CallerUnlock
<1>18. CASE UNCHANGED vars BY <1>7, <1>18 DEF vars
<1> HIDE DEF kind, kill, priv, listing, past
<1> QED BY <1>1, <1>9, <1>10, <1>11, <1>12, <1>13, <1>14, <1>15, <1>16,
           <1>17, <1>18 DEF Next, Usb, Ip, Runtime
-----------------------------------------------------------------------------
(* The theorems.                                                           *)

\* Every runtime that ptp_new makes keeps its shapes and its claims.
LEMMA SettledInvariant == Spec => []SettledInv
<1>1. Init => SettledInv
  <2>1. SUFFICES ASSUME Init PROVE SettledInv OBVIOUS
  <2>2. ShapeOK BY <2>1 DEF Init, ShapeOK
  <2>3. ClaimInv
    BY <2>1 DEF Init, ClaimInv, Connected, Single
  <2> QED BY <2>2, <2>3 DEF SettledInv
<1>2. SettledInv /\ [Next]_vars => SettledInv'
  BY ShapeStep, ClaimStep DEF SettledInv
<1> QED BY <1>1, <1>2, PTL DEF Spec

\* While io_kill_switch is clear the USB handle is open and claimed, by no
\* other handle, whichever calls of libusb failed before (libusb_open,
\* claim, release in src/libusb.c).
THEOREM ConnectedClaimedHolds == Spec => []ConnectedClaimed
<1>1. SettledInv => ConnectedClaimed
  <2>1. SUFFICES ASSUME SettledInv, Connected, comm_priv = "usb"
                 PROVE  /\ handle # 0 /\ handles[handle].state = "claimed"
                        /\ \A i \in 1..Len(handles) :
                             handles[i] = handles[handle] => i = handle
    BY DEF ConnectedClaimed
  <2>2. handle # 0 /\ handles[handle].state = "claimed" /\ Single
        /\ handle \in 0..Len(handles) /\ Len(handles) \in Nat
    BY <2>1 DEF SettledInv, ClaimInv, ShapeOK
  <2> QED BY <2>2 DEF Single
<1> QED BY <1>1, SettledInvariant, PTL

\* No packet leaves for a handle that is closed or not claimed, or for a
\* descriptor that is no socket (ptp_send_packet), in an application that
\* neither closes a socket in use nor resets a runtime with sockets.
THEOREM SendsToDeviceHolds ==
  ASSUME KeepsKind
  PROVE  Spec => []SendsToDevice
<1>1. Init => KindInv BY DEF Init, KindInv, SendsToDevice
<1>2. SettledInv /\ KindInv /\ [Next]_vars => KindInv' BY KindStep
<1>3. KindInv => SendsToDevice BY DEF KindInv
<1> QED BY <1>1, <1>2, <1>3, SettledInvariant, PTL DEF Spec

\* Every call gives the mutex back as often as it took it, also around calls
\* of an application that holds it (src/libusb.c), unless the open of a
\* listed device fails.
THEOREM CallerLockKeptHolds == Spec => []CallerLockKept
<1>1. Init => LockInv BY DEF Init, LockInv
<1>2. SettledInv => ShapeOK BY DEF SettledInv
<1>3. ShapeOK /\ LockInv /\ [Next]_vars => LockInv' BY LockStep
<1>4. LockInv => CallerLockKept BY DEF LockInv, CallerLockKept
<1> QED BY <1>1, <1>2, <1>3, <1>4, SettledInvariant, PTL DEF Spec

\* The endpoints and max_packet_size are those of the device that is open
\* (fill_device_entry, ptp_device_open), in an application that finds its
\* devices in one way.
THEOREM ParametersMatchHolds ==
  ASSUME KeepsKind, OneWay
  PROVE  Spec => []ParametersMatch
<1>1. Init => KindInv /\ EndpointInv /\ SizeInv
  BY DEF Init, KindInv, SendsToDevice, EndpointInv, SizeInv, Connected
<1>2. SettledInv /\ KindInv /\ [Next]_vars => KindInv' BY KindStep
<1>3. SettledInv /\ EndpointInv /\ [Next]_vars => EndpointInv'
  BY EndpointStep
<1>4. SettledInv /\ KindInv /\ SizeInv /\ [Next]_vars => SizeInv'
  BY SizeStep
<1>5. SettledInv /\ KindInv /\ EndpointInv /\ SizeInv => ParametersMatch
  <2>1. SUFFICES ASSUME SettledInv, KindInv, EndpointInv, SizeInv,
                        UsbConnected
                 PROVE  ParametersMatch
    BY DEF ParametersMatch
  <2>2. Connected /\ comm_priv = "usb"
    BY <2>1 DEF UsbConnected, SettledInv, ShapeOK, ClaimInv, KindInv
  <2>3. "ptp_device_connect_from_libusb_handle" \notin Ops =>
          endpoints = OpenDevice
    BY <2>1, <2>2 DEF EndpointInv
  <2>4. ASSUME caller = "none" \/ found = <<OpenDevice>>
        PROVE  max_packet_size = PacketSize[OpenDevice]
    <3>1. CASE caller = "none" BY <2>1, <2>2, <3>1 DEF SizeInv
    <3>2. CASE caller # "none"
      <4>1. found = <<OpenDevice>> /\ found # <<>> /\ Len(found) = 1
            /\ found[1] = OpenDevice
        BY <2>4, <3>2
      <4> QED BY <2>1, <3>2, <4>1 DEF SizeInv
    <3> QED BY <3>1, <3>2
  <2> QED BY <2>3, <2>4 DEF ParametersMatch
<1> QED BY <1>1, <1>2, <1>3, <1>4, <1>5, SettledInvariant, PTL DEF Spec
=============================================================================
