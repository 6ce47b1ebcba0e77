------------------------------ MODULE Connection ------------------------------
(***************************************************************************)
(* The life of one struct PtpRuntime in one thread: src/lib.c makes and    *)
(* resets it, src/libusb.c lists, opens and closes USB devices, src/ip.c   *)
(* does the same for sockets, src/error.c disconnects, and ptp_send goes   *)
(* to the backend that connection_type names.  The two backends keep their *)
(* state behind the same pointer, r->comm_priv.                            *)
(*                                                                         *)
(* An action is a whole library call, but for the loop over the devices,   *)
(* which takes one step for each.  Threads are the subject of PtpRuntime.  *)
(***************************************************************************)
EXTENDS Integers, Sequences, FiniteSets

CONSTANTS
  Device,        \* the USB cameras
  PacketSize,    \* wMaxPacketSize of the IN endpoint of each
  Null,          \* no device
  Settings,      \* the applications: what ptp_new is called with, the calls
                 \* that are made (see Op), and what may fail (see Fault)
  CallLimit      \* bound: number of calls

\* "close_active": ptpip_device_close of a connection nobody disconnected;
\* "reconnect": a second connection without the ptp_reset libpict.h asks for,
\* as bind_connect makes it.
Op == {"ptpusb_device_list", "ptp_device_open", "ptp_device_connect",
       "ptp_device_connect_from_libusb_handle", "ptp_device_close",
       "ptpip_connect", "ptpip_device_close", "close_active", "ptp_reset",
       "reconnect", "ptp_report_error", "ptp_send", "ptp_mutex_lock"}

\* "listed_open": libusb_open fails in the device list;  "open", "detach",
\* "claim", "release": the libusb call of that name fails;  "refuse": both
\* sockets fail;  "transfer": a packet is not sent or not answered.
Fault == {"listed_open", "open", "detach", "claim", "release", "refuse",
          "transfer"}

ASSUME ConnectionAssumption ==
  /\ PacketSize \in [Device -> Nat \ {0}]
  /\ Null \notin Device /\ IsFiniteSet(Device)
  /\ Settings \subseteq [options : {"PTP_IP", "PTP_USB", "PTP_IP_USB"},
                         ops : SUBSET Op, faults : SUBSET Fault]
  /\ Settings # {}
  /\ CallLimit \in Nat
-----------------------------------------------------------------------------
VARIABLES
  connection_type, io_kill_switch, operation_kill_switch,
  max_packet_size,                  \* fields of the same name
  comm_priv,     \* "NULL", or the backend whose struct it points to
  endpoints,     \* comm_priv->endpoint_*: of which device
  handle,        \* comm_priv->handle: an index into handles, 0 is NULL
  fd,            \* comm_priv->fd: is it a socket?
  depth,         \* r->mutex: how often the thread has locked it
  list,          \* the device list the application holds
  pc, caller,    \* in the loop over the devices, and for which function
  queue, found,  \* devices the loop still has to look at, and accepted
  setting,       \* the application
  \* history
  handles,       \* every libusb handle ever opened: [dev, state]
  held,          \* how often the application itself has locked the mutex
  used,          \* a connection was made since ptp_new or ptp_reset
  target,        \* where the last packet went
  panicked,      \* ptp_panic was called
  calls

kill    == <<io_kill_switch, operation_kill_switch, used>>
priv    == <<comm_priv, endpoints, handle, fd>>
listing == <<list, pc, caller, queue, found>>
past    == <<handles, held, target, panicked>>
kind    == <<setting, connection_type>>
vars    == <<kind, kill, max_packet_size, priv, depth, listing,
             past, calls>>

Connected == ~io_kill_switch

Ops    == setting.ops
Faults == setting.faults

\* A connection is made.
StartConnection ==
  /\ io_kill_switch' = FALSE /\ operation_kill_switch' = FALSE
  /\ used' = TRUE

\* The application makes call op.
Makes(op) ==
  /\ op \in Ops /\ pc = "idle" /\ ~panicked /\ calls < CallLimit
  /\ calls' = calls + 1

\* pthread_mutex_unlock of a mutex the thread may not own.
Unlock(n) == IF n = 0 THEN 0 ELSE n - 1
-----------------------------------------------------------------------------
(* src/libusb.c                                                            *)

\* libusb_claim_interface: one handle has the interface.
ClaimOk(d) ==
  \A i \in 1..Len(handles) : handles[i] # [dev |-> d, state |-> "claimed"]

\* What libusb_open opens ends in this state.
Opened(d, state) ==
  /\ handles' = Append(handles, [dev |-> d, state |-> state])
  /\ handle' = Len(handles) + 1

\* Mutant of OpenHandle: a failed claim is not looked at.
OpenUnclaimed(d) ==
  \/ "open" \in Faults /\ UNCHANGED <<handle, handles, kill>>
  \/ "detach" \in Faults /\ Opened(d, "open") /\ UNCHANGED kill
  \/ /\ Opened(d, IF ClaimOk(d) THEN "claimed" ELSE "closed")
     /\ StartConnection

\* libusb_open, libusb_set_auto_detach_kernel_driver, libusb_claim_interface;
\* only the last failure closes the handle, none clears the pointer to it.
OpenHandle(d) ==
  \/ "open" \in Faults /\ UNCHANGED <<handle, handles, kill>>
  \/ "detach" \in Faults /\ Opened(d, "open") /\ UNCHANGED kill
  \/ /\ "claim" \in Faults \/ ~ClaimOk(d)
     /\ Opened(d, "closed") /\ UNCHANGED kill
  \/ /\ ClaimOk(d) /\ Opened(d, "claimed")
     /\ StartConnection

\* ptp_comm_init where it does not panic.
CommInit ==
  /\ comm_priv' = IF comm_priv = "NULL" THEN "usb" ELSE comm_priv

\* The application knows that a connection must be closed before devices are
\* listed or connected, and that the runtime must be for USB.
UsbIdle == io_kill_switch /\ connection_type = "PTP_USB"

\* It connects a runtime that is new or was reset, or does not care.
Fresh == ~used \/ "reconnect" \in Ops

\* libusb_get_device_list: the devices there are, in any order.
Orders ==
  {q \in UNION {[1..n -> Device] : n \in 0..Cardinality(Device)} :
     \A i, j \in DOMAIN q : q[i] = q[j] => i = j}

\* ptpusb_device_list, up to its loop.
StartList(fn) ==
  /\ CommInit
  /\ max_packet_size' = 512
  /\ queue' \in Orders
  /\ depth' = depth + 1
  /\ pc' = "list" /\ caller' = fn /\ found' = <<>>
  /\ UNCHANGED <<kind, kill, endpoints, handle, fd, list, past>>

DeviceList ==
  /\ UsbIdle /\ list = <<>>
  /\ Makes("ptpusb_device_list") /\ StartList("ptpusb_device_list")

DeviceConnect ==
  /\ UsbIdle /\ Fresh
  /\ Makes("ptp_device_connect") /\ StartList("ptp_device_connect")

\* fill_device_entry for the next device.  It keeps the packet size even if
\* the device cannot be opened, and then unlocks the mutex.
FillEntry ==
  /\ pc = "list" /\ queue # <<>>
  /\ queue' = Tail(queue)
  /\ max_packet_size' = PacketSize[Head(queue)]
  /\ \/ found' = Append(found, Head(queue)) /\ UNCHANGED depth
     \/ "listed_open" \in Faults /\ depth' = Unlock(depth) /\ UNCHANGED found
  /\ UNCHANGED <<kind, kill, priv, list, pc, caller, past,
                 calls>>

\* Mutant of EndList: the return for no devices does not unlock.
EndListEmpty ==
  /\ pc = "list" /\ queue = <<>>
  /\ depth' = IF found = <<>> THEN depth ELSE Unlock(depth)
  /\ pc' = IF caller = "ptp_device_connect" /\ found # <<>> THEN "open"
           ELSE "idle"
  /\ list' = IF caller = "ptpusb_device_list" THEN found ELSE list
  /\ UNCHANGED <<kind, kill, max_packet_size, priv, caller,
                 queue, found, past, calls>>

\* The end of the loop, and the return for an empty list.
EndList ==
  /\ pc = "list" /\ queue = <<>>
  /\ depth' = Unlock(depth)
  /\ pc' = IF caller = "ptp_device_connect" /\ found # <<>> THEN "open"
           ELSE "idle"
  /\ list' = IF caller = "ptpusb_device_list" THEN found ELSE list
  /\ UNCHANGED <<kind, kill, max_packet_size, priv, caller,
                 queue, found, past, calls>>

\* The rest of ptp_device_connect: the first device is opened.
ConnectFirst ==
  /\ pc = "open" /\ pc' = "idle"
  /\ endpoints' = found[1]
  /\ OpenHandle(found[1])
  /\ UNCHANGED <<kind, max_packet_size, comm_priv, fd, depth,
                 list, caller, queue, found, held, target, panicked, calls>>

\* Mutant of DeviceOpen: the endpoints stay those of the device before.
DeviceOpenOld ==
  /\ comm_priv = "usb" /\ Fresh /\ Makes("ptp_device_open")
  /\ \E i \in 1..Len(list) :
       IF io_kill_switch THEN OpenHandle(list[i])
       ELSE UNCHANGED <<kill, handle, handles>>
  /\ UNCHANGED <<kind, max_packet_size, comm_priv, endpoints, fd,
                 depth, listing, held, target, panicked>>

\* ptp_device_open locks, opens an entry of the list unless there is a
\* connection, and unlocks on every path.
DeviceOpen ==
  /\ comm_priv = "usb" /\ Fresh /\ Makes("ptp_device_open")
  /\ \E i \in 1..Len(list) :
       IF io_kill_switch
       THEN endpoints' = list[i] /\ OpenHandle(list[i])
       ELSE UNCHANGED <<kill, endpoints, handle, handles>>
  /\ depth' = Unlock(depth + 1)
  /\ UNCHANGED <<kind, max_packet_size, comm_priv, fd, listing,
                 held, target, panicked>>

\* The application frees its list.
FreeList ==
  /\ pc = "idle" /\ list # <<>> /\ list' = <<>>
  /\ UNCHANGED <<kind, kill, max_packet_size, priv, depth, pc,
                 caller, queue, found, past, calls>>

\* ptp_device_connect_from_libusb_handle: the entry it fills stays local.
ConnectFromHandle ==
  /\ UsbIdle /\ Fresh /\ Makes("ptp_device_connect_from_libusb_handle")
  /\ CommInit
  /\ \E d \in Device :
       /\ max_packet_size' = PacketSize[d]
       /\ \/ OpenHandle(d) /\ UNCHANGED depth
          \/ /\ "listed_open" \in Faults /\ depth' = Unlock(depth)
             /\ UNCHANGED <<kill, handle, handles>>
  /\ UNCHANGED <<kind, endpoints, fd, listing, held, target,
                 panicked>>

\* Mutant of DeviceClose: only operations are stopped.
DeviceCloseForgets ==
  /\ comm_priv = "usb" /\ handle # 0 /\ handles[handle].state = "claimed"
  /\ Makes("ptp_device_close")
  /\ operation_kill_switch' = TRUE
  /\ \/ "release" \in Faults /\ UNCHANGED handles
     \/ handles' = [handles EXCEPT ![handle].state = "closed"]
  /\ UNCHANGED <<kind, io_kill_switch, used, max_packet_size, priv,
                 depth, listing, held, target, panicked>>

\* ptp_device_close of a device that was opened.
DeviceClose ==
  /\ comm_priv = "usb" /\ handle # 0 /\ handles[handle].state = "claimed"
  /\ Makes("ptp_device_close")
  /\ io_kill_switch' = TRUE /\ operation_kill_switch' = TRUE
  /\ \/ "release" \in Faults /\ UNCHANGED handles
     \/ handles' = [handles EXCEPT ![handle].state = "closed"]
  /\ UNCHANGED <<kind, used, max_packet_size, priv, depth,
                 listing, held, target, panicked>>
-----------------------------------------------------------------------------
(* src/ip.c                                                                *)

\* init_comm: whatever comm_priv already points to is used.
InitComm ==
  /\ comm_priv' = IF comm_priv = "NULL" THEN "ip" ELSE comm_priv
  /\ max_packet_size' = 65535

\* The application connects sockets of a runtime it made for them; ptp_reset
\* may have changed its type since.
ForSockets ==
  comm_priv = "ip" \/ (comm_priv = "NULL" /\ connection_type # "PTP_USB")

\* ptpip_connect.
IpConnect ==
  /\ ForSockets /\ io_kill_switch /\ Fresh
  /\ Makes("ptpip_connect") /\ InitComm
  /\ \/ fd' = TRUE /\ StartConnection
     \/ "refuse" \in Faults /\ fd' = FALSE /\ UNCHANGED kill
  /\ UNCHANGED <<kind, endpoints, handle, depth, listing,
                 past>>

\* ptpip_device_close: the sockets are closed, no switch is set.
IpClose ==
  /\ comm_priv = "ip" /\ (io_kill_switch \/ "close_active" \in Ops)
  /\ Makes("ptpip_device_close") /\ InitComm
  /\ fd' = FALSE
  /\ UNCHANGED <<kind, kill, endpoints, handle, depth, listing,
                 past>>
-----------------------------------------------------------------------------
(* src/lib.c, src/transport.c, src/error.c                                 *)

\* ptp_reset, between two connections.
Reset ==
  /\ io_kill_switch /\ used /\ Makes("ptp_reset")
  /\ connection_type' = "PTP_USB" /\ used' = FALSE
  /\ io_kill_switch' = TRUE /\ operation_kill_switch' = TRUE
  /\ UNCHANGED <<setting, max_packet_size, priv, depth, listing, past>>

\* Where ptp_cmd_write and ptpip_cmd_write send to: the struct behind
\* comm_priv is the backend's own, or is taken for it.
UsbTarget == IF comm_priv # "usb" THEN "other struct"
             ELSE handles[handle].state
IpTarget  == IF comm_priv = "usb" THEN "other struct"
             ELSE IF fd THEN "socket" ELSE "fd 0"

\* ptp_send_packet chooses the backend.
Dispatch ==
  IF connection_type = "PTP_USB" THEN UsbTarget
  ELSE IF connection_type = "PTP_IP_USB" THEN IpTarget
  ELSE "panic"

\* ptp_send: nothing happens when operations are stopped; a backend refuses
\* when io_kill_switch is set; what fails stops operations.
Send ==
  /\ Makes("ptp_send")
  /\ ~operation_kill_switch
  /\ IF Dispatch = "panic"
     THEN panicked' = TRUE /\ UNCHANGED <<operation_kill_switch, target>>
     ELSE IF io_kill_switch
     THEN operation_kill_switch' = TRUE /\ UNCHANGED <<target, panicked>>
     ELSE /\ target' = Dispatch /\ UNCHANGED panicked
          /\ \/ UNCHANGED operation_kill_switch
             \/ "transfer" \in Faults /\ operation_kill_switch' = TRUE
  /\ UNCHANGED <<kind, io_kill_switch, used, max_packet_size, priv,
                 depth, listing, handles, held>>

\* ptp_report_error: the session is closed first when there was no error.
ReportError ==
  /\ Connected /\ Makes("ptp_report_error")
  /\ operation_kill_switch' = TRUE /\ io_kill_switch' = TRUE
  /\ \/ UNCHANGED <<target, panicked>>
     \/ /\ ~operation_kill_switch
        /\ panicked' = (Dispatch = "panic")
        /\ target' = IF Dispatch = "panic" THEN target ELSE Dispatch
  /\ UNCHANGED <<kind, used, max_packet_size, priv, depth, listing,
                 handles, held>>

\* The application takes and gives back the mutex around several calls.
CallerLock ==
  /\ held = 0 /\ Makes("ptp_mutex_lock")
  /\ depth' = depth + 1 /\ held' = 1
  /\ UNCHANGED <<kind, kill, max_packet_size, priv, listing,
                 handles, target, panicked>>

CallerUnlock ==
  /\ pc = "idle" /\ held = 1
  /\ depth' = Unlock(depth) /\ held' = 0
  /\ UNCHANGED <<kind, kill, max_packet_size, priv, listing,
                 handles, target, panicked, calls>>
-----------------------------------------------------------------------------
\* ptp_new.
Init ==
  /\ setting \in Settings /\ connection_type = setting.options
  /\ io_kill_switch = TRUE /\ operation_kill_switch = TRUE
  /\ max_packet_size = 0 /\ comm_priv = "NULL"
  /\ endpoints = Null /\ handle = 0 /\ fd = FALSE /\ depth = 0
  /\ list = <<>> /\ pc = "idle" /\ caller = "none"
  /\ queue = <<>> /\ found = <<>>
  /\ handles = <<>> /\ held = 0 /\ used = FALSE /\ calls = 0
  /\ target = "none" /\ panicked = FALSE

Usb == \/ DeviceList \/ DeviceConnect \/ FillEntry \/ EndList \/ ConnectFirst
       \/ DeviceOpen \/ FreeList \/ ConnectFromHandle \/ DeviceClose

Ip == IpConnect \/ IpClose

Runtime == Reset \/ Send \/ ReportError \/ CallerLock \/ CallerUnlock

Next == Usb \/ Ip \/ Runtime

Spec == Init /\ [][Next]_vars
-----------------------------------------------------------------------------
(* Correctness.                                                            *)

\* While there is a USB connection the handle is open and has the interface,
\* whatever failed before, and no other handle has it.
ConnectedClaimed ==
  Connected /\ connection_type = "PTP_USB" /\ comm_priv = "usb" =>
    /\ handle # 0 /\ handles[handle].state = "claimed"
    /\ \A i \in 1..Len(handles) :
         handles[i] = handles[handle] => i = handle

\* No packet goes anywhere but to a claimed device or a connected socket:
\* io_kill_switch is set when it is no longer safe to send.
SendsToDevice == target \in {"none", "claimed", "socket"}

\* A call returns with the mutex as it found it: the mutex is recursive, and
\* the application may hold it around the call.  (The failing open of a listed
\* device unlocks what it did not lock.)
CallerLockKept == pc = "idle" /\ "listed_open" \notin Faults => depth = held

OpenDevice == handles[handle].dev
UsbConnected == Connected /\ connection_type = "PTP_USB" /\ handle # 0

\* The endpoints are those of the device that is open, for an application that
\* lets the library find its devices; and max_packet_size is that device's,
\* whichever way it was opened, if it is the only one the last listing found,
\* or none was made.
ParametersMatch ==
  UsbConnected =>
    /\ "ptp_device_connect_from_libusb_handle" \notin Ops =>
         endpoints = OpenDevice
    /\ caller = "none" \/ found = <<OpenDevice>> =>
         max_packet_size = PacketSize[OpenDevice]
=============================================================================
