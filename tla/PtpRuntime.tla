----------------------------- MODULE PtpRuntime -----------------------------
(***************************************************************************)
(* Threads that share one struct PtpRuntime: the operation layer of        *)
(* src/lib.c (ptp_send, ptp_send_data), the wrappers of src/operations.c   *)
(* and src/canon.c that call it, the disconnect procedure of src/error.c   *)
(* and the open/close of src/libusb.c.  All of them share the kill         *)
(* switches, the transaction counter, the packet buffer r->data and the    *)
(* recursive mutex that is meant to protect them.                          *)
(*                                                                         *)
(* One action is one access of a thread to shared state.  The transport    *)
(* (src/transport.c) appears by its results: a packet is written or not, a *)
(* reply is read, or the read fails with PTP_COMMAND_IGNORED or PTP_IO_ERR;*)
(* UsbTransport has the loops that produce these results.                  *)
(***************************************************************************)
EXTENDS Integers, Sequences

CONSTANTS
  Thread,       \* the application's threads
  NoThread,     \* owner of a free mutex
  Calls,        \* the library calls each thread makes: [fn, arg] records
  CallLimit,    \* bound: calls made by each thread
  BufferSize,   \* data_length when the runtime is created
  Faults        \* what may go wrong: see Fault

-----------------------------------------------------------------------------
(* The library functions, by the way they use the mutex and the buffer.    *)

\* One ptp_send; the caller gets the return code only.
SendOnly == {"ptp_open_session", "ptp_close_session", "ptp_init_capture",
             "ptp_init_open_capture", "ptp_terminate_open_capture",
             "ptp_get_partial_object", "ptp_get_num_objects",
             "ptp_get_prop_value", "ptp_get_thumbnail", "ptp_move_object",
             "ptp_delete_object", "ptp_get_object"}

\* One ptp_send of a Canon EOS operation.
EosSend == {"ptp_eos_get_storage_ids", "ptp_eos_get_storage_info",
            "ptp_eos_remote_release_on", "ptp_eos_remote_release_off",
            "ptp_eos_cancel_af", "ptp_eos_drive_lens",
            "ptp_eos_set_event_mode", "ptp_eos_set_remote_mode",
            "ptp_eos_get_viewfinder_data", "ptp_eos_get_prop_value",
            "ptp_eos_get_event", "ptp_eos_ping", "ptp_eos_hdd_capacity_push",
            "ptp_eos_hdd_capacity_pop", "ptp_eos_bulb_start",
            "ptp_eos_bulb_stop", "ptp_eos_set_ui_lock",
            "ptp_eos_reset_ui_lock"}

\* One ptp_send_data: arg is the length of the payload.
SendData == {"ptp_send_object_info", "ptp_send_object", "ptp_set_prop_value",
             "ptp_set_prop_value16", "ptp_set_prop_value_data",
             "ptp_eos_set_prop_value"}

\* ptp_send, then the reply is parsed out of r->data after the unlock.
SendThenParse == {"ptp_get_device_info", "ptp_get_object_info"}

\* lock; ptp_send; parse the reply; unlock.  "thread" is the thread of
\* test/test.c, which takes the mutex around ptp_get_device_info.
LockedParse == {"ptp_get_storage_ids", "ptp_get_storage_info",
                "ptp_get_object_handles", "ptp_get_prop_desc", "thread"}

\* The functions that take the mutex around what they call.
OuterLocked == LockedParse \cup {"ptp_report_error", "ptp_device_open"}

\* The functions that are an operation on the camera; ptp_report_error returns
\* nothing.
Operations == (SendOnly \cup EosSend \cup SendData \cup SendThenParse
                 \cup LockedParse)

Fn == SendOnly \cup EosSend \cup SendData \cup SendThenParse \cup OuterLocked
        \cup {"ptp_device_close"}

\* "ignore": a read ends with PTP_COMMAND_IGNORED;  "error": a read or write
\* ends with PTP_IO_ERR;  "drop": the camera does not answer a command;
\* "late": it answers after the read has given up;  "memory": realloc fails.
Fault == {"ignore", "error", "drop", "late", "memory"}

ASSUME RuntimeAssumption ==
  /\ NoThread \notin Thread
  /\ Calls \in [Thread -> SUBSET [fn : Fn, arg : Nat]]
  /\ CallLimit \in Nat
  /\ BufferSize \in Nat
  /\ Faults \subseteq Fault
  /\ "drop" \in Faults => Faults \cap {"ignore", "error"} # {}

\* Results of the operation layer (enum PtpGeneralError).
Result == {"PTP_OK", "PTP_IO_ERR", "PTP_CHECK_CODE", "PTP_OPEN_FAIL",
           "PTP_OUT_OF_MEM"}

\* A call that has no result yet.
NoResult == "none"

\* The return codes of a reply: PTP_RC_OK, Fuji's 0xffff, any other.
Code == {"PTP_RC_OK", "0xffff", "other"}
-----------------------------------------------------------------------------
VARIABLES
  io_kill_switch, operation_kill_switch,  \* fields of the same name
  transaction, session,                   \* fields of the same name
  data,          \* the packet in r->data
  data_length,   \* the size of r->data
  mutex,         \* r->mutex: [owner, depth]
  handle,        \* is the libusb handle open?
  inbox,         \* replies of the camera nobody has read yet
  last,          \* history: the last command packet put on the wire
  pc, call, try, rc, calls  \* per thread: where it is in which call, the
                            \* attempt of ptp_send, its result, calls made

kill == <<io_kill_switch, operation_kill_switch>>
ids  == <<transaction, session>>
wire == <<handle, inbox, last>>
loc  == <<call, calls>>
vars == <<kill, ids, data, data_length, mutex, wire, pc, try, rc, loc>>

NoCall == [fn |-> "none", arg |-> 0]

\* by, nth and fn are history: which call of which thread built the packet.
Packet == [kind : {"none", "command", "data", "response", "lost"},
           by   : Thread \cup {NoThread}, nth : Nat,
           fn   : Fn \cup {"none"}, tx : Int, code : Code]

NoPacket == [kind |-> "none", by |-> NoThread, nth |-> 0, fn |-> "none",
             tx |-> -1, code |-> "PTP_RC_OK"]

\* r->data is NULL, after a realloc that failed: who uses it ends the program.
NoBuffer == [NoPacket EXCEPT !.kind = "lost"]
HasBuffer == data # NoBuffer

\* A packet thread t generates: the header carries r->transaction.
NewPacket(t, kind) ==
  [kind |-> kind, by |-> t, nth |-> calls[t], fn |-> call[t].fn,
   tx |-> transaction, code |-> "PTP_RC_OK"]

Goto(t, label) == pc' = [pc EXCEPT ![t] = label]
At(t, label)   == pc[t] = label
Return(t, result) == rc' = [rc EXCEPT ![t] = result]

\* pthread_mutex_lock on a recursive mutex.
LockMutex(t) ==
  /\ mutex.owner \in {NoThread, t}
  /\ mutex' = [owner |-> t, depth |-> mutex.depth + 1]

\* pthread_mutex_unlock: EPERM, and nothing happens, unless t owns it.
UnlockMutex(t) ==
  mutex' = IF mutex.owner # t THEN mutex
           ELSE IF mutex.depth = 1 THEN [owner |-> NoThread, depth |-> 0]
           ELSE [mutex EXCEPT !.depth = mutex.depth - 1]
-----------------------------------------------------------------------------
(* Entering and leaving a library call.                                    *)

Start(fn) ==
  CASE fn = "ptp_open_session" -> "next_session"
    [] fn \in LockedParse \cup {"ptp_device_open"} -> "outer_lock"
    [] fn = "ptp_report_error" -> "report"
    [] fn = "ptp_device_close" -> "close_io"
    [] OTHER -> "check1"

Call(t) ==
  /\ At(t, "idle")
  /\ calls[t] < CallLimit
  /\ \E c \in Calls[t] :
       /\ call' = [call EXCEPT ![t] = c]
       /\ Goto(t, Start(c.fn))
  /\ calls' = [calls EXCEPT ![t] = calls[t] + 1]
  /\ try' = [try EXCEPT ![t] = 1]
  /\ Return(t, NoResult)
  /\ UNCHANGED <<kill, ids, data, data_length, mutex, wire>>

\* Where a thread goes when its ptp_send or ptp_send_data returns.
AfterSend(t, result) ==
  IF call[t].fn = "ptp_report_error" THEN "kill_op"
  ELSE IF call[t].fn \in LockedParse
    THEN IF result = "PTP_OK" THEN "parse" ELSE "outer_unlock"
  ELSE IF call[t].fn \in SendThenParse /\ result = "PTP_OK" THEN "parse"
  ELSE "idle"

\* ptp_mutex_lock of the functions in OuterLocked.
OuterLock(t) ==
  /\ At(t, "outer_lock")
  /\ LockMutex(t)
  /\ Goto(t, CASE call[t].fn = "ptp_report_error" -> "report_again"
               [] call[t].fn = "ptp_device_open" -> "open_check"
               [] OTHER -> "check1")
  /\ UNCHANGED <<kill, ids, data, data_length, wire, try, rc, loc>>

\* Their last ptp_mutex_unlock.
OuterUnlock(t) ==
  /\ At(t, "outer_unlock")
  /\ UnlockMutex(t)
  /\ Goto(t, "idle")
  /\ UNCHANGED <<kill, ids, data, data_length, wire, try, rc, loc>>

\* ptp_parse_*, dup_uint_array: read the reply out of r->data.
Parse(t) ==
  /\ At(t, "parse") /\ HasBuffer
  /\ Goto(t, IF call[t].fn \in LockedParse THEN "outer_unlock" ELSE "idle")
  /\ UNCHANGED <<kill, ids, data, data_length, mutex, wire, try, rc, loc>>

\* ptp_open_session: r->session++ ...
NextSession(t) ==
  /\ At(t, "next_session")
  /\ session' = session + 1
  /\ Goto(t, "reset_transaction")
  /\ UNCHANGED <<kill, transaction, data, data_length, mutex, wire, try, rc,
                 loc>>

\* ... and r->transaction = 0, both without the mutex.
ResetTransaction(t) ==
  /\ At(t, "reset_transaction")
  /\ transaction' = 0
  /\ Goto(t, "check1")
  /\ UNCHANGED <<kill, session, data, data_length, mutex, wire, try, rc, loc>>
-----------------------------------------------------------------------------
(* ptp_send and ptp_send_data.                                             *)

\* Mutant of Check1: a runtime that is shut returns 0.
Check1Quiet(t) ==
  /\ At(t, "check1")
  /\ IF operation_kill_switch
       THEN Return(t, "PTP_OK") /\ Goto(t, AfterSend(t, "PTP_IO_ERR"))
       ELSE Goto(t, "lock") /\ UNCHANGED rc
  /\ UNCHANGED <<kill, ids, data, data_length, mutex, wire, try, loc>>

\* if (r->operation_kill_switch) return PTP_IO_ERR;
Check1(t) ==
  /\ At(t, "check1")
  /\ IF operation_kill_switch
       THEN /\ Return(t, "PTP_IO_ERR")
            /\ Goto(t, AfterSend(t, "PTP_IO_ERR"))
       ELSE /\ Goto(t, "lock")
            /\ UNCHANGED rc
  /\ UNCHANGED <<kill, ids, data, data_length, mutex, wire, try, loc>>

\* Mutant of AcquireLock: the mutex is not taken.
AcquireNothing(t) ==
  /\ At(t, "lock")
  /\ Goto(t, "check2")
  /\ UNCHANGED <<kill, ids, data, data_length, mutex, wire, try, rc, loc>>

AcquireLock(t) ==
  /\ At(t, "lock")
  /\ LockMutex(t)
  /\ Goto(t, "check2")
  /\ UNCHANGED <<kill, ids, data, data_length, wire, try, rc, loc>>

\* Mutant of NeedsResize: >= for >.
NeedsResizeEarly(t) ==
  call[t].fn \in SendData /\ call[t].arg + 50 >= data_length

\* ptp_send_data tests whether the payload and its headers fit the buffer.
NeedsResize(t) == call[t].fn \in SendData /\ call[t].arg + 50 > data_length

\* Mutant of Check2: return without the unlock.
Check2Leaves(t) ==
  /\ At(t, "check2")
  /\ IF operation_kill_switch
       THEN Return(t, "PTP_IO_ERR") /\ Goto(t, AfterSend(t, "PTP_IO_ERR"))
       ELSE /\ Goto(t, IF NeedsResize(t) THEN "resize" ELSE "build")
            /\ UNCHANGED rc
  /\ UNCHANGED <<kill, ids, data, data_length, mutex, wire, try, loc>>

\* The second look at the kill switch, with the mutex held.
Check2(t) ==
  /\ At(t, "check2")
  /\ IF operation_kill_switch
       THEN Return(t, "PTP_IO_ERR") /\ Goto(t, "unlock")
       ELSE /\ Goto(t, IF NeedsResize(t) THEN "resize" ELSE "build")
            /\ UNCHANGED rc
  /\ UNCHANGED <<kill, ids, data, data_length, mutex, wire, try, loc>>

\* ptp_buffer_resize, which keeps 100 bytes extra and stores the new size and
\* pointer before it looks at the pointer; and the ptp_mutex_unlock that
\* follows it whether it failed or not.
Resize(t) ==
  /\ At(t, "resize")
  /\ data_length' = IF call[t].arg <= data_length THEN data_length
                    ELSE call[t].arg + 100
  /\ UnlockMutex(t)
  /\ \/ Goto(t, "build") /\ UNCHANGED <<data, rc>>
     \/ /\ "memory" \in Faults /\ call[t].arg > data_length
        /\ data' = NoBuffer
        /\ Return(t, "PTP_OUT_OF_MEM")
        /\ Goto(t, AfterSend(t, "PTP_OUT_OF_MEM"))
  /\ UNCHANGED <<kill, ids, wire, try, loc>>

\* ptp_new_cmd_packet writes the command over r->data.
Build(t) ==
  /\ At(t, "build") /\ HasBuffer
  /\ data' = NewPacket(t, "command")
  /\ Goto(t, "write")
  /\ UNCHANGED <<kill, ids, data_length, mutex, wire, try, rc, loc>>

\* ptpusb_new_data_packet writes the data packet over r->data.
BuildData(t) ==
  /\ At(t, "build_data") /\ HasBuffer
  /\ data' = NewPacket(t, "data")
  /\ Goto(t, "write")
  /\ UNCHANGED <<kill, ids, data_length, mutex, wire, try, rc, loc>>

\* A failed attempt: ptp_send gives up differently on the second one.
Failed(t) == IF try[t] = 1 THEN "fail_unlock" ELSE "ignored_kill"

\* ptp_cmd_write looks at io_kill_switch before it uses the handle.
Write(t) ==
  /\ At(t, "write")
  /\ Goto(t, IF io_kill_switch THEN Failed(t) ELSE "transfer_out")
  /\ UNCHANGED <<kill, ids, data, data_length, mutex, wire, try, rc, loc>>

\* The camera answers the command in packet p, some time.
Reply(p) == {[p EXCEPT !.kind = "response", !.code = c] : c \in Code}

\* libusb_bulk_transfer sends what is in r->data.
TransferOut(t) ==
  /\ At(t, "transfer_out") /\ HasBuffer
  /\ \/ LET more == data.kind = "command" /\ call[t].fn \in SendData IN
        /\ last' = IF data.kind = "command" THEN data ELSE last
        /\ IF more THEN UNCHANGED inbox
           ELSE \/ \E p \in Reply(data) : inbox' = Append(inbox, p)
                \/ "drop" \in Faults /\ UNCHANGED inbox
        /\ Goto(t, IF more THEN "build_data" ELSE "read")
     \/ /\ "error" \in Faults
        /\ Goto(t, Failed(t))
        /\ UNCHANGED <<inbox, last>>
  /\ UNCHANGED <<kill, ids, data, data_length, mutex, handle, try, rc, loc>>

\* ptp_cmd_read looks at io_kill_switch before it uses the handle.
Read(t) ==
  /\ At(t, "read")
  /\ Goto(t, IF io_kill_switch THEN Failed(t) ELSE "transfer_in")
  /\ UNCHANGED <<kill, ids, data, data_length, mutex, wire, try, rc, loc>>

\* ptp_receive_all_packets returned 0: the oldest reply is in r->data.
ReadReply(t) ==
  /\ At(t, "transfer_in")
  /\ inbox # <<>> /\ HasBuffer
  /\ data' = Head(inbox)
  /\ inbox' = Tail(inbox)
  /\ Goto(t, "count")
  /\ UNCHANGED <<kill, ids, data_length, mutex, handle, last, try, rc, loc>>

\* Mutant of LeftInbox: the read throws nothing away.
KeptInbox == {inbox}

\* What a failed read leaves of the replies: it may have thrown one away, and
\* a late one is still to come.
LeftInbox ==
  (IF inbox = <<>> THEN {inbox} ELSE {Tail(inbox)})
     \cup (IF "late" \in Faults THEN {inbox} ELSE {})

\* Mutant of ReadIgnored: there is no last attempt.
ReadIgnoredAgain(t) ==
  /\ At(t, "transfer_in")
  /\ "ignore" \in Faults
  /\ inbox' \in LeftInbox
  /\ Goto(t, "build")
  /\ UNCHANGED <<kill, ids, data, data_length, mutex, handle, last, try, rc,
                 loc>>

\* PTP_COMMAND_IGNORED on the first attempt: the command is sent again.
ReadIgnored(t) ==
  /\ At(t, "transfer_in")
  /\ "ignore" \in Faults
  /\ inbox' \in LeftInbox
  /\ Goto(t, IF try[t] = 1 THEN "build" ELSE "ignored_kill")
  /\ try' = [try EXCEPT ![t] = 2]
  /\ UNCHANGED <<kill, ids, data, data_length, mutex, handle, last, rc, loc>>

\* Any other error of the read.
ReadError(t) ==
  /\ At(t, "transfer_in")
  /\ "error" \in Faults
  /\ inbox' \in LeftInbox
  /\ Goto(t, Failed(t))
  /\ UNCHANGED <<kill, ids, data, data_length, mutex, handle, last, try, rc,
                 loc>>

\* "Command ignored again": the switch is set, then the mutex released.
IgnoredKill(t) ==
  /\ At(t, "ignored_kill")
  /\ operation_kill_switch' = TRUE
  /\ Return(t, "PTP_IO_ERR")
  /\ Goto(t, "unlock")
  /\ UNCHANGED <<io_kill_switch, ids, data, data_length, mutex, wire, try, loc>>

\* Any other failure: the mutex is released first ...
FailUnlock(t) ==
  /\ At(t, "fail_unlock")
  /\ UnlockMutex(t)
  /\ Goto(t, "fail_kill")
  /\ UNCHANGED <<kill, ids, data, data_length, wire, try, rc, loc>>

\* ... and the switch set afterwards.
FailKill(t) ==
  /\ At(t, "fail_kill")
  /\ operation_kill_switch' = TRUE
  /\ Return(t, "PTP_IO_ERR")
  /\ Goto(t, AfterSend(t, "PTP_IO_ERR"))
  /\ UNCHANGED <<io_kill_switch, ids, data, data_length, mutex, wire, try, loc>>

\* Mutant of Count: the counter stays.
CountNothing(t) ==
  /\ At(t, "count")
  /\ Goto(t, "check_rc")
  /\ UNCHANGED <<kill, ids, data, data_length, mutex, wire, try, rc, loc>>

\* r->transaction++
Count(t) ==
  /\ At(t, "count")
  /\ transaction' = transaction + 1
  /\ Goto(t, "check_rc")
  /\ UNCHANGED <<kill, session, data, data_length, mutex, wire, try, rc, loc>>

\* Mutant of CheckRc: the camera's code is returned as it is.
CheckRcRaw(t) ==
  /\ At(t, "check_rc") /\ HasBuffer
  /\ Return(t, data.code)
  /\ Goto(t, "unlock")
  /\ UNCHANGED <<kill, ids, data, data_length, mutex, wire, try, loc>>

\* ptp_check_rc reads the return code out of r->data.
CheckRc(t) ==
  /\ At(t, "check_rc") /\ HasBuffer
  /\ Return(t, CASE data.code = "0xffff" -> "PTP_IO_ERR"
                 [] data.code = "PTP_RC_OK" -> "PTP_OK"
                 [] OTHER -> "PTP_CHECK_CODE")
  /\ Goto(t, "unlock")
  /\ UNCHANGED <<kill, ids, data, data_length, mutex, wire, try, loc>>

ReleaseLock(t) ==
  /\ At(t, "unlock")
  /\ UnlockMutex(t)
  /\ Goto(t, AfterSend(t, rc[t]))
  /\ UNCHANGED <<kill, ids, data, data_length, wire, try, rc, loc>>
-----------------------------------------------------------------------------
(* ptp_report_error: arg is the code, 0 for an intended disconnect.        *)

\* Mutant of Report: it does not wait for the mutex.
ReportUnlocked(t) ==
  /\ At(t, "report")
  /\ Goto(t, IF io_kill_switch THEN "idle" ELSE "report_again")
  /\ UNCHANGED <<kill, ids, data, data_length, mutex, wire, try, rc, loc>>

Report(t) ==
  /\ At(t, "report")
  /\ Goto(t, IF io_kill_switch THEN "idle"
             ELSE IF call[t].arg # 0 THEN "stop_operations" ELSE "outer_lock")
  /\ UNCHANGED <<kill, ids, data, data_length, mutex, wire, try, rc, loc>>

\* Prevent any further operations, before waiting for the mutex.
StopOperations(t) ==
  /\ At(t, "stop_operations")
  /\ operation_kill_switch' = TRUE
  /\ Goto(t, "outer_lock")
  /\ UNCHANGED <<io_kill_switch, ids, data, data_length, mutex, wire, try, rc,
                 loc>>

\* io_kill_switch again, now with the mutex; an intended disconnect goes on
\* to ptp_close_session.
ReportAgain(t) ==
  /\ At(t, "report_again")
  /\ Goto(t, IF io_kill_switch THEN "outer_unlock"
             ELSE IF call[t].arg = 0 THEN "check1" ELSE "kill_op")
  /\ UNCHANGED <<kill, ids, data, data_length, mutex, wire, try, rc, loc>>

KillOperations(t) ==
  /\ At(t, "kill_op")
  /\ operation_kill_switch' = TRUE
  /\ Goto(t, "kill_io")
  /\ UNCHANGED <<io_kill_switch, ids, data, data_length, mutex, wire, try, rc,
                 loc>>

KillIo(t) ==
  /\ At(t, "kill_io")
  /\ io_kill_switch' = TRUE
  /\ Goto(t, "outer_unlock")
  /\ UNCHANGED <<operation_kill_switch, ids, data, data_length, mutex, wire,
                 try, rc, loc>>
-----------------------------------------------------------------------------
(* ptp_device_close, which takes no mutex, and ptp_device_open.            *)

\* Mutant of CloseIo: ptpip_device_close, which leaves the switch alone.
CloseIoForgotten(t) ==
  /\ At(t, "close_io")
  /\ Goto(t, "close_op")
  /\ UNCHANGED <<kill, ids, data, data_length, mutex, wire, try, rc, loc>>

CloseIo(t) ==
  /\ At(t, "close_io")
  /\ io_kill_switch' = TRUE
  /\ Goto(t, "close_op")
  /\ UNCHANGED <<operation_kill_switch, ids, data, data_length, mutex, wire,
                 try, rc, loc>>

CloseOperations(t) ==
  /\ At(t, "close_op")
  /\ operation_kill_switch' = TRUE
  /\ Goto(t, "close_handle")
  /\ UNCHANGED <<io_kill_switch, ids, data, data_length, mutex, wire, try, rc,
                 loc>>

\* libusb_close, unless libusb_release_interface failed.
CloseHandle(t) ==
  /\ At(t, "close_handle")
  /\ \/ handle' = FALSE /\ Return(t, "PTP_OK")
     \/ "error" \in Faults /\ Return(t, "1") /\ UNCHANGED handle
  /\ Goto(t, "idle")
  /\ UNCHANGED <<kill, ids, data, data_length, mutex, inbox, last, try, loc>>

\* ptp_device_open refuses a connection that is active.
OpenCheck(t) ==
  /\ At(t, "open_check")
  /\ IF io_kill_switch
       THEN Goto(t, "open_handle") /\ UNCHANGED rc
       ELSE Goto(t, "outer_unlock") /\ Return(t, "PTP_OPEN_FAIL")
  /\ UNCHANGED <<kill, ids, data, data_length, mutex, wire, try, loc>>

\* libusb_open and libusb_claim_interface.
OpenHandle(t) ==
  /\ At(t, "open_handle")
  /\ \/ handle' = TRUE /\ Goto(t, "open_io") /\ UNCHANGED rc
     \/ /\ "error" \in Faults
        /\ Goto(t, "outer_unlock") /\ Return(t, "PTP_OPEN_FAIL")
        /\ UNCHANGED handle
  /\ UNCHANGED <<kill, ids, data, data_length, mutex, inbox, last, try, loc>>

OpenIo(t) ==
  /\ At(t, "open_io")
  /\ io_kill_switch' = FALSE
  /\ Goto(t, "open_op")
  /\ UNCHANGED <<operation_kill_switch, ids, data, data_length, mutex, wire,
                 try, rc, loc>>

OpenOperations(t) ==
  /\ At(t, "open_op")
  /\ operation_kill_switch' = FALSE
  /\ Return(t, "PTP_OK")
  /\ Goto(t, "outer_unlock")
  /\ UNCHANGED <<io_kill_switch, ids, data, data_length, mutex, wire, try, loc>>
-----------------------------------------------------------------------------
\* A runtime that has just connected: ptp_init, then ptp_device_connect.
Init ==
  /\ io_kill_switch = FALSE /\ operation_kill_switch = FALSE
  /\ transaction = 0 /\ session = 0
  /\ data = NoPacket /\ data_length = BufferSize
  /\ mutex = [owner |-> NoThread, depth |-> 0]
  /\ handle = TRUE /\ inbox = <<>> /\ last = NoPacket
  /\ pc = [t \in Thread |-> "idle"]
  /\ call = [t \in Thread |-> NoCall]
  /\ try = [t \in Thread |-> 1]
  /\ rc = [t \in Thread |-> NoResult]
  /\ calls = [t \in Thread |-> 0]

SendStep(t) ==
  \/ Check1(t) \/ AcquireLock(t) \/ Check2(t) \/ Resize(t)
  \/ Build(t) \/ BuildData(t) \/ Write(t) \/ TransferOut(t)
  \/ Read(t) \/ ReadReply(t) \/ ReadIgnored(t) \/ ReadError(t)
  \/ IgnoredKill(t) \/ FailUnlock(t) \/ FailKill(t)
  \/ Count(t) \/ CheckRc(t) \/ ReleaseLock(t)

WrapperStep(t) ==
  \/ OuterLock(t) \/ OuterUnlock(t) \/ Parse(t)
  \/ NextSession(t) \/ ResetTransaction(t)

ReportStep(t) ==
  \/ Report(t) \/ StopOperations(t) \/ ReportAgain(t)
  \/ KillOperations(t) \/ KillIo(t)

DeviceStep(t) ==
  \/ CloseIo(t) \/ CloseOperations(t) \/ CloseHandle(t)
  \/ OpenCheck(t) \/ OpenHandle(t) \/ OpenIo(t) \/ OpenOperations(t)

\* A thread inside a library call goes on.
Step(t) == SendStep(t) \/ WrapperStep(t) \/ ReportStep(t) \/ DeviceStep(t)

\* Every thread has made its calls, or the program may have ended.
Finished ==
  /\ \/ \A t \in Thread : At(t, "idle") /\ calls[t] = CallLimit
     \/ ~HasBuffer
  /\ UNCHANGED vars

Next == (\E t \in Thread : Call(t) \/ Step(t)) \/ Finished

Spec == Init /\ [][Next]_vars

\* A thread in the library is scheduled: transfers end, by a time-out
\* (PTP_TIMEOUT) if need be, and so does the wait for a free mutex.
FairSpec == Spec /\ \A t \in Thread : WF_vars(Step(t))
-----------------------------------------------------------------------------
(* Correctness.                                                            *)

Label == {"idle", "next_session", "reset_transaction", "outer_lock",
          "outer_unlock", "parse", "check1", "lock", "check2", "resize",
          "build", "build_data", "write", "transfer_out", "read",
          "transfer_in", "ignored_kill", "fail_unlock", "fail_kill", "count",
          "check_rc", "unlock", "report", "stop_operations", "report_again",
          "kill_op", "kill_io", "close_io", "close_op", "close_handle",
          "open_check", "open_handle", "open_io", "open_op"}

\* The shared state and the threads' state have the shapes the code gives
\* them; in particular a call returns nothing but a Result, or the 1 of a
\* ptp_device_close that failed.
TypeOK ==
  /\ io_kill_switch \in BOOLEAN /\ operation_kill_switch \in BOOLEAN
  /\ transaction \in Nat /\ session \in Nat
  /\ data \in Packet /\ data_length \in Nat
  /\ mutex \in [owner : Thread \cup {NoThread}, depth : Nat]
  /\ mutex.owner = NoThread <=> mutex.depth = 0
  /\ handle \in BOOLEAN /\ inbox \in Seq(Packet) /\ last \in Packet
  /\ pc \in [Thread -> Label]
  /\ call \in [Thread -> [fn : Fn \cup {"none"}, arg : Nat]]
  /\ try \in [Thread -> {1, 2}]
  /\ rc \in [Thread -> Result \cup {NoResult, "1"}]
  /\ calls \in [Thread -> Nat]

\* Control states in which thread t is inside the locked part of ptp_send or
\* ptp_send_data: it uses the wire or r->data.
InSend(t) == pc[t] \in {"check2", "resize", "build", "build_data", "write",
                        "transfer_out", "read", "transfer_in",
                        "ignored_kill", "fail_unlock", "count", "check_rc",
                        "unlock"}

\* Thread t is between the lock and the unlock of a function in OuterLocked.
InOuter(t) == /\ call[t].fn \in OuterLocked
              /\ pc[t] \notin {"idle", "outer_lock", "report",
                               "stop_operations"}

\* How often thread t should have locked the mutex, from where it is.
Held(t) == (IF InSend(t) THEN 1 ELSE 0) + (IF InOuter(t) THEN 1 ELSE 0)

\* Locks and unlocks pair up on every path of every function: the mutex is
\* owned, and as deep, as the position of the threads in the code says; a
\* thread outside the library owns nothing.
LockBalance ==
  /\ \A t \in Thread : mutex.owner = t <=> Held(t) > 0
  /\ \A t \in Thread : mutex.owner = t => mutex.depth = Held(t)

\* Each part of the code runs for the calls that reach it.
PlacedAt(t) ==
  /\ pc[t] \in {"outer_lock", "outer_unlock"} => call[t].fn \in OuterLocked
  /\ pc[t] \in {"report", "stop_operations", "report_again", "kill_op",
                "kill_io"} => call[t].fn = "ptp_report_error"
  /\ pc[t] \in {"open_check", "open_handle", "open_io", "open_op"}
       => call[t].fn = "ptp_device_open"
  /\ pc[t] \in {"next_session", "reset_transaction"}
       => call[t].fn = "ptp_open_session"
  /\ pc[t] \in {"close_io", "close_op", "close_handle"}
       => call[t].fn = "ptp_device_close"
  /\ pc[t] = "parse" => call[t].fn \in LockedParse \cup SendThenParse
  /\ InSend(t) \/ pc[t] \in {"check1", "lock", "fail_kill"}
       => call[t].fn # "ptp_device_open"

Placed == \A t \in Thread : PlacedAt(t)

\* The payloads of the calls under way fit the buffer, so nobody resizes it.
Fits ==
  /\ BufferSize <= data_length
  /\ \A t \in Thread : /\ pc[t] # "resize"
                       /\ call[t].fn \in SendData
                            => call[t].arg + 50 <= data_length

\* The inductive form of LockBalance.
LockInv == Placed /\ Fits /\ LockBalance

\* Thread-safe by design: at most one thread at a time is between building a
\* command and reading the return code of its reply.
Exclusion == \A t, u \in Thread : InSend(t) /\ InSend(u) => t = u

\* Packet p is the reply to the current call of thread t.
ReplyTo(t, p) == p.kind = "response" /\ p.by = t /\ p.nth = calls[t]
Answered(t)   == ReplyTo(t, data)

\* ptp_check_rc, and the parsers of the functions that keep the mutex, read
\* the reply to their own command, whatever other threads and retries did.
\* Not so the parsers in SendThenParse, which hold no mutex.
OwnReply ==
  \A t \in Thread :
    (At(t, "check_rc") \/ (At(t, "parse") /\ call[t].fn \in LockedParse))
      => Answered(t)

\* Once the disconnect procedure has cut I/O no thread is inside a transfer.
NoTransferAfterKill ==
  io_kill_switch => \A t \in Thread : pc[t] \notin {"transfer_out",
                                                    "transfer_in"}

\* The inductive form of NoTransferAfterKill: nobody is on the way from a
\* command to its reply.
KillInv ==
  io_kill_switch => \A t \in Thread : pc[t] \notin
                      {"transfer_out", "build_data", "read", "transfer_in"}

\* The inductive form of OwnReply: a reply nobody has read yet is the only
\* one, and belongs to the thread that is about to read it.
ReplyInv ==
  /\ inbox # <<>> =>
       \E t \in Thread : /\ pc[t] \in {"read", "transfer_in"}
                         /\ Len(inbox) = 1 /\ ReplyTo(t, inbox[1])
  /\ \A t \in Thread :
       /\ pc[t] \in {"write", "transfer_out"}
            => data.by = t /\ data.nth = calls[t]
       /\ pc[t] \in {"count", "check_rc"} => Answered(t)
       /\ pc[t] = "unlock" /\ rc[t] = "PTP_OK" => Answered(t)
       /\ pc[t] = "parse" /\ call[t].fn \in LockedParse => Answered(t)

\* A runtime whose I/O is not cut has an open handle, through close and
\* reopen.
ConnectedHasHandle == ~io_kill_switch => handle

\* r->data is written by the owner of the mutex only.
BufferGuarded ==
  [][data' # data => \E t \in Thread : mutex.owner = t /\ pc'[t] # pc[t]]_vars

\* The commands on the wire carry consecutive transaction IDs, whichever
\* threads send them; a retry repeats its own.
TransactionOrder == [][last' # last => last'.tx = last.tx + 1]_last

\* The CloseSession of an intended disconnect is the last command on the wire.
GoodbyeIsLast == [][last' # last => last.fn # "ptp_report_error"]_last

\* Every library call returns.
EveryCallReturns == \A t \in Thread : ~At(t, "idle") ~> At(t, "idle")
=============================================================================
