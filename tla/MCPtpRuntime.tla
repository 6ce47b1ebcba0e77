---------------------------- MODULE MCPtpRuntime ----------------------------
(***************************************************************************)
(* Instances of PtpRuntime for TLC: who calls what in each run.            *)
(***************************************************************************)
EXTENDS PtpRuntimeBus, TLC

CONSTANTS t1, t2, t3

\* A buffer of 60 bytes holds a payload of up to 10 and its headers.
MCBufferSize == 60

Do(fn)       == [fn |-> fn, arg |-> 0]
Put(fn, len) == [fn |-> fn, arg |-> len]
Disconnect   == [fn |-> "ptp_report_error", arg |-> 0]
Fail         == [fn |-> "ptp_report_error", arg |-> 1]

\* Three threads use the camera at the same time; each kind of call there is.
OperationCalls ==
  [t \in Thread |-> {Do("ptp_init_capture"), Do("ptp_get_storage_ids"),
                     Do("thread"), Put("ptp_set_prop_value_data", 10),
                     Disconnect}]

\* Every thread uses it, and disconnects, on purpose or after an error.
DisconnectCalls ==
  [t \in Thread |-> {Do("ptp_get_device_info"), Do("thread"), Disconnect, Fail,
                     Put("ptp_send_object", 4)}]

\* One thread opens sessions, closes the device and opens it again, another
\* goes on using it, with a payload that makes ptp_send_data resize.
ReconnectCalls ==
  [t \in Thread |-> IF t = t1 THEN {Do("ptp_device_close"),
                                    Do("ptp_device_open"),
                                    Do("ptp_open_session"), Fail}
                    ELSE {Do("ptp_get_storage_ids"), Put("ptp_send_object", 11)}]

\* A payload that does not fit the buffer beside a plain operation.
LargePayloadCalls ==
  [t \in Thread |-> IF t = t1 THEN {Put("ptp_send_object", 11)}
                    ELSE {Do("ptp_init_capture")}]

ThreadSymmetry == Permutations(Thread)
=============================================================================
