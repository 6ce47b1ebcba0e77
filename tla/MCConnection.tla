---------------------------- MODULE MCConnection ----------------------------
(***************************************************************************)
(* Instances of Connection for TLC: a full-speed and a high-speed camera.  *)
(***************************************************************************)
EXTENDS Connection

CONSTANTS d1, d2

MCPacketSize == [d \in Device |-> IF d = d1 THEN 64 ELSE 512]

\* A USB application that lists, opens, uses and closes.
UsbOps == {"ptpusb_device_list", "ptp_device_open", "ptp_device_connect",
           "ptp_device_close", "ptp_reset", "reconnect", "ptp_report_error",
           "ptp_send", "ptp_mutex_lock"}

\* An application that finds the USB device itself, or uses a socket, and
\* disconnects with ptp_report_error before it closes.
OtherOps == {"ptp_device_connect_from_libusb_handle", "ptp_device_close",
             "ptpip_connect", "ptpip_device_close", "ptp_report_error",
             "reconnect", "ptp_send", "ptp_mutex_lock"}

UsbFaults   == {"open", "detach", "claim", "release", "transfer"}
OtherFaults == UsbFaults \cup {"listed_open", "refuse"}

MCSettings ==
  {[options |-> "PTP_USB", ops |-> UsbOps, faults |-> UsbFaults]} \cup
  [options : {"PTP_USB", "PTP_IP_USB", "PTP_IP"}, ops : {OtherOps},
   faults : {OtherFaults}]
=============================================================================
