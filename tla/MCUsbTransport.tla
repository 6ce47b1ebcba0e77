--------------------------- MODULE MCUsbTransport ---------------------------
(***************************************************************************)
(* Instances of UsbTransport for TLC.  Packets of 8 bytes cut the header   *)
(* of 12 bytes; a data packet of 16 bytes ends with a full USB packet.     *)
(***************************************************************************)
EXTENDS UsbTransport

\* No data, data to the camera, data from it.
SmallCommands == {[out |-> -1, in |-> -1], [out |-> 5, in |-> -1],
                  [out |-> -1, in |-> 4], [out |-> -1, in |-> 9]}

=============================================================================
