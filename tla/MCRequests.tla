----------------------------- MODULE MCRequests -----------------------------
(***************************************************************************)
(* The instance of Requests for TLC: see Requests.cfg.                     *)
(***************************************************************************)
EXTENDS Requests
=============================================================================
