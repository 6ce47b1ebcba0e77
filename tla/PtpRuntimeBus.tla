--------------------------- MODULE PtpRuntimeBus ----------------------------
(***************************************************************************)
(* PtpRuntime implements OperationBus: the mutex is the ownership of the   *)
(* bus, r->transaction its turn, and the packet in r->data the answer, from*)
(* the moment it is a response.                                            *)
(***************************************************************************)
EXTENDS PtpRuntime

\* The command a packet belongs to.
CommandOf(p) == [by |-> p.by, nth |-> p.nth, tx |-> p.tx]

\* The threads whose current call is an operation, and what it returns.
Operating == {t \in Thread : call[t].fn \in Operations}
Returned  == [t \in Thread |-> IF t \in Operating THEN rc[t] ELSE NoResult]

Bus == INSTANCE OperationBus WITH
  owner  <- mutex.owner,
  open   <- ~io_kill_switch,
  turn   <- transaction,
  wire   <- CommandOf(last),
  answer <- IF data.kind = "response"
            THEN [cmd |-> CommandOf(data), code |-> data.code]
            ELSE [cmd |-> CommandOf(NoPacket), code |-> "none"],
  asked  <- calls,
  told   <- Returned,
  operating <- Operating

\* Every step of the threads, their retries, time-outs, nested locks and
\* disconnects included, is a step of OperationBus or changes nothing there:
\* commands are numbered in turn, and an operation ends with a result, which
\* is success only after a PTP_RC_OK in answer to its own command.
ImplementsBus == Bus!Spec
=============================================================================
