---------------------------- MODULE OperationBus ----------------------------
(***************************************************************************)
(* What the operation layer promises its callers, whichever threads they   *)
(* are: the camera is a bus that one thread owns at a time.  The owner puts*)
(* a command on it, numbered by the turn the bus is at; the camera answers *)
(* that command and no other; the turn is counted; and a caller is told,   *)
(* once, the code of the answer to the command of its own current call, or *)
(* an error, before it can ask again.  A bus that has been shut carries    *)
(* nothing any more.                                                       *)
(*                                                                         *)
(* There is no buffer, no retry, no second switch and no nested mutex here:*)
(* PtpRuntimeBus maps those of src/lib.c to this.                          *)
(***************************************************************************)
EXTENDS Integers

CONSTANTS
  Thread,     \* the callers
  NoThread,   \* owner of a free bus
  Code        \* the codes an answer may carry

VARIABLES
  owner,      \* the thread that owns the bus
  open,       \* may anything be sent?
  turn,       \* the number of the next command
  wire,       \* the last command sent: [by, nth, tx]
  answer,     \* what is known of its answer: [cmd, code] or NoAnswer
  asked,      \* asked[t]: the calls thread t has made
  operating,  \* the threads whose last call is an operation on the camera
  told        \* told[t]: what that operation returns, once t has been told

call == <<asked, operating>>
vars == <<owner, open, turn, wire, answer, call, told>>

NoCommand == [by |-> NoThread, nth |-> 0, tx |-> -1]
NoAnswer  == [cmd |-> NoCommand, code |-> "none"]
Nothing   == "none"

\* What a caller may be told of an answer: success is success, and no other
\* code is.
Told(code) == IF code = "PTP_RC_OK" THEN {"PTP_OK"}
              ELSE {"PTP_IO_ERR", "PTP_CHECK_CODE"}

Init ==
  /\ owner = NoThread /\ open = TRUE /\ turn = 0
  /\ wire = NoCommand /\ answer = NoAnswer
  /\ asked = [t \in Thread |-> 0]
  /\ operating = {}
  /\ told = [t \in Thread |-> Nothing]

\* A caller comes with a new call; an operation before it has ended, and the
\* caller knows how.
Ask(t) ==
  /\ t \in operating => told[t] # Nothing
  /\ asked' = [asked EXCEPT ![t] = @ + 1]
  /\ operating' \in {operating \cup {t}, operating \ {t}}
  /\ told' = [told EXCEPT ![t] = Nothing]
  /\ UNCHANGED <<owner, open, turn, wire, answer>>

Own(t) ==
  /\ owner = NoThread
  /\ owner' = t
  /\ UNCHANGED <<open, turn, wire, answer, call, told>>

\* The owner makes ready: the last answer is forgotten.
Prepare(t) ==
  /\ owner = t
  /\ answer' = NoAnswer
  /\ UNCHANGED <<owner, open, turn, wire, call, told>>

Send(t) ==
  /\ owner = t /\ open /\ answer = NoAnswer
  /\ wire' = [by |-> t, nth |-> asked[t], tx |-> turn]
  /\ UNCHANGED <<owner, open, turn, answer, call, told>>

\* The camera answers the command on the wire, of the owner's current call.
Receive(t) ==
  /\ owner = t /\ open /\ answer = NoAnswer
  /\ wire = [by |-> t, nth |-> asked[t], tx |-> turn]
  /\ \E c \in Code : answer' = [cmd |-> wire, code |-> c]
  /\ UNCHANGED <<owner, open, turn, wire, call, told>>

\* An answered command is counted, once.
Count(t) ==
  /\ owner = t /\ answer.cmd = wire /\ wire.by = t /\ wire.tx = turn
  /\ turn' = turn + 1
  /\ UNCHANGED <<owner, open, wire, answer, call, told>>

\* The owner is told of the answer to its current call: the only way to be
\* told of success.
Tell(t) ==
  /\ t \in operating /\ told[t] = Nothing
  /\ owner = t
  /\ answer.cmd = [by |-> t, nth |-> asked[t], tx |-> turn - 1]
  /\ \E r \in Told(answer.code) : told' = [told EXCEPT ![t] = r]
  /\ UNCHANGED <<owner, open, turn, wire, answer, call>>

\* A caller can always be told that its operation failed.
Fail(t) ==
  /\ t \in operating /\ told[t] = Nothing
  /\ \E r \in {"PTP_IO_ERR", "PTP_OUT_OF_MEM"} : told' = [told EXCEPT ![t] = r]
  /\ UNCHANGED <<owner, open, turn, wire, answer, call>>

\* The bus is shut by its owner.
Shut(t) ==
  /\ owner = t
  /\ open' = FALSE
  /\ UNCHANGED <<owner, turn, wire, answer, call, told>>

Release(t) ==
  /\ owner = t
  /\ owner' = NoThread
  /\ UNCHANGED <<open, turn, wire, answer, call, told>>

Next == \E t \in Thread :
  \/ Ask(t) \/ Own(t) \/ Prepare(t) \/ Send(t) \/ Receive(t) \/ Count(t)
  \/ Tell(t) \/ Fail(t) \/ Shut(t) \/ Release(t)

Spec == Init /\ [][Next]_vars
=============================================================================
