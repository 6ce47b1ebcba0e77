-------------------------- MODULE PtpRuntime_proof --------------------------
(***************************************************************************)
(* Proofs about PtpRuntime, for any number of threads, any calls, any      *)
(* number of them and any faults: its locks, switches and replies; that it *)
(* implements OperationBus; and what follows from the packet a thread has  *)
(* in r->data and on the wire while it is inside ptp_send: the order of the*)
(* transactions and the end of an intended disconnect.                     *)
(***************************************************************************)
EXTENDS PtpRuntimeBus, SequenceTheorems, TLAPS

\* No payload makes ptp_send_data resize the buffer: the resize releases the
\* mutex in the middle of the operation (run large_payload).
SmallPayloads ==
  \A t \in Thread : \A c \in Calls[t] : c.fn \in SendData =>
                                          c.arg + 50 <= BufferSize
-----------------------------------------------------------------------------
\* Locking and unlocking keep the mutex well-formed.
LEMMA TypeLock ==
  ASSUME TypeOK, NEW t \in Thread, LockMutex(t) \/ UnlockMutex(t)
  PROVE  /\ mutex' \in [owner : Thread \cup {NoThread}, depth : Nat]
         /\ mutex'.owner = NoThread <=> mutex'.depth = 0
<1> USE RuntimeAssumption DEF TypeOK, RuntimeAssumption
<1>1. CASE LockMutex(t) BY <1>1 DEF LockMutex
<1>2. CASE UnlockMutex(t)
  <2>1. CASE mutex.owner # t BY <1>2, <2>1 DEF UnlockMutex
  <2>2. CASE mutex.owner = t /\ mutex.depth = 1
    BY <1>2, <2>2 DEF UnlockMutex
  <2>3. CASE mutex.owner = t /\ mutex.depth # 1
    <3>1. mutex.depth - 1 \in Nat /\ mutex.depth - 1 # 0 BY <2>3
    <3>2. mutex' = [mutex EXCEPT !.depth = mutex.depth - 1]
      BY <1>2, <2>3 DEF UnlockMutex
    <3> QED BY <2>3, <3>1, <3>2
  <2> QED BY <2>1, <2>2, <2>3
<1> QED BY <1>1, <1>2

\* What a failed read leaves is a sequence of packets.
LEMMA TypeLeft ==
  ASSUME TypeOK
  PROVE  LeftInbox \subseteq Seq(Packet)
<1>1. inbox # <<>> => Tail(inbox) \in Seq(Packet) BY DEF TypeOK
<1> QED BY <1>1 DEF TypeOK, LeftInbox

\* The camera's replies are packets.
LEMMA TypeReply ==
  ASSUME NEW p \in Packet
  PROVE  Reply(p) \subseteq Packet
<1> SUFFICES ASSUME NEW c \in Code
             PROVE  [p EXCEPT !.kind = "response", !.code = c] \in Packet
  BY DEF Reply
<1> DEFINE q == [p EXCEPT !.kind = "response"]
<1>1. q \in Packet BY DEF Packet
<1>2. [q EXCEPT !.code = c] \in Packet BY <1>1 DEF Packet
<1> QED BY <1>2

\* So is the buffer that is lost.
LEMMA TypeNoBuffer == NoBuffer \in Packet
<1>1. NoPacket \in Packet BY DEF NoPacket, Packet, Code
<1>2. [NoPacket EXCEPT !.kind = "lost"] \in Packet BY <1>1 DEF Packet
<1> QED BY <1>2 DEF NoBuffer

\* A send step keeps the types.
LEMMA TypeSend ==
  ASSUME TypeOK, NEW t \in Thread, SendStep(t)
  PROVE  TypeOK'
<1> USE DEF TypeOK, Goto, At, Return, kill, ids, wire, loc, Label, Result,
            NoResult
<1>1. CASE Check1(t) BY <1>1, ZenonT(30) DEF Check1, AfterSend
<1>2. CASE AcquireLock(t) BY <1>2, TypeLock DEF AcquireLock
<1>3. CASE Check2(t) BY <1>3, ZenonT(30) DEF Check2
<1>4. CASE Resize(t)
  <2>1. data_length' \in Nat BY <1>4 DEF Resize
  <2>2. /\ mutex' \in [owner : Thread \cup {NoThread}, depth : Nat]
        /\ mutex'.owner = NoThread <=> mutex'.depth = 0
    BY <1>4, TypeLock DEF Resize
  <2>3. data' \in Packet BY <1>4, TypeNoBuffer DEF Resize
  <2>4. AfterSend(t, "PTP_OUT_OF_MEM") \in Label BY DEF AfterSend
  <2>5. pc' \in [Thread -> Label]
    <3> DEFINE after == AfterSend(t, "PTP_OUT_OF_MEM")
    <3>1. \/ pc' = [pc EXCEPT ![t] = "build"]
          \/ pc' = [pc EXCEPT ![t] = after]
      BY <1>4, Zenon DEF Resize
    <3>2. after \in Label /\ "build" \in Label BY <2>4
    <3>3. pc \in [Thread -> Label] OBVIOUS
    <3> HIDE DEF after, Label, TypeOK
    <3> QED BY <3>1, <3>2, <3>3
  <2>6. rc' \in [Thread -> Result \cup {NoResult, "1"}] BY <1>4 DEF Resize
  <2>7. UNCHANGED <<kill, ids, wire, try, loc>> BY <1>4 DEF Resize
  <2> QED BY <2>1, <2>2, <2>3, <2>5, <2>6, <2>7
<1>5. CASE Build(t)
  BY <1>5, SMTT(30) DEF Build, NewPacket, Packet, Code
<1>6. CASE BuildData(t)
  BY <1>6, SMTT(30) DEF BuildData, NewPacket, Packet, Code
<1>7. CASE Write(t) BY <1>7 DEF Write, Failed
<1>8. CASE TransferOut(t)
  <2>1. CASE UNCHANGED inbox
    BY <1>8, <2>1, ZenonT(30) DEF TransferOut, Failed
  <2>2. CASE \E p \in Reply(data) : inbox' = Append(inbox, p)
    <3>1. PICK p \in Packet : inbox' = Append(inbox, p)
      BY <2>2, TypeReply
    <3>2. inbox' \in Seq(Packet) BY <3>1
    <3> QED BY <1>8, <3>2, ZenonT(30) DEF TransferOut, Failed
  <2> QED BY <1>8, <2>1, <2>2 DEF TransferOut
<1>9. CASE Read(t) BY <1>9 DEF Read, Failed
<1>10. CASE ReadReply(t) BY <1>10 DEF ReadReply
<1>11. CASE ReadIgnored(t) BY <1>11, TypeLeft DEF ReadIgnored
<1>12. CASE ReadError(t) BY <1>12, TypeLeft DEF ReadError, Failed
<1>13. CASE IgnoredKill(t) BY <1>13 DEF IgnoredKill
<1>14. CASE FailUnlock(t) BY <1>14, TypeLock DEF FailUnlock
<1>15. CASE FailKill(t) BY <1>15 DEF FailKill, AfterSend
<1>16. CASE Count(t) BY <1>16 DEF Count
<1>17. CASE CheckRc(t)
  <2>1. rc' \in [Thread -> Result \cup {NoResult, "1"}] BY <1>17, Zenon DEF CheckRc
  <2> QED BY <1>17, <2>1 DEF CheckRc
<1>18. CASE ReleaseLock(t) BY <1>18, TypeLock DEF ReleaseLock, AfterSend
<1> QED BY <1>1, <1>2, <1>3, <1>4, <1>5, <1>6, <1>7, <1>8, <1>9, <1>10,
           <1>11, <1>12, <1>13, <1>14, <1>15, <1>16, <1>17, <1>18
        DEF SendStep


\* So do the steps of the wrappers, of ptp_report_error and of open and close.
LEMMA TypeOther ==
  ASSUME TypeOK, NEW t \in Thread,
         WrapperStep(t) \/ ReportStep(t) \/ DeviceStep(t)
  PROVE  TypeOK'
<1> USE DEF TypeOK, Goto, At, Return, kill, ids, wire, loc, Label, Result,
            NoResult
<1>1. CASE OuterLock(t) BY <1>1, TypeLock DEF OuterLock
<1>2. CASE OuterUnlock(t) BY <1>2, TypeLock DEF OuterUnlock
<1>3. CASE Parse(t) BY <1>3 DEF Parse
<1>4. CASE NextSession(t) BY <1>4 DEF NextSession
<1>5. CASE ResetTransaction(t) BY <1>5 DEF ResetTransaction
<1>6. CASE Report(t) BY <1>6 DEF Report
<1>7. CASE StopOperations(t) BY <1>7 DEF StopOperations
<1>8. CASE ReportAgain(t) BY <1>8 DEF ReportAgain
<1>9. CASE KillOperations(t) BY <1>9 DEF KillOperations
<1>10. CASE KillIo(t) BY <1>10 DEF KillIo
<1>11. CASE CloseIo(t) BY <1>11 DEF CloseIo
<1>12. CASE CloseOperations(t) BY <1>12 DEF CloseOperations
<1>13. CASE CloseHandle(t) BY <1>13 DEF CloseHandle
<1>14. CASE OpenCheck(t) BY <1>14 DEF OpenCheck
<1>15. CASE OpenHandle(t) BY <1>15 DEF OpenHandle
<1>16. CASE OpenIo(t) BY <1>16 DEF OpenIo
<1>17. CASE OpenOperations(t) BY <1>17 DEF OpenOperations
<1> QED BY <1>1, <1>2, <1>3, <1>4, <1>5, <1>6, <1>7, <1>8, <1>9, <1>10,
           <1>11, <1>12, <1>13, <1>14, <1>15, <1>16, <1>17
        DEF WrapperStep, ReportStep, DeviceStep

\* And the start of a call.
LEMMA TypeCall ==
  ASSUME TypeOK, NEW t \in Thread, Call(t)
  PROVE  TypeOK'
<1>1. PICK c \in Calls[t] : /\ call' = [call EXCEPT ![t] = c]
                            /\ Goto(t, Start(c.fn))
  BY DEF Call
<1>2. c \in [fn : Fn, arg : Nat] BY RuntimeAssumption DEF RuntimeAssumption
<1>3. Start(c.fn) \in Label BY DEF Start, Label
<1>4. call' \in [Thread -> [fn : Fn \cup {"none"}, arg : Nat]]
  BY <1>1, <1>2 DEF TypeOK
<1>5. pc' \in [Thread -> Label] BY <1>1, <1>3 DEF TypeOK, Goto
<1> QED BY <1>4, <1>5
        DEF Call, TypeOK, Return, NoResult, kill, ids, wire

\* Types are right in every reachable state.
THEOREM TypeCorrect == Spec => []TypeOK
<1>1. Init => TypeOK
  <2>1. NoPacket \in Packet BY DEF NoPacket, Packet, Code
  <2>2. NoCall \in [fn : Fn \cup {"none"}, arg : Nat] BY DEF NoCall
  <2> SUFFICES ASSUME Init PROVE TypeOK OBVIOUS
  <2>3. pc \in [Thread -> Label] BY DEF Init, Label
  <2>4. rc \in [Thread -> Result \cup {NoResult, "1"}] BY DEF Init, NoResult
  <2>5. call \in [Thread -> [fn : Fn \cup {"none"}, arg : Nat]]
    BY <2>2 DEF Init
  <2>6. inbox \in Seq(Packet) BY DEF Init
  <2>7. /\ mutex \in [owner : Thread \cup {NoThread}, depth : Nat]
        /\ mutex.owner = NoThread <=> mutex.depth = 0
    BY DEF Init
  <2>8. data_length \in Nat BY RuntimeAssumption DEF Init, RuntimeAssumption
  <2> QED
    BY <2>1, <2>3, <2>4, <2>5, <2>6, <2>7, <2>8 DEF Init, TypeOK
<1>2. TypeOK /\ [Next]_vars => TypeOK'
  <2> SUFFICES ASSUME TypeOK, [Next]_vars PROVE TypeOK' OBVIOUS
  <2>1. CASE \E t \in Thread : Call(t) BY <2>1, TypeCall
  <2>2. CASE \E t \in Thread : Step(t) BY <2>2, TypeSend, TypeOther DEF Step
  <2>3. CASE UNCHANGED vars
    BY <2>3 DEF TypeOK, vars, kill, ids, wire, loc
  <2> QED BY <2>1, <2>2, <2>3 DEF Next, Finished
<1> QED BY <1>1, <1>2, PTL DEF Spec

-----------------------------------------------------------------------------
\* A step of thread t leaves the others where they are.
Alone(t) == \A u \in Thread \ {t} : pc'[u] = pc[u] /\ call'[u] = call[u]

\* A step of one thread leaves every other thread where it is.
LEMMA StepAlone ==
  ASSUME TypeOK, NEW t \in Thread, Call(t) \/ Step(t)
  PROVE  Alone(t)
<1> USE DEF TypeOK, Goto, loc, Alone
<1>1. CASE Call(t) BY <1>1 DEF Call
<1>2. CASE SendStep(t)
  BY <1>2
     DEF SendStep, Check1, AcquireLock, Check2, Resize, Build, BuildData,
         Write, TransferOut, Read, ReadReply, ReadIgnored, ReadError,
         IgnoredKill, FailUnlock, FailKill, Count, CheckRc, ReleaseLock
<1>3. CASE WrapperStep(t)
  BY <1>3 DEF WrapperStep, OuterLock, OuterUnlock, Parse, NextSession,
              ResetTransaction
<1>4. CASE ReportStep(t)
  BY <1>4 DEF ReportStep, Report, StopOperations, ReportAgain, KillOperations,
              KillIo
<1>5. CASE DeviceStep(t)
  BY <1>5 DEF DeviceStep, CloseIo, CloseOperations, CloseHandle, OpenCheck,
              OpenHandle, OpenIo, OpenOperations
<1> QED BY <1>1, <1>2, <1>3, <1>4, <1>5 DEF Step

\* The others hold the mutex as often as before.
LEMMA OthersHold ==
  ASSUME NEW t \in Thread, Alone(t), NEW u \in Thread \ {t}
  PROVE  Held(u)' = Held(u)
BY DEF Alone, Held, InSend, InOuter

\* A thread is expected to hold the mutex at most twice.
LEMMA HeldNat == \A t \in Thread : Held(t) \in 0..2
BY DEF Held

\* A step of t between a lock and the matching unlock, or outside both.
LEMMA KeepMutex ==
  ASSUME LockBalance, NEW t \in Thread, Alone(t), UNCHANGED mutex,
         Held(t)' = Held(t)
  PROVE  LockBalance'
<1>1. \A u \in Thread : Held(u)' = Held(u) BY OthersHold
<1> QED BY <1>1 DEF LockBalance

\* A lock.
LEMMA TakeMutex ==
  ASSUME TypeOK, LockBalance, NEW t \in Thread, Alone(t), LockMutex(t),
         Held(t)' = Held(t) + 1
  PROVE  LockBalance'
<1>1. \A u \in Thread \ {t} : Held(u)' = Held(u) BY OthersHold
<1>2. mutex'.owner = t /\ mutex'.depth = mutex.depth + 1 BY DEF LockMutex
<1>3. mutex.owner = NoThread => Held(t) = 0 /\ mutex.depth = 0
  <2>1. NoThread # t BY RuntimeAssumption DEF RuntimeAssumption
  <2>2. mutex.owner = NoThread => ~(Held(t) > 0) BY <2>1 DEF LockBalance
  <2>3. mutex.owner = NoThread => mutex.depth = 0 BY DEF TypeOK
  <2> QED BY <2>2, <2>3, HeldNat
<1>4. mutex.owner = t => mutex.depth = Held(t) BY DEF LockBalance
<1>5. mutex'.depth = Held(t)' BY <1>2, <1>3, <1>4 DEF LockMutex
<1>6. \A u \in Thread \ {t} : Held(u)' = 0
  BY <1>1, HeldNat, RuntimeAssumption
     DEF LockMutex, LockBalance, RuntimeAssumption
<1> QED BY <1>2, <1>5, <1>6, HeldNat DEF LockBalance

\* An unlock by a thread that holds the mutex.
LEMMA FreeMutex ==
  ASSUME TypeOK, LockBalance, NEW t \in Thread, Alone(t), UnlockMutex(t),
         Held(t) > 0, Held(t)' = Held(t) - 1
  PROVE  LockBalance'
<1>1. \A u \in Thread \ {t} : Held(u)' = Held(u) BY OthersHold
<1>2. mutex.owner = t /\ mutex.depth = Held(t) BY DEF LockBalance
<1>3. \A u \in Thread \ {t} : Held(u) = 0 BY <1>2, HeldNat DEF LockBalance
<1>4. CASE mutex.depth = 1
  <2>1. mutex'.owner = NoThread BY <1>2, <1>4 DEF UnlockMutex
  <2> QED BY <1>1, <1>2, <1>3, <1>4, <2>1, RuntimeAssumption
          DEF LockBalance, RuntimeAssumption
<1>5. CASE mutex.depth # 1
  <2>1. mutex' = [mutex EXCEPT !.depth = mutex.depth - 1]
    BY <1>2, <1>5 DEF UnlockMutex
  <2>2. mutex'.owner = t /\ mutex'.depth = Held(t)'
    BY <1>2, <2>1 DEF TypeOK
  <2>3. Held(t)' > 0 BY <1>2, <1>5, HeldNat
  <2> QED BY <1>1, <1>3, <2>2, <2>3 DEF LockBalance
<1> QED BY <1>4, <1>5


\* A thread is never where its call does not lead.
LEMMA PlacedKept ==
  ASSUME TypeOK, Placed, NEW t \in Thread, Call(t) \/ Step(t)
  PROVE  Placed'
<1>1. Alone(t) BY StepAlone
<1>2. \A u \in Thread \ {t} : PlacedAt(u)'
  BY <1>1 DEF Placed, PlacedAt, Alone, InSend
<1>3. PlacedAt(t) BY DEF Placed
<1>4. ASSUME Call(t) PROVE PlacedAt(t)'
  <2>1. PICK c \in Calls[t] : call'[t] = c /\ pc'[t] = Start(c.fn)
    BY <1>4 DEF Call, Goto, TypeOK
  <2> QED BY <2>1 DEF PlacedAt, Start, InSend, OuterLocked, LockedParse
<1> USE <1>3 DEF PlacedAt, InSend, TypeOK, Goto, At, loc
<1>5. ASSUME SendStep(t) PROVE PlacedAt(t)'
  <2>1. call' = call
    BY <1>5
       DEF SendStep, Check1, AcquireLock, Check2, Resize, Build, BuildData,
           Write, TransferOut, Read, ReadReply, ReadIgnored, ReadError,
           IgnoredKill, FailUnlock, FailKill, Count, CheckRc, ReleaseLock
  <2>2. CASE \/ Check1(t) \/ FailKill(t) \/ ReleaseLock(t) \/ Resize(t)
    BY <2>1, <2>2
       DEF Check1, FailKill, ReleaseLock, Resize, AfterSend, OuterLocked
  <2>3. CASE ~(\/ Check1(t) \/ FailKill(t) \/ ReleaseLock(t) \/ Resize(t))
    BY <1>5, <2>1, <2>3, SMTT(30)
       DEF SendStep, AcquireLock, Check2, Build, BuildData, Write,
           TransferOut, Read, ReadReply, ReadIgnored, ReadError, IgnoredKill,
           FailUnlock, Count, CheckRc, Failed
  <2> QED BY <2>2, <2>3
<1>6. ASSUME WrapperStep(t) PROVE PlacedAt(t)'
  BY <1>6 DEF WrapperStep, OuterLock, OuterUnlock, Parse, NextSession,
              ResetTransaction, OuterLocked, LockedParse
<1>7. ASSUME ReportStep(t) PROVE PlacedAt(t)'
  BY <1>7 DEF ReportStep, Report, StopOperations, ReportAgain, KillOperations,
              KillIo, OuterLocked
<1>8. ASSUME DeviceStep(t) PROVE PlacedAt(t)'
  BY <1>8 DEF DeviceStep, CloseIo, CloseOperations, CloseHandle, OpenCheck,
              OpenHandle, OpenIo, OpenOperations, OuterLocked
<1>9. PlacedAt(t)' BY <1>4, <1>5, <1>6, <1>7, <1>8 DEF Step
<1> QED BY <1>2, <1>9 DEF Placed


\* As long as no payload is too large, none is resized.
LEMMA FitsKept ==
  ASSUME SmallPayloads, TypeOK, Fits, NEW t \in Thread, Call(t) \/ Step(t)
  PROVE  Fits'
<1>1. Alone(t) BY StepAlone
<1> USE DEF TypeOK, Goto, At, loc, Fits
<1>2. ASSUME Call(t)
      PROVE  /\ pc'[t] # "resize" /\ UNCHANGED data_length
             /\ call'[t].fn \in SendData => call'[t].arg + 50 <= BufferSize
  <2>1. PICK c \in Calls[t] : call'[t] = c /\ pc'[t] = Start(c.fn)
    BY <1>2 DEF Call
  <2> QED BY <1>2, <2>1 DEF Call, Start, SmallPayloads
<1>3. ASSUME SendStep(t)
      PROVE  pc'[t] # "resize" /\ UNCHANGED <<data_length, call>>
  <2>1. CASE Check2(t) BY <2>1 DEF Check2, NeedsResize
  <2>2. CASE ~Check2(t)
    BY <1>3, <2>2
       DEF SendStep, Check1, AcquireLock, Resize, Build, BuildData,
           Write, TransferOut, Read, ReadReply, ReadIgnored, ReadError,
           IgnoredKill, FailUnlock, FailKill, Count, CheckRc, ReleaseLock,
           AfterSend, Failed
  <2> QED BY <2>1, <2>2
<1>4. ASSUME WrapperStep(t) \/ ReportStep(t) \/ DeviceStep(t)
      PROVE  pc'[t] # "resize" /\ UNCHANGED <<data_length, call>>
  BY <1>4 DEF WrapperStep, OuterLock, OuterUnlock, Parse, NextSession,
              ResetTransaction, ReportStep, Report, StopOperations,
              ReportAgain, KillOperations, KillIo, DeviceStep, CloseIo,
              CloseOperations, CloseHandle, OpenCheck, OpenHandle, OpenIo,
              OpenOperations
<1>5. data_length \in Nat /\ BufferSize \in Nat
  BY RuntimeAssumption DEF RuntimeAssumption
<1>6. CASE Call(t)
  <2>1. call'[t].fn \in SendData => call'[t].arg + 50 <= data_length
    <3>1. PICK c \in Calls[t] : call'[t] = c BY <1>6 DEF Call
    <3>2. c.arg \in Nat BY RuntimeAssumption DEF RuntimeAssumption
    <3> QED BY <1>2, <1>5, <1>6, <3>1, <3>2
  <2> QED BY <1>1, <1>2, <1>6, <2>1 DEF Alone
<1>7. CASE Step(t) BY <1>1, <1>3, <1>4, <1>7 DEF Alone, Step
<1> QED BY <1>6, <1>7

\* ptp_send and ptp_send_data leave the mutex as they found it.
LEMMA BalanceSend ==
  ASSUME TypeOK, Placed, Fits, LockBalance, NEW t \in Thread, SendStep(t)
  PROVE  LockBalance'
<1>1. Alone(t) BY StepAlone DEF Step
<1>2. PlacedAt(t) /\ pc[t] # "resize" BY DEF Placed, Fits
<1> USE <1>1, <1>2
<1> USE DEF TypeOK, Goto, At, loc, Held, InSend, InOuter, PlacedAt
<1>3. CASE Check1(t)
  BY <1>3, KeepMutex, ZenonT(30) DEF Check1, AfterSend, OuterLocked
<1>4. CASE AcquireLock(t)
  <2>1. Held(t)' = Held(t) + 1 BY <1>4 DEF AcquireLock
  <2>2. LockMutex(t) BY <1>4 DEF AcquireLock
  <2> QED BY <2>1, <2>2, TakeMutex
<1>5. CASE FailUnlock(t)
  <2>1. Held(t) > 0 /\ Held(t)' = Held(t) - 1
    BY <1>5 DEF FailUnlock
  <2>2. UnlockMutex(t) BY <1>5 DEF FailUnlock
  <2> QED BY <2>1, <2>2, FreeMutex
<1>6. CASE ReleaseLock(t)
  <2>1. Held(t) > 0 /\ Held(t)' = Held(t) - 1
    BY <1>6 DEF ReleaseLock, AfterSend, OuterLocked
  <2>2. UnlockMutex(t) BY <1>6 DEF ReleaseLock
  <2> QED BY <2>1, <2>2, FreeMutex
<1>7. CASE FailKill(t)
  BY <1>7, KeepMutex DEF FailKill, AfterSend, OuterLocked
<1>8. CASE Check2(t) \/ Build(t) \/ BuildData(t) \/ Write(t) \/ Read(t)
  BY <1>8, KeepMutex DEF Check2, Build, BuildData, Write, Read, Failed
<1>9. CASE TransferOut(t) BY <1>9, KeepMutex DEF TransferOut, Failed
<1>10. CASE ReadReply(t) \/ ReadIgnored(t) \/ ReadError(t)
  BY <1>10, KeepMutex DEF ReadReply, ReadIgnored, ReadError, Failed
<1>11. CASE IgnoredKill(t) \/ Count(t) \/ CheckRc(t)
  BY <1>11, KeepMutex DEF IgnoredKill, Count, CheckRc
<1> QED BY <1>3, <1>4, <1>5, <1>6, <1>7, <1>8, <1>9, <1>10, <1>11
        DEF SendStep, Resize

\* So do the functions around them.
LEMMA BalanceOther ==
  ASSUME TypeOK, Placed, LockBalance, NEW t \in Thread,
         Call(t) \/ WrapperStep(t) \/ ReportStep(t) \/ DeviceStep(t)
  PROVE  LockBalance'
<1>1. Alone(t) BY StepAlone DEF Step
<1>2. PlacedAt(t) BY DEF Placed
<1> USE <1>1, <1>2
<1> USE DEF TypeOK, Goto, At, loc, Held, InSend, InOuter, PlacedAt
<1>3. CASE Call(t)
  <2>1. PICK c \in Calls[t] : call'[t] = c /\ pc'[t] = Start(c.fn)
    BY <1>3 DEF Call
  <2> QED BY <1>3, <2>1, KeepMutex
          DEF Call, Start, OuterLocked, LockedParse
<1>4. CASE OuterLock(t)
  <2>1. Held(t)' = Held(t) + 1 BY <1>4 DEF OuterLock
  <2>2. LockMutex(t) BY <1>4 DEF OuterLock
  <2> QED BY <2>1, <2>2, TakeMutex
<1>5. CASE OuterUnlock(t)
  <2>1. Held(t) > 0 /\ Held(t)' = Held(t) - 1
    BY <1>5 DEF OuterUnlock
  <2>2. UnlockMutex(t) BY <1>5 DEF OuterUnlock
  <2> QED BY <2>1, <2>2, FreeMutex
<1>6. CASE Parse(t) BY <1>6, KeepMutex DEF Parse, OuterLocked, LockedParse,
                                           SendThenParse
<1>7. CASE NextSession(t) \/ ResetTransaction(t)
  BY <1>7, KeepMutex DEF NextSession, ResetTransaction
<1>8. CASE ReportStep(t)
  BY <1>8, KeepMutex DEF ReportStep, Report, StopOperations, ReportAgain,
                         KillOperations, KillIo, OuterLocked
<1>9. CASE DeviceStep(t)
  <2>1. CASE CloseIo(t) \/ CloseOperations(t) \/ CloseHandle(t)
    BY <2>1, KeepMutex DEF CloseIo, CloseOperations, CloseHandle, OuterLocked,
                           LockedParse
  <2>2. CASE OpenCheck(t) \/ OpenHandle(t) \/ OpenIo(t) \/ OpenOperations(t)
    BY <2>2, KeepMutex, ZenonT(30) DEF OpenCheck, OpenHandle, OpenIo, OpenOperations,
                           OuterLocked
  <2> QED BY <1>9, <2>1, <2>2 DEF DeviceStep
<1> QED BY <1>3, <1>4, <1>5, <1>6, <1>7, <1>8, <1>9 DEF WrapperStep

-----------------------------------------------------------------------------
\* LockInv holds in every reachable state: it is inductive.
THEOREM LockInvariant == ASSUME SmallPayloads PROVE Spec => []LockInv
<1>1. Init => LockInv
  <2> SUFFICES ASSUME Init PROVE LockInv OBVIOUS
  <2>1. \A t \in Thread : pc[t] = "idle" /\ call[t].fn = "none"
    BY DEF Init, NoCall
  <2>2. Placed BY <2>1 DEF Placed, PlacedAt, InSend
  <2>3. Fits
    BY <2>1, RuntimeAssumption
       DEF Init, Fits, RuntimeAssumption, SendData
  <2>4. LockBalance
    BY <2>1, RuntimeAssumption
       DEF Init, LockBalance, Held, InSend, InOuter, RuntimeAssumption
  <2> QED BY <2>2, <2>3, <2>4 DEF LockInv
<1>2. TypeOK /\ LockInv /\ [Next]_vars => LockInv'
  <2> SUFFICES ASSUME TypeOK, LockInv, [Next]_vars PROVE LockInv' OBVIOUS
  <2>1. ASSUME NEW t \in Thread, Call(t) \/ Step(t) PROVE LockInv'
    <3>1. LockBalance'
      BY <2>1, BalanceSend, BalanceOther DEF LockInv, Step
    <3> QED BY <2>1, <3>1, PlacedKept, FitsKept DEF LockInv
  <2>2. CASE UNCHANGED vars
    BY <2>2
       DEF vars, kill, ids, wire, loc, LockInv, Placed, PlacedAt, Fits,
           LockBalance, Held, InSend, InOuter
  <2> QED BY <2>1, <2>2 DEF Next, Finished
<1> QED BY <1>1, <1>2, TypeCorrect, PTL DEF Spec

\* At most one thread owns the mutex.
LEMMA OneInSend ==
  ASSUME LockBalance, NEW t \in Thread, Held(t) > 0,
         NEW u \in Thread, Held(u) > 0
  PROVE  t = u
BY DEF LockBalance

\* Operations exclude each other.
THEOREM ExclusionHolds == ASSUME SmallPayloads PROVE Spec => []Exclusion
<1>1. LockInv => Exclusion
  <2> SUFFICES ASSUME LockInv, NEW t \in Thread, NEW u \in Thread,
                      InSend(t), InSend(u)
               PROVE  t = u
    BY DEF Exclusion
  <2>1. Held(t) > 0 /\ Held(u) > 0 BY DEF Held
  <2> QED BY <2>1, OneInSend DEF LockInv
<1> QED BY <1>1, LockInvariant, PTL

\* Only the owner of the mutex writes to r->data.
THEOREM BufferIsGuarded == ASSUME SmallPayloads PROVE Spec => BufferGuarded
<1>1. TypeOK /\ LockInv /\ [Next]_vars
        => [data' # data
              => \E t \in Thread : mutex.owner = t /\ pc'[t] # pc[t]]_vars
  <2> SUFFICES ASSUME TypeOK, LockInv, [Next]_vars, data' # data
               PROVE  \E t \in Thread : mutex.owner = t /\ pc'[t] # pc[t]
    OBVIOUS
  <2>1. PICK t \in Thread : Call(t) \/ Step(t)
    BY DEF Next, Finished, vars
  <2>2. Build(t) \/ BuildData(t) \/ ReadReply(t)
    BY <2>1
       DEF LockInv, Fits, At, Call, Step, SendStep, Check1, AcquireLock,
           Check2, Resize, Write, TransferOut, Read, ReadIgnored, ReadError,
           IgnoredKill, FailUnlock, FailKill, Count, CheckRc, ReleaseLock, WrapperStep, OuterLock,
           OuterUnlock, Parse, NextSession, ResetTransaction, ReportStep,
           Report, StopOperations, ReportAgain, KillOperations, KillIo,
           DeviceStep, CloseIo, CloseOperations, CloseHandle, OpenCheck,
           OpenHandle, OpenIo, OpenOperations
  <2>3. InSend(t) /\ pc'[t] # pc[t]
    BY <2>2 DEF Build, BuildData, ReadReply, At, Goto, InSend, TypeOK
  <2>4. mutex.owner = t BY <2>3 DEF LockInv, LockBalance, Held
  <2> QED BY <2>3, <2>4
<1> QED BY <1>1, TypeCorrect, LockInvariant, PTL DEF Spec, BufferGuarded
-----------------------------------------------------------------------------
(* After a disconnect nobody transfers, and every return code is read from *)
(* the reply to the thread's own command.                                  *)

\* Nobody closes the device while others may use it: ptp_device_close takes
\* no mutex around the close.
NoDeviceClose ==
  \A t \in Thread : \A c \in Calls[t] : c.fn # "ptp_device_close"

\* Nobody is inside ptp_device_close.
NotClosing ==
  \A t \in Thread : /\ call[t].fn # "ptp_device_close"
                    /\ pc[t] \notin {"close_io", "close_op", "close_handle"}

\* A thread's call, and how many it has made, change only when it makes one.
LEMMA CallsKept ==
  ASSUME NEW t \in Thread, Step(t)
  PROVE  UNCHANGED <<call, calls>>
BY DEF Step, SendStep, Check1, AcquireLock, Check2, Resize, Build, BuildData,
       Write, TransferOut, Read, ReadReply, ReadIgnored, ReadError,
       IgnoredKill, FailUnlock, FailKill, Count, CheckRc, ReleaseLock,
       WrapperStep, OuterLock, OuterUnlock, Parse, NextSession,
       ResetTransaction, ReportStep, Report, StopOperations, ReportAgain,
       KillOperations, KillIo, DeviceStep, CloseIo, CloseOperations,
       CloseHandle, OpenCheck, OpenHandle, OpenIo, OpenOperations, loc

\* Without a call of ptp_device_close no thread gets into it.
LEMMA NotClosingKept ==
  ASSUME NoDeviceClose, TypeOK, Placed', NotClosing,
         NEW t \in Thread, Call(t) \/ Step(t)
  PROVE  NotClosing'
<1>1. \A u \in Thread : call'[u].fn # "ptp_device_close"
  <2>1. CASE Call(t)
    <3>1. PICK c \in Calls[t] : call' = [call EXCEPT ![t] = c]
      BY <2>1 DEF Call
    <3> QED BY <3>1 DEF NoDeviceClose, NotClosing, TypeOK
  <2>2. CASE Step(t) BY <2>2, CallsKept DEF NotClosing
  <2> QED BY <2>1, <2>2
<1> QED BY <1>1 DEF NotClosing, Placed, PlacedAt

\* The switch that cuts I/O is set by a thread that excludes all transfers.
LEMMA KillKept ==
  ASSUME TypeOK, Placed, LockBalance, NotClosing, KillInv,
         NEW t \in Thread, Call(t) \/ Step(t)
  PROVE  KillInv'
<1> DEFINE Busy == {"transfer_out", "build_data", "read", "transfer_in"}
<1>1. Alone(t) BY StepAlone
<1> USE DEF TypeOK, Goto, At, kill, loc
<1>2. CASE KillIo(t)
  <2>1. Held(t) > 0 BY <1>2 DEF KillIo, Held, InOuter, Placed, PlacedAt,
                              OuterLocked
  <2>2. ASSUME NEW u \in Thread \ {t} PROVE pc[u] \notin Busy
    <3>1. ~(Held(u) > 0) BY <2>1, OneInSend
    <3> QED BY <3>1 DEF Held, InSend
  <2>3. pc'[t] \notin Busy BY <1>2 DEF KillIo
  <2> QED BY <1>1, <2>2, <2>3 DEF KillInv, Alone
<1>3. CASE Write(t)
  BY <1>1, <1>3 DEF Write, Failed, KillInv, Alone
<1>4. CASE TransferOut(t)
  BY <1>1, <1>4 DEF TransferOut, Failed, KillInv, Alone
<1>5. CASE BuildData(t) \/ Read(t)
  BY <1>1, <1>5 DEF BuildData, Read, Failed, KillInv, Alone
<1>6. CASE Call(t)
  <2>1. PICK c \in Calls[t] : pc' = [pc EXCEPT ![t] = Start(c.fn)]
    BY <1>6 DEF Call
  <2>2. Start(c.fn) \notin Busy BY DEF Start
  <2>3. UNCHANGED io_kill_switch BY <1>6 DEF Call
  <2> QED BY <1>1, <2>1, <2>2, <2>3 DEF KillInv, Alone
<1>7. CASE /\ Step(t) /\ ~KillIo(t) /\ ~Write(t) /\ ~TransferOut(t)
           /\ ~BuildData(t) /\ ~Read(t)
  <2>1. (io_kill_switch' => io_kill_switch) /\ pc'[t] \notin Busy
    <3>1. CASE SendStep(t)
      BY <1>7, <3>1
         DEF SendStep, Check1, AcquireLock, Check2, Resize, Build, ReadReply,
             ReadIgnored, ReadError, IgnoredKill, FailUnlock, FailKill, Count,
             CheckRc, ReleaseLock, AfterSend, Failed
    <3>2. CASE WrapperStep(t) \/ ReportStep(t)
      BY <1>7, <3>2
         DEF WrapperStep, OuterLock, OuterUnlock, Parse, NextSession,
             ResetTransaction, ReportStep, Report, StopOperations,
             ReportAgain, KillOperations
    <3>3. CASE DeviceStep(t)
      BY <3>3
         DEF NotClosing, DeviceStep, CloseIo, CloseOperations, CloseHandle,
             OpenCheck, OpenHandle, OpenIo, OpenOperations
    <3> QED BY <1>7, <3>1, <3>2, <3>3 DEF Step
  <2> QED BY <1>1, <2>1 DEF KillInv, Alone
<1> QED BY <1>2, <1>3, <1>4, <1>5, <1>6, <1>7

\* Once I/O is cut no thread is inside a transfer.
THEOREM NoTransferAfterKillHolds ==
  ASSUME SmallPayloads, NoDeviceClose
  PROVE  Spec => []NoTransferAfterKill
<1> DEFINE I == NotClosing /\ KillInv
<1>1. Init => I
  BY DEF Init, NotClosing, KillInv, NoCall
<1>2. TypeOK /\ LockInv /\ LockInv' /\ I /\ [Next]_vars => I'
  <2> SUFFICES ASSUME TypeOK, LockInv, LockInv', I, [Next]_vars PROVE I'
    OBVIOUS
  <2>1. ASSUME NEW t \in Thread, Call(t) \/ Step(t) PROVE I'
    BY <2>1, NotClosingKept, KillKept DEF LockInv
  <2>2. CASE UNCHANGED vars
    BY <2>2 DEF vars, kill, loc, NotClosing, KillInv
  <2> QED BY <2>1, <2>2 DEF Next, Finished
<1>3. I => NoTransferAfterKill BY DEF KillInv, NoTransferAfterKill
<1> HIDE DEF I
<1> QED BY <1>1, <1>2, <1>3, TypeCorrect, LockInvariant, PTL DEF Spec
-----------------------------------------------------------------------------
\* Only a thread in ptp_send touches the replies and r->data, and it excludes
\* every other thread from them.
LEMMA SoleUser ==
  ASSUME LockBalance, NEW t \in Thread, InSend(t)
  PROVE  \A u \in Thread \ {t} : ~InSend(u) /\ ~InOuter(u)
<1>1. Held(t) > 0 BY DEF Held
<1> SUFFICES ASSUME NEW u \in Thread \ {t} PROVE ~InSend(u) /\ ~InOuter(u)
  OBVIOUS
<1>2. ~(Held(u) > 0) BY <1>1, OneInSend
<1> QED BY <1>2 DEF Held

\* What ReplyInv says of one thread.
ReplyAt(t) ==
  /\ pc[t] \in {"write", "transfer_out"} => data.by = t /\ data.nth = calls[t]
  /\ pc[t] \in {"count", "check_rc"} => Answered(t)
  /\ pc[t] = "unlock" /\ rc[t] = "PTP_OK" => Answered(t)
  /\ pc[t] = "parse" /\ call[t].fn \in LockedParse => Answered(t)

\* And of the replies nobody has read.
Unread ==
  inbox # <<>> =>
    \E t \in Thread : /\ pc[t] \in {"read", "transfer_in"}
                      /\ Len(inbox) = 1 /\ ReplyTo(t, inbox[1])

\* ReplyInv, thread by thread.
LEMMA ReplySplit == ReplyInv <=> Unread /\ \A t \in Thread : ReplyAt(t)
BY DEF ReplyInv, Unread, ReplyAt

\* A thread that is not in ptp_send cannot tell whether r->data changes.
LEMMA OthersReply ==
  ASSUME TypeOK, LockBalance, NEW t \in Thread, Call(t) \/ Step(t),
         \A u \in Thread : ReplyAt(u),
         UNCHANGED data \/ InSend(t)
  PROVE  \A u \in Thread \ {t} : ReplyAt(u)'
<1> SUFFICES ASSUME NEW u \in Thread \ {t} PROVE ReplyAt(u)' OBVIOUS
<1>1. pc'[u] = pc[u] /\ call'[u] = call[u] BY StepAlone DEF Alone
<1>2. calls'[u] = calls[u] BY CallsKept DEF Call, TypeOK
<1>3. rc'[u] = rc[u]
  BY DEF TypeOK, Return, Call, Step, SendStep, Check1, AcquireLock, Check2,
         Resize, Build, BuildData, Write, TransferOut, Read, ReadReply,
         ReadIgnored, ReadError, IgnoredKill, FailUnlock, FailKill, Count,
         CheckRc, ReleaseLock, WrapperStep, OuterLock, OuterUnlock, Parse,
         NextSession, ResetTransaction, ReportStep, Report, StopOperations,
         ReportAgain, KillOperations, KillIo, DeviceStep, CloseIo,
         CloseOperations, CloseHandle, OpenCheck, OpenHandle, OpenIo,
         OpenOperations
<1>4. CASE UNCHANGED data
  BY <1>1, <1>2, <1>3, <1>4 DEF ReplyAt, Answered, ReplyTo
<1>5. CASE InSend(t)
  <2>1. ~InSend(u) /\ ~InOuter(u) BY <1>5, SoleUser
  <2> QED BY <1>1, <2>1 DEF ReplyAt, InSend, InOuter, OuterLocked
<1> QED BY <1>4, <1>5


\* A thread keeps its own part of ReplyInv: it goes on to read a return code,
\* or a payload, only after a reply of its own.
LEMMA OwnReplyKept ==
  ASSUME TypeOK, Placed, LockBalance, KillInv, Unread, NEW t \in Thread,
         ReplyAt(t), Call(t) \/ Step(t)
  PROVE  ReplyAt(t)'
<1> USE DEF TypeOK, Goto, At, Return, loc, wire, ReplyAt
<1>1. CASE Call(t) BY <1>1 DEF Call, Start
<1>2. CASE Build(t) \/ BuildData(t)
  BY <1>2 DEF Build, BuildData, NewPacket
<1>3. CASE Write(t) BY <1>3 DEF Write, Failed
<1>4. CASE ReadReply(t)
  <2>1. inbox # <<>> /\ InSend(t) BY <1>4 DEF ReadReply, InSend
  <2>2. PICK u \in Thread : pc[u] \in {"read", "transfer_in"}
                            /\ ReplyTo(u, inbox[1])
    BY <2>1 DEF Unread
  <2>3. u = t BY <2>1, <2>2, SoleUser DEF InSend
  <2>4. data' = inbox[1] BY <1>4 DEF ReadReply
  <2> QED BY <1>4, <2>2, <2>3, <2>4 DEF ReadReply, Answered, ReplyTo
<1>5. CASE Count(t) BY <1>5 DEF Count, Answered, ReplyTo
<1>6. CASE CheckRc(t) BY <1>6 DEF CheckRc, Answered, ReplyTo
<1>7. CASE ReleaseLock(t)
  BY <1>7 DEF ReleaseLock, AfterSend, Answered, ReplyTo
<1>8. CASE Check1(t) \/ Check2(t) \/ FailKill(t) \/ Resize(t)
  BY <1>8 DEF Check1, Check2, FailKill, Resize, AfterSend
<1>9. CASE /\ SendStep(t)
           /\ ~(Build(t) \/ BuildData(t) \/ Write(t) \/ ReadReply(t))
           /\ ~(Count(t) \/ CheckRc(t) \/ ReleaseLock(t))
           /\ ~(Check1(t) \/ Check2(t) \/ FailKill(t) \/ Resize(t))
  BY <1>9 DEF SendStep, AcquireLock, TransferOut, Read, ReadIgnored,
              ReadError, IgnoredKill, FailUnlock, Failed
<1>10. CASE WrapperStep(t) \/ ReportStep(t)
  BY <1>10 DEF WrapperStep, OuterLock, OuterUnlock, Parse, NextSession,
               ResetTransaction, ReportStep, Report, StopOperations,
               ReportAgain, KillOperations, KillIo
<1>11. CASE DeviceStep(t)
  BY <1>11 DEF DeviceStep, CloseIo, CloseOperations, CloseHandle, OpenCheck,
               OpenHandle, OpenIo, OpenOperations
<1> QED BY <1>1, <1>2, <1>3, <1>4, <1>5, <1>6, <1>7, <1>8, <1>9, <1>10, <1>11
        DEF Step

\* Reading the only reply leaves none.
LEMMA TailOfOne ==
  ASSUME NEW s \in Seq(Packet), Len(s) = 1
  PROVE  Tail(s) = <<>>
<1>1. Tail(s) \in Seq(Packet) /\ Len(Tail(s)) = 0 BY HeadTailProperties
<1> QED BY <1>1, EmptySeq

\* A reply that waits is the answer to the thread that waits for it.
LEMMA UnreadKept ==
  ASSUME "late" \notin Faults, TypeOK, LockBalance, KillInv, Unread,
         NEW t \in Thread, ReplyAt(t), Call(t) \/ Step(t)
  PROVE  Unread'
<1> USE DEF TypeOK, Goto, At, loc, wire
<1>1. Alone(t) BY StepAlone
<1>2. ASSUME inbox # <<>>, InSend(t)
      PROVE  /\ pc[t] \in {"read", "transfer_in"}
             /\ Len(inbox) = 1 /\ ReplyTo(t, inbox[1])
  <2>1. PICK u \in Thread : /\ pc[u] \in {"read", "transfer_in"}
                            /\ Len(inbox) = 1 /\ ReplyTo(u, inbox[1])
    BY <1>2 DEF Unread
  <2>2. u = t BY <1>2, <2>1, SoleUser DEF InSend
  <2> QED BY <2>1, <2>2
<1>3. CASE TransferOut(t)
  <2>1. inbox = <<>> BY <1>2, <1>3 DEF TransferOut, InSend
  <2>2. CASE UNCHANGED inbox BY <2>1, <2>2 DEF Unread
  <2>3. CASE \E p \in Reply(data) : inbox' = Append(inbox, p)
    <3>1. PICK p \in Reply(data) : inbox' = Append(inbox, p) BY <2>3
    <3>2. p \in Packet /\ p.kind = "response"
          /\ p.by = data.by /\ p.nth = data.nth
      BY DEF Reply, Packet
    <3>3. Len(inbox') = 1 /\ inbox'[1] = p BY <2>1, <3>1, <3>2
    <3>4. data.by = t /\ data.nth = calls[t]
      BY <1>3 DEF TransferOut, ReplyAt
    <3>5. calls' = calls BY <1>3 DEF TransferOut
    <3>6. CASE pc'[t] = "read"
      BY <3>2, <3>3, <3>4, <3>5, <3>6 DEF Unread, ReplyTo
    <3>7. CASE pc'[t] # "read"
      <4>1. UNCHANGED inbox BY <1>3, <3>7 DEF TransferOut
      <4> QED BY <2>1, <4>1 DEF Unread
    <3> QED BY <3>6, <3>7
  <2> QED BY <1>3, <2>2, <2>3 DEF TransferOut
<1>4. CASE ReadReply(t)
  <2>1. Len(inbox) = 1 BY <1>2, <1>4 DEF ReadReply, InSend
  <2>2. inbox' = <<>> BY <1>4, <2>1, TailOfOne DEF ReadReply
  <2> QED BY <2>2 DEF Unread
<1>5. CASE ReadIgnored(t) \/ ReadError(t)
  <2>1. inbox # <<>> => Len(inbox) = 1
    BY <1>2, <1>5 DEF ReadIgnored, ReadError, InSend
  <2>2. inbox' \in LeftInbox BY <1>5 DEF ReadIgnored, ReadError
  <2>3. inbox # <<>> => Tail(inbox) = <<>> BY <2>1, TailOfOne
  <2>4. inbox' = <<>>
    <3>1. CASE inbox = <<>> BY <2>2, <3>1 DEF LeftInbox
    <3>2. CASE inbox # <<>> BY <2>2, <2>3, <3>2 DEF LeftInbox
    <3> QED BY <3>1, <3>2
  <2> QED BY <2>4 DEF Unread
<1>6. CASE Read(t)
  <2>1. pc'[t] = "transfer_in" BY <1>6 DEF Read, KillInv
  <2>2. UNCHANGED <<inbox, calls>> BY <1>6 DEF Read
  <2>3. inbox # <<>> => Len(inbox) = 1 /\ ReplyTo(t, inbox[1])
    BY <1>2, <1>6 DEF Read, InSend
  <2> QED BY <2>1, <2>2, <2>3 DEF Unread, ReplyTo
<1>7. CASE /\ ~TransferOut(t) /\ ~ReadReply(t) /\ ~ReadIgnored(t)
           /\ ~ReadError(t) /\ ~Read(t)
  <2>1. UNCHANGED inbox /\ pc[t] \notin {"read", "transfer_in"}
    BY <1>7
       DEF Call, Step, SendStep, Check1, AcquireLock, Check2, Resize, Build,
           BuildData, Write, IgnoredKill, FailUnlock, FailKill, Count,
           CheckRc, ReleaseLock, WrapperStep, OuterLock, OuterUnlock, Parse,
           NextSession, ResetTransaction, ReportStep, Report, StopOperations,
           ReportAgain, KillOperations, KillIo, DeviceStep, CloseIo,
           CloseOperations, CloseHandle, OpenCheck, OpenHandle, OpenIo,
           OpenOperations
  <2>2. \A u \in Thread \ {t} : calls'[u] = calls[u]
    BY CallsKept DEF Call
  <2> QED BY <1>1, <2>1, <2>2 DEF Unread, Alone, ReplyTo
<1> QED BY <1>3, <1>4, <1>5, <1>6, <1>7


\* In every reachable state the replies that wait, and the one in r->data,
\* are those of the thread that reads them, as long as the camera answers no
\* command after the read has given up.
LEMMA ReplyInvariant ==
  ASSUME SmallPayloads, NoDeviceClose, "late" \notin Faults
  PROVE  Spec => [](KillInv /\ ReplyInv)
<1> DEFINE I == NotClosing /\ KillInv /\ ReplyInv
<1>1. Init => I
  BY DEF Init, NotClosing, KillInv, ReplyInv, NoCall
<1>2. TypeOK /\ LockInv /\ LockInv' /\ I /\ [Next]_vars => I'
  <2> SUFFICES ASSUME TypeOK, LockInv, LockInv', I, [Next]_vars PROVE I'
    OBVIOUS
  <2>1. ASSUME NEW t \in Thread, Call(t) \/ Step(t) PROVE I'
    <3>1. NotClosing' /\ KillInv'
      BY <2>1, NotClosingKept, KillKept DEF LockInv
    <3>2. Unread /\ \A u \in Thread : ReplyAt(u) BY ReplySplit
    <3>3. UNCHANGED data \/ InSend(t)
      BY <2>1
         DEF InSend, At, Call, Step, SendStep, Check1, AcquireLock, Check2,
             Resize, Build, BuildData, Write, TransferOut, Read, ReadReply,
             ReadIgnored, ReadError, IgnoredKill, FailUnlock, FailKill, Count,
             CheckRc, ReleaseLock, WrapperStep, OuterLock, OuterUnlock, Parse,
             NextSession, ResetTransaction, ReportStep, Report,
             StopOperations, ReportAgain, KillOperations, KillIo, DeviceStep,
             CloseIo, CloseOperations, CloseHandle, OpenCheck, OpenHandle,
             OpenIo, OpenOperations
    <3>4. \A u \in Thread \ {t} : ReplyAt(u)'
      BY <2>1, <3>2, <3>3, OthersReply DEF LockInv
    <3>5. ReplyAt(t)' BY <2>1, <3>2, OwnReplyKept DEF LockInv
    <3>6. Unread' BY <2>1, <3>2, UnreadKept DEF LockInv
    <3>7. ReplyInv'
      BY <3>4, <3>5, <3>6 DEF ReplyInv, Unread, ReplyAt
    <3> QED BY <3>1, <3>7
  <2>2. CASE UNCHANGED vars
    BY <2>2 DEF vars, kill, ids, wire, loc, NotClosing, KillInv, ReplyInv,
                Answered, ReplyTo
  <2> QED BY <2>1, <2>2 DEF Next, Finished
<1>3. I => KillInv /\ ReplyInv OBVIOUS
<1> HIDE DEF I
<1> QED BY <1>1, <1>2, <1>3, TypeCorrect, LockInvariant, PTL DEF Spec

\* So every return code is read from the reply to the thread's own command.
THEOREM OwnReplyHolds ==
  ASSUME SmallPayloads, NoDeviceClose, "late" \notin Faults
  PROVE  Spec => []OwnReply
<1>1. ReplyInv => OwnReply BY DEF ReplyInv, OwnReply, At
<1> QED BY <1>1, ReplyInvariant, PTL
-----------------------------------------------------------------------------
(* PtpRuntime implements OperationBus; the order of the transactions; the  *)
(* end of a disconnect.                                                    *)

\* No thread makes a call of the functions F.
Never(F) == \A t \in Thread : \A c \in Calls[t] : c.fn \notin F

\* No thread is in a call of the functions F.
Absent(F) == \A t \in Thread : call[t].fn \notin F

\* The session and the connection stay as they are while threads use them:
\* ptp_open_session and ptp_device_open start the counter and the switches
\* again.
Restart == {"ptp_open_session", "ptp_device_open"}

\* A thread is in no call that nobody makes.
LEMMA AbsentKept ==
  ASSUME NEW F, Never(F), TypeOK, Absent(F), NEW t \in Thread,
         Call(t) \/ Step(t)
  PROVE  Absent(F)'
<1>1. CASE Call(t)
  <2>1. PICK c \in Calls[t] : call' = [call EXCEPT ![t] = c]
    BY <1>1 DEF Call
  <2> QED BY <2>1 DEF Never, Absent, TypeOK
<1>2. CASE Step(t) BY <1>2, CallsKept DEF Absent
<1> QED BY <1>1, <1>2

\* Every other thread keeps its attempt, its result and its call.
LEMMA OthersKeep ==
  ASSUME TypeOK, NEW t \in Thread, Call(t) \/ Step(t),
         NEW u \in Thread \ {t}
  PROVE  /\ pc'[u] = pc[u] /\ call'[u] = call[u] /\ calls'[u] = calls[u]
         /\ try'[u] = try[u]
<1>1. pc'[u] = pc[u] /\ call'[u] = call[u] BY StepAlone DEF Alone
<1>2. calls'[u] = calls[u] BY CallsKept DEF Call, TypeOK
<1>3. try'[u] = try[u]
  BY DEF TypeOK, Call, Step, SendStep, Check1, AcquireLock, Check2,
         Resize, Build, BuildData, Write, TransferOut, Read, ReadReply,
         ReadIgnored, ReadError, IgnoredKill, FailUnlock, FailKill, Count,
         CheckRc, ReleaseLock, WrapperStep, OuterLock, OuterUnlock, Parse,
         NextSession, ResetTransaction, ReportStep, Report, StopOperations,
         ReportAgain, KillOperations, KillIo, DeviceStep, CloseIo,
         CloseOperations, CloseHandle, OpenCheck, OpenHandle, OpenIo,
         OpenOperations
<1> QED BY <1>1, <1>2, <1>3

\* A thread that is not inside ptp_send changes neither r->data nor what has
\* been sent or received, nor, unless it opens a session, the counter.
LEMMA Untouched ==
  ASSUME Placed, Absent(Restart), NEW t \in Thread, Call(t) \/ Step(t),
         ~InSend(t)
  PROVE  UNCHANGED <<data, last, inbox, transaction>>
<1>1. pc[t] # "reset_transaction"
  BY DEF Placed, PlacedAt, Absent, Restart
<1> QED
  BY <1>1
     DEF InSend, At, wire, ids, Call, Step, SendStep, Check1, AcquireLock,
         Check2, Resize, Build, BuildData, Write, TransferOut, Read,
         ReadReply, ReadIgnored, ReadError, IgnoredKill, FailUnlock,
         FailKill, Count, CheckRc, ReleaseLock, WrapperStep, OuterLock,
         OuterUnlock, Parse, NextSession, ResetTransaction, ReportStep,
         Report, StopOperations, ReportAgain, KillOperations, KillIo,
         DeviceStep, CloseIo, CloseOperations, CloseHandle, OpenCheck,
         OpenHandle, OpenIo, OpenOperations

\* Inside ptp_send a thread makes the steps of ptp_send ...
LEMMA SendGoesOn ==
  ASSUME NEW t \in Thread, InSend(t), Call(t) \/ Step(t)
  PROVE  SendStep(t)
BY DEF InSend, At, Call, Step, WrapperStep, OuterLock, OuterUnlock, Parse,
       NextSession, ResetTransaction, ReportStep, Report, StopOperations,
       ReportAgain, KillOperations, KillIo, DeviceStep, CloseIo,
       CloseOperations, CloseHandle, OpenCheck, OpenHandle, OpenIo,
       OpenOperations

\* ... and it comes in by the second look at the kill switch.
LEMMA SendStarts ==
  ASSUME TypeOK, NEW t \in Thread, ~InSend(t), Call(t) \/ Step(t)
  PROVE  pc'[t] \notin {"resize", "build", "write", "transfer_out", "count",
                        "check_rc"}
BY DEF InSend, At, Goto, TypeOK, Call, Start, Step, SendStep, Check1,
       AcquireLock, Check2, Resize, Build, BuildData, Write, TransferOut,
       Read, ReadReply, ReadIgnored, ReadError, IgnoredKill, FailUnlock,
       FailKill, Count, CheckRc, ReleaseLock, WrapperStep, OuterLock,
       OuterUnlock, Parse, NextSession, ResetTransaction, ReportStep, Report,
       StopOperations, ReportAgain, KillOperations, KillIo, DeviceStep,
       CloseIo, CloseOperations, CloseHandle, OpenCheck, OpenHandle, OpenIo,
       OpenOperations, AfterSend

\* Without a reopen a switch that is set stays set.
LEMMA SwitchesStay ==
  ASSUME Placed, Absent(Restart), NEW t \in Thread, Call(t) \/ Step(t)
  PROVE  /\ operation_kill_switch => operation_kill_switch'
         /\ io_kill_switch => io_kill_switch'
<1>1. pc[t] \notin {"open_io", "open_op"}
  BY DEF Placed, PlacedAt, Absent, Restart
<1> QED
  BY <1>1
     DEF At, kill, Call, Step, SendStep, Check1, AcquireLock,
         Check2, Resize, Build, BuildData, Write, TransferOut, Read,
         ReadReply, ReadIgnored, ReadError, IgnoredKill, FailUnlock,
         FailKill, Count, CheckRc, ReleaseLock, WrapperStep, OuterLock,
         OuterUnlock, Parse, NextSession, ResetTransaction, ReportStep,
         Report, StopOperations, ReportAgain, KillOperations, KillIo,
         DeviceStep, CloseIo, CloseOperations, CloseHandle, OpenCheck,
         OpenHandle, OpenIo, OpenOperations
-----------------------------------------------------------------------------
(* The packets of the thread inside ptp_send.                              *)

\* The control states before the first attempt.
Early == {"next_session", "reset_transaction", "outer_lock", "report",
          "stop_operations", "report_again", "check1", "lock", "check2"}

\* What is in r->data, and what has been sent, where thread t is: its packets
\* carry the counter as it still is, and a second attempt repeats the first.
PacketAt(t) ==
  /\ pc[t] \in Early => try[t] = 1
  /\ pc[t] \in {"write", "transfer_out"} =>
       \/ data = NewPacket(t, "command")
       \/ data = NewPacket(t, "data") /\ last = NewPacket(t, "command")
  /\ pc[t] \in {"build", "write", "transfer_out"} /\ try[t] = 2
       => last = NewPacket(t, "command")
  /\ pc[t] \in {"build_data", "read", "transfer_in", "count"}
       => last = NewPacket(t, "command")
  /\ pc[t] \in {"read", "transfer_in"} => data.kind # "response"

PacketInv == \A t \in Thread : PacketAt(t)

\* A thread goes on with its own packets.
LEMMA OwnPacketKept ==
  ASSUME TypeOK, Placed, Fits, Absent(Restart), NEW t \in Thread, PacketAt(t),
         Call(t) \/ Step(t)
  PROVE  PacketAt(t)'
<1> USE DEF TypeOK, Goto, At, Return, loc, ids, wire, PacketAt, Early
<1>1. CASE Call(t) BY <1>1 DEF Call, Start
<1>2. CASE Check2(t) BY <1>2 DEF Check2
<1>3. CASE Build(t) \/ BuildData(t)
  BY <1>3 DEF Build, BuildData, NewPacket
<1>4. CASE Write(t) BY <1>4 DEF Write, Failed, NewPacket
<1>5. CASE TransferOut(t)
  <2>1. UNCHANGED <<data, call, calls, transaction, try>>
    BY <1>5 DEF TransferOut
  <2>2. \A k : NewPacket(t, k)' = NewPacket(t, k)
    BY <2>1 DEF NewPacket
  <2>3. CASE pc'[t] \in {"build_data", "read"}
    <3>1. last' = IF data.kind = "command" THEN data ELSE last
      BY <1>5, <2>3 DEF TransferOut, Failed
    <3>2. last' = NewPacket(t, "command") /\ data.kind # "response"
      BY <1>5, <3>1 DEF TransferOut, NewPacket
    <3> QED BY <2>1, <2>2, <2>3, <3>2
  <2>4. CASE pc'[t] \in {"fail_unlock", "ignored_kill"}
    BY <2>4
  <2> QED BY <1>5, <2>3, <2>4 DEF TransferOut, Failed
<1>6. CASE Read(t) BY <1>6 DEF Read, Failed, NewPacket
<1>7. CASE ReadReply(t) BY <1>7 DEF ReadReply, NewPacket
<1>8. CASE ReadIgnored(t) BY <1>8 DEF ReadIgnored, NewPacket
<1>9. CASE Resize(t) BY <1>9 DEF Resize, Fits
<1>10. CASE /\ SendStep(t)
            /\ ~(Check2(t) \/ Build(t) \/ BuildData(t) \/ Write(t))
            /\ ~(TransferOut(t) \/ Read(t) \/ ReadReply(t))
            /\ ~(ReadIgnored(t) \/ Resize(t))
  BY <1>10, SMTT(30) DEF SendStep, Check1, AcquireLock, ReadError, IgnoredKill,
               FailUnlock, FailKill, Count, CheckRc, ReleaseLock, AfterSend,
               Failed
<1>11. CASE WrapperStep(t) \/ ReportStep(t)
  BY <1>11, SMTT(30) DEF WrapperStep, OuterLock, OuterUnlock, Parse, NextSession,
               ResetTransaction, ReportStep, Report, StopOperations,
               ReportAgain, KillOperations, KillIo, Placed, PlacedAt
<1>12. CASE DeviceStep(t)
  BY <1>12 DEF DeviceStep, CloseIo, CloseOperations, CloseHandle, OpenCheck,
               OpenHandle, OpenIo, OpenOperations
<1> QED BY <1>1, <1>2, <1>3, <1>4, <1>5, <1>6, <1>7, <1>8, <1>9, <1>10,
           <1>11, <1>12 DEF Step

\* While a thread is inside ptp_send the packets and the counter are its own.
LEMMA PacketKept ==
  ASSUME TypeOK, LockInv, Absent(Restart), PacketInv, NEW t \in Thread,
         Call(t) \/ Step(t)
  PROVE  PacketInv'
<1>1. PacketAt(t)' BY OwnPacketKept DEF PacketInv, LockInv
<1>2. ASSUME NEW u \in Thread \ {t} PROVE PacketAt(u)'
  <2>1. /\ pc'[u] = pc[u] /\ call'[u] = call[u] /\ calls'[u] = calls[u]
        /\ try'[u] = try[u]
    BY OthersKeep
  <2>2. CASE InSend(u)
    <3>1. ~InSend(t) BY <2>2, SoleUser DEF LockInv
    <3>2. UNCHANGED <<data, last, transaction>>
      BY <3>1, Untouched DEF LockInv
    <3>3. \A k : NewPacket(u, k)' = NewPacket(u, k)
      BY <2>1, <3>2 DEF NewPacket
    <3> QED BY <2>1, <3>2, <3>3 DEF PacketInv, PacketAt
  <2>3. CASE ~InSend(u)
    BY <2>1, <2>3 DEF PacketInv, PacketAt, InSend
  <2> QED BY <2>2, <2>3
<1> QED BY <1>1, <1>2 DEF PacketInv

\* The packets are right in every reachable state.
LEMMA PacketInvariant ==
  ASSUME SmallPayloads, Never(Restart)
  PROVE  Spec => [](Absent(Restart) /\ PacketInv)
<1>1. Init => Absent(Restart) /\ PacketInv
  BY DEF Init, NoCall, Absent, Restart, PacketInv, PacketAt
<1>2. /\ TypeOK /\ LockInv /\ Absent(Restart) /\ PacketInv /\ [Next]_vars
      => (Absent(Restart) /\ PacketInv)'
  <2> SUFFICES ASSUME TypeOK, LockInv, Absent(Restart), PacketInv,
                      [Next]_vars
               PROVE  (Absent(Restart) /\ PacketInv)'
    OBVIOUS
  <2>1. ASSUME NEW t \in Thread, Call(t) \/ Step(t)
        PROVE  (Absent(Restart) /\ PacketInv)'
    BY <2>1, AbsentKept, PacketKept
  <2>2. CASE UNCHANGED vars
    BY <2>2 DEF vars, ids, wire, loc, Absent, PacketInv, PacketAt, NewPacket
  <2> QED BY <2>1, <2>2 DEF Next, Finished
<1> QED BY <1>1, <1>2, TypeCorrect, LockInvariant, PTL DEF Spec
-----------------------------------------------------------------------------
(* The order of the transactions.                                          *)

\* Nothing cuts the wire in the middle of an operation, or closes the device.
Undisturbed ==
  "error" \notin Faults /\ Never(Restart \cup {"ptp_device_close"})

\* Where a first attempt is about to be sent, and after the count, the last
\* command is that of the transaction before.
TurnAt(t) ==
  /\ pc[t] = "build" /\ try[t] = 1 => last.tx = transaction - 1
  /\ pc[t] \in {"write", "transfer_out"} /\ try[t] = 1
       /\ data.kind = "command" => last.tx = transaction - 1
  /\ pc[t] = "check_rc" => last.tx = transaction - 1

\* Thread t may have sent a command that is not counted.
Pending(t) == pc[t] \in {"build", "write", "transfer_out", "build_data",
                         "read", "transfer_in", "count", "ignored_kill"}

\* I/O is cut only after operations are stopped.
SwitchOrder ==
  /\ io_kill_switch => operation_kill_switch
  /\ \A t \in Thread : pc[t] = "kill_io" => operation_kill_switch

\* A command that was sent and not counted is that of a thread which is still
\* at it, or nothing will be sent any more.
Counted ==
  \/ last.tx = transaction - 1
  \/ last.tx = transaction /\ operation_kill_switch
  \/ last.tx = transaction /\ \E t \in Thread : Pending(t)

TurnInv == SwitchOrder /\ (\A t \in Thread : TurnAt(t)) /\ Counted

\* The procedures that cut I/O stop the operations before.
LEMMA SwitchOrderKept ==
  ASSUME TypeOK, Placed, Absent(Restart \cup {"ptp_device_close"}),
         SwitchOrder, NEW t \in Thread, Call(t) \/ Step(t)
  PROVE  SwitchOrder'
<1>1. Absent(Restart) /\ call[t].fn # "ptp_device_close" BY DEF Absent
<1>2. operation_kill_switch => operation_kill_switch' BY <1>1, SwitchesStay
<1>3. \A u \in Thread \ {t} : pc'[u] = pc[u] BY OthersKeep
<1>4. /\ io_kill_switch' /\ ~io_kill_switch => pc[t] = "kill_io"
      /\ pc'[t] = "kill_io" => operation_kill_switch'
  <2> USE <1>1 DEF TypeOK, Goto, At, Return, kill, Placed, PlacedAt
  <2>1. CASE Call(t) BY <2>1 DEF Call, Start
  <2>2. CASE SendStep(t)
    BY <2>2 DEF SendStep, Check1, AcquireLock, Check2, Resize, Build,
         BuildData, Write, TransferOut, Read, ReadReply, ReadIgnored,
         ReadError, IgnoredKill, FailUnlock, FailKill, Count, CheckRc,
         ReleaseLock, AfterSend, Failed
  <2>3. CASE WrapperStep(t) \/ ReportStep(t)
    BY <2>3 DEF WrapperStep, OuterLock, OuterUnlock, Parse, NextSession,
               ResetTransaction, ReportStep, Report, StopOperations,
               ReportAgain, KillOperations, KillIo
  <2>4. CASE DeviceStep(t)
    BY <2>4 DEF DeviceStep, CloseIo, CloseOperations, CloseHandle, OpenCheck,
               OpenHandle, OpenIo, OpenOperations, Absent, Restart
  <2> QED BY <2>1, <2>2, <2>3, <2>4 DEF Step
<1> QED BY <1>2, <1>3, <1>4 DEF SwitchOrder

\* Each part of TurnInv outlives a step of a thread.
LEMMA TurnKept ==
  ASSUME "error" \notin Faults, TypeOK, LockInv,
         Absent(Restart \cup {"ptp_device_close"}), PacketInv,
         TurnInv, NEW t \in Thread, Call(t) \/ Step(t)
  PROVE  TurnInv'
<1>1. Absent(Restart) BY DEF Absent
<1>2. SwitchOrder' BY SwitchOrderKept DEF LockInv, TurnInv
<1>3. operation_kill_switch => operation_kill_switch'
  BY <1>1, SwitchesStay DEF LockInv
<1>4. PacketAt(t) BY DEF PacketInv
<1>5. InSend(t) => \A u \in Thread \ {t} : ~InSend(u)
  BY SoleUser DEF LockInv
<1>6. ASSUME NEW u \in Thread \ {t}
      PROVE  TurnAt(u)' /\ (Pending(u)' <=> Pending(u))
  <2>1. pc'[u] = pc[u] /\ try'[u] = try[u] BY OthersKeep
  <2>2. CASE InSend(u)
    <3>1. UNCHANGED <<data, last, transaction>>
      BY <1>1, <1>5, <2>2, Untouched DEF LockInv
    <3> QED BY <2>1, <3>1 DEF TurnInv, TurnAt, Pending
  <2>3. CASE ~InSend(u)
    BY <2>1, <2>3 DEF TurnAt, InSend, Pending
  <2> QED BY <2>2, <2>3
<1>7. TurnAt(t)' /\ Counted'
  <2>1. CASE ~InSend(t)
    <3>1. UNCHANGED <<data, last, transaction>>
      BY <1>1, <2>1, Untouched DEF LockInv
    <3>2. pc'[t] \notin {"build", "write", "transfer_out", "check_rc"}
      BY <2>1, SendStarts
    <3>3. ~Pending(t) BY <2>1 DEF InSend, Pending
    <3> QED BY <1>3, <1>6, <3>1, <3>2, <3>3 DEF TurnInv, TurnAt, Counted
  <2>2. CASE InSend(t)
    <3>1. SendStep(t) BY <2>2, SendGoesOn
    <3>2. \/ last.tx = transaction - 1
          \/ last.tx = transaction /\ operation_kill_switch
          \/ last.tx = transaction /\ Pending(t)
      BY <1>5, <2>2 DEF TurnInv, Counted, Pending, InSend
    <3>3. TurnAt(t) /\ (io_kill_switch => operation_kill_switch)
      BY DEF TurnInv, SwitchOrder
    <3>4. transaction \in Nat /\ last.tx \in Int BY DEF TypeOK, Packet
    <3>5. Pending(t)' => \E u \in Thread : Pending(u)' OBVIOUS
    <3> USE <3>2, <3>3, <3>4, <3>5
        DEF TurnAt, Counted, Goto, At, Return, kill, ids, wire, Pending,
            TypeOK
    <3>6. CASE Check2(t) BY <3>6 DEF Check2
    <3>7. CASE Build(t) \/ BuildData(t)
      BY <1>4, <3>7 DEF Build, BuildData, NewPacket, PacketAt
    <3>8. CASE Write(t) BY <3>8 DEF Write, Failed
    <3>9. CASE TransferOut(t)
      <4>1. data.kind = "command" \/ last' = last BY <3>9 DEF TransferOut
      <4>2. pc[t] = "transfer_out" /\ pc'[t] \in {"build_data", "read"}
        BY <3>9 DEF TransferOut, Failed
      <4>3. last'.tx = transaction
        BY <1>4, <3>9, <4>2 DEF TransferOut, PacketAt, NewPacket
      <4> QED BY <3>9, <4>2, <4>3 DEF TransferOut
    <3>10. CASE Read(t) BY <3>10 DEF Read, Failed
    <3>11. CASE ReadReply(t) BY <3>11 DEF ReadReply
    <3>12. CASE ReadIgnored(t) BY <3>12 DEF ReadIgnored
    <3>13. CASE ReadError(t) BY <3>13 DEF ReadError
    <3>14. CASE IgnoredKill(t) BY <3>14 DEF IgnoredKill
    <3>15. CASE FailUnlock(t) \/ ReleaseLock(t) \/ FailKill(t)
      BY <3>15 DEF FailUnlock, ReleaseLock, AfterSend, FailKill
    <3>16. CASE Count(t)
      <4>1. last.tx = transaction
        BY <1>4, <3>16 DEF Count, PacketAt, NewPacket
      <4> QED BY <3>16, <4>1 DEF Count
    <3>17. CASE CheckRc(t) BY <3>17 DEF CheckRc
    <3>18. CASE Check1(t) \/ AcquireLock(t) \/ Resize(t)
      BY <2>2, <3>18 DEF InSend, Check1, AcquireLock, Resize, LockInv, Fits
    <3> QED BY <3>1, <3>6, <3>7, <3>8, <3>9, <3>10, <3>11, <3>12, <3>13,
               <3>14, <3>15, <3>16, <3>17, <3>18 DEF SendStep
  <2> QED BY <2>1, <2>2
<1> QED BY <1>2, <1>6, <1>7 DEF TurnInv

\* Commands are put on the wire by TransferOut only.
LEMMA OnlySent ==
  ASSUME NEW t \in Thread, Call(t) \/ Step(t), last' # last
  PROVE  TransferOut(t)
BY DEF wire, Call, Step, SendStep, Check1, AcquireLock, Check2, Resize,
       Build, BuildData, Write, Read, ReadReply, ReadIgnored, ReadError,
       IgnoredKill, FailUnlock, FailKill, Count, CheckRc, ReleaseLock,
       WrapperStep, OuterLock, OuterUnlock, Parse, NextSession,
       ResetTransaction, ReportStep, Report, StopOperations, ReportAgain,
       KillOperations, KillIo, DeviceStep, CloseIo, CloseOperations,
       CloseHandle, OpenCheck, OpenHandle, OpenIo, OpenOperations

\* And what is put there is the thread's own command, from r->data.
LEMMA LastChanges ==
  ASSUME TypeOK, PacketInv, NEW t \in Thread, Call(t) \/ Step(t),
         last' # last
  PROVE  /\ pc[t] = "transfer_out" /\ data.kind = "command"
         /\ last' = NewPacket(t, "command")
<1>1. TransferOut(t) BY OnlySent
<1>2. data.kind = "command" /\ last' = data BY <1>1 DEF TransferOut
<1>3. pc[t] = "transfer_out" BY <1>1 DEF TransferOut, At
<1>4. data = NewPacket(t, "command")
  BY <1>2, <1>3 DEF PacketInv, PacketAt, NewPacket
<1> QED BY <1>2, <1>3, <1>4

\* The commands on the wire carry consecutive transaction IDs.  A wire that
\* fails in the middle of an operation is excluded: then the mutex is free
\* before the switch is set, and a thread that waits for it sends a command
\* with the same number.
THEOREM TransactionOrderHolds ==
  ASSUME SmallPayloads, Undisturbed
  PROVE  Spec => TransactionOrder
<1> DEFINE A == Absent(Restart \cup {"ptp_device_close"})
<1>1. Never(Restart) BY DEF Undisturbed, Never
<1>2. Init => A /\ TurnInv
  BY DEF Init, NoCall, NoPacket, Absent, Restart, TurnInv, TurnAt,
         SwitchOrder, Counted
<1>3. TypeOK /\ LockInv /\ PacketInv /\ A /\ TurnInv /\ [Next]_vars
        => (A /\ TurnInv)'
  <2> SUFFICES ASSUME TypeOK, LockInv, PacketInv, A, TurnInv, [Next]_vars
               PROVE  (A /\ TurnInv)'
    OBVIOUS
  <2>1. ASSUME NEW t \in Thread, Call(t) \/ Step(t) PROVE (A /\ TurnInv)'
    BY <2>1, AbsentKept, TurnKept DEF Undisturbed
  <2>2. CASE UNCHANGED vars
    BY <2>2 DEF vars, kill, ids, wire, loc, Absent, TurnInv, TurnAt,
                SwitchOrder, Counted, Pending
  <2> QED BY <2>1, <2>2 DEF Next, Finished
<1>4. TypeOK /\ PacketInv /\ TurnInv /\ [Next]_vars
        => [last' # last => last'.tx = last.tx + 1]_last
  <2> SUFFICES ASSUME TypeOK, PacketInv, TurnInv, [Next]_vars, last' # last
               PROVE  last'.tx = last.tx + 1
    OBVIOUS
  <2>1. PICK t \in Thread : Call(t) \/ Step(t)
    BY DEF Next, Finished, vars, wire
  <2>2. /\ pc[t] = "transfer_out" /\ data.kind = "command"
        /\ last' = NewPacket(t, "command")
    BY <2>1, LastChanges
  <2>3. try[t] = 1 BY <2>2 DEF PacketInv, PacketAt, TypeOK
  <2>4. last.tx = transaction - 1 BY <2>2, <2>3 DEF TurnInv, TurnAt
  <2> QED BY <2>2, <2>4 DEF NewPacket, TypeOK, Packet
<1> HIDE DEF A
<1> QED BY <1>1, <1>2, <1>3, <1>4, TypeCorrect, LockInvariant,
           PacketInvariant, PTL DEF Spec, TransactionOrder
-----------------------------------------------------------------------------
(* The end of an intended disconnect.                                      *)

\* Thread t is in ptp_report_error, and has got past the kill switches in the
\* ptp_send of its CloseSession.
Parting(t) ==
  /\ call[t].fn = "ptp_report_error"
  /\ \/ InSend(t) /\ pc[t] # "check2"
     \/ pc[t] \in {"fail_kill", "kill_op"}

\* Where a first attempt is about to be sent, no CloseSession has been.
NotSaidAt(t) ==
  /\ pc[t] = "build" /\ try[t] = 1 => last.fn # "ptp_report_error"
  /\ pc[t] \in {"write", "transfer_out"} /\ try[t] = 1
       /\ data.kind = "command" => last.fn # "ptp_report_error"

\* After the CloseSession its thread is on the way to stop the operations.
GoodbyeInv ==
  /\ last.fn = "ptp_report_error" =>
       operation_kill_switch \/ \E t \in Thread : Parting(t)
  /\ \A t \in Thread : NotSaidAt(t)

\* The thread that said goodbye owns the mutex until operations are stopped.
LEMMA GoodbyeKept ==
  ASSUME TypeOK, LockInv, Absent(Restart), PacketInv, GoodbyeInv,
         NEW t \in Thread, Call(t) \/ Step(t)
  PROVE  GoodbyeInv'
<1>1. operation_kill_switch => operation_kill_switch'
  BY SwitchesStay DEF LockInv
<1>2. PacketAt(t) /\ NotSaidAt(t) BY DEF PacketInv, GoodbyeInv
<1>3. PlacedAt(t) /\ pc[t] # "resize" BY DEF LockInv, Placed, Fits
<1>4. InSend(t) => \A u \in Thread \ {t} : ~InSend(u) /\ ~InOuter(u)
  BY SoleUser DEF LockInv
<1>5. ASSUME NEW u \in Thread \ {t}
      PROVE  NotSaidAt(u)' /\ (Parting(u)' <=> Parting(u))
  <2>1. pc'[u] = pc[u] /\ try'[u] = try[u] /\ call'[u] = call[u]
    BY OthersKeep
  <2>2. CASE InSend(u)
    <3>1. UNCHANGED <<data, last>>
      BY <1>4, <2>2, Untouched DEF LockInv
    <3> QED BY <2>1, <3>1 DEF GoodbyeInv, NotSaidAt, Parting, InSend
  <2>3. CASE ~InSend(u)
    BY <2>1, <2>3 DEF NotSaidAt, InSend, Parting
  <2> QED BY <2>2, <2>3
<1>6. Parting(t) => Parting(t)' \/ operation_kill_switch'
  <2> SUFFICES ASSUME Parting(t)
               PROVE  Parting(t)' \/ operation_kill_switch'
    OBVIOUS
  <2> USE <1>3 DEF Parting, InSend, Goto, At, Return, loc, kill, TypeOK,
                   AfterSend, Failed
  <2>1. CASE SendStep(t)
    BY <2>1 DEF SendStep, Check1, AcquireLock, Check2, Resize, Build,
         BuildData, Write, TransferOut, Read, ReadReply, ReadIgnored,
         ReadError, IgnoredKill, FailUnlock, FailKill, Count, CheckRc,
         ReleaseLock
  <2>2. CASE KillOperations(t) BY <2>2 DEF KillOperations
  <2> QED
    BY <2>1, <2>2
       DEF Step, Call, WrapperStep, OuterLock, OuterUnlock, Parse,
           NextSession, ResetTransaction, ReportStep, Report,
           StopOperations, ReportAgain, KillIo, DeviceStep, CloseIo,
           CloseOperations, CloseHandle, OpenCheck, OpenHandle, OpenIo,
           OpenOperations
<1>7. CASE Check2(t)
  <2>1. UNCHANGED <<data, last, call, try, operation_kill_switch>>
    BY <1>7 DEF Check2, wire, kill, loc
  <2>2. pc[t] = "check2" /\ InSend(t) /\ ~Parting(t)
    BY <1>7 DEF Check2, At, InSend, Parting
  <2>3. ~operation_kill_switch => last.fn # "ptp_report_error"
    <3> SUFFICES ASSUME NEW u \in Thread, Parting(u) PROVE FALSE
      BY DEF GoodbyeInv
    <3>1. u # t BY <2>2
    <3>2. InOuter(u) BY DEF Parting, InOuter, OuterLocked, InSend
    <3> QED BY <1>4, <2>2, <3>1, <3>2
  <2>4. pc'[t] \notin {"write", "transfer_out"}
        /\ (operation_kill_switch => pc'[t] # "build")
    BY <1>7 DEF Check2, Goto, TypeOK
  <2>5. NotSaidAt(t)' BY <2>1, <2>3, <2>4 DEF NotSaidAt
  <2>6. \A u \in Thread : Parting(u) => Parting(u)'
    BY <1>5, <2>2
  <2> QED BY <1>5, <2>1, <2>5, <2>6 DEF GoodbyeInv
<1>8. CASE TransferOut(t) /\ last' # last
  <2>1. /\ pc[t] = "transfer_out" /\ data.kind = "command"
        /\ last' = NewPacket(t, "command")
    BY <1>8, LastChanges
  <2>2. pc'[t] \notin {"build", "write", "transfer_out"}
    BY <1>8 DEF TransferOut, Failed, Goto, TypeOK
  <2>3. last'.fn = call[t].fn BY <2>1 DEF NewPacket
  <2>4. call[t].fn = "ptp_report_error" => Parting(t)
    BY <2>1 DEF Parting, InSend
  <2>5. NotSaidAt(t)' BY <2>2 DEF NotSaidAt
  <2> QED BY <1>5, <1>6, <2>3, <2>4, <2>5 DEF GoodbyeInv
<1>9. CASE ~Check2(t) /\ last' = last
  <2>1. NotSaidAt(t)'
    <3> USE <1>2, <1>3, <1>9
        DEF NotSaidAt, Goto, At, Return, loc, wire, TypeOK
    <3>1. CASE Build(t) \/ BuildData(t)
      BY <3>1 DEF Build, BuildData, NewPacket, PacketAt
    <3>2. CASE ReadIgnored(t) BY <3>2 DEF ReadIgnored
    <3>3. CASE SendStep(t) /\ ~Build(t) /\ ~BuildData(t) /\ ~ReadIgnored(t)
      BY <3>3 DEF SendStep, Check1, AcquireLock, Resize, Write, TransferOut,
                  Read, ReadReply, ReadError, IgnoredKill, FailUnlock,
                  FailKill, Count, CheckRc, ReleaseLock, AfterSend, Failed
    <3>4. CASE ~SendStep(t)
      BY <3>4
         DEF Step, Call, Start, WrapperStep, OuterLock, OuterUnlock, Parse,
             NextSession, ResetTransaction, ReportStep, Report,
             StopOperations, ReportAgain, KillOperations, KillIo, DeviceStep,
             CloseIo, CloseOperations, CloseHandle, OpenCheck, OpenHandle,
             OpenIo, OpenOperations
    <3> QED BY <3>1, <3>2, <3>3, <3>4
  <2> QED BY <1>1, <1>5, <1>6, <1>9, <2>1 DEF GoodbyeInv
<1>10. last' # last => TransferOut(t) BY OnlySent
<1> QED BY <1>7, <1>8, <1>9, <1>10

\* The CloseSession of an intended disconnect is the last command on the
\* wire, however it went.
THEOREM GoodbyeIsLastHolds ==
  ASSUME SmallPayloads, Never(Restart)
  PROVE  Spec => GoodbyeIsLast
<1>1. Init => GoodbyeInv
  BY DEF Init, NoPacket, GoodbyeInv, NotSaidAt
<1>2. TypeOK /\ LockInv /\ Absent(Restart) /\ PacketInv /\ GoodbyeInv
        /\ [Next]_vars => GoodbyeInv'
  <2> SUFFICES ASSUME TypeOK, LockInv, Absent(Restart), PacketInv,
                      GoodbyeInv, [Next]_vars
               PROVE  GoodbyeInv'
    OBVIOUS
  <2>1. CASE UNCHANGED vars
    BY <2>1 DEF vars, kill, wire, loc, GoodbyeInv, NotSaidAt, Parting, InSend
  <2> QED BY <2>1, GoodbyeKept DEF Next, Finished
<1>3. TypeOK /\ PacketInv /\ GoodbyeInv /\ [Next]_vars
        => [last' # last => last.fn # "ptp_report_error"]_last
  <2> SUFFICES ASSUME TypeOK, PacketInv, GoodbyeInv, [Next]_vars,
                      last' # last
               PROVE  last.fn # "ptp_report_error"
    OBVIOUS
  <2>1. PICK t \in Thread : Call(t) \/ Step(t)
    BY DEF Next, Finished, vars, wire
  <2>2. /\ pc[t] = "transfer_out" /\ data.kind = "command"
        /\ last' = NewPacket(t, "command")
    BY <2>1, LastChanges
  <2>3. try[t] = 1 BY <2>2 DEF PacketInv, PacketAt, TypeOK
  <2> QED BY <2>2, <2>3 DEF GoodbyeInv, NotSaidAt
<1> QED BY <1>1, <1>2, <1>3, TypeCorrect, LockInvariant, PacketInvariant,
           PTL DEF Spec, GoodbyeIsLast
-----------------------------------------------------------------------------
(* The refinement.                                                         *)

\* The transaction of the reply, until its return code is read.
AnswerInv ==
  /\ inbox # <<>> => inbox[1].tx = transaction
  /\ \A t \in Thread :
       /\ pc[t] = "count" => data.tx = transaction
       /\ pc[t] = "check_rc" => data.tx = transaction - 1

\* The reply carries the number of the command.
LEMMA AnswerKept ==
  ASSUME "late" \notin Faults, TypeOK, LockInv, Absent(Restart), KillInv,
         ReplyInv, PacketInv, AnswerInv, NEW t \in Thread, Call(t) \/ Step(t)
  PROVE  AnswerInv'
<1>1. InSend(t) => \A u \in Thread \ {t} : ~InSend(u)
  BY SoleUser DEF LockInv
<1>2. \A u \in Thread \ {t} : pc'[u] = pc[u] BY OthersKeep
<1>3. ASSUME ~InSend(t) PROVE AnswerInv'
  <2>1. UNCHANGED <<data, inbox, transaction>>
    BY <1>3, Untouched DEF LockInv
  <2>2. pc'[t] \notin {"count", "check_rc"} BY <1>3, SendStarts
  <2> QED BY <1>2, <2>1, <2>2 DEF AnswerInv
<1>4. ASSUME InSend(t) PROVE AnswerInv'
  <2>1. \A u \in Thread \ {t} : pc'[u] \notin {"count", "check_rc"}
    BY <1>1, <1>2, <1>4 DEF InSend
  <2>2. inbox # <<>> => /\ pc[t] \in {"read", "transfer_in"}
                        /\ Len(inbox) = 1 /\ inbox[1].tx = transaction
    BY <1>1, <1>4 DEF ReplyInv, AnswerInv, InSend
  <2> USE DEF TypeOK, Goto, At, wire, ids
  <2>3. CASE TransferOut(t)
    <3>1. inbox = <<>> BY <2>2, <2>3 DEF TransferOut
    <3>2. data.tx = transaction
      BY <2>3 DEF TransferOut, PacketInv, PacketAt, NewPacket
    <3>3. CASE UNCHANGED inbox
      BY <2>1, <2>3, <3>1, <3>3 DEF TransferOut, AnswerInv, Failed
    <3>4. CASE \E p \in Reply(data) : inbox' = Append(inbox, p)
      <4>1. PICK p \in Reply(data) : inbox' = Append(inbox, p) BY <3>4
      <4>2. p \in Packet /\ p.tx = data.tx BY DEF Reply, Packet
      <4>3. inbox'[1] = p BY <3>1, <4>1, <4>2
      <4> QED
        BY <2>1, <2>3, <3>2, <4>2, <4>3 DEF TransferOut, AnswerInv, Failed
    <3> QED BY <2>3, <3>3, <3>4 DEF TransferOut
  <2>4. CASE ReadReply(t)
    <3>1. inbox' = <<>> BY <2>2, <2>4, TailOfOne DEF ReadReply
    <3>2. data' = inbox[1] BY <2>4 DEF ReadReply
    <3> QED BY <2>1, <2>2, <2>4, <3>1, <3>2 DEF ReadReply, AnswerInv
  <2>5. CASE ReadIgnored(t) \/ ReadError(t)
    <3>1. inbox' \in LeftInbox BY <2>5 DEF ReadIgnored, ReadError
    <3>2. inbox' = <<>> BY <2>2, <3>1, TailOfOne DEF LeftInbox
    <3> QED
      BY <2>1, <2>5, <3>2 DEF ReadIgnored, ReadError, AnswerInv, Failed
  <2>6. CASE Count(t) BY <2>1, <2>2, <2>6 DEF Count, AnswerInv, Packet
  <2>7. CASE CheckRc(t) BY <2>1, <2>2, <2>7 DEF CheckRc, AnswerInv
  <2>8. CASE Write(t) \/ Read(t)
    BY <2>1, <2>2, <2>8 DEF Write, Read, AnswerInv, Failed
  <2>9. CASE Build(t) \/ BuildData(t) \/ Resize(t)
    BY <2>1, <2>2, <2>9
       DEF Build, BuildData, Resize, AnswerInv, LockInv, Fits
  <2>10. CASE /\ SendStep(t) /\ ~TransferOut(t) /\ ~ReadReply(t)
              /\ ~ReadIgnored(t) /\ ~ReadError(t) /\ ~Count(t) /\ ~CheckRc(t)
              /\ ~Write(t) /\ ~Read(t)
              /\ ~(Build(t) \/ BuildData(t) \/ Resize(t))
    BY <2>1, <2>2, <2>10
       DEF SendStep, Check1, AcquireLock, Check2, IgnoredKill, FailUnlock,
           FailKill, ReleaseLock, AfterSend, AnswerInv
  <2>11. SendStep(t) BY <1>4, SendGoesOn
  <2> QED BY <2>3, <2>4, <2>5, <2>6, <2>7, <2>8, <2>9, <2>10, <2>11
<1> QED BY <1>3, <1>4

\* An operation has a result once it is past its ptp_send, not before.
ToldAt(t) ==
  call[t].fn \in Operations =>
    (rc[t] = NoResult
       <=> pc[t] \notin {"idle", "parse", "outer_unlock", "unlock"})

ToldInv == \A t \in Thread : ToldAt(t)

\* What is no operation.
LEMMA NoOperation ==
  {"none", "ptp_report_error", "ptp_device_open", "ptp_device_close"}
    \cap Operations = {}
BY DEF Operations, SendOnly, EosSend, SendData, SendThenParse, LockedParse

\* Every path through an operation gives it its result, once.
LEMMA ToldKept ==
  ASSUME TypeOK, Placed, Fits, ToldInv, NEW t \in Thread, Call(t) \/ Step(t)
  PROVE  ToldInv'
<1>1. \A u \in Thread \ {t} : /\ pc'[u] = pc[u] /\ call'[u] = call[u]
                              /\ rc'[u] = rc[u]
  <2> SUFFICES ASSUME NEW u \in Thread \ {t} PROVE rc'[u] = rc[u]
    BY StepAlone DEF Alone
  <2> QED
    BY DEF TypeOK, Return, Call, Step, SendStep, Check1, AcquireLock, Check2,
           Resize, Build, BuildData, Write, TransferOut, Read, ReadReply,
           ReadIgnored, ReadError, IgnoredKill, FailUnlock, FailKill, Count,
           CheckRc, ReleaseLock, WrapperStep, OuterLock, OuterUnlock, Parse,
           NextSession, ResetTransaction, ReportStep, Report, StopOperations,
           ReportAgain, KillOperations, KillIo, DeviceStep, CloseIo,
           CloseOperations, CloseHandle, OpenCheck, OpenHandle, OpenIo,
           OpenOperations
<1>2. \A u \in Thread \ {t} : ToldAt(u)' BY <1>1 DEF ToldInv, ToldAt
<1>3. ToldAt(t) /\ PlacedAt(t) BY DEF ToldInv, Placed
<1> USE NoOperation
<1> SUFFICES ToldAt(t)' BY <1>2 DEF ToldInv
<1> USE DEF TypeOK, Goto, At, Return, loc, NoResult, ToldAt
<1>4. CASE Call(t)
  <2>1. PICK c \in Calls[t] : call'[t] = c /\ pc'[t] = Start(c.fn)
    BY <1>4 DEF Call
  <2>2. rc'[t] = NoResult BY <1>4 DEF Call
  <2>3. Start(c.fn) \notin {"idle", "parse", "outer_unlock", "unlock"}
    BY DEF Start
  <2> QED BY <2>1, <2>2, <2>3
<1>5. CASE Check1(t) \/ Check2(t) \/ IgnoredKill(t) \/ FailKill(t)
  BY <1>3, <1>5 DEF Check1, Check2, IgnoredKill, FailKill, AfterSend
<1>6. CASE CheckRc(t)
  <2>1. rc'[t] \in Result /\ pc'[t] = "unlock" /\ call' = call
    <3> DEFINE v == CASE data.code = "0xffff" -> "PTP_IO_ERR"
                      [] data.code = "PTP_RC_OK" -> "PTP_OK"
                      [] OTHER -> "PTP_CHECK_CODE"
    <3>1. v \in Result BY Zenon DEF Result
    <3>2. rc' = [rc EXCEPT ![t] = v] BY <1>6, Zenon DEF CheckRc
    <3> HIDE DEF v
    <3> QED BY <1>6, <3>1, <3>2 DEF CheckRc
  <2> QED BY <2>1 DEF Result
<1>7. CASE ReleaseLock(t) \/ Parse(t) \/ OuterLock(t) \/ OuterUnlock(t)
  <2>1. CASE OuterLock(t)
    <3>1. pc'[t] \in {"report_again", "open_check", "check1"}
      <4> DEFINE l == CASE call[t].fn = "ptp_report_error" -> "report_again"
                        [] call[t].fn = "ptp_device_open" -> "open_check"
                        [] OTHER -> "check1"
      <4>1. l \in {"report_again", "open_check", "check1"} BY Zenon
      <4>2. pc' = [pc EXCEPT ![t] = l] BY <2>1, Zenon DEF OuterLock
      <4> HIDE DEF l
      <4> QED BY <4>1, <4>2
    <3>2. pc[t] = "outer_lock" /\ UNCHANGED <<call, rc>>
      BY <2>1 DEF OuterLock
    <3> QED BY <1>3, <3>1, <3>2
  <2>2. CASE ReleaseLock(t) \/ Parse(t) \/ OuterUnlock(t)
    BY <1>3, <2>2 DEF ReleaseLock, Parse, OuterUnlock, AfterSend
  <2> QED BY <1>7, <2>1, <2>2
<1>8. CASE /\ SendStep(t) /\ ~CheckRc(t) /\ ~ReleaseLock(t)
           /\ ~(Check1(t) \/ Check2(t) \/ IgnoredKill(t) \/ FailKill(t))
  BY <1>3, <1>8 DEF SendStep, AcquireLock, Resize, Build, BuildData, Write,
              TransferOut, Read, ReadReply, ReadIgnored, ReadError, FailUnlock,
              Failed, Count, Fits
<1>9. CASE NextSession(t) \/ ResetTransaction(t)
  BY <1>3, <1>9 DEF NextSession, ResetTransaction
<1>10. CASE ReportStep(t)
  BY <1>3, <1>10 DEF ReportStep, Report, StopOperations, ReportAgain,
               KillOperations, KillIo, PlacedAt
<1>11. CASE DeviceStep(t)
  BY <1>3, <1>11 DEF DeviceStep, CloseIo, CloseOperations, CloseHandle,
               OpenCheck, OpenHandle, OpenIo, OpenOperations, PlacedAt
<1> QED BY <1>4, <1>5, <1>6, <1>7, <1>8, <1>9, <1>10, <1>11
        DEF Step, WrapperStep

\* No call opens a session, or closes or opens the device, the payloads fit,
\* and the camera answers no command after the read has given up.
Shared ==
  /\ SmallPayloads /\ Never(Restart \cup {"ptp_device_close"})
  /\ "late" \notin Faults

\* The threads' invariants together.
BusInv == /\ TypeOK /\ LockInv /\ KillInv /\ ReplyInv
          /\ Absent(Restart \cup {"ptp_device_close"})
          /\ PacketInv /\ AnswerInv /\ ToldInv

\* They hold in every reachable state.
LEMMA BusInvariant == ASSUME Shared PROVE Spec => []BusInv
<1> DEFINE A == Absent(Restart \cup {"ptp_device_close"})
<1>1. SmallPayloads /\ Never(Restart) /\ NoDeviceClose /\ "late" \notin Faults
  BY DEF Shared, Never, NoDeviceClose
<1>2. Init => A /\ AnswerInv /\ ToldInv
  <2>1. "none" \notin Operations BY NoOperation
  <2> QED
    BY <2>1 DEF Init, NoCall, Absent, Restart, AnswerInv, ToldInv, ToldAt
<1>3. TypeOK /\ LockInv /\ KillInv /\ ReplyInv /\ PacketInv /\ A /\ AnswerInv
        /\ ToldInv /\ [Next]_vars => (A /\ AnswerInv /\ ToldInv)'
  <2> SUFFICES ASSUME TypeOK, LockInv, KillInv, ReplyInv, PacketInv, A,
                      AnswerInv, ToldInv, [Next]_vars
               PROVE  (A /\ AnswerInv /\ ToldInv)'
    OBVIOUS
  <2>1. ASSUME NEW t \in Thread, Call(t) \/ Step(t) PROVE (A /\ AnswerInv /\ ToldInv)'
    <3>1. A' BY <2>1, AbsentKept DEF Shared
    <3>2. Absent(Restart) BY DEF Absent
    <3> QED BY <1>1, <2>1, <3>1, <3>2, AnswerKept, ToldKept DEF LockInv
  <2>2. CASE UNCHANGED vars
    BY <2>2 DEF vars, ids, wire, loc, Absent, AnswerInv, ToldInv, ToldAt
  <2> QED BY <2>1, <2>2 DEF Next, Finished
<1> HIDE DEF A
<1>4. Spec => [](A /\ AnswerInv /\ ToldInv)
  BY <1>1, <1>2, <1>3, TypeCorrect, LockInvariant, ReplyInvariant,
     PacketInvariant, PTL DEF Spec
<1>5. TypeOK /\ LockInv /\ KillInv /\ ReplyInv /\ PacketInv /\ A /\ AnswerInv
        /\ ToldInv => BusInv
  BY DEF A, BusInv
<1> QED BY <1>1, <1>4, <1>5, TypeCorrect, LockInvariant, ReplyInvariant,
           PacketInvariant, PTL

\* A thread inside ptp_send, or that is to cut I/O, owns the bus.
LEMMA Owns ==
  ASSUME BusInv, NEW t \in Thread, InSend(t) \/ pc[t] = "kill_io"
  PROVE  mutex.owner = t
<1>1. InSend(t) \/ InOuter(t)
  BY DEF BusInv, LockInv, Placed, PlacedAt, InOuter, OuterLocked
<1> QED BY <1>1 DEF BusInv, LockInv, LockBalance, Held

\* What the threads change of the bus: nothing, most of the time.
BusSame == UNCHANGED <<mutex, io_kill_switch, transaction, last, data, calls,
                       call, rc>>

\* Where the threads are in the bus is a function of these.
LEMMA SameReturned ==
  ASSUME UNCHANGED <<call, rc>>
  PROVE  UNCHANGED <<Operating, Returned>>
BY DEF Operating, Returned

\* A result is told if the call is an operation; otherwise nothing changes.
LEMMA ReturnMaps ==
  ASSUME TypeOK, NEW t \in Thread, NEW v, call' = call,
         rc' = [rc EXCEPT ![t] = v]
  PROVE  /\ Operating' = Operating
         /\ Returned' = IF t \in Operating THEN [Returned EXCEPT ![t] = v]
                        ELSE Returned
<1>1. Operating' = Operating BY DEF Operating
<1>2. \A u \in Thread : rc'[u] = IF u = t THEN v ELSE rc[u] BY DEF TypeOK
<1>3. Returned' = [u \in Thread |-> IF u \in Operating THEN rc'[u] ELSE NoResult]
  BY <1>1 DEF Returned
<1>4. CASE t \in Operating
  <2>1. Returned' = [Returned EXCEPT ![t] = v]
    BY <1>2, <1>3, <1>4 DEF Returned
  <2> QED BY <1>1, <1>4, <2>1
<1>5. CASE t \notin Operating
  <2>1. Returned' = Returned BY <1>2, <1>3, <1>5 DEF Returned
  <2> QED BY <1>1, <1>5, <2>1
<1> QED BY <1>4, <1>5

\* A lock takes the bus, or is nested; an unlock frees it, or is nested.
LEMMA LockMaps ==
  ASSUME BusInv, NEW t \in Thread, LockMutex(t) \/ UnlockMutex(t),
         UNCHANGED <<io_kill_switch, transaction, last, data, calls, call, rc>>
  PROVE  [Bus!Next]_Bus!vars
<1> USE SameReturned DEF Bus!call
<1>1. CASE mutex'.owner = mutex.owner BY <1>1 DEF Bus!vars
<1>2. CASE LockMutex(t) /\ mutex'.owner # mutex.owner
  <2>1. Bus!Own(t) BY <1>2 DEF LockMutex, Bus!Own
  <2> QED BY <2>1 DEF Bus!Next
<1>3. CASE UnlockMutex(t) /\ mutex'.owner # mutex.owner
  <2>1. mutex.owner = t /\ mutex'.owner = NoThread
    BY <1>3 DEF UnlockMutex, BusInv, TypeOK
  <2>2. Bus!Release(t) BY <2>1 DEF Bus!Release
  <2> QED BY <2>2 DEF Bus!Next
<1> QED BY <1>1, <1>2, <1>3

\* A call asks.
LEMMA CallMaps ==
  ASSUME BusInv, NEW t \in Thread, Call(t)
  PROVE  [Bus!Next]_Bus!vars
<1>1. PICK c \in Calls[t] : call' = [call EXCEPT ![t] = c] BY DEF Call
<1>2. rc' = [rc EXCEPT ![t] = NoResult] BY DEF Call, Return
<1>3. \A u \in Thread : /\ call'[u] = IF u = t THEN c ELSE call[u]
                        /\ rc'[u] = IF u = t THEN NoResult ELSE rc[u]
  BY <1>1, <1>2 DEF BusInv, TypeOK
<1>4. Operating' \in {Operating \cup {t}, Operating \ {t}}
  BY <1>3 DEF Operating
<1>5. Returned' = [Returned EXCEPT ![t] = NoResult]
  <2>1. \A u \in Thread \ {t} : u \in Operating' <=> u \in Operating
    BY <1>3 DEF Operating
  <2> QED BY <1>3, <2>1 DEF Returned
<1>6. t \in Operating => Returned[t] # NoResult
  BY DEF Call, At, Operating, Returned, BusInv, ToldInv, ToldAt
<1>7. Bus!Nothing = NoResult BY DEF Bus!Nothing, NoResult
<1>8. UNCHANGED <<mutex, io_kill_switch, transaction, last, data>>
      /\ calls' = [calls EXCEPT ![t] = calls[t] + 1]
  BY DEF Call, kill, ids, wire
<1>9. Bus!Ask(t) BY <1>4, <1>5, <1>6, <1>7, <1>8 DEF Bus!Ask
<1> QED BY <1>9 DEF Bus!Next

\* An operation that has no result yet may be told of one.
LEMMA Untold ==
  ASSUME BusInv, NEW t \in Thread, t \in Operating,
         pc[t] \notin {"idle", "parse", "outer_unlock", "unlock"}
  PROVE  Returned[t] = Bus!Nothing
BY DEF BusInv, ToldInv, ToldAt, Operating, Returned, Bus!Nothing, NoResult

\* Each step of ptp_send and ptp_send_data is one of the bus, or none.
LEMMA SendMaps ==
  ASSUME BusInv, NEW t \in Thread, SendStep(t)
  PROVE  [Bus!Next]_Bus!vars
<1> USE DEF Goto, At, Return, kill, ids, wire, loc, Bus!call
<1>1. CASE Check1(t) \/ Check2(t) \/ IgnoredKill(t) \/ FailKill(t)
  <2>1. UNCHANGED <<mutex, io_kill_switch, transaction, last, data, calls,
                    call>>
    BY <1>1 DEF Check1, Check2, IgnoredKill, FailKill
  <2>2. CASE rc' = rc BY <2>1, <2>2, SameReturned DEF Bus!vars
  <2>3. CASE rc' = [rc EXCEPT ![t] = "PTP_IO_ERR"]
    <3>1. pc[t] \notin {"idle", "parse", "outer_unlock", "unlock"}
      BY <1>1 DEF Check1, Check2, IgnoredKill, FailKill
    <3>2. TypeOK BY DEF BusInv
    <3>3. CASE t \in Operating
      <4>1. /\ Operating' = Operating
            /\ Returned' = [Returned EXCEPT ![t] = "PTP_IO_ERR"]
        BY <2>1, <2>3, <3>2, <3>3, ReturnMaps
      <4>2. Bus!Fail(t) BY <2>1, <3>1, <3>3, <4>1, Untold DEF Bus!Fail
      <4> QED BY <4>2 DEF Bus!Next
    <3>4. CASE t \notin Operating
      <4>1. UNCHANGED <<Operating, Returned>>
        BY <2>1, <2>3, <3>2, <3>4, ReturnMaps
      <4> QED BY <2>1, <4>1 DEF Bus!vars
    <3> QED BY <3>3, <3>4
  <2> QED BY <1>1, <2>2, <2>3 DEF Check1, Check2, IgnoredKill, FailKill
<1>2. CASE AcquireLock(t) \/ FailUnlock(t) \/ ReleaseLock(t)
  BY <1>2, LockMaps DEF AcquireLock, FailUnlock, ReleaseLock
<1>3. CASE Resize(t) BY <1>3 DEF Resize, BusInv, LockInv, Fits
<1>4. CASE Build(t) \/ BuildData(t)
  <2>1. mutex.owner = t BY <1>4, Owns DEF Build, BuildData, InSend
  <2>2. data'.kind # "response" BY <1>4 DEF Build, BuildData, NewPacket
  <2>3. Bus!Prepare(t)
    BY <1>4, <2>1, <2>2, SameReturned
       DEF Build, BuildData, Bus!Prepare, Bus!NoAnswer, Bus!NoCommand,
           CommandOf, NoPacket
  <2> QED BY <2>3 DEF Bus!Next
<1>5. CASE TransferOut(t)
  <2>1. mutex.owner = t BY <1>5, Owns DEF TransferOut, InSend
  <2>2. ~io_kill_switch BY <1>5 DEF TransferOut, BusInv, KillInv
  <2>3. CASE last' = last
    <3>1. BusSame BY <1>5, <2>3 DEF TransferOut, BusSame
    <3> QED BY <3>1, SameReturned DEF BusSame, Bus!vars
  <2>4. CASE last' # last
    <3>1. data.kind = "command" /\ last' = data
      BY <1>5, <2>4 DEF TransferOut
    <3>2. data = NewPacket(t, "command")
      BY <1>5, <3>1 DEF TransferOut, BusInv, PacketInv, PacketAt, NewPacket
    <3>3. Bus!Send(t)
      BY <1>5, <2>1, <2>2, <3>1, <3>2, SameReturned
         DEF TransferOut, Bus!Send, Bus!NoAnswer, Bus!NoCommand, CommandOf,
             NoPacket, NewPacket
    <3> QED BY <3>3 DEF Bus!Next
  <2> QED BY <2>3, <2>4
<1>6. CASE Write(t) \/ Read(t) \/ ReadIgnored(t) \/ ReadError(t)
  <2>1. BusSame
    BY <1>6 DEF Write, Read, ReadIgnored, ReadError, BusSame
  <2> QED BY <2>1, SameReturned DEF BusSame, Bus!vars
<1>7. CASE ReadReply(t)
  <2>1. mutex.owner = t BY <1>7, Owns DEF ReadReply, InSend
  <2>2. ~io_kill_switch BY <1>7 DEF ReadReply, BusInv, KillInv
  <2>3. data.kind # "response" /\ last = NewPacket(t, "command")
    BY <1>7 DEF ReadReply, BusInv, PacketInv, PacketAt
  <2>4. ReplyTo(t, inbox[1])
    <3>1. PICK u \in Thread : pc[u] \in {"read", "transfer_in"}
                              /\ ReplyTo(u, inbox[1])
      BY <1>7 DEF ReadReply, BusInv, ReplyInv
    <3>2. u = t
      BY <1>7, <3>1, SoleUser DEF ReadReply, InSend, BusInv, LockInv
    <3> QED BY <3>1, <3>2
  <2>5. data' = inbox[1] /\ inbox[1] \in Packet /\ inbox[1].tx = transaction
    BY <1>7 DEF ReadReply, BusInv, TypeOK, AnswerInv
  <2>6. CommandOf(data') = CommandOf(last) /\ data'.kind = "response"
    BY <2>3, <2>4, <2>5 DEF CommandOf, NewPacket, ReplyTo
  <2>7. data'.code \in Code BY <2>5 DEF Packet
  <2>8. CommandOf(last) = [by |-> t, nth |-> calls[t], tx |-> transaction]
    BY <2>3 DEF CommandOf, NewPacket
  <2>9. Bus!Receive(t)
    BY <1>7, <2>1, <2>2, <2>3, <2>6, <2>7, <2>8, SameReturned
       DEF ReadReply, Bus!Receive, Bus!NoAnswer, Bus!NoCommand, CommandOf,
           NoPacket
  <2> QED BY <2>9 DEF Bus!Next
<1>8. CASE Count(t)
  <2>1. mutex.owner = t BY <1>8, Owns DEF Count, InSend
  <2>2. Answered(t) /\ data.tx = transaction /\ last = NewPacket(t, "command")
    BY <1>8 DEF Count, BusInv, ReplyInv, AnswerInv, PacketInv, PacketAt
  <2>3. Bus!Count(t)
    BY <1>8, <2>1, <2>2, SameReturned
       DEF Count, Bus!Count, CommandOf, NewPacket, Answered, ReplyTo
  <2> QED BY <2>3 DEF Bus!Next
<1>9. CASE CheckRc(t)
  <2>1. mutex.owner = t BY <1>9, Owns DEF CheckRc, InSend
  <2>2. Answered(t) /\ data.tx = transaction - 1
    BY <1>9 DEF CheckRc, BusInv, ReplyInv, AnswerInv
  <2>3. PICK r \in Bus!Told(data.code) : rc' = [rc EXCEPT ![t] = r]
    <3> DEFINE r == CASE data.code = "0xffff" -> "PTP_IO_ERR"
                      [] data.code = "PTP_RC_OK" -> "PTP_OK"
                      [] OTHER -> "PTP_CHECK_CODE"
    <3>1. r \in Bus!Told(data.code)
      BY Zenon DEF Bus!Told
    <3>2. rc' = [rc EXCEPT ![t] = r] BY <1>9, Zenon DEF CheckRc
    <3> HIDE DEF r
    <3> QED BY <3>1, <3>2
  <2>4. UNCHANGED <<mutex, io_kill_switch, transaction, last, data, calls,
                    call>>
    BY <1>9 DEF CheckRc
  <2>5. TypeOK BY DEF BusInv
  <2>6. CASE t \in Operating
    <3>1. /\ Operating' = Operating
          /\ Returned' = [Returned EXCEPT ![t] = r]
      BY <2>3, <2>4, <2>5, <2>6, ReturnMaps
    <3>2. Returned[t] = Bus!Nothing BY <1>9, <2>6, Untold DEF CheckRc
    <3>3. Bus!Tell(t)
      BY <2>1, <2>2, <2>4, <2>6, <3>1, <3>2
         DEF Bus!Tell, CommandOf, Answered, ReplyTo
    <3> QED BY <3>3 DEF Bus!Next
  <2>7. CASE t \notin Operating
    <3>1. UNCHANGED <<Operating, Returned>>
      BY <2>3, <2>4, <2>5, <2>7, ReturnMaps
    <3> QED BY <2>4, <3>1 DEF Bus!vars
  <2> QED BY <2>6, <2>7
<1> QED BY <1>1, <1>2, <1>3, <1>4, <1>5, <1>6, <1>7, <1>8, <1>9 DEF SendStep

\* The wrappers and the disconnect procedure lock, unlock, shut the bus or
\* leave it alone.
LEMMA OtherMaps ==
  ASSUME BusInv, NEW t \in Thread,
         WrapperStep(t) \/ ReportStep(t) \/ DeviceStep(t)
  PROVE  [Bus!Next]_Bus!vars
<1> USE DEF Goto, At, Return, kill, ids, wire, loc
<1>1. CASE OuterLock(t) \/ OuterUnlock(t)
  BY <1>1, LockMaps DEF OuterLock, OuterUnlock
<1>2. CASE KillIo(t)
  <2>1. mutex.owner = t BY <1>2, Owns DEF KillIo
  <2>2. Bus!Shut(t)
    BY <1>2, <2>1, SameReturned DEF KillIo, Bus!Shut, Bus!call
  <2> QED BY <2>2 DEF Bus!Next
<1>3. CASE \/ Parse(t) \/ Report(t) \/ StopOperations(t) \/ ReportAgain(t)
           \/ KillOperations(t)
  <2>1. BusSame
    BY <1>3 DEF Parse, Report, StopOperations, ReportAgain, KillOperations,
                BusSame
  <2> QED BY <2>1, SameReturned DEF BusSame, Bus!vars, Bus!call
<1>4. CASE NextSession(t) \/ ResetTransaction(t) \/ DeviceStep(t)
  BY <1>4
     DEF BusInv, LockInv, Placed, PlacedAt, Absent, Restart, NextSession,
         ResetTransaction, DeviceStep, CloseIo, CloseOperations, CloseHandle,
         OpenCheck, OpenHandle, OpenIo, OpenOperations
<1> QED BY <1>1, <1>2, <1>3, <1>4 DEF WrapperStep, ReportStep

\* PtpRuntime implements OperationBus: commands are numbered in turn, sent
\* and answered under the ownership of the bus, and an operation ends with a
\* result, which is success only after PTP_RC_OK in answer to its own command.
THEOREM RuntimeImplementsBus == ASSUME Shared PROVE Spec => ImplementsBus
<1>1. Init => Bus!Init
  <2> SUFFICES ASSUME Init PROVE Bus!Init OBVIOUS
  <2>1. "none" \notin Operations BY NoOperation
  <2>2. Operating = {} BY <2>1 DEF Init, NoCall, Operating
  <2>3. Returned = [t \in Thread |-> NoResult] BY <2>2 DEF Returned
  <2> QED BY <2>2, <2>3
          DEF Init, Bus!Init, Bus!NoAnswer, Bus!NoCommand, Bus!Nothing,
              CommandOf, NoPacket, NoResult
<1>2. BusInv /\ [Next]_vars => [Bus!Next]_Bus!vars
  <2> SUFFICES ASSUME BusInv, [Next]_vars PROVE [Bus!Next]_Bus!vars
    OBVIOUS
  <2>1. CASE UNCHANGED vars
    BY <2>1, SameReturned DEF vars, kill, ids, wire, loc, Bus!vars, Bus!call
  <2>2. CASE \E t \in Thread : Call(t) \/ Step(t)
    BY <2>2, CallMaps, SendMaps, OtherMaps DEF Step
  <2> QED BY <2>1, <2>2 DEF Next, Finished
<1> QED BY <1>1, <1>2, BusInvariant, PTL DEF Spec, ImplementsBus, Bus!Spec
-----------------------------------------------------------------------------
(* The handle.                                                             *)

\* At most one thread closes and opens the device.
OneCloser ==
  \A t, u \in Thread : \A c \in Calls[t], d \in Calls[u] :
    {c.fn, d.fn} \subseteq {"ptp_device_close", "ptp_device_open"} => t = u

\* Thread t closes or opens the device.
Handles(t) == call[t].fn \in {"ptp_device_close", "ptp_device_open"}

\* Nobody else does meanwhile, I/O is cut while the handle is not open, and
\* open again only with one.
HandleInv ==
  /\ \A t \in Thread : Handles(t) =>
       \E c \in Calls[t] : c.fn \in {"ptp_device_close", "ptp_device_open"}
  /\ \A t \in Thread :
       /\ pc[t] \in {"close_op", "close_handle", "open_handle", "open_io"}
            => io_kill_switch
       /\ pc[t] = "open_io" => handle
  /\ io_kill_switch \/ handle

\* The thread that handles the device is alone in it.
LEMMA HandleKept ==
  ASSUME OneCloser, TypeOK, Placed, HandleInv, NEW t \in Thread,
         Call(t) \/ Step(t)
  PROVE  HandleInv'
<1> DEFINE Mine == {"close_op", "close_handle", "open_handle", "open_io"}
<1>1. \A u \in Thread \ {t} : pc'[u] = pc[u] /\ call'[u] = call[u]
  BY OthersKeep
<1>2. ASSUME NEW u \in Thread, Handles(u)'
      PROVE  \E c \in Calls[u] :
               c.fn \in {"ptp_device_close", "ptp_device_open"}
  <2>1. CASE Handles(u) BY <2>1 DEF HandleInv
  <2>2. CASE ~Handles(u)
    <3>1. Call(t) /\ u = t BY <1>1, <1>2, <2>2, CallsKept DEF Handles
    <3>2. PICK c \in Calls[t] : call' = [call EXCEPT ![t] = c]
      BY <3>1 DEF Call
    <3> QED BY <1>2, <3>1, <3>2 DEF Handles, TypeOK
  <2> QED BY <2>1, <2>2
<1>3. ASSUME NEW u \in Thread \ {t}, Handles(t), pc[u] \in Mine
      PROVE  FALSE
  <2>1. Handles(u) BY <1>3 DEF Handles, Placed, PlacedAt
  <2> QED BY <1>3, <2>1 DEF HandleInv, OneCloser
<1>4. CASE Call(t)
  <2>1. pc'[t] \notin Mine BY <1>4 DEF Call, Start, Goto, TypeOK
  <2> QED BY <1>1, <1>2, <1>4, <2>1 DEF Call, HandleInv, kill, wire
<1>5. CASE SendStep(t) \/ WrapperStep(t) \/ ReportStep(t)
  <2>1. UNCHANGED handle /\ (io_kill_switch => io_kill_switch')
    BY <1>5
       DEF wire, kill, SendStep, Check1, AcquireLock, Check2, Resize, Build,
           BuildData, Write, TransferOut, Read, ReadReply, ReadIgnored,
           ReadError, IgnoredKill, FailUnlock, FailKill, Count, CheckRc,
           ReleaseLock, WrapperStep, OuterLock, OuterUnlock, Parse,
           NextSession, ResetTransaction, ReportStep, Report, StopOperations,
           ReportAgain, KillOperations, KillIo
  <2>2. pc'[t] \notin Mine
    BY <1>5
       DEF Goto, TypeOK, AfterSend, Failed, SendStep, Check1, AcquireLock,
           Check2, Resize, Build, BuildData, Write, TransferOut, Read,
           ReadReply, ReadIgnored, ReadError, IgnoredKill, FailUnlock,
           FailKill, Count, CheckRc, ReleaseLock, WrapperStep, OuterLock,
           OuterUnlock, Parse, NextSession, ResetTransaction, ReportStep,
           Report, StopOperations, ReportAgain, KillOperations, KillIo
  <2> QED BY <1>1, <1>2, <2>1, <2>2 DEF HandleInv
<1>6. CASE DeviceStep(t)
  <2>1. Handles(t)
    BY <1>6
       DEF Handles, Placed, PlacedAt, At, DeviceStep, CloseIo,
           CloseOperations, CloseHandle, OpenCheck, OpenHandle, OpenIo,
           OpenOperations
  <2>2. /\ pc'[t] \in Mine => io_kill_switch'
        /\ pc'[t] = "open_io" => handle'
        /\ io_kill_switch' \/ handle'
    BY <1>6
       DEF HandleInv, At, Goto, TypeOK, kill, wire, DeviceStep, CloseIo,
           CloseOperations, CloseHandle, OpenCheck, OpenHandle, OpenIo,
           OpenOperations
  <2> QED BY <1>1, <1>2, <1>3, <2>1, <2>2 DEF HandleInv
<1> QED BY <1>4, <1>5, <1>6 DEF Step

\* A runtime whose I/O is not cut has an open handle, through close and
\* reopen and whatever the payloads, as long as one thread does the closing
\* and opening.
THEOREM ConnectedHasHandleHolds ==
  ASSUME OneCloser
  PROVE  Spec => []ConnectedHasHandle
<1>1. Init => Placed /\ HandleInv
  BY DEF Init, NoCall, Placed, PlacedAt, InSend, HandleInv, Handles
<1>2. TypeOK /\ Placed /\ HandleInv /\ [Next]_vars => (Placed /\ HandleInv)'
  <2> SUFFICES ASSUME TypeOK, Placed, HandleInv, [Next]_vars
               PROVE  (Placed /\ HandleInv)'
    OBVIOUS
  <2>1. ASSUME NEW t \in Thread, Call(t) \/ Step(t)
        PROVE  (Placed /\ HandleInv)'
    BY <2>1, PlacedKept, HandleKept
  <2>2. CASE UNCHANGED vars
    BY <2>2 DEF vars, kill, wire, loc, Placed, PlacedAt, InSend, HandleInv,
                Handles
  <2> QED BY <2>1, <2>2 DEF Next, Finished
<1>3. HandleInv => ConnectedHasHandle BY DEF HandleInv, ConnectedHasHandle
<1> QED BY <1>1, <1>2, <1>3, TypeCorrect, PTL DEF Spec
=============================================================================
