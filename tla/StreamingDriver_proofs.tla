------------------------ MODULE StreamingDriver_proofs ------------------------
(***************************************************************************)
(* Proofs about StreamingDriver for any number of controllers, commanders  *)
(* and update threads.                                                     *)
(***************************************************************************)
EXTENDS StreamingDriver, Connection_proofs, FiniteSetTheorems

(***************************************************************************)
(* A thread that is making a request makes one that fits it: the update    *)
(* thread asks for the output rate and for command 40 only, and nobody is  *)
(* at a lock or a context that its request does not use.                   *)
(***************************************************************************)
Fits(t) ==
  pc[t] \in ExchangePoint =>
    /\ op[t] \in IF t \in Updater THEN {"rate", "start"} ELSE Op
    /\ pc[t] = "x_lock" => UsesCmdLock(op[t])
    /\ pc[t] = "x_enter" => UsesContext(op[t])

RequestsFit == \A t \in Thread : Fits(t)

\* What streaming_off() has achieved by the time it is at a given statement.
OffProgress ==
  \A t \in Controller :
    /\ pc[t] \in {"off_flag", "off_join", "off_close"} => ~autoReconnect
    /\ pc[t] \in {"off_join", "off_close"} => ~isStreaming
    /\ pc[t] = "off_close" /\ updateThread # NoThread => ~Alive(updateThread)

DriverInv ==
  /\ TypeOK /\ FlagHonest /\ ShutIsHeld
  /\ LocksHeld /\ RequestsFit /\ OffProgress /\ StreamingIsServed

-----------------------------------------------------------------------------
(***************************************************************************)
(* The connection: every step of the driver is an operation of it, a       *)
(* request on the wire, an answer read from it, or none of these.          *)
(***************************************************************************)
LEMMA RequestKeepsConnection ==
  ASSUME ConnInv, NEW t \in Thread, Request(t)
  PROVE  ConnInv'
<1> USE ConnStepKeeps DEF ConnStep
<1>1. CASE AcquireCmdLock(t)
  BY <1>1 DEF AcquireCmdLock
<1>2. CASE EnterContext(t)
  BY <1>2 DEF EnterContext
<1>3. CASE SendRequest(t)
  <2>1. CASE isOpen /\ Send(IF sensor = "up" THEN "ok" ELSE "error")
    BY <2>1, SendKeeps, ThreadAssumption
  <2>2. CASE UNCHANGED connVars
    BY <2>2
  <2> QED
    BY <1>3, <2>1, <2>2 DEF SendRequest
<1>4. CASE CallReceive(t)
  BY <1>4 DEF CallReceive
<1>5. CASE GetAnswer(t)
  <2>1. ASSUME NEW a \in Answer, ReceiveAnswer(t, a)
        PROVE  ConnInv'
    BY <2>1, AnswerKeeps
  <2> QED
    BY <1>5, <2>1 DEF GetAnswer
<1>6. CASE ReceiveError(t)
  BY <1>6 DEF ReceiveError
<1>7. CASE ReceiveGivesUp(t)
  BY <1>7 DEF ReceiveGivesUp
<1>8. CASE FinishRequest(t)
  BY <1>8 DEF FinishRequest
<1>9. CASE LeavingContext(t)
  BY <1>9 DEF LeavingContext
<1> QED
  BY <1>1, <1>2, <1>3, <1>4, <1>5, <1>6, <1>7, <1>8, <1>9 DEF Request

LEMMA NextKeepsConnection ==
  ASSUME ConnInv, [Next]_vars
  PROVE  ConnInv'
<1> USE DEF ConnStep
<1>1. CASE Environment
  BY <1>1, SensorKeeps DEF Environment, ConnEnvironment
<1>2. ASSUME NEW t \in Thread, Request(t)
      PROVE  ConnInv'
  BY <1>2, RequestKeepsConnection
<1>3. ASSUME NEW t \in Thread, Open(t)
      PROVE  ConnInv'
  BY <1>3, ConnStepKeeps DEF Open, OpenEnter, OpenFails, CallEnds, OpenSucceeds, OpenMarks
<1>4. ASSUME NEW t \in Commander, CallCommand(t)
      PROVE  ConnInv'
  BY <1>4, SensorKeeps DEF CallCommand
<1>5. ASSUME NEW t \in Controller, Control(t)
      PROVE  ConnInv'
  <2>1. t \in Thread
    BY ThreadAssumption DEF Caller
  <2> QED
    BY <1>5, <2>1, ConnStepKeeps
       DEF Control, CallStreamingOn, SayStreaming, SetAutoReconnect, StartUpdateThread,
          StreamOpens, StreamNotYetOpen, StreamTimesOut, AbortStreaming, AbortReconnect,
          CloseAndReturn, CallEnds, CallStreamingOff, StopStreaming, JoinUpdateThread
<1>6. ASSUME NEW u \in Updater, Update(u)
      PROVE  ConnInv'
  <2>1. u \in Thread
    BY ThreadAssumption
  <2> QED
    BY <1>6, <2>1, ConnStepKeeps
       DEF Update, EnterStream, ReadPackets, LoseConnection, CloseConnection, RetryOrStop,
           GiveUpStreaming, LeaveLoop, ExitStream, VerifyOpen, LockReconnect, ReconnectRefused,
           ReconnectRaises, ReconnectSucceeds
<1>7. CASE UNCHANGED vars
  BY <1>7, SensorKeeps DEF vars
<1> QED
  BY <1>1, <1>2, <1>3, <1>4, <1>5, <1>6, <1>7 DEF Next

-----------------------------------------------------------------------------
(***************************************************************************)
(* The types.  ConnTypeOK is in the lemmas above; here are the variables   *)
(* of the driver.                                                          *)
(***************************************************************************)
DriverTypes ==
  /\ isStreaming \in BOOLEAN
  /\ autoReconnect \in BOOLEAN
  /\ updateThread \in Updater \cup {NoThread}
  /\ cmdLock \in Thread \cup {NoThread}
  /\ streamLock \in Controller \cup {NoThread}
  /\ streamCount \in Nat
  /\ lost \in [Updater -> BOOLEAN]
  /\ udp \in BOOLEAN
  /\ crowded \in BOOLEAN

ThreadTypes ==
  /\ pc \in [Thread -> CallerPoint \cup UpdaterPoint]
  /\ \A t \in Thread : pc[t] \in IF t \in Updater THEN UpdaterPoint ELSE CallerPoint
  /\ op \in [Thread -> Op \cup {"none"}]
  /\ reply \in [Thread -> Reply \cup {"none"}]

LEMMA TypeParts == TypeOK <=> ConnTypeOK /\ DriverTypes /\ ThreadTypes
  BY DEF TypeOK, DriverTypes, ThreadTypes

LEMMA Kinds ==
  /\ Controller \subseteq Thread
  /\ Commander \subseteq Thread
  /\ Updater \subseteq Thread
  /\ \A t \in Thread : t # NoThread /\ (t \in Caller <=> t \notin Updater)
  BY ThreadAssumption DEF Caller

\* The control points of a request and of open() are common to all threads.
LEMMA CommonPoints ==
  /\ ExchangePoint \cup OpenPoint \subseteq CallerPoint
  /\ ExchangePoint \cup OpenPoint \subseteq UpdaterPoint
  BY DEF CallerPoint, UpdaterPoint

\* A thread that goes to a point of its kind keeps the types of the points.
LEMMA GotoKeepsTypes ==
  ASSUME ThreadTypes, NEW t \in Thread,
         NEW p \in IF t \in Updater THEN UpdaterPoint ELSE CallerPoint,
         pc' = [pc EXCEPT ![t] = p],
         op' \in [Thread -> Op \cup {"none"}],
         reply' \in [Thread -> Reply \cup {"none"}]
  PROVE  ThreadTypes'
  BY DEF ThreadTypes

LEMMA RequestPoints ==
  /\ \A o \in Op : FirstPoint(o) \in ExchangePoint
  /\ "x_exit" \in ExchangePoint
  BY DEF FirstPoint, ExchangePoint

LEMMA AskKeepsTypes ==
  ASSUME ThreadTypes, NEW t \in Thread, NEW o \in Op, NEW from, Ask(t, from, o)
  PROVE  ThreadTypes'
<1>1. FirstPoint(o) \in IF t \in Updater THEN UpdaterPoint ELSE CallerPoint
  BY RequestPoints, CommonPoints
<1> QED
  BY <1>1, GotoKeepsTypes DEF Ask, Goto, ThreadTypes

LEMMA AnsweredKeepsTypes ==
  ASSUME ThreadTypes, NEW t \in Thread, NEW r \in Reply, NEW from, Answered(t, from, r)
  PROVE  ThreadTypes'
<1>1. "x_exit" \in IF t \in Updater THEN UpdaterPoint ELSE CallerPoint
  BY RequestPoints, CommonPoints
<1> QED
  BY <1>1, GotoKeepsTypes DEF Answered, Goto, ThreadTypes

(***************************************************************************)
(* Where a thread goes after a request, by its kind.                       *)
(***************************************************************************)
LEMMA NextPoints ==
  ASSUME ThreadTypes, RequestsFit, NEW t \in Thread, pc[t] = "x_exit"
  PROVE  /\ NextOp(t) \in Op \cup {"none"}
         /\ NextPoint(t) \in IF t \in Updater THEN UpdaterPoint ELSE CallerPoint
<1>1. NextOp(t) \in Op \cup {"none"}
  BY DEF NextOp, Op
<1>2. CASE NextOp(t) # "none"
  BY <1>1, <1>2, RequestPoints, CommonPoints DEF NextPoint
<1>3. CASE NextOp(t) = "none" /\ t \in Updater
  BY <1>3 DEF NextPoint, AfterReconnectRequest, UpdaterPoint, ReconnectPoint
<1>4. CASE NextOp(t) = "none" /\ t \notin Updater
  BY <1>4 DEF NextPoint, AfterCallerRequest, CallerPoint, OnPoint, OffPoint
<1> QED
  BY <1>1, <1>2, <1>3, <1>4

LEMMA RequestKeepsTypes ==
  ASSUME TypeOK, RequestsFit, NEW t \in Thread, Request(t)
  PROVE  DriverTypes' /\ ThreadTypes'
<1> USE TypeParts, Kinds
<1>0. /\ "x_enter" \in ExchangePoint /\ "x_send" \in ExchangePoint
      /\ "x_recv" \in ExchangePoint /\ "x_wait" \in ExchangePoint
  BY DEF ExchangePoint
<1>p. \A p \in ExchangePoint : p \in IF t \in Updater THEN UpdaterPoint ELSE CallerPoint
  BY CommonPoints
<1>r. "unsent" \in Reply /\ "empty" \in Reply
  BY DEF Reply
<1>1. CASE AcquireCmdLock(t)
  BY <1>0, <1>p, <1>1, GotoKeepsTypes DEF AcquireCmdLock, Goto, DriverTypes, ThreadTypes
<1>2. CASE EnterContext(t)
  BY <1>0, <1>p, <1>2, GotoKeepsTypes
     DEF EnterContext, Goto, DriverTypes, ThreadTypes, driverVars
<1>3. CASE SendRequest(t)
  <2>1. CASE Goto(t, "x_send", "x_recv") /\ udp' = UdpAfter(op[t]) /\ UNCHANGED
               <<op, reply, isStreaming, autoReconnect, updateThread, cmdLock,
                 streamLock, streamCount, lost, crowded>>
    BY <1>0, <1>p, <2>1, GotoKeepsTypes DEF Goto, DriverTypes, ThreadTypes, UdpAfter
  <2>2. CASE Answered(t, "x_send", "unsent") /\ UNCHANGED driverVars
    BY <1>r, <2>2, AnsweredKeepsTypes DEF DriverTypes, driverVars
  <2> QED
    BY <1>3, <2>1, <2>2 DEF SendRequest
<1>4. CASE CallReceive(t)
  <2>0. DriverTypes'
    BY <1>4 DEF CallReceive, DriverTypes, driverVars
  <2>1. CASE Goto(t, "x_recv", "x_wait") /\ UNCHANGED <<op, reply>>
    BY <1>0, <1>p, <2>0, <2>1, GotoKeepsTypes DEF Goto, ThreadTypes
  <2>2. CASE Answered(t, "x_recv", "empty")
    BY <1>r, <2>0, <2>2, AnsweredKeepsTypes
  <2> QED
    BY <1>4, <2>1, <2>2 DEF CallReceive
<1>5. CASE GetAnswer(t)
  <2>0. DriverTypes'
    BY <1>5 DEF GetAnswer, DriverTypes, driverVars
  <2>1. ASSUME NEW a \in Answer, Answered(t, "x_wait", a)
        PROVE  ThreadTypes'
    <3>1. a \in Reply
      BY ThreadAssumption DEF Reply
    <3> QED
      BY <2>1, <3>1, AnsweredKeepsTypes
  <2>2. CASE Answered(t, "x_wait", "empty")
    BY <1>r, <2>0, <2>2, AnsweredKeepsTypes
  <2> QED
    BY <1>5, <2>0, <2>1, <2>2 DEF GetAnswer
<1>6. CASE ReceiveError(t)
  BY <1>6 DEF ReceiveError, DriverTypes, ThreadTypes, driverVars, threadVars
<1>7. CASE ReceiveGivesUp(t)
  BY <1>r, <1>7, AnsweredKeepsTypes DEF ReceiveGivesUp, DriverTypes, driverVars
<1>8. CASE FinishRequest(t)
  <2>1. /\ pc[t] = "x_exit" /\ pc' = [pc EXCEPT ![t] = NextPoint(t)]
        /\ op' = [op EXCEPT ![t] = NextOp(t)] /\ reply' = [reply EXCEPT ![t] = "none"]
    BY <1>8 DEF FinishRequest, Goto
  <2>2. ThreadTypes'
    BY <2>1, NextPoints, GotoKeepsTypes DEF ThreadTypes
  <2>3. DriverTypes'
    BY <1>8 DEF FinishRequest, ReleaseStreamLock, CallEnds, DriverTypes
  <2> QED
    BY <2>2, <2>3
<1>9. CASE LeavingContext(t)
  BY <1>9 DEF LeavingContext, DriverTypes, ThreadTypes, driverVars, threadVars
<1> QED
  BY <1>1, <1>2, <1>3, <1>4, <1>5, <1>6, <1>7, <1>8, <1>9 DEF Request

LEMMA OpenKeepsTypes ==
  ASSUME TypeOK, NEW t \in Thread, Open(t)
  PROVE  DriverTypes' /\ ThreadTypes'
<1> USE TypeParts
<1>1. /\ "open_check" \in OpenPoint /\ "open_mark" \in OpenPoint
      /\ "upd_loop" \in UpdaterPoint /\ "rc_verify" \in UpdaterPoint
      /\ "idle" \in CallerPoint /\ "on_start" \in CallerPoint
  BY DEF OpenPoint, UpdaterPoint, UpdatePoint, ReconnectPoint, CallerPoint, OnPoint
<1>2. ThreadTypes'
  BY <1>1, CommonPoints, GotoKeepsTypes
     DEF Open, OpenEnter, OpenFails, CallEnds, OpenSucceeds, OpenMarks, Goto, ThreadTypes
<1>3. DriverTypes'
  BY DEF Open, OpenEnter, OpenFails, CallEnds, OpenSucceeds, OpenMarks, DriverTypes, driverVars
<1> QED
  BY <1>2, <1>3

LEMMA ControlKeepsTypes ==
  ASSUME TypeOK, NEW t \in Controller, Control(t)
  PROVE  DriverTypes' /\ ThreadTypes'
<1> USE TypeParts
<1>0. t \in Thread /\ t \notin Updater
  BY ThreadAssumption DEF Caller
<1>1. OnPoint \subseteq CallerPoint /\ OffPoint \subseteq CallerPoint /\ "idle" \in CallerPoint
      /\ "open_enter" \in CallerPoint
  BY DEF CallerPoint, OpenPoint
<1>2. "name" \in Op /\ "stop" \in Op
  BY DEF Op
<1>3. DriverTypes'
  BY <1>0, ThreadAssumption
     DEF Control, CallStreamingOn, SayStreaming, SetAutoReconnect, StartUpdateThread,
        StreamOpens, StreamNotYetOpen, StreamTimesOut, AbortStreaming, AbortReconnect,
        CloseAndReturn, CallEnds, CallStreamingOff, StopStreaming, JoinUpdateThread,
        DriverTypes, driverVars
<1>4. CASE StartUpdateThread(t)
  <2>1. PICK u \in Updater : pc' = [pc EXCEPT ![t] = "on_wait", ![u] = "upd_enter"]
    BY <1>4 DEF StartUpdateThread
  <2>2. "on_wait" \in CallerPoint /\ "upd_enter" \in UpdaterPoint
    BY DEF CallerPoint, OnPoint, UpdaterPoint, UpdatePoint
  <2>3. UNCHANGED <<op, reply>>
    BY <1>4 DEF StartUpdateThread
  <2> QED
    BY <1>0, <1>3, <2>1, <2>2, <2>3 DEF ThreadTypes
<1>5. CASE StreamOpens(t) \/ CallStreamingOff(t)
  BY <1>0, <1>2, <1>3, <1>5, AskKeepsTypes DEF StreamOpens, CallStreamingOff
<1>6. CASE \/ CallStreamingOn(t) \/ SayStreaming(t) \/ SetAutoReconnect(t)
           \/ StreamNotYetOpen(t) \/ StreamTimesOut(t) \/ AbortStreaming(t) \/ AbortReconnect(t) \/ CloseAndReturn(t)
           \/ StopStreaming(t) \/ JoinUpdateThread(t)
  <2>1. UNCHANGED <<op, reply>>
    BY <1>6 DEF CallStreamingOn, SayStreaming, SetAutoReconnect, StreamNotYetOpen,
       StreamTimesOut, AbortStreaming, AbortReconnect, CloseAndReturn, CallEnds, StopStreaming,
       JoinUpdateThread
  <2>2. \E p \in CallerPoint : pc' = [pc EXCEPT ![t] = p]
    BY <1>1, <1>6 DEF CallStreamingOn, SayStreaming, SetAutoReconnect, StreamNotYetOpen,
       StreamTimesOut, AbortStreaming, AbortReconnect, CloseAndReturn, CallEnds, StopStreaming,
       JoinUpdateThread, Goto, OnPoint, OffPoint
  <2> QED
    BY <1>0, <1>3, <2>1, <2>2, GotoKeepsTypes DEF ThreadTypes
<1> QED
  BY <1>4, <1>5, <1>6 DEF Control

LEMMA UpdateKeepsTypes ==
  ASSUME TypeOK, NEW u \in Updater, Update(u)
  PROVE  DriverTypes' /\ ThreadTypes'
<1> USE TypeParts
<1>0. u \in Thread
  BY Kinds
<1>1. UpdatePoint \subseteq UpdaterPoint /\ ReconnectPoint \subseteq UpdaterPoint
      /\ "dead" \in UpdaterPoint /\ "open_enter" \in UpdaterPoint
  BY DEF UpdaterPoint, OpenPoint
<1>2. DriverTypes'
  <2> USE DEF DriverTypes, driverVars
  <2>1. CASE EnterStream(u)
    BY <2>1 DEF EnterStream
  <2>2. CASE ReadPackets(u) \/ LoseConnection(u)
    BY <2>2 DEF ReadPackets, LoseConnection
  <2>3. CASE CloseConnection(u) \/ LeaveLoop(u) \/ VerifyOpen(u)
    BY <2>3 DEF CloseConnection, GiveUpStreaming, LeaveLoop, VerifyOpen
  <2>4. CASE RetryOrStop(u) \/ GiveUpStreaming(u)
    BY <2>4 DEF RetryOrStop, GiveUpStreaming
  <2>5. CASE ExitStream(u)
    BY <2>5 DEF ExitStream
  <2>6. CASE LockReconnect(u)
    BY <1>0, <2>6 DEF LockReconnect
  <2>7. CASE ReconnectRefused(u) \/ ReconnectRaises(u) \/ ReconnectSucceeds(u)
    BY <2>7 DEF ReconnectRefused, ReconnectRaises, ReconnectSucceeds
  <2> QED
    BY <2>1, <2>2, <2>3, <2>4, <2>5, <2>6, <2>7 DEF Update
<1>3. CASE LockReconnect(u)
  <2>1. "rate" \in Op
    BY DEF Op
  <2> QED
    BY <1>0, <1>2, <1>3, <2>1, AskKeepsTypes DEF LockReconnect
<1>4. CASE ReadPackets(u)
  BY <1>2, <1>4 DEF ReadPackets, threadVars, ThreadTypes
<1>5. CASE \/ EnterStream(u) \/ LoseConnection(u) \/ CloseConnection(u) \/ RetryOrStop(u)
           \/ GiveUpStreaming(u) \/ LeaveLoop(u) \/ ExitStream(u) \/ VerifyOpen(u) \/ ReconnectRefused(u)
           \/ ReconnectRaises(u) \/ ReconnectSucceeds(u)
  <2>1. UNCHANGED <<op, reply>>
    BY <1>5 DEF EnterStream, LoseConnection, CloseConnection, RetryOrStop, GiveUpStreaming,
       LeaveLoop, ExitStream, VerifyOpen, ReconnectRefused, ReconnectRaises, ReconnectSucceeds
  <2>2. \E p \in UpdaterPoint : pc' = [pc EXCEPT ![u] = p]
    BY <1>1, <1>5 DEF EnterStream, LoseConnection, CloseConnection, RetryOrStop,
       GiveUpStreaming, LeaveLoop, ExitStream, VerifyOpen, ReconnectRefused, ReconnectRaises,
       ReconnectSucceeds, Goto, UpdatePoint, ReconnectPoint
  <2> QED
    BY <1>0, <1>2, <2>1, <2>2, GotoKeepsTypes DEF ThreadTypes
<1> QED
  BY <1>3, <1>4, <1>5 DEF Update

-----------------------------------------------------------------------------
(***************************************************************************)
(* The locks.  A step of one thread leaves the points and requests of the  *)
(* others alone, and a lock changes hands only from or to that thread; so  *)
(* it is enough to look at that thread.                                    *)
(***************************************************************************)
Alone(t) == \A v \in Thread \ {t} : pc'[v] = pc[v] /\ op'[v] = op[v]

HandsOver(t) ==
  /\ cmdLock' = cmdLock \/ (cmdLock \in {t, NoThread} /\ cmdLock' \in {t, NoThread})
  /\ streamLock' = streamLock \/ (streamLock \in {t, NoThread} /\ streamLock' \in {t, NoThread})

Holds(t) == (UnderCmdLock(t) <=> cmdLock = t) /\ (UnderStreamLock(t) <=> streamLock = t)

Local(t) == Alone(t) /\ HandsOver(t) /\ Holds(t)' /\ Fits(t)'

LEMMA LocalKeepsLocks ==
  ASSUME LocksHeld, RequestsFit, NEW t \in Thread, Local(t)
  PROVE  LocksHeld' /\ RequestsFit'
<1> USE DEF Local
<1>1. ASSUME NEW v \in Thread, v # t
      PROVE  Holds(v)' /\ Fits(v)'
  <2>1. pc'[v] = pc[v] /\ op'[v] = op[v]
    BY <1>1 DEF Alone
  <2>2. (cmdLock' = v <=> cmdLock = v) /\ (streamLock' = v <=> streamLock = v)
    BY <1>1, Kinds DEF HandsOver
  <2>3. Fits(v) /\ Holds(v)
    BY DEF RequestsFit, LocksHeld, Holds
  <2>4. Fits(v)'
    BY <2>1, <2>3 DEF Fits
  <2>5. Holds(v)'
    BY <2>1, <2>2, <2>3 DEF Holds, UnderCmdLock, UnderStreamLock
  <2> QED
    BY <2>4, <2>5
<1> QED
  BY <1>1 DEF LocksHeld, RequestsFit, Holds

\* A thread that stays, or moves between points of the same standing, keeps its locks.
LEMMA GotoIsLocal ==
  ASSUME TypeOK, LocksHeld, RequestsFit, NEW t \in Thread, NEW p,
         pc' = [pc EXCEPT ![t] = p], UNCHANGED <<op, cmdLock, streamLock>>,
         UnderCmdLock(t)' <=> UnderCmdLock(t),
         UnderStreamLock(t)' <=> UnderStreamLock(t),
         Fits(t)'
  PROVE  Local(t)
<1>1. Alone(t) /\ HandsOver(t)
  BY DEF Alone, HandsOver, TypeOK
<1>2. Holds(t)'
  BY DEF Holds, LocksHeld
<1> QED
  BY <1>1, <1>2 DEF Local

LEMMA RequestIsLocal ==
  ASSUME TypeOK, LocksHeld, RequestsFit, NEW t \in Thread, Request(t)
  PROVE  Local(t)
<1> USE DEF TypeOK, ExchangePoint
<1>0. Fits(t) /\ Holds(t)
  BY DEF RequestsFit, LocksHeld, Holds
<1>1. CASE AcquireCmdLock(t)
  <2>1. pc[t] = "x_lock" /\ pc'[t] = "x_enter" /\ op'[t] = op[t] /\ UsesCmdLock(op[t])
    BY <1>0, <1>1 DEF AcquireCmdLock, Goto, Fits
  <2>2. Alone(t) /\ HandsOver(t)
    BY <1>1 DEF AcquireCmdLock, Goto, Alone, HandsOver
  <2>3. Fits(t)'
    BY <1>0, <2>1 DEF Fits, UsesCmdLock, UsesContext
  <2>4. (UnderCmdLock(t) <=> cmdLock = t)'
    BY <1>1, <2>1 DEF AcquireCmdLock, UnderCmdLock
  <2>5. (UnderStreamLock(t) <=> streamLock = t)'
    BY <1>0, <1>1, <2>1 DEF AcquireCmdLock, UnderStreamLock, Holds, OpenPoint, OnPoint, OffPoint
  <2> QED
    BY <2>2, <2>3, <2>4, <2>5 DEF Local, Holds
<1>2. CASE /\ pc[t] \in {"x_enter", "x_send", "x_recv", "x_wait"}
           /\ \E p \in {"x_send", "x_recv", "x_wait", "x_exit"} : pc' = [pc EXCEPT ![t] = p]
           /\ UNCHANGED <<op, cmdLock, streamLock>>
  <2>1. Fits(t)'
    BY <1>0, <1>2 DEF Fits
  <2>2. UnderCmdLock(t)' <=> UnderCmdLock(t)
    BY <1>2 DEF UnderCmdLock
  <2>3. UnderStreamLock(t)' <=> UnderStreamLock(t)
    BY <1>2 DEF UnderStreamLock, OpenPoint, OnPoint, OffPoint
  <2> QED
    BY <1>2, <2>1, <2>2, <2>3, GotoIsLocal
<1>3. CASE EnterContext(t)
  BY <1>2, <1>3 DEF EnterContext, Goto, driverVars
<1>4. CASE SendRequest(t)
  BY <1>2, <1>4 DEF SendRequest, Answered, Goto, driverVars
<1>5. CASE CallReceive(t)
  BY <1>2, <1>5 DEF CallReceive, Answered, Goto, driverVars
<1>6. CASE GetAnswer(t)
  BY <1>2, <1>6 DEF GetAnswer, Answered, Goto, driverVars
<1>7. CASE ReceiveError(t)
  BY <1>0, <1>7 DEF ReceiveError, driverVars, threadVars, Local, Alone, HandsOver, Holds, Fits,
       UnderCmdLock, UnderStreamLock
<1>8. CASE ReceiveGivesUp(t)
  BY <1>2, <1>8 DEF ReceiveGivesUp, Answered, Goto, driverVars
<1>9. CASE FinishRequest(t)
  <2>1. /\ pc[t] = "x_exit" /\ pc'[t] = NextPoint(t) /\ op'[t] = NextOp(t)
        /\ cmdLock' = IF UsesCmdLock(op[t]) THEN NoThread ELSE cmdLock
        /\ streamLock' = IF streamLock = t /\ NextPoint(t) = "idle" THEN NoThread ELSE streamLock
        /\ Alone(t)
    BY <1>9 DEF FinishRequest, Goto, ReleaseStreamLock, CallEnds, Alone
  <2>2. UsesCmdLock(op[t]) => cmdLock = t
    BY <1>0, <2>1 DEF Holds, UnderCmdLock
  <2>3. HandsOver(t)
    BY <2>1, <2>2 DEF HandsOver
  <2>4. CASE t \in Updater
    <3>1. op[t] \in {"rate", "start"} /\ cmdLock = t /\ streamLock # t
      BY <1>0, <2>1, <2>4, Kinds DEF Fits, Holds, UnderCmdLock, UnderStreamLock
    <3>2. \/ pc'[t] = "x_send" /\ op'[t] = "start"
          \/ pc'[t] \in {"rc_done", "rc_unlock", "rc_refused"}
      BY <2>1, <2>4, <3>1 DEF NextPoint, NextOp, AfterReconnectRequest, FirstPoint, UsesCmdLock,
           UsesContext
    <3>3. cmdLock' = t /\ streamLock' # t
      BY <2>1, <3>1 DEF UsesCmdLock
    <3>4. Fits(t)'
      BY <2>4, <3>2 DEF Fits, UsesCmdLock, UsesContext
    <3>5. Holds(t)'
      BY <2>4, <3>2, <3>3, Kinds DEF Holds, UnderCmdLock, UnderStreamLock
    <3> QED
      BY <2>1, <2>3, <3>4, <3>5 DEF Local
  <2>5. CASE t \notin Updater
    <3>1. op[t] \in Op /\ t \in Caller
      BY <1>0, <2>1, <2>5, Kinds DEF Fits
    <3>2. cmdLock = t <=> UsesCmdLock(op[t])
      BY <1>0, <2>1, <2>5 DEF Holds, UnderCmdLock
    <3>3. cmdLock' # t
      BY <2>1, <3>2, Kinds
    <3>4. streamLock = t <=> op[t] \in {"name", "hwid", "rate", "start", "stop"}
      BY <1>0, <2>1, <3>1 DEF Holds, UnderStreamLock, OpenPoint, OnPoint, OffPoint
    <3>5. \/ /\ op[t] = "name" /\ op'[t] = "hwid" /\ pc'[t] = "x_lock"
          \/ /\ op[t] = "hwid" /\ op'[t] = "rate" /\ pc'[t] = "x_enter"
          \/ /\ op[t] = "rate" /\ op'[t] = "start" /\ pc'[t] = "x_send"
          \/ /\ op[t] = "rate" /\ pc'[t] = "on_abort"
          \/ /\ op[t] = "stop" /\ pc'[t] = "off_auto"
          \/ /\ op[t] \in {"start", "stop", "get", "set", "run"} /\ pc'[t] = "idle"
      BY <2>1, <2>5, <3>1 DEF NextPoint, NextOp, AfterCallerRequest, FirstPoint, UsesCmdLock,
           UsesContext, Op
    <3>6. Fits(t)'
      BY <2>5, <3>5 DEF Fits, UsesCmdLock, UsesContext, Op
    <3>7. (UnderCmdLock(t) <=> cmdLock = t)'
      BY <2>5, <3>3, <3>5 DEF UnderCmdLock, UsesCmdLock
    <3>8. (UnderStreamLock(t) <=> streamLock = t)'
      BY <2>1, <3>1, <3>4, <3>5, Kinds DEF UnderStreamLock, OpenPoint, OnPoint, OffPoint
    <3> QED
      BY <2>1, <2>3, <3>6, <3>7, <3>8 DEF Local, Holds
  <2> QED
    BY <2>4, <2>5
<1>10. CASE LeavingContext(t)
  BY <1>0, <1>10 DEF LeavingContext, driverVars, threadVars, Local, Alone, HandsOver, Holds, Fits,
       UnderCmdLock, UnderStreamLock
<1> QED
  BY <1>1, <1>3, <1>4, <1>5, <1>6, <1>7, <1>8, <1>9, <1>10 DEF Request

\* Every point of a caller inside streaming_on or streaming_off is under
\* _streaming_lock; none of an update thread is.
LEMMA StreamLockPoints ==
  ASSUME NEW t \in Caller, LocksHeld, pc[t] \in OpenPoint \cup OnPoint \cup OffPoint
  PROVE  streamLock = t /\ cmdLock # t
<1>1. t \in Thread /\ t \notin Updater
  BY ThreadAssumption
<1> QED
  BY <1>1 DEF LocksHeld, UnderStreamLock, UnderCmdLock, OpenPoint, OnPoint, OffPoint,
     ExchangePoint

LEMMA OpenIsLocal ==
  ASSUME TypeOK, LocksHeld, RequestsFit, NEW t \in Thread, Open(t)
  PROVE  Local(t)
<1> USE DEF TypeOK
<1>1. /\ pc[t] \in OpenPoint /\ Alone(t)
      /\ op' = op /\ cmdLock' = cmdLock
  BY DEF Open, OpenEnter, OpenFails, CallEnds, OpenSucceeds, OpenMarks, Goto, OpenPoint, Alone,
     driverVars
<1>2. pc'[t] \notin ExchangePoint
  BY DEF Open, OpenEnter, OpenFails, CallEnds, OpenSucceeds, OpenMarks, Goto, ExchangePoint
<1>3. Fits(t)'
  BY <1>2 DEF Fits
<1>4. ~UnderCmdLock(t) /\ ~UnderCmdLock(t)'
  BY DEF Open, OpenEnter, OpenFails, CallEnds, OpenSucceeds, OpenMarks, Goto, UnderCmdLock,
     ExchangePoint
<1>5. CASE t \in Updater
  <2>1. ~UnderStreamLock(t) /\ ~UnderStreamLock(t)'
    BY <1>5, Kinds DEF UnderStreamLock
  <2>2. streamLock' = streamLock
    BY <1>5 DEF Open, OpenEnter, OpenFails, CallEnds, OpenSucceeds, OpenMarks, driverVars
  <2> QED
    BY <1>1, <1>3, <1>4, <2>1, <2>2 DEF Local, HandsOver, Holds, LocksHeld
<1>6. CASE t \notin Updater
  <2>1. t \in Caller /\ streamLock = t /\ cmdLock # t
    BY <1>1, <1>6, Kinds, StreamLockPoints
  <2>2. (UnderStreamLock(t) <=> streamLock = t)' /\ streamLock' \in {t, NoThread}
    BY <1>6, <2>1, Kinds DEF Open, OpenEnter, OpenFails, CallEnds, OpenSucceeds, OpenMarks, Goto,
         UnderStreamLock, OpenPoint, OnPoint, OffPoint, ExchangePoint, driverVars
  <2> QED
    BY <1>1, <1>3, <1>4, <2>1, <2>2 DEF Local, HandsOver, Holds
<1> QED
  BY <1>5, <1>6

LEMMA CommandIsLocal ==
  ASSUME TypeOK, LocksHeld, RequestsFit, NEW t \in Commander, CallCommand(t)
  PROVE  Local(t)
<1>1. t \in Thread /\ t \in Caller /\ t \notin Updater
  BY ThreadAssumption DEF Caller
<1>2. PICK o \in {"get", "set", "run"} : Ask(t, "idle", o)
  BY ThreadAssumption DEF CallCommand
<1>3. /\ pc[t] = "idle" /\ pc'[t] = FirstPoint(o) /\ op'[t] = o
      /\ Alone(t) /\ HandsOver(t) /\ cmdLock' = cmdLock /\ streamLock' = streamLock
  BY <1>1, <1>2 DEF CallCommand, Ask, Goto, TypeOK, Alone, HandsOver, driverVars
<1>4. ~UnderCmdLock(t) /\ ~UnderStreamLock(t)
  BY <1>3 DEF UnderCmdLock, UnderStreamLock, ExchangePoint, OpenPoint, OnPoint, OffPoint
<1>5. ~UnderCmdLock(t)' /\ ~UnderStreamLock(t)' /\ Fits(t)'
  BY <1>1, <1>3 DEF UnderCmdLock, UnderStreamLock, ExchangePoint, OpenPoint, OnPoint, OffPoint,
       Fits, FirstPoint, UsesCmdLock, UsesContext, Op
<1> QED
  BY <1>1, <1>3, <1>4, <1>5 DEF Local, Holds, LocksHeld

LEMMA ControlKeepsLocks ==
  ASSUME TypeOK, LocksHeld, RequestsFit, NEW t \in Controller, Control(t)
  PROVE  LocksHeld' /\ RequestsFit'
<1> USE DEF TypeOK
<1>0. t \in Thread /\ t \in Caller /\ t \notin Updater
  BY ThreadAssumption DEF Caller
<1>k. UnderCmdLock(t) <=> cmdLock = t
  BY <1>0 DEF LocksHeld
<1> SUFFICES ASSUME ~StartUpdateThread(t)
             PROVE  Local(t)
  <2> SUFFICES ASSUME StartUpdateThread(t)
               PROVE  LocksHeld' /\ RequestsFit'
    BY <1>0, LocalKeepsLocks
  <2>1. PICK u \in Updater : ~Alive(u) /\ pc' = [pc EXCEPT ![t] = "on_wait", ![u] = "upd_enter"]
    BY DEF StartUpdateThread
  <2>2. UNCHANGED <<op, cmdLock, streamLock>> /\ pc[t] = "on_thread"
    BY DEF StartUpdateThread
  <2>3. pc'[t] = "on_wait" /\ \A v \in Thread \ {t, u} : pc'[v] = pc[v]
    BY <1>0, <2>1
  <2>4. pc[u] = "dead" /\ pc'[u] = "upd_enter" /\ u \in Thread
    BY <1>0, <2>1, Kinds DEF Alive
  <2>5. ASSUME NEW v \in Thread
        PROVE  /\ UnderCmdLock(v)' <=> UnderCmdLock(v)
               /\ UnderStreamLock(v)' <=> UnderStreamLock(v)
               /\ Fits(v)'
    BY <1>0, <2>2, <2>3, <2>4, Kinds DEF UnderCmdLock, UnderStreamLock, Fits, RequestsFit,
         ExchangePoint, OpenPoint, OnPoint, OffPoint
  <2> QED
    BY <2>2, <2>5 DEF LocksHeld, RequestsFit
<1>1. Alone(t)
  BY DEF Control, CallStreamingOn, SayStreaming, SetAutoReconnect, StreamOpens,
     StreamNotYetOpen, StreamTimesOut, AbortStreaming, AbortReconnect, CloseAndReturn, CallEnds,
     CallStreamingOff, StopStreaming, JoinUpdateThread, Ask, Goto, Alone, driverVars
<1>2. cmdLock' = cmdLock
  BY DEF Control, CallStreamingOn, SayStreaming, SetAutoReconnect, StreamOpens,
     StreamNotYetOpen, StreamTimesOut, AbortStreaming, AbortReconnect, CloseAndReturn, CallEnds,
     CallStreamingOff, StopStreaming, JoinUpdateThread, driverVars
<1>3. CASE CallStreamingOn(t)
  <2>1. /\ pc[t] = "idle" /\ pc'[t] = "open_enter" /\ streamLock = NoThread /\ streamLock' = t
    BY <1>0, <1>3 DEF CallStreamingOn, Goto
  <2> QED
    BY <1>0, <1>1, <1>2, <1>k, <2>1 DEF Local, HandsOver, Holds, UnderCmdLock, UnderStreamLock,
       Fits, ExchangePoint, OpenPoint
<1>4. CASE CallStreamingOff(t)
  <2>1. /\ pc[t] = "idle" /\ pc'[t] = "x_send" /\ op'[t] = "stop"
        /\ streamLock = NoThread /\ streamLock' = t
    BY <1>0, <1>4 DEF CallStreamingOff, Ask, Goto, FirstPoint, UsesCmdLock, UsesContext
  <2> QED
    BY <1>0, <1>1, <1>2, <1>k, <2>1 DEF Local, HandsOver, Holds, UnderCmdLock, UnderStreamLock,
       Fits, ExchangePoint, UsesCmdLock, Op
<1>5. CASE StreamOpens(t)
  <2>1. /\ pc[t] \in OnPoint /\ pc'[t] = "x_lock" /\ op'[t] = "name" /\ streamLock' = streamLock
    BY <1>0, <1>5 DEF StreamOpens, Ask, Goto, FirstPoint, UsesCmdLock, OnPoint, driverVars
  <2>2. streamLock = t /\ cmdLock # t
    BY <1>0, <2>1, StreamLockPoints
  <2> QED
    BY <1>0, <1>1, <1>2, <2>1, <2>2 DEF Local, HandsOver, Holds, UnderCmdLock, UnderStreamLock,
       Fits, ExchangePoint, UsesCmdLock, Op
<1>6. CASE \/ SayStreaming(t) \/ SetAutoReconnect(t) \/ StreamNotYetOpen(t)
           \/ StreamTimesOut(t) \/ AbortStreaming(t) \/ AbortReconnect(t) \/ CloseAndReturn(t)
            \/ StopStreaming(t) \/ JoinUpdateThread(t)
  <2>1. /\ pc[t] \in OnPoint \cup OffPoint
        /\ \/ pc'[t] \in OnPoint \cup OffPoint /\ streamLock' = streamLock
           \/ pc'[t] = "idle" /\ streamLock' = NoThread
    BY <1>0, <1>6 DEF SayStreaming, SetAutoReconnect, StreamNotYetOpen, StreamTimesOut,
       AbortStreaming, AbortReconnect, CloseAndReturn, CallEnds, StopStreaming,
       JoinUpdateThread, Goto, OnPoint, OffPoint, driverVars
  <2>2. streamLock = t /\ cmdLock # t
    BY <1>0, <2>1, StreamLockPoints
  <2>3. pc'[t] \notin ExchangePoint \cup {"rc_refused", "rc_unlock", "rc_done"}
    BY <2>1 DEF ExchangePoint, OnPoint, OffPoint
  <2>4. pc'[t] = "idle" => pc'[t] \notin OpenPoint \cup OnPoint \cup OffPoint
    BY DEF OpenPoint, OnPoint, OffPoint
  <2> QED
    BY <1>0, <1>1, <1>2, <2>1, <2>2, <2>3, <2>4, Kinds
       DEF Local, HandsOver, Holds, UnderCmdLock, UnderStreamLock, Fits
<1> QED
  BY <1>3, <1>4, <1>5, <1>6 DEF Control

LEMMA UpdateIsLocal ==
  ASSUME TypeOK, LocksHeld, RequestsFit, NEW u \in Updater, Update(u)
  PROVE  Local(u)
<1> USE DEF TypeOK
<1>0. u \in Thread /\ u \notin Caller /\ u # NoThread
  BY Kinds
<1>1. ~UnderStreamLock(u) /\ ~UnderStreamLock(u)' /\ streamLock # u
  BY <1>0 DEF UnderStreamLock, LocksHeld
<1>2. UnderCmdLock(u) <=> cmdLock = u
  BY <1>0 DEF LocksHeld
<1>3. /\ Alone(u)
      /\ streamLock' = streamLock
  BY <1>0 DEF Update, EnterStream, ReadPackets, LoseConnection, CloseConnection, RetryOrStop,
     GiveUpStreaming, LeaveLoop, ExitStream, VerifyOpen, LockReconnect, ReconnectRefused,
     ReconnectRaises, ReconnectSucceeds, Ask, Goto, Alone, driverVars, threadVars
<1>4. CASE ReadPackets(u)
  BY <1>0, <1>1, <1>2, <1>3, <1>4 DEF ReadPackets, threadVars, Local, HandsOver, Holds,
       UnderCmdLock, Fits, RequestsFit
<1>5. CASE LockReconnect(u)
  <2>1. /\ cmdLock = NoThread /\ cmdLock' = u /\ pc'[u] = "x_enter" /\ op'[u] = "rate"
    BY <1>0, <1>5 DEF LockReconnect, Ask, Goto, FirstPoint, UsesCmdLock, UsesContext
  <2> QED
    BY <1>0, <1>1, <1>3, <2>1 DEF Local, HandsOver, Holds, UnderCmdLock, Fits, ExchangePoint,
         UsesContext
<1>6. CASE ReconnectRefused(u) \/ ReconnectRaises(u) \/ ReconnectSucceeds(u)
  <2>1. /\ pc[u] \in {"rc_refused", "rc_unlock", "rc_done"}
        /\ pc'[u] \in {"upd_loop", "rc_drop"} /\ cmdLock' = NoThread
    BY <1>0, <1>6 DEF ReconnectRefused, ReconnectRaises, ReconnectSucceeds, Goto
  <2>2. cmdLock = u
    BY <1>2, <2>1 DEF UnderCmdLock
  <2> QED
    BY <1>0, <1>1, <1>3, <2>1, <2>2 DEF Local, HandsOver, Holds, UnderCmdLock, Fits, ExchangePoint
<1>7. CASE \/ EnterStream(u) \/ LoseConnection(u) \/ CloseConnection(u) \/ RetryOrStop(u)
           \/ GiveUpStreaming(u) \/ LeaveLoop(u) \/ ExitStream(u) \/ VerifyOpen(u)
  <2>1. /\ ~UnderCmdLock(u) /\ ~UnderCmdLock(u)' /\ Fits(u)' /\ cmdLock' = cmdLock
    BY <1>0, <1>7 DEF EnterStream, LoseConnection, CloseConnection, RetryOrStop,
       GiveUpStreaming, LeaveLoop, ExitStream, VerifyOpen, Goto, UnderCmdLock, Fits,
       ExchangePoint, driverVars
  <2> QED
    BY <1>0, <1>1, <1>2, <1>3, <2>1 DEF Local, HandsOver, Holds
<1> QED
  BY <1>4, <1>5, <1>6, <1>7 DEF Update

-----------------------------------------------------------------------------
(***************************************************************************)
(* Streaming begins in three statements of streaming_on() only.  No other *)
(* step sets a flag, replaces the update thread or revives one, moves a    *)
(* controller that is between those statements, or takes a thread out of   *)
(* its loop while is_streaming is set.                                     *)
(***************************************************************************)
Loud(c) == SayStreaming(c) \/ SetAutoReconnect(c) \/ StartUpdateThread(c)
Saying == {"on_auto", "on_thread"}

Quiet ==
  /\ autoReconnect' => autoReconnect
  /\ isStreaming' => isStreaming
  /\ updateThread' = updateThread
  /\ \A c \in Controller : pc[c] \in Saying => pc'[c] = pc[c]
  /\ \A u \in Updater :
       /\ pc[u] = "dead" => pc'[u] = "dead"
       /\ isStreaming /\ pc[u] \notin {"dead", "upd_exit"} => pc'[u] \notin {"dead", "upd_exit"}

LEMMA RequestIsQuiet ==
  ASSUME TypeOK, RequestsFit, NEW t \in Thread, Request(t)
  PROVE  Quiet
<1>1. UNCHANGED <<isStreaming, autoReconnect, updateThread>>
  BY DEF Request, AcquireCmdLock, EnterContext, SendRequest, CallReceive, GetAnswer, ReceiveError,
         ReceiveGivesUp, LeavingContext, FinishRequest, driverVars
<1>2. pc[t] \in ExchangePoint /\ \A u \in Thread \ {t} : pc'[u] = pc[u]
  BY DEF Request, AcquireCmdLock, EnterContext, SendRequest, CallReceive, GetAnswer,
     ReceiveError, ReceiveGivesUp, LeavingContext, FinishRequest, Answered, Goto, TypeOK,
     ExchangePoint, threadVars
<1>3. CASE FinishRequest(t) /\ t \in Updater
  <2>1. pc'[t] = NextPoint(t) /\ op[t] \in {"rate", "start"}
    BY <1>2, <1>3 DEF FinishRequest, Goto, TypeOK, RequestsFit, Fits
  <2>2. pc'[t] \notin {"dead", "upd_exit"}
    BY <1>3, <2>1 DEF NextPoint, NextOp, FirstPoint, AfterReconnectRequest, UsesCmdLock,
       UsesContext
  <2> QED
    BY <1>1, <1>2, <2>2, Kinds DEF Quiet, ExchangePoint, Saying
<1>4. CASE ~FinishRequest(t)
  <2>1. pc'[t] \in ExchangePoint
    BY <1>2, <1>4 DEF Request, AcquireCmdLock, EnterContext, SendRequest, CallReceive,
       GetAnswer, ReceiveError, ReceiveGivesUp, LeavingContext, Answered, Goto, TypeOK,
       ExchangePoint, threadVars
  <2> QED
    BY <1>1, <1>2, <2>1, Kinds DEF Quiet, ExchangePoint, Saying
<1>5. CASE t \notin Updater
  BY <1>1, <1>2, <1>5, Kinds DEF Quiet, ExchangePoint, Saying
<1> QED
  BY <1>3, <1>4, <1>5

LEMMA OpenIsQuiet ==
  ASSUME TypeOK, NEW t \in Thread, Open(t)
  PROVE  Quiet
<1>a. UNCHANGED <<autoReconnect, updateThread>>
  BY DEF Open, OpenEnter, OpenFails, CallEnds, OpenSucceeds, OpenMarks, driverVars
<1>b. isStreaming' = isStreaming \/ isStreaming' = (isStreaming /\ t \in Updater)
  BY DEF Open, OpenEnter, OpenFails, CallEnds, OpenSucceeds, OpenMarks, driverVars
<1>c. isStreaming' => isStreaming
  <2>1. CASE isStreaming' = isStreaming
    BY <2>1
  <2>2. CASE isStreaming' # isStreaming
    BY <1>b, <2>2
  <2> QED
    BY <2>1, <2>2
<1>1. autoReconnect' = autoReconnect /\ updateThread' = updateThread /\ (isStreaming' => isStreaming)
  BY <1>a, <1>c
<1>2. /\ pc[t] \in OpenPoint /\ \A u \in Thread \ {t} : pc'[u] = pc[u]
      /\ pc'[t] \notin {"dead", "upd_exit"}
  BY DEF Open, OpenEnter, OpenFails, CallEnds, OpenSucceeds, OpenMarks, Goto, OpenPoint, TypeOK
<1> QED
  BY <1>1, <1>2, Kinds DEF Quiet, OpenPoint, Saying

LEMMA UpdateIsQuiet ==
  ASSUME TypeOK, NEW t \in Updater, Update(t)
  PROVE  Quiet
<1>0. t \in Thread
  BY Kinds
<1>a. UNCHANGED <<autoReconnect, updateThread>>
  BY DEF Update, EnterStream, ReadPackets, LoseConnection, CloseConnection, RetryOrStop,
     GiveUpStreaming, LeaveLoop, ExitStream, VerifyOpen, LockReconnect, ReconnectRefused,
     ReconnectRaises, ReconnectSucceeds, driverVars
<1>b. isStreaming' = isStreaming \/ isStreaming' = FALSE
  BY DEF Update, EnterStream, ReadPackets, LoseConnection, CloseConnection, RetryOrStop,
     GiveUpStreaming, LeaveLoop, ExitStream, VerifyOpen, LockReconnect, ReconnectRefused,
     ReconnectRaises, ReconnectSucceeds, driverVars
<1>c. isStreaming' => isStreaming
  <2>1. CASE isStreaming' = isStreaming
    BY <2>1
  <2>2. CASE isStreaming' # isStreaming
    BY <1>b, <2>2
  <2> QED
    BY <2>1, <2>2
<1>1. autoReconnect' = autoReconnect /\ updateThread' = updateThread /\ (isStreaming' => isStreaming)
  BY <1>a, <1>c
<1>2. pc[t] # "dead" /\ \A u \in Thread \ {t} : pc'[u] = pc[u]
  BY <1>0 DEF Update, EnterStream, ReadPackets, LoseConnection, CloseConnection, RetryOrStop,
     GiveUpStreaming, LeaveLoop, ExitStream, VerifyOpen, LockReconnect, ReconnectRefused,
     ReconnectRaises, ReconnectSucceeds, Ask, Goto, TypeOK, threadVars
<1>3. isStreaming /\ pc[t] # "upd_exit" => pc'[t] \notin {"dead", "upd_exit"}
  BY <1>0, <1>2 DEF Update, EnterStream, ReadPackets, LoseConnection, CloseConnection,
     RetryOrStop, GiveUpStreaming, LeaveLoop, ExitStream, VerifyOpen, LockReconnect,
     ReconnectRefused, ReconnectRaises, ReconnectSucceeds, Ask, Goto, FirstPoint, UsesCmdLock,
     UsesContext, TypeOK, threadVars, Continues
<1>4. \A c \in Controller : c \in Thread /\ c # t
  BY <1>0, Kinds DEF Caller
<1>5. \A u \in Updater : u \in Thread
  BY Kinds
<1> QED
  BY <1>1, <1>2, <1>3, <1>4, <1>5 DEF Quiet

LEMMA OnlyStartIsLoud ==
  ASSUME TypeOK, RequestsFit, [Next]_vars, \A c \in Controller : ~Loud(c)
  PROVE  Quiet
<1>1. ASSUME NEW c \in Controller, Control(c)
      PROVE  Quiet
  <2>1. c \in Thread /\ c \notin Updater
    BY ThreadAssumption DEF Caller
  <2>2. (\A u \in Thread \ {c} : pc'[u] = pc[u]) /\ pc[c] \notin Saying
    BY <1>1, <2>1 DEF Loud, Saying, Control, CallStreamingOn, StreamOpens, StreamNotYetOpen,
       StreamTimesOut, AbortStreaming, AbortReconnect, CloseAndReturn, CallEnds,
       CallStreamingOff, StopStreaming, JoinUpdateThread, Ask, Goto, TypeOK
  <2>3. updateThread' = updateThread
    BY <1>1 DEF Loud, Control, CallStreamingOn, StreamOpens, StreamNotYetOpen, StreamTimesOut,
       AbortStreaming, AbortReconnect, CloseAndReturn, CallStreamingOff, StopStreaming,
       JoinUpdateThread, driverVars
  <2>4. autoReconnect' = autoReconnect \/ ~autoReconnect'
    BY <1>1 DEF Loud, Control, CallStreamingOn, StreamOpens, StreamNotYetOpen, StreamTimesOut,
       AbortStreaming, AbortReconnect, CloseAndReturn, CallStreamingOff, StopStreaming,
       JoinUpdateThread, driverVars
  <2>5. isStreaming' = isStreaming \/ ~isStreaming'
    BY <1>1 DEF Loud, Control, CallStreamingOn, StreamOpens, StreamNotYetOpen, StreamTimesOut,
       AbortStreaming, AbortReconnect, CloseAndReturn, CallStreamingOff, StopStreaming,
       JoinUpdateThread, driverVars
  <2> QED
    BY <2>1, <2>2, <2>3, <2>4, <2>5, Kinds DEF Quiet
<1>2. ASSUME NEW c \in Commander, CallCommand(c)
      PROVE  Quiet
  <2>1. c \in Thread /\ c \notin Updater
    BY ThreadAssumption DEF Caller
  <2> QED
    BY <1>2, <2>1, Kinds DEF CallCommand, Ask, Goto, driverVars, Quiet, Saying, TypeOK
<1>3. CASE Environment \/ UNCHANGED vars
  <2>1. UNCHANGED <<isStreaming, autoReconnect, updateThread, pc>>
    BY <1>3 DEF Environment, vars, threadVars, driverVars
  <2> QED
    BY <2>1 DEF Quiet
<1> QED
  BY <1>1, <1>2, <1>3, RequestIsQuiet, OpenIsQuiet, UpdateIsQuiet DEF Next

-----------------------------------------------------------------------------
(***************************************************************************)
(* streaming_off().  Nobody else moves a controller, and at these points   *)
(* nothing but the statements of streaming_off does.                       *)
(***************************************************************************)
OffLate == {"off_flag", "off_join", "off_close"}

LEMMA OffMoves ==
  ASSUME TypeOK, LocksHeld, RequestsFit, [Next]_vars, NEW t \in Controller,
         pc'[t] # pc[t], pc[t] \in OffLate \/ pc'[t] \in OffLate
  PROVE  AbortReconnect(t) \/ StopStreaming(t) \/ JoinUpdateThread(t) \/ CloseAndReturn(t)
<1>0. t \in Thread /\ t \in Caller /\ t \notin Updater
  BY ThreadAssumption DEF Caller
<1>1. ASSUME NEW v \in Thread, Local(v)
      PROVE  v = t
  BY <1>0, <1>1 DEF Local, Alone
<1>2. ~Environment /\ ~UNCHANGED vars
  BY DEF Environment, vars, threadVars
<1>3. ~Request(t)
  <2> SUFFICES ASSUME Request(t)
               PROVE  FALSE
    OBVIOUS
  <2>1. pc[t] \in ExchangePoint
    BY DEF Request, AcquireCmdLock, EnterContext, SendRequest, CallReceive, GetAnswer,
       ReceiveError, ReceiveGivesUp, LeavingContext, FinishRequest, Answered, Goto,
       ExchangePoint
  <2>2. pc'[t] \in ExchangePoint \cup {"on_abort", "off_auto", "idle"}
    <3>1. CASE FinishRequest(t)
      <4>1. op[t] \in Op /\ pc'[t] = NextPoint(t)
        BY <1>0, <2>1, <3>1 DEF FinishRequest, Goto, TypeOK, RequestsFit, Fits
      <4> QED
        BY <1>0, <4>1 DEF NextPoint, NextOp, FirstPoint, AfterCallerRequest, UsesCmdLock,
             UsesContext, ExchangePoint
    <3>2. CASE ~FinishRequest(t)
      BY <1>0, <3>2 DEF Request, AcquireCmdLock, EnterContext, SendRequest, CallReceive,
         GetAnswer, ReceiveError, ReceiveGivesUp, LeavingContext, Answered, Goto, TypeOK,
         ExchangePoint, threadVars
    <3> QED
      BY <3>1, <3>2
  <2> QED
    BY <2>1, <2>2 DEF OffLate, ExchangePoint
<1>4. ~Open(t)
  BY <1>0 DEF Open, OpenEnter, OpenFails, CallEnds, OpenSucceeds, OpenMarks, Goto, TypeOK, OffLate
<1>5. ~CallCommand(t)
  BY <1>0, ThreadAssumption DEF CallCommand, Ask, Goto, TypeOK, OffLate, FirstPoint, UsesCmdLock,
       UsesContext
<1>6. ASSUME NEW u \in Updater
      PROVE  ~Update(u)
  BY <1>0, <1>1, UpdateIsLocal, Kinds
<1>7. PICK c \in Controller : Control(c)
  BY <1>1, <1>2, <1>3, <1>4, <1>5, <1>6, RequestIsLocal, OpenIsLocal, CommandIsLocal, Kinds
     DEF Next
<1>8. c = t
  <2>1. c \in Thread
    BY Kinds
  <2> QED
    BY <1>0, <1>7, <2>1 DEF Control, CallStreamingOn, SayStreaming, SetAutoReconnect,
       StartUpdateThread, StreamOpens, StreamNotYetOpen, StreamTimesOut, AbortStreaming,
       AbortReconnect, CloseAndReturn, CallEnds, CallStreamingOff, StopStreaming,
       JoinUpdateThread, Ask, Goto, TypeOK
<1>9. /\ ~CallStreamingOn(t) /\ ~SayStreaming(t) /\ ~SetAutoReconnect(t)
      /\ ~StartUpdateThread(t) /\ ~StreamOpens(t) /\ ~StreamNotYetOpen(t)
      /\ ~StreamTimesOut(t) /\ ~AbortStreaming(t) /\ ~CallStreamingOff(t)
  BY <1>0 DEF CallStreamingOn, SayStreaming, SetAutoReconnect, StartUpdateThread, StreamOpens,
     StreamNotYetOpen, StreamTimesOut, AbortStreaming, CallStreamingOff, Ask, Goto, TypeOK,
     OffLate, FirstPoint, UsesCmdLock, UsesContext
<1> QED
  BY <1>7, <1>8, <1>9 DEF Control

\* While a controller is at one of these points no other is starting the stream.
LEMMA OffExcludesOn ==
  ASSUME LocksHeld, NEW t \in Controller, pc[t] \in OffLate, NEW c \in Controller
  PROVE  ~Loud(c)
<1>1. t \in Caller /\ c \in Caller
  BY DEF Caller
<1>2. streamLock = t
  BY <1>1, StreamLockPoints DEF OffLate, OffPoint
<1> SUFFICES ASSUME Loud(c)
             PROVE  FALSE
  OBVIOUS
<1>3. pc[c] \in {"on_start", "on_auto", "on_thread"} /\ streamLock = c
  BY <1>1, StreamLockPoints DEF Loud, SayStreaming, SetAutoReconnect, StartUpdateThread, Goto,
     OnPoint
<1> QED
  BY <1>2, <1>3 DEF OffLate

LEMMA OffProgressKept ==
  ASSUME TypeOK, LocksHeld, RequestsFit, OffProgress, [Next]_vars
  PROVE  OffProgress'
<1> SUFFICES ASSUME NEW t \in Controller, pc'[t] \in OffLate
             PROVE  /\ ~autoReconnect'
                    /\ pc'[t] \in {"off_join", "off_close"} => ~isStreaming'
                    /\ pc'[t] = "off_close" /\ updateThread' # NoThread => pc'[updateThread'] = "dead"
  BY DEF OffProgress, OffLate, Alive
<1>0. t \in Thread
  BY Kinds
<1>1. CASE AbortReconnect(t) \/ StopStreaming(t) \/ JoinUpdateThread(t) \/ CloseAndReturn(t)
  <2>1. CASE AbortReconnect(t)
    BY <1>0, <2>1 DEF AbortReconnect, Goto, TypeOK, OffLate
  <2>2. CASE StopStreaming(t)
    <3>1. pc[t] = "off_flag" /\ pc'[t] = "off_join" /\ ~isStreaming' /\ autoReconnect' = autoReconnect
      BY <1>0, <2>2 DEF StopStreaming, Goto, TypeOK
    <3>2. ~autoReconnect
      BY <3>1 DEF OffProgress
    <3> QED
      BY <3>1, <3>2
  <2>3. CASE JoinUpdateThread(t)
    <3>1. /\ pc[t] = "off_join" /\ pc'[t] = "off_close" /\ UNCHANGED driverVars
          /\ updateThread # NoThread => pc[updateThread] = "dead"
          /\ \A v \in Thread \ {t} : pc'[v] = pc[v]
      BY <1>0, <2>3 DEF JoinUpdateThread, Goto, TypeOK, Alive
    <3>2. ~autoReconnect' /\ ~isStreaming'
      BY <3>1 DEF OffProgress, driverVars
    <3>3. updateThread' # NoThread => updateThread' \in Thread /\ pc'[updateThread'] = "dead"
      BY <3>1, Kinds DEF TypeOK, driverVars
    <3> QED
      BY <3>2, <3>3
  <2>4. CASE CloseAndReturn(t)
    BY <1>0, <2>4 DEF CloseAndReturn, CallEnds, Goto, TypeOK, OffLate
  <2> QED
    BY <1>1, <2>1, <2>2, <2>3, <2>4
<1>2. CASE pc'[t] = pc[t]
  <2>1. Quiet
    BY <1>2, OffExcludesOn, OnlyStartIsLoud
  <2> QED
    BY <1>2, <2>1 DEF OffProgress, OffLate, Quiet, Alive, TypeOK
<1> QED
  BY <1>1, <1>2, OffMoves

(***************************************************************************)
(* is_streaming has an update thread behind it.                            *)
(***************************************************************************)
LEMMA ServedKept ==
  ASSUME TypeOK, RequestsFit, StreamingIsServed, [Next]_vars
  PROVE  StreamingIsServed'
<1>1. CASE \E c \in Controller : Loud(c)
  <2>1. PICK c \in Controller : Loud(c)
    BY <1>1
  <2>2. c \in Thread
    BY Kinds
  <2>3. CASE SayStreaming(c) \/ SetAutoReconnect(c)
    <3>1. pc'[c] \in {"on_auto", "on_thread"}
      BY <2>2, <2>3 DEF SayStreaming, SetAutoReconnect, Goto, TypeOK
    <3> QED
      BY <3>1 DEF StreamingIsServed
  <2>4. CASE StartUpdateThread(c)
    <3>1. PICK u \in Updater : pc' = [pc EXCEPT ![c] = "on_wait", ![u] = "upd_enter"]
      BY <2>4 DEF StartUpdateThread
    <3>2. pc'[u] = "upd_enter"
      BY <3>1, Kinds DEF TypeOK
    <3> QED
      BY <3>2 DEF StreamingIsServed
  <2> QED
    BY <2>1, <2>3, <2>4 DEF Loud
<1>2. CASE \A c \in Controller : ~Loud(c)
  <2>1. Quiet
    BY <1>2, OnlyStartIsLoud
  <2>2. CASE \E u \in Updater : pc[u] \notin {"dead", "upd_exit"}
    BY <2>1, <2>2 DEF Quiet, StreamingIsServed
  <2>3. CASE \E c \in Controller : pc[c] \in Saying
    BY <2>1, <2>3 DEF Quiet, StreamingIsServed, Saying
  <2> QED
    BY <2>1, <2>2, <2>3 DEF Quiet, StreamingIsServed, Saying
<1> QED
  BY <1>1, <1>2

-----------------------------------------------------------------------------
(***************************************************************************)
(* The inductive invariant.                                                *)
(***************************************************************************)
LEMMA InitDriverInv ==
  ASSUME Init
  PROVE  DriverInv
<1>1. ConnInv
  BY InitConnInv DEF Init
<1>2. TypeOK
  <2>1. DriverTypes
    BY DEF Init, DriverTypes
  <2>2. ThreadTypes
    BY DEF Init, ThreadTypes, CallerPoint, UpdaterPoint
  <2> QED
    BY <1>1, <2>1, <2>2, TypeParts DEF ConnInv
<1>3. \A t \in Thread : pc[t] \in {"dead", "idle"}
  BY DEF Init
<1>4. LocksHeld
  BY <1>3, Kinds DEF Init, LocksHeld, UnderCmdLock, UnderStreamLock, ExchangePoint, OpenPoint,
       OnPoint, OffPoint
<1>5. RequestsFit
  BY <1>3 DEF RequestsFit, Fits, ExchangePoint
<1>6. OffProgress
  BY <1>3, Kinds DEF OffProgress
<1>7. StreamingIsServed
  BY DEF Init, StreamingIsServed
<1> QED
  BY <1>1, <1>2, <1>4, <1>5, <1>6, <1>7 DEF DriverInv, ConnInv

LEMMA TypesKept ==
  ASSUME TypeOK, RequestsFit, ConnInv, [Next]_vars
  PROVE  TypeOK'
<1>1. ConnTypeOK'
  BY NextKeepsConnection DEF ConnInv
<1>2. DriverTypes' /\ ThreadTypes'
  <2>1. CASE Environment
    <3>1. UNCHANGED <<threadVars, isStreaming, autoReconnect, updateThread, cmdLock, streamLock,
                      streamCount, lost, crowded>> /\ udp' \in BOOLEAN
      BY <2>1 DEF Environment, TypeOK
    <3> QED
      BY <3>1, TypeParts DEF DriverTypes, ThreadTypes, threadVars
  <2>2. CASE \E t \in Commander : CallCommand(t)
    <3>1. PICK t \in Commander : CallCommand(t)
      BY <2>2
    <3>2. PICK o \in Op : Ask(t, "idle", o)
      BY <3>1, ThreadAssumption DEF CallCommand, Op
    <3>3. DriverTypes'
      BY <3>1, TypeParts DEF CallCommand, driverVars, DriverTypes
    <3> QED
      BY <3>2, <3>3, Kinds, AskKeepsTypes, TypeParts
  <2>3. CASE UNCHANGED vars
    BY <2>3, TypeParts DEF vars, driverVars, threadVars, DriverTypes, ThreadTypes
  <2> QED
    BY <2>1, <2>2, <2>3, RequestKeepsTypes, OpenKeepsTypes, ControlKeepsTypes, UpdateKeepsTypes
       DEF Next
<1>3. TypeOK' <=> ConnTypeOK' /\ DriverTypes' /\ ThreadTypes'
  BY DEF TypeOK, DriverTypes, ThreadTypes
<1> QED
  BY <1>1, <1>2, <1>3

LEMMA LocksKept ==
  ASSUME TypeOK, LocksHeld, RequestsFit, [Next]_vars
  PROVE  LocksHeld' /\ RequestsFit'
<1>1. CASE Environment \/ UNCHANGED vars
  <2>1. UNCHANGED <<pc, op, cmdLock, streamLock>>
    BY <1>1 DEF Environment, vars, threadVars, driverVars
  <2> QED
    BY <2>1 DEF LocksHeld, RequestsFit, Fits, UnderCmdLock, UnderStreamLock
<1>2. ASSUME NEW t \in Thread, Local(t)
      PROVE  LocksHeld' /\ RequestsFit'
  BY <1>2, LocalKeepsLocks
<1> QED
  BY <1>1, <1>2, RequestIsLocal, OpenIsLocal, CommandIsLocal, ControlKeepsLocks, UpdateIsLocal,
     Kinds DEF Next

LEMMA DriverInvKept ==
  ASSUME DriverInv, [Next]_vars
  PROVE  DriverInv'
<1>1. ConnInv'
  BY NextKeepsConnection DEF DriverInv, ConnInv, TypeOK
<1>2. TypeOK'
  BY TypesKept DEF DriverInv, ConnInv, TypeOK
<1>3. LocksHeld' /\ RequestsFit'
  BY LocksKept DEF DriverInv
<1>4. OffProgress'
  BY OffProgressKept DEF DriverInv
<1>5. StreamingIsServed'
  BY ServedKept DEF DriverInv
<1> QED
  BY <1>1, <1>2, <1>3, <1>4, <1>5 DEF DriverInv, ConnInv

(***************************************************************************)
(* The types of all variables of the driver, its connection and its        *)
(* threads, for any sets of threads.                                       *)
(***************************************************************************)
THEOREM DriverTypeCorrect == Spec => []TypeOK
<1>1. DriverInv => TypeOK
  BY DEF DriverInv
<1> QED
  BY InitDriverInv, DriverInvKept, <1>1, PTL DEF Spec

(***************************************************************************)
(* Mutual exclusion and no leaked lock: each of the two locks of the       *)
(* driver is held by exactly the thread that is in its section, whatever   *)
(* errors end the section.                                                 *)
(***************************************************************************)
THEOREM LocksAreHeld == Spec => []LocksHeld
<1>1. DriverInv => LocksHeld
  BY DEF DriverInv
<1> QED
  BY InitDriverInv, DriverInvKept, <1>1, PTL DEF Spec

(***************************************************************************)
(* A driver that says it is streaming has an update thread in its loop.    *)
(***************************************************************************)
THEOREM StreamingAlwaysServed == Spec => []StreamingIsServed
<1>1. DriverInv => StreamingIsServed
  BY DEF DriverInv
<1> QED
  BY InitDriverInv, DriverInvKept, <1>1, PTL DEF Spec

(***************************************************************************)
(* When streaming_off() returns, streaming is off: flags, thread and       *)
(* connection, however many threads use the driver meanwhile.              *)
(***************************************************************************)
OffStep ==
  \A t \in Controller : OffReturns(t) =>
    /\ ~isStreaming' /\ ~autoReconnect' /\ ~isOpen' /\ ~persistent'
    /\ updateThread # NoThread => pc'[updateThread] = "dead"

LEMMA OffStepTaken ==
  ASSUME DriverInv, [Next]_vars
  PROVE  OffStep
<1> USE DEF DriverInv
<1> SUFFICES ASSUME NEW t \in Controller, OffReturns(t)
             PROVE  /\ ~isStreaming' /\ ~autoReconnect' /\ ~isOpen' /\ ~persistent'
                    /\ updateThread # NoThread => pc'[updateThread] = "dead"
  BY DEF OffStep
<1>1. pc[t] = "off_close" /\ pc'[t] = "idle" /\ pc[t] \in OffLate
  BY DEF OffReturns, OffLate
<1>2. CloseAndReturn(t)
  <2>1. ~AbortReconnect(t) /\ ~StopStreaming(t) /\ ~JoinUpdateThread(t)
    BY <1>1 DEF AbortReconnect, StopStreaming, JoinUpdateThread, Goto
  <2> QED
    BY <1>1, <2>1, OffMoves
<1>3. Quiet
  BY <1>1, OffExcludesOn, OnlyStartIsLoud
<1>4. ~isStreaming /\ ~autoReconnect /\ (updateThread # NoThread => pc[updateThread] = "dead")
  BY <1>1 DEF OffProgress, Alive
<1>5. updateThread # NoThread => updateThread \in Updater
  BY DEF TypeOK
<1> QED
  BY <1>2, <1>3, <1>4, <1>5 DEF CloseAndReturn, CallEnds, Close, Quiet

THEOREM OffMeansStreamingIsOff == Spec => OffMeansOff
<1>1. DriverInv /\ [Next]_vars => [OffStep]_vars
  BY OffStepTaken
<1>2. Spec => [][OffStep]_vars
  BY InitDriverInv, DriverInvKept, <1>1, PTL DEF Spec
<1> QED
  BY <1>2 DEF OffMeansOff, OffStep

-----------------------------------------------------------------------------
(***************************************************************************)
(* The count of the UDP stream: only an entry and an exit change it, or    *)
(* the set of threads that are inside.                                     *)
(***************************************************************************)
Outside == {"dead", "upd_enter"}
SameStream == streamCount' = streamCount /\ InStream' = InStream

LEMMA SameWhere ==
  ASSUME streamCount' = streamCount,
         \A u \in Updater : pc'[u] \in Outside <=> pc[u] \in Outside
  PROVE  SameStream
  BY DEF SameStream, InStream, Alive, Outside

LEMMA OthersKeepStream ==
  ASSUME TypeOK, RequestsFit, [Next]_vars, \A u \in Updater : ~EnterStream(u) /\ ~ExitStream(u)
  PROVE  SameStream
<1> USE DEF TypeOK
<1>1. ASSUME NEW t \in Thread, Request(t)
      PROVE  SameStream
  <2>1. pc[t] \in ExchangePoint /\ streamCount' = streamCount /\ \A u \in Thread \ {t} : pc'[u] = pc[u]
    BY <1>1 DEF Request, AcquireCmdLock, EnterContext, SendRequest, CallReceive, GetAnswer,
       ReceiveError, ReceiveGivesUp, LeavingContext, FinishRequest, Answered, Goto,
       ExchangePoint, driverVars, threadVars
  <2>2. t \in Updater => pc'[t] \notin Outside
    <3>1. CASE FinishRequest(t)
      <4>1. pc'[t] = NextPoint(t) /\ (t \in Updater => op[t] \in {"rate", "start"})
        BY <2>1, <3>1 DEF FinishRequest, Goto, RequestsFit, Fits
      <4> QED
        BY <4>1 DEF NextPoint, NextOp, FirstPoint, AfterReconnectRequest, UsesCmdLock,
           UsesContext, Outside
    <3>2. CASE ~FinishRequest(t)
      BY <1>1, <2>1, <3>2 DEF Request, AcquireCmdLock, EnterContext, SendRequest, CallReceive,
         GetAnswer, ReceiveError, ReceiveGivesUp, LeavingContext, Answered, Goto, ExchangePoint,
         threadVars, Outside
    <3> QED
      BY <3>1, <3>2
  <2> QED
    BY <2>1, <2>2, SameWhere, Kinds DEF Outside, ExchangePoint
<1>2. ASSUME NEW t \in Thread, Open(t)
      PROVE  SameStream
  <2>1. /\ pc[t] \in OpenPoint /\ streamCount' = streamCount /\ pc'[t] \notin Outside
        /\ \A u \in Thread \ {t} : pc'[u] = pc[u]
    BY <1>2 DEF Open, OpenEnter, OpenFails, CallEnds, OpenSucceeds, OpenMarks, Goto, OpenPoint,
       driverVars, Outside
  <2> QED
    BY <2>1, SameWhere, Kinds DEF Outside, OpenPoint
<1>3. ASSUME NEW c \in Commander, CallCommand(c)
      PROVE  SameStream
  <2>1. c \in Thread /\ c \notin Updater
    BY ThreadAssumption DEF Caller
  <2> QED
    BY <1>3, <2>1, SameWhere, Kinds DEF CallCommand, Ask, Goto, driverVars
<1>4. ASSUME NEW c \in Controller, Control(c)
      PROVE  SameStream
  <2>1. c \in Thread /\ c \notin Updater
    BY ThreadAssumption DEF Caller
  <2>2. streamCount' = streamCount
    BY <1>4 DEF Control, CallStreamingOn, SayStreaming, SetAutoReconnect, StartUpdateThread,
       StreamOpens, StreamNotYetOpen, StreamTimesOut, AbortStreaming, AbortReconnect,
       CloseAndReturn, CallEnds, CallStreamingOff, StopStreaming, JoinUpdateThread, driverVars
  <2>3. CASE StartUpdateThread(c)
    <3>1. PICK u \in Updater : pc[u] = "dead" /\ pc' = [pc EXCEPT ![c] = "on_wait", ![u] = "upd_enter"]
      BY <2>3 DEF StartUpdateThread, Alive
    <3> QED
      BY <2>1, <2>2, <3>1, SameWhere, Kinds DEF Outside
  <2>4. CASE ~StartUpdateThread(c)
    <3>1. \A u \in Updater : pc'[u] = pc[u]
      BY <1>4, <2>1, <2>4, Kinds DEF Control, CallStreamingOn, SayStreaming, SetAutoReconnect,
         StreamOpens, StreamNotYetOpen, StreamTimesOut, AbortStreaming, AbortReconnect,
         CloseAndReturn, CallEnds, CallStreamingOff, StopStreaming, JoinUpdateThread, Ask, Goto,
         driverVars
    <3> QED
      BY <2>2, <3>1, SameWhere
  <2> QED
    BY <2>3, <2>4
<1>5. ASSUME NEW t \in Updater, Update(t)
      PROVE  SameStream
  <2>1. t \in Thread
    BY Kinds
  <2>2. /\ pc[t] \notin Outside /\ pc'[t] \notin Outside /\ streamCount' = streamCount
        /\ \A u \in Thread \ {t} : pc'[u] = pc[u]
    BY <1>5, <2>1 DEF Update, ReadPackets, LoseConnection, CloseConnection, RetryOrStop,
       GiveUpStreaming, LeaveLoop, VerifyOpen, LockReconnect, ReconnectRefused, ReconnectRaises,
       ReconnectSucceeds, Ask, Goto, FirstPoint, UsesCmdLock, UsesContext, driverVars,
       threadVars, Outside
  <2> QED
    BY <2>2, SameWhere, Kinds
<1>6. CASE Environment \/ UNCHANGED vars
  <2>1. UNCHANGED <<pc, streamCount>>
    BY <1>6 DEF Environment, vars, threadVars, driverVars
  <2> QED
    BY <2>1, SameWhere
<1> QED
  BY <1>1, <1>2, <1>3, <1>4, <1>5, <1>6 DEF Next

LEMMA CountKept ==
  ASSUME TypeOK, RequestsFit, StreamCounted, [Next]_vars
  PROVE  StreamCounted'
<1> USE DEF TypeOK, StreamCounted
<1>0. IsFiniteSet(InStream) /\ Cardinality(InStream) \in Nat
  BY ThreadAssumption, FS_Subset, FS_CardinalityType DEF InStream
<1>1. ASSUME NEW u \in Updater, EnterStream(u)
      PROVE  StreamCounted'
  <2>1. /\ u \in Thread /\ pc' = [pc EXCEPT ![u] = "upd_loop"] /\ pc[u] = "upd_enter"
        /\ streamCount' \in {streamCount, streamCount + 1}
    BY <1>1, Kinds DEF EnterStream, Goto
  <2>2. InStream' = InStream \cup {u} /\ u \notin InStream
    BY <2>1, Kinds DEF InStream, Alive
  <2>3. Cardinality(InStream') = Cardinality(InStream) + 1
    BY <1>0, <2>2, FS_AddElement
  <2> QED
    BY <1>0, <2>1, <2>3
<1>2. ASSUME NEW u \in Updater, ExitStream(u)
      PROVE  StreamCounted'
  <2>1. /\ u \in Thread /\ pc' = [pc EXCEPT ![u] = "dead"] /\ pc[u] = "upd_exit"
        /\ streamCount' = IF streamCount > 1 THEN streamCount - 1 ELSE 0
    BY <1>2, Kinds DEF ExitStream, Goto
  <2>2. InStream' = InStream \ {u} /\ u \in InStream
    BY <2>1, Kinds DEF InStream, Alive
  <2>3. Cardinality(InStream') = Cardinality(InStream) - 1 /\ Cardinality(InStream') \in Nat
    BY <1>0, <2>2, FS_RemoveElement, FS_CardinalityType
  <2> QED
    BY <1>0, <2>1, <2>3
<1>3. CASE \A u \in Updater : ~EnterStream(u) /\ ~ExitStream(u)
  BY <1>3, OthersKeepStream DEF SameStream
<1> QED
  BY <1>1, <1>2, <1>3

(***************************************************************************)
(* The UDP socket is never open for more threads than are in their         *)
(* with-block, for any number of update threads and any failures to bind.  *)
(***************************************************************************)
THEOREM StreamIsCounted == Spec => []StreamCounted
<1>1. Init => StreamCounted
  <2> SUFFICES ASSUME Init
               PROVE  StreamCounted
    OBVIOUS
  <2>1. InStream = {}
    BY Kinds DEF Init, InStream, Alive
  <2> QED
    BY <2>1, FS_EmptySet DEF Init, StreamCounted
<1>2. DriverInv /\ StreamCounted /\ [Next]_vars => StreamCounted'
  BY CountKept DEF DriverInv
<1> QED
  BY InitDriverInv, DriverInvKept, <1>1, <1>2, PTL DEF Spec

-----------------------------------------------------------------------------
(***************************************************************************)
(* streaming_on(), from its first statement to its return, when no update  *)
(* thread of an earlier call is left over.  Until it starts its own there  *)
(* is none, and that one gives up only if it is not to reconnect.          *)
(***************************************************************************)
Beginning == OpenPoint \cup {"on_start"}
Starting(t) ==
  \/ pc[t] \in {"on_wait", "on_slept"}
  \/ pc[t] \in ExchangePoint /\ op[t] \in {"name", "hwid", "rate", "start"}

OnProgress ==
  ~crowded =>
    \A t \in Controller :
      /\ pc[t] \in Beginning \cup Saying => \A u \in Updater : pc[u] = "dead"
      /\ pc[t] \in Saying => isStreaming
      /\ Starting(t) /\ autoReconnect => isStreaming /\ \A u \in Updater : pc[u] # "upd_stop"

\* The steps that end the streaming, unless it is an update thread that gives up,
\* are under _streaming_lock, and none is a request.
EndsFrom == {"open_check", "on_slept", "on_abort", "off_flag"}

LEMMA EndOfStreaming ==
  ASSUME TypeOK, LocksHeld, [Next]_vars, isStreaming, ~isStreaming',
         \A u \in Updater : pc[u] # "upd_stop"
  PROVE  \E c \in Caller : /\ streamLock = c /\ pc[c] \in EndsFrom
                           /\ ~Starting(c)' /\ pc'[c] \notin Saying
<1>1. ASSUME NEW t \in Thread, Request(t)
      PROVE  FALSE
  BY <1>1 DEF Request, AcquireCmdLock, EnterContext, SendRequest, CallReceive, GetAnswer,
     ReceiveError, ReceiveGivesUp, LeavingContext, FinishRequest, driverVars
<1>2. ASSUME NEW t \in Thread, Open(t)
      PROVE  \E c \in Caller : /\ streamLock = c /\ pc[c] \in EndsFrom
                               /\ ~Starting(c)' /\ pc'[c] \notin Saying
  <2>1. pc[t] = "open_check" /\ pc'[t] = "idle" /\ t \notin Updater
    BY <1>2 DEF Open, OpenEnter, OpenFails, OpenSucceeds, OpenMarks, Goto, driverVars, TypeOK
  <2>2. t \in Caller /\ streamLock = t
    BY <2>1, Kinds, StreamLockPoints DEF OpenPoint
  <2> QED
    BY <2>1, <2>2 DEF Starting, ExchangePoint, EndsFrom, Saying
<1>3. ASSUME NEW t \in Controller, Control(t)
      PROVE  \E c \in Caller : /\ streamLock = c /\ pc[c] \in EndsFrom
                               /\ ~Starting(c)' /\ pc'[c] \notin Saying
  <2>0. t \in Caller /\ t \in Thread
    BY Kinds DEF Caller
  <2>1. StreamTimesOut(t) \/ AbortStreaming(t) \/ StopStreaming(t)
    BY <1>3 DEF Control, CallStreamingOn, SayStreaming, SetAutoReconnect, StartUpdateThread,
       StreamOpens, StreamNotYetOpen, AbortReconnect, CloseAndReturn, CallStreamingOff,
       JoinUpdateThread, driverVars
  <2>2. /\ pc[t] \in {"on_slept", "on_abort", "off_flag"}
        /\ pc'[t] \in {"idle", "on_forget", "off_join"}
    BY <2>0, <2>1 DEF StreamTimesOut, AbortStreaming, StopStreaming, Goto, TypeOK
  <2>3. streamLock = t
    BY <2>0, <2>2, StreamLockPoints DEF OnPoint, OffPoint
  <2> QED
    BY <2>0, <2>2, <2>3 DEF Starting, ExchangePoint, EndsFrom, Saying
<1>4. ASSUME NEW u \in Updater, Update(u)
      PROVE  FALSE
  BY <1>4 DEF Update, EnterStream, ReadPackets, LoseConnection, CloseConnection, RetryOrStop,
     GiveUpStreaming, Goto, LeaveLoop, ExitStream, VerifyOpen, LockReconnect, ReconnectRefused,
     ReconnectRaises, ReconnectSucceeds, driverVars
<1>5. ASSUME NEW c \in Commander, CallCommand(c)
      PROVE  FALSE
  BY <1>5 DEF CallCommand, driverVars
<1>6. CASE Environment \/ UNCHANGED vars
  BY <1>6 DEF Environment, vars, driverVars
<1> QED
  BY <1>1, <1>2, <1>3, <1>4, <1>5, <1>6 DEF Next

\* A controller that is in streaming_on holds the lock.
LEMMA OnIsLocked ==
  ASSUME LocksHeld, NEW t \in Controller, Starting(t) \/ pc[t] \in Beginning \cup Saying
  PROVE  streamLock = t
<1>1. t \in Caller /\ t \in Thread
  BY Kinds DEF Caller
<1> QED
  BY <1>1 DEF LocksHeld, UnderStreamLock, Starting, OnPoint, Beginning, Saying

\* The history changes when a call begins or ends, and thus for nobody else.
LEMMA CrowdedKept ==
  ASSUME TypeOK, LocksHeld, [Next]_vars, NEW t \in Controller, streamLock' = t
  PROVE  crowded' = crowded \/ CallStreamingOn(t)
<1>0. t \in Thread /\ t # NoThread
  BY Kinds
<1>1. ASSUME NEW v \in Thread, Request(v)
      PROVE  crowded' = crowded
  BY <1>0, <1>1 DEF Request, AcquireCmdLock, EnterContext, SendRequest, CallReceive, GetAnswer,
     ReceiveError, ReceiveGivesUp, LeavingContext, FinishRequest, ReleaseStreamLock, CallEnds,
     driverVars
<1>2. ASSUME NEW v \in Thread, Open(v)
      PROVE  crowded' = crowded
  BY <1>0, <1>2 DEF Open, OpenEnter, OpenFails, CallEnds, OpenSucceeds, OpenMarks, driverVars
<1>3. ASSUME NEW c \in Controller, Control(c)
      PROVE  crowded' = crowded \/ CallStreamingOn(t)
  <2>1. CASE CallStreamingOn(c)
    BY <2>1 DEF CallStreamingOn
  <2>2. CASE ~CallStreamingOn(c)
    BY <1>0, <1>3, <2>2 DEF Control, SayStreaming, SetAutoReconnect, StartUpdateThread,
       StreamOpens, StreamNotYetOpen, StreamTimesOut, AbortStreaming, AbortReconnect,
       CloseAndReturn, CallEnds, CallStreamingOff, StopStreaming, JoinUpdateThread, driverVars
  <2> QED
    BY <2>1, <2>2
<1>4. ASSUME NEW u \in Updater, Update(u)
      PROVE  crowded' = crowded
  BY <1>4 DEF Update, EnterStream, ReadPackets, LoseConnection, CloseConnection, RetryOrStop,
     GiveUpStreaming, LeaveLoop, ExitStream, VerifyOpen, LockReconnect, ReconnectRefused,
     ReconnectRaises, ReconnectSucceeds, driverVars
<1>5. CASE Environment \/ UNCHANGED vars \/ \E c \in Commander : CallCommand(c)
  BY <1>5 DEF Environment, vars, driverVars, CallCommand
<1> QED
  BY <1>1, <1>2, <1>3, <1>4, <1>5 DEF Next

(***************************************************************************)
(* How a controller comes to a point of streaming_on: from the point       *)
(* before it, or, to the first, from its call.                             *)
(***************************************************************************)
LEMMA OnMoves ==
  ASSUME TypeOK, LocksHeld, RequestsFit, [Next]_vars, NEW t \in Controller
  PROVE  /\ pc'[t] \in Beginning => pc[t] \in Beginning \/ CallStreamingOn(t)
         /\ pc'[t] \in Saying => pc[t] \in Saying \/ SayStreaming(t)
         /\ Starting(t)' => Starting(t) \/ StartUpdateThread(t)
<1> DEFINE Claim == /\ pc'[t] \in Beginning => pc[t] \in Beginning \/ CallStreamingOn(t)
                    /\ pc'[t] \in Saying => pc[t] \in Saying \/ SayStreaming(t)
                    /\ Starting(t)' => Starting(t) \/ StartUpdateThread(t)
<1> SUFFICES Claim
  OBVIOUS
<1>0. t \in Thread /\ t \in Caller /\ t \notin Updater
  BY ThreadAssumption DEF Caller
<1>1. ASSUME pc'[t] = pc[t], op'[t] = op[t]
      PROVE  Claim
  BY <1>1 DEF Starting
<1>2. ASSUME NEW v \in Thread, v # t, Local(v)
      PROVE  Claim
  <2>1. pc'[t] = pc[t] /\ op'[t] = op[t]
    BY <1>0, <1>2 DEF Local, Alone
  <2> QED
    BY <1>1, <2>1
<1> HIDE DEF Claim
<1>3. CASE Request(t)
  <2>1. CASE FinishRequest(t)
    <3>1. pc[t] = "x_exit" /\ pc'[t] = NextPoint(t) /\ op'[t] = NextOp(t)
      BY <1>0, <2>1 DEF FinishRequest, Goto, TypeOK
    <3>2. CASE NextOp(t) = "none"
      <4>1. pc'[t] \in {"on_abort", "off_auto", "idle"}
        BY <1>0, <3>1, <3>2 DEF NextPoint, AfterCallerRequest
      <4> QED
        BY <4>1 DEF Claim, Starting, ExchangePoint, Beginning, OpenPoint, Saying
    <3>3. CASE NextOp(t) # "none"
      <4>1. op[t] \in {"name", "hwid", "rate"} /\ Starting(t)
        BY <3>1, <3>3 DEF NextOp, Starting, ExchangePoint
      <4>2. pc'[t] \in ExchangePoint
        BY <3>1, <3>3 DEF NextPoint, FirstPoint, ExchangePoint
      <4> QED
        BY <4>1, <4>2 DEF Claim, ExchangePoint, Beginning, OpenPoint, Saying
    <3> QED
      BY <3>2, <3>3
  <2>2. CASE ~FinishRequest(t)
    <3>1. pc[t] \in ExchangePoint /\ pc'[t] \in ExchangePoint /\ op'[t] = op[t]
      BY <1>0, <1>3, <2>2 DEF Request, AcquireCmdLock, EnterContext, SendRequest, CallReceive,
         GetAnswer, ReceiveError, ReceiveGivesUp, LeavingContext, Answered, Goto, TypeOK,
         ExchangePoint, threadVars
    <3> QED
      BY <3>1 DEF Claim, Starting, ExchangePoint, Beginning, OpenPoint, Saying
  <2> QED
    BY <2>1, <2>2
<1>4. CASE Open(t)
  <2>1. pc[t] \in OpenPoint /\ pc'[t] \in {"open_check", "open_mark", "on_start", "idle"}
    BY <1>0, <1>4 DEF Open, OpenEnter, OpenFails, OpenSucceeds, OpenMarks, Goto, TypeOK, OpenPoint
  <2> QED
    BY <2>1 DEF Claim, Starting, ExchangePoint, Beginning, Saying
<1>5. CASE t \in Commander /\ CallCommand(t)
  <2>1. PICK o \in {"get", "set", "run"} : op'[t] = o /\ pc'[t] = FirstPoint(o)
    BY <1>0, <1>5, ThreadAssumption DEF CallCommand, Ask, Goto, TypeOK
  <2> QED
    BY <2>1 DEF Claim, Starting, FirstPoint, UsesCmdLock, UsesContext, Beginning, OpenPoint,
       Saying
<1>6. ASSUME NEW c \in Controller, Control(c)
      PROVE  Claim
  <2>1. c \in Thread
    BY Kinds
  <2>2. CASE c # t
    <3>1. pc'[t] = pc[t] /\ op'[t] = op[t]
      BY <1>0, <1>6, <2>1, <2>2 DEF Control, CallStreamingOn, SayStreaming, SetAutoReconnect,
         StartUpdateThread, StreamOpens, StreamNotYetOpen, StreamTimesOut, AbortStreaming,
         AbortReconnect, CloseAndReturn, CallStreamingOff, StopStreaming, JoinUpdateThread, Ask,
         Goto, TypeOK
    <3> QED
      BY <1>1, <3>1
  <2>3. CASE c = t
    <3>1. CASE StreamOpens(t) \/ StreamNotYetOpen(t)
      <4>1. Starting(t) /\ pc'[t] \in {"on_slept", "x_lock"}
        BY <1>0, <3>1 DEF StreamOpens, StreamNotYetOpen, Ask, Goto, Starting, TypeOK, FirstPoint,
           UsesCmdLock
      <4> QED
        BY <4>1 DEF Claim, Beginning, OpenPoint, Saying
    <3>2. CASE CallStreamingOff(t)
      <4>1. pc'[t] = "x_send" /\ op'[t] = "stop"
        BY <1>0, <3>2 DEF CallStreamingOff, Ask, Goto, TypeOK, FirstPoint, UsesCmdLock,
           UsesContext
      <4> QED
        BY <4>1 DEF Claim, Starting, Beginning, OpenPoint, Saying
    <3>3. CASE \/ StreamTimesOut(t) \/ AbortStreaming(t) \/ AbortReconnect(t)
               \/ CloseAndReturn(t) \/ StopStreaming(t) \/ JoinUpdateThread(t)
      <4>1. pc'[t] \in {"idle", "on_forget", "on_close", "off_flag", "off_join", "off_close"}
        BY <1>0, <3>3 DEF StreamTimesOut, AbortStreaming, AbortReconnect, CloseAndReturn,
           StopStreaming, JoinUpdateThread, Goto, TypeOK
      <4> QED
        BY <4>1 DEF Claim, Starting, ExchangePoint, Beginning, OpenPoint, Saying
    <3>4. CASE CallStreamingOn(t)
      <4>1. pc'[t] = "open_enter"
        BY <1>0, <3>4 DEF CallStreamingOn, Goto, TypeOK
      <4> QED
        BY <3>4, <4>1 DEF Claim, Starting, ExchangePoint, Saying
    <3>5. CASE SayStreaming(t) \/ SetAutoReconnect(t)
      <4>1. /\ pc'[t] \in {"on_auto", "on_thread"}
            /\ pc[t] = "on_auto" \/ SayStreaming(t)
        BY <1>0, <3>5 DEF SayStreaming, SetAutoReconnect, Goto, TypeOK
      <4> QED
        BY <4>1 DEF Claim, Starting, ExchangePoint, Beginning, OpenPoint, Saying
    <3>6. CASE StartUpdateThread(t)
      <4>1. pc'[t] = "on_wait"
        BY <1>0, <3>6, Kinds DEF StartUpdateThread, TypeOK
      <4> QED
        BY <3>6, <4>1 DEF Claim, Beginning, OpenPoint, Saying
    <3> QED
      BY <1>6, <2>3, <3>1, <3>2, <3>3, <3>4, <3>5, <3>6 DEF Control
  <2> QED
    BY <2>2, <2>3
<1>7. ASSUME NEW u \in Updater, Update(u)
      PROVE  Claim
  BY <1>0, <1>2, <1>7, UpdateIsLocal, Kinds
<1>8. CASE Environment \/ UNCHANGED vars
  <2>1. UNCHANGED <<pc, op>>
    BY <1>8 DEF Environment, vars, threadVars
  <2> QED
    BY <1>1, <2>1
<1>9. ASSUME NEW v \in Thread, Request(v) \/ Open(v)
      PROVE  Claim
  BY <1>2, <1>3, <1>4, <1>9, RequestIsLocal, OpenIsLocal
<1>10. ASSUME NEW c \in Commander, CallCommand(c)
       PROVE  Claim
  BY <1>2, <1>5, <1>10, CommandIsLocal, Kinds
<1> QED
  BY <1>6, <1>7, <1>8, <1>9, <1>10 DEF Next

\* An update thread gives up only if it is not to reconnect.
LEMMA NobodyGivesUp ==
  ASSUME TypeOK, RequestsFit, [Next]_vars, autoReconnect, \A u \in Updater : pc[u] # "upd_stop"
  PROVE  \A u \in Updater : pc'[u] # "upd_stop"
<1> SUFFICES ASSUME NEW u \in Updater, pc'[u] = "upd_stop"
             PROVE  FALSE
  OBVIOUS
<1>0. u \in Thread /\ u \notin Caller /\ pc[u] # "upd_stop"
  BY Kinds
<1>1. ASSUME NEW t \in Thread, Request(t)
      PROVE  FALSE
  <2>1. \A v \in Thread \ {t} : pc'[v] = pc[v]
    BY <1>1 DEF Request, AcquireCmdLock, EnterContext, SendRequest, CallReceive, GetAnswer,
       ReceiveError, ReceiveGivesUp, LeavingContext, FinishRequest, Answered, Goto, TypeOK,
       threadVars
  <2>2. t = u
    BY <1>0, <2>1
  <2>3. CASE FinishRequest(u)
    <3>1. pc'[u] = NextPoint(u)
      BY <1>0, <2>3 DEF FinishRequest, Goto, TypeOK
    <3> QED
      BY <3>1 DEF NextPoint, FirstPoint, AfterReconnectRequest
  <2>4. CASE ~FinishRequest(u)
    BY <1>0, <1>1, <2>2, <2>4 DEF Request, AcquireCmdLock, EnterContext, SendRequest, CallReceive,
       GetAnswer, ReceiveError, ReceiveGivesUp, LeavingContext, Answered, Goto, TypeOK, threadVars
  <2> QED
    BY <2>3, <2>4
<1>2. ASSUME NEW t \in Thread, Open(t)
      PROVE  FALSE
  BY <1>0, <1>2 DEF Open, OpenEnter, OpenFails, OpenSucceeds, OpenMarks, Goto, TypeOK
<1>3. ASSUME NEW c \in Controller, Control(c)
      PROVE  FALSE
  <2>1. c \in Thread /\ c # u
    BY <1>0, Kinds DEF Caller
  <2>2. CASE StartUpdateThread(c)
    BY <1>0, <2>1, <2>2 DEF StartUpdateThread, TypeOK
  <2>3. CASE ~StartUpdateThread(c)
    BY <1>0, <1>3, <2>1, <2>3 DEF Control, CallStreamingOn, SayStreaming, SetAutoReconnect,
       StreamOpens, StreamNotYetOpen, StreamTimesOut, AbortStreaming, AbortReconnect,
       CloseAndReturn, CallStreamingOff, StopStreaming, JoinUpdateThread, Ask, Goto, TypeOK
  <2> QED
    BY <2>2, <2>3
<1>4. ASSUME NEW v \in Updater, Update(v)
      PROVE  FALSE
  <2>1. v \in Thread
    BY Kinds
  <2> QED
    BY <1>0, <1>4, <2>1 DEF Update, EnterStream, ReadPackets, LoseConnection, CloseConnection,
       RetryOrStop, GiveUpStreaming, LeaveLoop, ExitStream, VerifyOpen, LockReconnect,
       ReconnectRefused, ReconnectRaises, ReconnectSucceeds, Ask, Goto, TypeOK, FirstPoint,
       threadVars
<1>5. CASE Environment \/ UNCHANGED vars
  BY <1>0, <1>5 DEF Environment, vars, threadVars
<1>6. ASSUME NEW c \in Commander, CallCommand(c)
      PROVE  FALSE
  <2>1. c \in Thread /\ c # u
    BY <1>0, Kinds DEF Caller
  <2> QED
    BY <1>0, <1>6, <2>1 DEF CallCommand, Ask, Goto, TypeOK
<1> QED
  BY <1>1, <1>2, <1>3, <1>4, <1>5, <1>6 DEF Next

LEMMA OnProgressKept ==
  ASSUME TypeOK, LocksHeld, LocksHeld', RequestsFit, OnProgress, [Next]_vars
  PROVE  OnProgress'
<1> SUFFICES ASSUME ~crowded', NEW t \in Controller,
                    (Starting(t) \/ pc[t] \in Beginning \cup Saying)'
             PROVE  /\ pc'[t] \in Beginning \cup Saying => \A u \in Updater : pc'[u] = "dead"
                    /\ pc'[t] \in Saying => isStreaming'
                    /\ (Starting(t) /\ autoReconnect)' =>
                         isStreaming' /\ \A u \in Updater : pc'[u] # "upd_stop"
  BY DEF OnProgress
<1>0. t \in Thread
  BY Kinds
<1>1. streamLock' = t
  <2>1. t \in Caller
    BY DEF Caller
  <2> QED
    BY <1>0, <2>1 DEF LocksHeld, UnderStreamLock, Starting, OnPoint, Beginning, Saying
<1>2. CASE CallStreamingOn(t)
  <2>1. pc' = [pc EXCEPT ![t] = "open_enter"] /\ \A u \in Updater : pc[u] = "dead"
    BY <1>2 DEF CallStreamingOn, Goto, Alive
  <2>2. \A u \in Updater : pc'[u] = "dead"
    BY <2>1, Kinds, ThreadAssumption DEF Caller, TypeOK
  <2>3. pc'[t] = "open_enter"
    BY <1>0, <2>1 DEF TypeOK
  <2> QED
    BY <2>2, <2>3 DEF Saying, Starting, ExchangePoint
<1>3. CASE ~CallStreamingOn(t)
  <2>1. ~crowded
    BY <1>1, <1>3, CrowdedKept
  <2>2. CASE SayStreaming(t)
    <3>1. /\ pc[t] = "on_start" /\ pc' = [pc EXCEPT ![t] = "on_auto"] /\ isStreaming'
      BY <2>2 DEF SayStreaming, Goto
    <3>2. \A u \in Updater : pc[u] = "dead"
      BY <2>1, <3>1 DEF OnProgress, Beginning
    <3>3. \A u \in Updater : pc'[u] = "dead"
      BY <3>1, <3>2, ThreadAssumption DEF Caller, TypeOK
    <3>4. pc'[t] = "on_auto"
      BY <1>0, <3>1 DEF TypeOK
    <3> QED
      BY <3>1, <3>3, <3>4 DEF Starting, ExchangePoint
  <2>3. CASE SetAutoReconnect(t)
    <3>1. pc[t] = "on_auto" /\ pc' = [pc EXCEPT ![t] = "on_thread"] /\ isStreaming' = isStreaming
      BY <2>3 DEF SetAutoReconnect, Goto
    <3>2. isStreaming /\ \A u \in Updater : pc[u] = "dead"
      BY <2>1, <3>1 DEF OnProgress, Saying
    <3>3. \A u \in Updater : pc'[u] = "dead"
      BY <3>1, <3>2, ThreadAssumption DEF Caller, TypeOK
    <3>4. pc'[t] = "on_thread"
      BY <1>0, <3>1 DEF TypeOK
    <3> QED
      BY <3>1, <3>2, <3>3, <3>4 DEF Starting, ExchangePoint
  <2>4. CASE StartUpdateThread(t)
    <3>1. PICK v \in Updater : pc' = [pc EXCEPT ![t] = "on_wait", ![v] = "upd_enter"]
      BY <2>4 DEF StartUpdateThread
    <3>2. pc[t] = "on_thread" /\ isStreaming' = isStreaming
      BY <2>4 DEF StartUpdateThread
    <3>3. isStreaming /\ \A u \in Updater : pc[u] = "dead"
      BY <2>1, <3>2 DEF OnProgress, Saying
    <3>4. t \notin Updater
      BY ThreadAssumption DEF Caller
    <3>5. pc'[t] = "on_wait" /\ \A u \in Updater : pc'[u] \in {"dead", "upd_enter"}
      BY <1>0, <3>1, <3>3, <3>4, Kinds DEF TypeOK
    <3> QED
      BY <3>2, <3>3, <3>5 DEF Beginning, OpenPoint, Saying
  <2>5. CASE ~Loud(t)
    <3>1. \A c \in Controller : ~Loud(c)
      <4> SUFFICES ASSUME NEW c \in Controller, c # t, Loud(c)
                   PROVE  FALSE
        BY <2>5
      <4>1. c \in Caller /\ c \in Thread
        BY Kinds DEF Caller
      <4>2. pc[c] \in OnPoint /\ streamLock' = streamLock
        BY <4>1 DEF Loud, SayStreaming, SetAutoReconnect, StartUpdateThread, Goto, OnPoint
      <4>3. streamLock = c
        BY <4>1, <4>2, StreamLockPoints
      <4> QED
        BY <1>1, <4>2, <4>3
    <3>2. Quiet
      BY <3>1, OnlyStartIsLoud
    <3>3. /\ pc'[t] \in Beginning => pc[t] \in Beginning
          /\ pc'[t] \in Saying => pc[t] \in Saying
          /\ Starting(t)' => Starting(t)
      BY <1>3, <2>5, OnMoves DEF Loud
    <3>4. CASE pc'[t] \in Beginning \cup Saying
      <4>1. pc[t] \in Beginning \cup Saying
        BY <3>3, <3>4
      <4>2. \A u \in Updater : pc[u] = "dead"
        BY <2>1, <4>1 DEF OnProgress
      <4>3. \A u \in Updater : pc'[u] = "dead"
        BY <3>2, <4>2 DEF Quiet
      <4>4. pc'[t] \in Saying => isStreaming'
        <5> SUFFICES ASSUME pc'[t] \in Saying, ~isStreaming'
                     PROVE  FALSE
          OBVIOUS
        <5>1. pc[t] \in Saying /\ isStreaming /\ streamLock = t
          BY <2>1, <3>3, OnIsLocked DEF OnProgress
        <5>2. PICK c \in Caller : streamLock = c /\ pc[c] \in EndsFrom
          BY <4>2, <5>1, EndOfStreaming
        <5> QED
          BY <5>1, <5>2 DEF EndsFrom, Saying
      <4>5. ~Starting(t)'
        BY <3>4 DEF Starting, ExchangePoint, Beginning, OpenPoint, Saying
      <4> QED
        BY <4>3, <4>4, <4>5
    <3>5. CASE Starting(t)' /\ pc'[t] \notin Beginning \cup Saying
      <4> SUFFICES ASSUME autoReconnect'
                   PROVE  isStreaming' /\ \A u \in Updater : pc'[u] # "upd_stop"
        BY <3>5
      <4>1. autoReconnect /\ Starting(t)
        BY <3>2, <3>3, <3>5 DEF Quiet
      <4>2. isStreaming /\ streamLock = t /\ \A u \in Updater : pc[u] # "upd_stop"
        BY <2>1, <4>1, OnIsLocked DEF OnProgress
      <4>3. \A u \in Updater : pc'[u] # "upd_stop"
        BY <4>1, <4>2, NobodyGivesUp
      <4>4. isStreaming'
        BY <3>5, <4>2, EndOfStreaming
      <4> QED
        BY <4>3, <4>4
    <3> QED
      BY <3>4, <3>5
  <2> QED
    BY <2>2, <2>3, <2>4, <2>5 DEF Loud
<1> QED
  BY <1>2, <1>3

(***************************************************************************)
(* streaming_on() with automatic reconnection, called while no update      *)
(* thread was left over, returns True only while is_streaming is set,      *)
(* whatever became of the connection meanwhile.                            *)
(***************************************************************************)
OnStep == \A t \in Controller : OnReturnsTrue(t) /\ autoReconnect /\ ~crowded => isStreaming'

LEMMA OnStepTaken ==
  ASSUME TypeOK, LocksHeld, OnProgress, [Next]_vars
  PROVE  OnStep
<1> SUFFICES ASSUME NEW t \in Controller, OnReturnsTrue(t), autoReconnect, ~crowded
             PROVE  isStreaming'
  BY DEF OnStep
<1>1. pc[t] = "x_exit" /\ Starting(t)
  BY DEF OnReturnsTrue, Starting, ExchangePoint
<1>2. isStreaming /\ streamLock = t /\ \A u \in Updater : pc[u] # "upd_stop"
  BY <1>1, OnIsLocked DEF OnProgress
<1> QED
  BY <1>1, <1>2, EndOfStreaming DEF EndsFrom

THEOREM StartedDriverStreams == Spec => StartedMeansStreaming
<1>1. Init => OnProgress
  <2>1. Init => \A t \in Controller : pc[t] = "idle"
    BY ThreadAssumption DEF Init, Caller
  <2> QED
    BY <2>1 DEF OnProgress, Starting, ExchangePoint, Beginning, OpenPoint, Saying
<1>2. DriverInv /\ DriverInv' /\ OnProgress /\ [Next]_vars => OnProgress'
  BY OnProgressKept DEF DriverInv
<1>3. DriverInv /\ OnProgress /\ [Next]_vars => [OnStep]_vars
  BY OnStepTaken DEF DriverInv
<1>4. Spec => [][OnStep]_vars
  BY InitDriverInv, DriverInvKept, <1>1, <1>2, <1>3, PTL DEF Spec
<1> QED
  BY <1>4 DEF StartedMeansStreaming, OnStep
=============================================================================
