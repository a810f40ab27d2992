--------------------------- MODULE StreamingDriver ---------------------------
(***************************************************************************)
(* Class Driver of schunk_fts_library/driver.py: streaming_on(),           *)
(* streaming_off(), the commands and parameter accesses that user threads  *)
(* call at the same time, and the background thread that reads the UDP     *)
(* stream (_update) and reconnects (_attempt_reconnect).  They share one   *)
(* Connection (module Connection), one Stream, the flags is_streaming and  *)
(* auto_reconnect, and two locks.                                          *)
(*                                                                         *)
(* A thread is at a control point pc[t].  A request to the sensor is the   *)
(* same sequence of points (x_...) whoever makes it; op[t] says which      *)
(* request it is and so where the thread goes on afterwards.  Times are    *)
(* abstracted: a wait that the code bounds by a clock may end at any       *)
(* moment its condition is not yet met.                                    *)
(***************************************************************************)
EXTENDS Connection

CONSTANTS
  Controller,   \* user threads that call streaming_on() and streaming_off()
  Commander,    \* user threads that send commands and access parameters
  UserOp,       \* what they ask for: a subset of "get", "set" and "run"
  Updater,      \* identities of update threads: the bound on how many exist at once
  NoThread,     \* not a thread
  AutoChoice,   \* the values of streaming_on's argument auto_reconnect
  Outage,       \* how the sensor may fail: a subset of "power", "cable" and "drop"
  BindMayFail   \* whether the UDP port can be invalid or taken

Caller == Controller \cup Commander

ASSUME ThreadAssumption ==
  /\ Thread = Caller \cup Updater
  /\ Caller \cap Updater = {}
  /\ NoThread \notin Thread
  /\ IsFiniteSet(Updater)
  /\ BindMayFail \in BOOLEAN
  /\ Outage \subseteq {"power", "cable", "drop"}
  /\ UserOp \subseteq {"get", "set", "run"}
  /\ AutoChoice \subseteq BOOLEAN
  /\ Answer = {"ok", "error"}   \* the error code of an answer: "00" or another

VARIABLES
  isStreaming,    \* Driver.is_streaming
  autoReconnect,  \* Driver.auto_reconnect
  updateThread,   \* Driver.stream_update_thread
  cmdLock,        \* who holds Driver._lock
  streamLock,     \* who holds Driver._streaming_lock
  streamCount,    \* Stream._open_count; _is_open is streamCount > 0
  lost,           \* connection_lost, the local variable of each update thread
  udp,            \* whether the sensor has been told to stream (environment)
  crowded,        \* history: an earlier update thread was alive when the call of
                  \* streaming_on() in progress began
  pc, op, reply   \* per thread: control point, request in progress, its answer

driverVars == <<isStreaming, autoReconnect, updateThread, cmdLock, streamLock,
                streamCount, lost, udp, crowded>>
threadVars == <<pc, op, reply>>
vars == <<connVars, driverVars, threadVars>>

(***************************************************************************)
(* The requests: the two get_parameter() of streaming_on, the output rate, *)
(* commands 40 and 41, and those a user thread makes by itself.            *)
(***************************************************************************)
Op == {"name", "hwid", "rate", "start", "stop", "get", "set", "run"}
SetUsesCmdLock(o) == o \in {"name", "hwid", "get", "rate", "set"}  \* mutant: so does set_parameter
UsesCmdLock(o) == o \in {"name", "hwid", "get"}                 \* get_parameter
UsesContext(o) == o \in {"name", "hwid", "get", "rate", "set"}  \* and set_parameter

\* "unsent": the connection was not open, so nothing was asked.  "empty": asked,
\* and receive() returned nothing.  "ok", "error": the error code of the answer.
Reply == {"unsent", "empty", "ok", "error"}

ExchangePoint == {"x_lock", "x_enter", "x_send", "x_recv", "x_wait", "x_exit"}
OpenPoint     == {"open_enter", "open_check", "open_mark"}
OnPoint       == {"on_start", "on_auto", "on_thread", "on_wait", "on_slept", "on_abort",
                  "on_forget", "on_close"}
OffPoint      == {"off_auto", "off_flag", "off_join", "off_close"}
UpdatePoint   == {"upd_enter", "upd_loop", "upd_close", "upd_retry", "upd_stop", "upd_exit"}
ReconnectPoint == {"rc_close", "rc_verify", "rc_lock", "rc_refused", "rc_unlock",
                   "rc_drop", "rc_done"}
CallerPoint  == {"idle"} \cup ExchangePoint \cup OpenPoint \cup OnPoint \cup OffPoint
UpdaterPoint == {"dead"} \cup ExchangePoint \cup OpenPoint \cup UpdatePoint \cup ReconnectPoint

TypeOK ==
  /\ ConnTypeOK
  /\ isStreaming \in BOOLEAN
  /\ autoReconnect \in BOOLEAN
  /\ updateThread \in Updater \cup {NoThread}
  /\ cmdLock \in Thread \cup {NoThread}
  /\ streamLock \in Controller \cup {NoThread}
  /\ streamCount \in Nat
  /\ lost \in [Updater -> BOOLEAN]
  /\ udp \in BOOLEAN
  /\ crowded \in BOOLEAN
  /\ pc \in [Thread -> CallerPoint \cup UpdaterPoint]
  /\ \A t \in Thread : pc[t] \in IF t \in Updater THEN UpdaterPoint ELSE CallerPoint
  /\ op \in [Thread -> Op \cup {"none"}]
  /\ reply \in [Thread -> Reply \cup {"none"}]

Init ==
  /\ ConnInit
  /\ isStreaming = FALSE
  /\ autoReconnect = FALSE
  /\ updateThread = NoThread
  /\ cmdLock = NoThread
  /\ streamLock = NoThread
  /\ streamCount = 0
  /\ lost = [u \in Updater |-> FALSE]
  /\ udp = FALSE
  /\ crowded = FALSE
  /\ pc = [t \in Thread |-> IF t \in Updater THEN "dead" ELSE "idle"]
  /\ op = [t \in Thread |-> "none"]
  /\ reply = [t \in Thread |-> "none"]

-----------------------------------------------------------------------------
Goto(t, from, to) ==
  /\ pc[t] = from
  /\ pc' = [pc EXCEPT ![t] = to]

\* Where a request begins: get_parameter takes _lock, set_parameter the context
\* only, run_command neither.
FirstPoint(o) ==
  IF UsesCmdLock(o) THEN "x_lock" ELSE IF UsesContext(o) THEN "x_enter" ELSE "x_send"

Ask(t, from, o) ==
  /\ Goto(t, from, FirstPoint(o))
  /\ op' = [op EXCEPT ![t] = o]
  /\ UNCHANGED reply

Answered(t, from, r) ==
  /\ Goto(t, from, "x_exit")
  /\ reply' = [reply EXCEPT ![t] = r]
  /\ UNCHANGED op

-----------------------------------------------------------------------------
(***************************************************************************)
(* One request and its answer.                                             *)
(***************************************************************************)
AcquireCmdLock(t) ==
  /\ Goto(t, "x_lock", "x_enter")
  /\ cmdLock = NoThread
  /\ cmdLock' = t
  /\ UNCHANGED <<connVars, op, reply, isStreaming, autoReconnect, updateThread,
                 streamLock, streamCount, lost, udp, crowded>>

EnterContext(t) ==
  /\ Goto(t, "x_enter", "x_send")
  /\ Enter
  /\ UNCHANGED <<driverVars, op, reply>>

\* The sensor obeys 40 and 41 when they reach it; while it boots it refuses 40.
UdpAfter(o) ==
  CASE Delivered /\ o = "start" -> (sensor = "up") \/ udp
    [] Delivered /\ o = "stop"  -> FALSE
    [] OTHER                    -> udp

SendRequest(t) ==
  \/ /\ isOpen
     /\ Goto(t, "x_send", "x_recv")
     /\ Send(IF sensor = "up" THEN "ok" ELSE "error")
     /\ udp' = UdpAfter(op[t])
     /\ UNCHANGED <<op, reply, isStreaming, autoReconnect, updateThread, cmdLock,
                    streamLock, streamCount, lost, crowded>>
  \/ /\ ~isOpen
     /\ Answered(t, "x_send", "unsent")
     /\ UNCHANGED <<connVars, driverVars>>

CallReceive(t) ==
  /\ \/ /\ Goto(t, "x_recv", "x_wait")
        /\ ReceiveBlocks(t)
        /\ UNCHANGED <<op, reply>>
     \/ /\ ~isOpen
        /\ Answered(t, "x_recv", "empty")
        /\ UNCHANGED connVars
  /\ UNCHANGED driverVars

GetAnswer(t) ==
  /\ \/ \E answer \in Answer :
          /\ ReceiveAnswer(t, answer)
          /\ Answered(t, "x_wait", answer)
     \/ /\ ReceiveEmpty(t)
        /\ Answered(t, "x_wait", "empty")
  /\ UNCHANGED driverVars

ReceiveError(t) ==
  /\ pc[t] = "x_wait"
  /\ ReceiveRaises(t)
  /\ UNCHANGED <<driverVars, threadVars>>

ReceiveGivesUp(t) ==
  /\ Answered(t, "x_wait", "empty")
  /\ ReceiveFails(t)
  /\ UNCHANGED driverVars

(***************************************************************************)
(* The end of a request: __exit__ of the context, release of _lock, and on *)
(* to what the caller does with the answer.  run_command parses an empty   *)
(* answer too, which raises struct.error; a request that was never sent    *)
(* has the default response, whose error code is empty.                    *)
(***************************************************************************)
Raises(t) == ~UsesContext(op[t]) /\ reply[t] = "empty"

\* The request asked next, if any, and the control point the thread goes to.
NextOp(t) ==
  CASE op[t] = "name" -> "hwid"
    [] op[t] = "hwid" -> "rate"
    [] op[t] = "rate" /\ reply[t] = "ok" -> "start"
    [] OTHER -> "none"

AfterReconnectRequest(t) ==
  CASE op[t] = "start" /\ reply[t] = "ok" -> "rc_done"
    [] Raises(t) -> "rc_unlock"
    [] OTHER -> "rc_refused"

AfterCallerRequest(t) ==
  CASE op[t] = "rate" -> "on_abort"
    [] op[t] = "stop" /\ ~Raises(t) -> "off_auto"
    [] OTHER -> "idle"

NextPoint(t) ==
  IF NextOp(t) # "none" THEN FirstPoint(NextOp(t))
  ELSE IF t \in Updater THEN AfterReconnectRequest(t)
  ELSE AfterCallerRequest(t)

\* The with-block of streaming_on or streaming_off ends here, in a return or in
\* an exception.
CallEnds == streamLock' = NoThread /\ crowded' = FALSE
ReleaseStreamLock(t) ==
  IF streamLock = t /\ NextPoint(t) = "idle" THEN CallEnds ELSE UNCHANGED <<streamLock, crowded>>

\* __exit__ before its last step.
LeavingContext(t) ==
  /\ pc[t] = "x_exit" /\ UsesContext(op[t])
  /\ ExitGoesOn(t)
  /\ UNCHANGED <<driverVars, threadVars>>

FinishRequest(t) ==
  /\ Goto(t, "x_exit", NextPoint(t))
  /\ IF UsesContext(op[t]) THEN ExitReturns(t) ELSE UNCHANGED connVars
  /\ cmdLock' = IF UsesCmdLock(op[t]) THEN NoThread ELSE cmdLock
  /\ ReleaseStreamLock(t)
  /\ op' = [op EXCEPT ![t] = NextOp(t)]
  /\ reply' = [reply EXCEPT ![t] = "none"]
  /\ UNCHANGED <<isStreaming, autoReconnect, updateThread, streamCount, lost, udp>>

Request(t) ==
  \/ AcquireCmdLock(t) \/ EnterContext(t) \/ SendRequest(t) \/ CallReceive(t)
  \/ GetAnswer(t) \/ ReceiveError(t) \/ ReceiveGivesUp(t)
  \/ LeavingContext(t) \/ FinishRequest(t)

\* A user thread calls get_parameter, set_parameter or a command.
CallCommand(t) ==
  /\ t \in Commander
  /\ \E o \in UserOp : Ask(t, "idle", o)
  /\ UNCHANGED <<connVars, driverVars>>

-----------------------------------------------------------------------------
(***************************************************************************)
(* Connection.open(), from streaming_on or from _attempt_reconnect.        *)
(***************************************************************************)
OpenEnter(t) ==
  /\ Goto(t, "open_enter", "open_check")
  /\ Enter
  /\ UNCHANGED <<driverVars, op, reply>>

\* False: streaming_on returns False, _attempt_reconnect too.
OpenFails(t) ==
  /\ ~isOpen
  /\ Goto(t, "open_check", IF t \in Updater THEN "upd_loop" ELSE "idle")
  /\ isStreaming' = (isStreaming /\ t \in Updater)
  /\ IF t \in Updater THEN UNCHANGED <<streamLock, crowded>> ELSE CallEnds
  /\ UNCHANGED <<connVars, op, reply, autoReconnect, updateThread, cmdLock,
                 streamCount, lost, udp>>

OpenSucceeds(t) ==
  /\ isOpen
  /\ Goto(t, "open_check", "open_mark")
  /\ UNCHANGED <<connVars, driverVars, op, reply>>

OpenMarks(t) ==
  /\ Goto(t, "open_mark", IF t \in Updater THEN "rc_verify" ELSE "on_start")
  /\ MarkPersistent
  /\ UNCHANGED <<driverVars, op, reply>>

Open(t) == OpenEnter(t) \/ OpenFails(t) \/ OpenSucceeds(t) \/ OpenMarks(t)

-----------------------------------------------------------------------------
(***************************************************************************)
(* streaming_on().  A call that finds is_streaming set returns True at     *)
(* once and changes nothing, and so does one whose timeout_sec is not a    *)
(* float: stuttering steps.  The bound on update threads bounds the calls. *)
(***************************************************************************)
Alive(u) == pc[u] # "dead"

CallStreamingOn(t) ==
  /\ t \in Controller
  /\ streamLock = NoThread
  /\ ~isStreaming
  /\ \E u \in Updater : ~Alive(u)
  /\ Goto(t, "idle", "open_enter")
  /\ streamLock' = t
  /\ crowded' = \E u \in Updater : Alive(u)
  /\ UNCHANGED <<connVars, op, reply, isStreaming, autoReconnect, updateThread,
                 cmdLock, streamCount, lost, udp>>

SayStreaming(t) ==
  /\ Goto(t, "on_start", "on_auto")
  /\ isStreaming' = TRUE
  /\ UNCHANGED <<connVars, op, reply, autoReconnect, updateThread, cmdLock,
                 streamLock, streamCount, lost, udp, crowded>>

SetAutoReconnect(t) ==
  /\ Goto(t, "on_auto", "on_thread")
  /\ autoReconnect' \in AutoChoice
  /\ UNCHANGED <<connVars, op, reply, isStreaming, updateThread, cmdLock,
                 streamLock, streamCount, lost, udp, crowded>>

\* Nobody sees the Thread object before it is started: its readers take the lock.
StartUpdateThread(t) ==
  /\ pc[t] = "on_thread"
  /\ \E u \in Updater :
       /\ ~Alive(u)
       /\ updateThread' = u
       /\ pc' = [pc EXCEPT ![t] = "on_wait", ![u] = "upd_enter"]
  /\ UNCHANGED <<connVars, op, reply, isStreaming, autoReconnect, cmdLock,
                 streamLock, streamCount, lost, udp, crowded>>

StreamIsOpen == streamCount > 0

\* while not self.stream.is_open(): the first test, and those after a sleep.
StreamOpens(t) ==
  /\ StreamIsOpen
  /\ \/ Ask(t, "on_wait", "name")
     \/ Ask(t, "on_slept", "name")
  /\ UNCHANGED <<connVars, driverVars>>

StreamNotYetOpen(t) ==
  /\ ~StreamIsOpen
  /\ Goto(t, "on_wait", "on_slept")
  /\ UNCHANGED <<connVars, driverVars, op, reply>>

\* The clock is looked at before the stream is looked at again.
StreamTimesOut(t) ==
  /\ Goto(t, "on_slept", "idle")
  /\ isStreaming' = FALSE
  /\ CallEnds
  /\ UNCHANGED <<connVars, op, reply, autoReconnect, updateThread, cmdLock,
                 streamCount, lost, udp>>

\* The output rate was not accepted.
AbortStreaming(t) ==
  /\ Goto(t, "on_abort", "on_forget")
  /\ isStreaming' = FALSE
  /\ UNCHANGED <<connVars, op, reply, autoReconnect, updateThread, cmdLock,
                 streamLock, streamCount, lost, udp, crowded>>

\* Mutant: auto_reconnect is left as it was.
KeepReconnecting(t) ==
  /\ \/ Goto(t, "on_forget", "on_close")
     \/ Goto(t, "off_auto", "off_flag")
  /\ UNCHANGED <<connVars, driverVars, op, reply>>

AbortReconnect(t) ==
  /\ \/ Goto(t, "on_forget", "on_close")
     \/ Goto(t, "off_auto", "off_flag")
  /\ autoReconnect' = FALSE
  /\ UNCHANGED <<connVars, op, reply, isStreaming, updateThread, cmdLock,
                 streamLock, streamCount, lost, udp, crowded>>

\* The last statement of a failed streaming_on and of streaming_off.
CloseAndReturn(t) ==
  /\ \/ Goto(t, "on_close", "idle")
     \/ Goto(t, "off_close", "idle")
  /\ Close
  /\ CallEnds
  /\ UNCHANGED <<op, reply, isStreaming, autoReconnect, updateThread, cmdLock,
                 streamCount, lost, udp>>

-----------------------------------------------------------------------------
\* streaming_off() begins with command 41.
CallStreamingOff(t) ==
  /\ t \in Controller
  /\ streamLock = NoThread
  /\ Ask(t, "idle", "stop")
  /\ streamLock' = t
  /\ UNCHANGED <<connVars, isStreaming, autoReconnect, updateThread, cmdLock,
                 streamCount, lost, udp, crowded>>

StopStreaming(t) ==
  /\ Goto(t, "off_flag", "off_join")
  /\ isStreaming' = FALSE
  /\ UNCHANGED <<connVars, op, reply, autoReconnect, updateThread, cmdLock,
                 streamLock, streamCount, lost, udp, crowded>>

\* Mutant: the join is forgotten.
NoJoin(t) ==
  /\ Goto(t, "off_join", "off_close")
  /\ UNCHANGED <<connVars, driverVars, op, reply>>

JoinUpdateThread(t) ==
  /\ Goto(t, "off_join", "off_close")
  /\ updateThread # NoThread => ~Alive(updateThread)
  /\ UNCHANGED <<connVars, driverVars, op, reply>>

Control(t) ==
  \/ CallStreamingOn(t) \/ SayStreaming(t) \/ SetAutoReconnect(t)
  \/ StartUpdateThread(t) \/ StreamOpens(t)
  \/ StreamNotYetOpen(t) \/ StreamTimesOut(t) \/ AbortStreaming(t)
  \/ AbortReconnect(t) \/ CloseAndReturn(t)
  \/ CallStreamingOff(t) \/ StopStreaming(t) \/ JoinUpdateThread(t)

-----------------------------------------------------------------------------
(***************************************************************************)
(* The update thread.                                                      *)
(***************************************************************************)
\* with self.stream: a second entry only counts, a bind may fail.
EnterStream(u) ==
  /\ Goto(u, "upd_enter", "upd_loop")
  /\ lost' = [lost EXCEPT ![u] = FALSE]
  /\ \/ streamCount' = streamCount + 1
     \/ BindMayFail /\ ~StreamIsOpen /\ UNCHANGED streamCount
  /\ UNCHANGED <<connVars, op, reply, isStreaming, autoReconnect, updateThread,
                 cmdLock, streamLock, udp, crowded>>

ContinuesUntilLost(u) == isStreaming /\ ~lost[u]   \* mutant: a lost connection ends the loop

\* while self.is_streaming or (connection_lost and self.auto_reconnect)
Continues(u) == isStreaming \/ (lost[u] /\ autoReconnect)

\* Packets arrive, about one per millisecond.
Flowing == udp /\ sensor = "up" /\ StreamIsOpen

ReadPackets(u) ==
  /\ pc[u] = "upd_loop"
  /\ Continues(u)
  /\ Flowing
  /\ lost' = [lost EXCEPT ![u] = FALSE]
  /\ UNCHANGED <<connVars, threadVars, isStreaming, autoReconnect, updateThread,
                 cmdLock, streamLock, streamCount, udp, crowded>>

(***************************************************************************)
(* No packet for more than timeout_sec: none comes, or another update      *)
(* thread takes them all from the shared socket.                           *)
(***************************************************************************)
NoPackets(u) == ~Flowing \/ \E v \in Updater \ {u} : Alive(v)

LoseConnection(u) ==
  /\ pc[u] = "upd_loop"
  /\ Continues(u)
  /\ NoPackets(u)
  /\ pc' = [pc EXCEPT ![u] = IF lost[u] THEN "upd_retry" ELSE "upd_close"]
  /\ lost' = [lost EXCEPT ![u] = TRUE]
  /\ UNCHANGED <<connVars, op, reply, isStreaming, autoReconnect, updateThread,
                 cmdLock, streamLock, streamCount, udp, crowded>>

\* connection.close(), when the loss is noticed, when a reconnection begins and
\* when it fails because the answer could not be parsed.
CloseConnection(u) ==
  /\ \/ Goto(u, "upd_close", "upd_retry")
     \/ Goto(u, "rc_close", "open_enter")
     \/ Goto(u, "rc_drop", "upd_loop")
  /\ Close
  /\ UNCHANGED <<driverVars, op, reply>>

\* Mutant: is_streaming is reset although a reconnection follows.
RetryAndStop(u) ==
  /\ Goto(u, "upd_retry", "upd_stop")
  /\ UNCHANGED <<connVars, driverVars, op, reply>>

\* if self.auto_reconnect: ... else: ...
RetryOrStop(u) ==
  /\ Goto(u, "upd_retry", IF autoReconnect THEN "rc_close" ELSE "upd_stop")
  /\ UNCHANGED <<connVars, driverVars, op, reply>>

\* The flag may by now be that of a later streaming_on().
GiveUpStreaming(u) ==
  /\ Goto(u, "upd_stop", "upd_loop")
  /\ isStreaming' = FALSE
  /\ UNCHANGED <<connVars, op, reply, autoReconnect, updateThread, cmdLock,
                 streamLock, streamCount, lost, udp, crowded>>

LeaveLoop(u) ==
  /\ ~Continues(u)
  /\ Goto(u, "upd_loop", "upd_exit")
  /\ UNCHANGED <<connVars, driverVars, op, reply>>

\* Mutants of Stream.__exit__: it counts down without looking; it does not count down.
ExitStreamUnguarded(u) ==
  /\ Goto(u, "upd_exit", "dead")
  /\ streamCount' = streamCount - 1
  /\ lost' = [lost EXCEPT ![u] = FALSE]
  /\ UNCHANGED <<connVars, op, reply, isStreaming, autoReconnect, updateThread,
                 cmdLock, streamLock, udp, crowded>>
ExitStreamKeepsCount(u) ==
  /\ Goto(u, "upd_exit", "dead")
  /\ streamCount' = IF streamCount > 1 THEN streamCount ELSE 0
  /\ lost' = [lost EXCEPT ![u] = FALSE]
  /\ UNCHANGED <<connVars, op, reply, isStreaming, autoReconnect, updateThread,
                 cmdLock, streamLock, udp, crowded>>

\* Stream.__exit__, whoever opened it, and the end of the thread.
ExitStream(u) ==
  /\ Goto(u, "upd_exit", "dead")
  /\ streamCount' = IF streamCount > 1 THEN streamCount - 1 ELSE 0
  /\ lost' = [lost EXCEPT ![u] = FALSE]
  /\ UNCHANGED <<connVars, op, reply, isStreaming, autoReconnect, updateThread,
                 cmdLock, streamLock, udp, crowded>>

-----------------------------------------------------------------------------
(***************************************************************************)
(* _attempt_reconnect(), after close() and open().                         *)
(***************************************************************************)
VerifyOpen(u) ==
  /\ Goto(u, "rc_verify", IF isOpen THEN "rc_lock" ELSE "upd_loop")
  /\ UNCHANGED <<connVars, driverVars, op, reply>>

\* with self._lock: from here to ReleaseReconnect the requests are made under it.
LockReconnect(u) ==
  /\ cmdLock = NoThread
  /\ Ask(u, "rc_lock", "rate")
  /\ cmdLock' = u
  /\ UNCHANGED <<connVars, isStreaming, autoReconnect, updateThread, streamLock,
                 streamCount, lost, udp, crowded>>

\* Output rate or command 40 not accepted: close() and return False.
ReconnectRefused(u) ==
  /\ Goto(u, "rc_refused", "upd_loop")
  /\ Close
  /\ cmdLock' = NoThread
  /\ UNCHANGED <<op, reply, isStreaming, autoReconnect, updateThread, streamLock,
                 streamCount, lost, udp, crowded>>

\* Mutant: the handler of struct.error runs with the lock still held.
ReconnectRaisesLocked(u) ==
  /\ Goto(u, "rc_unlock", "rc_drop")
  /\ UNCHANGED <<connVars, driverVars, op, reply>>

\* struct.error leaves the with-block before its handler calls close().
ReconnectRaises(u) ==
  /\ Goto(u, "rc_unlock", "rc_drop")
  /\ cmdLock' = NoThread
  /\ UNCHANGED <<connVars, op, reply, isStreaming, autoReconnect, updateThread,
                 streamLock, streamCount, lost, udp, crowded>>

ReconnectSucceeds(u) ==
  /\ Goto(u, "rc_done", "upd_loop")
  /\ cmdLock' = NoThread
  /\ lost' = [lost EXCEPT ![u] = FALSE]
  /\ UNCHANGED <<connVars, op, reply, isStreaming, autoReconnect, updateThread,
                 streamLock, streamCount, udp, crowded>>

Update(u) ==
  \/ EnterStream(u) \/ ReadPackets(u) \/ LoseConnection(u) \/ CloseConnection(u)
  \/ RetryOrStop(u) \/ GiveUpStreaming(u) \/ LeaveLoop(u) \/ ExitStream(u)
  \/ VerifyOpen(u) \/ LockReconnect(u) \/ ReconnectRefused(u)
  \/ ReconnectRaises(u) \/ ReconnectSucceeds(u)

-----------------------------------------------------------------------------
\* Switched off, the sensor forgets that it was streaming; unplugged, it does not.
Environment ==
  /\ \/ /\ SensorGoesDown
        /\ \E o \in Outage \ {"drop"} : udp' = (udp /\ o = "cable")
     \/ "drop" \in Outage /\ SensorDropsConnection /\ UNCHANGED udp
     \/ (SensorBoots \/ SensorReady) /\ UNCHANGED udp
  /\ UNCHANGED <<threadVars, isStreaming, autoReconnect, updateThread, cmdLock,
                 streamLock, streamCount, lost, crowded>>

Next ==
  \/ Environment
  \/ \E t \in Thread : Request(t) \/ Open(t)
  \/ \E t \in Commander : CallCommand(t)
  \/ \E t \in Controller : Control(t)
  \/ \E u \in Updater : Update(u)

Spec == Init /\ [][Next]_vars

-----------------------------------------------------------------------------
(***************************************************************************)
(* The two locks of the driver protect what they are meant to: _lock is    *)
(* held by the one thread that is between its acquisition and its release  *)
(* (a get_parameter, or the with-block of a reconnection), _streaming_lock *)
(* by the one controller that is inside streaming_on or streaming_off.     *)
(* set_parameter and run_command take neither: the requests of two threads *)
(* on one socket may get each other's answers all the same.                *)
(***************************************************************************)
UnderCmdLock(t) ==
  \/ pc[t] \in ExchangePoint \ {"x_lock"} /\ (UsesCmdLock(op[t]) \/ t \in Updater)
  \/ pc[t] \in {"rc_refused", "rc_unlock", "rc_done"}

UnderStreamLock(t) ==
  \/ t \in Caller /\ pc[t] \in OpenPoint \cup OnPoint \cup OffPoint
  \/ t \in Caller /\ pc[t] \in ExchangePoint /\ op[t] \in {"name", "hwid", "rate", "start", "stop"}

LocksHeld ==
  \A t \in Thread : /\ UnderCmdLock(t) <=> cmdLock = t
                    /\ UnderStreamLock(t) <=> streamLock = t

(***************************************************************************)
(* The UDP socket is counted right: it is never open for more threads than *)
(* are in their with-block, so when the last of them has left, the port is *)
(* free again, whatever entries failed to bind in between.  It may well be *)
(* open for fewer: the exit of a failed entry closes it under another.     *)
(***************************************************************************)
InStream == {u \in Updater : Alive(u) /\ pc[u] # "upd_enter"}
StreamCounted == streamCount <= Cardinality(InStream)

(***************************************************************************)
(* A driver that says it is streaming has an update thread behind it that  *)
(* has not left its loop, or a streaming_on call that is about to start    *)
(* one: sample() never waits for data nobody reads.                        *)
(***************************************************************************)
StreamingIsServed ==
  isStreaming => \/ \E u \in Updater : pc[u] \notin {"dead", "upd_exit"}
                 \/ \E t \in Controller : pc[t] \in {"on_auto", "on_thread"}

(***************************************************************************)
(* streaming_on() with automatic reconnection returns True only while      *)
(* is_streaming is still set, even if its update thread has lost the       *)
(* connection, closed it and reconnected under the start-up requests,      *)
(* provided that no update thread of an earlier call was left over when it *)
(* began.  One that was left by a call without automatic reconnection may  *)
(* be about to reset the flag, and does so after the new call has set it.  *)
(***************************************************************************)
OnReturnsTrue(t) == pc[t] = "x_exit" /\ op[t] = "start" /\ ~Raises(t) /\ pc'[t] = "idle"
StartedMeansStreaming ==
  [][ \A t \in Controller : OnReturnsTrue(t) /\ autoReconnect /\ ~crowded => isStreaming' ]_vars

(***************************************************************************)
(* When streaming_off() returns, the flags are reset, the connection is    *)
(* closed with a fresh socket, and the thread that the last streaming_on() *)
(* started has ended.  A thread that an earlier, failed streaming_on() has *)
(* left over is not waited for; if it is in the middle of a reconnection   *)
(* it opens the connection again.                                          *)
(***************************************************************************)
OffReturns(t) == pc[t] = "off_close" /\ pc'[t] = "idle"
OffMeansOff ==
  [][ \A t \in Controller : OffReturns(t) =>
        /\ ~isStreaming' /\ ~autoReconnect' /\ ~isOpen' /\ ~persistent'
        /\ updateThread # NoThread => pc'[updateThread] = "dead" ]_vars

(***************************************************************************)
(* Once streaming_off() is past its command 41, a sensor that does not     *)
(* stream stays that way until streaming_off() returns: no other thread    *)
(* starts it again behind its back.                                        *)
(***************************************************************************)
OffStopsSensor ==
  [][ \A t \in Controller : pc[t] \in OffPoint /\ ~udp => ~udp' ]_vars

-----------------------------------------------------------------------------
(***************************************************************************)
(* Fairness: a thread that can go on does so.  Nobody has to call the      *)
(* driver, and the environment does as it likes.  A user thread that waits *)
(* for _lock gets it if it is free again and again: the update thread,     *)
(* its only competitor once the other user threads are quiet, sleeps for   *)
(* more than a second between releasing it and asking for it again.        *)
(***************************************************************************)
Continue(t) ==
  \/ Request(t) \/ Open(t)
  \/ t \in Controller /\ pc[t] # "idle" /\ Control(t)
  \/ t \in Updater /\ Update(t)

FairSpec ==
  /\ Spec
  /\ \A t \in Thread : WF_vars(Continue(t))
  /\ \A t \in Caller : SF_vars(AcquireCmdLock(t))

Idle == \A t \in Caller : pc[t] = "idle"

(***************************************************************************)
(* Reconnection: if from some moment on the sensor is up and keeps its     *)
(* connections, nobody calls the driver, and there is at most one update   *)
(* thread and it has the UDP socket open, then a driver that streams with  *)
(* auto_reconnect has its data back for good.  The premises on the thread  *)
(* are needed.  A thread that a failed call has left over may close the    *)
(* connection under each reconnection of the other, and when it ends, its  *)
(* exit may close the UDP socket of the other, which then reconnects for   *)
(* ever and gets no data.                                                  *)
(***************************************************************************)
OneThreadLeft ==
  /\ \A u, v \in Updater : Alive(u) /\ Alive(v) => u = v
  /\ streamCount = Cardinality(InStream)
SettledDown ==
  /\ <>[](sensor = "up" /\ Idle /\ OneThreadLeft)
  /\ <>[][~SensorDropsConnection]_vars
Reconnects ==
  SettledDown => <>[](isStreaming /\ autoReconnect => Flowing /\ \E u \in Updater : Alive(u))

(***************************************************************************)
(* Every call of streaming_on and streaming_off returns, provided that the *)
(* other user threads leave the driver's lock alone for long enough: the   *)
(* join in streaming_off does not wait for a thread that waits for it.     *)
(***************************************************************************)
ControlReturns ==
  <>[](\A t \in Commander : pc[t] = "idle") =>
    \A t \in Controller : []<>(pc[t] = "idle")

\* A driver that is not streaming, with no call in progress, ends its threads.
IdleDriverStops ==
  (Idle /\ ~isStreaming) ~> (~Idle \/ isStreaming \/ \A u \in Updater : ~Alive(u))
=============================================================================
