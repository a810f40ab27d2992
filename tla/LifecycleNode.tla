--------------------------- MODULE LifecycleNode ---------------------------
(***************************************************************************)
(* The lifecycle of the ROS node: its transitions, run one at a time by    *)
(* the executor, around the publishing thread of PublishLoop and the       *)
(* sensor of SensorFeed.                                                   *)
(*                                                                         *)
(* "node" is the primary state.  A transition whose callback waits is in   *)
(* "task": on_configure is streaming_on, then a sleep, then the read of    *)
(* the status; on_deactivate is the join of the thread.  Of the library    *)
(* the node sees whether streaming_on and streaming_off return or raise    *)
(* and whether is_streaming is left set; StreamingDriver has their steps.  *)
(***************************************************************************)
EXTENDS PublishLoop

VARIABLES
  node,     \* primary state of the lifecycle
  task,     \* what the transition in progress does, "none" between transitions
  prompt    \* history: the thread and the library have always kept up, and the
            \* sensor has never reported a status other than OK

lifecycle == <<node, task>>
nodeVars == <<vars, lifecycle>>
allVars == <<nodeVars, prompt>>

LifecycleTypeOK ==
  /\ TypeOK
  /\ node \in {"unconfigured", "inactive", "active", "finalized"}
  /\ task \in {"none", "start", "settle", "judge", "join"}
  /\ prompt \in BOOLEAN

StatusInOrder == StatusLevel(sensor.status) = "ok"

LifecycleInit ==
  /\ FeedInit /\ LoopInit
  /\ streaming = FALSE /\ ok = FALSE
  /\ node = "unconfigured" /\ task = "none"
  /\ prompt = StatusInOrder

\* A callback that raises sends the node through error processing, whose result
\* is the node's again or the end of it.
ErrorProcessing ==
  /\ task' = "none"
  /\ node' \in {"unconfigured", "finalized"}

-----------------------------------------------------------------------------
\* on_configure begins.
StartConfigure ==
  /\ node = "unconfigured" /\ task = "none"
  /\ task' = "start"
  /\ UNCHANGED <<vars, node>>

\* self.sensor.streaming_on(): it streams already, starts to, or returns False.
\* The result is not looked at here.
StreamingOnReturns ==
  /\ task = "start" /\ task' = "settle"
  /\ \/ streaming /\ UNCHANGED streaming
     \/ ~streaming /\ sensor.signal # "off" /\ streaming' = TRUE
     \/ ~streaming /\ UNCHANGED streaming
  /\ since' = now
  /\ UNCHANGED <<now, sensor, flight, buffer, lastPacket, rosOk, stop, pc, hand, lost, ok,
                 lastLevel, last, base, latched, out, fresh, node>>

\* A request of streaming_on raises, is_streaming stays set.
StreamingOnRaises ==
  /\ task = "start" /\ ~streaming
  /\ streaming' = TRUE
  /\ ErrorProcessing
  /\ UNCHANGED <<now, sensor, flight, buffer, lastPacket, rosOk, loop>>

\* time.sleep(0.1) is over.
Settle ==
  /\ task = "settle" /\ now - since >= Patience
  /\ task' = "judge" /\ since' = now
  /\ UNCHANGED <<feed, rosOk, stop, pc, hand, lost, ok, lastLevel, last, base, latched,
                 out, fresh, node>>

\* _get_status_level() reads a sample: SUCCESS if its status is in order.
JudgeSample ==
  /\ task = "judge" /\ task' = "none"
  /\ TakePacket
  /\ ok' = (StatusLevel(Head(buffer).status) = "ok")
  /\ node' = IF ok' THEN "inactive" ELSE "unconfigured"
  /\ since' = 0
  /\ UNCHANGED <<rosOk, stop, pc, hand, lost, lastLevel, last, base, latched, out, fresh>>

\* There is none, or a zero sample: FAILURE.  The driver is left as it is.
JudgeNoSignal ==
  /\ task = "judge" /\ task' = "none"
  /\ NothingDue(since) \/ ZeroSampleDue(since)
  /\ ok' = FALSE
  /\ since' = 0
  /\ UNCHANGED <<feed, rosOk, stop, pc, hand, lost, lastLevel, last, base, latched, out,
                 fresh, node>>

-----------------------------------------------------------------------------
OnActivate ==
  /\ node = "inactive" /\ task = "none"
  /\ Activate
  /\ node' = "active"
  /\ UNCHANGED task

\* on_deactivate sets the stop event ...
StartDeactivate ==
  /\ node = "active" /\ task = "none"
  /\ RequestStop
  /\ task' = "join"
  /\ UNCHANGED node

\* ... and joins the thread.
DeactivateWithoutJoin ==     \* mutant: the thread is not joined
  /\ task = "join" /\ task' = "none"
  /\ node' = "inactive"
  /\ UNCHANGED vars

DeactivateStopsStreaming ==  \* mutant: streaming_off is called here
  /\ task = "join" /\ task' = "none"
  /\ pc = "ended"
  /\ node' = "inactive"
  /\ streaming' = FALSE
  /\ UNCHANGED <<now, sensor, flight, buffer, lastPacket, rosOk, loop>>
FinishDeactivate ==
  /\ task = "join" /\ task' = "none"
  /\ pc = "ended"
  /\ node' = "inactive"
  /\ UNCHANGED vars

\* on_cleanup: streaming_off returns, the stream is closed and what it held is
\* gone, the samples stay in the buffer ...
OnCleanup ==
  /\ node = "inactive" /\ task = "none"
  /\ streaming' = FALSE /\ flight' = <<>>
  /\ node' = "unconfigured"
  /\ UNCHANGED <<now, sensor, buffer, lastPacket, rosOk, loop, task>>

\* ... or it raises in its first statement and resets nothing.
CleanupRaises ==
  /\ node = "inactive" /\ task = "none"
  /\ ErrorProcessing
  /\ UNCHANGED vars

\* on_shutdown, from any state, does nothing.
OnShutdown ==
  /\ node # "finalized" /\ task = "none"
  /\ node' = "finalized"
  /\ UNCHANGED <<vars, task>>

LifecycleNext ==
  \/ Environment /\ UNCHANGED <<rosOk, loop, lifecycle>>
  \/ LoopStep /\ UNCHANGED lifecycle
  \/ StartConfigure \/ StreamingOnReturns \/ StreamingOnRaises \/ Settle
  \/ JudgeSample \/ JudgeNoSignal
  \/ OnActivate \/ StartDeactivate \/ FinishDeactivate
  \/ OnCleanup \/ CleanupRaises \/ OnShutdown

\* A step, and whether the thread and the library still keep up.
LifecycleStep ==
  /\ LifecycleNext
  /\ prompt' = (prompt /\ KeepsUp /\ StatusInOrder')

LifecycleSpec == LifecycleInit /\ [][LifecycleStep]_allVars
-----------------------------------------------------------------------------
\* While the node is not active nothing is published, whatever transitions and
\* failed transitions came before: the thread of the last activation has ended.
\* (A node that is shut down while it is active publishes on.)
QuietUnlessActive == node \in {"unconfigured", "inactive"} => pc = "ended"

\* README.md:31 "Connected via TCP and UDP, Sensor is streaming": a node that is
\* inactive or active has a driver that streams, so that the publishing thread
\* waits for samples and does not spin on None.  The converse does not hold: a
\* failed on_configure or an on_cleanup that raises leaves the driver streaming.
ConfiguredMeansStreaming == node \in {"inactive", "active"} => streaming

\* Whatever the sensor reports, a status with which on_configure succeeds is one
\* that the thread publishes at, and the level of a state message fits its text:
\* the two ways to a level agree.
LevelsAgree == LevelFromBits(sensor.status) = StatusLevel(sensor.status)

\* driver.py:394 "Reset timestamp and counter tracking on reconnection": a thread
\* that keeps up with a sensor in order stamps no sample against a packet of an
\* earlier start of the sensor, whose counter has nothing to do with its own.  The
\* library has to keep up, too.  A loss that follows another status is not taken for
\* one, and a slow thread is given the new packets without having missed any: both
\* are left out by the premise.
BaseOfThisRun == prompt /\ out # None => out.base.packet.run = out.packet.run
=============================================================================
