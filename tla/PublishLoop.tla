---------------------------- MODULE PublishLoop ----------------------------
(***************************************************************************)
(* The thread of the ROS node that publishes data and state                *)
(* (_publish_data of schunk_fts_driver/driver.py), between on_activate,    *)
(* which starts it, and on_deactivate, which asks it to stop.              *)
(*                                                                         *)
(* "check" is the condition of the while loop, "wait" the call of          *)
(* sample_batch, "took" the rest of an iteration that has got samples, of  *)
(* which the announcement of a restored connection is a step of its own    *)
(* because it publishes before the level is looked at.  The publishers     *)
(* change only while the thread is not running, and so does everything     *)
(* else it shares with the callbacks, except the stop event.               *)
(***************************************************************************)
EXTENDS SensorFeed

VARIABLES
  rosOk,      \* rclpy.ok(): the context has not been shut down
  stop,       \* stop_event
  pc,         \* where the thread is; "ended" also before the first one
  since,      \* when the read in progress began to wait, else 0
  hand,       \* samples, the packet of this iteration, else the zero sample
  lost,       \* _connection_lost
  ok,         \* _is_sensor_ok
  lastLevel,  \* _last_state_level
  last,       \* the packet of _last_counter, <<>> for -1
  base,       \* _base_stamp_ros, _base_stamp_ns and _base_counter: <<>> for None
              \* and -1, else the stamp and, in one, the packet it belongs to
  latched,    \* the message that the latched topic ~/state holds
  out,        \* history: the last data message, its packet and its base
  fresh       \* history: the time at which the oldest packet was, or will be, sent
              \* that the last on_activate found not yet in the buffer

loop == <<stop, pc, since, hand, lost, ok, lastLevel, last, base, latched, out, fresh>>
vars == <<feed, rosOk, loop>>

None == <<>>
Base == [stamp : 0..MaxTime, packet : Packet]
LatchedState == Level \cup {"none", "lost"}

TypeOK ==
  /\ FeedTypeOK
  /\ rosOk \in BOOLEAN /\ stop \in BOOLEAN
  /\ pc \in {"ended", "check", "wait", "took"}
  /\ since \in 0..MaxTime
  /\ hand \in Packet
  /\ lost \in BOOLEAN /\ ok \in BOOLEAN
  /\ lastLevel \in Level \cup {"none"}
  /\ last \in {None} \cup Packet
  /\ base \in {None} \cup Base
  /\ latched \in LatchedState
  /\ out \in {None} \cup [stamp : Nat, packet : Packet, base : Base]
  /\ fresh \in 0..(MaxTime + 1)

LoopInit ==
  /\ rosOk = TRUE
  /\ stop = FALSE /\ pc = "ended"
  /\ since = 0 /\ hand = ZeroSample
  /\ lost = FALSE /\ lastLevel = "none"
  /\ last = None /\ base = None
  /\ latched = "none" /\ out = None /\ fresh = 0

-----------------------------------------------------------------------------
\* When the packet is or will be sent that the library puts next.
NextToPut == IF flight = <<>> THEN now + 1 ELSE Head(flight).sent

\* The end of on_activate: old samples and the time base are dropped, and a new
\* thread is started.
ActivateOnOldSamples ==   \* mutant: clear_samples is not called
  /\ rosOk /\ pc = "ended"
  /\ stop' = FALSE /\ pc' = "check"
  /\ last' = None /\ base' = None
  /\ fresh' = NextToPut
  /\ UNCHANGED <<feed, rosOk, since, hand, lost, ok, lastLevel, latched, out>>
Activate ==
  /\ rosOk /\ pc = "ended"
  /\ stop' = FALSE /\ pc' = "check"
  /\ ClearSamples
  /\ last' = None /\ base' = None
  /\ fresh' = NextToPut
  /\ UNCHANGED <<rosOk, since, hand, lost, ok, lastLevel, latched, out>>

\* The beginning of on_deactivate.
RequestStop ==
  /\ ~stop /\ stop' = TRUE
  /\ UNCHANGED <<feed, rosOk, pc, since, hand, lost, ok, lastLevel, last, base, latched, out, fresh>>

\* A signal shuts the rclpy context down.
ContextEnds ==
  /\ rosOk /\ rosOk' = FALSE
  /\ UNCHANGED <<feed, loop>>

\* while rclpy.ok() and not self.stop_event.is_set()
CheckStop ==
  /\ pc = "check"
  /\ \/ (~rosOk \/ stop) /\ pc' = "ended" /\ UNCHANGED since
     \/ rosOk /\ ~stop /\ pc' = "wait" /\ since' = now
  /\ UNCHANGED <<feed, rosOk, stop, hand, lost, ok, lastLevel, last, base, latched, out, fresh>>

\* samples = self.sensor.sample_batch(), when it returns some.
GetSamples ==
  /\ pc = "wait" /\ pc' = "took" /\ since' = 0
  /\ \/ TakePacket /\ hand' = Head(buffer)
     \/ ZeroSampleDue(since) /\ hand' = ZeroSample /\ UNCHANGED feed
  /\ UNCHANGED <<rosOk, stop, lost, ok, lastLevel, last, base, latched, out, fresh>>

\* samples is None: a connection that was in order is announced as lost, once.
GetNothing ==
  /\ pc = "wait" /\ pc' = "check" /\ since' = 0
  /\ NothingDue(since)
  /\ \/ ~lost /\ ok /\ lost' = TRUE /\ latched' = "lost"
     \/ (lost \/ ~ok) /\ UNCHANGED <<lost, latched>>
  /\ UNCHANGED <<feed, rosOk, stop, hand, ok, lastLevel, last, base, out, fresh>>

\* The first samples after a loss: the time base is reset, OK is published.
RestoreKeepsLevel ==   \* mutant: _last_state_level keeps the level before the loss
  /\ pc = "took" /\ lost
  /\ lost' = FALSE /\ last' = None /\ base' = None
  /\ latched' = "ok"
  /\ UNCHANGED <<feed, rosOk, stop, pc, since, hand, ok, lastLevel, out, fresh>>

RestoreKeepsBase ==    \* mutant: the time base is not reset
  /\ pc = "took" /\ lost
  /\ lost' = FALSE
  /\ latched' = "ok" /\ lastLevel' = "ok"
  /\ UNCHANGED <<feed, rosOk, stop, pc, since, hand, ok, last, base, out, fresh>>
AnnounceRestored ==
  /\ pc = "took" /\ lost
  /\ lost' = FALSE /\ last' = None /\ base' = None
  /\ latched' = "ok" /\ lastLevel' = "ok"
  /\ UNCHANGED <<feed, rosOk, stop, pc, since, hand, ok, out, fresh>>

\* _packet_gap, the packets skipped between two that were taken, -1 for None.
GapAcrossWrap(previous, counter) ==   \* mutant: the difference is not wrapped
  IF previous = None THEN 0 ELSE counter - previous.counter - 1
PacketGap(previous, counter) ==
  IF previous = None THEN 0
  ELSE (counter - previous.counter - 1 + CounterSize) % CounterSize

\* The base that samples are stamped against once p has been looked at.
BaseWith(p) ==
  IF base = None THEN [stamp |-> now, packet |-> p] ELSE base

\* The stamp of p against b, in packet periods.
StampWithoutWrap(b, p) ==   \* mutant: the counters' difference is not wrapped
  b.stamp + (IF p.counter >= b.packet.counter THEN p.counter - b.packet.counter ELSE 0)
Stamp(b, p) ==
  b.stamp + ((p.counter - b.packet.counter + CounterSize) % CounterSize)

PublishData ==
  IF LevelFromBits(hand.status) = "ok"
  THEN LET b == BaseWith(hand)
       IN base' = b /\ out' = [stamp |-> Stamp(b, hand), packet |-> hand, base |-> b]
  ELSE UNCHANGED <<base, out>>

\* The rest of an iteration.  Publishing raises only in a context that has been
\* shut down; the thread then returns.
Process ==
  /\ pc = "took" /\ ~lost
  /\ LET level == LevelFromBits(hand.status)
     IN /\ last' = hand /\ hand' = ZeroSample
        /\ ok' = (level = "ok")
        /\ \/ /\ pc' = "check"
              /\ PublishData
              /\ lastLevel' = level
              /\ latched' = IF level # lastLevel THEN level ELSE latched
           \/ /\ ~rosOk /\ level = "ok"       \* the data publisher raises
              /\ pc' = "ended"
              /\ base' = BaseWith(hand)
              /\ UNCHANGED <<out, lastLevel, latched>>
           \/ /\ ~rosOk /\ level # lastLevel  \* the state publisher raises
              /\ pc' = "ended"
              /\ PublishData
              /\ lastLevel' = level
              /\ UNCHANGED latched
  /\ UNCHANGED <<feed, rosOk, stop, since, lost, fresh>>

LoopStep == CheckStop \/ GetSamples \/ GetNothing \/ AnnounceRestored \/ Process

-----------------------------------------------------------------------------
\* A node that has been configured and streams, activated and deactivated at will.
Init == FeedInit /\ LoopInit /\ streaming = TRUE /\ ok = TRUE

Next ==
  \/ Environment /\ UNCHANGED <<rosOk, loop>>
  \/ Activate \/ RequestStop \/ ContextEnds
  \/ LoopStep

Spec == Init /\ [][Next]_vars

\* A thread and a library that keep up: no time passes while the thread has something
\* to do, and packets are put in time.
Busy ==
  \/ pc \in {"check", "took"}
  \/ pc = "wait" /\ (buffer # <<>> \/ WaitedInVain(since))

KeepsUp == (Busy => now' = now) /\ OnTime'

PromptSpec == Init /\ [][Next /\ KeepsUp]_vars
-----------------------------------------------------------------------------
Running == pc \in {"check", "wait"}

\* p and q are of one start of the sensor, and the counter has not come round
\* from q to p.
Comparable(p, q) ==
  IsReal(p) /\ p.run = q.run /\ q.sent <= p.sent /\ p.sent - q.sent < CounterSize

\* Stamps are exact across the wrap of the counter, however many packets were
\* dropped or skipped and whatever the sensor reported in between: two packets of
\* one time base are as far apart in their stamps as they were at the sensor.
StampsExact ==
  out # None /\ Comparable(out.packet, out.base.packet) =>
    out.stamp - out.base.stamp = out.packet.sent - out.base.packet.sent

\* The gap that "Loop is too slow!" reports is the number of packets that were
\* dropped or lost since the last one, across the wrap of the counter.
GapIsExact ==
  pc = "took" /\ ~lost /\ last # None /\ hand # last /\ Comparable(hand, last) =>
      PacketGap(last, hand.counter) = hand.sent - last.sent - 1

\* Whoever subscribes to the latched state is told what the last samples said, or
\* that the connection is lost, through losses, restarts, zero samples and
\* activations.
LatchTellsTruth ==
  Running /\ (lost \/ last # None) =>
    latched = IF lost THEN "lost" ELSE LevelFromBits(last.status)

\* Nothing that was buffered while the node was inactive is looked at: a sample that
\* the thread takes was sent after the activation, or was still on its way then, in
\* the stream's socket or in the library's hands.  (Such a sample is older than the
\* activation and is published.)
OldSamplesDropped ==
  pc = "took" /\ IsReal(hand) => hand.sent >= fresh

\* test_error_recovery.py:269 "Test that driver handles counter wraparound (65535
\* -> 0) correctly.", with test_topics.py:697 "Test that timestamps increase
\* monotonically across all messages.": while the thread runs, no data message is
\* stamped earlier than the one before it.
StampsIncrease == [][out # None /\ out' # out => out'.stamp >= out.stamp]_vars

\* driver.py:391 "Connection restored - resuming data publication": the state
\* goes from lost to OK only when a packet has come.
RestoredMeansData == [][latched = "lost" /\ latched' = "ok" => IsReal(hand)]_vars
=============================================================================
