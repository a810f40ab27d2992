------------------------ MODULE LifecycleNode_proofs ------------------------
(***************************************************************************)
(* Proofs about LifecycleNode, on those of PublishLoop_proofs: a step of   *)
(* the thread or of the sensor is one of PublishLoop, and a transition     *)
(* that is not leaves the thread's state alone.                            *)
(***************************************************************************)
EXTENDS LifecycleNode, PublishLoop_proofs

\* The transitions that are no steps of PublishLoop.
OfNodeOnly ==
  \/ StartConfigure \/ StreamingOnReturns \/ StreamingOnRaises \/ Settle
  \/ JudgeSample \/ JudgeNoSignal \/ FinishDeactivate
  \/ OnCleanup \/ CleanupRaises \/ OnShutdown

LEMMA StepsOfTheLoop ==
  ASSUME [LifecycleStep]_allVars
  PROVE  OfNodeOnly \/ [Next]_vars
BY DEF LifecycleStep, LifecycleNext, OfNodeOnly, Next, OnActivate, StartDeactivate,
       allVars, nodeVars, lifecycle

\* What a transition that is no step of PublishLoop may change.
LEMMA NodeLeavesThreadAlone ==
  ASSUME OfNodeOnly
  PROVE  UNCHANGED <<now, sensor, rosOk, stop, pc, hand, lost, lastLevel, last, base,
                     latched, out, fresh>>
BY DEF OfNodeOnly, StartConfigure, StreamingOnReturns, StreamingOnRaises, Settle,
       JudgeSample, JudgeNoSignal, FinishDeactivate, OnCleanup, CleanupRaises, OnShutdown,
       TakePacket, vars, feed, loop

LEMMA LifecycleInitType == LifecycleInit => LifecycleTypeOK
<1> SUFFICES ASSUME LifecycleInit PROVE LifecycleTypeOK
  OBVIOUS
<1>1. FeedTypeOK
  <2>1. FeedInit /\ streaming = FALSE
    BY DEF LifecycleInit
  <2>2. /\ sensor.signal = "on" /\ sensor.run = 1 /\ sensor.start = 0
        /\ sensor \in [signal : {"on"}, status : Statuses, run : {1}, start : {0}]
    BY <2>1 DEF FeedInit
  <2>3. sensor \in [signal : {"on", "cut", "off"}, status : SUBSET Flag,
                    run : 1..(MaxRestarts + 1), start : 0..MaxTime]
    BY <2>2, FeedAssumption
  <2>4. now = 0 /\ flight = <<>> /\ buffer = <<>> /\ lastPacket = 0
    BY <2>1 DEF FeedInit
  <2>5. streaming \in BOOLEAN
    BY <2>1
  <2> QED BY <2>2, <2>3, <2>4, <2>5, FeedAssumption DEF FeedTypeOK
<1>2. since \in 0..MaxTime /\ fresh \in 0..(MaxTime + 1) /\ hand \in Packet
  BY FeedAssumption, ZeroIsPacket DEF LifecycleInit, LoopInit
<1>3. rosOk \in BOOLEAN /\ stop \in BOOLEAN /\ lost \in BOOLEAN /\ ok \in BOOLEAN
  BY DEF LifecycleInit, LoopInit
<1>4. /\ pc \in {"ended", "check", "wait", "took"} /\ lastLevel \in Level \cup {"none"}
      /\ last \in {None} \cup Packet /\ base \in {None} \cup Base /\ latched \in LatchedState
      /\ out \in {None} \cup [stamp : Nat, packet : Packet, base : Base]
  BY DEF LifecycleInit, LoopInit, LatchedState
<1>5. prompt \in BOOLEAN
  BY DEF LifecycleInit, StatusInOrder
<1> QED BY <1>1, <1>2, <1>3, <1>4, <1>5 DEF TypeOK, LifecycleTypeOK, LifecycleInit

LEMMA NodeKeepsFeedType ==
  ASSUME LifecycleTypeOK, OfNodeOnly
  PROVE  FeedTypeOK' /\ since' \in 0..MaxTime /\ ok' \in BOOLEAN
<1> USE DEF LifecycleTypeOK, TypeOK, FeedTypeOK
<1>1. CASE StartConfigure \/ FinishDeactivate \/ CleanupRaises \/ OnShutdown
  BY <1>1 DEF StartConfigure, FinishDeactivate, CleanupRaises, OnShutdown, vars, feed, loop
<1>2. CASE StreamingOnReturns \/ StreamingOnRaises \/ OnCleanup
  <2>1. /\ streaming' \in BOOLEAN /\ (flight' = flight \/ flight' = <<>>)
        /\ UNCHANGED <<now, sensor, buffer, lastPacket, ok>>
        /\ since' = since \/ since' = now
    BY <1>2 DEF StreamingOnReturns, StreamingOnRaises, OnCleanup, loop
  <2>2. flight' \in Seq(Packet) /\ Len(flight') <= SocketSize
    <3>1. CASE flight' = flight
      BY <3>1
    <3>2. CASE flight' = <<>>
      BY <3>2, FeedAssumption, EmptyBounded
    <3> QED BY <2>1, <3>1, <3>2
  <2> QED BY <2>1, <2>2
<1>3. CASE Settle
  BY <1>3 DEF Settle, feed
<1>4. CASE JudgeSample
  <2>1. buffer' = Tail(buffer) /\ buffer # <<>> /\ lastPacket' = now
    BY <1>4 DEF JudgeSample, TakePacket
  <2>2. buffer' \in Seq(Packet) /\ Len(buffer') <= QueueSize
    BY <2>1, FeedAssumption, TailBounded
  <2>3. since' = 0 /\ ok' \in BOOLEAN /\ UNCHANGED <<now, sensor, streaming, flight>>
    BY <1>4 DEF JudgeSample, TakePacket
  <2> QED BY <2>1, <2>2, <2>3, FeedAssumption
<1>5. CASE JudgeNoSignal
  <2>1. UNCHANGED feed /\ since' = 0 /\ ok' = FALSE
    BY <1>5 DEF JudgeNoSignal
  <2>2. FeedTypeOK'
    BY <2>1 DEF feed
  <2>3. ok' \in BOOLEAN
    BY <2>1
  <2>4. since' \in 0..MaxTime
    BY <2>1, FeedAssumption
  <2> QED BY <2>2, <2>3, <2>4
<1> QED BY <1>1, <1>2, <1>3, <1>4, <1>5 DEF OfNodeOnly

LEMMA LifecycleTypeStep ==
  LifecycleTypeOK /\ [LifecycleStep]_allVars => LifecycleTypeOK'
<1> SUFFICES ASSUME LifecycleTypeOK, [LifecycleStep]_allVars PROVE LifecycleTypeOK'
  OBVIOUS
<1>1. TypeOK'
  <2>1. CASE OfNodeOnly
    BY <2>1, NodeKeepsFeedType, NodeLeavesThreadAlone DEF LifecycleTypeOK, TypeOK
  <2>2. CASE [Next]_vars
    BY <2>2, TypeStep DEF LifecycleTypeOK
  <2> QED BY <2>1, <2>2, StepsOfTheLoop
<1>2. node' \in {"unconfigured", "inactive", "active", "finalized"}
  BY DEF LifecycleTypeOK, LifecycleStep, LifecycleNext, allVars, nodeVars, lifecycle, StartConfigure,
         StreamingOnReturns, StreamingOnRaises, Settle, JudgeSample, JudgeNoSignal,
         OnActivate, StartDeactivate, FinishDeactivate, OnCleanup, CleanupRaises,
         OnShutdown, ErrorProcessing
<1>3. task' \in {"none", "start", "settle", "judge", "join"}
  BY DEF LifecycleTypeOK, LifecycleStep, LifecycleNext, allVars, nodeVars, lifecycle, StartConfigure,
         StreamingOnReturns, StreamingOnRaises, Settle, JudgeSample, JudgeNoSignal,
         OnActivate, StartDeactivate, FinishDeactivate, OnCleanup, CleanupRaises,
         OnShutdown, ErrorProcessing
<1>4. prompt' \in BOOLEAN
  BY DEF LifecycleTypeOK, LifecycleStep, allVars
<1> QED BY <1>1, <1>2, <1>3, <1>4 DEF LifecycleTypeOK

\* The type invariant of the node.
THEOREM LifecycleTypeCorrect == LifecycleSpec => []LifecycleTypeOK
BY LifecycleInitType, LifecycleTypeStep, PTL DEF LifecycleSpec
-----------------------------------------------------------------------------
\* The state in which each task is worked on, and the two properties.
TransitionInv ==
  /\ task \in {"start", "settle", "judge"} => node = "unconfigured"
  /\ task = "join" => node = "active"
  /\ QuietUnlessActive
  /\ ConfiguredMeansStreaming

\* No step of the sensor or of the thread starts the thread or ends the streaming.
LEMMA LoopStepsKeepQuiet ==
  ASSUME TypeOK, (Environment /\ UNCHANGED <<rosOk, loop>>) \/ LoopStep
  PROVE  streaming' = streaming /\ (pc = "ended" => pc' = "ended")
BY DEF Environment, Tick, Put, StatusChanges, SignalFails, SignalReturns, loop, LoopStep,
       CheckStop, GetSamples, TakePacket, GetNothing, AnnounceRestored, Process, feed

LEMMA TransitionStep ==
  LifecycleTypeOK /\ TransitionInv /\ [LifecycleStep]_allVars => TransitionInv'
<1> SUFFICES ASSUME LifecycleTypeOK, TransitionInv, [LifecycleStep]_allVars
             PROVE  TransitionInv'
  OBVIOUS
<1> USE DEF TransitionInv, QuietUnlessActive, ConfiguredMeansStreaming
<1>1. CASE (Environment /\ UNCHANGED <<rosOk, loop, lifecycle>>)
             \/ (LoopStep /\ UNCHANGED lifecycle)
  <2>1. UNCHANGED lifecycle /\ ((Environment /\ UNCHANGED <<rosOk, loop>>) \/ LoopStep)
    BY <1>1
  <2>2. streaming' = streaming /\ (pc = "ended" => pc' = "ended")
    BY <2>1, LoopStepsKeepQuiet DEF LifecycleTypeOK
  <2> QED BY <2>1, <2>2 DEF lifecycle
<1>2. CASE StartConfigure
  BY <1>2 DEF StartConfigure, vars, feed, loop
<1>3. CASE StreamingOnReturns
  BY <1>3 DEF StreamingOnReturns
<1>4. CASE StreamingOnRaises
  BY <1>4 DEF StreamingOnRaises, ErrorProcessing, loop
<1>5. CASE Settle
  BY <1>5 DEF Settle, feed
<1>6. CASE JudgeSample
  BY <1>6 DEF JudgeSample, TakePacket
<1>7. CASE JudgeNoSignal
  BY <1>7 DEF JudgeNoSignal, feed
<1>8. CASE OnActivate
  BY <1>8 DEF OnActivate, Activate, ClearSamples
<1>9. CASE StartDeactivate
  BY <1>9 DEF StartDeactivate, RequestStop, feed
<1>10. CASE FinishDeactivate
  BY <1>10 DEF FinishDeactivate, vars, feed, loop
<1>11. CASE OnCleanup
  BY <1>11 DEF OnCleanup, loop
<1>12. CASE CleanupRaises
  BY <1>12 DEF CleanupRaises, ErrorProcessing, vars, feed, loop
<1>13. CASE OnShutdown
  BY <1>13 DEF OnShutdown, vars, feed, loop
<1>14. CASE UNCHANGED allVars
  BY <1>14 DEF allVars, nodeVars, vars, feed, loop, lifecycle
<1> QED BY <1>1, <1>2, <1>3, <1>4, <1>5, <1>6, <1>7, <1>8, <1>9, <1>10, <1>11, <1>12,
           <1>13, <1>14 DEF LifecycleStep, LifecycleNext

LEMMA TransitionInit == LifecycleInit => TransitionInv
BY DEF LifecycleInit, LoopInit, TransitionInv, QuietUnlessActive, ConfiguredMeansStreaming

\* A node that is not active has no publishing thread.
THEOREM InactiveIsQuiet == LifecycleSpec => []QuietUnlessActive
<1>1. TransitionInv => QuietUnlessActive
  BY DEF TransitionInv
<1> QED BY <1>1, LifecycleInitType, LifecycleTypeStep, TransitionInit, TransitionStep, PTL
        DEF LifecycleSpec

\* A node that has been configured has a driver that streams.
THEOREM ConfiguredStreams == LifecycleSpec => []ConfiguredMeansStreaming
<1>1. TransitionInv => ConfiguredMeansStreaming
  BY DEF TransitionInv
<1> QED BY <1>1, LifecycleInitType, LifecycleTypeStep, TransitionInit, TransitionStep, PTL
        DEF LifecycleSpec

\* The latched state tells the truth whatever transitions the node goes through.
THEOREM LatchTellsTruthInLifecycle == LifecycleSpec => []LatchTellsTruth
<1>1. LifecycleInit => LatchInv
  BY DEF LifecycleInit, LoopInit, LatchInv
<1>2. LifecycleTypeOK /\ LatchInv /\ [LifecycleStep]_allVars => LatchInv'
  <2> SUFFICES ASSUME LifecycleTypeOK, LatchInv, [LifecycleStep]_allVars PROVE LatchInv'
    OBVIOUS
  <2>1. CASE OfNodeOnly
    BY <2>1, NodeLeavesThreadAlone DEF LatchInv
  <2>2. CASE [Next]_vars
    BY <2>2, LatchStep DEF LifecycleTypeOK
  <2> QED BY <2>1, <2>2, StepsOfTheLoop
<1>3. LatchInv => LatchTellsTruth
  BY DEF LatchInv, LatchTellsTruth, Running
<1> QED BY <1>1, <1>2, <1>3, LifecycleInitType, LifecycleTypeStep, PTL DEF LifecycleSpec
-----------------------------------------------------------------------------
(* Counters and order *)

\* A transition takes a packet out of the buffer, or drops what is on its way, and
\* brings none in.
LEMMA NodeAddsNothing ==
  ASSUME LifecycleTypeOK, OfNodeOnly
  PROVE  \/ UNCHANGED <<flight, buffer>>
         \/ flight' = <<>> /\ buffer' = buffer
         \/ flight' = flight /\ buffer # <<>> /\ buffer' = Tail(buffer)
BY DEF OfNodeOnly, StartConfigure, StreamingOnReturns, StreamingOnRaises, Settle,
       JudgeSample, JudgeNoSignal, FinishDeactivate, OnCleanup, CleanupRaises, OnShutdown,
       TakePacket, vars, feed, loop

\* What holds of the packets known holds when fewer are.
LEMMA FewerKnown ==
  ASSUME UNCHANGED <<sensor, hand, last, base, out>>,
         Elements(flight') \subseteq Elements(flight),
         Elements(buffer') \subseteq Elements(buffer), CountInv
  PROVE  CountInv'
<1>1. Known' \subseteq Known
  BY DEF Known
<1> QED BY <1>1 DEF CountInv, Counted

\* The invariants of PublishLoop_proofs hold of the node as well.
LEMMA NodeKeepsInvariants ==
  ASSUME LifecycleTypeOK, OfNodeOnly
  PROVE  /\ CountInv => CountInv'
         /\ OutInv => OutInv'
         /\ OrderInv => OrderInv'
         /\ OrderInv /\ FreshInv => FreshInv'
<1>1. UNCHANGED <<now, sensor, pc, hand, last, base, out, fresh>>
  BY NodeLeavesThreadAlone
<1>2. OutInv => OutInv'
  BY <1>1 DEF OutInv, Stamp
<1>3. flight \in Seq(Packet) /\ buffer \in Seq(Packet)
  BY QueuesAreSequences DEF LifecycleTypeOK
<1>4. CASE UNCHANGED <<flight, buffer>>
  <2>1. CountInv => CountInv'
    BY <1>1, <1>4, FewerKnown
  <2>2. OrderInv => OrderInv'
    BY <1>1, <1>4, OrderUnchanged
  <2> QED BY <1>1, <1>2, <1>4, <2>1, <2>2 DEF FreshInv, After, IsReal
<1>5. CASE flight' = <<>> /\ buffer' = buffer
  <2>1. CountInv => CountInv'
    BY <1>1, <1>5, FewerKnown DEF Elements
  <2>2. OrderInv => OrderInv'
    BY <1>1, <1>5 DEF OrderInv, Sorted, After, IsReal
  <2>3. FreshInv => FreshInv'
    BY <1>1, <1>5 DEF FreshInv, After, IsReal
  <2> QED BY <1>2, <2>1, <2>2, <2>3
<1>6. CASE flight' = flight /\ buffer # <<>> /\ buffer' = Tail(buffer)
  <2>1. CountInv => CountInv'
    BY <1>1, <1>3, <1>6, FewerKnown, ElementsOfTail
  <2>2. ASSUME OrderInv
        PROVE  /\ Sorted(buffer') /\ \A t : After(t, buffer) => After(t, buffer')
               /\ \A i \in 1..Len(buffer') : After(buffer'[i].sent, flight)
    <3>1. Sorted(buffer') /\ \A t : After(t, buffer) => After(t, buffer')
      BY <1>3, <1>6, <2>2, TailSorted DEF OrderInv
    <3>2. \A i \in 1..Len(buffer') : i + 1 \in 1..Len(buffer) /\ buffer'[i] = buffer[i + 1]
      BY <1>3, <1>6
    <3> QED BY <2>2, <3>1, <3>2 DEF OrderInv
  <2>3. OrderInv => OrderInv'
    <3> SUFFICES ASSUME OrderInv PROVE OrderInv'
      OBVIOUS
    <3>1. Sorted(flight)' /\ Sorted(buffer)'
      BY <1>1, <1>6, <2>2 DEF OrderInv, Sorted, IsReal
    <3>2. last # None => After(last.sent, buffer')
      BY <2>2 DEF OrderInv
    <3>3. pc = "took" /\ IsReal(hand) => After(hand.sent, buffer')
      BY <2>2 DEF OrderInv
    <3> QED BY <1>1, <1>6, <2>2, <3>1, <3>2, <3>3 DEF OrderInv, After, IsReal
  <2>4. OrderInv /\ FreshInv => FreshInv'
    <3> SUFFICES ASSUME OrderInv, FreshInv PROVE FreshInv'
      OBVIOUS
    <3>1. pc # "ended" => After(fresh - 1, buffer')
      BY <2>2 DEF FreshInv
    <3> QED BY <1>1, <1>6, <3>1 DEF FreshInv, After, IsReal
  <2> QED BY <1>2, <2>1, <2>3, <2>4
<1> QED BY <1>4, <1>5, <1>6, NodeAddsNothing

NodeInv == CountInv /\ OutInv /\ OrderInv /\ FreshInv

LEMMA NodeInvariant == LifecycleSpec => [](LifecycleTypeOK /\ NodeInv)
<1>1. LifecycleInit => NodeInv
  <2> SUFFICES ASSUME LifecycleInit PROVE NodeInv
    OBVIOUS
  <2>1. FeedInit /\ LoopInit
    BY DEF LifecycleInit
  <2>2. OutInv
    BY <2>1 DEF LoopInit, OutInv
  <2> QED BY <2>1, <2>2, CountInit, OrderInit, FreshInit DEF NodeInv
<1>2. LifecycleTypeOK /\ NodeInv /\ [LifecycleStep]_allVars => NodeInv'
  <2> SUFFICES ASSUME LifecycleTypeOK, NodeInv, [LifecycleStep]_allVars PROVE NodeInv'
    OBVIOUS
  <2>1. CASE OfNodeOnly
    BY <2>1, NodeKeepsInvariants DEF NodeInv
  <2>2. CASE [Next]_vars
    BY <2>2, CountStep, OutStep, OrderStep, FreshStep DEF LifecycleTypeOK, NodeInv
  <2> QED BY <2>1, <2>2, StepsOfTheLoop
<1> QED BY <1>1, <1>2, LifecycleInitType, LifecycleTypeStep, PTL DEF LifecycleSpec

\* Stamps are exact through all transitions of the node.
THEOREM StampsAreExactInLifecycle == LifecycleSpec => []StampsExact
<1>1. LifecycleTypeOK /\ NodeInv => StampsExact
  BY StampsFromInv DEF LifecycleTypeOK, NodeInv
<1> QED BY <1>1, NodeInvariant, PTL

\* And so are the gaps.
THEOREM GapsAreExactInLifecycle == LifecycleSpec => []GapIsExact
<1>1. LifecycleTypeOK /\ NodeInv => GapIsExact
  BY GapsFromInv DEF LifecycleTypeOK, NodeInv
<1> QED BY <1>1, NodeInvariant, PTL

\* No sample that was in the buffer when the node was activated is looked at, whatever
\* transitions came before.
THEOREM OldSamplesAreDroppedInLifecycle == LifecycleSpec => []OldSamplesDropped
<1>1. NodeInv => OldSamplesDropped
  BY DEF NodeInv, FreshInv, OldSamplesDropped
<1> QED BY <1>1, NodeInvariant, PTL
-----------------------------------------------------------------------------
\* What on_configure accepts the thread publishes at, whatever the sensor reports.
THEOREM LevelsAlwaysAgree == LifecycleSpec => []LevelsAgree
<1>1. LifecycleTypeOK => LevelsAgree
  <2> SUFFICES ASSUME LifecycleTypeOK PROVE LevelsAgree
    OBVIOUS
  <2>1. sensor.status \in SUBSET Flag
    BY DEF LifecycleTypeOK, TypeOK, FeedTypeOK
  <2> QED BY <2>1, StatusLevelsAgree DEF LevelsAgree
<1> QED BY <1>1, LifecycleInitType, LifecycleTypeStep, PTL DEF LifecycleSpec
-----------------------------------------------------------------------------
(* The time base *)

\* A packet of the sensor's present start, in order.
OfNow(p) == IsReal(p) /\ p.run = sensor.run /\ StatusLevel(p.status) = "ok"

\* A sensor without power lost it no longer ago than a packet is on its way.
Recent == sensor.signal = "off" => now - sensor.start <= Delay

\* What is on its way, while everything keeps up.
FlightInTime ==
  /\ OnTime
  /\ \A i \in 1..Len(flight) :
       OfNow(flight[i]) /\ (sensor.signal = "off" => flight[i].sent <= sensor.start)

\* What a running thread that has always kept up knows of the sensor.  While it has
\* a time base and no loss stands, it waits since the last packet or longer, but
\* never beyond its patience; that and a packet's delay are less than any sensor
\* needs to boot.
KeptUp ==
  /\ buffer # <<>> => Recent
  /\ \A i \in 1..Len(buffer) : OfNow(buffer[i])
  /\ pc = "took" => \/ hand = ZeroSample
                    \/ OfNow(hand) /\ Recent /\ lastPacket = now
  /\ base # None /\ ~lost =>
       /\ ok /\ base.packet.run = sensor.run
       /\ pc = "took" => hand # ZeroSample
       /\ pc = "check" => Recent /\ lastPacket = now
       /\ pc = "wait" => /\ since <= lastPacket /\ since <= now /\ now - since <= Patience
                         /\ sensor.signal = "off" => since <= sensor.start + Delay

BaseInv ==
  prompt => /\ StatusInOrder /\ BaseOfThisRun /\ FlightInTime
            /\ pc # "ended" => KeptUp

LEMMA ZeroIsNotReal == ~IsReal(ZeroSample) /\ LevelFromBits(ZeroSample.status) # "ok"
BY DEF IsReal, ZeroSample, LevelFromBits

\* While the thread runs, a step of the node alone leaves everything as it is.
LEMMA NodeWaitsForThread ==
  ASSUME TransitionInv, OfNodeOnly, pc # "ended"
  PROVE  UNCHANGED vars
BY DEF TransitionInv, QuietUnlessActive, OfNodeOnly, StartConfigure, StreamingOnReturns,
       StreamingOnRaises, Settle, JudgeSample, JudgeNoSignal, FinishDeactivate, OnCleanup,
       CleanupRaises, OnShutdown

LEMMA NumbersOfTheFeed ==
  ASSUME TypeOK
  PROVE  /\ now \in Nat /\ sensor.start \in Nat /\ sensor.start <= now /\ since \in Nat
         /\ lastPacket \in Nat /\ sensor.run \in 1..(MaxRestarts + 1)
         /\ flight \in Seq(Packet) /\ buffer \in Seq(Packet)
         /\ \A p \in Packet : p.sent \in Nat
         /\ Delay \in Nat /\ Patience \in Nat /\ Silence \in Nat /\ BootTime \in Nat
         /\ Patience <= Silence /\ BootTime > Silence + Delay
BY FeedAssumption DEF TypeOK, FeedTypeOK, Packet

\* Nothing is on its way any more when a sensor that lost power is back.
LEMMA NothingInFlightAtReturn ==
  ASSUME TypeOK, FlightInTime, sensor.signal = "off", now - sensor.start >= BootTime
  PROVE  flight = <<>>
<1> SUFFICES ASSUME flight # <<>> PROVE FALSE
  OBVIOUS
<1>1. Head(flight) = flight[1] /\ 1 \in 1..Len(flight) /\ Head(flight) \in Packet
  BY NumbersOfTheFeed
<1>2. Head(flight).sent <= sensor.start /\ now - Head(flight).sent <= Delay
  BY <1>1 DEF FlightInTime, OnTime
<1>3. Head(flight).sent \in Nat
  BY <1>1, NumbersOfTheFeed
<1>4. /\ now \in Nat /\ sensor.start \in Nat /\ Delay \in Nat /\ Silence \in Nat
      /\ BootTime \in Nat /\ BootTime > Silence + Delay
  BY NumbersOfTheFeed
<1> QED BY <1>2, <1>3, <1>4

LEMMA FlightStaysInTime ==
  ASSUME TypeOK, OrderInv, FlightInTime, StatusInOrder, OnTime', StatusInOrder',
         Environment \/ (UNCHANGED <<now, sensor>> /\ (flight' = flight \/ flight' = <<>>))
  PROVE  FlightInTime'
<1> USE NumbersOfTheFeed
<1>1. CASE UNCHANGED <<now, sensor>> /\ (flight' = flight \/ flight' = <<>>)
  <2>1. \A i \in 1..Len(flight') : i \in 1..Len(flight) /\ flight'[i] = flight[i]
    BY <1>1
  <2> QED BY <1>1, <2>1 DEF FlightInTime, OfNow
<1>2. CASE Tick
  <2> DEFINE packet == [counter |-> (now + 1 - sensor.start) % CounterSize,
                        status |-> sensor.status, sent |-> now + 1, run |-> sensor.run]
  <2>1. /\ sensor' = sensor
        /\ flight' = flight \/ (sensor.signal = "on" /\ flight' = Append(flight, packet))
    BY <1>2 DEF Tick
  <2>2. packet.run = sensor.run /\ packet.status = sensor.status /\ packet.run # 0
    OBVIOUS
  <2> HIDE DEF packet
  <2>3. OfNow(packet)
    BY <2>2 DEF OfNow, IsReal, StatusInOrder
  <2>4. CASE flight' = flight
    BY <2>1, <2>4 DEF FlightInTime, OfNow
  <2>5. CASE sensor.signal = "on" /\ flight' = Append(flight, packet)
    <3>1. \A i \in 1..Len(flight') : flight'[i] = packet \/ (i \in 1..Len(flight) /\ flight'[i] = flight[i])
      BY <2>5
    <3>2. \A i \in 1..Len(flight') : OfNow(flight'[i]) /\ sensor.signal # "off"
      BY <2>3, <2>5, <3>1 DEF FlightInTime
    <3> QED BY <2>1, <3>2 DEF FlightInTime, OfNow
  <2> QED BY <2>1, <2>4, <2>5
<1>3. CASE Put
  <2>1. sensor' = sensor /\ flight' = Tail(flight) /\ flight # <<>>
    BY <1>3 DEF Put
  <2>2. \A i \in 1..Len(flight') : flight'[i] = flight[i + 1] /\ i + 1 \in 1..Len(flight)
    BY <2>1
  <2> QED BY <2>1, <2>2 DEF FlightInTime, OfNow
<1>4. CASE StatusChanges
  <2>1. /\ sensor'.signal = sensor.signal /\ sensor'.run = sensor.run
        /\ sensor'.start = sensor.start /\ flight' = flight
    BY <1>4 DEF StatusChanges, TypeOK, FeedTypeOK
  <2> QED BY <2>1 DEF FlightInTime, OfNow
<1>5. CASE SignalFails
  <2>1. /\ sensor'.run = sensor.run /\ flight' = flight
        /\ sensor'.signal = "off" => sensor'.start = now
    BY <1>5 DEF SignalFails, TypeOK, FeedTypeOK
  <2>2. \A i \in 1..Len(flight) : flight[i].sent <= now
    BY DEF OrderInv, Sorted
  <2> QED BY <2>1, <2>2 DEF FlightInTime, OfNow
<1>6. CASE SignalReturns
  <2>1. flight' = flight /\ sensor'.signal = "on"
    BY <1>6 DEF SignalReturns, TypeOK, FeedTypeOK
  <2>2. CASE sensor.signal = "cut"
    <3>1. sensor'.run = sensor.run
      BY <1>6, <2>2 DEF SignalReturns, TypeOK, FeedTypeOK
    <3> QED BY <2>1, <3>1 DEF FlightInTime, OfNow
  <2>3. CASE sensor.signal # "cut"
    <3>1. flight = <<>>
      BY <1>6, <2>3, NothingInFlightAtReturn DEF SignalReturns
    <3> QED BY <2>1, <3>1 DEF FlightInTime
  <2> QED BY <2>2, <2>3
<1> QED BY <1>1, <1>2, <1>3, <1>4, <1>5, <1>6 DEF Environment

LEMMA EnvironmentKeepsUp ==
  ASSUME TypeOK, KeptUp, FlightInTime, Environment, UNCHANGED <<rosOk, loop>>,
         Busy => now' = now, pc # "ended"
  PROVE  KeptUp'
<1> USE FeedAssumption
<1>0. UNCHANGED <<pc, since, hand, lost, ok, base>>
  BY DEF loop
<1>1. /\ now \in Nat /\ sensor.start \in Nat /\ sensor.start <= now /\ since \in Nat
      /\ lastPacket \in Nat /\ Delay \in Nat /\ Patience \in Nat
      /\ Patience <= Silence /\ Silence \in Nat /\ BootTime \in Nat /\ BootTime > Silence + Delay
      /\ flight \in Seq(Packet) /\ buffer \in Seq(Packet)
  BY NumbersOfTheFeed
<1>2. CASE Tick
  <2>1. ~Busy /\ now' = now + 1
    BY <1>1, <1>2 DEF Tick
  <2>2. pc = "wait" /\ buffer = <<>> /\ now - since < Patience
    <3>1. pc = "wait" /\ buffer = <<>> /\ ~(now - since >= Patience)
      BY <2>1 DEF Busy, WaitedInVain, TypeOK
    <3> QED BY <1>1, <3>1
  <2>3. UNCHANGED <<sensor, buffer, lastPacket>>
    BY <1>2 DEF Tick
  <2>4. base # None /\ ~lost => now' - since <= Patience
    BY <2>1, <2>2, <1>1
  <2>5. since \in Int /\ now \in Int /\ now' = now + 1
    BY <1>1, <2>1
  <2> QED BY <1>0, <2>2, <2>3, <2>4, <2>5 DEF KeptUp
<1>3. CASE StatusChanges
  <2>1. /\ sensor'.signal = sensor.signal /\ sensor'.run = sensor.run
        /\ sensor'.start = sensor.start
    BY <1>3 DEF StatusChanges, TypeOK, FeedTypeOK
  <2>2. UNCHANGED <<now, buffer, lastPacket>>
    BY <1>3 DEF StatusChanges
  <2> QED BY <1>0, <2>1, <2>2 DEF KeptUp, OfNow, Recent
<1>4. CASE SignalFails
  <2>1. /\ sensor'.run = sensor.run
        /\ sensor'.signal = "off" => sensor'.start = now
    BY <1>4 DEF SignalFails, TypeOK, FeedTypeOK
  <2>2. UNCHANGED <<now, buffer, lastPacket>>
    BY <1>4 DEF SignalFails
  <2>3. Recent'
    BY <1>1, <2>1, <2>2 DEF Recent
  <2>4. since \in 0..MaxTime /\ (base # None /\ ~lost /\ pc = "wait" => since <= now)
    BY DEF KeptUp, TypeOK
  <2>5. pc = "wait" /\ base # None /\ ~lost /\ sensor'.signal = "off" => since <= sensor'.start + Delay
    BY <2>1, <2>4, <1>1 DEF KeptUp
  <2> QED BY <1>0, <2>1, <2>2, <2>3, <2>5 DEF KeptUp, OfNow
<1>5. CASE SignalReturns
  <2>1. UNCHANGED <<now, buffer, lastPacket>> /\ sensor'.signal = "on"
    BY <1>5 DEF SignalReturns, TypeOK, FeedTypeOK
  <2>2. CASE sensor.signal = "cut"
    <3>1. sensor'.run = sensor.run
      BY <1>5, <2>2 DEF SignalReturns, TypeOK, FeedTypeOK
    <3> QED BY <1>0, <2>1, <3>1 DEF KeptUp, OfNow, Recent
  <2>3. CASE sensor.signal # "cut"
    <3>1. sensor.signal = "off" /\ now - sensor.start >= BootTime
      BY <1>5, <2>3 DEF SignalReturns
    <3>2. ~Recent
      BY <3>1, <1>1 DEF Recent
    <3>3. buffer = <<>> /\ (pc = "took" => hand = ZeroSample)
      BY <3>2 DEF KeptUp
    <3>4. ~(base # None /\ ~lost)
      <4> SUFFICES ASSUME base # None /\ ~lost PROVE FALSE
        OBVIOUS
      <4>1. pc = "wait"
        BY <3>2, <3>3 DEF KeptUp, TypeOK
      <4>2. now - since <= Patience /\ since <= sensor.start + Delay
        BY <4>1, <3>1 DEF KeptUp
      <4> QED BY <4>2, <3>1, <1>1
    <3> QED BY <1>0, <2>1, <3>3, <3>4 DEF KeptUp
  <2> QED BY <2>2, <2>3
<1>6. CASE Put
  <2> DEFINE p == Head(flight)
  <2>1. /\ UNCHANGED <<now, sensor, lastPacket>> /\ flight # <<>>
        /\ buffer' = buffer \/ buffer' = Append(buffer, p)
    BY <1>6 DEF Put
  <2>2. p = flight[1] /\ 1 \in 1..Len(flight) /\ p \in Packet
    BY <1>1, <2>1
  <2>3. OfNow(p) /\ (sensor.signal = "off" => p.sent <= sensor.start) /\ now - p.sent <= Delay
    BY <2>1, <2>2 DEF FlightInTime, OnTime
  <2>4. Recent
    BY <1>1, <2>2, <2>3, NumbersOfTheFeed DEF Recent
  <2> HIDE DEF p
  <2>5. \A i \in 1..Len(buffer') : buffer'[i] = p \/ (i \in 1..Len(buffer) /\ buffer'[i] = buffer[i])
    BY <1>1, <2>1
  <2>6. \A i \in 1..Len(buffer') : OfNow(buffer[i])'
    BY <2>1, <2>3, <2>5 DEF KeptUp, OfNow
  <2> QED BY <1>0, <2>1, <2>4, <2>6 DEF KeptUp, Recent, OfNow
<1> QED BY <1>2, <1>3, <1>4, <1>5, <1>6 DEF Environment

LEMMA ProcessKeepsUp ==
  ASSUME TypeOK, KeptUp, BaseOfThisRun, prompt, Process
  PROVE  (pc' # "ended" => KeptUp') /\ (out' # None => out'.base.packet.run = out'.packet.run)
<1>1. /\ pc = "took" /\ ~lost /\ pc' \in {"check", "ended"}
      /\ UNCHANGED <<now, sensor, buffer, lastPacket, lost>>
      /\ ok' = (LevelFromBits(hand.status) = "ok")
  BY DEF Process, feed
<1>2. \/ base' = base /\ out' = out
      \/ /\ LevelFromBits(hand.status) = "ok" /\ base' = BaseWith(hand)
         /\ \/ out' = out
            \/ /\ out'.packet = hand /\ out'.base = base'
  BY DEF Process, PublishData
<1>3. LevelFromBits(hand.status) = "ok" => OfNow(hand)
  BY <1>1, ZeroIsNotReal DEF KeptUp
<1>4. base = None => BaseWith(hand).packet = hand
  BY DEF BaseWith
<1>5. base # None => BaseWith(hand) = base /\ base.packet.run = sensor.run
  BY <1>1 DEF BaseWith, KeptUp
<1>6. LevelFromBits(hand.status) = "ok" => BaseWith(hand).packet.run = sensor.run /\ hand.run = sensor.run
  BY <1>3, <1>4, <1>5 DEF OfNow
<1>7. out' # None => out'.base.packet.run = out'.packet.run
  BY <1>2, <1>6 DEF BaseOfThisRun
<1>8. OfNow(hand) => LevelFromBits(hand.status) = "ok"
  <2>1. hand.status \in SUBSET Flag
    BY DEF TypeOK, Packet
  <2> QED BY <2>1, StatusLevelsAgree DEF OfNow
<1>9. ASSUME pc' # "ended", base' # None
      PROVE  ok' /\ base'.packet.run = sensor.run /\ Recent /\ lastPacket = now
  <2>1. OfNow(hand)
    <3>1. CASE base = None
      BY <3>1, <1>2, <1>3, <1>9
    <3>2. CASE base # None
      BY <3>2, <1>1 DEF KeptUp
    <3> QED BY <3>1, <3>2
  <2>2. hand # ZeroSample
    BY <2>1, ZeroIsNotReal DEF OfNow
  <2> QED BY <1>1, <1>2, <1>5, <1>6, <1>8, <1>9, <2>1, <2>2 DEF KeptUp
<1>10. (\A i \in 1..Len(buffer) : OfNow(buffer[i])) => (\A i \in 1..Len(buffer') : OfNow(buffer[i])')
  BY <1>1 DEF OfNow
<1> QED BY <1>1, <1>7, <1>9, <1>10 DEF KeptUp, Recent, OfNow

\* What a step of the thread or of a callback does to what the thread knows.
LEMMA ThreadKeepsUp ==
  ASSUME TypeOK, KeptUp, BaseOfThisRun, prompt, pc # "ended",
         \/ RequestStop \/ ContextEnds \/ LoopStep
  PROVE  (pc' # "ended" => KeptUp') /\ (out' # None => out'.base.packet.run = out'.packet.run)
<1> USE FeedAssumption
<1>0. /\ now \in Nat /\ sensor.start \in Nat /\ sensor.start <= now /\ since \in Nat
      /\ lastPacket \in Nat /\ buffer \in Seq(Packet)
  BY DEF TypeOK, FeedTypeOK
<1>1. CASE RequestStop \/ ContextEnds
  BY <1>1 DEF RequestStop, ContextEnds, feed, loop, KeptUp, OfNow, Recent, BaseOfThisRun
<1>2. CASE CheckStop
  BY <1>0, <1>2 DEF CheckStop, feed, KeptUp, OfNow, Recent, BaseOfThisRun
<1>3. CASE GetSamples
  <2>1. /\ pc = "wait" /\ pc' = "took"
        /\ UNCHANGED <<now, sensor, lost, ok, base, out>>
    BY <1>3 DEF GetSamples, TakePacket, feed
  <2>2. out' # None => out'.base.packet.run = out'.packet.run
    BY <2>1 DEF BaseOfThisRun
  <2>3. CASE TakePacket /\ hand' = Head(buffer)
    <3>1. buffer # <<>> /\ buffer' = Tail(buffer) /\ lastPacket' = now
      BY <2>3 DEF TakePacket
    <3>2. \A i \in 1..Len(buffer') : i + 1 \in 1..Len(buffer) /\ buffer'[i] = buffer[i + 1]
      BY <1>0, <3>1
    <3>3. hand' = buffer[1] /\ 1 \in 1..Len(buffer)
      BY <1>0, <2>3, <3>1
    <3>4. OfNow(hand') /\ Recent
      BY <3>1, <3>3 DEF KeptUp
    <3>5. hand' # ZeroSample
      BY <3>4, ZeroIsNotReal DEF OfNow
    <3>6. \A i \in 1..Len(buffer') : OfNow(buffer[i])'
      BY <2>1, <3>2 DEF KeptUp, OfNow
    <3> QED BY <2>1, <2>2, <3>1, <3>4, <3>5, <3>6 DEF KeptUp, OfNow, Recent
  <2>4. CASE ZeroSampleDue(since) /\ hand' = ZeroSample /\ UNCHANGED feed
    <3>1. buffer = <<>> /\ now - lastPacket > Silence
      BY <2>4 DEF ZeroSampleDue, WaitedInVain
    <3>2. ~(base # None /\ ~lost)
      BY <1>0, <2>1, <3>1 DEF KeptUp
    <3> QED BY <2>1, <2>2, <2>4, <3>1, <3>2 DEF KeptUp, feed
  <2> QED BY <1>3, <2>3, <2>4 DEF GetSamples
<1>4. CASE GetNothing
  BY <1>4 DEF GetNothing, feed, KeptUp, OfNow, Recent, BaseOfThisRun
<1>5. CASE AnnounceRestored
  BY <1>5 DEF AnnounceRestored, feed, KeptUp, OfNow, Recent, BaseOfThisRun
<1>6. CASE Process
  BY <1>6, ProcessKeepsUp
<1> QED BY <1>1, <1>2, <1>3, <1>4, <1>5, <1>6 DEF LoopStep

LEMMA OrderInLifecycle ==
  LifecycleTypeOK /\ OrderInv /\ [LifecycleStep]_allVars => OrderInv'
BY StepsOfTheLoop, NodeKeepsInvariants, OrderStep DEF LifecycleTypeOK

LEMMA BaseStep ==
  LifecycleTypeOK /\ TransitionInv /\ OrderInv /\ BaseInv /\ [LifecycleStep]_allVars => BaseInv'
<1> SUFFICES ASSUME LifecycleTypeOK, TransitionInv, OrderInv, BaseInv, [LifecycleStep]_allVars,
                    prompt'
             PROVE  /\ StatusInOrder' /\ BaseOfThisRun' /\ FlightInTime'
                    /\ pc' # "ended" => KeptUp'
  BY DEF BaseInv
<1>1. prompt /\ (Busy => now' = now) /\ OnTime' /\ StatusInOrder'
  BY DEF LifecycleStep, KeepsUp, allVars, nodeVars, vars, feed, BaseInv, StatusInOrder,
         FlightInTime, OnTime
<1>2. TypeOK /\ StatusInOrder /\ BaseOfThisRun /\ FlightInTime /\ (pc # "ended" => KeptUp)
  BY <1>1 DEF LifecycleTypeOK, BaseInv
<1>3. ASSUME UNCHANGED vars PROVE BaseOfThisRun' /\ (pc' # "ended" => KeptUp')
  BY <1>1, <1>2, <1>3 DEF vars, feed, loop, BaseOfThisRun, KeptUp, OfNow, Recent
<1>9. FlightInTime'
  <2>1. Environment \/ (UNCHANGED <<now, sensor>> /\ (flight' = flight \/ flight' = <<>>))
    <3>1. CASE OfNodeOnly
      BY <3>1, NodeAddsNothing, NodeLeavesThreadAlone
    <3>2. CASE [Next]_vars
      BY <3>2 DEF Next, Activate, ClearSamples, RequestStop, ContextEnds, LoopStep, CheckStop,
         GetSamples, TakePacket, GetNothing, AnnounceRestored, Process, vars, feed
    <3> QED BY <3>1, <3>2, StepsOfTheLoop
  <2> QED BY <1>1, <1>2, <2>1, FlightStaysInTime
<1>4. CASE OfNodeOnly
  <2>1. CASE pc # "ended"
    BY <1>1, <1>3, <1>4, <1>9, <2>1, NodeWaitsForThread
  <2>2. CASE pc = "ended"
    BY <1>1, <1>2, <1>4, <1>9, <2>2, NodeLeavesThreadAlone DEF BaseOfThisRun
  <2> QED BY <2>1, <2>2
<1>5. CASE [Next]_vars
  <2>1. CASE Environment /\ UNCHANGED <<rosOk, loop>>
    <3>1. BaseOfThisRun' /\ pc' = pc
      BY <1>1, <1>2, <2>1 DEF loop, BaseOfThisRun
    <3> QED BY <1>1, <1>2, <1>9, <2>1, <3>1, EnvironmentKeepsUp
  <2>2. CASE Activate
    BY <1>1, <1>2, <1>9, <2>2 DEF Activate, ClearSamples, KeptUp, BaseOfThisRun
  <2>3. CASE RequestStop \/ ContextEnds \/ LoopStep
    <3>1. CASE pc = "ended"
      BY <1>1, <1>2, <1>9, <2>3, <3>1 DEF RequestStop, ContextEnds, LoopStep, CheckStop, GetSamples,
         GetNothing, AnnounceRestored, Process, loop, BaseOfThisRun
    <3>2. CASE pc # "ended"
      BY <1>1, <1>2, <1>9, <2>3, <3>2, ThreadKeepsUp DEF BaseOfThisRun
    <3> QED BY <3>1, <3>2
  <2>4. CASE UNCHANGED vars
    BY <1>1, <1>3, <1>9, <2>4
  <2> QED BY <1>5, <2>1, <2>2, <2>3, <2>4 DEF Next
<1> QED BY <1>4, <1>5, StepsOfTheLoop

\* A thread that keeps up with a sensor in order stamps no sample against a packet of
\* an earlier start: the loss is noted, and the base reset, before the sensor is back.
THEOREM BaseIsOfThisRun == LifecycleSpec => []BaseOfThisRun
<1>1. LifecycleInit => BaseInv /\ prompt = StatusInOrder
  BY DEF LifecycleInit, FeedInit, LoopInit, BaseInv, BaseOfThisRun, FlightInTime, OnTime
<1>2. LifecycleInit => LifecycleTypeOK /\ TransitionInv /\ OrderInv /\ BaseInv
  BY <1>1, LifecycleInitType, TransitionInit, OrderInit DEF LifecycleInit
<1>3. LifecycleTypeOK /\ TransitionInv /\ OrderInv /\ BaseInv /\ [LifecycleStep]_allVars
        => (LifecycleTypeOK /\ TransitionInv /\ OrderInv /\ BaseInv)'
  BY LifecycleTypeStep, TransitionStep, OrderInLifecycle, BaseStep
<1>4. BaseInv => BaseOfThisRun
  BY DEF BaseInv, BaseOfThisRun
<1> QED BY <1>2, <1>3, <1>4, PTL DEF LifecycleSpec
=============================================================================
