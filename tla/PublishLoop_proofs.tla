------------------------- MODULE PublishLoop_proofs -------------------------
(***************************************************************************)
(* Proofs about PublishLoop and SensorStatus, for any width of the         *)
(* counter, any buffer, any waits, any statuses and any clock.             *)
(***************************************************************************)
EXTENDS PublishLoop, TLAPS

\* A remainder is below the modulus; two numbers that are less than the modulus
\* apart are told apart by their remainders.
LEMMA ModRange ==
  ASSUME NEW n \in Nat \ {0}, NEW a \in Int
  PROVE  a % n \in 0..(n - 1)
BY SMT

LEMMA ModDifference ==
  ASSUME NEW n \in Nat \ {0}, NEW a \in Nat, NEW b \in Nat, b <= a, a - b < n
  PROVE  ((a % n) - (b % n) + n) % n = a - b
BY SMT

LEMMA ModGap ==
  ASSUME NEW n \in Nat \ {0}, NEW a \in Nat, NEW b \in Nat, b < a, a - b < n
  PROVE  ((a % n) - (b % n) - 1 + n) % n = a - b - 1
<1> DEFINE x == (a % n) - (b % n) + n
<1>1. a % n \in 0..(n - 1) /\ b % n \in 0..(n - 1)
  BY ModRange
<1>2. x \in 1..(2 * n - 1)
  BY <1>1
<1>3. x % n = a - b
  <2>1. b <= a /\ a - b < n
    OBVIOUS
  <2> QED BY <2>1, ModDifference
<1>4. (x - 1) % n = a - b - 1
  BY <1>2, <1>3, SMT
<1> QED BY <1>4, <1>1

\* The two ways in which the node makes a level of the status bits agree: a
\* status with which on_configure succeeds is one that the thread publishes at.
THEOREM StatusLevelsAgree ==
  ASSUME NEW status \in SUBSET Flag
  PROVE  LevelFromBits(status) = StatusLevel(status)
<1>1. CASE "hardware_error" \in status
  BY <1>1 DEF LevelFromBits, StatusLevel
<1>2. CASE "hardware_error" \notin status /\ "ready" \notin status
  BY <1>2 DEF LevelFromBits, StatusLevel
<1>3. CASE "hardware_error" \notin status /\ "ready" \in status
  <2>1. Summary(status) = status \ {"ready"}
    BY <1>3 DEF Summary
  <2>2. (Summary(status) # {}) <=>
           status \cap {"process_data_invalid", "temperature_out_of_range",
                        "mech_overrange", "user_overrange"} # {}
    BY <1>3, <2>1 DEF Flag
  <2> QED BY <1>3, <2>2 DEF LevelFromBits, StatusLevel
<1> QED BY <1>1, <1>2, <1>3

LEMMA LevelType == ASSUME NEW status PROVE LevelFromBits(status) \in Level
BY DEF LevelFromBits, Level
-----------------------------------------------------------------------------
(* Types *)

LEMMA ZeroIsPacket == ZeroSample \in Packet
BY FeedAssumption DEF ZeroSample, Packet

LEMMA InitType == Init => TypeOK
<1> SUFFICES ASSUME Init PROVE TypeOK
  OBVIOUS
<1>1. FeedTypeOK
  BY FeedAssumption DEF Init, FeedInit, FeedTypeOK
<1>2. since \in 0..MaxTime /\ fresh \in 0..(MaxTime + 1) /\ hand \in Packet
  BY FeedAssumption, ZeroIsPacket DEF Init, LoopInit
<1>3. rosOk \in BOOLEAN /\ stop \in BOOLEAN /\ lost \in BOOLEAN /\ ok \in BOOLEAN
  BY DEF Init, LoopInit
<1>4. /\ pc \in {"ended", "check", "wait", "took"} /\ lastLevel \in Level \cup {"none"}
      /\ last \in {None} \cup Packet /\ base \in {None} \cup Base /\ latched \in LatchedState
      /\ out \in {None} \cup [stamp : Nat, packet : Packet, base : Base]
  BY DEF Init, LoopInit, LatchedState
<1> QED BY <1>1, <1>2, <1>3, <1>4 DEF TypeOK

\* A bounded queue of packets stays one.
LEMMA AppendBounded ==
  ASSUME NEW s \in Seq(Packet), NEW p \in Packet, NEW n \in Nat, Len(s) < n
  PROVE  Append(s, p) \in Seq(Packet) /\ Len(Append(s, p)) <= n
OBVIOUS

LEMMA TailBounded ==
  ASSUME NEW s \in Seq(Packet), s # <<>>, NEW n \in Nat, Len(s) <= n
  PROVE  Tail(s) \in Seq(Packet) /\ Len(Tail(s)) <= n /\ Head(s) \in Packet
OBVIOUS

LEMMA EmptyBounded ==
  ASSUME NEW n \in Nat PROVE <<>> \in Seq(Packet) /\ Len(<<>>) <= n
OBVIOUS

LEMMA EnvironmentType == FeedTypeOK /\ Environment => FeedTypeOK'
<1> SUFFICES ASSUME FeedTypeOK, Environment PROVE FeedTypeOK'
  OBVIOUS
<1> USE FeedAssumption DEF FeedTypeOK
<1>1. CASE Tick
  <2> DEFINE packet == [counter |-> (now + 1 - sensor.start) % CounterSize,
                        status |-> sensor.status, sent |-> now + 1, run |-> sensor.run]
  <2>1. packet.counter \in 0..(CounterSize - 1)
    <3>1. now + 1 - sensor.start \in Int
      OBVIOUS
    <3> QED BY <3>1, ModRange
  <2>2. packet \in Packet
    BY <1>1, <2>1, SMTT(30) DEF Tick, Packet
  <2>3. flight' = flight \/ (flight' = Append(flight, packet) /\ Len(flight) < SocketSize)
    BY <1>1 DEF Tick
  <2> HIDE DEF packet
  <2>4. flight' \in Seq(Packet) /\ Len(flight') <= SocketSize
    BY <2>2, <2>3, AppendBounded
  <2>5. now' \in 0..MaxTime /\ sensor'.start <= now'
    BY <1>1 DEF Tick
  <2> QED BY <1>1, <2>4, <2>5 DEF Tick
<1>2. CASE StatusChanges
  BY <1>2 DEF StatusChanges
<1>3. CASE SignalFails
  <2>1. CASE sensor' = [sensor EXCEPT !.signal = "cut"]
    BY <1>3, <2>1 DEF SignalFails
  <2>2. CASE sensor' = [sensor EXCEPT !.signal = "off", !.start = now]
    <3>1. /\ sensor'.signal = "off" /\ sensor'.start = now
          /\ sensor'.run = sensor.run /\ sensor'.status = sensor.status
      BY <2>2
    <3>2. sensor.run <= MaxRestarts
      BY <1>3, <2>2 DEF SignalFails
    <3>3. sensor' \in [signal : {"on", "cut", "off"}, status : SUBSET Flag,
                       run : 1..(MaxRestarts + 1), start : 0..MaxTime]
      BY <2>2
    <3>4. sensor'.start <= now' /\ sensor'.run <= MaxRestarts
      BY <1>3, <3>1, <3>2 DEF SignalFails
    <3>5. UNCHANGED <<now, streaming, flight, buffer, lastPacket>>
      BY <1>3 DEF SignalFails
    <3> QED BY <3>3, <3>4, <3>5
  <2> QED BY <1>3, <2>1, <2>2 DEF SignalFails
<1>4. CASE SignalReturns
  <2>1. CASE sensor' = [sensor EXCEPT !.signal = "on"]
    BY <1>4, <2>1 DEF SignalReturns
  <2>2. CASE sensor.signal = "off"
    <3>1. PICK status \in Statuses :
            sensor' = [signal |-> "on", status |-> status,
                       run |-> sensor.run + 1, start |-> now]
      BY <1>4, <2>2 DEF SignalReturns
    <3>2. sensor.run \in 1..MaxRestarts
      BY <2>2
    <3>3. sensor' \in [signal : {"on", "cut", "off"}, status : SUBSET Flag,
                       run : 1..(MaxRestarts + 1), start : 0..MaxTime]
      BY <3>1, <3>2
    <3>4. sensor'.start <= now' /\ sensor'.signal # "off"
      BY <1>4, <3>1 DEF SignalReturns
    <3>5. UNCHANGED <<now, streaming, flight, buffer, lastPacket>>
      BY <1>4 DEF SignalReturns
    <3> QED BY <3>3, <3>4, <3>5
  <2> QED BY <1>4, <2>1, <2>2 DEF SignalReturns
<1>5. CASE Put
  <2> DEFINE p == Head(flight)
  <2>1. flight # <<>> /\ flight' = Tail(flight)
    BY <1>5 DEF Put
  <2>2. flight' \in Seq(Packet) /\ Len(flight') <= SocketSize /\ p \in Packet
    BY <2>1, TailBounded
  <2>3. buffer' = buffer \/ (buffer' = Append(buffer, p) /\ Len(buffer) < QueueSize)
    BY <1>5 DEF Put
  <2> HIDE DEF p
  <2>4. buffer' \in Seq(Packet) /\ Len(buffer') <= QueueSize
    BY <2>2, <2>3, AppendBounded
  <2> QED BY <1>5, <2>2, <2>4 DEF Put
<1> QED BY <1>1, <1>2, <1>3, <1>4, <1>5 DEF Environment

LEMMA StampType ==
  ASSUME NEW b \in Base, NEW p \in Packet
  PROVE  Stamp(b, p) \in Nat
<1>1. p.counter - b.packet.counter + CounterSize \in Int
  BY FeedAssumption DEF Base, Packet
<1>2. (p.counter - b.packet.counter + CounterSize) % CounterSize \in 0..(CounterSize - 1)
  BY <1>1, FeedAssumption, ModRange
<1> QED BY <1>2, FeedAssumption DEF Stamp, Base

LEMMA TypeStep == TypeOK /\ [Next]_vars => TypeOK'
<1> SUFFICES ASSUME TypeOK, [Next]_vars PROVE TypeOK'
  OBVIOUS
<1> USE FeedAssumption DEF TypeOK
<1>1. CASE Environment /\ UNCHANGED <<rosOk, loop>>
  BY <1>1, EnvironmentType DEF loop
<1>2. CASE Activate
  <2>1. buffer' \in Seq(Packet) /\ Len(buffer') <= QueueSize
    BY <1>2 DEF Activate, ClearSamples
  <2>2. fresh' \in 0..(MaxTime + 1)
    <3>1. CASE flight = <<>>
      <4>1. fresh' = now + 1 /\ now \in 0..MaxTime
        BY <1>2, <3>1 DEF Activate, NextToPut, FeedTypeOK
      <4> QED BY <4>1
    <3>2. CASE flight # <<>>
      <4>1. Head(flight) \in Packet
        BY <3>2, TailBounded DEF FeedTypeOK
      <4> QED BY <1>2, <3>2, <4>1 DEF Activate, NextToPut, Packet
    <3> QED BY <3>1, <3>2
  <2> QED BY <1>2, <2>1, <2>2 DEF Activate, ClearSamples, FeedTypeOK
<1>3. CASE RequestStop
  BY <1>3 DEF RequestStop, feed, FeedTypeOK
<1>4. CASE ContextEnds
  <2>1. UNCHANGED feed /\ UNCHANGED loop /\ rosOk' = FALSE
    BY <1>4 DEF ContextEnds
  <2>2. FeedTypeOK'
    BY <2>1 DEF feed, FeedTypeOK
  <2>3. rosOk' \in BOOLEAN
    BY <2>1
  <2> QED BY <2>1, <2>2, <2>3 DEF loop
<1>5. CASE CheckStop
  <2>1. FeedTypeOK'
    BY <1>5 DEF CheckStop, feed, FeedTypeOK
  <2>2. pc' \in {"ended", "wait"} /\ (since' = since \/ since' = now)
    BY <1>5 DEF CheckStop
  <2>3. since' \in 0..MaxTime
    BY <2>2 DEF FeedTypeOK
  <2> QED BY <1>5, <2>1, <2>2, <2>3 DEF CheckStop
<1>6. CASE GetSamples
  <2>1. CASE TakePacket /\ hand' = Head(buffer)
    <3>1. /\ buffer' \in Seq(Packet) /\ Len(buffer') <= QueueSize /\ hand' \in Packet
      BY <2>1, TailBounded DEF TakePacket, FeedTypeOK
    <3>2. FeedTypeOK'
      BY <2>1, <3>1 DEF TakePacket, FeedTypeOK
    <3>3. since' \in 0..MaxTime /\ pc' = "took"
      BY <1>6 DEF GetSamples
    <3> QED BY <1>6, <3>1, <3>2, <3>3 DEF GetSamples
  <2>2. CASE hand' = ZeroSample /\ UNCHANGED feed
    BY <1>6, <2>2, ZeroIsPacket DEF GetSamples, feed, FeedTypeOK
  <2> QED BY <1>6, <2>1, <2>2 DEF GetSamples
<1>7. CASE GetNothing
  <2>1. FeedTypeOK' /\ since' \in 0..MaxTime
    BY <1>7 DEF GetNothing, feed, FeedTypeOK
  <2>2. lost' \in BOOLEAN /\ latched' \in LatchedState
    BY <1>7 DEF GetNothing, LatchedState
  <2> QED BY <1>7, <2>1, <2>2 DEF GetNothing
<1>8. CASE AnnounceRestored
  BY <1>8 DEF AnnounceRestored, feed, FeedTypeOK, LatchedState, Level
<1>9. CASE Process
  <2>1. FeedTypeOK'
    BY <1>9 DEF Process, feed, FeedTypeOK
  <2>2. BaseWith(hand) \in Base
    BY DEF BaseWith, Base, FeedTypeOK
  <2>3. Stamp(BaseWith(hand), hand) \in Nat
    BY <2>2, StampType
  <2>4. base' \in {None} \cup Base
    BY <1>9, <2>2 DEF Process, PublishData
  <2>5. out' \in {None} \cup [stamp : Nat, packet : Packet, base : Base]
    BY <1>9, <2>2, <2>3 DEF Process, PublishData
  <2>6. lastLevel' \in Level \cup {"none"} /\ latched' \in LatchedState
    BY <1>9, LevelType DEF Process, LatchedState
  <2> QED BY <1>9, <2>1, <2>4, <2>5, <2>6, ZeroIsPacket DEF Process
<1>10. CASE UNCHANGED vars
  BY <1>10 DEF vars, feed, loop, FeedTypeOK
<1> QED BY <1>1, <1>2, <1>3, <1>4, <1>5, <1>6, <1>7, <1>8, <1>9, <1>10 DEF Next, LoopStep

\* The type invariant of the publishing thread and of the sensor's side.
THEOREM TypeCorrect == Spec => []TypeOK
BY InitType, TypeStep, PTL DEF Spec
-----------------------------------------------------------------------------
(* The latched state *)

\* "lost" stands on the topic as long as the thread takes the connection for
\* lost; else, unless a publisher has raised, the last level stands there, and it
\* is that of the last samples.
LatchInv ==
  /\ lost => latched = "lost"
  /\ (pc # "ended" \/ rosOk) /\ ~lost =>
       /\ latched = lastLevel
       /\ last # None => lastLevel = LevelFromBits(last.status)

LEMMA LatchStep == TypeOK /\ LatchInv /\ [Next]_vars => LatchInv'
<1> SUFFICES ASSUME TypeOK, LatchInv, [Next]_vars PROVE LatchInv'
  OBVIOUS
<1> USE DEF LatchInv
<1>1. CASE Environment /\ UNCHANGED <<rosOk, loop>>
  BY <1>1 DEF loop
<1>2. CASE Activate
  BY <1>2 DEF Activate
<1>3. CASE RequestStop
  BY <1>3 DEF RequestStop
<1>4. CASE ContextEnds
  BY <1>4 DEF ContextEnds, loop
<1>5. CASE CheckStop
  BY <1>5 DEF CheckStop
<1>6. CASE GetSamples
  BY <1>6 DEF GetSamples
<1>7. CASE GetNothing
  BY <1>7 DEF GetNothing
<1>8. CASE AnnounceRestored
  BY <1>8 DEF AnnounceRestored
<1>9. CASE Process
  <2>1. last' = hand /\ ~lost /\ lost' = lost /\ pc # "ended" /\ rosOk' = rosOk
    BY <1>9 DEF Process
  <2>2. CASE pc' = "check" /\ lastLevel' = LevelFromBits(hand.status)
             /\ latched' = IF LevelFromBits(hand.status) # lastLevel
                            THEN LevelFromBits(hand.status) ELSE latched
    BY <2>1, <2>2
  <2>3. CASE pc' = "ended" /\ ~rosOk
    BY <2>1, <2>3
  <2> QED BY <1>9, <2>2, <2>3 DEF Process
<1>10. CASE UNCHANGED vars
  BY <1>10 DEF vars, loop
<1> QED BY <1>1, <1>2, <1>3, <1>4, <1>5, <1>6, <1>7, <1>8, <1>9, <1>10 DEF Next, LoopStep

\* The latched state tells what the last samples said, or that the connection is
\* lost.
THEOREM LatchAlwaysTellsTruth == Spec => []LatchTellsTruth
<1>1. Init => LatchInv
  BY DEF Init, LoopInit, LatchInv
<1>2. LatchInv => LatchTellsTruth
  BY DEF LatchInv, LatchTellsTruth, Running
<1> QED BY <1>1, <1>2, InitType, TypeStep, LatchStep, PTL DEF Spec
-----------------------------------------------------------------------------
(* Counters *)

\* The packets that are on their way or in the node.
Elements(s) == {s[i] : i \in 1..Len(s)}
Known ==
  Elements(flight) \cup Elements(buffer) \cup {hand}
    \cup (IF last = None THEN {} ELSE {last})
    \cup (IF base = None THEN {} ELSE {base.packet})
    \cup (IF out = None THEN {} ELSE {out.packet, out.base.packet})

\* The counter of p counts the periods since its sensor was started; "starts" has
\* the times of all starts.
Start == [1..(MaxRestarts + 1) -> 0..MaxTime]
Counted(p, starts) ==
  IsReal(p) =>
    /\ p.run <= sensor.run
    /\ starts[p.run] <= p.sent
    /\ p.counter = (p.sent - starts[p.run]) % CounterSize

CountInv ==
  \E starts \in Start :
    /\ sensor.signal # "off" => starts[sensor.run] = sensor.start
    /\ \A p \in Known : Counted(p, starts)

\* A data message carries its packet's stamp.
OutInv == out # None => out.stamp = Stamp(out.base, out.packet)

LEMMA KnownArePackets == TypeOK => Known \subseteq Packet
<1> SUFFICES ASSUME TypeOK PROVE Known \subseteq Packet
  OBVIOUS
<1>1. Elements(flight) \subseteq Packet /\ Elements(buffer) \subseteq Packet
  BY DEF TypeOK, FeedTypeOK, Elements
<1>2. out # None => out.packet \in Packet /\ out.base.packet \in Packet
  BY DEF TypeOK, Base, None
<1>3. base # None => base.packet \in Packet
  BY DEF TypeOK, Base, None
<1> QED BY <1>1, <1>2, <1>3 DEF Known, TypeOK

LEMMA ElementsOfTail ==
  ASSUME NEW S, NEW s \in Seq(S), s # <<>>
  PROVE  Elements(Tail(s)) \subseteq Elements(s) /\ Head(s) \in Elements(s)
<1>1. /\ Len(Tail(s)) = Len(s) - 1
      /\ \A i \in 1..Len(Tail(s)) : Tail(s)[i] = s[i + 1] /\ i + 1 \in 1..Len(s)
      /\ Head(s) = s[1] /\ 1 \in 1..Len(s)
  OBVIOUS
<1> QED BY <1>1 DEF Elements

LEMMA ElementsOfAppend ==
  ASSUME NEW S, NEW s \in Seq(S), NEW e
  PROVE  Elements(Append(s, e)) \subseteq Elements(s) \cup {e}
<1>1. \A i \in 1..Len(Append(s, e)) :
        Append(s, e)[i] = e \/ (i \in 1..Len(s) /\ Append(s, e)[i] = s[i])
  OBVIOUS
<1> QED BY <1>1 DEF Elements

\* The thread and the callbacks bring no packet into the node but the zero sample.
LEMMA NothingNewKnown ==
  ASSUME TypeOK,
         \/ Activate \/ RequestStop \/ ContextEnds \/ LoopStep \/ UNCHANGED vars
  PROVE  Known' \subseteq Known \cup {ZeroSample} /\ sensor' = sensor
<1> USE DEF Known
<1>1. CASE Activate
  <2>1. Elements(buffer') = {}
    BY <1>1 DEF Activate, ClearSamples, Elements
  <2> QED BY <1>1, <2>1 DEF Activate, ClearSamples
<1>2. CASE RequestStop
  BY <1>2 DEF RequestStop, feed
<1>3. CASE ContextEnds
  BY <1>3 DEF ContextEnds, feed, loop
<1>4. CASE CheckStop
  BY <1>4 DEF CheckStop, feed
<1>5. CASE GetSamples
  <2>1. CASE TakePacket /\ hand' = Head(buffer)
    <3>1. buffer # <<>> /\ buffer' = Tail(buffer) /\ buffer \in Seq(Packet)
      BY <2>1 DEF TakePacket, TypeOK, FeedTypeOK
    <3>2. Elements(buffer') \subseteq Elements(buffer) /\ hand' \in Elements(buffer)
      BY <2>1, <3>1, ElementsOfTail
    <3>3. last' = last /\ base' = base /\ out' = out /\ sensor' = sensor /\ flight' = flight
      BY <1>5, <2>1 DEF GetSamples, TakePacket
    <3> QED BY <3>2, <3>3
  <2>2. CASE hand' = ZeroSample /\ UNCHANGED feed
    BY <1>5, <2>2 DEF GetSamples, feed
  <2> QED BY <1>5, <2>1, <2>2 DEF GetSamples
<1>6. CASE GetNothing
  BY <1>6 DEF GetNothing, feed
<1>7. CASE AnnounceRestored
  BY <1>7 DEF AnnounceRestored, feed
<1>8. CASE Process
  <2>1. /\ last' = hand /\ hand' = ZeroSample /\ flight' = flight /\ buffer' = buffer
        /\ sensor' = sensor
    BY <1>8 DEF Process, feed
  <2>2. base' = base \/ base' = BaseWith(hand)
    BY <1>8 DEF Process, PublishData
  <2>3. out' = out \/ (out'.packet = hand /\ out'.base = BaseWith(hand))
    BY <1>8 DEF Process, PublishData
  <2>4. BaseWith(hand).packet \in Known
    BY DEF BaseWith
  <2>5. base' # None => base'.packet \in Known
    BY <2>2, <2>4
  <2>6. out' # None => out'.packet \in Known /\ out'.base.packet \in Known
    BY <2>3, <2>4
  <2> QED BY <2>1, <2>5, <2>6
<1>9. CASE UNCHANGED vars
  BY <1>9 DEF vars, feed, loop
<1> QED BY <1>1, <1>2, <1>3, <1>4, <1>5, <1>6, <1>7, <1>8, <1>9 DEF LoopStep

LEMMA CountInit == ASSUME FeedInit, LoopInit PROVE CountInv
<1>1. Known = {ZeroSample}
  BY DEF LoopInit, FeedInit, Known, Elements
<1>2. [r \in 1..(MaxRestarts + 1) |-> 0] \in Start
  BY FeedAssumption DEF Start
<1>3. sensor.run = 1 /\ sensor.start = 0
  BY DEF FeedInit
<1> QED BY <1>1, <1>2, <1>3, FeedAssumption DEF CountInv, Counted, IsReal, ZeroSample

LEMMA QueuesAreSequences == ASSUME TypeOK PROVE flight \in Seq(Packet) /\ buffer \in Seq(Packet)
BY DEF TypeOK, FeedTypeOK

\* Known changes only by what happens to the packets that are not in the thread's hands.
LEMMA KnownGrowsBy ==
  ASSUME UNCHANGED loop, NEW S, Elements(flight') \subseteq Elements(flight) \cup S,
         Elements(buffer') \subseteq Elements(buffer) \cup Elements(flight)
  PROVE  Known' \subseteq Known \cup S
BY DEF loop, Known

LEMMA CountStep == TypeOK /\ CountInv /\ [Next]_vars => CountInv'
<1> SUFFICES ASSUME TypeOK, CountInv, [Next]_vars PROVE CountInv'
  OBVIOUS
<1> USE FeedAssumption
<1>1. PICK starts \in Start :
        /\ sensor.signal # "off" => starts[sensor.run] = sensor.start
        /\ \A p \in Known : Counted(p, starts)
  BY DEF CountInv
<1>2. CASE Activate \/ RequestStop \/ ContextEnds \/ LoopStep \/ UNCHANGED vars
  <2>1. Known' \subseteq Known \cup {ZeroSample} /\ sensor' = sensor
    BY <1>2, NothingNewKnown
  <2>2. \A p \in Known' : Counted(p, starts)'
    BY <1>1, <2>1 DEF Counted, IsReal, ZeroSample
  <2> QED BY <1>1, <2>1, <2>2 DEF CountInv
<1>3. CASE Environment /\ UNCHANGED <<rosOk, loop>>
  <2>0. hand' = hand /\ last' = last /\ base' = base /\ out' = out
    BY <1>3 DEF loop
  <2>1. CASE Tick
    <3> DEFINE packet == [counter |-> (now + 1 - sensor.start) % CounterSize,
                          status |-> sensor.status, sent |-> now + 1, run |-> sensor.run]
    <3>1. sensor' = sensor
      BY <2>1 DEF Tick
    <3>2. /\ flight' = flight \/ (sensor.signal = "on" /\ flight' = Append(flight, packet))
          /\ buffer' = buffer
      BY <2>1 DEF Tick
    <3> HIDE DEF packet
    <3>3. Counted(packet, starts) \/ sensor.signal # "on"
      <4> SUFFICES ASSUME sensor.signal = "on" PROVE Counted(packet, starts)
        OBVIOUS
      <4>1. sensor.start <= now /\ sensor.start \in Nat /\ now \in Nat /\ sensor.run \in Nat
        <5>1. sensor.start <= now /\ sensor.start \in 0..MaxTime /\ now \in 0..MaxTime
              /\ sensor.run \in 1..(MaxRestarts + 1)
          BY DEF TypeOK, FeedTypeOK
        <5> QED BY <5>1
      <4>2. /\ packet.run = sensor.run /\ packet.sent = now + 1
            /\ packet.counter = (now + 1 - sensor.start) % CounterSize
        BY DEF packet
      <4>3. starts[sensor.run] = sensor.start
        BY <1>1
      <4> QED BY <4>1, <4>2, <4>3 DEF Counted
    <3>4. Elements(flight') \subseteq Elements(flight) \cup {packet}
      BY <3>2, QueuesAreSequences, ElementsOfAppend
    <3>5. sensor.signal # "on" => Elements(flight') \subseteq Elements(flight) \cup {}
      BY <3>2
    <3>6. Known' \subseteq Known \cup (IF sensor.signal = "on" THEN {packet} ELSE {})
      BY <1>3, <3>2, <3>4, <3>5, KnownGrowsBy
    <3>7. \A p \in Known' : Counted(p, starts)
      BY <1>1, <3>3, <3>6
    <3>8. \A p \in Known' : Counted(p, starts)'
      BY <3>1, <3>7 DEF Counted
    <3> QED BY <1>1, <3>1, <3>8 DEF CountInv
  <2>2. CASE StatusChanges \/ SignalFails \/ (SignalReturns /\ sensor.signal = "cut")
    <3>1. flight' = flight /\ buffer' = buffer /\ sensor'.run = sensor.run
      BY <2>2 DEF StatusChanges, SignalFails, SignalReturns, TypeOK, FeedTypeOK
    <3>2. sensor'.signal = "off" \/ (sensor.signal # "off" /\ sensor'.start = sensor.start)
      BY <2>2 DEF StatusChanges, SignalFails, SignalReturns, TypeOK, FeedTypeOK
    <3>3. Known' = Known
      BY <2>0, <3>1 DEF Known
    <3>4. \A p \in Known' : Counted(p, starts)'
      BY <1>1, <3>1, <3>3 DEF Counted
    <3> QED BY <1>1, <3>1, <3>2, <3>4 DEF CountInv
  <2>3. CASE SignalReturns /\ sensor.signal # "cut"
    <3>1. /\ flight' = flight /\ buffer' = buffer
          /\ sensor'.run = sensor.run + 1 /\ sensor'.start = now
      BY <2>3 DEF SignalReturns
    <3>2. sensor.run \in 1..MaxRestarts /\ now \in 0..MaxTime
      BY <2>3 DEF SignalReturns, TypeOK, FeedTypeOK
    <3>3. PICK next \in Start :
            /\ next[sensor.run + 1] = now
            /\ \A r \in 1..sensor.run : next[r] = starts[r]
      <4>1. [starts EXCEPT ![sensor.run + 1] = now] \in Start
        BY <3>2 DEF Start
      <4>2. sensor.run + 1 \in DOMAIN starts /\ \A r \in 1..sensor.run : r # sensor.run + 1
        BY <3>2 DEF Start
      <4>3. 1..sensor.run \subseteq DOMAIN starts
        BY <3>2 DEF Start
      <4> QED BY <4>1, <4>2, <4>3
    <3>4. Known' = Known
      BY <2>0, <3>1 DEF Known
    <3>5. ASSUME NEW p \in Known, IsReal(p) PROVE p.run \in 1..sensor.run
      <4>1. p \in Packet
        BY KnownArePackets
      <4>2. p.run \in Nat /\ p.run # 0
        BY <3>5, <4>1, FeedAssumption DEF Packet, IsReal
      <4>3. p.run <= sensor.run
        BY <1>1, <3>5 DEF Counted
      <4> QED BY <3>2, <4>2, <4>3
    <3>6. \A p \in Known' : Counted(p, next)'
      <4> SUFFICES ASSUME NEW p \in Known, IsReal(p) PROVE Counted(p, next)'
        BY <3>4 DEF Counted
      <4>1. p.run \in 1..sensor.run /\ next[p.run] = starts[p.run]
        BY <3>3, <3>5
      <4>2. Counted(p, starts)
        BY <1>1
      <4> QED BY <3>1, <3>2, <4>1, <4>2 DEF Counted
    <3> QED BY <3>1, <3>3, <3>6 DEF CountInv
  <2>4. CASE Put
    <3>1. /\ flight # <<>> /\ flight' = Tail(flight) /\ sensor' = sensor
          /\ buffer' = buffer \/ buffer' = Append(buffer, Head(flight))
      BY <2>4 DEF Put
    <3>2. Elements(flight') \subseteq Elements(flight) /\ Head(flight) \in Elements(flight)
      BY <3>1, QueuesAreSequences, ElementsOfTail
    <3>3. Elements(buffer') \subseteq Elements(buffer) \cup {Head(flight)}
      BY <3>1, QueuesAreSequences, ElementsOfAppend
    <3>4. Known' \subseteq Known \cup {}
      BY <1>3, <3>2, <3>3, KnownGrowsBy
    <3>5. \A p \in Known' : Counted(p, starts)'
      BY <1>1, <3>1, <3>4 DEF Counted
    <3> QED BY <1>1, <3>1, <3>5 DEF CountInv
  <2> QED BY <1>3, <2>1, <2>2, <2>3, <2>4 DEF Environment
<1> QED BY <1>2, <1>3 DEF Next

LEMMA OutStep == OutInv /\ [Next]_vars => OutInv'
<1> SUFFICES ASSUME OutInv, [Next]_vars PROVE OutInv'
  OBVIOUS
<1>1. CASE Process
  BY <1>1 DEF Process, PublishData, OutInv, Stamp
<1>2. CASE UNCHANGED out
  BY <1>2 DEF OutInv, Stamp
<1> QED BY <1>1, <1>2 DEF Next, LoopStep, loop, vars, Activate, RequestStop, ContextEnds,
                          CheckStop, GetSamples, GetNothing, AnnounceRestored

\* Two packets of one start are as far apart in their counters as in time.
LEMMA CountersTellTime ==
  ASSUME TypeOK, CountInv, NEW p \in Known, NEW q \in Known, Comparable(p, q)
  PROVE  \E a \in Nat, b \in Nat :
           /\ b <= a /\ a - b = p.sent - q.sent /\ a - b < CounterSize
           /\ p.counter = a % CounterSize /\ q.counter = b % CounterSize
<1>1. PICK starts \in Start : \A r \in Known : Counted(r, starts)
  BY DEF CountInv
<1>2. p \in Packet /\ q \in Packet
  BY KnownArePackets
<1>3. p.run \in 1..(MaxRestarts + 1) /\ q.run = p.run /\ IsReal(p) /\ IsReal(q)
  BY <1>2, FeedAssumption DEF Comparable, IsReal, Packet
<1>4. starts[p.run] \in Nat
  BY <1>3, FeedAssumption DEF Start
<1>5. /\ starts[p.run] <= p.sent /\ starts[p.run] <= q.sent
      /\ p.counter = (p.sent - starts[p.run]) % CounterSize
      /\ q.counter = (q.sent - starts[p.run]) % CounterSize
  BY <1>1, <1>3 DEF Counted
<1>6. p.sent - starts[p.run] \in Nat /\ q.sent - starts[p.run] \in Nat
  BY <1>2, <1>4, <1>5, FeedAssumption DEF Packet
<1>7. q.sent <= p.sent /\ p.sent - q.sent < CounterSize /\ p.sent \in Int /\ q.sent \in Int
  BY <1>2, FeedAssumption DEF Comparable, Packet
<1>8. LET a == p.sent - starts[p.run] b == q.sent - starts[p.run]
      IN b <= a /\ a - b = p.sent - q.sent
  BY <1>4, <1>7
<1> QED BY <1>5, <1>6, <1>7, <1>8

LEMMA StampsFromInv == TypeOK /\ CountInv /\ OutInv => StampsExact
<1> SUFFICES ASSUME TypeOK, CountInv, OutInv, out # None,
                    Comparable(out.packet, out.base.packet)
             PROVE  out.stamp - out.base.stamp = out.packet.sent - out.base.packet.sent
  BY DEF StampsExact
<1>1. out.packet \in Known /\ out.base.packet \in Known
  BY DEF Known
<1>2. PICK a \in Nat, b \in Nat :
        /\ b <= a /\ a - b = out.packet.sent - out.base.packet.sent /\ a - b < CounterSize
        /\ out.packet.counter = a % CounterSize /\ out.base.packet.counter = b % CounterSize
  BY <1>1, CountersTellTime
<1>3. ((a % CounterSize) - (b % CounterSize) + CounterSize) % CounterSize = a - b
  BY <1>2, FeedAssumption, ModDifference, ZenonT(60)
<1>4. out.base.stamp \in Int /\ a - b \in Int
  BY FeedAssumption DEF TypeOK, Base, None
<1>5. out.stamp = out.base.stamp + (a - b)
  BY <1>2, <1>3 DEF OutInv, Stamp
<1> QED BY <1>2, <1>4, <1>5

\* Stamps are exact across the wrap of the counter.
THEOREM StampsAreExact == Spec => []StampsExact
<1>1. Init => CountInv /\ OutInv
  BY CountInit DEF Init, LoopInit, OutInv
<1> QED BY <1>1, InitType, TypeStep, CountStep, OutStep, StampsFromInv, PTL DEF Spec
-----------------------------------------------------------------------------
(* Order *)

\* The packets of s have been sent and are in the order in which they were; those of
\* s were sent after t.
Sorted(s) ==
  /\ \A i \in 1..Len(s) : s[i].sent \in 1..now /\ IsReal(s[i])
  /\ \A i, j \in 1..Len(s) : i < j => s[i].sent < s[j].sent
After(t, s) == \A i \in 1..Len(s) : t < s[i].sent

\* Packets are put and looked at in the order in which they were sent, and each once.
OrderInv ==
  /\ Sorted(flight) /\ Sorted(buffer)
  /\ \A i \in 1..Len(buffer) : After(buffer[i].sent, flight)
  /\ last # None => last.sent <= now /\ After(last.sent, buffer) /\ After(last.sent, flight)
  /\ pc = "took" /\ IsReal(hand) =>
       /\ hand.sent <= now /\ After(hand.sent, buffer) /\ After(hand.sent, flight)
       /\ last # None => last.sent < hand.sent
  /\ ~IsReal(hand) => hand.sent = 0

LEMMA TimesAreNumbers ==
  ASSUME TypeOK
  PROVE  /\ now \in Nat /\ hand.sent \in Nat /\ (last # None => last.sent \in Nat)
         /\ \A i \in 1..Len(flight) : flight[i].sent \in Nat
         /\ \A i \in 1..Len(buffer) : buffer[i].sent \in Nat
<1>1. now \in Nat /\ flight \in Seq(Packet) /\ buffer \in Seq(Packet)
  BY FeedAssumption DEF TypeOK, FeedTypeOK
<1>2. \A p \in Packet : p.sent \in Nat
  BY FeedAssumption DEF Packet
<1>3. /\ \A i \in 1..Len(flight) : flight[i] \in Packet
      /\ \A i \in 1..Len(buffer) : buffer[i] \in Packet
  BY <1>1
<1>4. hand \in Packet /\ (last # None => last \in Packet)
  BY DEF TypeOK
<1> QED BY <1>1, <1>2, <1>3, <1>4

LEMMA AppendSorted ==
  ASSUME now \in Nat, NEW s \in Seq(Packet), Sorted(s), NEW p,
         p.sent \in 1..now, IsReal(p), \A i \in 1..Len(s) : s[i].sent < p.sent
  PROVE  Sorted(Append(s, p))
<1>1. /\ Len(Append(s, p)) = Len(s) + 1 /\ Append(s, p)[Len(s) + 1] = p
      /\ \A i \in 1..Len(s) : Append(s, p)[i] = s[i]
      /\ \A i \in 1..(Len(s) + 1) : i \in 1..Len(s) \/ i = Len(s) + 1
  OBVIOUS
<1>2. \A i \in 1..Len(Append(s, p)) :
        Append(s, p)[i].sent \in 1..now /\ IsReal(Append(s, p)[i])
  BY <1>1 DEF Sorted
<1>3. ASSUME NEW i \in 1..Len(Append(s, p)), NEW j \in 1..Len(Append(s, p)), i < j
      PROVE  Append(s, p)[i].sent < Append(s, p)[j].sent
  <2>1. i \in 1..Len(s)
    BY <1>1, <1>3
  <2>2. CASE j \in 1..Len(s)
    BY <1>1, <1>3, <2>1, <2>2 DEF Sorted
  <2>3. CASE j = Len(s) + 1
    BY <1>1, <2>1, <2>3
  <2> QED BY <1>1, <2>2, <2>3
<1> QED BY <1>2, <1>3 DEF Sorted

LEMMA AppendAfter ==
  ASSUME NEW s \in Seq(Packet), NEW p, NEW t, After(t, s), t < p.sent
  PROVE  After(t, Append(s, p))
<1>1. \A i \in 1..Len(Append(s, p)) :
        Append(s, p)[i] = p \/ (i \in 1..Len(s) /\ Append(s, p)[i] = s[i])
  OBVIOUS
<1> QED BY <1>1 DEF After

LEMMA TailSorted ==
  ASSUME NEW s \in Seq(Packet), s # <<>>, Sorted(s)
  PROVE  /\ Sorted(Tail(s)) /\ After(Head(s).sent, Tail(s))
         /\ Head(s).sent \in 1..now /\ IsReal(Head(s))
         /\ \A t : After(t, s) => After(t, Tail(s)) /\ t < Head(s).sent
<1>1. /\ Len(s) \in Nat /\ Len(Tail(s)) = Len(s) - 1
      /\ \A i \in 1..Len(Tail(s)) : Tail(s)[i] = s[i + 1] /\ i + 1 \in 1..Len(s) /\ 1 < i + 1
      /\ Head(s) = s[1] /\ 1 \in 1..Len(s)
  OBVIOUS
<1>2. ASSUME NEW i \in 1..Len(Tail(s)), NEW j \in 1..Len(Tail(s)), i < j
      PROVE  Tail(s)[i].sent < Tail(s)[j].sent
  <2>1. /\ Tail(s)[i] = s[i + 1] /\ Tail(s)[j] = s[j + 1]
        /\ i + 1 \in 1..Len(s) /\ j + 1 \in 1..Len(s) /\ i + 1 < j + 1
    BY <1>1, <1>2
  <2> QED BY <2>1 DEF Sorted
<1>3. Sorted(Tail(s))
  BY <1>1, <1>2 DEF Sorted
<1> QED BY <1>1, <1>3 DEF Sorted, After

\* The invariant speaks of what it mentions only.
LEMMA OrderUnchanged ==
  ASSUME OrderInv, now' = now, flight' = flight, buffer' = buffer, hand' = hand, last' = last,
         pc' = "took" => pc = "took"
  PROVE  OrderInv'
BY DEF OrderInv, Sorted, After, IsReal

LEMMA TickKeepsOrder ==
  ASSUME TypeOK, OrderInv, Tick, UNCHANGED loop
  PROVE  OrderInv'
<1> DEFINE packet == [counter |-> (now + 1 - sensor.start) % CounterSize,
                      status |-> sensor.status, sent |-> now + 1, run |-> sensor.run]
<1>1. now' = now + 1 /\ buffer' = buffer /\ pc' = pc /\ hand' = hand /\ last' = last
  BY DEF Tick, loop
<1>2. flight' = flight \/ flight' = Append(flight, packet)
  BY DEF Tick
<1>3. packet.sent = now + 1 /\ IsReal(packet)
  BY DEF TypeOK, FeedTypeOK, IsReal
<1> HIDE DEF packet
<1>4. ASSUME NEW s \in Seq(Packet), Sorted(s) PROVE Sorted(s)'
  BY <1>1, <1>4, TimesAreNumbers DEF Sorted, IsReal
<1>5. flight \in Seq(Packet) /\ buffer \in Seq(Packet) /\ now' \in Nat
  BY <1>1, TimesAreNumbers, QueuesAreSequences
<1>6. Sorted(flight)' /\ Sorted(buffer)'
  <2>1. Sorted(buffer)'
    BY <1>1, <1>4, <1>5 DEF OrderInv, Sorted
  <2>2. \A i \in 1..Len(flight) : flight[i].sent < packet.sent /\ flight[i].sent \in 1..now'
    BY <1>1, <1>3, TimesAreNumbers DEF OrderInv, Sorted
  <2>3. packet.sent \in 1..now'
    BY <1>1, <1>3, TimesAreNumbers
  <2>4. Sorted(flight)'
    <3>1. CASE flight' = flight
      BY <2>2, <3>1 DEF OrderInv, Sorted, IsReal
    <3>2. CASE flight' = Append(flight, packet)
      <4>1. /\ Len(flight') = Len(flight) + 1 /\ flight'[Len(flight) + 1] = packet
            /\ \A i \in 1..Len(flight) : flight'[i] = flight[i]
            /\ \A i \in 1..(Len(flight) + 1) : i \in 1..Len(flight) \/ i = Len(flight) + 1
        BY <1>5, <3>2
      <4>2. \A i \in 1..Len(flight') : flight'[i].sent \in 1..now' /\ IsReal(flight'[i])
        BY <1>3, <2>2, <2>3, <4>1 DEF OrderInv, Sorted
      <4>3. ASSUME NEW i \in 1..Len(flight'), NEW j \in 1..Len(flight'), i < j
            PROVE  flight'[i].sent < flight'[j].sent
        <5>1. i \in 1..Len(flight)
          BY <1>5, <4>1, <4>3
        <5>2. CASE j \in 1..Len(flight)
          BY <4>1, <4>3, <5>1, <5>2 DEF OrderInv, Sorted
        <5>3. CASE j = Len(flight) + 1
          BY <2>2, <4>1, <5>1, <5>3
        <5> QED BY <4>1, <5>2, <5>3
      <4> QED BY <4>2, <4>3 DEF Sorted, IsReal
    <3> QED BY <1>2, <3>1, <3>2
  <2> QED BY <2>1, <2>4
<1>7. ASSUME NEW t \in Nat, t <= now, After(t, flight) PROVE After(t, flight')
  <2>1. t < packet.sent
    BY <1>3, <1>7, TimesAreNumbers
  <2>2. After(t, Append(flight, packet))
    BY <1>5, <1>7, <2>1, AppendAfter
  <2> QED BY <1>2, <1>7, <2>2
<1>8. \A i \in 1..Len(buffer) : buffer[i].sent \in Nat /\ buffer[i].sent <= now
  BY TimesAreNumbers DEF OrderInv, Sorted
<1>9. \A i \in 1..Len(buffer') : After(buffer'[i].sent, flight')
  BY <1>1, <1>7, <1>8 DEF OrderInv
<1>10. last # None => last.sent <= now' /\ After(last.sent, buffer) /\ After(last.sent, flight')
  BY <1>1, <1>7, TimesAreNumbers DEF OrderInv
<1>11. pc = "took" /\ IsReal(hand) =>
         hand.sent <= now' /\ After(hand.sent, buffer) /\ After(hand.sent, flight')
  BY <1>1, <1>7, TimesAreNumbers DEF OrderInv
<1> QED BY <1>1, <1>6, <1>9, <1>10, <1>11 DEF OrderInv, After, IsReal

LEMMA PutKeepsOrder ==
  ASSUME TypeOK, OrderInv, Put, UNCHANGED loop
  PROVE  OrderInv'
<1> DEFINE p == Head(flight)
<1>1. now' = now /\ pc' = pc /\ hand' = hand /\ last' = last
  BY DEF Put, loop
<1>2. /\ flight # <<>> /\ flight' = Tail(flight)
      /\ buffer' = buffer \/ buffer' = Append(buffer, p)
  BY DEF Put
<1>3. flight \in Seq(Packet) /\ buffer \in Seq(Packet) /\ now \in Nat
  BY TimesAreNumbers, QueuesAreSequences
<1>4. /\ Sorted(flight') /\ After(p.sent, flight') /\ p.sent \in 1..now /\ IsReal(p)
      /\ \A t : After(t, flight) => After(t, flight') /\ t < p.sent
  BY <1>2, <1>3, TailSorted DEF OrderInv
<1> HIDE DEF p
<1>5. Sorted(buffer')
  <2>1. \A i \in 1..Len(buffer) : buffer[i].sent < p.sent
    BY <1>4 DEF OrderInv
  <2> QED BY <1>2, <1>3, <1>4, <2>1, AppendSorted DEF OrderInv
<1>6. \A i \in 1..Len(buffer') : After(buffer'[i].sent, flight')
  <2>1. \A i \in 1..Len(buffer) : After(buffer[i].sent, flight')
    BY <1>4 DEF OrderInv
  <2>2. \A i \in 1..Len(buffer') : buffer'[i] = p \/ (i \in 1..Len(buffer) /\ buffer'[i] = buffer[i])
    BY <1>2, <1>3
  <2> QED BY <1>4, <2>1, <2>2
<1>7. ASSUME NEW t, After(t, buffer), After(t, flight)
      PROVE  After(t, buffer') /\ After(t, flight')
  BY <1>2, <1>3, <1>4, <1>7, AppendAfter
<1>8. Sorted(flight)' /\ Sorted(buffer)'
  BY <1>1, <1>4, <1>5 DEF Sorted, IsReal
<1>9. last # None => last.sent <= now /\ After(last.sent, buffer') /\ After(last.sent, flight')
  BY <1>7 DEF OrderInv
<1>10. pc = "took" /\ IsReal(hand) =>
         hand.sent <= now /\ After(hand.sent, buffer') /\ After(hand.sent, flight')
  BY <1>7 DEF OrderInv
<1> QED BY <1>1, <1>6, <1>8, <1>9, <1>10 DEF OrderInv, After, IsReal

LEMMA TakeKeepsOrder ==
  ASSUME TypeOK, OrderInv, TakePacket
  PROVE  /\ now' = now /\ flight' = flight /\ Sorted(buffer)'
         /\ \A i \in 1..Len(buffer') : After(buffer'[i].sent, flight)
         /\ Head(buffer).sent \in 1..now /\ IsReal(Head(buffer))
         /\ After(Head(buffer).sent, buffer') /\ After(Head(buffer).sent, flight)
         /\ last # None => last.sent < Head(buffer).sent /\ After(last.sent, buffer')
<1>1. /\ buffer # <<>> /\ buffer' = Tail(buffer) /\ now' = now /\ flight' = flight
      /\ buffer \in Seq(Packet)
  BY QueuesAreSequences DEF TakePacket
<1>2. /\ Sorted(buffer') /\ After(Head(buffer).sent, buffer')
      /\ Head(buffer).sent \in 1..now /\ IsReal(Head(buffer))
      /\ \A t : After(t, buffer) => After(t, buffer') /\ t < Head(buffer).sent
  BY <1>1, TailSorted DEF OrderInv
<1>3. /\ \A i \in 1..Len(buffer') : buffer'[i] = buffer[i + 1] /\ i + 1 \in 1..Len(buffer)
      /\ Head(buffer) = buffer[1] /\ 1 \in 1..Len(buffer)
  BY <1>1
<1>4. /\ \A i \in 1..Len(buffer') : After(buffer'[i].sent, flight)
      /\ After(Head(buffer).sent, flight)
  BY <1>3 DEF OrderInv
<1>5. Sorted(buffer)'
  BY <1>1, <1>2 DEF Sorted, IsReal
<1> QED BY <1>1, <1>2, <1>4, <1>5 DEF OrderInv

LEMMA OrderStep == TypeOK /\ OrderInv /\ [Next]_vars => OrderInv'
<1> SUFFICES ASSUME TypeOK, OrderInv, [Next]_vars PROVE OrderInv'
  OBVIOUS
<1>1. CASE Environment /\ UNCHANGED <<rosOk, loop>>
  <2>1. CASE StatusChanges \/ SignalFails \/ SignalReturns
    BY <1>1, <2>1, OrderUnchanged DEF StatusChanges, SignalFails, SignalReturns, loop
  <2> QED BY <1>1, <2>1, TickKeepsOrder, PutKeepsOrder DEF Environment
<1>2. CASE Activate
  <2>1. /\ now' = now /\ flight' = flight /\ buffer' = <<>> /\ pc' = "check"
        /\ hand' = hand /\ last' = None
    BY <1>2 DEF Activate, ClearSamples
  <2> QED BY <2>1 DEF OrderInv, Sorted, After, IsReal
<1>3. CASE RequestStop \/ ContextEnds \/ CheckStop \/ GetNothing \/ UNCHANGED vars
  BY <1>3, OrderUnchanged DEF RequestStop, ContextEnds, CheckStop, GetNothing, vars, feed, loop
<1>4. CASE GetSamples
  <2>1. CASE TakePacket /\ hand' = Head(buffer)
    <3>1. pc' = "took" /\ last' = last
      BY <1>4 DEF GetSamples
    <3>2. Sorted(flight)'
      BY <2>1, TakeKeepsOrder DEF OrderInv, Sorted, IsReal
    <3>3. hand'.sent <= now
      BY <2>1, TakeKeepsOrder, TimesAreNumbers
    <3> QED BY <2>1, <3>1, <3>2, <3>3, TakeKeepsOrder DEF OrderInv, After, IsReal
  <2>2. CASE hand' = ZeroSample /\ UNCHANGED feed
    BY <1>4, <2>2 DEF GetSamples, feed, IsReal, ZeroSample, OrderInv, Sorted, After
  <2> QED BY <1>4, <2>1, <2>2 DEF GetSamples
<1>5. CASE AnnounceRestored
  BY <1>5 DEF AnnounceRestored, feed, OrderInv, Sorted, After, IsReal
<1>6. CASE Process
  <2>1. /\ last' = hand /\ hand' = ZeroSample /\ pc = "took" /\ pc' # "took"
        /\ UNCHANGED <<now, flight, buffer>>
    BY <1>6 DEF Process, feed
  <2>2. hand.sent <= now /\ After(hand.sent, buffer) /\ After(hand.sent, flight)
    <3>1. CASE IsReal(hand)
      BY <2>1, <3>1 DEF OrderInv
    <3>2. CASE ~IsReal(hand)
      BY <3>2, TimesAreNumbers DEF OrderInv, Sorted, After
    <3> QED BY <3>1, <3>2
  <2> QED BY <2>1, <2>2 DEF OrderInv, Sorted, After, IsReal, ZeroSample
<1> QED BY <1>1, <1>2, <1>3, <1>4, <1>5, <1>6 DEF Next, LoopStep

LEMMA OrderInit == ASSUME FeedInit, LoopInit PROVE OrderInv
BY FeedAssumption DEF FeedInit, LoopInit, OrderInv, Sorted, After, ZeroSample, IsReal

LEMMA GapsFromInv == TypeOK /\ CountInv /\ OrderInv => GapIsExact
<1> SUFFICES ASSUME TypeOK, CountInv, OrderInv, pc = "took", last # None,
                    Comparable(hand, last)
             PROVE  PacketGap(last, hand.counter) = hand.sent - last.sent - 1
  BY DEF GapIsExact
<1>1. hand \in Known /\ last \in Known
  BY DEF Known
<1>2. PICK a \in Nat, b \in Nat :
        /\ b <= a /\ a - b = hand.sent - last.sent /\ a - b < CounterSize
        /\ hand.counter = a % CounterSize /\ last.counter = b % CounterSize
  BY <1>1, CountersTellTime
<1>3. last.sent < hand.sent /\ last.sent \in Int /\ hand.sent \in Int
  BY <1>1, KnownArePackets, FeedAssumption DEF OrderInv, Comparable, Packet
<1>4. b < a
  BY <1>2, <1>3
<1>5. ((a % CounterSize) - (b % CounterSize) - 1 + CounterSize) % CounterSize = a - b - 1
  BY <1>2, <1>4, FeedAssumption, ModGap, ZenonT(120)
<1> QED BY <1>2, <1>5 DEF PacketGap

\* The gap that is reported is the number of packets missed, across the wrap.
THEOREM GapsAreExact == Spec => []GapIsExact
<1>1. Init => CountInv /\ OrderInv
  BY CountInit, OrderInit DEF Init
<1> QED BY <1>1, InitType, TypeStep, CountStep, OrderStep, GapsFromInv, PTL DEF Spec
-----------------------------------------------------------------------------
(* Old samples *)

\* What is buffered while the thread runs, and what is on its way, was not in the
\* buffer at the activation.
FreshInv ==
  /\ fresh \in Nat /\ fresh <= now + 1
  /\ pc # "ended" => After(fresh - 1, flight) /\ After(fresh - 1, buffer)
  /\ pc = "took" /\ IsReal(hand) => hand.sent >= fresh

LEMMA FreshStep == TypeOK /\ OrderInv /\ FreshInv /\ [Next]_vars => FreshInv'
<1> SUFFICES ASSUME TypeOK, OrderInv, FreshInv, [Next]_vars PROVE FreshInv'
  OBVIOUS
<1> USE DEF FreshInv
<1>0. now \in Nat /\ fresh \in Nat /\ flight \in Seq(Packet) /\ buffer \in Seq(Packet)
  BY TimesAreNumbers, QueuesAreSequences
<1>1. CASE Environment /\ UNCHANGED <<rosOk, loop>>
  <2>1. fresh' = fresh /\ pc' = pc /\ hand' = hand
    BY <1>1 DEF loop
  <2>2. CASE Tick
    <3>1. now' = now + 1 /\ buffer' = buffer
      BY <2>2 DEF Tick
    <3>2. flight' = flight \/ \E p : p.sent = now + 1 /\ flight' = Append(flight, p)
      BY <2>2 DEF Tick
    <3>3. pc # "ended" => After(fresh - 1, flight')
      <4> SUFFICES ASSUME pc # "ended", NEW p, p.sent = now + 1, flight' = Append(flight, p)
                   PROVE  After(fresh - 1, flight')
        BY <3>2
      <4>1. fresh - 1 < p.sent
        BY <1>0
      <4>2. After(fresh - 1, flight)
        OBVIOUS
      <4> QED BY <1>0, <4>1, <4>2, AppendAfter
    <3> QED BY <1>0, <2>1, <3>1, <3>3 DEF IsReal
  <2>3. CASE Put
    <3>1. /\ now' = now /\ flight # <<>> /\ flight' = Tail(flight)
          /\ buffer' = buffer \/ buffer' = Append(buffer, Head(flight))
      BY <2>3 DEF Put
    <3>2. pc # "ended" => After(fresh - 1, flight') /\ fresh - 1 < Head(flight).sent
      BY <1>0, <3>1, TailSorted DEF OrderInv
    <3>3. pc # "ended" => After(fresh - 1, buffer')
      BY <1>0, <3>1, <3>2, AppendAfter
    <3> QED BY <1>0, <2>1, <3>1, <3>2, <3>3 DEF IsReal
  <2>4. CASE UNCHANGED <<now, flight, buffer>>
    BY <2>1, <2>4 DEF IsReal, After
  <2> QED BY <1>1, <2>2, <2>3, <2>4 DEF Environment, StatusChanges, SignalFails, SignalReturns
<1>2. CASE Activate
  <2>1. /\ now' = now /\ flight' = flight /\ buffer' = <<>> /\ pc' = "check" /\ fresh' = NextToPut
    BY <1>2 DEF Activate, ClearSamples
  <2>2. CASE flight = <<>>
    BY <1>0, <2>1, <2>2 DEF NextToPut, After
  <2>3. CASE flight # <<>>
    <3>1. Head(flight).sent \in 1..now /\ Head(flight) = flight[1] /\ 1 \in 1..Len(flight)
      BY <1>0, <2>3, TailSorted DEF OrderInv
    <3>2. \A i \in 1..Len(flight) : flight[i].sent \in Nat /\ flight[1].sent <= flight[i].sent
      <4> SUFFICES ASSUME NEW i \in 1..Len(flight)
                   PROVE  flight[i].sent \in Nat /\ flight[1].sent <= flight[i].sent
        OBVIOUS
      <4>1. flight[i].sent \in Nat
        BY TimesAreNumbers
      <4>2. CASE i = 1
        BY <4>1, <4>2
      <4>3. CASE 1 < i
        BY <3>1, <4>1, <4>3, TimesAreNumbers DEF OrderInv, Sorted
      <4> QED BY <1>0, <4>2, <4>3
    <3> QED BY <1>0, <2>1, <2>3, <3>1, <3>2 DEF NextToPut, After
  <2> QED BY <2>2, <2>3
<1>3. CASE RequestStop \/ ContextEnds \/ CheckStop \/ GetNothing \/ AnnounceRestored
           \/ Process \/ UNCHANGED vars
  <2>1. UNCHANGED <<now, flight, buffer, fresh>> /\ (pc = "ended" => pc' = "ended")
    BY <1>3 DEF RequestStop, ContextEnds, CheckStop, GetNothing, AnnounceRestored, Process,
         vars, feed, loop
  <2>2. pc' = "took" => pc = "took" /\ hand' = hand
    BY <1>3 DEF RequestStop, ContextEnds, CheckStop, GetNothing, AnnounceRestored, Process,
         vars, feed, loop
  <2> QED BY <2>1, <2>2 DEF IsReal, After
<1>4. CASE GetSamples
  <2>1. pc = "wait" /\ fresh' = fresh
    BY <1>4 DEF GetSamples
  <2>2. CASE TakePacket /\ hand' = Head(buffer)
    <3>1. /\ now' = now /\ flight' = flight /\ buffer # <<>> /\ buffer' = Tail(buffer)
      BY <2>2 DEF TakePacket
    <3>2. After(fresh - 1, buffer') /\ fresh - 1 < Head(buffer).sent
      BY <1>0, <2>1, <3>1, TailSorted DEF OrderInv
    <3>3. Head(buffer).sent \in Nat
      BY <2>2, TakeKeepsOrder
    <3> QED BY <1>0, <2>1, <2>2, <3>1, <3>2, <3>3 DEF After, IsReal
  <2>3. CASE hand' = ZeroSample /\ UNCHANGED feed
    BY <2>1, <2>3 DEF feed, IsReal, ZeroSample, After
  <2> QED BY <1>4, <2>2, <2>3 DEF GetSamples
<1> QED BY <1>1, <1>2, <1>3, <1>4 DEF Next, LoopStep

LEMMA FreshInit == ASSUME FeedInit, LoopInit PROVE FreshInv
BY DEF FeedInit, LoopInit, FreshInv

\* No sample that was in the buffer at the activation is looked at.
THEOREM OldSamplesAreDropped == Spec => []OldSamplesDropped
<1>1. Init => OrderInv /\ FreshInv
  BY OrderInit, FreshInit DEF Init
<1>2. FreshInv => OldSamplesDropped
  BY DEF FreshInv, OldSamplesDropped
<1> QED BY <1>1, <1>2, InitType, TypeStep, OrderStep, FreshStep, PTL DEF Spec
=============================================================================
