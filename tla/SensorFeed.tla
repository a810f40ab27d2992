----------------------------- MODULE SensorFeed -----------------------------
(***************************************************************************)
(* What the ROS node sees of the sensor: packets that wait in the socket   *)
(* and in the list that Stream.read made of it, a buffer that the library  *)
(* puts them into one by one, and the two waits that tell an empty buffer  *)
(* from a lost signal (FTDataBuffer.get and get_sample_batch).  One tick   *)
(* of the clock is one packet period.  The queue's inner workings are in   *)
(* DataBuffer, the way the library gets a sensor to stream again in        *)
(* StreamingDriver; here a put and a get are one step each.                *)
(***************************************************************************)
EXTENDS Integers, Sequences, SensorStatus

CONSTANTS
  Statuses,     \* the status bits this sensor may report, sets of flags
  Outages,      \* how the signal may fail: "cut" (the packets do not arrive)
                \* and "power" (the sensor restarts and counts from 0)
  CounterSize,  \* number of values of the packet counter, 65536 in the code
  SocketSize,   \* so many packets wait for the library; the kernel drops more
  QueueSize,    \* maxsize of FTDataBuffer's queue
  Patience,     \* a reader waits so long for a packet (0.1 s), in ticks
  Silence,      \* after so long without one it is given a zero sample (1 s)
  Delay,        \* a library that keeps up puts a packet so soon after it was
                \* sent: it sleeps 10 ms between two reads
  BootTime,     \* a sensor that lost power streams again no sooner than this:
                \* the library waits 1.6 s before it tries
  MaxTime,      \* bound on the clock
  MaxRestarts   \* bound on the restarts of the sensor

ASSUME FeedAssumption ==
  /\ Statuses \subseteq SUBSET Flag
  /\ Outages \subseteq {"cut", "power"}
  /\ CounterSize \in Nat \ {0}
  /\ SocketSize \in Nat \ {0}
  /\ QueueSize \in Nat \ {0}
  /\ Patience \in Nat \ {0}
  /\ Silence \in Nat /\ Silence >= Patience
  /\ Delay \in Nat
  /\ BootTime \in Nat /\ BootTime > Silence + Delay
  /\ MaxTime \in Nat
  /\ MaxRestarts \in Nat

VARIABLES
  now,         \* the clock
  sensor,      \* signal: "on", "cut" or "off"; status: the bits it reports;
               \* run: how often it has been started; start: when it last was
               \* started, or lost power
  streaming,   \* Driver.is_streaming of the library
  flight,      \* packets that have been sent and not yet put, oldest first: in
               \* the stream's socket, and in the list that _update works through
  buffer,      \* FTDataBuffer, packets in order of arrival
  lastPacket   \* FTDataBuffer._last_packet_time

feed == <<now, sensor, streaming, flight, buffer, lastPacket>>

\* A packet: its counter and status bits; sent and run are history.
Packet == [counter : 0..(CounterSize - 1), status : SUBSET Flag,
           sent : 0..MaxTime, run : 0..(MaxRestarts + 1)]

\* The zero sample that stands for "no signal"; the sensor's runs begin with 1.
ZeroSample == [counter |-> 0, status |-> {}, sent |-> 0, run |-> 0]
IsReal(p) == p.run # 0

FeedTypeOK ==
  /\ now \in 0..MaxTime
  /\ sensor \in [signal : {"on", "cut", "off"}, status : SUBSET Flag,
                 run : 1..(MaxRestarts + 1), start : 0..MaxTime]
  /\ sensor.start <= now
  /\ sensor.signal = "off" => sensor.run <= MaxRestarts
  /\ streaming \in BOOLEAN
  /\ flight \in Seq(Packet) /\ Len(flight) <= SocketSize
  /\ buffer \in Seq(Packet) /\ Len(buffer) <= QueueSize
  /\ lastPacket \in 0..MaxTime

FeedInit ==
  /\ now = 0
  /\ sensor \in [signal : {"on"}, status : Statuses, run : {1}, start : {0}]
  /\ flight = <<>> /\ buffer = <<>>
  /\ lastPacket = 0

\* A packet period passes.  A sensor that is powered counts it and sends its packet,
\* which reaches the open stream if the signal is on and the socket not full.
Tick ==
  /\ now < MaxTime
  /\ now' = now + 1
  /\ LET packet == [counter |-> (now + 1 - sensor.start) % CounterSize,
                    status |-> sensor.status, sent |-> now + 1, run |-> sensor.run]
     IN flight' = IF streaming /\ sensor.signal = "on" /\ Len(flight) < SocketSize
                  THEN Append(flight, packet) ELSE flight
  /\ UNCHANGED <<sensor, streaming, buffer, lastPacket>>

\* _update puts the next packet into the buffer, which drops it when it is full.
PutOverfills ==   \* mutant: the buffer takes one packet more than its size
  /\ flight # <<>> /\ flight' = Tail(flight)
  /\ buffer' = IF Len(buffer) <= QueueSize THEN Append(buffer, Head(flight)) ELSE buffer
  /\ UNCHANGED <<now, sensor, streaming, lastPacket>>
Put ==
  /\ flight # <<>> /\ flight' = Tail(flight)
  /\ buffer' = IF Len(buffer) < QueueSize THEN Append(buffer, Head(flight)) ELSE buffer
  /\ UNCHANGED <<now, sensor, streaming, lastPacket>>

\* The sensor reports another status.
StatusChanges ==
  /\ sensor.signal # "off"
  /\ \E status \in Statuses \ {sensor.status} :
       sensor' = [sensor EXCEPT !.status = status]
  /\ UNCHANGED <<now, streaming, flight, buffer, lastPacket>>

\* The packets cease to arrive, or the sensor loses power.
SignalFails ==
  /\ sensor.signal = "on"
  /\ \/ "cut" \in Outages /\ sensor' = [sensor EXCEPT !.signal = "cut"]
     \/ /\ "power" \in Outages /\ sensor.run <= MaxRestarts
        /\ sensor' = [sensor EXCEPT !.signal = "off", !.start = now]
  /\ UNCHANGED <<now, streaming, flight, buffer, lastPacket>>

\* They arrive again; after a loss of power, from a sensor that counts from 0.
SignalReturns ==
  /\ \/ sensor.signal = "cut" /\ sensor' = [sensor EXCEPT !.signal = "on"]
     \/ /\ sensor.signal = "off" /\ now - sensor.start >= BootTime
        /\ \E status \in Statuses :
             sensor' = [signal |-> "on", status |-> status,
                        run |-> sensor.run + 1, start |-> now]
  /\ UNCHANGED <<now, streaming, flight, buffer, lastPacket>>

Environment == Tick \/ Put \/ StatusChanges \/ SignalFails \/ SignalReturns

\* No packet is longer on its way than a library that keeps up takes.
OnTime == flight # <<>> => now - Head(flight).sent <= Delay

-----------------------------------------------------------------------------
\* The three ways in which a read ends that began to wait at time "since".
\* It takes the oldest packet:
TakePacket ==
  /\ streaming /\ buffer # <<>>
  /\ buffer' = Tail(buffer)
  /\ lastPacket' = now
  /\ UNCHANGED <<now, sensor, streaming, flight>>

WaitedInVain(since) == buffer = <<>> /\ now - since >= Patience

\* it is given the zero sample:
ZeroSampleDue(since) == streaming /\ WaitedInVain(since) /\ now - lastPacket > Silence

\* or None, which a driver that does not stream answers at once.
NothingDue(since) ==
  \/ ~streaming
  \/ WaitedInVain(since) /\ now - lastPacket <= Silence

\* FTDataBuffer.clear, on behalf of Driver.clear_samples.  It does not reach the
\* packets on their way.
ClearSamples ==
  /\ buffer' = <<>>
  /\ lastPacket' = now
  /\ UNCHANGED <<now, sensor, streaming, flight>>
=============================================================================
