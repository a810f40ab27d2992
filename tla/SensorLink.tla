------------------------------ MODULE SensorLink ------------------------------
(***************************************************************************)
(* Library drivers at one sensor: what their requests do to the sensor,    *)
(* and what the one that receives the stream makes of the datagrams.  A    *)
(* driver has one request at a time here, over the connection it holds;    *)
(* ConnectionClients is about threads that overlap on one connection.      *)
(*                                                                         *)
(* A request that is not answered in time is given up: the driver closes   *)
(* its connection and takes a new one, and the sensor may still come to    *)
(* what it was asked on the old one, later than to what it is asked on the *)
(* new one.                                                                *)
(***************************************************************************)
EXTENDS DummySensor

CONSTANTS
  Client,        \* library drivers
  Rate,          \* the output_rate of each
  OtherRequest,  \* what each asks, besides configuring its rate
  Stray,         \* datagrams that come from somebody else
  SourceHost,    \* the driver that streams was given a streaming_source_host
  QueueSize      \* packets that its buffer holds

VARIABLES
  link,      \* each driver's connection, {} if none
  asked,     \* the request it waits for the answer of, {} if none
  batch,     \* packets that read() has returned and _update has not put
  queue,     \* the queue of the data buffer
  lastSet,   \* history: the connection on which the rate was last set
  inEffect,  \* history: rates in effect since each driver has asked for the rate
  acked,     \* history: the driver whose rate was the last to be set, once told so
  wrong      \* history: packets sent since that are not as its rate has them

ASSUME RateAssumption == Rate \in [Client -> DOMAIN OutputRateMode]
ASSUME StreamAssumption ==
  /\ MaxAir \in Nat /\ QueueSize \in Nat
  /\ \A p \in Stray : p.source # "sensor"

\* A request whose fields have the width that the sensor's protocol gives them.  Its
\* value may be anything, hexadecimal or not, but for the rate's: one byte or none.
Wide(field, n) == field \in Seq(Byte) /\ Len(field) = n
WellFormed(r) ==
  /\ Wide(r.command, 1) /\ r.value \in Seq(Byte \cup {256})
  /\ IF r.command \in {<<240>>, <<241>>}
       THEN /\ Wide(r.index, 2) /\ Wide(r.subindex, 1)
            /\ r.index = RateIndex /\ r.subindex = RateSubindex => Len(r.value) <= 1
       ELSE r.index = <<>> /\ r.subindex = <<>>

\* A field that is left out moves those behind it.  Where that does not leave the
\* message too short for an answer, the sensor answers another request.
ASSUME RequestAssumption ==
  \A d \in Client : \A r \in OtherRequest[d] : WellFormed(r) \/ Panics(ToBytes(r))

clientVars == <<link, asked>>
streamVars == <<streaming, batch, queue>>
history == <<lastSet, inEffect, acked, wrong>>
vars == <<sensorVars, clientVars, streamVars, history>>

GetRate == GetParameterRequest(RateIndex, RateSubindex)
Request(d) == OtherRequest[d] \cup {ConfigureOutputRate(Rate[d])}
SensorPackets == {Packet(m) : m \in Modes}
Datagrams == SensorPackets \cup Stray

TypeOK ==
  /\ mode \in Modes /\ composing \in SUBSET Modes
  /\ conn \in [Conn -> {"free", "open", "left", "ended"}]
  /\ \A c \in Conn : Len(requests[c]) + Len(answers[c]) <= 1
  /\ link \in [Client -> SUBSET Conn]
  /\ \A d \in Client : asked[d] \subseteq Request(d)
  /\ streaming \in BOOLEAN
  /\ air \in Seq(Datagrams) /\ batch \in Seq(Datagrams) /\ queue \in Seq(Datagrams)
  /\ Len(air) <= MaxAir /\ Len(batch) <= MaxAir /\ Len(queue) <= QueueSize
  /\ lastSet \in SUBSET Conn /\ acked \in SUBSET Client /\ wrong \in 0..2
  /\ inEffect \in [Client -> SUBSET DOMAIN SensorMode]

Init ==
  /\ SensorInit
  /\ link = [d \in Client |-> {}] /\ asked = [d \in Client |-> {}]
  /\ streaming = FALSE /\ batch = <<>> /\ queue = <<>>
  /\ lastSet = {} /\ acked = {} /\ wrong = 0
  /\ inEffect = [d \in Client |-> {}]

-----------------------------------------------------------------------------
\* Connection.open, or a with-block; the sensor starts a task.
Connect(d) == \E c \in Conn :
  /\ link[d] = {} /\ conn[c] = "free"
  /\ link' = [link EXCEPT ![d] = {c}]
  /\ conn' = [conn EXCEPT ![c] = "open"]
  /\ requests' = [requests EXCEPT ![c] = <<>>] /\ answers' = [answers EXCEPT ![c] = <<>>]
  /\ UNCHANGED <<mode, composing, air, asked, streamVars, history>>

Ask(d) == \E c \in link[d], r \in Request(d) :
  /\ asked[d] = {} /\ asked' = [asked EXCEPT ![d] = {r}]
  /\ requests' = IF conn[c] = "open" THEN [requests EXCEPT ![c] = <<ToBytes(r)>>] ELSE requests
  /\ inEffect' = [inEffect EXCEPT ![d] = IF r = GetRate THEN {mode.enum} ELSE {}]
  /\ UNCHANGED <<mode, composing, conn, answers, air, link, streamVars, lastSet, acked, wrong>>

\* receive(), and from_bytes of the response; of interest is the response to
\* _configure_output_rate.
Answered(d) == \E c \in link[d], r \in asked[d] :
  /\ answers[c] # <<>> /\ answers' = [answers EXCEPT ![c] = <<>>]
  /\ asked' = [asked EXCEPT ![d] = {}] /\ inEffect' = [inEffect EXCEPT ![d] = {}]
  /\ IF r = ConfigureOutputRate(Rate[d]) /\ FromBytes(Head(answers[c])).error = Success /\ lastSet = {c}
       THEN acked' = {d} /\ wrong' = 0
       ELSE UNCHANGED <<acked, wrong>>
  /\ UNCHANGED <<mode, composing, conn, requests, air, link, streamVars, lastSet>>

\* The two seconds are over, or the sensor has closed the connection; the driver
\* closes its own side, with or without a request under way.
Disconnect(d) == \E c \in link[d] :
  /\ link' = [link EXCEPT ![d] = {}]
  /\ asked' = [asked EXCEPT ![d] = {}] /\ inEffect' = [inEffect EXCEPT ![d] = {}]
  /\ conn' = [conn EXCEPT ![c] = IF @ = "open" THEN "left" ELSE "free"]
  /\ answers' = [answers EXCEPT ![c] = <<>>]
  /\ UNCHANGED <<mode, composing, requests, air, streamVars, lastSet, acked, wrong>>

-----------------------------------------------------------------------------
\* The sensor's tasks, and what the history notes of them.
Serves(c) ==
  /\ Serve(c)
  /\ IF SetsRate(Head(requests[c]))
       THEN /\ lastSet' = {c} /\ acked' = {} /\ wrong' = 0
            /\ inEffect' = [d \in Client |-> IF asked[d] = {GetRate} THEN inEffect[d] \cup {mode'.enum} ELSE {}]
       ELSE UNCHANGED history
  /\ UNCHANGED <<clientVars, streamVars>>

TaskStops(c) ==
  /\ TaskPanics(c) \/ TaskEnds(c)
  /\ lastSet' = IF conn'[c] = "free" THEN lastSet \ {c} ELSE lastSet
  /\ UNCHANGED <<clientVars, streamVars, inEffect, acked, wrong>>

AsConfigured(d, m) ==
  /\ m.samples = OutputRateMode[Rate[d]].samples
  /\ m.packetRate = OutputRateMode[Rate[d]].packetRate

Streams ==
  \/ TakeMode /\ UNCHANGED <<clientVars, streamVars, history>>
  \/ /\ SendPacket
     /\ wrong' = IF \E d \in acked, m \in composing : ~AsConfigured(d, m) /\ wrong < 2
                   THEN wrong + 1 ELSE wrong
     /\ UNCHANGED <<clientVars, streamVars, lastSet, inEffect, acked>>

\* Somebody else sends to the port.
StrayArrives == \E p \in Stray :
  /\ Arrives(p)
  /\ UNCHANGED <<mode, composing, conn, requests, answers, clientVars, streamVars, history>>

-----------------------------------------------------------------------------
(***************************************************************************)
(* The update thread of the driver that streams: Stream and _update.       *)
(***************************************************************************)
\* A socket that is not bound receives nothing.
EnterStream ==
  /\ ~streaming /\ streaming' = TRUE
  /\ UNCHANGED <<sensorVars, clientVars, batch, queue, history>>
ExitStream ==
  /\ streaming /\ batch = <<>> /\ streaming' = FALSE /\ air' = <<>>
  /\ UNCHANGED <<mode, composing, conn, requests, answers, clientVars, batch, queue, history>>

\* Mutant: read() keeps every datagram.
AcceptsAll(p) == TRUE
AcceptsSource(p) == SourceHost => p.source = "sensor"

\* read() takes what has come, from any sender, and keeps what it accepts.  (This
\* is SelectSeq by its definition, which the proofs have to see.)
Accepted(packets) ==
  LET Kept[n \in 0..Len(packets)] ==
        IF n = 0 THEN <<>>
        ELSE IF AcceptsSource(packets[n]) THEN Append(Kept[n - 1], packets[n])
        ELSE Kept[n - 1]
  IN Kept[Len(packets)]
ReadStream ==
  /\ streaming /\ batch = <<>> /\ air # <<>>
  /\ batch' = Accepted(air) /\ air' = <<>>
  /\ UNCHANGED <<mode, composing, conn, requests, answers, clientVars, streaming, queue, history>>

\* A packet too short for a counter is skipped; one that finds the queue full is
\* dropped.
PutPacket ==
  /\ batch # <<>> /\ batch' = Tail(batch)
  /\ queue' = IF Head(batch).len >= 4 /\ Len(queue) < QueueSize
                THEN Append(queue, Head(batch)) ELSE queue
  /\ UNCHANGED <<sensorVars, clientVars, streaming, history>>

\* The consumer decodes the packet; one that does not decode raises in its thread.
TakePacket ==
  /\ queue # <<>> /\ queue' = Tail(queue)
  /\ UNCHANGED <<sensorVars, clientVars, streaming, batch, history>>

Next ==
  \/ \E d \in Client : Connect(d) \/ Ask(d) \/ Answered(d) \/ Disconnect(d)
  \/ \E c \in Conn : Serves(c) \/ TaskStops(c)
  \/ Streams \/ StrayArrives
  \/ EnterStream \/ ExitStream \/ ReadStream \/ PutPacket \/ TakePacket

Spec == Init /\ [][Next]_vars
-----------------------------------------------------------------------------
(***************************************************************************)
(* Once _configure_output_rate has returned True, and until the sensor     *)
(* serves another request for a rate, be it one that this driver gave up   *)
(* before, the sensor streams what the driver's own table says of its      *)
(* rate: so many packets a second, so many samples in each.  One           *)
(* packet at most, which was being composed, is still as before.  The      *)
(* stamps of the node's samples and the decision to publish batches rest   *)
(* on the table alone.                                                     *)
(***************************************************************************)
AckedRateIsStreamed == wrong <= 1

(***************************************************************************)
(* The answer that a driver reads is the one to its request, field by      *)
(* field, through the byte orders of both ends and after any number of     *)
(* requests given up; and set_parameter of the rate reports success if and *)
(* only if the value is one that the sensor knows.  RequestAssumption      *)
(* leaves out the request that a field which is not hexadecimal turns into *)
(* another one: that one the sensor may answer, as what it has become.     *)
(***************************************************************************)
Response(d) == FromBytes(Head(answers[CHOOSE c \in link[d] : TRUE]))
AnswerMatchesRequest ==
  [][\A d \in Client : \A r \in asked[d] :
       Answered(d) =>
         /\ Response(d).command = r.command
         /\ r.index # <<>> => Response(d).index = r.index /\ Response(d).subindex = r.subindex
         /\ r.command = <<241>> /\ r.index = RateIndex /\ r.subindex = RateSubindex =>
              (Response(d).error = Success <=>
                 \E rate \in DOMAIN OutputRateMode : r.value = OutputRateMode[rate].value)]_vars

(***************************************************************************)
(* The rate that get_parameter returns was in effect at some moment        *)
(* between the request and the answer, whoever set it and on whichever     *)
(* connection.                                                             *)
(***************************************************************************)
GetIsCurrent ==
  [][\A d \in Client :
       Answered(d) /\ asked[d] = {GetRate} =>
         \E e \in inEffect[d] : Response(d).value = <<e>>]_vars

(***************************************************************************)
(* With a streaming_source_host, every packet in the buffer decodes to as  *)
(* many samples as the sensor put into it: sample_batch() cannot raise,    *)
(* which it would do in a thread that does not expect it.                  *)
(***************************************************************************)
DeliveredDecodes ==
  SourceHost => \A i \in DOMAIN queue :
    queue[i].source = "sensor" /\ Decode(queue[i]) = queue[i].samples
=============================================================================
