----------------------------- MODULE DummySensor -----------------------------
(***************************************************************************)
(* The sensor simulator, schunk_fts_dummy/src: a task per TCP connection   *)
(* that answers requests, and a task that streams over UDP.  They share    *)
(* one thing, the output rate, behind a mutex: a request may change it     *)
(* between the moment the UDP task reads it and the moment the packet that *)
(* it composes is sent.                                                    *)
(***************************************************************************)
EXTENDS Messages

CONSTANTS
  Conn,     \* TCP connections
  MaxAir    \* datagrams that the receiver's socket holds; more are lost

VARIABLES
  mode,       \* OutputRateState.mode
  composing,  \* the UDP task's copy of it, {} between two packets
  conn,       \* each connection: free, open, closed by the client, ended by the task
  requests,   \* requests the task has not read
  answers,    \* answers the client has not read
  air,        \* datagrams the receiver has not read
  streaming   \* the receiver's socket is bound, see SensorLink

sensorVars == <<mode, composing, conn, requests, answers, air>>

\* OutputRateMode::from_enum.
SensorMode ==
  [enum \in {0, 1, 2, 3, 10} |->
     CASE enum = 0  -> [enum |-> 0,  packetRate |-> 1000, samples |-> 1]
       [] enum = 1  -> [enum |-> 1,  packetRate |-> 500,  samples |-> 1]
       [] enum = 2  -> [enum |-> 2,  packetRate |-> 250,  samples |-> 1]
       [] enum = 3  -> [enum |-> 3,  packetRate |-> 100,  samples |-> 1]
       [] enum = 10 -> [enum |-> 10, packetRate |-> 500,  samples |-> 16]]
Modes == {SensorMode[e] : e \in DOMAIN SensorMode}

SensorInit ==
  /\ mode = SensorMode[0]
  /\ composing = {}
  /\ conn = [c \in Conn |-> "free"]
  /\ requests = [c \in Conn |-> <<>>] /\ answers = [c \in Conn |-> <<>>]
  /\ air = <<>>

-----------------------------------------------------------------------------
(***************************************************************************)
(* Sensor::process.                                                        *)
(***************************************************************************)
\* The task indexes the message without looking at its length, and panics.
Panics(msg) == Len(msg) = 0 \/ (msg[1] \in {240, 241} /\ Len(msg) < 4)

ParamIndex(msg) == msg[2] + 256 * msg[3]
IsRate(msg) == ParamIndex(msg) = 4128 /\ msg[4] = 0

\* set_enum succeeds.
SetsRate(msg) ==
  msg[1] = 241 /\ IsRate(msg) /\ Len(msg) > 4 /\ msg[5] \in DOMAIN SensorMode

\* Mutants: the connection answers from a rate of its own; the index goes out
\* with its high byte first.
OwnRate(msg) == IF IsRate(msg) THEN <<0>> ELSE <<75, 77, 83>>
HighByteFirst(n) == <<n \div 256, n % 256>>

ParamValue(msg) == IF IsRate(msg) THEN <<mode.enum>> ELSE <<75, 77, 83>>
PutIndex(n) == <<n % 256, n \div 256>>

SetError(msg) ==
  CASE ~IsRate(msg) \/ SetsRate(msg) -> 0
    [] IsRate(msg) /\ Len(msg) <= 4 -> 21
    [] OTHER -> 22

ValidCommands == {16, 17, 18, 19, 32, 48, 49, 64, 65}

Process(msg) ==
  CASE msg[1] = 240 -> <<240, 0>> \o PutIndex(ParamIndex(msg)) \o <<msg[4]>> \o ParamValue(msg)
    [] msg[1] = 241 -> <<241, SetError(msg)>> \o PutIndex(ParamIndex(msg)) \o <<msg[4]>>
    [] OTHER -> <<msg[1], IF msg[1] \in ValidCommands THEN 0 ELSE 1>>

-----------------------------------------------------------------------------
\* Mutant: the task does not consume what it has read.
ReadAgain(c) ==
  /\ conn[c] \in {"open", "left"} /\ requests[c] # <<>>
  /\ UNCHANGED requests
\* A read takes all that has arrived; only the first message is looked at.
Read(c) ==
  /\ conn[c] \in {"open", "left"} /\ requests[c] # <<>>
  /\ requests' = [requests EXCEPT ![c] = <<>>]

\* The answer to a client that has left is lost; the next read ends the task.
Serve(c) ==
  LET msg == Head(requests[c]) IN
  /\ Read(c) /\ ~Panics(msg)
  /\ mode' = IF SetsRate(msg) THEN SensorMode[msg[5]] ELSE mode
  /\ answers' = IF conn[c] = "open" THEN [answers EXCEPT ![c] = Append(@, Process(msg))]
                                    ELSE answers
  /\ UNCHANGED <<composing, conn, air>>

TaskPanics(c) ==
  /\ Read(c) /\ Panics(Head(requests[c]))
  /\ conn' = [conn EXCEPT ![c] = IF @ = "left" THEN "free" ELSE "ended"]
  /\ UNCHANGED <<mode, composing, answers, air>>

\* The client has closed the connection: a read of nothing, or an error if what the
\* task has not read went with it.
TaskEnds(c) ==
  /\ conn[c] = "left" /\ conn' = [conn EXCEPT ![c] = "free"]
  /\ requests' = [requests EXCEPT ![c] = <<>>]
  /\ UNCHANGED <<mode, composing, answers, air>>

-----------------------------------------------------------------------------
(***************************************************************************)
(* stream_ft_data.                                                         *)
(***************************************************************************)
\* Mutant: the rate is read once, when the stream starts.
TakeFirstMode ==
  /\ composing = {} /\ composing' = {SensorMode[0]}
  /\ UNCHANGED <<mode, conn, requests, answers, air>>
TakeMode ==
  /\ composing = {} /\ composing' = {mode}
  /\ UNCHANGED <<mode, conn, requests, answers, air>>

\* Mutant: the header reads the rate again.
TornPacket(m) ==
  [source |-> "sensor", len |-> 7 + 28 * m.samples, declared |-> 1 + 28 * mode.samples,
   rate |-> m.packetRate, samples |-> m.samples]
Packet(m) ==
  [source |-> "sensor", len |-> 7 + 28 * m.samples, declared |-> 1 + 28 * m.samples,
   rate |-> m.packetRate, samples |-> m.samples]

\* A datagram finds a socket with room for it, or is lost.
Arrives(p) == air' = IF streaming /\ Len(air) < MaxAir THEN Append(air, p) ELSE air

SendPacket ==
  /\ \E m \in composing : Arrives(Packet(m))
  /\ composing' = {}
  /\ UNCHANGED <<mode, conn, requests, answers>>
=============================================================================
