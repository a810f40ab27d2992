-------------------------- MODULE SensorLink_proofs --------------------------
(* For any drivers, connections and requests: that an acknowledged rate is    *)
(* the rate that is streamed, that an answer is the one to its reader's       *)
(* request, that a rate read back is of the moment, and that what is          *)
(* delivered decodes.                                                         *)
EXTENDS SensorLink, SequenceTheorems, WellFoundedInduction, TLAPS

\* What a driver's configuration request is on the wire, for every rate: the low
\* byte of the index first, and a value that the sensor's table has.
LEMMA ReverseOne == ASSUME NEW x PROVE Reverse(<<x>>) = <<x>>
  BY DEF Reverse
LEMMA ReverseTwo == ASSUME NEW x, NEW y PROVE Reverse(<<x, y>>) = <<y, x>>
  BY DEF Reverse

LEMMA OneByte == ASSUME NEW x \in Byte PROVE FieldBytes(<<x>>) = <<x>>
  BY ReverseOne DEF FieldBytes
LEMMA IndexBytes == FieldBytes(RateIndex) = <<32, 16>>
  <1>1. \A i \in DOMAIN <<16, 32>> : <<16, 32>>[i] \in Byte BY DEF Byte
  <1> QED BY <1>1, ReverseTwo DEF FieldBytes, RateIndex

RateBytes == {0, 1, 2, 3, 10}

\* The two tables, row by row.
Agree(rate, e) ==
  /\ e \in RateBytes
  /\ OutputRateMode[rate].value = <<e>>
  /\ OutputRateMode[rate].samples = SensorMode[e].samples
  /\ OutputRateMode[rate].packetRate = SensorMode[e].packetRate

LEMMA TablesAgree ==
  ASSUME NEW rate \in DOMAIN OutputRateMode
  PROVE  \E e : Agree(rate, e)
  <1>1. rate \in {"1000", "500", "250", "100", "500_16"} BY DEF OutputRateMode
  <1>2. CASE rate = "1000"
    <2>1. Agree(rate, 0) BY <1>2 DEF Agree, OutputRateMode, SensorMode, RateBytes
    <2> QED BY <2>1
  <1>3. CASE rate = "500"
    <2>1. Agree(rate, 1) BY <1>3 DEF Agree, OutputRateMode, SensorMode, RateBytes
    <2> QED BY <2>1
  <1>4. CASE rate = "250"
    <2>1. Agree(rate, 2) BY <1>4 DEF Agree, OutputRateMode, SensorMode, RateBytes
    <2> QED BY <2>1
  <1>5. CASE rate = "100"
    <2>1. Agree(rate, 3) BY <1>5 DEF Agree, OutputRateMode, SensorMode, RateBytes
    <2> QED BY <2>1
  <1>6. CASE rate = "500_16"
    <2>1. Agree(rate, 10) BY <1>6 DEF Agree, OutputRateMode, SensorMode, RateBytes
    <2> QED BY <2>1
  <1> QED BY <1>1, <1>2, <1>3, <1>4, <1>5, <1>6

IsConfiguration(msg, e) ==
  /\ Len(msg) = 5
  /\ msg[1] = 241 /\ msg[2] = 32 /\ msg[3] = 16 /\ msg[4] = 0 /\ msg[5] = e

LEMMA AddByte ==
  ASSUME NEW s \in Seq(Int), NEW b \in Int
  PROVE  /\ s \o <<b>> \in Seq(Int)
         /\ Len(s \o <<b>>) = Len(s) + 1
         /\ \A i \in 1..Len(s) : (s \o <<b>>)[i] = s[i]
         /\ (s \o <<b>>)[Len(s) + 1] = b
  <1>1. <<b>> \in Seq(Int) /\ Len(<<b>>) = 1 /\ <<b>>[1] = b OBVIOUS
  <1> QED BY <1>1

LEMMA FiveBytes ==
  ASSUME NEW e \in Byte PROVE IsConfiguration(<<241>> \o <<32, 16>> \o <<0>> \o <<e>>, e)
  <1> DEFINE x == <<241>> \o <<32, 16>>
             y == x \o <<0>>
             z == y \o <<e>>
  <1>0. /\ <<241>> \in Seq(Int) /\ <<32, 16>> \in Seq(Int) /\ <<0>> \in Seq(Int) /\ <<e>> \in Seq(Int)
    BY DEF Byte
  <1>1. x \in Seq(Int) /\ Len(x) = 3 /\ x[1] = 241 /\ x[2] = 32 /\ x[3] = 16 BY <1>0
  <1> HIDE DEF x
  <1>2. /\ y \in Seq(Int) /\ Len(y) = 4
        /\ y[1] = 241 /\ y[2] = 32 /\ y[3] = 16 /\ y[4] = 0
    <2>1. /\ y \in Seq(Int) /\ Len(y) = Len(x) + 1
          /\ \A i \in 1..Len(x) : y[i] = x[i]
          /\ y[Len(x) + 1] = 0
      <3>1. 0 \in Int /\ x \in Seq(Int) BY <1>1
      <3> QED BY <3>1, AddByte, Zenon
    <2> HIDE DEF y
    <2> QED BY <1>1, <2>1
  <1> HIDE DEF y
  <1>3. IsConfiguration(z, e)
    <2>1. e \in Int BY DEF Byte
    <2>2. /\ Len(z) = Len(y) + 1
          /\ \A i \in 1..Len(y) : z[i] = y[i]
          /\ z[Len(y) + 1] = e
      <3>1. y \in Seq(Int) BY <1>2
      <3> QED BY <2>1, <3>1, AddByte, Zenon
    <2> HIDE DEF z
    <2> QED BY <1>2, <2>2 DEF IsConfiguration
  <1> QED BY <1>3 DEF x, y, z

LEMMA ConfigureOnTheWire ==
  ASSUME NEW rate \in DOMAIN OutputRateMode, NEW e, Agree(rate, e)
  PROVE  IsConfiguration(ToBytes(ConfigureOutputRate(rate)), e)
  <1>1. e \in Byte BY DEF Agree, RateBytes, Byte
  <1>2. FieldBytes(<<e>>) = <<e>> BY <1>1, OneByte, Zenon
  <1>0. 241 \in Byte /\ 0 \in Byte BY DEF Byte
  <1>3. FieldBytes(<<241>>) = <<241>> BY <1>0, OneByte, Zenon
  <1>4. FieldBytes(<<0>>) = <<0>> BY <1>0, OneByte, Zenon
  <1> DEFINE r == ConfigureOutputRate(rate)
  <1>5. /\ r.command = <<241>> /\ r.index = RateIndex
        /\ r.subindex = <<0>> /\ r.value = <<e>>
    BY DEF Agree, ConfigureOutputRate, SetParameterRequest, RateSubindex
  <1>6. /\ FieldBytes(r.command) = <<241>> /\ FieldBytes(r.index) = <<32, 16>>
        /\ FieldBytes(r.subindex) = <<0>> /\ FieldBytes(r.value) = <<e>>
    BY <1>2, <1>3, <1>4, <1>5, IndexBytes
  <1> HIDE DEF r
  <1>7. ToBytes(r) = <<241>> \o <<32, 16>> \o <<0>> \o <<e>>
    BY <1>6, Zenon DEF ToBytes
  <1> QED BY <1>1, <1>7, FiveBytes DEF r

-----------------------------------------------------------------------------
(***************************************************************************)
(* The inductive invariant.  LinkInv: a connection belongs to one driver   *)
(* at most, and carries nothing but its request in progress.  AckInv: an   *)
(* answer that is under way to a configuration request tells the truth     *)
(* unless somebody has set the rate since; and so does what the driver     *)
(* was told.  WrongInv: the one packet that was as before is the one that  *)
(* was being composed.                                                     *)
(***************************************************************************)
LinkInv ==
  /\ link \in [Client -> SUBSET Conn] /\ DOMAIN asked = Client
  /\ DOMAIN conn = Conn /\ DOMAIN requests = Conn /\ DOMAIN answers = Conn
  /\ \A d, e \in Client : link[d] \cap link[e] # {} => d = e
  /\ \A d \in Client : \A c \in link[d] :
       /\ \A x \in link[d] : x = c
       /\ conn[c] \in {"open", "ended"}
       /\ requests[c] # <<>> => \E r \in asked[d] : requests[c] = <<ToBytes(r)>>
       /\ asked[d] = {} => answers[c] = <<>>
       /\ answers[c] # <<>> => requests[c] = <<>>
  /\ \A d \in Client : \A r, s \in asked[d] : r = s

AckInv ==
  /\ \A d \in Client : \A c \in link[d] :
       /\ asked[d] = {ConfigureOutputRate(Rate[d])} /\ answers[c] # <<>> /\ lastSet = {c}
       => AsConfigured(d, mode)
  /\ \A x, y \in lastSet : x = y
  /\ acked \subseteq Client
  /\ \A d \in acked : AsConfigured(d, mode)

WrongInv ==
  /\ \A m, n \in composing : m = n
  /\ wrong \in {0, 1}
  /\ wrong = 1 => \A d \in acked, m \in composing : AsConfigured(d, m)

LinkedInv == LinkInv /\ AckInv /\ WrongInv

-----------------------------------------------------------------------------
LEMMA InitLinked == ASSUME Init PROVE LinkedInv
  <1>1. LinkInv BY DEF Init, SensorInit, LinkInv
  <1>2. AckInv BY DEF Init, AckInv
  <1>3. WrongInv BY DEF Init, SensorInit, WrongInv
  <1> QED BY <1>1, <1>2, <1>3 DEF LinkedInv

\* The request of a configuration sets the rate to one that is as configured.
LEMMA ConfigureSets ==
  ASSUME NEW d \in Client, NEW msg, msg = ToBytes(ConfigureOutputRate(Rate[d]))
  PROVE  SetsRate(msg) /\ AsConfigured(d, SensorMode[msg[5]])
  <1>1. Rate[d] \in DOMAIN OutputRateMode BY RateAssumption
  <1>2. PICK e : Agree(Rate[d], e) BY <1>1, TablesAgree
  <1>4. msg[1] = 241 /\ msg[2] = 32 /\ msg[3] = 16 /\ msg[4] = 0 /\ msg[5] = e /\ Len(msg) = 5
    BY <1>1, <1>2, ConfigureOnTheWire DEF IsConfiguration
  <1>5. e \in DOMAIN SensorMode BY <1>2 DEF Agree, RateBytes, SensorMode
  <1>6. SetsRate(msg)
    <2>1. ParamIndex(msg) = 4128 BY <1>4 DEF ParamIndex
    <2> QED BY <1>4, <1>5, <2>1 DEF SetsRate, IsRate
  <1>7. AsConfigured(d, SensorMode[e]) BY <1>2 DEF Agree, AsConfigured
  <1> QED BY <1>4, <1>6, <1>7

\* The driver's side.
LEMMA ConnectKeeps ==
  ASSUME LinkedInv, NEW d \in Client, Connect(d) PROVE LinkedInv'
  <1>1. PICK c \in Conn : 
          /\ link[d] = {} /\ conn[c] = "free"
          /\ link' = [link EXCEPT ![d] = {c}]
          /\ conn' = [conn EXCEPT ![c] = "open"]
          /\ requests' = [requests EXCEPT ![c] = <<>>] /\ answers' = [answers EXCEPT ![c] = <<>>]
    BY Zenon DEF Connect
  <1>2. asked' = asked /\ mode' = mode /\ composing' = composing /\ UNCHANGED history
    BY DEF Connect
  <1>3. LinkInv' BY <1>1, <1>2 DEF LinkedInv, LinkInv
  <1>4. AckInv'
    BY <1>1, <1>2 DEF LinkedInv, LinkInv, AckInv, AsConfigured, history
  <1>5. WrongInv' BY <1>2 DEF LinkedInv, WrongInv, AsConfigured, history
  <1> QED BY <1>3, <1>4, <1>5 DEF LinkedInv

LEMMA AskKeeps ==
  ASSUME LinkedInv, NEW d \in Client, Ask(d) PROVE LinkedInv'
  <1>1. PICK c \in link[d], r \in Request(d) :
          /\ asked[d] = {} /\ asked' = [asked EXCEPT ![d] = {r}]
          /\ requests' = IF conn[c] = "open"
                           THEN [requests EXCEPT ![c] = <<ToBytes(r)>>] ELSE requests
    BY Zenon DEF Ask
  <1>2. /\ UNCHANGED <<mode, composing, conn, answers, link, lastSet, acked, wrong>>
    BY DEF Ask
  <1>3. LinkInv' BY <1>1, <1>2 DEF LinkedInv, LinkInv
  <1>4. AckInv' BY <1>1, <1>2 DEF LinkedInv, LinkInv, AckInv, AsConfigured
  <1>5. WrongInv' BY <1>2 DEF LinkedInv, WrongInv, AsConfigured
  <1> QED BY <1>3, <1>4, <1>5 DEF LinkedInv

LEMMA AnsweredKeeps ==
  ASSUME LinkedInv, NEW d \in Client, Answered(d) PROVE LinkedInv'
  <1>1. PICK c \in link[d], r \in asked[d] :
          /\ answers[c] # <<>> /\ answers' = [answers EXCEPT ![c] = <<>>]
          /\ asked' = [asked EXCEPT ![d] = {}]
          /\ IF r = ConfigureOutputRate(Rate[d])
                  /\ FromBytes(Head(answers[c])).error = Success /\ lastSet = {c}
               THEN acked' = {d} /\ wrong' = 0
               ELSE UNCHANGED <<acked, wrong>>
    BY Zenon DEF Answered
  <1>2. UNCHANGED <<mode, composing, conn, requests, link, lastSet>> BY DEF Answered
  <1>3. LinkInv' BY <1>1, <1>2 DEF LinkedInv, LinkInv
  <1>4. CASE r = ConfigureOutputRate(Rate[d]) /\ lastSet = {c} /\ acked' = {d} /\ wrong' = 0
    <2>1. asked[d] = {ConfigureOutputRate(Rate[d])} BY <1>1, <1>4 DEF LinkedInv, LinkInv
    <2>0. c \in link[d] /\ answers[c] # <<>> /\ lastSet = {c} BY <1>1, <1>4
    <2>2. AsConfigured(d, mode) BY <2>0, <2>1, ZenonT(60) DEF LinkedInv, AckInv
    <2>3. AckInv' BY <1>1, <1>2, <1>4, <2>2 DEF LinkedInv, LinkInv, AckInv, AsConfigured
    <2>4. WrongInv' BY <1>2, <1>4 DEF LinkedInv, WrongInv
    <2> QED BY <1>3, <2>3, <2>4 DEF LinkedInv
  <1>5. CASE UNCHANGED <<acked, wrong>>
    <2>1. AckInv' BY <1>1, <1>2, <1>5 DEF LinkedInv, LinkInv, AckInv, AsConfigured
    <2>2. WrongInv' BY <1>2, <1>5 DEF LinkedInv, WrongInv, AsConfigured
    <2> QED BY <1>3, <2>1, <2>2 DEF LinkedInv
  <1> QED BY <1>1, <1>4, <1>5

LEMMA DisconnectKeeps ==
  ASSUME LinkedInv, NEW d \in Client, Disconnect(d) PROVE LinkedInv'
  <1>1. PICK c \in link[d] :
          /\ link' = [link EXCEPT ![d] = {}] /\ asked' = [asked EXCEPT ![d] = {}]
          /\ conn' = [conn EXCEPT ![c] = IF @ = "open" THEN "left" ELSE "free"]
          /\ answers' = [answers EXCEPT ![c] = <<>>]
    BY Zenon DEF Disconnect
  <1>2. UNCHANGED <<mode, composing, requests, lastSet, acked, wrong>> BY DEF Disconnect
  <1>3. LinkInv' BY <1>1, <1>2 DEF LinkedInv, LinkInv
  <1>4. AckInv' BY <1>1, <1>2 DEF LinkedInv, LinkInv, AckInv, AsConfigured
  <1>5. WrongInv' BY <1>2 DEF LinkedInv, WrongInv, AsConfigured
  <1> QED BY <1>3, <1>4, <1>5 DEF LinkedInv

-----------------------------------------------------------------------------
\* The sensor's side.
LEMMA ServesKeeps ==
  ASSUME LinkedInv, NEW c \in Conn, Serves(c) PROVE LinkedInv'
  <1> DEFINE msg == Head(requests[c])
  <1>1. /\ requests[c] # <<>> /\ requests' = [requests EXCEPT ![c] = <<>>]
        /\ mode' = IF SetsRate(msg) THEN SensorMode[msg[5]] ELSE mode
        /\ \/ answers' = [answers EXCEPT ![c] = Append(@, Process(msg))]
           \/ answers' = answers
        /\ UNCHANGED <<composing, conn, link, asked>>
    BY DEF Serves, Serve, Read, clientVars
  <1>2. IF SetsRate(msg) THEN lastSet' = {c} /\ acked' = {} /\ wrong' = 0
                         ELSE UNCHANGED <<lastSet, acked, wrong>>
    BY DEF Serves, history
  <1>3. \A x \in Conn : x # c => requests'[x] = requests[x] /\ answers'[x] = answers[x]
    BY <1>1 DEF LinkedInv, LinkInv
  <1>4. \A d \in Client : c \in link[d] => asked[d] # {}
    BY <1>1 DEF LinkedInv, LinkInv
  <1>5. LinkInv'
    BY <1>1, <1>3, <1>4 DEF LinkedInv, LinkInv
  <1>6. AckInv'
    <2>1. SUFFICES ASSUME SetsRate(msg) => lastSet' = {c} /\ acked' = {},
                          ~SetsRate(msg) => mode' = mode /\ lastSet' = lastSet /\ acked' = acked
                   PROVE  AckInv'
      BY <1>1, <1>2
    <2>2. ASSUME NEW d \in Client, NEW x \in link[d], lastSet' = {x}, answers'[x] # <<>>,
                 asked[d] = {ConfigureOutputRate(Rate[d])}
          PROVE  AsConfigured(d, mode')
      <3>1. CASE x = c
        <4>1. requests[c] = <<ToBytes(ConfigureOutputRate(Rate[d]))>>
          BY <1>1, <2>2, <3>1 DEF LinkedInv, LinkInv
        <4>2. msg = ToBytes(ConfigureOutputRate(Rate[d])) BY <4>1
        <4>3. SetsRate(msg) /\ AsConfigured(d, SensorMode[msg[5]]) BY <4>2, ConfigureSets
        <4> QED BY <1>1, <4>3
      <3>2. CASE x # c
        <4>1. ~SetsRate(msg) BY <2>1, <2>2, <3>2
        <4>2. x \in Conn BY <2>2 DEF LinkedInv, LinkInv
        <4>3. answers[x] # <<>> /\ lastSet = {x} BY <1>3, <2>1, <2>2, <3>2, <4>1, <4>2
        <4>4. AsConfigured(d, mode) BY <2>2, <4>3 DEF LinkedInv, AckInv
        <4> QED BY <2>1, <4>1, <4>4
      <3> QED BY <3>1, <3>2
    <2>3. /\ \A x, y \in lastSet' : x = y
          /\ acked' \subseteq Client /\ \A d \in acked' : AsConfigured(d, mode')
      BY <2>1 DEF LinkedInv, AckInv
    <2> QED BY <1>1, <2>2, <2>3, Zenon DEF AckInv, AsConfigured
  <1>7. WrongInv'
    BY <1>1, <1>2 DEF LinkedInv, WrongInv, AsConfigured
  <1> QED BY <1>5, <1>6, <1>7 DEF LinkedInv

LEMMA TaskStopsKeeps ==
  ASSUME LinkedInv, NEW c \in Conn, TaskStops(c) PROVE LinkedInv'
  <1>1. /\ UNCHANGED <<mode, composing, answers, link, asked, acked, wrong>>
        /\ lastSet' = lastSet \ {c} \/ lastSet' = lastSet
    BY DEF TaskStops, TaskPanics, TaskEnds, clientVars
  <1>2. \/ requests' = [requests EXCEPT ![c] = <<>>] \/ requests' = requests
    BY DEF TaskStops, TaskPanics, TaskEnds, Read
  <1>3. \/ conn[c] \in {"open", "left"} /\ conn' = [conn EXCEPT ![c] = IF @ = "left" THEN "free" ELSE "ended"]
        \/ conn[c] = "left" /\ conn' = [conn EXCEPT ![c] = "free"]
    BY DEF TaskStops, TaskPanics, TaskEnds, Read
  <1>4. LinkInv' BY <1>1, <1>2, <1>3 DEF LinkedInv, LinkInv
  <1>5. AckInv'
    <2>1. \A x : lastSet' = {x} => lastSet = {x}
      BY <1>1 DEF LinkedInv, AckInv
    <2> QED BY <1>1, <2>1 DEF LinkedInv, LinkInv, AckInv, AsConfigured
  <1>6. WrongInv' BY <1>1 DEF LinkedInv, WrongInv, AsConfigured
  <1> QED BY <1>4, <1>5, <1>6 DEF LinkedInv

LEMMA StreamsKeeps ==
  ASSUME LinkedInv, Streams PROVE LinkedInv'
  <1>1. UNCHANGED <<mode, conn, requests, answers, link, asked, lastSet, acked>>
    BY DEF Streams, TakeMode, SendPacket, clientVars, history
  <1>2. LinkInv' BY <1>1 DEF LinkedInv, LinkInv
  <1>3. AckInv' BY <1>1 DEF LinkedInv, AckInv, AsConfigured
  <1>4. CASE TakeMode /\ wrong' = wrong
    <2>1. composing' = {mode} BY <1>4 DEF TakeMode
    <2> QED BY <1>1, <1>2, <1>3, <1>4, <2>1 DEF LinkedInv, AckInv, WrongInv, AsConfigured
  <1>5. CASE /\ composing' = {}
             /\ wrong' = IF \E d \in acked, m \in composing : ~AsConfigured(d, m) /\ wrong < 2
                           THEN wrong + 1 ELSE wrong
    <2>1. wrong' \in {0, 1} BY <1>5 DEF LinkedInv, WrongInv
    <2> QED BY <1>2, <1>3, <1>5, <2>1 DEF LinkedInv, WrongInv
  <1> QED BY <1>4, <1>5 DEF Streams, SendPacket, history

LEMMA OthersKeep ==
  ASSUME LinkedInv,
         UNCHANGED <<mode, composing, conn, requests, answers, clientVars, history>>
  PROVE  LinkedInv'
  BY DEF LinkedInv, LinkInv, AckInv, WrongInv, AsConfigured, clientVars, history

LEMMA NextLinked == ASSUME LinkedInv, [Next]_vars PROVE LinkedInv'
  <1>1. CASE \E d \in Client : Connect(d) \/ Ask(d) \/ Answered(d) \/ Disconnect(d)
    BY <1>1, ConnectKeeps, AskKeeps, AnsweredKeeps, DisconnectKeeps
  <1>2. CASE \E c \in Conn : Serves(c) \/ TaskStops(c)
    BY <1>2, ServesKeeps, TaskStopsKeeps
  <1>3. CASE Streams BY <1>3, StreamsKeeps
  <1>4. CASE StrayArrives BY <1>4, OthersKeep DEF StrayArrives
  <1>5. CASE EnterStream \/ ExitStream \/ ReadStream
    BY <1>5, OthersKeep DEF EnterStream, ExitStream, ReadStream, sensorVars
  <1>6. CASE PutPacket \/ TakePacket \/ UNCHANGED vars
    BY <1>6, OthersKeep DEF PutPacket, TakePacket, sensorVars, vars
  <1> QED BY <1>1, <1>2, <1>3, <1>4, <1>5, <1>6 DEF Next

(***************************************************************************)
(* For any number of drivers and connections, whatever they ask: a driver  *)
(* that was told its rate is set receives one packet at most of another    *)
(* shape, until somebody else sets the rate.                               *)
(***************************************************************************)
THEOREM AckedRateAlwaysStreamed == Spec => []AckedRateIsStreamed
  <1>1. Init => LinkedInv BY InitLinked
  <1>2. LinkedInv /\ [Next]_vars => LinkedInv' BY NextLinked
  <1>3. LinkedInv => AckedRateIsStreamed
    BY DEF LinkedInv, WrongInv, AckedRateIsStreamed
  <1> QED BY <1>1, <1>2, <1>3, PTL DEF Spec

-----------------------------------------------------------------------------
(***************************************************************************)
(* What read() keeps.  Accepted counts through what has come, so that      *)
(* induction is needed: over a set of numbers, the library's theorems      *)
(* about a predicate being out of the provers' reach.  Its cases end at a  *)
(* least counterexample, which there is because < is well-founded.         *)
(***************************************************************************)
LEMMA Least ==
  ASSUME NEW T \in SUBSET Nat, T # {}
  PROVE  \E n \in T : \A m \in T : n <= m
<1> DEFINE R == {ss \in Nat \X Nat : ss[1] < ss[2]}
<1>1. IsWellFoundedOn(R, Nat)
  BY NatLessThanWellFounded, Zenon DEF OpToRel
<1>2. PICK n \in T : \A m \in T : ~(<<m, n>> \in R)
  <2> HIDE DEF R
  <2> QED BY <1>1, WFMin
<1>3. \A m \in T : ~(m < n)
  BY <1>2
<1> QED BY <1>3

LEMMA Induction ==
  ASSUME NEW T, 0 \in T, \A n \in Nat : n \in T => n + 1 \in T
  PROVE  \A n \in Nat : n \in T
<1> SUFFICES ASSUME NEW k \in Nat, k \notin T PROVE FALSE
  OBVIOUS
<1> DEFINE Out == {n \in Nat : n \notin T}
<1>1. PICK n \in Out : \A m \in Out : n <= m
  BY Least
<1>2. n # 0 /\ n - 1 \in Nat
  BY <1>1
<1>3. n - 1 \in T
  BY <1>1, <1>2
<1> QED BY <1>1, <1>2, <1>3


\* What Kept is up to its place n.
Recur(g, s, n) ==
  g = [i \in 0..n |-> IF i = 0 THEN <<>>
                      ELSE IF AcceptsSource(s[i]) THEN Append(g[i - 1], s[i])
                      ELSE g[i - 1]]
LEMMA KeptExists ==
  ASSUME NEW s PROVE \A n \in Nat : \E g : Recur(g, s, n)
<1> DEFINE T == {n \in Nat : \E g : Recur(g, s, n)}
<1>1. 0 \in T
  <2> DEFINE g == [i \in 0..0 |-> <<>>]
  <2>1. Recur(g, s, 0)
    <3>1. \A i \in 0..0 : i = 0
      OBVIOUS
    <3> QED BY <3>1 DEF Recur
  <2> QED BY <2>1
<1>2. ASSUME NEW n \in Nat, n \in T PROVE n + 1 \in T
  <2>1. PICK g : Recur(g, s, n)
    BY <1>2
  <2> DEFINE last == IF AcceptsSource(s[n + 1]) THEN Append(g[n], s[n + 1]) ELSE g[n]
             h == [i \in 0..(n + 1) |-> IF i = n + 1 THEN last ELSE g[i]]
             step(i) == IF i = 0 THEN <<>>
                        ELSE IF AcceptsSource(s[i]) THEN Append(h[i - 1], s[i])
                        ELSE h[i - 1]
  <2>2. ASSUME NEW i \in 0..(n + 1) PROVE h[i] = step(i)
    <3>1. CASE i = n + 1
      <4>1. h[i - 1] = g[n] /\ i # 0
        BY <3>1
      <4> QED BY <3>1, <4>1
    <3>2. CASE i # n + 1 /\ i # 0
      <4>1. h[i - 1] = g[i - 1] /\ i \in 0..n /\ h[i] = g[i]
        BY <3>2
      <4> HIDE DEF h, last
      <4> QED BY <2>1, <3>2, <4>1 DEF Recur
    <3>3. CASE i = 0
      <4>1. i \in 0..n /\ h[i] = g[i]
        BY <3>3
      <4> HIDE DEF h, last
      <4> QED BY <2>1, <3>3, <4>1 DEF Recur
    <3> QED BY <3>1, <3>2, <3>3
  <2>3. Recur(h, s, n + 1)
    <3>1. h = [i \in 0..(n + 1) |-> h[i]]
      OBVIOUS
    <3> HIDE DEF h
    <3>2. h = [i \in 0..(n + 1) |-> step(i)]
      BY <2>2, <3>1
    <3> QED BY <3>2, Zenon DEF Recur
  <2> QED BY <2>3
<1>3. \A n \in Nat : n \in T
  <2> HIDE DEF T
  <2> QED BY <1>1, <1>2, Induction, Zenon
<1> QED BY <1>3

\* read() keeps of what it has read the datagrams that it accepts.
LEMMA KeepsAccepted ==
  ASSUME NEW S, NEW s \in Seq(S)
  PROVE  /\ Accepted(s) \in Seq({p \in S : AcceptsSource(p)})
         /\ Len(Accepted(s)) <= Len(s)
<1> DEFINE A == {p \in S : AcceptsSource(p)}
           g == CHOOSE k : Recur(k, s, Len(s))
           T == {n \in Nat : n <= Len(s) => g[n] \in Seq(A) /\ Len(g[n]) <= n}
<1>1. Accepted(s) = g[Len(s)]
  BY Zenon DEF Accepted, Recur
<1>2. Len(s) \in Nat
  OBVIOUS
<1>3. Recur(g, s, Len(s))
  BY <1>2, KeptExists, Zenon
<1> HIDE DEF g
<1>4. 0 \in T
  <2>1. g[0] = <<>>
    BY <1>2, <1>3 DEF Recur
  <2>2. <<>> \in Seq(A) /\ Len(<<>>) = 0
    OBVIOUS
  <2> HIDE DEF A
  <2>3. g[0] \in Seq(A) /\ Len(g[0]) = 0
    BY <2>1, <2>2
  <2> QED BY <2>3
<1>5. ASSUME NEW n \in Nat, n \in T PROVE n + 1 \in T
  <2> SUFFICES ASSUME n + 1 <= Len(s)
               PROVE  g[n + 1] \in Seq(A) /\ Len(g[n + 1]) <= n + 1
    OBVIOUS
  <2>1. g[n] \in Seq(A) /\ Len(g[n]) <= n
    BY <1>2, <1>5
  <2>2. n + 1 \in 0..Len(s) /\ n + 1 # 0 /\ (n + 1) - 1 = n
    BY <1>2
  <2>3. g[n + 1] = IF AcceptsSource(s[n + 1]) THEN Append(g[n], s[n + 1]) ELSE g[n]
    BY <1>3, <2>2 DEF Recur
  <2>4. s[n + 1] \in S
    BY <1>2
  <2>5. CASE AcceptsSource(s[n + 1])
    <3>1. s[n + 1] \in A
      BY <2>4, <2>5
    <3> HIDE DEF A
    <3> QED BY <2>1, <2>3, <2>5, <3>1
  <2> QED BY <2>1, <2>3, <2>5
<1>6. \A n \in Nat : n \in T
  <2> HIDE DEF T
  <2> QED BY <1>4, <1>5, Induction, Zenon
<1>7. Len(s) \in T
  BY <1>2, <1>6
<1>8. g[Len(s)] \in Seq(A) /\ Len(g[Len(s)]) <= Len(s)
  <2> HIDE DEF A
  <2> QED BY <1>2, <1>7
<1> QED BY <1>1, <1>8, Zenon

-----------------------------------------------------------------------------
(***************************************************************************)
(* Requests and answers, byte for byte.                                    *)
(***************************************************************************)
LEMMA Reversed ==
  ASSUME NEW s \in Seq(Byte)
  PROVE  Reverse(s) \in Seq(Byte) /\ Len(Reverse(s)) = Len(s)
<1> QED BY DEF Reverse

LEMMA FieldOfBytes ==
  ASSUME NEW s \in Seq(Byte \cup {256})
  PROVE  FieldBytes(s) \in Seq(Byte)
<1>1. CASE \A i \in DOMAIN s : s[i] \in Byte
  <2>1. s \in Seq(Byte)
    BY <1>1
  <2> QED BY <1>1, <2>1, Reversed DEF FieldBytes
<1>2. CASE ~(\A i \in DOMAIN s : s[i] \in Byte)
  BY <1>2 DEF FieldBytes
<1> QED BY <1>1, <1>2

LEMMA WideOne ==
  ASSUME NEW s, Wide(s, 1)
  PROVE  \E b \in Byte : s = <<b>> /\ FieldBytes(s) = <<b>>
<1>1. s[1] \in Byte /\ s = <<s[1]>>
  BY DEF Wide
<1> QED BY <1>1, OneByte

LEMMA WideTwo ==
  ASSUME NEW s, Wide(s, 2)
  PROVE  \E b, c \in Byte : s = <<b, c>> /\ FieldBytes(s) = <<c, b>>
<1>1. s[1] \in Byte /\ s[2] \in Byte /\ s = <<s[1], s[2]>>
  <2>1. s \in Seq(Byte) /\ Len(s) = 2
    BY DEF Wide
  <2>2. s[1] \in Byte /\ s[2] \in Byte
    BY <2>1
  <2> DEFINE t == <<s[1], s[2]>>
  <2>3. t \in Seq(Byte) /\ Len(t) = 2 /\ t[1] = s[1] /\ t[2] = s[2]
    BY <2>2
  <2> HIDE DEF t
  <2>4. \A i \in 1..Len(s) : s[i] = t[i]
    BY <2>1, <2>3
  <2>5. s = t
    BY <2>1, <2>3, <2>4, SeqEqual, Zenon
  <2> QED BY <2>2, <2>5 DEF t
<1>2. \A i \in DOMAIN <<s[1], s[2]>> : <<s[1], s[2]>>[i] \in Byte
  BY <1>1
<1>3. FieldBytes(<<s[1], s[2]>>) = <<s[2], s[1]>>
  BY <1>2, ReverseTwo DEF FieldBytes
<1> QED BY <1>1, <1>3

\* A field appended to what is in front of it.
LEMMA AddField ==
  ASSUME NEW s \in Seq(Int), NEW t \in Seq(Int)
  PROVE  /\ s \o t \in Seq(Int)
         /\ Len(s \o t) = Len(s) + Len(t)
         /\ \A i \in 1..Len(s) : (s \o t)[i] = s[i]
         /\ \A i \in 1..Len(t) : (s \o t)[Len(s) + i] = t[i]
<1> QED OBVIOUS

\* Four bytes in front of a value: a request with an index.
IndexedMessage(msg, a, b, c, e, v) ==
  /\ msg \in Seq(Int) /\ Len(msg) = 4 + Len(v)
  /\ msg[1] = a /\ msg[2] = b /\ msg[3] = c /\ msg[4] = e
  /\ \A i \in 1..Len(v) : msg[4 + i] = v[i]

LEMMA FourInFront ==
  ASSUME NEW a \in Int, NEW b \in Int, NEW c \in Int, NEW e \in Int, NEW v \in Seq(Int)
  PROVE  IndexedMessage(<<a>> \o <<b, c>> \o <<e>> \o v, a, b, c, e, v)
<1> DEFINE x == <<a>> \o <<b, c>>
           y == x \o <<e>>
           z == y \o v
<1>1. x \in Seq(Int) /\ Len(x) = 3 /\ x[1] = a /\ x[2] = b /\ x[3] = c
  OBVIOUS
<1> HIDE DEF x
<1>2. y \in Seq(Int) /\ Len(y) = 4 /\ y[1] = a /\ y[2] = b /\ y[3] = c /\ y[4] = e
  <2>1. /\ y \in Seq(Int) /\ Len(y) = Len(x) + 1
        /\ \A i \in 1..Len(x) : y[i] = x[i]
        /\ y[Len(x) + 1] = e
    BY <1>1, AddByte, Zenon
  <2> HIDE DEF y
  <2> QED BY <1>1, <2>1
<1> HIDE DEF y
<1>3. /\ z \in Seq(Int) /\ Len(z) = Len(y) + Len(v)
      /\ \A i \in 1..Len(y) : z[i] = y[i]
      /\ \A i \in 1..Len(v) : z[Len(y) + i] = v[i]
  BY <1>2, AddField, Zenon
<1> HIDE DEF z
<1>4. IndexedMessage(z, a, b, c, e, v)
  BY <1>2, <1>3 DEF IndexedMessage
<1> QED BY <1>4 DEF x, y, z

\* Five bytes: an answer with an index.
IndexedAnswer(p, a, u, b, c, e) ==
  /\ p \in Seq(Int) /\ Len(p) = 5
  /\ p[1] = a /\ p[2] = u /\ p[3] = b /\ p[4] = c /\ p[5] = e

LEMMA FiveInAll ==
  ASSUME NEW a \in Int, NEW u \in Int, NEW b \in Int, NEW c \in Int, NEW e \in Int
  PROVE  IndexedAnswer(<<a, u>> \o <<b, c>> \o <<e>>, a, u, b, c, e)
<1> DEFINE x == <<a, u>> \o <<b, c>>
           y == x \o <<e>>
<1>1. /\ x \in Seq(Int) /\ Len(x) = 4
      /\ x[1] = a /\ x[2] = u /\ x[3] = b /\ x[4] = c
  OBVIOUS
<1> HIDE DEF x
<1>2. /\ y \in Seq(Int) /\ Len(y) = Len(x) + 1
      /\ \A i \in 1..Len(x) : y[i] = x[i]
      /\ y[Len(x) + 1] = e
  BY <1>1, AddByte, Zenon
<1> HIDE DEF y
<1>3. IndexedAnswer(y, a, u, b, c, e)
  BY <1>1, <1>2 DEF IndexedAnswer
<1> QED BY <1>3 DEF x, y

\* What a request with an index, or one without, is on the wire.
Indexed(r) == r.command \in {<<240>>, <<241>>}

Sent(r, k, h, l, s) ==
  /\ r.command = <<k>> /\ r.index = <<h, l>> /\ r.subindex = <<s>>
  /\ FieldBytes(r.value) \in Seq(Byte)
  /\ IndexedMessage(ToBytes(r), k, l, h, s, FieldBytes(r.value))

LEMMA IndexedOnTheWire ==
  ASSUME NEW r, WellFormed(r), Indexed(r)
  PROVE  \E k \in {240, 241}, h \in Byte, l \in Byte, s \in Byte : Sent(r, k, h, l, s)
<1> DEFINE v == FieldBytes(r.value)
<1>1. /\ Wide(r.command, 1) /\ Wide(r.index, 2) /\ Wide(r.subindex, 1)
      /\ r.value \in Seq(Byte \cup {256})
  BY Zenon DEF WellFormed, Indexed
<1>2. PICK k \in Byte : r.command = <<k>> /\ FieldBytes(r.command) = <<k>>
  BY <1>1, WideOne, Zenon
<1>3. k \in {240, 241}
  BY <1>2 DEF Indexed
<1>4. PICK h, l \in Byte : r.index = <<h, l>> /\ FieldBytes(r.index) = <<l, h>>
  BY <1>1, WideTwo, Zenon
<1>5. PICK s \in Byte : r.subindex = <<s>> /\ FieldBytes(r.subindex) = <<s>>
  BY <1>1, WideOne, Zenon
<1>6. v \in Seq(Byte)
  BY <1>1, FieldOfBytes, Zenon
<1> HIDE DEF v
<1>7. k \in Int /\ l \in Int /\ h \in Int /\ s \in Int /\ v \in Seq(Int)
  <2>1. Byte \subseteq Int
    BY DEF Byte
  <2> QED BY <1>6, <2>1, SeqMonotonic
<1>8. ToBytes(r) = <<k>> \o <<l, h>> \o <<s>> \o v
  BY <1>2, <1>4, <1>5, Zenon DEF ToBytes, v
<1>9. IndexedMessage(<<k>> \o <<l, h>> \o <<s>> \o v, k, l, h, s, v)
  BY <1>7, FourInFront, Zenon
<1>10. Sent(r, k, h, l, s)
  BY <1>2, <1>4, <1>5, <1>6, <1>8, <1>9, Zenon DEF Sent, v
<1> QED BY <1>3, <1>10

LEMMA NothingToSend == FieldBytes(<<>>) = <<>>
<1>1. Reverse(<<>>) = <<>>
  BY DEF Reverse
<1> QED BY <1>1 DEF FieldBytes

LEMMA OtherOnTheWire ==
  ASSUME NEW r, WellFormed(r), ~Indexed(r)
  PROVE  \E k \in Byte :
           /\ r.command = <<k>> /\ r.index = <<>> /\ r.subindex = <<>>
           /\ ToBytes(r)[1] = k /\ k \notin {240, 241}
<1> DEFINE v == FieldBytes(r.value)
<1>1. /\ Wide(r.command, 1) /\ r.index = <<>> /\ r.subindex = <<>>
      /\ r.value \in Seq(Byte \cup {256})
  BY Zenon DEF WellFormed, Indexed
<1>2. PICK k \in Byte : r.command = <<k>> /\ FieldBytes(r.command) = <<k>>
  BY <1>1, WideOne, Zenon
<1>3. k \notin {240, 241}
  BY <1>2 DEF Indexed
<1>4. v \in Seq(Byte)
  BY <1>1, FieldOfBytes, Zenon
<1> HIDE DEF v
<1>5. FieldBytes(r.index) = <<>> /\ FieldBytes(r.subindex) = <<>>
  BY <1>1, NothingToSend, Zenon
<1>6. ToBytes(r) = <<k>> \o <<>> \o <<>> \o v
  BY <1>2, <1>5, Zenon DEF ToBytes, v
<1>7. <<k>> \o <<>> \o <<>> = <<k>>
  OBVIOUS
<1>8. ToBytes(r) = <<k>> \o v
  BY <1>6, <1>7, Zenon
<1>9. (<<k>> \o v)[1] = k
  BY <1>4
<1>10. ToBytes(r)[1] = k
  BY <1>8, <1>9, Zenon
<1>11. /\ r.command = <<k>> /\ r.index = <<>> /\ r.subindex = <<>>
       /\ ToBytes(r)[1] = k /\ k \notin {240, 241}
  BY <1>1, <1>2, <1>3, <1>10, Zenon
<1> QED BY <1>11, Zenon

-----------------------------------------------------------------------------
(***************************************************************************)
(* The answer that matches a request, and that Sensor::process gives it.   *)
(***************************************************************************)
ChangesRate(r) == r.command = <<241>> /\ r.index = RateIndex /\ r.subindex = RateSubindex

Matches(r, p) ==
  /\ FromBytes(p).command = r.command
  /\ r.index # <<>> => FromBytes(p).index = r.index /\ FromBytes(p).subindex = r.subindex
  /\ ChangesRate(r) =>
       (FromBytes(p).error = Success <=>
          \E rate \in DOMAIN OutputRateMode : r.value = OutputRateMode[rate].value)

LEMMA OneOf ==
  ASSUME NEW p \in Seq(Int), NEW i \in Int, p[i] \in Int
  PROVE  SubSeq(p, i, i) = <<p[i]>>
<1> DEFINE s == SubSeq(p, i, i)
           t == <<p[i]>>
<1>1. s \in Seq(Int) /\ Len(s) = 1 /\ s[1] = p[i]
  <2>1. \A j \in i..i : p[j] \in Int
    OBVIOUS
  <2>2. /\ s \in Seq(Int)
        /\ Len(s) = IF i <= i THEN i - i + 1 ELSE 0
        /\ \A j \in 1..(i - i + 1) : s[j] = p[i + j - 1]
    BY <2>1, SubSeqProperties
  <2> HIDE DEF s
  <2> QED BY <2>2
<1>2. t \in Seq(Int) /\ Len(t) = 1 /\ t[1] = p[i]
  OBVIOUS
<1> HIDE DEF s, t
<1>3. \A j \in 1..Len(s) : s[j] = t[j]
  BY <1>1, <1>2
<1>4. s = t
  BY <1>1, <1>2, <1>3, SeqEqual, Zenon
<1> QED BY <1>4 DEF s, t

LEMMA TwoOf ==
  ASSUME NEW p \in Seq(Int), Len(p) >= 4
  PROVE  SubSeq(p, 3, 4) = <<p[3], p[4]>>
<1> DEFINE s == SubSeq(p, 3, 4)
           t == <<p[3], p[4]>>
<1>1. s \in Seq(Int) /\ Len(s) = 2 /\ s[1] = p[3] /\ s[2] = p[4]
  <2>1. \A j \in 3..4 : p[j] \in Int
    OBVIOUS
  <2>2. /\ s \in Seq(Int)
        /\ Len(s) = IF 3 <= 4 THEN 4 - 3 + 1 ELSE 0
        /\ \A j \in 1..(4 - 3 + 1) : s[j] = p[3 + j - 1]
    BY <2>1, SubSeqProperties
  <2> HIDE DEF s
  <2> QED BY <2>2
<1>2. t \in Seq(Int) /\ Len(t) = 2 /\ t[1] = p[3] /\ t[2] = p[4]
  OBVIOUS
<1> HIDE DEF s, t
<1>3. \A j \in 1..Len(s) : s[j] = t[j]
  BY <1>1, <1>2
<1>4. s = t
  BY <1>1, <1>2, <1>3, SeqEqual, Zenon
<1> QED BY <1>4 DEF s, t

\* from_bytes undoes the byte order of the index.
LEMMA FromFive ==
  ASSUME NEW p \in Seq(Int), Len(p) >= 5
  PROVE  /\ FromBytes(p).command = <<p[1]>> /\ FromBytes(p).error = <<p[2]>>
         /\ FromBytes(p).index = <<p[4], p[3]>> /\ FromBytes(p).subindex = <<p[5]>>
<1>1. /\ SubSeq(p, 1, 1) = <<p[1]>> /\ SubSeq(p, 2, 2) = <<p[2]>> /\ SubSeq(p, 5, 5) = <<p[5]>>
  <2>1. p[1] \in Int /\ p[2] \in Int /\ p[5] \in Int
    OBVIOUS
  <2> QED BY <2>1, OneOf
<1>2. SubSeq(p, 3, 4) = <<p[3], p[4]>>
  BY TwoOf
<1>3. Reverse(SubSeq(p, 3, 4)) = <<p[4], p[3]>>
  BY <1>2, ReverseTwo, Zenon
<1>4. ~(Len(p) < 5)
  OBVIOUS
<1> QED BY <1>1, <1>3, <1>4 DEF FromBytes

LEMMA FromTwo ==
  ASSUME NEW a \in Int, NEW b \in Int PROVE FromBytes(<<a, b>>).command = <<a>>
<1>1. SubSeq(<<a, b>>, 1, 1) = <<a>>
  <2> DEFINE p == <<a, b>>
  <2>1. p \in Seq(Int) /\ p[1] = a
    OBVIOUS
  <2> HIDE DEF p
  <2>2. SubSeq(p, 1, 1) = <<a>>
    BY <2>1, OneOf
  <2> QED BY <2>2 DEF p
<1> QED BY <1>1 DEF FromBytes

\* The sensor splits the index into the bytes it came in.
LEMMA IndexSplits ==
  ASSUME NEW msg, NEW l \in Byte, NEW h \in Byte, msg[2] = l, msg[3] = h
  PROVE  PutIndex(ParamIndex(msg)) = <<l, h>>
<1>1. (l + 256 * h) % 256 = l /\ (l + 256 * h) \div 256 = h
  BY DEF Byte
<1>2. ParamIndex(msg) = l + 256 * h
  BY DEF ParamIndex
<1> QED BY <1>1, <1>2 DEF PutIndex

LEMMA RateValues ==
  ASSUME NEW v
  PROVE  (\E rate \in DOMAIN OutputRateMode : v = OutputRateMode[rate].value)
           <=> (\E e \in DOMAIN SensorMode : v = <<e>>)
<1>1. ASSUME NEW rate \in DOMAIN OutputRateMode
      PROVE  \E e \in DOMAIN SensorMode : OutputRateMode[rate].value = <<e>>
  <2>1. PICK e : Agree(rate, e)
    BY TablesAgree
  <2> QED BY <2>1 DEF Agree, RateBytes, SensorMode
<1>2. ASSUME NEW e \in DOMAIN SensorMode
      PROVE  \E rate \in DOMAIN OutputRateMode : OutputRateMode[rate].value = <<e>>
  <2>1. e \in {0, 1, 2, 3, 10}
    BY DEF SensorMode
  <2>2. /\ OutputRateMode["1000"].value = <<0>> /\ OutputRateMode["500"].value = <<1>>
        /\ OutputRateMode["250"].value = <<2>> /\ OutputRateMode["100"].value = <<3>>
        /\ OutputRateMode["500_16"].value = <<10>>
    BY DEF OutputRateMode
  <2>3. DOMAIN OutputRateMode = {"1000", "500", "250", "100", "500_16"}
    BY DEF OutputRateMode
  <2> QED BY <2>1, <2>2, <2>3
<1> QED BY <1>1, <1>2

LEMMA ModeFacts ==
  ASSUME NEW m \in Modes
  PROVE  m.enum \in DOMAIN SensorMode /\ m.enum \in Int /\ m.samples \in {1, 16}
<1>1. PICK e \in DOMAIN SensorMode : m = SensorMode[e]
  BY DEF Modes
<1>2. e \in {0, 1, 2, 3, 10}
  BY DEF SensorMode
<1> QED BY <1>1, <1>2 DEF SensorMode

LEMMA ProcessCases ==
  ASSUME NEW msg
  PROVE  /\ msg[1] = 240 => Process(msg) = <<240, 0>> \o PutIndex(ParamIndex(msg)) \o <<msg[4]>> \o ParamValue(msg)
         /\ msg[1] = 241 => Process(msg) = <<241, SetError(msg)>> \o PutIndex(ParamIndex(msg)) \o <<msg[4]>>
         /\ msg[1] \notin {240, 241} =>
              Process(msg) = <<msg[1], IF msg[1] \in ValidCommands THEN 0 ELSE 1>>
<1> QED BY DEF Process

\* The first five bytes of the answer to a request with an index, and the rest.
AnswerTo(msg, p, k, h, l, s) ==
  /\ p \in Seq(Int) /\ Len(p) >= 5
  /\ p[1] = k /\ p[3] = l /\ p[4] = h /\ p[5] = s
  /\ k = 241 => p[2] = SetError(msg)
  /\ k = 240 => /\ Len(p) = 5 + Len(ParamValue(msg))
                /\ \A i \in 1..Len(ParamValue(msg)) : p[5 + i] = ParamValue(msg)[i]

LEMMA AnswerOnTheWire ==
  ASSUME NEW msg, NEW k \in {240, 241}, NEW h \in Byte, NEW l \in Byte, NEW s \in Byte,
         msg[1] = k, msg[2] = l, msg[3] = h, msg[4] = s, mode \in Modes
  PROVE  AnswerTo(msg, Process(msg), k, h, l, s)
<1> DEFINE p == Process(msg)
           w == ParamValue(msg)
<1>0. k \in Int /\ h \in Int /\ l \in Int /\ s \in Int
  BY DEF Byte
<1>1. ASSUME NEW u \in Int PROVE IndexedAnswer(<<k, u>> \o <<l, h>> \o <<s>>, k, u, l, h, s)
  <2>1. IndexedAnswer(<<k, u>> \o <<l, h>> \o <<s>>, k, u, l, h, s)
    BY <1>0, <1>1, FiveInAll, SMTT(20)
  <2> QED BY <2>1
<1>2. PutIndex(ParamIndex(msg)) = <<l, h>>
  BY IndexSplits
<1>3. CASE k = 240
  <2> DEFINE q == <<k, 0>> \o <<l, h>> \o <<s>>
  <2>1. p = q \o w
    <3>1. p = <<240, 0>> \o PutIndex(ParamIndex(msg)) \o <<msg[4]>> \o w
      BY <1>3, ProcessCases, Zenon
    <3> QED BY <1>2, <1>3, <3>1, Zenon
  <2>2. IndexedAnswer(q, k, 0, l, h, s)
    BY <1>1
  <2>3. w \in Seq(Int)
    <3>1. <<mode.enum>> \in Seq(Int)
      BY ModeFacts
    <3>2. <<75, 77, 83>> \in Seq(Int)
      OBVIOUS
    <3> QED BY <3>1, <3>2, Zenon DEF ParamValue
  <2> HIDE DEF p, q, w
  <2>4. q \in Seq(Int) /\ Len(q) = 5 /\ q[1] = k /\ q[3] = l /\ q[4] = h /\ q[5] = s
    BY <2>2 DEF IndexedAnswer
  <2>5. /\ q \o w \in Seq(Int) /\ Len(q \o w) = Len(q) + Len(w)
        /\ \A i \in 1..Len(q) : (q \o w)[i] = q[i]
        /\ \A i \in 1..Len(w) : (q \o w)[Len(q) + i] = w[i]
    BY <2>3, <2>4, AddField, Zenon
  <2>6. /\ p \in Seq(Int) /\ Len(p) = Len(q) + Len(w)
        /\ \A i \in 1..Len(q) : p[i] = q[i]
        /\ \A i \in 1..Len(w) : p[Len(q) + i] = w[i]
    BY <2>1, <2>5, Zenon
  <2>7. /\ p \in Seq(Int) /\ Len(p) = 5 + Len(w) /\ Len(p) >= 5
        /\ p[1] = k /\ p[3] = l /\ p[4] = h /\ p[5] = s
        /\ \A i \in 1..Len(w) : p[5 + i] = w[i]
    BY <2>3, <2>4, <2>6
  <2>8. k # 241
    BY <1>3
  <2> QED BY <2>7, <2>8, Zenon DEF AnswerTo, p, w
<1>4. CASE k = 241
  <2> DEFINE u == SetError(msg)
  <2>1. p = <<k, u>> \o <<l, h>> \o <<s>>
    <3>1. p = <<241, u>> \o PutIndex(ParamIndex(msg)) \o <<msg[4]>>
      BY <1>4, ProcessCases, Zenon
    <3> QED BY <1>2, <1>4, <3>1, Zenon
  <2>2. u \in Int
    BY DEF SetError
  <2> HIDE DEF u, p
  <2>3. IndexedAnswer(p, k, u, l, h, s)
    BY <1>1, <2>1, <2>2, Zenon
  <2>4. /\ p \in Seq(Int) /\ Len(p) >= 5
        /\ p[1] = k /\ p[2] = u /\ p[3] = l /\ p[4] = h /\ p[5] = s
    BY <2>3 DEF IndexedAnswer
  <2>5. k # 240
    BY <1>4
  <2> QED BY <2>4, <2>5, Zenon DEF AnswerTo, p, u
<1> QED BY <1>3, <1>4

\* set_enum of the sensor succeeds on the values of the driver's table, and on no
\* other of a byte, or none.
LEMMA RateIsSet ==
  ASSUME NEW r, WellFormed(r), ChangesRate(r)
  PROVE  SetError(ToBytes(r)) = 0
           <=> \E rate \in DOMAIN OutputRateMode : r.value = OutputRateMode[rate].value
<1> DEFINE msg == ToBytes(r)
           v == FieldBytes(r.value)
<1>1. Indexed(r)
  BY DEF Indexed, ChangesRate
<1>2. PICK k \in {240, 241}, h \in Byte, l \in Byte, s \in Byte : Sent(r, k, h, l, s)
  BY <1>1, IndexedOnTheWire
<1>3. k = 241 /\ h = 16 /\ l = 32 /\ s = 0
  BY <1>2 DEF ChangesRate, Sent, RateIndex, RateSubindex
<1>4. /\ Len(msg) = 4 + Len(v) /\ msg[1] = 241 /\ msg[2] = 32 /\ msg[3] = 16 /\ msg[4] = 0
      /\ \A i \in 1..Len(v) : msg[4 + i] = v[i]
  BY <1>2, <1>3 DEF Sent, IndexedMessage
<1>5. v \in Seq(Byte) /\ Len(v) \in Nat
  BY <1>2 DEF Sent
<1>6. r.value \in Seq(Byte \cup {256}) /\ Len(r.value) <= 1
  BY <1>1, Zenon DEF WellFormed, Indexed, ChangesRate
<1>7. DOMAIN SensorMode = {0, 1, 2, 3, 10}
  BY DEF SensorMode
<1> DEFINE known == Len(msg) > 4 /\ msg[5] \in DOMAIN SensorMode
<1>8. SetError(msg) = 0 <=> known
  <2> HIDE DEF msg, v
  <2>1. IsRate(msg)
    BY <1>4 DEF IsRate, ParamIndex
  <2>2. SetsRate(msg) <=> known
    BY <1>4, <2>1 DEF SetsRate
  <2>3. Len(msg) <= 4 => ~known
    BY <1>4, <1>5
  <2> HIDE DEF known
  <2> QED BY <2>1, <2>2, <2>3 DEF SetError
<1>9. known <=> \E e \in DOMAIN SensorMode : r.value = <<e>>
  <2>1. CASE r.value = <<>>
    <3>1. v = <<>>
      BY <2>1, NothingToSend
    <3> HIDE DEF msg, v
    <3>2. Len(msg) = 4
      BY <1>4, <3>1
    <3> QED BY <2>1, <3>2
  <2>2. CASE r.value # <<>>
    <3>1. PICK x \in Byte \cup {256} : r.value = <<x>>
      <4>1. r.value[1] \in Byte \cup {256} /\ r.value = <<r.value[1]>>
        BY <1>6, <2>2
      <4> QED BY <4>1
    <3>2. CASE x \in Byte
      <4>1. v = <<x>>
        BY <3>1, <3>2, OneByte
      <4> HIDE DEF msg, v
      <4>2. Len(msg) = 5 /\ msg[5] = x
        BY <1>4, <4>1
      <4> QED BY <3>1, <4>2
    <3>3. CASE x = 256
      <4>0. 1 \in DOMAIN <<x>> /\ <<x>>[1] \notin Byte
        BY <3>3 DEF Byte
      <4>1. v = <<>>
        BY <3>1, <4>0, Zenon DEF FieldBytes
      <4> HIDE DEF msg, v
      <4>2. Len(msg) = 4
        BY <1>4, <4>1
      <4> QED BY <1>7, <3>1, <3>3, <4>2
    <3> QED BY <3>2, <3>3
  <2> QED BY <2>1, <2>2
<1>10. (\E rate \in DOMAIN OutputRateMode : r.value = OutputRateMode[rate].value)
         <=> (\E e \in DOMAIN SensorMode : r.value = <<e>>)
  BY RateValues, ZenonT(60)
<1> HIDE DEF known, msg
<1> QED BY <1>8, <1>9, <1>10, Zenon DEF msg

LEMMA ProcessMatches ==
  ASSUME NEW r, WellFormed(r), mode \in Modes
  PROVE  Matches(r, Process(ToBytes(r)))
<1> DEFINE p == Process(ToBytes(r))
<1>1. CASE Indexed(r)
  <2>1. PICK k \in {240, 241}, h \in Byte, l \in Byte, s \in Byte : Sent(r, k, h, l, s)
    BY <1>1, IndexedOnTheWire
  <2>2. /\ p \in Seq(Int) /\ Len(p) >= 5
        /\ p[1] = k /\ p[3] = l /\ p[4] = h /\ p[5] = s
        /\ k = 241 => p[2] = SetError(ToBytes(r))
    <3> DEFINE msg == ToBytes(r)
    <3>1. msg[1] = k /\ msg[2] = l /\ msg[3] = h /\ msg[4] = s
      BY <2>1 DEF Sent, IndexedMessage
    <3> HIDE DEF msg
    <3>2. AnswerTo(msg, Process(msg), k, h, l, s)
      BY <3>1, AnswerOnTheWire
    <3> QED BY <3>2, Zenon DEF AnswerTo, msg
  <2> HIDE DEF p
  <2>3. /\ FromBytes(p).command = <<p[1]>> /\ FromBytes(p).error = <<p[2]>>
        /\ FromBytes(p).index = <<p[4], p[3]>> /\ FromBytes(p).subindex = <<p[5]>>
    BY <2>2, FromFive, Zenon
  <2>4. r.command = <<k>> /\ r.index = <<h, l>> /\ r.subindex = <<s>>
    BY <2>1 DEF Sent
  <2>5. /\ FromBytes(p).command = r.command /\ FromBytes(p).index = r.index
        /\ FromBytes(p).subindex = r.subindex
    BY <2>2, <2>3, <2>4
  <2>6. ASSUME ChangesRate(r)
        PROVE  FromBytes(p).error = Success <=>
                 \E rate \in DOMAIN OutputRateMode : r.value = OutputRateMode[rate].value
    <3>1. k = 241
      BY <2>4, <2>6 DEF ChangesRate
    <3>2. FromBytes(p).error = <<SetError(ToBytes(r))>>
      BY <2>2, <2>3, <3>1
    <3>3. FromBytes(p).error = Success <=> SetError(ToBytes(r)) = 0
      BY <3>2 DEF Success
    <3>4. SetError(ToBytes(r)) = 0
            <=> \E rate \in DOMAIN OutputRateMode : r.value = OutputRateMode[rate].value
      BY <2>6, RateIsSet
    <3> QED BY <3>3, <3>4, Zenon
  <2> QED BY <2>5, <2>6, Zenon DEF Matches, p
<1>2. CASE ~Indexed(r)
  <2>1. PICK k \in Byte : /\ r.command = <<k>> /\ r.index = <<>> /\ r.subindex = <<>>
                          /\ ToBytes(r)[1] = k /\ k \notin {240, 241}
    BY <1>2, OtherOnTheWire
  <2>2. p = <<k, IF k \in ValidCommands THEN 0 ELSE 1>>
    BY <2>1 DEF Process
  <2>3. k \in Int /\ (IF k \in ValidCommands THEN 0 ELSE 1) \in Int
    BY DEF Byte
  <2>4. FromBytes(p).command = <<k>>
    BY <2>2, <2>3, FromTwo
  <2>5. r.command # <<241>>
    BY <2>1
  <2> HIDE DEF p
  <2> QED BY <2>1, <2>4, <2>5 DEF Matches, ChangesRate, p
<1> QED BY <1>1, <1>2

\* The answer to the request for the rate has it behind the fifth byte.
LEMMA GetOnTheWire ==
  ASSUME mode \in Modes
  PROVE  /\ FromBytes(Process(ToBytes(GetRate))).value = <<mode.enum>>
         /\ ~SetsRate(ToBytes(GetRate))
<1> DEFINE r == GetRate
           msg == ToBytes(r)
           p == Process(msg)
<1>1. /\ r.command = <<240>> /\ r.index = RateIndex /\ r.subindex = RateSubindex
      /\ r.value = <<>>
  BY DEF GetRate, GetParameterRequest
<1>2. WellFormed(r)
  <2>1. Wide(r.command, 1) /\ Wide(r.index, 2) /\ Wide(r.subindex, 1)
    BY <1>1 DEF Wide, RateIndex, RateSubindex, Byte
  <2>2. r.value \in Seq(Byte \cup {256}) /\ Len(r.value) <= 1
    BY <1>1
  <2>3. r.command \in {<<240>>, <<241>>}
    BY <1>1
  <2> HIDE DEF r
  <2> QED BY <2>1, <2>2, <2>3, Zenon DEF WellFormed
<1>3. Indexed(r)
  BY <1>1 DEF Indexed
<1> HIDE DEF r
<1>4. PICK k \in {240, 241}, h \in Byte, l \in Byte, s \in Byte : Sent(r, k, h, l, s)
  BY <1>2, <1>3, IndexedOnTheWire
<1>5. k = 240 /\ h = 16 /\ l = 32 /\ s = 0
  BY <1>1, <1>4 DEF Sent, RateIndex, RateSubindex
<1>6. msg[1] = k /\ msg[2] = l /\ msg[3] = h /\ msg[4] = s
  BY <1>4 DEF Sent, IndexedMessage
<1> HIDE DEF msg
<1>7. ParamValue(msg) = <<mode.enum>>
  <2>1. IsRate(msg)
    BY <1>5, <1>6 DEF IsRate, ParamIndex
  <2> QED BY <2>1 DEF ParamValue
<1>8. AnswerTo(msg, p, k, h, l, s)
  BY <1>6, AnswerOnTheWire
<1> HIDE DEF p
<1>9. mode.enum \in Int
  BY ModeFacts
<1>10. p \in Seq(Int) /\ Len(p) = 6 /\ p[6] = mode.enum
  BY <1>5, <1>7, <1>8, <1>9 DEF AnswerTo
<1>11. SubSeq(p, 6, Len(p)) = <<mode.enum>>
  BY <1>9, <1>10, OneOf
<1>12. ~SetsRate(msg)
  BY <1>5, <1>6 DEF SetsRate
<1> QED BY <1>11, <1>12 DEF FromBytes, p, msg, r

LEMMA RequestsFit ==
  ASSUME NEW d \in Client, NEW r \in Request(d)
  PROVE  WellFormed(r) \/ Panics(ToBytes(r))
<1>1. CASE r \in OtherRequest[d]
  BY <1>1, RequestAssumption
<1>2. CASE r = ConfigureOutputRate(Rate[d])
  <2>1. PICK e : Agree(Rate[d], e)
    BY RateAssumption, TablesAgree
  <2>2. /\ r.command = <<241>> /\ r.index = RateIndex /\ r.subindex = RateSubindex
        /\ r.value = <<e>> /\ e \in Byte
    BY <1>2, <2>1 DEF Agree, ConfigureOutputRate, SetParameterRequest, RateBytes, Byte
  <2>3. Wide(r.command, 1) /\ Wide(r.index, 2) /\ Wide(r.subindex, 1)
    BY <2>2 DEF Wide, RateIndex, RateSubindex, Byte
  <2>4. r.value \in Seq(Byte \cup {256}) /\ Len(r.value) <= 1
    BY <2>2
  <2>5. r.command \in {<<240>>, <<241>>}
    BY <2>2
  <2>6. WellFormed(r)
    BY <2>3, <2>4, <2>5, Zenon DEF WellFormed
  <2> QED BY <2>6
<1> QED BY <1>1, <1>2 DEF Request

-----------------------------------------------------------------------------
(***************************************************************************)
(* The rest of the inductive invariant.  TypeInv: a connection carries one *)
(* message at most, in one direction, and none towards a client that has   *)
(* left.  DeliverInv: with a source host nothing but the sensor's packets  *)
(* gets past read().  AnswerInv: an answer under way matches the request   *)
(* that its reader waits for.  CurrentInv: the rate of the moment is one   *)
(* of those noted for who asks for it, and so is the one in its answer.    *)
(***************************************************************************)
OneAtMost(s) == s = <<>> \/ s = <<Head(s)>>
TypeInv ==
  /\ mode \in Modes /\ composing \in SUBSET Modes
  /\ conn \in [Conn -> {"free", "open", "left", "ended"}]
  /\ \A c \in Conn :
       /\ OneAtMost(requests[c]) /\ OneAtMost(answers[c])
       /\ requests[c] = <<>> \/ answers[c] = <<>>
  /\ \A d \in Client : asked[d] \subseteq Request(d)
  /\ lastSet \in SUBSET Conn
  /\ inEffect \in [Client -> SUBSET DOMAIN SensorMode]
StreamInv ==
  /\ streaming \in BOOLEAN
  /\ air \in Seq(Datagrams) /\ batch \in Seq(Datagrams) /\ queue \in Seq(Datagrams)
  /\ Len(air) <= MaxAir /\ Len(batch) <= MaxAir /\ Len(queue) <= QueueSize
  /\ SourceHost => batch \in Seq(SensorPackets) /\ queue \in Seq(SensorPackets)
AnswerInv ==
  \A d \in Client : \A c \in link[d], r \in asked[d] :
    answers[c] # <<>> => Matches(r, Head(answers[c]))
CurrentInv ==
  \A d \in Client : asked[d] = {GetRate} =>
    /\ mode.enum \in inEffect[d]
    /\ \A c \in link[d] : answers[c] # <<>> =>
         \E e \in inEffect[d] : FromBytes(Head(answers[c])).value = <<e>>

TalkInv == TypeInv /\ AnswerInv /\ CurrentInv

LEMMA InitTalk == ASSUME Init PROVE TalkInv /\ StreamInv
<1>1. mode \in Modes
  <2>1. 0 \in DOMAIN SensorMode
    BY DEF SensorMode
  <2> QED BY <2>1 DEF Init, SensorInit, Modes
<1>2. TypeInv
  BY <1>1 DEF Init, SensorInit, TypeInv, OneAtMost
<1>3. AnswerInv
  BY DEF Init, AnswerInv
<1>4. CurrentInv
  BY DEF Init, CurrentInv
<1>5. StreamInv
  <2>1. /\ <<>> \in Seq(Datagrams) /\ <<>> \in Seq(SensorPackets) /\ Len(<<>>) = 0
        /\ MaxAir >= 0 /\ QueueSize >= 0
    BY StreamAssumption
  <2> QED BY <2>1 DEF Init, SensorInit, StreamInv
<1> QED BY <1>2, <1>3, <1>4, <1>5 DEF TalkInv

LEMMA ConnectTalks ==
  ASSUME LinkedInv, TalkInv, NEW d \in Client, Connect(d) PROVE TalkInv'
<1>1. PICK c \in Conn :
        /\ link[d] = {} /\ conn[c] = "free"
        /\ link' = [link EXCEPT ![d] = {c}]
        /\ conn' = [conn EXCEPT ![c] = "open"]
        /\ requests' = [requests EXCEPT ![c] = <<>>] /\ answers' = [answers EXCEPT ![c] = <<>>]
  BY Zenon DEF Connect
<1>2. asked' = asked /\ mode' = mode /\ composing' = composing /\ UNCHANGED history
  BY DEF Connect
<1>3. TypeInv'
  BY <1>1, <1>2 DEF LinkedInv, LinkInv, TalkInv, TypeInv, OneAtMost, history
<1>4. \A e \in Client : \A x \in link'[e] :
        answers'[x] # <<>> => x \in link[e] /\ answers'[x] = answers[x]
  BY <1>1 DEF LinkedInv, LinkInv
<1>5. AnswerInv'
  BY <1>2, <1>4 DEF TalkInv, AnswerInv
<1>6. CurrentInv'
  <2>1. mode' = mode /\ asked' = asked /\ inEffect' = inEffect
    BY <1>2 DEF history
  <2> QED BY <1>4, <2>1, SMTT(30) DEF TalkInv, CurrentInv
<1> QED BY <1>3, <1>5, <1>6 DEF TalkInv

LEMMA AskTalks ==
  ASSUME LinkedInv, TalkInv, NEW d \in Client, Ask(d) PROVE TalkInv'
<1>1. PICK c \in link[d], r \in Request(d) :
        /\ asked[d] = {} /\ asked' = [asked EXCEPT ![d] = {r}]
        /\ requests' = IF conn[c] = "open"
                         THEN [requests EXCEPT ![c] = <<ToBytes(r)>>] ELSE requests
        /\ inEffect' = [inEffect EXCEPT ![d] = IF r = GetRate THEN {mode.enum} ELSE {}]
  BY Zenon DEF Ask
<1>2. UNCHANGED <<mode, composing, conn, answers, link, lastSet>>
  BY DEF Ask
<1>3. mode.enum \in DOMAIN SensorMode
  BY ModeFacts DEF TalkInv, TypeInv
<1>4. answers[c] = <<>> /\ c \in Conn /\ \A x \in link[d] : x = c
  BY <1>1 DEF LinkedInv, LinkInv
<1>5. TypeInv'
  <2>1. \A x \in Conn : OneAtMost(requests'[x]) /\ (requests'[x] = <<>> \/ answers[x] = <<>>)
    <3>1. OneAtMost(<<ToBytes(r)>>)
      BY DEF OneAtMost
    <3> QED BY <1>1, <1>4, <3>1 DEF LinkedInv, LinkInv, TalkInv, TypeInv
  <2>2. \A e \in Client : asked'[e] \subseteq Request(e)
    BY <1>1 DEF LinkedInv, LinkInv, TalkInv, TypeInv
  <2>3. inEffect' \in [Client -> SUBSET DOMAIN SensorMode]
    BY <1>1, <1>3 DEF TalkInv, TypeInv
  <2> QED BY <1>2, <2>1, <2>2, <2>3 DEF TalkInv, TypeInv, OneAtMost
<1>6. AnswerInv'
  BY <1>1, <1>2, <1>4 DEF LinkedInv, LinkInv, TalkInv, AnswerInv
<1>7. CurrentInv'
  <2>1. ASSUME NEW e \in Client, asked'[e] = {GetRate}
        PROVE  /\ mode.enum \in inEffect'[e]
               /\ \A x \in link[e] : answers[x] # <<>> =>
                    \E u \in inEffect'[e] : FromBytes(Head(answers[x])).value = <<u>>
    <3>1. CASE e = d
      <4>1. asked'[d] = {r}
        BY <1>1 DEF LinkedInv, LinkInv
      <4>2. r = GetRate
        BY <2>1, <3>1, <4>1
      <4>3. inEffect'[d] = {mode.enum}
        BY <1>1, <4>2 DEF TalkInv, TypeInv
      <4> QED BY <1>4, <3>1, <4>3
    <3>2. CASE e # d
      <4>1. asked'[e] = asked[e] /\ inEffect'[e] = inEffect[e]
        BY <1>1, <3>2 DEF LinkedInv, LinkInv, TalkInv, TypeInv
      <4> QED BY <2>1, <4>1 DEF TalkInv, CurrentInv
    <3> QED BY <3>1, <3>2
  <2> QED BY <1>2, <2>1, Zenon DEF CurrentInv
<1> QED BY <1>5, <1>6, <1>7 DEF TalkInv

\* An answer is taken, or the connection given up.
LEMMA EndTalks ==
  ASSUME LinkedInv, TalkInv, NEW d \in Client, Answered(d) \/ Disconnect(d) PROVE TalkInv'
<1>1. PICK c \in link[d] :
        /\ answers' = [answers EXCEPT ![c] = <<>>]
        /\ asked' = [asked EXCEPT ![d] = {}] /\ inEffect' = [inEffect EXCEPT ![d] = {}]
        /\ \/ conn' = conn /\ link' = link
           \/ /\ conn' = [conn EXCEPT ![c] = IF @ = "open" THEN "left" ELSE "free"]
              /\ link' = [link EXCEPT ![d] = {}]
  <2>1. CASE Answered(d)
    BY <2>1 DEF Answered
  <2>2. CASE Disconnect(d)
    BY <2>2, Zenon DEF Disconnect
  <2> QED BY <2>1, <2>2
<1>2. UNCHANGED <<mode, composing, requests, lastSet>>
  BY DEF Answered, Disconnect
<1>3. TypeInv'
  BY <1>1, <1>2 DEF LinkedInv, LinkInv, TalkInv, TypeInv, OneAtMost
<1>4. ASSUME NEW e \in Client, asked'[e] # {}
      PROVE  /\ asked'[e] = asked[e] /\ inEffect'[e] = inEffect[e]
             /\ \A x \in link'[e] : x \in link[e] /\ answers'[x] = answers[x]
  <2>1. e # d
    BY <1>1, <1>4 DEF LinkedInv, LinkInv
  <2>2. link'[e] = link[e] /\ c \notin link[e] /\ link[e] \subseteq Conn
    BY <1>1, <2>1 DEF LinkedInv, LinkInv
  <2> QED BY <1>1, <2>1, <2>2 DEF LinkedInv, LinkInv, TalkInv, TypeInv
<1>5. AnswerInv'
  BY <1>4 DEF TalkInv, AnswerInv
<1>6. CurrentInv'
  <2> SUFFICES ASSUME NEW e \in Client, asked'[e] = {GetRate}
               PROVE  /\ mode'.enum \in inEffect'[e]
                      /\ \A x \in link'[e] : answers'[x] # <<>> =>
                           \E u \in inEffect'[e] : FromBytes(Head(answers'[x])).value = <<u>>
    BY DEF CurrentInv
  <2>1. asked'[e] # {}
    OBVIOUS
  <2>2. /\ asked[e] = {GetRate} /\ inEffect'[e] = inEffect[e] /\ mode' = mode
        /\ \A x \in link'[e] : x \in link[e] /\ answers'[x] = answers[x]
    BY <1>2, <1>4, <2>1
  <2>3. /\ mode.enum \in inEffect[e]
        /\ \A x \in link[e] : answers[x] # <<>> =>
             \E u \in inEffect[e] : FromBytes(Head(answers[x])).value = <<u>>
    BY <2>2 DEF TalkInv, CurrentInv
  <2> QED BY <2>2, <2>3
<1> QED BY <1>3, <1>5, <1>6 DEF TalkInv

\* The sensor answers what it was asked, with the rate of the moment.
LEMMA ServesTalks ==
  ASSUME LinkedInv, TalkInv, NEW c \in Conn, Serves(c) PROVE TalkInv'
<1> DEFINE msg == Head(requests[c])
<1>1. /\ requests[c] # <<>> /\ requests' = [requests EXCEPT ![c] = <<>>]
      /\ ~Panics(msg)
      /\ mode' = IF SetsRate(msg) THEN SensorMode[msg[5]] ELSE mode
      /\ \/ answers' = [answers EXCEPT ![c] = Append(@, Process(msg))]
         \/ answers' = answers
      /\ UNCHANGED <<composing, conn, link, asked>>
  BY DEF Serves, Serve, Read, clientVars
<1>2. IF SetsRate(msg)
        THEN /\ lastSet' = {c}
             /\ inEffect' = [d \in Client |-> IF asked[d] = {GetRate} THEN inEffect[d] \cup {mode'.enum} ELSE {}]
        ELSE lastSet' = lastSet /\ inEffect' = inEffect
  BY DEF Serves, history
<1>3. mode' \in Modes
  <2>1. SetsRate(msg) => msg[5] \in DOMAIN SensorMode
    BY DEF SetsRate
  <2> HIDE DEF msg
  <2> QED BY <1>1, <2>1 DEF TalkInv, TypeInv, Modes
<1>4. mode'.enum \in DOMAIN SensorMode
  BY <1>3, ModeFacts
<1>5. answers[c] = <<>>
  BY <1>1 DEF TalkInv, TypeInv
<1>6. /\ answers'[c] = <<>> \/ answers'[c] = <<Process(msg)>>
      /\ \A x \in Conn : x # c => answers'[x] = answers[x]
  <2>1. Append(<<>>, Process(msg)) = <<Process(msg)>>
    OBVIOUS
  <2> HIDE DEF msg
  <2> QED BY <1>1, <1>5, <2>1 DEF LinkedInv, LinkInv
<1>7. TypeInv'
  <2> HIDE DEF msg
  <2>1. \A x \in Conn : /\ OneAtMost(requests'[x]) /\ OneAtMost(answers'[x])
                        /\ requests'[x] = <<>> \/ answers'[x] = <<>>
    <3>1. OneAtMost(<<Process(msg)>>) /\ OneAtMost(<<>>)
      BY DEF OneAtMost
    <3> QED BY <1>1, <1>6, <3>1 DEF LinkedInv, LinkInv, TalkInv, TypeInv
  <2>2. lastSet' \in SUBSET Conn
    BY <1>2 DEF TalkInv, TypeInv
  <2>3. inEffect' \in [Client -> SUBSET DOMAIN SensorMode]
    BY <1>2, <1>4 DEF TalkInv, TypeInv
  <2> QED BY <1>1, <1>3, <2>1, <2>2, <2>3 DEF TalkInv, TypeInv, OneAtMost
<1>8. ASSUME NEW d \in Client, NEW x \in link[d], answers'[x] # <<>>
      PROVE  \/ x # c /\ answers'[x] = answers[x]
             \/ /\ x = c /\ Head(answers'[x]) = Process(msg)
                /\ \A r \in asked[d] : msg = ToBytes(r)
  <2>1. x \in Conn
    BY <1>8 DEF LinkedInv, LinkInv
  <2>2. CASE x = c
    <3>1. Head(answers'[x]) = Process(msg)
      BY <1>6, <1>8, <2>2
    <3>2. \E r \in asked[d] : requests[c] = <<ToBytes(r)>>
      BY <1>1, <1>8, <2>2 DEF LinkedInv, LinkInv
    <3>3. \A r, s \in asked[d] : r = s
      BY DEF LinkedInv, LinkInv
    <3>4. \A r \in asked[d] : msg = ToBytes(r)
      BY <3>2, <3>3
    <3> QED BY <2>2, <3>1, <3>4
  <2> QED BY <1>6, <2>1, <2>2
<1>9. AnswerInv'
  <2> SUFFICES ASSUME NEW d \in Client, NEW x \in link[d], NEW r \in asked[d],
                      answers'[x] # <<>>
               PROVE  Matches(r, Head(answers'[x]))
    BY <1>1 DEF AnswerInv, Matches
  <2>1. CASE x # c /\ answers'[x] = answers[x]
    BY <2>1 DEF TalkInv, AnswerInv
  <2>2. CASE Head(answers'[x]) = Process(msg) /\ msg = ToBytes(r)
    <3>1. r \in Request(d)
      BY DEF TalkInv, TypeInv
    <3>2. WellFormed(r)
      BY <1>1, <2>2, <3>1, RequestsFit
    <3>3. Matches(r, Process(ToBytes(r)))
      BY <3>2, ProcessMatches DEF TalkInv, TypeInv
    <3> QED BY <2>2, <3>3
  <2> HIDE DEF msg
  <2> QED BY <1>8, <2>1, <2>2
<1>10. CurrentInv'
  <2> SUFFICES ASSUME NEW d \in Client, asked[d] = {GetRate}
               PROVE  /\ mode'.enum \in inEffect'[d]
                      /\ \A x \in link[d] : answers'[x] # <<>> =>
                           \E e \in inEffect'[d] : FromBytes(Head(answers'[x])).value = <<e>>
    BY <1>1 DEF CurrentInv
  <2>1. /\ mode.enum \in inEffect[d]
        /\ \A x \in link[d] : answers[x] # <<>> =>
             \E e \in inEffect[d] : FromBytes(Head(answers[x])).value = <<e>>
    BY DEF TalkInv, CurrentInv
  <2>2. inEffect[d] \subseteq inEffect'[d] /\ mode'.enum \in inEffect'[d]
    <3> HIDE DEF msg
    <3> QED BY <1>1, <1>2, <2>1
  <2>3. ASSUME NEW x \in link[d], answers'[x] # <<>>
        PROVE  \E e \in inEffect'[d] : FromBytes(Head(answers'[x])).value = <<e>>
    <3>1. CASE x # c /\ answers'[x] = answers[x]
      BY <2>1, <2>2, <2>3, <3>1
    <3>2. CASE Head(answers'[x]) = Process(msg) /\ msg = ToBytes(GetRate)
      <4>1. FromBytes(Head(answers'[x])).value = <<mode.enum>>
        BY <3>2, GetOnTheWire DEF TalkInv, TypeInv
      <4> QED BY <2>1, <2>2, <4>1
    <3> HIDE DEF msg
    <3> QED BY <1>8, <2>3, <3>1, <3>2
  <2> QED BY <2>2, <2>3
<1> QED BY <1>7, <1>9, <1>10 DEF TalkInv

LEMMA TaskStopsTalks ==
  ASSUME LinkedInv, TalkInv, NEW c \in Conn, TaskStops(c) PROVE TalkInv'
<1>1. /\ UNCHANGED <<mode, composing, answers, link, asked, inEffect>>
      /\ lastSet' = lastSet \ {c} \/ lastSet' = lastSet
  BY DEF TaskStops, TaskPanics, TaskEnds, clientVars
<1>2. requests' = [requests EXCEPT ![c] = <<>>]
  BY DEF TaskStops, TaskPanics, TaskEnds, Read
<1>3. conn' = [conn EXCEPT ![c] = IF @ = "left" THEN "free" ELSE "ended"]
        \/ conn' = [conn EXCEPT ![c] = "free"]
  BY DEF TaskStops, TaskPanics, TaskEnds, Read
<1>4. TypeInv'
  BY <1>1, <1>2, <1>3 DEF LinkedInv, LinkInv, TalkInv, TypeInv, OneAtMost
<1>5. AnswerInv'
  BY <1>1, Zenon DEF TalkInv, AnswerInv
<1>6. CurrentInv'
  BY <1>1 DEF TalkInv, CurrentInv
<1> QED BY <1>4, <1>5, <1>6 DEF TalkInv

LEMMA OthersTalk ==
  ASSUME TalkInv, composing' \in SUBSET Modes,
         UNCHANGED <<mode, conn, requests, answers, clientVars, lastSet, inEffect>>
  PROVE  TalkInv'
<1>1. TypeInv'
  BY DEF TalkInv, TypeInv, OneAtMost, clientVars
<1>2. AnswerInv'
  BY DEF TalkInv, AnswerInv, clientVars
<1>3. CurrentInv'
  BY DEF TalkInv, CurrentInv, clientVars
<1> QED BY <1>1, <1>2, <1>3 DEF TalkInv

LEMMA NextTalks == ASSUME LinkedInv, TalkInv, [Next]_vars PROVE TalkInv'
<1>0. composing \in SUBSET Modes /\ mode \in Modes
  BY DEF TalkInv, TypeInv
<1>1. CASE \E d \in Client : Connect(d) \/ Ask(d) \/ Answered(d) \/ Disconnect(d)
  BY <1>1, ConnectTalks, AskTalks, EndTalks
<1>2. CASE \E c \in Conn : Serves(c) \/ TaskStops(c)
  BY <1>2, ServesTalks, TaskStopsTalks
<1>3. CASE Streams
  BY <1>0, <1>3, OthersTalk DEF Streams, TakeMode, SendPacket, history
<1>4. CASE StrayArrives
  BY <1>0, <1>4, OthersTalk DEF StrayArrives, history
<1>5. CASE EnterStream \/ ExitStream \/ ReadStream
  BY <1>0, <1>5, OthersTalk DEF EnterStream, ExitStream, ReadStream, sensorVars, history
<1>6. CASE PutPacket \/ TakePacket \/ UNCHANGED vars
  BY <1>0, <1>6, OthersTalk DEF PutPacket, TakePacket, sensorVars, vars, history
<1> QED BY <1>1, <1>2, <1>3, <1>4, <1>5, <1>6 DEF Next

-----------------------------------------------------------------------------
\* The way of a packet: it arrives, is read, put and taken.
LEMMA ArrivesKeeps ==
  ASSUME StreamInv, NEW p \in Datagrams, Arrives(p)
  PROVE  air' \in Seq(Datagrams) /\ Len(air') <= MaxAir
<1>1. air \in Seq(Datagrams) /\ Len(air) <= MaxAir /\ MaxAir \in Nat
  BY StreamAssumption DEF StreamInv
<1>2. /\ Append(air, p) \in Seq(Datagrams) /\ Len(Append(air, p)) = Len(air) + 1
  BY <1>1, AppendProperties
<1>3. CASE Len(air) < MaxAir /\ streaming /\ air' = Append(air, p)
  BY <1>1, <1>2, <1>3
<1>4. CASE air' = air
  BY <1>1, <1>4
<1> QED BY <1>3, <1>4 DEF Arrives

LEMMA ReadKeeps ==
  ASSUME StreamInv, ReadStream PROVE StreamInv'
<1>1. air \in Seq(Datagrams) /\ Len(air) <= MaxAir /\ MaxAir \in Nat
  BY StreamAssumption DEF StreamInv
<1> DEFINE A == {p \in Datagrams : AcceptsSource(p)}
<1>2. batch' \in Seq(A) /\ Len(batch') <= MaxAir
  <2>1. Accepted(air) \in Seq(A) /\ Len(Accepted(air)) <= Len(air)
    BY <1>1, KeepsAccepted, Zenon
  <2> HIDE DEF A
  <2>2. Len(Accepted(air)) \in Nat /\ Len(air) \in Nat
    BY <1>1, <2>1
  <2>3. batch' = Accepted(air)
    BY DEF ReadStream
  <2> QED BY <1>1, <2>1, <2>2, <2>3
<1>3. batch' \in Seq(Datagrams)
  <2>1. A \subseteq Datagrams
    OBVIOUS
  <2> HIDE DEF A
  <2> QED BY <1>2, <2>1, SeqMonotonic
<1>4. SourceHost => batch' \in Seq(SensorPackets)
  <2>1. SourceHost => A \subseteq SensorPackets
    BY StreamAssumption DEF AcceptsSource, Datagrams
  <2> HIDE DEF A
  <2> QED BY <1>2, <2>1, SeqMonotonic
<1>5. <<>> \in Seq(Datagrams) /\ Len(<<>>) <= MaxAir
  BY <1>1
<1>6. air' = <<>> /\ streaming' = streaming /\ queue' = queue
  BY DEF ReadStream
<1> QED BY <1>2, <1>3, <1>4, <1>5, <1>6 DEF StreamInv

LEMMA PutKeeps ==
  ASSUME StreamInv, PutPacket PROVE StreamInv'
<1>1. /\ batch # <<>> /\ batch' = Tail(batch) /\ air' = air /\ streaming' = streaming
      /\ queue' = IF Head(batch).len >= 4 /\ Len(queue) < QueueSize
                    THEN Append(queue, Head(batch)) ELSE queue
  BY DEF PutPacket, sensorVars
<1>2. /\ batch \in Seq(Datagrams) /\ queue \in Seq(Datagrams)
      /\ Len(batch) <= MaxAir /\ Len(queue) <= QueueSize
      /\ MaxAir \in Nat /\ QueueSize \in Nat
  BY StreamAssumption DEF StreamInv
<1>3. ASSUME NEW S, batch \in Seq(S), queue \in Seq(S)
      PROVE  /\ batch' \in Seq(S) /\ queue' \in Seq(S)
             /\ Len(batch') <= MaxAir /\ Len(queue') <= QueueSize
  <2>1. Head(batch) \in S /\ Tail(batch) \in Seq(S) /\ Len(Tail(batch)) = Len(batch) - 1
    BY <1>1, <1>3, HeadTailProperties
  <2>2. /\ Append(queue, Head(batch)) \in Seq(S)
        /\ Len(Append(queue, Head(batch))) = Len(queue) + 1
    BY <1>3, <2>1, AppendProperties
  <2>3. Len(batch) \in Nat /\ Len(queue) \in Nat
    BY <1>2
  <2>4. CASE Len(queue) < QueueSize /\ queue' = Append(queue, Head(batch))
    BY <1>1, <1>2, <2>1, <2>2, <2>3, <2>4
  <2>5. CASE queue' = queue
    BY <1>1, <1>2, <1>3, <2>1, <2>3, <2>5
  <2> QED BY <1>1, <2>4, <2>5
<1>4. /\ batch' \in Seq(Datagrams) /\ queue' \in Seq(Datagrams)
      /\ Len(batch') <= MaxAir /\ Len(queue') <= QueueSize
  BY <1>2, <1>3
<1>5. SourceHost => batch' \in Seq(SensorPackets) /\ queue' \in Seq(SensorPackets)
  BY <1>3 DEF StreamInv
<1> QED BY <1>1, <1>4, <1>5 DEF StreamInv

LEMMA TakeKeeps ==
  ASSUME StreamInv, TakePacket PROVE StreamInv'
<1>1. /\ queue # <<>> /\ queue' = Tail(queue)
      /\ air' = air /\ streaming' = streaming /\ batch' = batch
  BY DEF TakePacket, sensorVars
<1>2. queue \in Seq(Datagrams) /\ Len(queue) <= QueueSize /\ QueueSize \in Nat
  BY StreamAssumption DEF StreamInv
<1>3. \A S : queue \in Seq(S) => queue' \in Seq(S) /\ Len(queue') = Len(queue) - 1
  BY <1>1, HeadTailProperties
<1>4. queue' \in Seq(Datagrams) /\ Len(queue') <= QueueSize
  <2>1. Len(queue) \in Nat
    BY <1>2
  <2> QED BY <1>2, <1>3, <2>1
<1>5. SourceHost => queue' \in Seq(SensorPackets)
  BY <1>3 DEF StreamInv
<1> QED BY <1>1, <1>4, <1>5 DEF StreamInv

LEMMA NextStreams == ASSUME TalkInv, StreamInv, [Next]_vars PROVE StreamInv'
<1>1. CASE \E d \in Client : Connect(d) \/ Ask(d) \/ Answered(d) \/ Disconnect(d)
  BY <1>1 DEF Connect, Ask, Answered, Disconnect, streamVars, StreamInv
<1>2. CASE \E c \in Conn : Serves(c) \/ TaskStops(c)
  BY <1>2 DEF Serves, Serve, TaskStops, TaskPanics, TaskEnds, streamVars, StreamInv
<1>3. CASE Streams
  <2>1. CASE TakeMode
    BY <1>3, <2>1 DEF Streams, TakeMode, SendPacket, streamVars, StreamInv
  <2>2. CASE SendPacket
    <3>1. PICK m \in composing : Arrives(Packet(m))
      BY <2>2 DEF SendPacket
    <3>2. Packet(m) \in Datagrams
      BY <3>1 DEF TalkInv, TypeInv, Datagrams, SensorPackets
    <3>3. air' \in Seq(Datagrams) /\ Len(air') <= MaxAir
      BY <3>1, <3>2, ArrivesKeeps
    <3>4. UNCHANGED streamVars
      BY <1>3 DEF Streams
    <3> QED BY <3>3, <3>4 DEF streamVars, StreamInv
  <2> QED BY <1>3, <2>1, <2>2 DEF Streams
<1>4. CASE StrayArrives
  <2>1. PICK p \in Stray : Arrives(p)
    BY <1>4 DEF StrayArrives
  <2>2. air' \in Seq(Datagrams) /\ Len(air') <= MaxAir
    BY <2>1, ArrivesKeeps DEF Datagrams
  <2>3. UNCHANGED streamVars
    BY <1>4 DEF StrayArrives
  <2> QED BY <2>2, <2>3 DEF streamVars, StreamInv
<1>5. CASE EnterStream
  BY <1>5 DEF EnterStream, sensorVars, StreamInv
<1>6. CASE ExitStream
  <2>1. <<>> \in Seq(Datagrams) /\ Len(<<>>) <= MaxAir
    BY StreamAssumption
  <2> QED BY <1>6, <2>1 DEF ExitStream, StreamInv
<1>7. CASE ReadStream
  BY <1>7, ReadKeeps
<1>8. CASE PutPacket
  BY <1>8, PutKeeps
<1>9. CASE TakePacket
  BY <1>9, TakeKeeps
<1>10. CASE UNCHANGED vars
  BY <1>10 DEF vars, sensorVars, streamVars, StreamInv
<1> QED BY <1>1, <1>2, <1>3, <1>4, <1>5, <1>6, <1>7, <1>8, <1>9, <1>10 DEF Next

LinkTypeInv == LinkedInv /\ TalkInv /\ StreamInv

LEMMA LinkTypeAlways == Spec => []LinkTypeInv
<1>1. Init => LinkTypeInv
  BY InitLinked, InitTalk DEF LinkTypeInv
<1>2. LinkTypeInv /\ [Next]_vars => LinkTypeInv'
  BY NextLinked, NextTalks, NextStreams DEF LinkTypeInv
<1> QED BY <1>1, <1>2, PTL DEF Spec

(***************************************************************************)
(* The type invariant, with the bounds of the socket and of the buffer:    *)
(* each connection carries one message at most.                            *)
(***************************************************************************)
THEOREM LinkTypeCorrect == Spec => []TypeOK
<1>1. ASSUME LinkTypeInv PROVE TypeOK
  <2>1. \A c \in Conn : Len(requests[c]) + Len(answers[c]) <= 1
    <3> SUFFICES ASSUME NEW c \in Conn PROVE Len(requests[c]) + Len(answers[c]) <= 1
      OBVIOUS
    <3>1. \A s : OneAtMost(s) => Len(s) = 0 \/ Len(s) = 1
      BY DEF OneAtMost
    <3>2. \A s : s = <<>> => Len(s) = 0
      OBVIOUS
    <3>3. /\ OneAtMost(requests[c]) /\ OneAtMost(answers[c])
          /\ requests[c] = <<>> \/ answers[c] = <<>>
      BY <1>1 DEF LinkTypeInv, TalkInv, TypeInv
    <3>4. /\ Len(requests[c]) = 0 \/ Len(requests[c]) = 1
          /\ Len(answers[c]) = 0 \/ Len(answers[c]) = 1
          /\ Len(requests[c]) = 0 \/ Len(answers[c]) = 0
      BY <3>1, <3>2, <3>3, Zenon
    <3> DEFINE m == Len(requests[c])
               n == Len(answers[c])
    <3>5. (m = 0 \/ m = 1) /\ (n = 0 \/ n = 1) /\ (m = 0 \/ n = 0)
      BY <3>4
    <3> HIDE DEF m, n
    <3>6. m + n <= 1
      BY <3>5
    <3> QED BY <3>6 DEF m, n
  <2>2. link \in [Client -> SUBSET Conn] /\ acked \in SUBSET Client /\ wrong \in 0..2
    BY <1>1 DEF LinkTypeInv, LinkedInv, LinkInv, AckInv, WrongInv
  <2> QED BY <1>1, <2>1, <2>2 DEF LinkTypeInv, TalkInv, TypeInv, StreamInv, TypeOK
<1> QED BY <1>1, LinkTypeAlways, PTL

(***************************************************************************)
(* With a streaming_source_host, whatever else sends to the port, every    *)
(* packet in the buffer is the sensor's and decodes.                       *)
(***************************************************************************)
THEOREM PacketsDecode == Spec => []DeliveredDecodes
<1>1. ASSUME NEW m \in Modes
      PROVE  Packet(m).source = "sensor" /\ Decode(Packet(m)) = Packet(m).samples
  <2>1. CASE m.samples = 1
    <3>1. Packet(m).len = 35 /\ Packet(m).declared = 29 /\ Packet(m).samples = 1
      BY <2>1 DEF Packet
    <3>2. Decode(Packet(m)) = 1
      BY <3>1 DEF Decode
    <3> QED BY <3>1, <3>2 DEF Packet
  <2>2. CASE m.samples = 16
    <3>1. Packet(m).len = 455 /\ Packet(m).declared = 449 /\ Packet(m).samples = 16
      BY <2>2 DEF Packet
    <3>2. Decode(Packet(m)) = 16
      BY <3>1 DEF Decode
    <3> QED BY <3>1, <3>2 DEF Packet
  <2> QED BY <2>1, <2>2, ModeFacts
<1>2. ASSUME LinkTypeInv PROVE DeliveredDecodes
  <2> SUFFICES ASSUME SourceHost, NEW i \in DOMAIN queue
               PROVE  queue[i].source = "sensor" /\ Decode(queue[i]) = queue[i].samples
    BY DEF DeliveredDecodes
  <2>1. queue[i] \in SensorPackets
    BY <1>2 DEF LinkTypeInv, StreamInv
  <2>2. PICK m \in Modes : queue[i] = Packet(m)
    BY <2>1 DEF SensorPackets
  <2> QED BY <1>1, <2>2
<1> QED BY <1>2, LinkTypeAlways, PTL

\* The connection that a driver reads its answer from is its own.
LEMMA AnsweredFrom ==
  ASSUME LinkTypeInv, NEW d \in Client, Answered(d)
  PROVE  \E c \in link[d] : answers[c] # <<>> /\ Response(d) = FromBytes(Head(answers[c]))
<1>1. PICK c \in link[d] : answers[c] # <<>>
  BY DEF Answered
<1>2. (CHOOSE x \in link[d] : TRUE) = c
  BY <1>1 DEF LinkTypeInv, LinkedInv, LinkInv
<1> QED BY <1>1, <1>2, Zenon DEF Response

(***************************************************************************)
(* Every answer that is read is the one to the request of its reader, for  *)
(* any drivers, connections and rates, and any requests of the protocol's  *)
(* width; and what set_parameter says of a rate is what the sensor did.    *)
(***************************************************************************)
THEOREM AnswersMatch == Spec => AnswerMatchesRequest
<1> DEFINE Step ==
      \A d \in Client : \A r \in asked[d] :
        Answered(d) =>
          /\ Response(d).command = r.command
          /\ r.index # <<>> => Response(d).index = r.index /\ Response(d).subindex = r.subindex
          /\ r.command = <<241>> /\ r.index = RateIndex /\ r.subindex = RateSubindex =>
               (Response(d).error = Success <=>
                  \E rate \in DOMAIN OutputRateMode : r.value = OutputRateMode[rate].value)
<1>1. ASSUME LinkTypeInv PROVE Step
  <2> SUFFICES ASSUME NEW d \in Client, NEW r \in asked[d], Answered(d)
               PROVE  /\ Response(d).command = r.command
                      /\ r.index # <<>> =>
                           Response(d).index = r.index /\ Response(d).subindex = r.subindex
                      /\ r.command = <<241>> /\ r.index = RateIndex /\ r.subindex = RateSubindex =>
                           (Response(d).error = Success <=>
                              \E rate \in DOMAIN OutputRateMode : r.value = OutputRateMode[rate].value)
    OBVIOUS
  <2>1. PICK c \in link[d] : answers[c] # <<>> /\ Response(d) = FromBytes(Head(answers[c]))
    BY <1>1, AnsweredFrom
  <2>2. Matches(r, Head(answers[c]))
    BY <1>1, <2>1 DEF LinkTypeInv, TalkInv, AnswerInv
  <2> QED BY <2>1, <2>2, Zenon DEF Matches, ChangesRate
<1>2. LinkTypeInv /\ [Next]_vars => [Step]_vars
  BY <1>1
<1> QED BY <1>2, LinkTypeAlways, PTL DEF Spec, AnswerMatchesRequest

\* The rate that a driver reads was in effect while it waited for it.
THEOREM RateReadIsCurrent == Spec => GetIsCurrent
<1> DEFINE Step ==
      \A d \in Client :
        Answered(d) /\ asked[d] = {GetRate} =>
          \E e \in inEffect[d] : Response(d).value = <<e>>
<1>1. ASSUME LinkTypeInv PROVE Step
  <2> SUFFICES ASSUME NEW d \in Client, Answered(d), asked[d] = {GetRate}
               PROVE  \E e \in inEffect[d] : Response(d).value = <<e>>
    OBVIOUS
  <2>1. PICK c \in link[d] : answers[c] # <<>> /\ Response(d) = FromBytes(Head(answers[c]))
    BY <1>1, AnsweredFrom
  <2>2. \E e \in inEffect[d] : FromBytes(Head(answers[c])).value = <<e>>
    BY <1>1, <2>1 DEF LinkTypeInv, TalkInv, CurrentInv
  <2> QED BY <2>1, <2>2, Zenon
<1>2. LinkTypeInv /\ [Next]_vars => [Step]_vars
  BY <1>1
<1> QED BY <1>2, LinkTypeAlways, PTL DEF Spec, GetIsCurrent
=============================================================================
