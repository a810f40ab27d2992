-------------------------- MODULE DataBuffer_proofs --------------------------
(***************************************************************************)
(* Proofs about DataBuffer, for any readers and calls they mix, any size   *)
(* of the queue, any number of samples in a packet and of packets.         *)
(***************************************************************************)
EXTENDS DataBuffer, SequenceTheorems, FiniteSetTheorems, TLAPS

(***************************************************************************)
(* The samples of a sequence of packets.                                   *)
(***************************************************************************)
Packet == 1..MaxPackets

\* The element number a * n + b of SamplesOf is sample b of packet a + 1.
LEMMA Division ==
  ASSUME NEW n \in Nat \ {0}, NEW a \in Nat, NEW b \in 1..n
  PROVE  (a * n + b - 1) \div n = a /\ (a * n + b - 1) % n = b - 1
BY SMT

LEMMA Distributes ==
  ASSUME NEW n \in Nat, NEW a \in Int, NEW b \in Int
  PROVE  /\ (a + b) * n = a * n + b * n
         /\ (a - b) * n = a * n - b * n
         /\ a <= b => a * n <= b * n
BY SMT

LEMMA DivisionBack ==
  ASSUME NEW n \in Nat \ {0}, NEW k \in Nat, NEW i \in 1..(k * n)
  PROVE  /\ (i - 1) \div n \in 0..(k - 1)
         /\ ((i - 1) % n) + 1 \in 1..n
         /\ i = ((i - 1) \div n) * n + (((i - 1) % n) + 1)
<1> DEFINE j == i - 1
           q == j \div n
           r == j % n
<1>1. j \in Nat /\ k * n \in Nat /\ j < k * n
  BY SMT
<1> HIDE DEF j
<1>2. r \in 0..(n - 1) /\ q \in Int
  BY <1>1, SMT
<1>3. j = n * q + r
  BY <1>1, SMT
<1> HIDE DEF q, r
<1>4. n * q = q * n
  BY <1>2, SMT
<1>5. q >= 0
  BY <1>1, <1>2, <1>3, SMT
<1>6. q < k
  <2> SUFFICES ASSUME k <= q PROVE FALSE
    BY <1>2
  <2>1. k * n <= q * n
    BY <1>2, Distributes
  <2> QED BY <1>1, <1>2, <1>3, <1>4, <2>1
<1>7. j = q * n + r
  BY <1>3, <1>4
<1>8. i = j + 1
  BY DEF j
<1>9. q \in 0..(k - 1) /\ r + 1 \in 1..n /\ i = q * n + (r + 1)
  BY <1>1, <1>2, <1>5, <1>6, <1>7, <1>8, SMT
<1> QED BY <1>9 DEF q, r, j

LEMMA Products ==
  ASSUME NEW k \in Nat
  PROVE  k * PerPacket \in Nat /\ 0 * PerPacket = 0 /\ 1 * PerPacket = PerPacket
BY BufferAssumption, SMT

LEMMA SamplesType ==
  ASSUME NEW packets \in Seq(Packet)
  PROVE  /\ SamplesOf(packets) \in Seq(Sample)
         /\ Len(SamplesOf(packets)) = Len(packets) * PerPacket
<1> DEFINE n == Len(packets) * PerPacket
<1>1. n \in Nat
  BY Products
<1>2. ASSUME NEW i \in 1..n
      PROVE  <<packets[((i - 1) \div PerPacket) + 1], ((i - 1) % PerPacket) + 1>> \in Sample
  <2>1. Len(packets) \in Nat
    BY LenProperties
  <2>2. (i - 1) \div PerPacket \in 0..(Len(packets) - 1) /\ ((i - 1) % PerPacket) + 1 \in 1..PerPacket
    BY <2>1, DivisionBack, BufferAssumption
  <2>3. ((i - 1) \div PerPacket) + 1 \in 1..Len(packets) /\ ((i - 1) % PerPacket) + 1 \in 1..PerPacket
    BY <2>1, <2>2
  <2>4. packets[((i - 1) \div PerPacket) + 1] \in Packet
    BY <2>3, ElementOfSeq
  <2> QED BY <2>3, <2>4 DEF Sample, Packet
<1> QED BY <1>1, <1>2 DEF SamplesOf

LEMMA SampleAt ==
  ASSUME NEW packets \in Seq(Packet), NEW b \in 1..PerPacket, NEW a \in 0..(Len(packets) - 1)
  PROVE  /\ a * PerPacket + b \in 1..(Len(packets) * PerPacket)
         /\ SamplesOf(packets)[a * PerPacket + b] = <<packets[a + 1], b>>
<1> DEFINE i == a * PerPacket + b
<1>1. b - 1 \in 0..(PerPacket - 1) /\ PerPacket \in Nat \ {0} /\ a * PerPacket \in Nat
  BY BufferAssumption, Products
<1>3. (i - 1) \div PerPacket = a /\ (i - 1) % PerPacket = b - 1
  <2>1. a \in Nat
    BY LenProperties
  <2>2. PerPacket \in Nat \ {0}
    BY <1>1
  <2>3. (a * PerPacket + b - 1) \div PerPacket = a /\ (a * PerPacket + b - 1) % PerPacket = b - 1
    BY <2>1, <2>2, Division
  <2>4. i - 1 = a * PerPacket + b - 1
    BY <1>1
  <2> QED BY <2>3, <2>4
<1>4. i \in 1..(Len(packets) * PerPacket)
  <2>1. (a + 1) * PerPacket = a * PerPacket + PerPacket
    BY <1>1, Distributes, Products
  <2>2. (a + 1) * PerPacket <= Len(packets) * PerPacket
    BY <1>1, Distributes
  <2>3. (a + 1) * PerPacket \in Nat /\ Len(packets) * PerPacket \in Nat
    BY Products
  <2> QED BY <1>1, <2>1, <2>2, <2>3
<1> QED BY <1>3, <1>4 DEF SamplesOf

\* Every element is sample b of packet a + 1 for some a and b.
LEMMA EverySample ==
  ASSUME NEW packets \in Seq(Packet), NEW i \in 1..(Len(packets) * PerPacket)
  PROVE  \E a \in 0..(Len(packets) - 1), b \in 1..PerPacket : i = a * PerPacket + b
<1> DEFINE a == (i - 1) \div PerPacket
           b == ((i - 1) % PerPacket) + 1
<1>1. Len(packets) \in Nat
  BY LenProperties
<1>2. a \in 0..(Len(packets) - 1) /\ b \in 1..PerPacket /\ i = a * PerPacket + b
  BY <1>1, DivisionBack, BufferAssumption
<1> QED BY <1>2

LEMMA OnePacket ==
  ASSUME NEW p \in Packet
  PROVE  /\ SamplesOf(<<p>>) = [b \in 1..PerPacket |-> <<p, b>>]
         /\ SamplesOf(<<p>>) \in Seq(Sample) /\ Len(SamplesOf(<<p>>)) = PerPacket
         /\ SamplesOf(<<p>>) # <<>>
<1>1. <<p>> \in Seq(Packet) /\ Len(<<p>>) = 1 /\ <<p>>[1] = p
  OBVIOUS
<1>2. SamplesOf(<<p>>) \in Seq(Sample) /\ Len(SamplesOf(<<p>>)) = PerPacket
  BY <1>1, SamplesType, Products, BufferAssumption
<1>3. \A b \in 1..PerPacket : SamplesOf(<<p>>)[b] = <<p, b>>
  <2> SUFFICES ASSUME NEW b \in 1..PerPacket PROVE SamplesOf(<<p>>)[b] = <<p, b>>
    OBVIOUS
  <2>1. 0 * PerPacket + b = b
    BY BufferAssumption
  <2>2. 0 \in 0..(Len(<<p>>) - 1)
    BY <1>1
  <2>3. SamplesOf(<<p>>)[0 * PerPacket + b] = <<<<p>>[0 + 1], b>>
    BY <1>1, <2>2, SampleAt
  <2> QED BY <1>1, <2>1, <2>3
<1>4. [b \in 1..PerPacket |-> <<p, b>>] \in Seq(Sample)
  BY BufferAssumption DEF Sample, Packet
<1>5. Len([b \in 1..PerPacket |-> <<p, b>>]) = PerPacket
  BY BufferAssumption
<1> QED BY <1>2, <1>3, <1>4, <1>5, SeqEqual, BufferAssumption

LEMMA SamplesConcat ==
  ASSUME NEW s \in Seq(Packet), NEW t \in Seq(Packet)
  PROVE  SamplesOf(s \o t) = SamplesOf(s) \o SamplesOf(t)
<1>1. s \o t \in Seq(Packet) /\ Len(s \o t) = Len(s) + Len(t)
  OBVIOUS
<1>2. Len(s) * PerPacket \in Nat /\ Len(t) * PerPacket \in Nat
  BY Products
<1>3. Len(s \o t) * PerPacket = Len(s) * PerPacket + Len(t) * PerPacket
  BY <1>1, Distributes, BufferAssumption
<1>4. /\ SamplesOf(s) \o SamplesOf(t) \in Seq(Sample)
      /\ Len(SamplesOf(s) \o SamplesOf(t)) = Len(s \o t) * PerPacket
      /\ SamplesOf(s \o t) \in Seq(Sample)
      /\ Len(SamplesOf(s \o t)) = Len(s \o t) * PerPacket
  <2>1. /\ SamplesOf(s) \in Seq(Sample) /\ Len(SamplesOf(s)) = Len(s) * PerPacket
        /\ SamplesOf(t) \in Seq(Sample) /\ Len(SamplesOf(t)) = Len(t) * PerPacket
    BY SamplesType
  <2>2. /\ SamplesOf(s \o t) \in Seq(Sample)
        /\ Len(SamplesOf(s \o t)) = Len(s \o t) * PerPacket
    BY <1>1, SamplesType
  <2> QED BY <1>3, <2>1, <2>2, ConcatProperties
<1>5. ASSUME NEW i \in 1..(Len(s \o t) * PerPacket)
      PROVE  SamplesOf(s \o t)[i] = (SamplesOf(s) \o SamplesOf(t))[i]
  <2>1. PICK a \in 0..(Len(s \o t) - 1), b \in 1..PerPacket : i = a * PerPacket + b
    BY <1>1, EverySample
  <2>2. SamplesOf(s \o t)[i] = <<(s \o t)[a + 1], b>>
    BY <1>1, <2>1, SampleAt
  <2>3. (SamplesOf(s) \o SamplesOf(t))[i] =
          IF i <= Len(s) * PerPacket THEN SamplesOf(s)[i] ELSE SamplesOf(t)[i - Len(s) * PerPacket]
    BY <1>1, <1>2, <1>3, SamplesType, ConcatProperties
  <2>0. a \in Nat /\ Len(s) \in Nat
    BY <1>1, LenProperties
  <2>4. CASE a < Len(s)
    <3>1. a \in 0..(Len(s) - 1)
      BY <2>4
    <3>2. i \in 1..(Len(s) * PerPacket) /\ SamplesOf(s)[i] = <<s[a + 1], b>>
      BY <2>1, <3>1, SampleAt
    <3>3. (s \o t)[a + 1] = s[a + 1]
      BY <3>1
    <3> QED BY <1>2, <2>2, <2>3, <3>2, <3>3
  <2>5. CASE a >= Len(s)
    <3>1. a - Len(s) \in 0..(Len(t) - 1)
      BY <1>1, <2>5
    <3>2. (a - Len(s)) * PerPacket = a * PerPacket - Len(s) * PerPacket
      BY Distributes, BufferAssumption
    <3>3. /\ (a - Len(s)) * PerPacket + b \in 1..(Len(t) * PerPacket)
          /\ SamplesOf(t)[(a - Len(s)) * PerPacket + b] = <<t[a - Len(s) + 1], b>>
      BY <3>1, SampleAt
    <3>4. a * PerPacket \in Nat
      <4>1. a \in Nat
        OBVIOUS
      <4> QED BY <4>1, Products
    <3>5. i - Len(s) * PerPacket = (a - Len(s)) * PerPacket + b
      BY <1>2, <2>1, <3>2, <3>4
    <3>6. ~(i <= Len(s) * PerPacket)
      BY <1>2, <3>3, <3>5, <3>4
    <3>7. (s \o t)[a + 1] = t[a - Len(s) + 1]
      BY <1>1, <2>5
    <3> QED BY <2>2, <2>3, <3>3, <3>5, <3>6, <3>7
  <2>6. a < Len(s) \/ a >= Len(s)
    BY <2>0
  <2> QED BY <2>4, <2>5, <2>6
<1> QED BY <1>4, <1>5, SeqEqual

-----------------------------------------------------------------------------
(* Types *)

\* A reader has a packet in hand just while it takes it apart.
HandFits == \A c \in Consumer : hand[c] # None <=> pc[c] \in {"extend", "return"}

TypeInv == TypeOK /\ HandFits

LEMMA InitType == Init => TypeInv
<1> SUFFICES ASSUME Init PROVE TypeInv
  OBVIOUS
<1>1. queue \in Seq(1..MaxPackets) /\ Len(queue) <= MaxSize
  BY BufferAssumption DEF Init
<1>2. pending \in Seq(Sample) /\ delivered \in Seq(Sample)
  BY DEF Init
<1>3. clear \in [from : 1..(MaxPackets + 1), held : SUBSET (1..MaxPackets), done : BOOLEAN]
  BY BufferAssumption DEF Init
<1>4. /\ pc \in [Consumer -> Location]
      /\ hand \in [Consumer -> {None} \cup {<<p>> : p \in 1..MaxPackets}]
      /\ HandFits
  BY DEF Init, Location, HandFits
<1>5. dropped \in 0..MaxPackets /\ next \in 1..(MaxPackets + 1) /\ lost \in Nat /\ usage \in Usage
  BY BufferAssumption DEF Init
<1> QED BY <1>1, <1>2, <1>3, <1>4, <1>5 DEF TypeInv, TypeOK

\* What a reader has in hand.
LEMMA InHand ==
  ASSUME TypeInv, NEW c \in Consumer, pc[c] \in {"extend", "return"}
  PROVE  \E p \in Packet : /\ hand[c] = <<p>> /\ hand[c][1] = p
                           /\ SamplesOf(hand[c]) = [b \in 1..PerPacket |-> <<p, b>>]
                           /\ SamplesOf(hand[c]) \in Seq(Sample)
                           /\ Len(SamplesOf(hand[c])) = PerPacket
                           /\ SamplesOf(hand[c]) # <<>>
<1>1. PICK p \in Packet : hand[c] = <<p>>
  BY DEF TypeInv, TypeOK, HandFits, Packet
<1> QED BY <1>1, OnePacket

\* More packets have not been dropped than have been put.
DroppedFits == dropped <= next - 1

LEMMA TypeStep == TypeInv /\ DroppedFits /\ [Next]_vars => TypeInv' /\ DroppedFits'
<1> SUFFICES ASSUME TypeInv, DroppedFits, [Next]_vars PROVE TypeInv' /\ DroppedFits'
  OBVIOUS
<1> USE DEF TypeInv, TypeOK, HandFits, DroppedFits
<1>1. CASE Put
  <2>1. next \in 1..MaxPackets /\ next' = next + 1 /\ next' \in 1..(MaxPackets + 1)
    BY <1>1, BufferAssumption DEF Put
  <2>2. queue' \in Seq(1..MaxPackets) /\ Len(queue') <= MaxSize
    <3>1. Append(queue, next) \in Seq(1..MaxPackets) /\ Len(Append(queue, next)) = Len(queue) + 1
      BY <2>1, AppendProperties
    <3>2. Len(queue) \in Nat /\ MaxSize \in Nat
      BY BufferAssumption
    <3>3. queue \in Seq(1..MaxPackets) /\ Len(queue) <= MaxSize
      OBVIOUS
    <3> HIDE DEF TypeInv, TypeOK
    <3>4. CASE queue' = queue
      BY <3>3, <3>4
    <3>5. CASE Len(queue) < MaxSize /\ queue' = Append(queue, next)
      <4>1. Len(queue) + 1 <= MaxSize
        BY <3>2, <3>5
      <4> QED BY <3>1, <3>5, <4>1
    <3> QED BY <1>1, <3>4, <3>5 DEF Put
  <2>3. dropped' \in 0..MaxPackets /\ dropped' <= next' - 1
    BY <1>1, <2>1, BufferAssumption DEF Put
  <2> QED BY <1>1, <2>1, <2>2, <2>3 DEF Put
<1>2. CASE ClearQueue
  <2>1. queue' = <<>> /\ queue' \in Seq(1..MaxPackets) /\ Len(queue') <= MaxSize
    BY <1>2, BufferAssumption DEF ClearQueue
  <2>2. lost' \in Nat
    <3>1. Len(queue) \in Nat
      OBVIOUS
    <3>2. Len(queue) * PerPacket \in Nat /\ lost \in Nat
      BY <3>1, Products
    <3>3. lost' = lost + Len(queue) * PerPacket
      BY <1>2 DEF ClearQueue
    <3> HIDE DEF TypeInv, TypeOK
    <3> QED BY <3>2, <3>3
  <2>3. clear' \in [from : 1..(MaxPackets + 1), held : SUBSET (1..MaxPackets), done : BOOLEAN]
    BY <1>2 DEF ClearQueue
  <2> QED BY <1>2, <2>1, <2>2, <2>3 DEF ClearQueue
<1>3. CASE ClearPending
  <2>1. lost' \in Nat /\ pending' \in Seq(Sample)
    BY <1>3 DEF ClearPending
  <2>2. clear' \in [from : 1..(MaxPackets + 1), held : SUBSET (1..MaxPackets), done : BOOLEAN]
    BY <1>3 DEF ClearPending
  <2> QED BY <1>3, <2>1, <2>2 DEF ClearPending
<1>4. ASSUME NEW c \in Consumer, StartGet(c) \/ StartBatch(c) \/ PopRaises(c) \/ GiveUp(c)
      PROVE  TypeInv' /\ DroppedFits'
  BY <1>4 DEF StartGet, StartBatch, PopRaises, GiveUp, Calls, Goto, Location
<1>5. ASSUME NEW c \in Consumer, PopPending(c) PROVE TypeInv' /\ DroppedFits'
  <2>1. pending' \in Seq(Sample) /\ delivered' \in Seq(Sample)
    BY <1>5 DEF PopPending
  <2> QED BY <1>5, <2>1 DEF PopPending, Goto, Location
<1>6. ASSUME NEW c \in Consumer, Dequeue(c) PROVE TypeInv' /\ DroppedFits'
  <2>1. Head(queue) \in 1..MaxPackets /\ queue' \in Seq(1..MaxPackets) /\ Len(queue') <= MaxSize
    BY <1>6, BufferAssumption DEF Dequeue
  <2>2. hand' \in [Consumer -> {None} \cup {<<p>> : p \in 1..MaxPackets}]
    BY <1>6, <2>1 DEF Dequeue
  <2>3. pc' \in [Consumer -> Location] /\ HandFits'
    BY <1>6, <2>1 DEF Dequeue, Goto, Location, None
  <2> QED BY <1>6, <2>1, <2>2, <2>3 DEF Dequeue
<1>7. ASSUME NEW c \in Consumer, ExtendPending(c) \/ ReturnBatch(c) PROVE TypeInv' /\ DroppedFits'
  <2>1. pc[c] \in {"extend", "return"}
    BY <1>7 DEF ExtendPending, ReturnBatch, Goto
  <2>2. SamplesOf(hand[c]) \in Seq(Sample) /\ SamplesOf(hand[c]) # <<>>
    BY <2>1, InHand
  <2>3. pending' \in Seq(Sample) /\ delivered' \in Seq(Sample)
    <3>1. Head(SamplesOf(hand[c])) \in Sample /\ Tail(SamplesOf(hand[c])) \in Seq(Sample)
      BY <2>2, HeadTailProperties
    <3> HIDE DEF TypeInv
    <3>2. pending \in Seq(Sample) /\ delivered \in Seq(Sample)
      BY DEF TypeInv
    <3>3. CASE ExtendPending(c)
      BY <3>1, <3>2, <3>3, ConcatProperties, AppendProperties DEF ExtendPending
    <3>4. CASE ReturnBatch(c)
      BY <2>2, <3>2, <3>4, ConcatProperties DEF ReturnBatch
    <3> QED BY <1>7, <3>3, <3>4
  <2>4. pc' \in [Consumer -> Location] /\ HandFits'
    BY <1>7 DEF ExtendPending, ReturnBatch, Goto, Location
  <2> QED BY <1>7, <2>3, <2>4 DEF ExtendPending, ReturnBatch
<1>8. CASE UNCHANGED vars
  BY <1>8 DEF vars
<1> QED BY <1>1, <1>2, <1>3, <1>4, <1>5, <1>6, <1>7, <1>8 DEF Next

\* The type invariant of the buffer, its bound on the queue included.
THEOREM TypeCorrect == Spec => []TypeOK
<1>1. Init => DroppedFits
  BY DEF Init, DroppedFits
<1>2. TypeInv => TypeOK
  BY DEF TypeInv
<1> QED BY <1>1, <1>2, InitType, TypeStep, PTL DEF Spec

\* The type invariant holds in every state with the facts its proof adds.
LEMMA TypeAlways == Spec => [](TypeInv /\ DroppedFits)
<1>1. Init => DroppedFits
  BY DEF Init, DroppedFits
<1> QED BY <1>1, InitType, TypeStep, PTL DEF Spec

-----------------------------------------------------------------------------
(* Conservation *)

LEMMA HoldingFinite == IsFiniteSet(Holding) /\ Cardinality(Holding) \in Nat
<1>1. Holding \subseteq Consumer /\ IsFiniteSet(Consumer)
  BY BufferAssumption DEF Holding
<1> QED BY <1>1, FS_Subset, FS_CardinalityType

\* The sum of Conserved with its two kinds of terms apart: packets and samples.
LEMMA Balance ==
  ASSUME NEW p \in Nat, NEW put \in Int, NEW packets \in Int, NEW samples \in Int,
         NEW dput \in Int, NEW dpackets \in Int, NEW dsamples \in Int,
         put * p = packets * p + samples,
         dput * p = dpackets * p + dsamples
  PROVE  (put + dput) * p = (packets + dpackets) * p + (samples + dsamples)
<1>1. (put + dput) * p = put * p + dput * p /\ (packets + dpackets) * p = packets * p + dpackets * p
  BY Distributes
<1>2. put * p \in Int /\ dput * p \in Int /\ packets * p \in Int /\ dpackets * p \in Int
  BY SMT
<1> HIDE DEF Distributes
<1> QED BY <1>1, <1>2

LEMMA ConservedStep ==
  TypeInv /\ TypeInv' /\ Conserved /\ [Next]_vars => Conserved'
<1> SUFFICES ASSUME TypeInv, TypeInv', Conserved, [Next]_vars PROVE Conserved'
  OBVIOUS
<1> DEFINE packets == dropped + Len(queue) + Cardinality(Holding)
           samples == Len(pending) + Len(delivered) + lost
<1>0. /\ PerPacket \in Nat /\ next \in Int /\ next - 1 \in Int
      /\ dropped \in Int /\ Len(queue) \in Nat /\ Cardinality(Holding) \in Nat
      /\ Len(pending) \in Nat /\ Len(delivered) \in Nat /\ lost \in Nat
      /\ packets \in Int /\ samples \in Int
  <2>1. Cardinality(Holding) \in Nat
    BY HoldingFinite
  <2>2. /\ PerPacket \in Nat /\ next \in Int /\ dropped \in Int /\ lost \in Nat
        /\ Len(queue) \in Nat /\ Len(pending) \in Nat /\ Len(delivered) \in Nat
    BY BufferAssumption DEF TypeInv, TypeOK
  <2> QED BY <2>1, <2>2
<1>a. (next - 1) * PerPacket = packets * PerPacket + samples
  <2> DEFINE x == packets * PerPacket
  <2>1. x \in Int
    BY <1>0
  <2>2. (next - 1) * PerPacket = x + Len(pending) + Len(delivered) + lost
    BY DEF Conserved
  <2> HIDE DEF x
  <2>3. (next - 1) * PerPacket = x + samples
    BY <1>0, <2>1, <2>2
  <2> QED BY <2>3 DEF x
\* It is enough that a step adds as much on the one side as on the other.
<1>b. ASSUME NEW dput \in Int, NEW dpackets \in Int, NEW dsamples \in Int,
             next' - 1 = (next - 1) + dput,
             packets' = packets + dpackets,
             samples' = samples + dsamples,
             dput * PerPacket = dpackets * PerPacket + dsamples
      PROVE  Conserved'
  <2> HIDE DEF packets, samples
  <2>1. (next' - 1) * PerPacket = packets' * PerPacket + samples'
    BY <1>0, <1>a, <1>b, Balance
  <2>2. packets' * PerPacket \in Int
    BY <1>0, <1>b
  <2> DEFINE x == packets' * PerPacket
  <2>3. samples' = Len(pending') + Len(delivered') + lost'
    BY DEF samples
  <2>4. Len(pending') \in Nat /\ Len(delivered') \in Nat /\ lost' \in Nat
    BY DEF TypeInv, TypeOK
  <2> HIDE DEF x
  <2>5. (next' - 1) * PerPacket = x + Len(pending') + Len(delivered') + lost'
    BY <2>1, <2>2, <2>3, <2>4 DEF x
  <2> QED BY <2>5 DEF Conserved, x, packets
<1>c. 0 * PerPacket = 0 /\ 0 * PerPacket = 0 * PerPacket + 0 /\ 1 * PerPacket = PerPacket /\ (-1) * PerPacket = -PerPacket
  BY <1>0
<1>1. CASE Put
  <2>1. next' - 1 = (next - 1) + 1 /\ samples' = samples + 0
    BY <1>1, <1>0 DEF Put
  <2>2. Holding' = Holding
    BY <1>1 DEF Put, Holding
  <2>3. packets' = packets + 1
    <3>1. CASE queue' = Append(queue, next) /\ dropped' = dropped
      <4>1. Len(queue') = Len(queue) + 1
        BY <3>1 DEF TypeInv, TypeOK
      <4> QED BY <1>0, <2>2, <3>1, <4>1
    <3>2. CASE queue' = queue /\ dropped' = dropped + 1
      BY <1>0, <2>2, <3>2
    <3> QED BY <1>1, <3>1, <3>2 DEF Put
  <2> HIDE DEF packets, samples
  <2>4. 1 * PerPacket = 1 * PerPacket + 0
    BY <1>0, <1>c
  <2> QED BY <1>b, <2>1, <2>3, <2>4
<1>2. CASE ClearQueue
  <2> DEFINE n == Len(queue)
  <2>1. Holding' = Holding
    BY <1>2 DEF ClearQueue, Holding
  <2>2. Len(queue') = 0 /\ dropped' = dropped /\ next' = next
    BY <1>2 DEF ClearQueue
  <2>3. packets' = packets + (-n) /\ n \in Nat /\ n * PerPacket \in Nat
    BY <1>0, <2>1, <2>2, Products
  <2>4. lost' = lost + n * PerPacket /\ pending' = pending /\ delivered' = delivered
    BY <1>2 DEF ClearQueue
  <2>5. samples' = samples + n * PerPacket
    <3> HIDE DEF n
    <3> QED BY <1>0, <2>3, <2>4
  <2> HIDE DEF packets, samples, n
  <2>6. 0 * PerPacket = (-n) * PerPacket + n * PerPacket
    <3>1. (-n + n) * PerPacket = (-n) * PerPacket + n * PerPacket
      BY <1>0, <2>3, Distributes
    <3>2. -n + n = 0
      BY <2>3
    <3> QED BY <3>1, <3>2
  <2>7. next' - 1 = (next - 1) + 0
    BY <1>0, <2>2
  <2> QED BY <1>b, <2>3, <2>5, <2>6, <2>7
<1>3. CASE ClearPending
  <2>1. Holding' = Holding
    BY <1>3 DEF ClearPending, Holding
  <2>2. Len(pending') = 0 /\ lost' = lost + Len(pending) /\ UNCHANGED <<queue, dropped, next, delivered>>
    BY <1>3 DEF ClearPending
  <2>3. next' - 1 = (next - 1) + 0 /\ packets' = packets + 0 /\ samples' = samples + 0
    BY <1>0, <2>1, <2>2
  <2> HIDE DEF packets, samples
  <2> QED BY <1>b, <1>c, <2>3
<1>4. ASSUME NEW c \in Consumer, StartGet(c) \/ StartBatch(c) \/ PopRaises(c) \/ GiveUp(c)
      PROVE  Conserved'
  BY <1>4 DEF StartGet, StartBatch, PopRaises, GiveUp, Conserved, Holding
<1>5. ASSUME NEW c \in Consumer, PopPending(c) PROVE Conserved'
  <2>1. Holding' = Holding
    BY <1>5 DEF PopPending, Holding
  <2>2. pending # <<>> /\ pending' = Tail(pending) /\ delivered' = Append(delivered, Head(pending))
        /\ UNCHANGED <<queue, dropped, next, lost>>
    BY <1>5 DEF PopPending
  <2>3. Len(pending') = Len(pending) - 1 /\ Len(delivered') = Len(delivered) + 1
    BY <2>2 DEF TypeInv, TypeOK
  <2>4. next' - 1 = (next - 1) + 0 /\ packets' = packets + 0 /\ samples' = samples + 0
    BY <1>0, <2>1, <2>2, <2>3
  <2> HIDE DEF packets, samples
  <2> QED BY <1>b, <1>c, <2>4
<1>6. ASSUME NEW c \in Consumer, Dequeue(c) PROVE Conserved'
  <2>1. Holding' = Holding \cup {c} /\ c \notin Holding
    <3>0. pc[c] \in {"get", "getBatch"} /\ hand' = [hand EXCEPT ![c] = <<Head(queue)>>]
      BY <1>6 DEF Dequeue, Goto
    <3>1. hand[c] = None
      BY <3>0 DEF TypeInv, HandFits
    <3>2. <<Head(queue)>> # None
      BY DEF None
    <3> QED BY <3>0, <3>1, <3>2 DEF Holding, TypeInv, TypeOK
  <2>2. Cardinality(Holding') = Cardinality(Holding) + 1
    BY <2>1, HoldingFinite, FS_AddElement
  <2>3. Len(queue') = Len(queue) - 1
    BY <1>6 DEF Dequeue, TypeInv, TypeOK
  <2>4. UNCHANGED <<pending, dropped, next, delivered, lost>>
    BY <1>6 DEF Dequeue
  <2>5. next' - 1 = (next - 1) + 0 /\ packets' = packets + 0 /\ samples' = samples + 0
    BY <1>0, <2>2, <2>3, <2>4
  <2> HIDE DEF packets, samples
  <2> QED BY <1>b, <1>c, <2>5
<1>7. ASSUME NEW c \in Consumer, ExtendPending(c) \/ ReturnBatch(c) PROVE Conserved'
  <2>0. pc[c] \in {"extend", "return"}
    BY <1>7 DEF ExtendPending, ReturnBatch, Goto
  <2>a. /\ SamplesOf(hand[c]) \in Seq(Sample) /\ Len(SamplesOf(hand[c])) = PerPacket
        /\ SamplesOf(hand[c]) # <<>>
    BY <2>0, InHand
  <2>1. Holding' = Holding \ {c} /\ c \in Holding
    BY <1>7, <2>0 DEF ExtendPending, ReturnBatch, Holding, None, TypeInv, TypeOK, HandFits
  <2>2. Cardinality(Holding') = Cardinality(Holding) - 1
    BY <2>1, HoldingFinite, FS_RemoveElement
  <2>3. UNCHANGED <<queue, dropped, next, lost>>
    BY <1>7 DEF ExtendPending, ReturnBatch
  <2>4. Len(pending') + Len(delivered') = Len(pending) + Len(delivered) + PerPacket
    <3> DEFINE s == SamplesOf(hand[c])
    <3>0. pending \in Seq(Sample) /\ delivered \in Seq(Sample)
      BY DEF TypeInv, TypeOK
    <3>a. s \in Seq(Sample) /\ Len(s) = PerPacket /\ s # <<>>
      BY <2>a
    <3>1. CASE pending' = pending \o Tail(s) /\ delivered' = Append(delivered, Head(s))
      <4> HIDE DEF s
      <4>1. Tail(s) \in Seq(Sample) /\ Len(Tail(s)) = PerPacket - 1
        BY <1>0, <3>a, HeadTailProperties
      <4>2. Len(pending') = Len(pending) + Len(Tail(s))
        BY <3>0, <3>1, <4>1, ConcatProperties
      <4>3. Len(delivered') = Len(delivered) + 1
        BY <3>0, <3>1, <3>a
      <4> QED BY <1>0, <4>1, <4>2, <4>3
    <3>2. CASE pending' = pending /\ delivered' = delivered \o s
      <4> HIDE DEF s
      <4>1. Len(delivered') = Len(delivered) + Len(s)
        BY <3>0, <3>2, <3>a, ConcatProperties
      <4> QED BY <1>0, <3>2, <3>a, <4>1
    <3> QED BY <1>7, <3>1, <3>2 DEF ExtendPending, ReturnBatch
  <2>5. Len(pending') \in Nat /\ Len(delivered') \in Nat
    BY DEF TypeInv, TypeOK
  <2>6. packets' = packets + (-1)
    BY <1>0, <2>2, <2>3
  <2>8. next' - 1 = (next - 1) + 0 /\ samples' = samples + PerPacket
    <3> HIDE DEF packets
    <3> QED BY <1>0, <2>3, <2>4, <2>5, SMTT(30)
  <2>7. 0 * PerPacket = (-1) * PerPacket + PerPacket
    BY <1>0, <1>c
  <2> HIDE DEF packets, samples
  <2> QED BY <1>0, <1>b, <2>6, <2>7, <2>8
<1>8. CASE UNCHANGED vars
  BY <1>8 DEF vars, Conserved, Holding
<1> QED BY <1>1, <1>2, <1>3, <1>4, <1>5, <1>6, <1>7, <1>8 DEF Next

\* No sample vanishes and none is made up, whatever the readers and clear() do.
THEOREM SamplesConserved == Spec => []Conserved
<1>1. Init => Conserved
  <2> SUFFICES ASSUME Init PROVE Conserved
    OBVIOUS
  <2>1. Holding = {} /\ next = 1 /\ dropped = 0 /\ lost = 0
        /\ Len(queue) = 0 /\ Len(pending) = 0 /\ Len(delivered) = 0
    BY DEF Init, Holding
  <2>2. Cardinality(Holding) = 0
    BY <2>1, FS_EmptySet
  <2>3. 0 * PerPacket = 0
    BY BufferAssumption
  <2> QED BY <2>1, <2>2, <2>3 DEF Conserved
<1>2. (TypeInv /\ DroppedFits)' => TypeInv'
  OBVIOUS
<1> QED BY <1>1, <1>2, TypeAlways, ConservedStep, PTL DEF Spec

-----------------------------------------------------------------------------
(* clear() *)

\* ClearTakesEffect, with what holds in the middle of a clear() as well: only
\* the deque may still hold something older then.
Fresh(p) == p >= clear.from \/ p \in clear.held

ClearInv ==
  /\ clear.from <= next
  /\ \A i \in 1..Len(queue) : Fresh(queue[i])
  /\ \A c \in Consumer : hand[c] # None => Fresh(hand[c][1])
  /\ clear.done => \A i \in 1..Len(pending) : Fresh(pending[i][1])

LEMMA ClearStep == TypeInv /\ ClearInv /\ [Next]_vars => ClearInv'
<1> SUFFICES ASSUME TypeInv, ClearInv, [Next]_vars PROVE ClearInv'
  OBVIOUS
<1>0. next \in Nat /\ clear.from \in Nat /\ clear.done \in BOOLEAN
      /\ queue \in Seq(Packet) /\ pending \in Seq(Sample)
  BY DEF TypeInv, TypeOK, Packet
<1>1. CASE Put
  <2>1. clear' = clear /\ next' = next + 1 /\ hand' = hand /\ pending' = pending
    BY <1>1 DEF Put
  <2>3. \A i \in 1..Len(queue') : Fresh(queue'[i])
    <3>1. CASE queue' = queue
      BY <3>1 DEF ClearInv
    <3>2. CASE queue' = Append(queue, next)
      <4>1. Fresh(next)
        BY <1>0, <2>1 DEF ClearInv, Fresh
      <4>2. next \in Packet
        BY <1>0, <1>1, BufferAssumption DEF Put, Packet, TypeInv, TypeOK
      <4>3. \A i \in 1..Len(queue') : queue'[i] = next \/ (i \in 1..Len(queue) /\ queue'[i] = queue[i])
        BY <1>0, <3>2, <4>2
      <4> QED BY <4>1, <4>3 DEF ClearInv
    <3> QED BY <1>1, <3>1, <3>2 DEF Put
  <2> QED BY <1>0, <2>1, <2>3 DEF ClearInv, Fresh
<1>2. CASE ClearQueue
  <2>1. clear'.from = next /\ clear'.done = FALSE
        /\ clear'.held = {p \in 1..MaxPackets : \E c \in Consumer : hand[c] = <<p>>}
        /\ queue' = <<>> /\ hand' = hand /\ next' = next
    BY <1>2 DEF ClearQueue
  <2>2. \A c \in Consumer : hand[c] # None => hand[c][1] \in clear'.held
    <3> SUFFICES ASSUME NEW c \in Consumer, hand[c] # None PROVE hand[c][1] \in clear'.held
      OBVIOUS
    <3>1. PICK p \in 1..MaxPackets : hand[c] = <<p>>
      BY DEF TypeInv, TypeOK
    <3> QED BY <2>1, <3>1
  <2>3. clear'.from <= next' /\ ~clear'.done
    BY <1>0, <2>1
  <2>4. \A i \in 1..Len(queue') : FALSE
    BY <2>1
  <2>5. \A c \in Consumer : hand'[c] # None => hand'[c][1] \in clear'.held
    BY <2>1, <2>2
  <2> HIDE DEF None
  <2> QED BY <2>3, <2>4, <2>5 DEF ClearInv, Fresh
<1>3. CASE ClearPending
  <2>1. clear'.from = clear.from /\ clear'.held = clear.held /\ pending' = <<>>
        /\ UNCHANGED <<queue, hand, next>>
    BY <1>3 DEF ClearPending, TypeInv, TypeOK
  <2> QED BY <2>1 DEF ClearInv, Fresh
<1>4. ASSUME NEW c \in Consumer, StartGet(c) \/ StartBatch(c) \/ PopRaises(c) \/ GiveUp(c)
      PROVE  ClearInv'
  BY <1>4 DEF StartGet, StartBatch, PopRaises, GiveUp, ClearInv, Fresh
<1>5. ASSUME NEW c \in Consumer, PopPending(c) PROVE ClearInv'
  <2>1. pending # <<>> /\ pending' = Tail(pending) /\ UNCHANGED <<queue, hand, next, clear>>
    BY <1>5 DEF PopPending
  <2>2. \A i \in 1..Len(pending') : i + 1 \in 1..Len(pending) /\ pending'[i] = pending[i + 1]
    BY <1>0, <2>1
  <2> QED BY <2>1, <2>2 DEF ClearInv, Fresh
<1>6. ASSUME NEW c \in Consumer, Dequeue(c) PROVE ClearInv'
  <2>1. queue # <<>> /\ queue' = Tail(queue) /\ UNCHANGED <<pending, next, clear>>
        /\ hand' = [hand EXCEPT ![c] = <<Head(queue)>>]
    BY <1>6 DEF Dequeue
  <2>2. \A i \in 1..Len(queue') : i + 1 \in 1..Len(queue) /\ queue'[i] = queue[i + 1]
    BY <1>0, <2>1
  <2>3. 1 \in 1..Len(queue) /\ Head(queue) = queue[1]
    BY <1>0, <2>1
  <2>4. Fresh(Head(queue))
    BY <2>3 DEF ClearInv
  <2>5. \A d \in Consumer : hand'[d] # None => Fresh(hand'[d][1])
    <3> SUFFICES ASSUME NEW d \in Consumer, hand'[d] # None PROVE Fresh(hand'[d][1])
      OBVIOUS
    <3>1. CASE d = c
      BY <2>1, <2>4, <3>1 DEF TypeInv, TypeOK
    <3>2. CASE d # c
      BY <2>1, <3>2 DEF ClearInv, TypeInv, TypeOK
    <3> QED BY <3>1, <3>2
  <2> QED BY <2>1, <2>2, <2>5 DEF ClearInv, Fresh
<1>7. ASSUME NEW c \in Consumer, ExtendPending(c) \/ ReturnBatch(c) PROVE ClearInv'
  <2>0. pc[c] \in {"extend", "return"}
    BY <1>7 DEF ExtendPending, ReturnBatch, Goto
  <2>1. PICK p \in Packet : /\ hand[c] = <<p>> /\ hand[c][1] = p
                            /\ SamplesOf(hand[c]) = [b \in 1..PerPacket |-> <<p, b>>]
                            /\ SamplesOf(hand[c]) \in Seq(Sample)
                            /\ Len(SamplesOf(hand[c])) = PerPacket
                            /\ SamplesOf(hand[c]) # <<>>
    BY <2>0, InHand
  <2>2. Fresh(p)
    BY <2>1 DEF ClearInv, None
  <2>3. UNCHANGED <<queue, next, clear>> /\ hand' = [hand EXCEPT ![c] = None]
    BY <1>7 DEF ExtendPending, ReturnBatch
  <2>4. \A d \in Consumer : hand'[d] # None => hand'[d] = hand[d]
    BY <2>3 DEF TypeInv, TypeOK
  <2>5. clear.done => \A i \in 1..Len(pending') : Fresh(pending'[i][1])
    <3> DEFINE s == SamplesOf(hand[c])
    <3>1. CASE pending' = pending
      BY <3>1 DEF ClearInv
    <3>2. CASE pending' = pending \o Tail(s)
      <4>1. \A i \in 1..Len(Tail(s)) : Tail(s)[i][1] = p
        <5>1. \A i \in 1..Len(Tail(s)) : i + 1 \in 1..PerPacket /\ Tail(s)[i] = s[i + 1]
          <6>1. s \in Seq(Sample) /\ s # <<>> /\ Len(s) = PerPacket
            BY <2>1
          <6> HIDE DEF s
          <6> QED BY <6>1, BufferAssumption
        <5>2. \A i \in 1..PerPacket : s[i] = <<p, i>>
          BY <2>1
        <5> QED BY <5>1, <5>2
      <4>2. Tail(s) \in Seq(Sample)
        BY <2>1, HeadTailProperties
      <4> HIDE DEF s
      <4>3. \A i \in 1..Len(pending') :
              \/ i \in 1..Len(pending) /\ pending'[i] = pending[i]
              \/ i - Len(pending) \in 1..Len(Tail(s)) /\ pending'[i] = Tail(s)[i - Len(pending)]
        BY <1>0, <3>2, <4>2
      <4> QED BY <2>2, <4>1, <4>3 DEF ClearInv
    <3> QED BY <1>7, <3>1, <3>2 DEF ExtendPending, ReturnBatch
  <2> QED BY <2>3, <2>4, <2>5 DEF ClearInv, Fresh
<1>8. CASE UNCHANGED vars
  BY <1>8 DEF vars, ClearInv, Fresh
<1> QED BY <1>1, <1>2, <1>3, <1>4, <1>5, <1>6, <1>7, <1>8 DEF Next

\* What clear() discards stays discarded.
THEOREM ClearCorrect == Spec => []ClearTakesEffect
<1>1. Init => ClearInv
  BY DEF Init, ClearInv, Fresh, None
<1>2. TypeInv /\ ClearInv => ClearTakesEffect
  BY DEF ClearInv, ClearTakesEffect, Fresh, Holding, TypeInv, TypeOK
<1> QED BY <1>1, <1>2, TypeAlways, ClearStep, PTL DEF Spec

-----------------------------------------------------------------------------
(* The order of the samples of a packet *)

PacketsOf(s) == {s[i][1] : i \in 1..Len(s)}
Elements(q) == {q[i] : i \in 1..Len(q)}
InHands == {hand[c][1] : c \in Holding}

InOrder(s) ==
  \A i, j \in 1..Len(s) : i < j /\ s[i][1] = s[j][1] => s[i][2] < s[j][2]

\* What s holds of a packet comes before what t holds of it.
Before(s, t) ==
  \A i \in 1..Len(s), j \in 1..Len(t) : s[i][1] = t[j][1] => s[i][2] < t[j][2]

\* A packet is in the queue, in one hand, or taken apart, and only one of these;
\* what is taken out of it precedes what is pending of it.
OrderInv ==
  /\ \A i, j \in 1..Len(queue) : i < j => queue[i] < queue[j]
  /\ \A c, d \in Holding : hand[c] = hand[d] => c = d
  /\ Elements(queue) \cup InHands \cup PacketsOf(pending) \cup PacketsOf(delivered) \subseteq 1..(next - 1)
  /\ Elements(queue) \cap InHands = {}
  /\ (Elements(queue) \cup InHands) \cap (PacketsOf(pending) \cup PacketsOf(delivered)) = {}
  /\ InOrder(delivered) /\ InOrder(pending) /\ Before(delivered, pending)

\* Where the elements of a concatenation come from.
LEMMA ConcatAt ==
  ASSUME NEW s \in Seq(Sample), NEW t \in Seq(Sample), NEW i \in 1..Len(s \o t)
  PROVE  \/ i \in 1..Len(s) /\ (s \o t)[i] = s[i]
         \/ i > Len(s) /\ i - Len(s) \in 1..Len(t) /\ (s \o t)[i] = t[i - Len(s)]
OBVIOUS

LEMMA PacketsConcat ==
  ASSUME NEW s \in Seq(Sample), NEW t \in Seq(Sample)
  PROVE  PacketsOf(s \o t) \subseteq PacketsOf(s) \cup PacketsOf(t)
<1> SUFFICES ASSUME NEW i \in 1..Len(s \o t)
             PROVE  (s \o t)[i][1] \in PacketsOf(s) \cup PacketsOf(t)
  BY DEF PacketsOf
<1> QED BY ConcatAt DEF PacketsOf

LEMMA OrderConcat ==
  ASSUME NEW s \in Seq(Sample), NEW t \in Seq(Sample), InOrder(s), InOrder(t), Before(s, t)
  PROVE  InOrder(s \o t)
<1> SUFFICES ASSUME NEW i \in 1..Len(s \o t), NEW j \in 1..Len(s \o t), i < j,
                    (s \o t)[i][1] = (s \o t)[j][1]
             PROVE  (s \o t)[i][2] < (s \o t)[j][2]
  BY DEF InOrder
<1>1. CASE j \in 1..Len(s) /\ (s \o t)[j] = s[j]
  <2>1. i \in 1..Len(s) /\ (s \o t)[i] = s[i]
    BY <1>1, ConcatAt
  <2> QED BY <1>1, <2>1 DEF InOrder
<1>2. CASE j > Len(s) /\ j - Len(s) \in 1..Len(t) /\ (s \o t)[j] = t[j - Len(s)]
  <2>1. CASE i \in 1..Len(s) /\ (s \o t)[i] = s[i]
    BY <1>2, <2>1 DEF Before
  <2>2. CASE i > Len(s) /\ i - Len(s) \in 1..Len(t) /\ (s \o t)[i] = t[i - Len(s)]
    <3>1. i - Len(s) < j - Len(s)
      BY LenProperties
    <3> QED BY <1>2, <2>2, <3>1 DEF InOrder
  <2> QED BY <2>1, <2>2, ConcatAt
<1> QED BY <1>1, <1>2, ConcatAt

LEMMA BeforeConcat ==
  ASSUME NEW s \in Seq(Sample), NEW t \in Seq(Sample), NEW u \in Seq(Sample)
  PROVE  /\ Before(s, u) /\ Before(t, u) => Before(s \o t, u)
         /\ Before(u, s) /\ Before(u, t) => Before(u, s \o t)
<1>1. ASSUME Before(s, u), Before(t, u) PROVE Before(s \o t, u)
  <2> SUFFICES ASSUME NEW i \in 1..Len(s \o t), NEW j \in 1..Len(u), (s \o t)[i][1] = u[j][1]
               PROVE  (s \o t)[i][2] < u[j][2]
    BY DEF Before
  <2>1. CASE i \in 1..Len(s) /\ (s \o t)[i] = s[i]
    BY <1>1, <2>1 DEF Before
  <2>2. CASE i - Len(s) \in 1..Len(t) /\ (s \o t)[i] = t[i - Len(s)]
    BY <1>1, <2>2 DEF Before
  <2> QED BY <2>1, <2>2, ConcatAt
<1>2. ASSUME Before(u, s), Before(u, t) PROVE Before(u, s \o t)
  <2> SUFFICES ASSUME NEW j \in 1..Len(s \o t), NEW i \in 1..Len(u), u[i][1] = (s \o t)[j][1]
               PROVE  u[i][2] < (s \o t)[j][2]
    BY DEF Before
  <2>1. CASE j \in 1..Len(s) /\ (s \o t)[j] = s[j]
    BY <1>2, <2>1 DEF Before
  <2>2. CASE j - Len(s) \in 1..Len(t) /\ (s \o t)[j] = t[j - Len(s)]
    BY <1>2, <2>2 DEF Before
  <2> QED BY <2>1, <2>2, ConcatAt
<1> QED BY <1>1, <1>2

LEMMA Apart ==
  ASSUME NEW s, NEW t, PacketsOf(s) \cap PacketsOf(t) = {}
  PROVE  Before(s, t)
BY DEF PacketsOf, Before

\* A sequence in order, split after its first element.
LEMMA Split ==
  ASSUME NEW s \in Seq(Sample), s # <<>>
  PROVE  /\ Tail(s) \in Seq(Sample) /\ <<Head(s)>> \in Seq(Sample)
         /\ PacketsOf(Tail(s)) \subseteq PacketsOf(s)
         /\ PacketsOf(<<Head(s)>>) \subseteq PacketsOf(s)
         /\ InOrder(<<Head(s)>>)
         /\ InOrder(s) => InOrder(Tail(s)) /\ Before(<<Head(s)>>, Tail(s))
         /\ \A t \in Seq(Sample) : Before(t, s) => Before(t, <<Head(s)>>) /\ Before(t, Tail(s))
<1>1. /\ Tail(s) \in Seq(Sample) /\ <<Head(s)>> \in Seq(Sample)
      /\ Len(<<Head(s)>>) = 1 /\ <<Head(s)>>[1] = s[1] /\ 1 \in 1..Len(s)
  OBVIOUS
<1>2. \A i \in 1..Len(Tail(s)) : i + 1 \in 1..Len(s) /\ 1 < i + 1 /\ Tail(s)[i] = s[i + 1]
  OBVIOUS
<1> DEFINE h == <<Head(s)>>
           r == Tail(s)
<1>3. Len(h) = 1 /\ h[1] = s[1] /\ 1 \in 1..Len(s)
  BY <1>1
<1>4. \A i \in 1..Len(r) : i + 1 \in 1..Len(s) /\ 1 < i + 1 /\ r[i] = s[i + 1]
  BY <1>2
<1> HIDE DEF h, r
<1>5. PacketsOf(r) \subseteq PacketsOf(s) /\ PacketsOf(h) \subseteq PacketsOf(s)
  BY <1>3, <1>4 DEF PacketsOf
<1>6. InOrder(h)
  BY <1>3 DEF InOrder
<1>7. ASSUME InOrder(s) PROVE InOrder(r) /\ Before(h, r)
  <2>1. InOrder(r)
    <3> SUFFICES ASSUME NEW i \in 1..Len(r), NEW j \in 1..Len(r), i < j, r[i][1] = r[j][1]
                 PROVE  r[i][2] < r[j][2]
      BY DEF InOrder
    <3>1. i + 1 < j + 1
      OBVIOUS
    <3> QED BY <1>4, <1>7, <3>1 DEF InOrder
  <2>2. Before(h, r)
    BY <1>3, <1>4, <1>7 DEF InOrder, Before
  <2> QED BY <2>1, <2>2
<1>8. ASSUME NEW t \in Seq(Sample), Before(t, s) PROVE Before(t, h) /\ Before(t, r)
  <2>1. Before(t, h)
    BY <1>3, <1>8 DEF Before
  <2>2. Before(t, r)
    <3> SUFFICES ASSUME NEW i \in 1..Len(t), NEW j \in 1..Len(r), t[i][1] = r[j][1]
                 PROVE  t[i][2] < r[j][2]
      BY DEF Before
    <3> QED BY <1>4, <1>8 DEF Before
  <2> QED BY <2>1, <2>2
<1> QED BY <1>1, <1>5, <1>6, <1>7, <1>8 DEF h, r

LEMMA OrderOfPacket ==
  ASSUME NEW p \in Packet
  PROVE  PacketsOf(SamplesOf(<<p>>)) = {p} /\ InOrder(SamplesOf(<<p>>))
<1> DEFINE s == SamplesOf(<<p>>)
<1>1. Len(s) = PerPacket /\ \A b \in 1..PerPacket : s[b] = <<p, b>>
  BY OnePacket
<1>2. PerPacket \in Nat \ {0}
  BY BufferAssumption
<1> HIDE DEF s
<1>3. PacketsOf(s) = {p} /\ InOrder(s)
  BY <1>1, <1>2 DEF PacketsOf, InOrder
<1> QED BY <1>3 DEF s

\* A packet that joins the queue, and one that leaves it.
LEMMA QueueEnds ==
  ASSUME NEW q \in Seq(Packet), NEW p \in Packet
  PROVE  /\ Elements(Append(q, p)) = Elements(q) \cup {p}
         /\ \A i \in 1..Len(Append(q, p)) :
              \/ i \in 1..Len(q) /\ Append(q, p)[i] = q[i]
              \/ i = Len(q) + 1 /\ Append(q, p)[i] = p
         /\ q # <<>> => /\ Head(q) \in Elements(q) /\ Elements(Tail(q)) \subseteq Elements(q)
                        /\ Head(q) = q[1] /\ 1 \in 1..Len(q)
                        /\ \A i \in 1..Len(Tail(q)) :
                             i + 1 \in 1..Len(q) /\ 1 < i + 1 /\ Tail(q)[i] = q[i + 1]
<1>1. \A i \in 1..Len(Append(q, p)) :
        \/ i \in 1..Len(q) /\ Append(q, p)[i] = q[i]
        \/ i = Len(q) + 1 /\ Append(q, p)[i] = p
  OBVIOUS
<1>2. /\ Len(q) + 1 \in 1..Len(Append(q, p)) /\ Append(q, p)[Len(q) + 1] = p
      /\ \A i \in 1..Len(q) : i \in 1..Len(Append(q, p)) /\ Append(q, p)[i] = q[i]
  OBVIOUS
<1>3. Elements(Append(q, p)) = Elements(q) \cup {p}
  BY <1>1, <1>2 DEF Elements
<1>4. ASSUME q # <<>>
      PROVE  /\ Head(q) = q[1] /\ 1 \in 1..Len(q)
             /\ \A i \in 1..Len(Tail(q)) :
                  i + 1 \in 1..Len(q) /\ 1 < i + 1 /\ Tail(q)[i] = q[i + 1]
  BY <1>4
<1>5. q # <<>> => Head(q) \in Elements(q) /\ Elements(Tail(q)) \subseteq Elements(q)
  BY <1>4 DEF Elements
<1> QED BY <1>1, <1>3, <1>4, <1>5

LEMMA OrderStep == TypeInv /\ TypeInv' /\ OrderInv /\ [Next]_vars => OrderInv'
<1> SUFFICES ASSUME TypeInv, TypeInv', OrderInv, [Next]_vars PROVE OrderInv'
  OBVIOUS
<1>0. /\ next \in Nat /\ queue \in Seq(Packet) /\ pending \in Seq(Sample) /\ delivered \in Seq(Sample)
      /\ hand \in [Consumer -> {None} \cup {<<p>> : p \in Packet}]
  BY DEF TypeInv, TypeOK, Packet
\* A step that changes neither the queue nor a hand is one on the two sequences.
<1>a. ASSUME UNCHANGED <<queue, hand, next>>,
             PacketsOf(pending') \cup PacketsOf(delivered') \subseteq PacketsOf(pending) \cup PacketsOf(delivered),
             InOrder(delivered'), InOrder(pending'), Before(delivered', pending')
      PROVE  OrderInv'
  <2>1. InHands' = InHands /\ Holding' = Holding /\ Elements(queue') = Elements(queue)
    BY <1>a DEF InHands, Holding
  <2>2. /\ \A i, j \in 1..Len(queue') : i < j => queue'[i] < queue'[j]
        /\ \A c, d \in Holding' : hand'[c] = hand'[d] => c = d
    BY <1>a, <2>1 DEF OrderInv
  <2>3. next' = next
    BY <1>a
  <2> QED BY <1>a, <2>1, <2>2, <2>3 DEF OrderInv
<1>1. CASE Put
  <2>1. next \in Packet /\ next' = next + 1 /\ UNCHANGED <<hand, pending, delivered>>
    BY <1>1 DEF Put, TypeInv, TypeOK, Packet
  <2>2. next \notin 1..(next - 1) /\ 1..(next' - 1) = 1..(next - 1) \cup {next}
    BY <1>0, <2>1 DEF Packet
  <2>3. InHands' = InHands /\ Holding' = Holding /\ PacketsOf(pending') = PacketsOf(pending)
        /\ PacketsOf(delivered') = PacketsOf(delivered)
    BY <2>1 DEF InHands, Holding
  <2>4. /\ \A i, j \in 1..Len(queue') : i < j => queue'[i] < queue'[j]
        /\ Elements(queue') \subseteq Elements(queue) \cup {next}
    <3>1. CASE queue' = queue
      BY <3>1 DEF OrderInv
    <3>2. CASE queue' = Append(queue, next)
      <4>1. \A i \in 1..Len(queue) : queue[i] < next
        <5>1. \A i \in 1..Len(queue) : queue[i] \in 1..(next - 1)
          BY DEF OrderInv, Elements
        <5> QED BY <1>0, <5>1
      <4>2. Elements(queue') = Elements(queue) \cup {next}
        BY <1>0, <2>1, <3>2, QueueEnds
      <4>3. \A i \in 1..Len(queue') : \/ i \in 1..Len(queue) /\ queue'[i] = queue[i]
                                      \/ i = Len(queue) + 1 /\ queue'[i] = next
        BY <1>0, <2>1, <3>2, QueueEnds
      <4>4. Len(queue) \in Nat /\ Len(queue') = Len(queue) + 1
        BY <1>0, <3>2, <2>1
      <4>5. ASSUME NEW i \in 1..Len(queue'), NEW j \in 1..Len(queue'), i < j
            PROVE  queue'[i] < queue'[j]
        <5>1. i \in 1..Len(queue) /\ queue'[i] = queue[i]
          BY <4>3, <4>4, <4>5
        <5>2. CASE j \in 1..Len(queue) /\ queue'[j] = queue[j]
          BY <5>1, <5>2, <4>5 DEF OrderInv
        <5>3. CASE queue'[j] = next
          BY <5>1, <5>3, <4>1
        <5> QED BY <4>3, <5>2, <5>3
      <4> QED BY <4>2, <4>5
    <3> QED BY <1>1, <3>1, <3>2 DEF Put
  <2>5. hand' = hand
    BY <2>1
  <2>6. InOrder(delivered') /\ InOrder(pending') /\ Before(delivered', pending')
    BY <2>1 DEF OrderInv
  <2>7. \A c, d \in Holding' : hand'[c] = hand'[d] => c = d
    BY <2>3, <2>5 DEF OrderInv
  <2>8. /\ Elements(queue') \cup InHands' \cup PacketsOf(pending') \cup PacketsOf(delivered') \subseteq 1..(next' - 1)
        /\ Elements(queue') \cap InHands' = {}
        /\ (Elements(queue') \cup InHands') \cap (PacketsOf(pending') \cup PacketsOf(delivered')) = {}
    <3>1. /\ Elements(queue) \cup InHands \cup PacketsOf(pending) \cup PacketsOf(delivered) \subseteq 1..(next - 1)
          /\ Elements(queue) \cap InHands = {}
          /\ (Elements(queue) \cup InHands) \cap (PacketsOf(pending) \cup PacketsOf(delivered)) = {}
      BY DEF OrderInv
    <3> DEFINE below == 1..(next - 1)
               Q == Elements(queue)
               P == PacketsOf(pending)
               D == PacketsOf(delivered)
    <3>2. Q \cup InHands \cup P \cup D \subseteq below /\ Q \cap InHands = {} /\ (Q \cup InHands) \cap (P \cup D) = {}
      BY <3>1
    <3>3. next \notin below /\ 1..(next' - 1) = below \cup {next}
      BY <2>2
    <3>4. Elements(queue') \subseteq Q \cup {next} /\ PacketsOf(pending') = P /\ PacketsOf(delivered') = D
      BY <2>3, <2>4
    <3> HIDE DEF below, Q, P, D
    <3> QED BY <2>3, <3>2, <3>3, <3>4
  <2> QED BY <2>4, <2>6, <2>7, <2>8 DEF OrderInv
<1>2. CASE ClearQueue
  <2>1. queue' = <<>> /\ UNCHANGED <<hand, next, pending, delivered>>
    BY <1>2 DEF ClearQueue
  <2>2. Elements(queue') = {} /\ InHands' = InHands /\ Holding' = Holding
    BY <2>1 DEF Elements, InHands, Holding
  <2>3. \A i, j \in 1..Len(queue') : i < j => queue'[i] < queue'[j]
    BY <2>1
  <2> QED BY <2>1, <2>2, <2>3 DEF OrderInv
<1>3. CASE ClearPending
  <2>1. pending' = <<>> /\ UNCHANGED <<queue, hand, next, delivered>>
    BY <1>3 DEF ClearPending
  <2>2. PacketsOf(pending') = {} /\ InOrder(pending') /\ Before(delivered', pending')
    BY <2>1 DEF PacketsOf, InOrder, Before
  <2>3. PacketsOf(delivered') = PacketsOf(delivered) /\ InOrder(delivered')
    BY <2>1 DEF OrderInv
  <2> QED BY <1>a, <2>1, <2>2, <2>3
<1>4. ASSUME NEW c \in Consumer, StartGet(c) \/ StartBatch(c) \/ PopRaises(c) \/ GiveUp(c)
      PROVE  OrderInv'
  <2>1. UNCHANGED <<queue, hand, next, pending, delivered>>
    BY <1>4 DEF StartGet, StartBatch, PopRaises, GiveUp
  <2> QED BY <1>a, <2>1 DEF OrderInv
<1>5. ASSUME NEW c \in Consumer, PopPending(c) PROVE OrderInv'
  <2>1. UNCHANGED <<queue, hand, next>> /\ pending # <<>>
        /\ pending' = Tail(pending) /\ delivered' = Append(delivered, Head(pending))
    BY <1>5 DEF PopPending
  <2> DEFINE h == <<Head(pending)>>
             r == Tail(pending)
  <2>2. delivered' = delivered \o h
    <3>1. Head(pending) \in Sample /\ delivered \in Seq(Sample)
      BY <1>0, <2>1
    <3> QED BY <2>1, <3>1
  <2>3. /\ r \in Seq(Sample) /\ h \in Seq(Sample)
        /\ PacketsOf(r) \subseteq PacketsOf(pending) /\ PacketsOf(h) \subseteq PacketsOf(pending)
        /\ InOrder(h) /\ InOrder(r) /\ Before(h, r)
        /\ Before(delivered, h) /\ Before(delivered, r)
    BY <1>0, <2>1, Split DEF OrderInv
  <2>4. pending' = r
    BY <2>1
  <2> HIDE DEF h, r
  <2>5. InOrder(delivered') /\ InOrder(pending') /\ Before(delivered', pending')
    BY <1>0, <2>2, <2>3, <2>4, OrderConcat, BeforeConcat DEF OrderInv
  <2>6. PacketsOf(delivered') \subseteq PacketsOf(delivered) \cup PacketsOf(h)
    BY <1>0, <2>2, <2>3, PacketsConcat
  <2> QED BY <1>a, <2>1, <2>3, <2>4, <2>5, <2>6
<1>6. ASSUME NEW c \in Consumer, Dequeue(c) PROVE OrderInv'
  <2>1. queue # <<>> /\ queue' = Tail(queue) /\ UNCHANGED <<pending, next, delivered>>
        /\ hand' = [hand EXCEPT ![c] = <<Head(queue)>>] /\ hand[c] = None
    BY <1>6 DEF Dequeue, Goto, TypeInv, HandFits
  <2> DEFINE p == Head(queue)
  <2>2. /\ p \in Elements(queue) /\ Elements(queue') \subseteq Elements(queue)
        /\ p = queue[1] /\ 1 \in 1..Len(queue)
        /\ \A i \in 1..Len(queue') : i + 1 \in 1..Len(queue) /\ 1 < i + 1 /\ queue'[i] = queue[i + 1]
    <3>1. p \in Packet
      BY <1>0, <2>1, HeadTailProperties
    <3> QED BY <1>0, <2>1, <3>1, QueueEnds
  <2>3. hand'[c] = <<p>> /\ \A d \in Consumer : d # c => hand'[d] = hand[d]
    BY <1>0, <2>1
  <2> HIDE DEF p
  <2>4. p \notin Elements(queue')
    <3> SUFFICES ASSUME NEW i \in 1..Len(queue'), queue'[i] = p PROVE FALSE
      BY DEF Elements
    <3>1. p < queue[i + 1]
      BY <2>2 DEF OrderInv
    <3>2. p \in Packet
      BY <1>0, <2>2, ElementOfSeq
    <3>3. p \in Nat
      BY <3>2 DEF Packet
    <3> QED BY <2>2, <3>1, <3>3
  <2>5. \A i, j \in 1..Len(queue') : i < j => queue'[i] < queue'[j]
    <3> SUFFICES ASSUME NEW i \in 1..Len(queue'), NEW j \in 1..Len(queue'), i < j
                 PROVE  queue'[i] < queue'[j]
      OBVIOUS
    <3>1. i + 1 < j + 1
      OBVIOUS
    <3> QED BY <2>2, <3>1 DEF OrderInv
  <2>6. Holding' = Holding \cup {c} /\ c \notin Holding
    <3>1. <<p>> # None
      BY DEF None
    <3>2. c \notin Holding
      BY <2>1 DEF Holding
    <3>3. \A d \in Consumer : d \in Holding' <=> d \in Holding \/ d = c
      BY <2>3, <3>1 DEF Holding
    <3>4. Holding \subseteq Consumer /\ Holding' \subseteq Consumer
      BY DEF Holding
    <3> QED BY <3>2, <3>3, <3>4
  <2>7. InHands' = InHands \cup {p}
    <3>1. \A d \in Holding : d # c /\ hand'[d] = hand[d]
      BY <2>3, <2>6 DEF Holding
    <3>2. <<p>>[1] = p
      OBVIOUS
    <3> QED BY <2>3, <2>6, <3>1, <3>2 DEF InHands
  <2>8. \A d, e \in Holding' : hand'[d] = hand'[e] => d = e
    <3>1. \A d \in Holding : hand[d] # <<p>>
      <4> SUFFICES ASSUME NEW d \in Holding, hand[d] = <<p>> PROVE FALSE
        OBVIOUS
      <4>1. p \in InHands
        BY DEF InHands
      <4> QED BY <2>2, <4>1 DEF OrderInv
    <3>2. \A d \in Holding : d # c /\ hand'[d] = hand[d]
      BY <2>3, <2>6 DEF Holding
    <3> QED BY <2>3, <2>6, <3>1, <3>2 DEF OrderInv
  <2> QED BY <2>1, <2>2, <2>4, <2>5, <2>7, <2>8 DEF OrderInv
<1>7. ASSUME NEW c \in Consumer, ExtendPending(c) \/ ReturnBatch(c) PROVE OrderInv'
  <2>0. pc[c] \in {"extend", "return"}
    BY <1>7 DEF ExtendPending, ReturnBatch, Goto
  <2>1. PICK p \in Packet : /\ hand[c] = <<p>> /\ hand[c][1] = p
                            /\ SamplesOf(hand[c]) \in Seq(Sample)
                            /\ SamplesOf(hand[c]) # <<>>
    BY <2>0, InHand
  <2> DEFINE s == SamplesOf(hand[c])
             h == <<Head(s)>>
             r == Tail(s)
  <2>2. UNCHANGED <<queue, next>> /\ hand' = [hand EXCEPT ![c] = None]
    BY <1>7 DEF ExtendPending, ReturnBatch
  <2>3. Holding' = Holding \ {c} /\ c \in Holding
    <3>1. <<p>> # None
      BY DEF None
    <3>2. c \in Holding
      BY <2>1, <3>1 DEF Holding
    <3>3. hand'[c] = None /\ \A d \in Consumer : d # c => hand'[d] = hand[d]
      BY <1>0, <2>2
    <3>4. Holding \subseteq Consumer /\ Holding' \subseteq Consumer
      BY DEF Holding
    <3>5. \A d \in Consumer : d \in Holding' <=> d \in Holding /\ d # c
      BY <3>3 DEF Holding
    <3> QED BY <3>2, <3>4, <3>5
  <2>4. \A d \in Holding' : hand'[d] = hand[d]
    BY <1>0, <2>2, <2>3 DEF Holding
  <2>5. InHands' \subseteq InHands /\ p \in InHands /\ p \notin InHands'
    <3>1. p \in InHands
      BY <2>1, <2>3 DEF InHands
    <3>2. InHands' \subseteq InHands
      BY <2>3, <2>4 DEF InHands
    <3>3. p \notin InHands'
      <4> SUFFICES ASSUME p \in InHands' PROVE FALSE
        OBVIOUS
      <4>1. PICK d \in Holding' : hand'[d][1] = p
        BY DEF InHands
      <4>2. d # c /\ d \in Holding /\ hand[d][1] = p
        BY <2>3, <2>4, <4>1
      <4>3. hand[d] = <<p>>
        BY <1>0, <4>2 DEF Holding
      <4> QED BY <2>1, <2>3, <4>2, <4>3 DEF OrderInv
    <3> QED BY <3>1, <3>2, <3>3
  <2>6. PacketsOf(s) = {p} /\ InOrder(s) /\ s \in Seq(Sample) /\ s # <<>>
    BY <2>1, OrderOfPacket
  <2>7. /\ r \in Seq(Sample) /\ h \in Seq(Sample)
        /\ PacketsOf(r) \subseteq {p} /\ PacketsOf(h) \subseteq {p}
        /\ InOrder(h) /\ InOrder(r) /\ Before(h, r)
    <3> HIDE DEF s
    <3> QED BY <2>6, Split
  <2>8. p \notin PacketsOf(pending) /\ p \notin PacketsOf(delivered)
    BY <2>5 DEF OrderInv
  <2>9. \A t \in {s, h, r} : /\ t \in Seq(Sample) /\ PacketsOf(t) \subseteq {p}
                             /\ InOrder(t)
                             /\ Before(t, pending) /\ Before(t, delivered)
                             /\ Before(pending, t) /\ Before(delivered, t)
    <3> HIDE DEF s, h, r
    <3>1. ASSUME NEW t \in {s, h, r}
          PROVE  t \in Seq(Sample) /\ PacketsOf(t) \subseteq {p} /\ InOrder(t)
      BY <2>6, <2>7
    <3> QED BY <2>8, <3>1, Apart
  <2>10. /\ PacketsOf(pending') \cup PacketsOf(delivered')
              \subseteq PacketsOf(pending) \cup PacketsOf(delivered) \cup {p}
         /\ InOrder(delivered') /\ InOrder(pending') /\ Before(delivered', pending')
    <3>0. InOrder(delivered) /\ InOrder(pending) /\ Before(delivered, pending)
      BY DEF OrderInv
    <3>1. CASE pending' = pending \o r /\ delivered' = Append(delivered, Head(s))
      <4>1. delivered' = delivered \o h
        <5>1. s \in Seq(Sample) /\ s # <<>>
          BY <2>6
        <5> HIDE DEF s
        <5>2. Head(s) \in Sample /\ delivered \in Seq(Sample)
          BY <1>0, <5>1
        <5>3. delivered' = Append(delivered, Head(s))
          BY <3>1
        <5> DEFINE e == Head(s)
        <5> HIDE DEF e
        <5>4. Append(delivered, e) = delivered \o <<e>>
          BY <5>2 DEF e
        <5> QED BY <5>3, <5>4 DEF e
      <4> HIDE DEF s, h, r
      <4>2. /\ PacketsOf(delivered') \subseteq PacketsOf(delivered) \cup PacketsOf(h)
            /\ PacketsOf(pending') \subseteq PacketsOf(pending) \cup PacketsOf(r)
        BY <1>0, <2>7, <3>1, <4>1, PacketsConcat
      <4>3. InOrder(delivered') /\ InOrder(pending')
        BY <1>0, <2>9, <3>0, <3>1, <4>1, OrderConcat
      <4>4. Before(delivered, pending') /\ Before(h, pending')
        BY <1>0, <2>7, <2>9, <3>0, <3>1, BeforeConcat
      <4>5. pending' \in Seq(Sample)
        BY DEF TypeInv, TypeOK
      <4>6. Before(delivered', pending')
        BY <1>0, <2>7, <4>1, <4>4, <4>5, BeforeConcat
      <4> QED BY <2>7, <4>2, <4>3, <4>6
    <3>2. CASE pending' = pending /\ delivered' = delivered \o s
      <4> HIDE DEF s, h, r
      <4>1. PacketsOf(delivered') \subseteq PacketsOf(delivered) \cup PacketsOf(s)
        BY <1>0, <2>6, <3>2, PacketsConcat
      <4>2. InOrder(delivered') /\ Before(delivered', pending')
        BY <1>0, <2>9, <3>0, <3>2, OrderConcat, BeforeConcat
      <4> QED BY <2>6, <3>0, <3>2, <4>1, <4>2
    <3> QED BY <1>7, <3>1, <3>2 DEF ExtendPending, ReturnBatch
  <2>11. \A d, e \in Holding' : hand'[d] = hand'[e] => d = e
    BY <2>3, <2>4 DEF OrderInv
  <2>12. /\ Elements(queue') = Elements(queue) /\ next' = next
         /\ \A i, j \in 1..Len(queue') : i < j => queue'[i] < queue'[j]
    BY <2>2 DEF OrderInv
  <2>13. p \notin Elements(queue)
    BY <2>5 DEF OrderInv
  <2> HIDE DEF s, h, r
  <2>14. /\ Elements(queue') \cup InHands' \cup PacketsOf(pending') \cup PacketsOf(delivered') \subseteq 1..(next' - 1)
         /\ Elements(queue') \cap InHands' = {}
         /\ (Elements(queue') \cup InHands') \cap (PacketsOf(pending') \cup PacketsOf(delivered')) = {}
    BY <2>5, <2>10, <2>12, <2>13 DEF OrderInv
  <2> QED BY <2>10, <2>11, <2>12, <2>14 DEF OrderInv
<1>8. CASE UNCHANGED vars
  <2>1. UNCHANGED <<queue, hand, next, pending, delivered>>
    BY <1>8 DEF vars
  <2> QED BY <1>a, <2>1 DEF OrderInv
<1> QED BY <1>1, <1>2, <1>3, <1>4, <1>5, <1>6, <1>7, <1>8 DEF Next

\* The samples of a packet are taken out in their order, and none twice.
THEOREM OrderKept == Spec => []PacketInOrder
<1>1. Init => OrderInv
  <2> SUFFICES ASSUME Init PROVE OrderInv
    OBVIOUS
  <2>1. queue = <<>> /\ pending = <<>> /\ delivered = <<>> /\ Holding = {} /\ next = 1
    BY DEF Init, Holding
  <2>2. Elements(queue) = {} /\ InHands = {} /\ PacketsOf(pending) = {} /\ PacketsOf(delivered) = {}
    BY <2>1 DEF Elements, InHands, PacketsOf
  <2> QED BY <2>1, <2>2 DEF OrderInv, InOrder, Before
<1>2. OrderInv => PacketInOrder
  BY DEF OrderInv, InOrder, PacketInOrder
<1>3. (TypeInv /\ DroppedFits)' => TypeInv'
  OBVIOUS
<1> QED BY <1>1, <1>2, <1>3, TypeAlways, OrderStep, PTL DEF Spec

-----------------------------------------------------------------------------
(* One reader that keeps to one call: a queue of samples *)

Solo(c, m) == usage = [d \in Consumer |-> IF d = c THEN {m} ELSE {}]

\* A reader is only in calls it makes.
UsageInv ==
  \A c \in Consumer :
    /\ pc[c] \in {"pop", "get", "extend"} => "get" \in usage[c]
    /\ pc[c] \in {"getBatch", "return"} => "batch" \in usage[c]

\* A reader of packets leaves nothing pending, and a reader of samples takes a
\* packet from the queue only when nothing is.
SoloInv ==
  \A c \in Consumer :
    Solo(c, "batch") \/ (Solo(c, "get") /\ pc[c] \in {"get", "extend"}) => pending = <<>>

SingleInv == UsageInv /\ SoloInv

LEMMA InitSingle == Init => SingleInv
BY DEF Init, SingleInv, UsageInv, SoloInv

LEMMA UsageStep == TypeInv /\ UsageInv /\ [Next]_vars => UsageInv' /\ usage' = usage
<1> SUFFICES ASSUME TypeInv, UsageInv, [Next]_vars PROVE UsageInv' /\ usage' = usage
  OBVIOUS
<1>0. pc \in [Consumer -> Location]
  BY DEF TypeInv, TypeOK
<1>1. CASE Put \/ ClearQueue \/ ClearPending
  BY <1>1 DEF Put, ClearQueue, ClearPending, UsageInv
<1>2. ASSUME NEW c \in Consumer,
             \/ StartGet(c) \/ PopPending(c) \/ PopRaises(c) \/ StartBatch(c)
             \/ Dequeue(c) \/ GiveUp(c) \/ ExtendPending(c) \/ ReturnBatch(c)
      PROVE  UsageInv' /\ usage' = usage
  <2>1. usage' = usage
    BY <1>2 DEF StartGet, PopPending, PopRaises, StartBatch, Dequeue, GiveUp, ExtendPending, ReturnBatch
  <2>2. \A d \in Consumer : d # c => pc'[d] = pc[d]
    BY <1>0, <1>2 DEF StartGet, PopPending, PopRaises, StartBatch, Dequeue, GiveUp, ExtendPending,
                      ReturnBatch, Calls, Goto
  <2>3. /\ pc'[c] \in {"pop", "get", "extend"} => "get" \in usage[c]
        /\ pc'[c] \in {"getBatch", "return"} => "batch" \in usage[c]
    BY <1>0, <1>2 DEF StartGet, PopPending, PopRaises, StartBatch, Dequeue, GiveUp, ExtendPending,
                      ReturnBatch, Calls, Goto, UsageInv
  <2> QED BY <2>1, <2>2, <2>3 DEF UsageInv
<1>3. CASE UNCHANGED vars
  BY <1>3 DEF vars, UsageInv
<1> QED BY <1>1, <1>2, <1>3 DEF Next

\* With a solo reader nobody else is in a call, and a call of its own is m.
LEMMA OnlyReader ==
  ASSUME TypeInv, UsageInv, NEW c \in Consumer, NEW m \in {"get", "batch"}, Solo(c, m)
  PROVE  /\ \A d \in Consumer : d # c => pc[d] \in {"idle", "raised"} /\ usage[d] = {}
         /\ usage[c] = {m}
         /\ m = "get" => pc[c] \notin {"getBatch", "return"}
         /\ m = "batch" => pc[c] \notin {"pop", "get", "extend"}
         /\ Holding \subseteq {c}
<1>1. usage[c] = {m} /\ \A d \in Consumer : d # c => usage[d] = {}
  BY DEF Solo
<1>2. \A d \in Consumer : pc[d] \in Location
  BY DEF TypeInv, TypeOK
<1>3. \A d \in Consumer : d # c => pc[d] \in {"idle", "raised"}
  BY <1>1, <1>2 DEF UsageInv, Location
<1>4. Holding \subseteq {c}
  BY <1>3 DEF Holding, TypeInv, HandFits
<1> QED BY <1>1, <1>3, <1>4 DEF UsageInv

LEMMA SoloStep == TypeInv /\ UsageInv /\ SoloInv /\ [Next]_vars => SoloInv'
<1> SUFFICES ASSUME TypeInv, UsageInv, SoloInv, [Next]_vars,
                    NEW c \in Consumer,
                    Solo(c, "batch")' \/ (Solo(c, "get")' /\ pc'[c] \in {"get", "extend"})
             PROVE  pending' = <<>>
  BY DEF SoloInv
<1>0. pc \in [Consumer -> Location] /\ usage' = usage
  BY UsageStep DEF TypeInv, TypeOK
<1>1. PICK m \in {"get", "batch"} : Solo(c, m) /\ (m = "get" => pc'[c] \in {"get", "extend"})
  BY <1>0 DEF Solo
<1>2. /\ \A d \in Consumer : d # c => pc[d] \in {"idle", "raised"} /\ usage[d] = {}
      /\ usage[c] = {m}
      /\ m = "get" => pc[c] \notin {"getBatch", "return"}
      /\ m = "batch" => pc[c] \notin {"pop", "get", "extend"}
  BY <1>1, OnlyReader
<1>3. CASE Put \/ ClearQueue \/ ClearPending
  BY <1>1, <1>3 DEF Put, ClearQueue, ClearPending, SoloInv
<1>4. ASSUME NEW d \in Consumer,
             \/ StartGet(d) \/ PopPending(d) \/ PopRaises(d) \/ StartBatch(d)
             \/ Dequeue(d) \/ GiveUp(d) \/ ExtendPending(d) \/ ReturnBatch(d)
      PROVE  pending' = <<>>
  <2>1. d = c
    BY <1>2, <1>4 DEF StartGet, PopPending, PopRaises, StartBatch, Dequeue, GiveUp, ExtendPending,
                      ReturnBatch, Calls, Goto
  <2>2. CASE m = "batch"
    <3>1. pending = <<>>
      BY <1>1, <2>2 DEF SoloInv
    <3>2. StartBatch(c) \/ Dequeue(c) \/ GiveUp(c) \/ ReturnBatch(c)
      BY <1>2, <1>4, <2>1, <2>2 DEF StartGet, PopPending, PopRaises, ExtendPending, Calls, Goto
    <3> QED BY <3>1, <3>2 DEF StartBatch, Dequeue, GiveUp, ReturnBatch
  <2>3. CASE m = "get"
    <3>1. pc'[c] \in {"get", "extend"} /\ Solo(c, "get")
      BY <1>1, <2>3
    <3>2. (StartGet(c) /\ pending = <<>>) \/ (Dequeue(c) /\ pc[c] = "get")
      BY <1>0, <1>2, <1>4, <2>1, <2>3, <3>1
         DEF StartGet, PopPending, PopRaises, StartBatch, Dequeue, GiveUp, ExtendPending,
             ReturnBatch, Calls, Goto
    <3> QED BY <3>1, <3>2 DEF StartGet, Dequeue, SoloInv
  <2> QED BY <2>2, <2>3
<1>5. CASE UNCHANGED vars
  BY <1>1, <1>5 DEF vars, SoloInv
<1> QED BY <1>3, <1>4, <1>5 DEF Next

LEMMA SingleAlways == Spec => []SingleInv
<1>1. TypeInv /\ SingleInv /\ [Next]_vars => SingleInv'
  BY UsageStep, SoloStep DEF SingleInv
<1> QED BY <1>1, InitSingle, TypeAlways, PTL DEF Spec

\* The refinement mapping of Sequential.
HandPackets == [i \in 1..Cardinality(Holding) |-> hand[CHOOSE c \in Holding : TRUE][1]]
Contents == pending \o SamplesOf(HandPackets) \o SamplesOf(queue)

\* A sequence in two parts.
LEMMA Cut ==
  ASSUME NEW s \in Seq(Sample), NEW t \in Seq(Sample)
  PROVE  /\ s \o t \in Seq(Sample) /\ Len(s) \in 0..Len(s \o t) /\ Len(s) <= Len(s \o t)
         /\ SubSeq(s \o t, 1, Len(s)) = s
         /\ SubSeq(s \o t, Len(s) + 1, Len(s \o t)) = t
<1>0. /\ s \o t \in Seq(Sample) /\ Len(s \o t) = Len(s) + Len(t)
      /\ \A i \in 1..Len(s) + Len(t) : (s \o t)[i] = IF i <= Len(s) THEN s[i] ELSE t[i - Len(s)]
      /\ Len(s) \in Nat /\ Len(t) \in Nat
      /\ \A i \in 1..(Len(s) + Len(t)) : (s \o t)[i] \in Sample
  <2>1. s \o t \in Seq(Sample) /\ Len(s \o t) = Len(s) + Len(t)
    BY ConcatProperties
  <2> QED BY <2>1, ConcatProperties, ElementOfSeq, LenProperties
<1> DEFINE w == s \o t
           a == SubSeq(w, 1, Len(s))
           b == SubSeq(w, Len(s) + 1, Len(w))
<1>1. a = s
  <2>1. \A i \in 1..Len(s) : w[i] \in Sample
    BY <1>0
  <2>2. a \in Seq(Sample) /\ Len(a) = Len(s) /\ \A i \in 1..Len(s) : a[i] = w[i]
    <3> HIDE DEF w
    <3>1. /\ a \in Seq(Sample)
          /\ Len(a) = IF 1 <= Len(s) THEN Len(s) - 1 + 1 ELSE 0
          /\ \A i \in 1..(Len(s) - 1 + 1) : a[i] = w[1 + i - 1]
      BY <1>0, <2>1, SubSeqProperties
    <3> HIDE DEF a
    <3> QED BY <1>0, <3>1
  <2>3. \A i \in 1..Len(s) : w[i] = s[i]
    BY <1>0
  <2> HIDE DEF a, w
  <2> QED BY <2>2, <2>3, SeqEqual
<1>2. b = t
  <2>1. \A i \in (Len(s) + 1)..Len(w) : w[i] \in Sample
    BY <1>0
  <2>2. b \in Seq(Sample) /\ Len(b) = Len(t) /\ \A i \in 1..Len(t) : b[i] = w[Len(s) + i]
    <3>0. Len(w) = Len(s) + Len(t)
      BY <1>0
    <3> HIDE DEF w
    <3>1. /\ b \in Seq(Sample)
          /\ Len(b) = IF Len(s) + 1 <= Len(w) THEN Len(w) - (Len(s) + 1) + 1 ELSE 0
          /\ \A i \in 1..(Len(w) - (Len(s) + 1) + 1) : b[i] = w[Len(s) + 1 + i - 1]
      BY <1>0, <2>1, <3>0, SubSeqProperties
    <3> HIDE DEF b
    <3>2. Len(b) = Len(t)
      BY <1>0, <3>0, <3>1
    <3>3. ASSUME NEW i \in 1..Len(t) PROVE b[i] = w[Len(s) + i]
      <4>1. i \in 1..(Len(w) - (Len(s) + 1) + 1) /\ Len(s) + 1 + i - 1 = Len(s) + i
        BY <1>0, <3>0
      <4> QED BY <3>1, <4>1
    <3> QED BY <3>1, <3>2, <3>3
  <2>3. \A i \in 1..Len(t) : w[Len(s) + i] = t[i]
    BY <1>0
  <2> HIDE DEF b, w
  <2> QED BY <2>2, <2>3, SeqEqual
<1> QED BY <1>0, <1>1, <1>2

LEMMA Regroup ==
  ASSUME NEW s \in Seq(Sample), NEW t \in Seq(Sample), NEW u \in Seq(Sample)
  PROVE  (s \o t) \o u = s \o (t \o u) /\ s \o t \in Seq(Sample) /\ t \o u \in Seq(Sample)
BY ConcatAssociative, ConcatProperties

LEMMA HeadFirst ==
  ASSUME NEW s \in Seq(Sample), s # <<>>
  PROVE  /\ <<Head(s)>> \in Seq(Sample) /\ Tail(s) \in Seq(Sample) /\ Head(s) \in Sample
         /\ Len(<<Head(s)>>) = 1 /\ s = <<Head(s)>> \o Tail(s)
         /\ \A t \in Seq(Sample) : Append(t, Head(s)) = t \o <<Head(s)>>
<1>1. /\ <<Head(s)>> \in Seq(Sample) /\ Tail(s) \in Seq(Sample) /\ Head(s) \in Sample
      /\ Len(<<Head(s)>>) = 1
  OBVIOUS
<1>2. s = <<Head(s)>> \o Tail(s)
  OBVIOUS
<1> QED BY <1>1, <1>2, AppendIsConcat

LEMMA EmptySamples == SamplesOf(<<>>) = <<>>
<1>1. <<>> \in Seq(Packet) /\ Len(<<>>) = 0
  OBVIOUS
<1>2. SamplesOf(<<>>) \in Seq(Sample) /\ Len(SamplesOf(<<>>)) = 0
  BY <1>1, SamplesType, Products
<1> QED BY <1>2, EmptySeq

LEMMA ContentsIs ==
  ASSUME TypeInv, NEW c \in Consumer, Holding \subseteq {c}
  PROVE  /\ HandPackets \in Seq(Packet)
         /\ pending \in Seq(Sample) /\ SamplesOf(queue) \in Seq(Sample)
         /\ SamplesOf(HandPackets) \in Seq(Sample)
         /\ Holding = {} => SamplesOf(HandPackets) = <<>>
         /\ hand[c] # None => SamplesOf(HandPackets) = SamplesOf(hand[c])
<1>0. pending \in Seq(Sample) /\ queue \in Seq(Packet)
  BY DEF TypeInv, TypeOK, Packet
<1>1. CASE Holding = {}
  <2>1. Cardinality(Holding) = 0
    BY <1>1, FS_EmptySet
  <2>2. HandPackets = <<>>
    BY <2>1 DEF HandPackets
  <2>3. <<>> \in Seq(Packet) /\ hand[c] = None
    BY <1>1 DEF Holding
  <2> QED BY <1>0, <1>1, <2>2, <2>3, EmptySamples, SamplesType
<1>2. CASE Holding = {c}
  <2>1. Cardinality(Holding) = 1
    BY <1>2, FS_Singleton
  <2>2. (CHOOSE d \in Holding : TRUE) = c
    BY <1>2
  <2>3. PICK p \in Packet : hand[c] = <<p>>
    BY <1>2 DEF Holding, TypeInv, TypeOK, Packet
  <2>4. HandPackets = <<p>>
    <3> DEFINE holder == CHOOSE d \in Holding : TRUE
    <3>1. HandPackets = [i \in 1..Cardinality(Holding) |-> hand[holder][1]]
      BY DEF HandPackets
    <3>2. holder = c /\ hand[c][1] = p
      BY <2>2, <2>3
    <3> HIDE DEF holder
    <3>3. HandPackets = [i \in 1..1 |-> p]
      BY <2>1, <3>1, <3>2
    <3>4. [i \in 1..1 |-> p] = <<p>>
      OBVIOUS
    <3> QED BY <3>3, <3>4
  <2>5. <<p>> \in Seq(Packet)
    OBVIOUS
  <2> QED BY <1>0, <1>2, <2>3, <2>4, <2>5, SamplesType
<1> QED BY <1>1, <1>2

\* The actions of Sequential in the terms of the buffer.
LEMMA ToOffer ==
  ASSUME next <= MaxPackets, next' = next + 1, delivered' = delivered,
         Contents' = Contents \o SamplesOf(<<next>>) \/ Contents' = Contents
  PROVE  Sequential!FifoNext
BY DEF Sequential!FifoNext, Sequential!Offer, Sequential!SamplesOf, Contents, HandPackets, SamplesOf

LEMMA ToTake ==
  ASSUME NEW n \in {1, PerPacket}, n <= Len(Contents), next' = next,
         delivered' = delivered \o SubSeq(Contents, 1, n),
         Contents' = SubSeq(Contents, n + 1, Len(Contents))
  PROVE  Sequential!FifoNext
BY DEF Sequential!FifoNext, Sequential!Take, Contents, HandPackets

LEMMA ToDiscard ==
  ASSUME NEW n \in 0..Len(Contents), next' = next, delivered' = delivered,
         \/ Contents' = SubSeq(Contents, 1, n)
         \/ Contents' = SubSeq(Contents, n + 1, Len(Contents))
  PROVE  Sequential!FifoNext
BY DEF Sequential!FifoNext, Sequential!Discard, Contents, HandPackets

LEMMA ToStutter ==
  ASSUME next' = next, delivered' = delivered, Contents' = Contents
  PROVE  UNCHANGED Sequential!fifoVars
BY DEF Sequential!fifoVars, Contents, HandPackets

\* Each step of a buffer with a solo reader is one of Sequential or none of it.
LEMMA FifoStep ==
  TypeInv /\ TypeInv' /\ SingleInv /\ SingleInv' /\ OneReaderOneCall /\ [Next]_vars
    => [Sequential!FifoNext]_(Sequential!fifoVars)
<1> SUFFICES ASSUME TypeInv, TypeInv', SingleInv, SingleInv', OneReaderOneCall, [Next]_vars
             PROVE  Sequential!FifoNext \/ UNCHANGED Sequential!fifoVars
  OBVIOUS
<1>0. PICK c \in Consumer, m \in {"get", "batch"} : Solo(c, m)
  BY DEF OneReaderOneCall, Solo
<1>1. Solo(c, m)' /\ usage' = usage
  BY <1>0, UsageStep DEF Solo, SingleInv
<1>2. /\ \A d \in Consumer : d # c => pc[d] \in {"idle", "raised"} /\ usage[d] = {}
      /\ usage[c] = {m}
      /\ m = "get" => pc[c] \notin {"getBatch", "return"}
      /\ m = "batch" => pc[c] \notin {"pop", "get", "extend"}
      /\ Holding \subseteq {c}
  BY <1>0, OnlyReader DEF SingleInv
<1>3. Holding' \subseteq {c}
  <2>1. TypeInv' /\ UsageInv' /\ Solo(c, m)'
    BY <1>1 DEF SingleInv
  <2>2. \A d \in Consumer : pc'[d] \in Location
    BY DEF TypeInv, TypeOK
  <2>3. \A d \in Consumer : d # c => usage'[d] = {}
    BY <2>1 DEF Solo
  <2>4. \A d \in Consumer : d # c => pc'[d] \notin {"extend", "return"}
    BY <2>1, <2>3 DEF UsageInv
  <2> QED BY <2>1, <2>4 DEF Holding, TypeInv, HandFits
<1> DEFINE P == pending
           H == SamplesOf(HandPackets)
           Q == SamplesOf(queue)
<1>4. /\ P \in Seq(Sample) /\ H \in Seq(Sample) /\ Q \in Seq(Sample) /\ queue \in Seq(Packet)
      /\ P \o H \in Seq(Sample) /\ H \o Q \in Seq(Sample)
      /\ Contents = (P \o H) \o Q /\ Contents = P \o (H \o Q)
      /\ Contents \in Seq(Sample)
  <2>1. /\ P \in Seq(Sample) /\ H \in Seq(Sample) /\ Q \in Seq(Sample) /\ queue \in Seq(Packet)
        /\ Contents = (P \o H) \o Q
    BY <1>2, ContentsIs DEF Contents, TypeInv, TypeOK, Packet
  <2> HIDE DEF P, H, Q
  <2> QED BY <2>1, ConcatAssociative, ConcatProperties
<1>5. /\ Holding = {} => H = <<>>
      /\ hand[c] # None => H = SamplesOf(hand[c])
      /\ Holding' = {} => H' = <<>>
      /\ hand'[c] # None => H' = SamplesOf(hand'[c])
  <2>1. /\ Holding = {} => H = <<>>
        /\ hand[c] # None => H = SamplesOf(hand[c])
    BY <1>2, ContentsIs
  <2>2. (TypeInv /\ Holding \subseteq {c} =>
           /\ Holding = {} => H = <<>>
           /\ hand[c] # None => H = SamplesOf(hand[c]))'
    BY ContentsIs, PTL
  <2> QED BY <1>3, <2>1, <2>2
<1>6. hand' = hand => HandPackets' = HandPackets /\ H' = H
  BY DEF HandPackets, Holding, SamplesOf
<1>7. /\ hand[c] = None => Holding = {}
      /\ hand'[c] = None => Holding' = {}
  BY <1>2, <1>3 DEF Holding
<1>8. Contents' = (P' \o H') \o Q'
  BY DEF Contents
<1>a. CASE Put
  <2>1. /\ next <= MaxPackets /\ next' = next + 1 /\ UNCHANGED <<hand, pending, delivered>>
        /\ next \in Packet
    BY <1>a DEF Put, TypeInv, TypeOK, Packet
  <2>2. CASE queue' = queue
    <3>1. Contents' = Contents
      BY <1>4, <1>6, <1>8, <2>1, <2>2
    <3> QED BY <2>1, <3>1, ToOffer
  <2>3. CASE queue' = Append(queue, next)
    <3>1. <<next>> \in Seq(Packet) /\ queue' = queue \o <<next>>
      BY <1>4, <2>1, <2>3
    <3>2. Q' = Q \o SamplesOf(<<next>>)
      BY <1>4, <3>1, SamplesConcat
    <3>3. SamplesOf(<<next>>) \in Seq(Sample)
      BY <2>1, OnePacket
    <3>4. P' = P /\ H' = H
      BY <1>6, <2>1
    <3> HIDE DEF P, H, Q
    <3>5. Contents' = Contents \o SamplesOf(<<next>>)
      <4> DEFINE w == P \o H
                 n == SamplesOf(<<next>>)
      <4>1. w \in Seq(Sample) /\ n \in Seq(Sample) /\ Contents = w \o Q /\ Contents' = w \o (Q \o n)
        BY <1>4, <1>8, <3>2, <3>3, <3>4
      <4> HIDE DEF w, n
      <4>2. (w \o Q) \o n = w \o (Q \o n)
        <5>1. w \in Seq(Sample) /\ Q \in Seq(Sample) /\ n \in Seq(Sample)
          BY <1>4, <4>1
        <5> QED BY <5>1, Regroup, ZenonT(60)
      <4>3. Contents' = Contents \o n
        BY <4>1, <4>2
      <4> QED BY <4>3 DEF n
    <3> QED BY <2>1, <3>5, ToOffer
  <2> QED BY <1>a, <2>2, <2>3 DEF Put
<1>b. CASE ClearQueue
  <2>1. queue' = <<>> /\ UNCHANGED <<hand, pending, delivered, next>>
    BY <1>b DEF ClearQueue
  <2>2. P' = P /\ H' = H /\ Q' = <<>>
    BY <1>6, <2>1, EmptySamples
  <2> HIDE DEF P, H, Q
  <2> DEFINE w == P \o H
  <2>3. w \in Seq(Sample) /\ Contents = w \o Q /\ Contents' = w \o <<>>
    BY <1>4, <1>8, <2>2
  <2> HIDE DEF w
  <2>4. Contents' = w
    BY <2>3, ConcatEmptySeq
  <2>5. SubSeq(Contents, 1, Len(w)) = w /\ Len(w) \in 0..Len(Contents)
    BY <1>4, <2>3, Cut
  <2> QED BY <2>1, <2>4, <2>5, ToDiscard
<1>c. CASE ClearPending
  <2>1. pending' = <<>> /\ UNCHANGED <<hand, queue, delivered, next>>
    BY <1>c DEF ClearPending
  <2>2. P' = <<>> /\ H' = H /\ Q' = Q
    BY <1>6, <2>1
  <2> HIDE DEF P, H, Q
  <2>3. Contents' = H \o Q
    BY <1>4, <1>8, <2>2, ConcatEmptySeq
  <2> DEFINE w == H \o Q
  <2>4. w \in Seq(Sample) /\ Contents = P \o w /\ Contents' = w
    BY <1>4, <2>3
  <2> HIDE DEF w
  <2>5. SubSeq(Contents, Len(P) + 1, Len(Contents)) = w /\ Len(P) \in 0..Len(Contents)
    BY <1>4, <2>4, Cut
  <2> QED BY <2>1, <2>4, <2>5, ToDiscard
<1>d. ASSUME NEW d \in Consumer, StartGet(d) \/ StartBatch(d) \/ PopRaises(d) \/ GiveUp(d)
      PROVE  UNCHANGED Sequential!fifoVars
  <2>1. UNCHANGED <<hand, queue, pending, delivered, next>>
    BY <1>d DEF StartGet, StartBatch, PopRaises, GiveUp
  <2>2. Contents' = Contents
    BY <1>4, <1>6, <1>8, <2>1
  <2> QED BY <2>1, <2>2, ToStutter
<1>e. ASSUME NEW d \in Consumer, PopPending(d) PROVE Sequential!FifoNext
  <2>1. /\ pending # <<>> /\ pending' = Tail(pending)
        /\ delivered' = Append(delivered, Head(pending)) /\ UNCHANGED <<hand, queue, next>>
    BY <1>e DEF PopPending
  <2>2. H' = H /\ Q' = Q
    BY <1>6, <2>1
  <2> DEFINE h == <<Head(pending)>>
             r == Tail(pending)
             w == r \o (H \o Q)
  <2>3. h \in Seq(Sample) /\ r \in Seq(Sample) /\ P = h \o r /\ Len(h) = 1
        /\ delivered' = delivered \o h /\ P' = r
    <3>1. delivered \in Seq(Sample)
      BY DEF TypeInv, TypeOK
    <3> QED BY <1>4, <2>1, <3>1, HeadFirst, Zenon
  <2> HIDE DEF h, r, P, H, Q
  <2>a. /\ h \in Seq(Sample) /\ r \in Seq(Sample) /\ H \in Seq(Sample) /\ Q \in Seq(Sample)
        /\ H \o Q \in Seq(Sample)
    BY <1>4, <2>3
  <2>b. w \in Seq(Sample) /\ (h \o r) \o (H \o Q) = h \o w /\ (r \o H) \o Q = w
    <3> DEFINE hq == H \o Q
    <3>1. hq \in Seq(Sample)
      BY <2>a
    <3>0. h \in Seq(Sample) /\ r \in Seq(Sample)
      BY <2>a
    <3>a. H \in Seq(Sample) /\ Q \in Seq(Sample)
      BY <2>a
    <3>2. (r \o H) \o Q = r \o (H \o Q)
      BY <3>0, <3>a, Regroup, ZenonT(60)
    <3> HIDE DEF hq
    <3>3. (h \o r) \o hq = h \o (r \o hq) /\ r \o hq \in Seq(Sample)
      BY <3>0, <3>1, Regroup, ZenonT(60)
    <3> QED BY <3>2, <3>3 DEF hq
  <2>c. Contents = P \o (H \o Q) /\ Contents' = (P' \o H') \o Q'
    BY <1>4, <1>8
  <2>4. Contents = h \o w /\ w \in Seq(Sample)
    <3> HIDE DEF w
    <3> QED BY <2>b, <2>c, <2>3, Zenon
  <2>5. Contents' = w
    <3> HIDE DEF w
    <3> QED BY <2>b, <2>c, <2>2, <2>3, Zenon
  <2> HIDE DEF w
  <2>6. PICK n \in {1, PerPacket} : n = 1
    OBVIOUS
  <2>7. SubSeq(Contents, 1, n) = h /\ SubSeq(Contents, n + 1, Len(Contents)) = w /\ n <= Len(Contents)
    <3>1. h \in Seq(Sample) /\ n = Len(h)
      BY <2>3, <2>6
    <3>2. w \in Seq(Sample)
      BY <2>4
    <3>3. /\ SubSeq(h \o w, 1, Len(h)) = h /\ Len(h) <= Len(h \o w)
          /\ SubSeq(h \o w, Len(h) + 1, Len(h \o w)) = w
      BY <3>1, <3>2, Cut, Zenon
    <3> QED BY <2>4, <3>1, <3>3, Zenon
  <2>8. next' = next
    BY <2>1
  <2> QED BY <2>3, <2>5, <2>7, <2>8, ToTake, Zenon
<1>f. ASSUME NEW d \in Consumer, Dequeue(d) PROVE UNCHANGED Sequential!fifoVars
  <2>0. d = c
    BY <1>2, <1>f DEF Dequeue, Goto
  <2>1. /\ queue # <<>> /\ queue' = Tail(queue) /\ UNCHANGED <<pending, delivered, next>>
        /\ hand' = [hand EXCEPT ![c] = <<Head(queue)>>] /\ hand[c] = None
    BY <1>f, <2>0 DEF Dequeue, Goto, TypeInv, HandFits
  <2>2. Head(queue) \in Packet /\ Tail(queue) \in Seq(Packet) /\ <<Head(queue)>> \in Seq(Packet)
        /\ queue = <<Head(queue)>> \o Tail(queue)
    BY <1>4, <2>1
  <2>3. Q = SamplesOf(<<Head(queue)>>) \o SamplesOf(Tail(queue))
    BY <2>2, SamplesConcat
  <2>4. hand'[c] = <<Head(queue)>> /\ hand'[c] # None
    BY <2>1 DEF None, TypeInv, TypeOK
  <2>5. H = <<>> /\ H' = SamplesOf(<<Head(queue)>>) /\ Q' = SamplesOf(Tail(queue)) /\ P' = P
    BY <1>5, <1>7, <2>1, <2>4
  <2>6. SamplesOf(<<Head(queue)>>) \in Seq(Sample) /\ SamplesOf(Tail(queue)) \in Seq(Sample)
    BY <2>2, SamplesType
  <2>7. Contents = P \o Q
    <3> HIDE DEF P, H, Q
    <3> QED BY <1>4, <2>5, ConcatEmptySeq
  <2>8. Contents' = P \o Q
    <3> HIDE DEF P, H, Q
    <3> DEFINE t == SamplesOf(<<Head(queue)>>)
               u == SamplesOf(Tail(queue))
    <3>1. P \in Seq(Sample) /\ t \in Seq(Sample) /\ u \in Seq(Sample)
      BY <1>4, <2>6
    <3>2. Contents' = (P \o t) \o u /\ P \o Q = P \o (t \o u)
      BY <1>8, <2>3, <2>5
    <3> HIDE DEF t, u
    <3>3. (P \o t) \o u = P \o (t \o u)
      BY <3>1, Regroup, ZenonT(60)
    <3> QED BY <3>2, <3>3
  <2> QED BY <2>1, <2>7, <2>8, ToStutter
<1>g. ASSUME NEW d \in Consumer, ExtendPending(d) \/ ReturnBatch(d) PROVE Sequential!FifoNext
  <2>0. d = c /\ pc[c] \in {"extend", "return"} /\ hand[c] # None
    BY <1>2, <1>g DEF ExtendPending, ReturnBatch, Goto, TypeInv, HandFits
  <2> DEFINE s == SamplesOf(hand[c])
             h == <<Head(s)>>
             r == Tail(s)
  <2>1. s \in Seq(Sample) /\ Len(s) = PerPacket /\ s # <<>> /\ H = s
    BY <1>5, <2>0, InHand
  <2>2. UNCHANGED <<queue, next>> /\ hand'[c] = None /\ Q' = Q
    BY <1>g, <2>0 DEF ExtendPending, ReturnBatch, TypeInv, TypeOK
  <2>3. H' = <<>>
    BY <1>5, <1>7, <2>2
  <2>4. pending = <<>>
    <3>1. CASE m = "batch"
      BY <1>0, <3>1 DEF SingleInv, SoloInv
    <3>2. CASE m = "get"
      BY <1>0, <1>2, <2>0, <3>2 DEF SingleInv, SoloInv
    <3> QED BY <3>1, <3>2
  <2>5. Contents = s \o Q
    <3>1. P = <<>>
      BY <2>4
    <3> HIDE DEF P, H, Q, s
    <3> QED BY <1>4, <2>1, <3>1, ConcatEmptySeq
  <2>6. CASE ExtendPending(d)
    <3>1. pending' = pending \o r /\ delivered' = Append(delivered, Head(s))
      BY <2>0, <2>6 DEF ExtendPending
    <3>2. h \in Seq(Sample) /\ r \in Seq(Sample) /\ s = h \o r /\ Len(h) = 1 /\ Head(s) \in Sample
      <4> HIDE DEF s
      <4> QED BY <2>1
    <3>3. delivered \in Seq(Sample)
      BY DEF TypeInv, TypeOK
    <3> HIDE DEF Q, H, s
    <3>4. delivered' = delivered \o h
      BY <3>1, <3>2, <3>3, AppendIsConcat
    <3> HIDE DEF h, r
    <3>5. P' = r
      BY <2>4, <3>1, <3>2, ConcatEmptySeq
    <3> HIDE DEF P
    <3> DEFINE w == r \o Q
    <3>6. Contents' = w /\ w \in Seq(Sample)
      BY <1>4, <1>8, <2>2, <2>3, <3>2, <3>5, ConcatEmptySeq, ConcatProperties
    <3>7. Contents = h \o w
      <4>1. h \in Seq(Sample) /\ r \in Seq(Sample) /\ Q \in Seq(Sample)
        BY <1>4, <3>2
      <4>2. (h \o r) \o Q = h \o (r \o Q)
        BY <4>1, Regroup, ZenonT(60)
      <4>3. Contents = (h \o r) \o Q
        BY <2>5, <3>2, Zenon
      <4> QED BY <4>2, <4>3, Zenon
    <3> HIDE DEF w
    <3>8. PICK n \in {1, PerPacket} : n = 1
      OBVIOUS
    <3>9. SubSeq(Contents, 1, n) = h /\ SubSeq(Contents, n + 1, Len(Contents)) = w /\ n <= Len(Contents)
      <4>1. h \in Seq(Sample) /\ n = Len(h)
        BY <3>2, <3>8
      <4>2. w \in Seq(Sample)
        BY <3>6
      <4>3. /\ SubSeq(h \o w, 1, Len(h)) = h /\ Len(h) <= Len(h \o w)
            /\ SubSeq(h \o w, Len(h) + 1, Len(h \o w)) = w
        BY <4>1, <4>2, Cut, Zenon
      <4> QED BY <3>7, <4>1, <4>3, Zenon
    <3>10. next' = next
      BY <2>2
    <3> QED BY <3>4, <3>6, <3>9, <3>10, ToTake, Zenon
  <2>7. CASE ReturnBatch(d)
    <3>1. UNCHANGED pending /\ delivered' = delivered \o s
      BY <2>0, <2>7 DEF ReturnBatch
    <3>2. P' = <<>>
      BY <2>4, <3>1
    <3> HIDE DEF P, Q, H, s
    <3>3. Contents' = Q
      BY <1>4, <1>8, <2>2, <2>3, <3>2, ConcatEmptySeq
    <3>4. /\ SubSeq(Contents, 1, PerPacket) = s /\ PerPacket <= Len(Contents)
          /\ SubSeq(Contents, PerPacket + 1, Len(Contents)) = Q
      <4>1. s \in Seq(Sample) /\ Q \in Seq(Sample) /\ PerPacket = Len(s)
        BY <1>4, <2>1
      <4>2. /\ SubSeq(s \o Q, 1, Len(s)) = s /\ Len(s) <= Len(s \o Q)
            /\ SubSeq(s \o Q, Len(s) + 1, Len(s \o Q)) = Q
        BY <4>1, Cut, Zenon
      <4> QED BY <2>5, <4>1, <4>2, Zenon
    <3>5. next' = next /\ PerPacket \in {1, PerPacket}
      BY <2>2
    <3> QED BY <3>1, <3>3, <3>4, <3>5, ToTake, Zenon
  <2> QED BY <1>g, <2>6, <2>7
<1>h. CASE UNCHANGED vars
  <2>1. UNCHANGED <<hand, queue, pending, delivered, next>>
    BY <1>h DEF vars
  <2>2. Contents' = Contents
    BY <1>4, <1>6, <1>8, <2>1
  <2> QED BY <2>1, <2>2, ToStutter
<1> QED BY <1>a, <1>b, <1>c, <1>d, <1>e, <1>f, <1>g, <1>h DEF Next

\* With one reader that keeps to one of the two calls the buffer is a queue of
\* samples, whatever clear() does.
THEOREM BufferIsSampleFifo == Spec => IsSampleFifo
<1>1. Init => Sequential!FifoInit
  <2> SUFFICES ASSUME Init PROVE Sequential!FifoInit
    OBVIOUS
  <2>1. next = 1 /\ queue = <<>> /\ pending = <<>> /\ delivered = <<>> /\ Holding = {}
    BY DEF Init, Holding
  <2>2. Cardinality(Holding) = 0
    BY <2>1, FS_EmptySet
  <2>3. HandPackets = <<>>
    BY <2>2 DEF HandPackets
  <2>4. Contents = <<>>
    BY <2>1, <2>3, EmptySamples DEF Contents
  <2> QED BY <2>1, <2>4 DEF Sequential!FifoInit, Contents, HandPackets
<1>2. TypeInv /\ TypeInv' /\ SingleInv /\ SingleInv' /\ [Next]_vars
        => [OneReaderOneCall => [Sequential!FifoNext]_(Sequential!fifoVars)]_vars
  BY FifoStep
<1>3. (TypeInv /\ DroppedFits)' => TypeInv'
  OBVIOUS
<1> QED BY <1>1, <1>2, <1>3, TypeAlways, SingleAlways, PTL DEF Spec, IsSampleFifo
=============================================================================
