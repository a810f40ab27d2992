----------------------------- MODULE DataBuffer -----------------------------
(***************************************************************************)
(* Class FTDataBuffer of schunk_fts_library/utility.py: a bounded queue of *)
(* packets, filled by the update thread, and a deque of the samples of a   *)
(* packet that has been taken apart, shared by the threads that call       *)
(* get(), get_sample_batch() and clear().                                  *)
(*                                                                         *)
(* The queue has a lock of its own, so an operation on it is one action;   *)
(* the deque has none, so its test, its popleft and its extend are actions *)
(* of their own, and clear() is two.  Packets are numbered as they are put *)
(* and a sample is its packet and its position there.                      *)
(***************************************************************************)
EXTENDS Naturals, Sequences, FiniteSets

CONSTANTS
  Consumer,    \* threads that read
  MaxSize,     \* maxsize of the queue
  PerPacket,   \* samples in a packet: 1, or 16 in the packaged mode
  Usage,       \* which of get() and get_sample_batch() each reader of a run calls
  MaxPackets   \* bound on the packets that are put

ASSUME BufferAssumption ==
  /\ MaxSize \in Nat \ {0}
  /\ PerPacket \in Nat \ {0}
  /\ MaxPackets \in Nat
  /\ IsFiniteSet(Consumer)
  /\ Usage \subseteq [Consumer -> SUBSET {"get", "batch"}]

VARIABLES
  queue,     \* FTDataBuffer._queue, the numbers of the packets
  pending,   \* FTDataBuffer._pending_samples
  dropped,   \* FTDataBuffer.dropped_packet_count
  next,      \* number of the next packet to be put
  usage,     \* the element of Usage of this run
  pc, hand,  \* per consumer: where it is, and the packet it has dequeued
  delivered, \* history: the samples taken out for a reader so far, in order
  lost,      \* history: number of samples discarded by clear()
  clear      \* history: the last clear(): from, the first packet put after its
             \* first half, held, the packets readers had in hand then, and
             \* whether it has returned

vars == <<queue, pending, dropped, next, usage, pc, hand, delivered, lost, clear>>

Sample == (1..MaxPackets) \X (1..PerPacket)
Location == {"idle", "raised", "pop", "get", "getBatch", "extend", "return"}
None == <<>>

TypeOK ==
  /\ queue \in Seq(1..MaxPackets) /\ Len(queue) <= MaxSize
  /\ pending \in Seq(Sample)
  /\ dropped \in 0..MaxPackets
  /\ next \in 1..(MaxPackets + 1)
  /\ usage \in Usage
  /\ pc \in [Consumer -> Location]
  /\ hand \in [Consumer -> {None} \cup {<<p>> : p \in 1..MaxPackets}]
  /\ delivered \in Seq(Sample)
  /\ lost \in Nat
  /\ clear \in [from : 1..(MaxPackets + 1), held : SUBSET (1..MaxPackets), done : BOOLEAN]

Init ==
  /\ queue = <<>> /\ pending = <<>> /\ dropped = 0
  /\ next = 1
  /\ usage \in Usage
  /\ pc = [c \in Consumer |-> "idle"]
  /\ hand = [c \in Consumer |-> None]
  /\ delivered = <<>> /\ lost = 0
  /\ clear = [from |-> 1, held |-> {}, done |-> TRUE]

\* A reader that is in no call, or whose last call raised, calls m.
Calls(c, m, to) ==
  /\ m \in usage[c]
  /\ pc[c] \in {"idle", "raised"}
  /\ pc' = [pc EXCEPT ![c] = to]

Goto(c, from, to) ==
  /\ pc[c] = from
  /\ pc' = [pc EXCEPT ![c] = to]

\* The samples of a sequence of packets, oldest first.
SamplesOf(packets) ==
  [i \in 1..(Len(packets) * PerPacket) |->
     <<packets[((i - 1) \div PerPacket) + 1], ((i - 1) % PerPacket) + 1>>]

-----------------------------------------------------------------------------
\* put(): put_nowait, and the newest packet is dropped when the queue is full.
PutOverfills ==     \* mutant: a full queue takes one packet more
  /\ next <= MaxPackets
  /\ next' = next + 1
  /\ \/ Len(queue) <= MaxSize /\ queue' = Append(queue, next) /\ UNCHANGED dropped
     \/ Len(queue) > MaxSize /\ dropped' = dropped + 1 /\ UNCHANGED queue
  /\ UNCHANGED <<pending, usage, pc, hand, delivered, lost, clear>>

PutDropsOldest ==   \* mutant: a full queue forgets a packet without counting it
  /\ next <= MaxPackets
  /\ next' = next + 1
  /\ queue' = IF Len(queue) < MaxSize THEN Append(queue, next)
                                      ELSE Append(Tail(queue), next)
  /\ UNCHANGED <<pending, dropped, usage, pc, hand, delivered, lost, clear>>
Put ==
  /\ next <= MaxPackets
  /\ next' = next + 1
  /\ \/ Len(queue) < MaxSize /\ queue' = Append(queue, next) /\ UNCHANGED dropped
     \/ Len(queue) = MaxSize /\ dropped' = dropped + 1 /\ UNCHANGED queue
  /\ UNCHANGED <<pending, usage, pc, hand, delivered, lost, clear>>

\* get(): if self._pending_samples: ...
StartGet(c) ==
  /\ Calls(c, "get", IF pending # <<>> THEN "pop" ELSE "get")
  /\ UNCHANGED <<queue, pending, dropped, next, usage, hand, delivered, lost, clear>>

\* return popleft()
PopPending(c) ==
  /\ pending # <<>>
  /\ Goto(c, "pop", "idle")
  /\ pending' = Tail(pending)
  /\ delivered' = Append(delivered, Head(pending))
  /\ UNCHANGED <<queue, dropped, next, usage, hand, lost, clear>>

\* popleft() of a deque that has been emptied since: IndexError.
PopRaises(c) ==
  /\ pending = <<>>
  /\ Goto(c, "pop", "raised")
  /\ UNCHANGED <<queue, pending, dropped, next, usage, hand, delivered, lost, clear>>

\* get_sample_batch() does not look at the pending samples.
StartBatch(c) ==
  /\ Calls(c, "batch", "getBatch")
  /\ UNCHANGED <<queue, pending, dropped, next, usage, hand, delivered, lost, clear>>

\* queue.get(timeout=0.1) returns a packet, to get() or to get_sample_batch().
Dequeue(c) ==
  /\ queue # <<>>
  /\ Goto(c, "get", "extend") \/ Goto(c, "getBatch", "return")
  /\ queue' = Tail(queue)
  /\ hand' = [hand EXCEPT ![c] = <<Head(queue)>>]
  /\ UNCHANGED <<pending, dropped, next, usage, delivered, lost, clear>>

\* Empty: None, or a zero sample when the last packet is more than a second ago.
GiveUp(c) ==
  /\ queue = <<>>
  /\ Goto(c, "get", "idle") \/ Goto(c, "getBatch", "idle")
  /\ UNCHANGED <<queue, pending, dropped, next, usage, hand, delivered, lost, clear>>

\* Mutant: the first sample is returned and kept as well.
ExtendWithAll(c) ==
  /\ Goto(c, "extend", "idle")
  /\ pending' = pending \o SamplesOf(hand[c])
  /\ delivered' = Append(delivered, Head(SamplesOf(hand[c])))
  /\ hand' = [hand EXCEPT ![c] = None]
  /\ UNCHANGED <<queue, dropped, next, usage, lost, clear>>

\* Mutant: the samples are put before those that are pending (extendleft).
ExtendLeft(c) ==
  /\ Goto(c, "extend", "idle")
  /\ LET samples == SamplesOf(hand[c])
     IN /\ pending' = [i \in 1..(PerPacket - 1) |-> samples[PerPacket + 1 - i]] \o pending
        /\ delivered' = Append(delivered, Head(samples))
  /\ hand' = [hand EXCEPT ![c] = None]
  /\ UNCHANGED <<queue, dropped, next, usage, lost, clear>>

\* get(): the first sample is returned, the others become pending.
ExtendPending(c) ==
  /\ Goto(c, "extend", "idle")
  /\ pending' = pending \o Tail(SamplesOf(hand[c]))
  /\ delivered' = Append(delivered, Head(SamplesOf(hand[c])))
  /\ hand' = [hand EXCEPT ![c] = None]
  /\ UNCHANGED <<queue, dropped, next, usage, lost, clear>>

\* get_sample_batch(): the packet is returned as a whole.
ReturnBatch(c) ==
  /\ Goto(c, "return", "idle")
  /\ delivered' = delivered \o SamplesOf(hand[c])
  /\ hand' = [hand EXCEPT ![c] = None]
  /\ UNCHANGED <<queue, pending, dropped, next, usage, lost, clear>>

-----------------------------------------------------------------------------
\* clear(): the queue under its mutex, then the deque without one.
ClearQueue ==
  /\ clear.done
  /\ clear' = [from |-> next, done |-> FALSE,
               held |-> {p \in 1..MaxPackets : \E c \in Consumer : hand[c] = <<p>>}]
  /\ lost' = lost + Len(queue) * PerPacket
  /\ queue' = <<>>
  /\ UNCHANGED <<pending, dropped, next, usage, pc, hand, delivered>>

ClearKeepsPending ==   \* mutant: clear() empties the queue only
  /\ ~clear.done
  /\ clear' = [clear EXCEPT !.done = TRUE]
  /\ UNCHANGED <<pending, queue, dropped, next, usage, pc, hand, delivered, lost>>
ClearPending ==
  /\ ~clear.done
  /\ clear' = [clear EXCEPT !.done = TRUE]
  /\ lost' = lost + Len(pending)
  /\ pending' = <<>>
  /\ UNCHANGED <<queue, dropped, next, usage, pc, hand, delivered>>

Next ==
  \/ Put \/ ClearQueue \/ ClearPending
  \/ \E c \in Consumer :
       \/ StartGet(c) \/ PopPending(c) \/ PopRaises(c) \/ StartBatch(c)
       \/ Dequeue(c) \/ GiveUp(c) \/ ExtendPending(c) \/ ReturnBatch(c)

Spec == Init /\ [][Next]_vars
-----------------------------------------------------------------------------
Holding == {c \in Consumer : hand[c] # None}

\* No sample vanishes and none is made up: each sample of a packet that was put
\* is dropped with its packet at put(), discarded by clear(), taken out, or still
\* in the queue, in the deque or in the hands of a reader that is taking its
\* packet apart.
Conserved ==
  (next - 1) * PerPacket =
    (dropped + Len(queue) + Cardinality(Holding)) * PerPacket
      + Len(pending) + Len(delivered) + lost

\* Whatever the interleaving of readers and of the two calls, the samples of one
\* packet are taken out in the order they have in it, and none twice.
PacketInOrder ==
  \A i, j \in 1..Len(delivered) :
    i < j /\ delivered[i][1] = delivered[j][1] => delivered[i][2] < delivered[j][2]

\* What clear() discards stays discarded: once it has returned, whatever is
\* buffered was put after its first half, or belongs to a packet that a reader
\* was taking apart when it began.  on_activate() of the node relies on it: its
\* publishing thread is not running then, so it starts with fresh samples.
ClearTakesEffect ==
  clear.done =>
    LET Fresh(p) == p >= clear.from \/ p \in clear.held
    IN /\ \A i \in 1..Len(queue) : Fresh(queue[i])
       /\ \A i \in 1..Len(pending) : Fresh(pending[i][1])
       /\ \A c \in Holding : Fresh(hand[c][1])

\* With one reader that keeps to get() or to get_sample_batch() the buffer is a
\* queue of samples (SampleFifo), whenever clear() runs: what is buffered is the
\* deque, then the packet in hand, then the queue.
OneReaderOneCall ==
  \E c \in Consumer, m \in {"get", "batch"} :
    usage = [d \in Consumer |-> IF d = c THEN {m} ELSE {}]

Sequential ==
  INSTANCE SampleFifo WITH
    contents <- pending \o SamplesOf([i \in 1..Cardinality(Holding) |->
                                        hand[CHOOSE c \in Holding : TRUE][1]])
                        \o SamplesOf(queue),
    taken <- delivered
IsSampleFifo ==
  /\ Sequential!FifoInit
  /\ [][OneReaderOneCall => [Sequential!FifoNext]_(Sequential!fifoVars)]_vars
=============================================================================
