----------------------------- MODULE SampleFifo -----------------------------
(***************************************************************************)
(* What a buffer of samples promises to the thread that reads it: packets  *)
(* are accepted or dropped as a whole, samples come out in the order in    *)
(* which they went in, none twice, and a clear may only cut off an end of  *)
(* what is buffered.                                                       *)
(***************************************************************************)
EXTENDS Naturals, Sequences

CONSTANTS
  PerPacket,   \* samples in a packet
  MaxPackets   \* bound on the packets that are offered

VARIABLES
  next,      \* number of the next packet
  contents,  \* the samples in the buffer, oldest first
  taken      \* the samples that have been handed out, in order

fifoVars == <<next, contents, taken>>

\* The samples of a sequence of packets: <<packet, position in it>>.
SamplesOf(packets) ==
  [i \in 1..(Len(packets) * PerPacket) |->
     <<packets[((i - 1) \div PerPacket) + 1], ((i - 1) % PerPacket) + 1>>]

FifoInit == next = 1 /\ contents = <<>> /\ taken = <<>>

Offer ==
  /\ next <= MaxPackets
  /\ next' = next + 1
  /\ \/ contents' = contents \o SamplesOf(<<next>>)
     \/ contents' = contents
  /\ UNCHANGED taken

Take ==
  /\ \E n \in {1, PerPacket} :
       /\ n <= Len(contents)
       /\ taken' = taken \o SubSeq(contents, 1, n)
       /\ contents' = SubSeq(contents, n + 1, Len(contents))
  /\ UNCHANGED next

Discard ==
  /\ \E n \in 0..Len(contents) :
       \/ contents' = SubSeq(contents, 1, n)
       \/ contents' = SubSeq(contents, n + 1, Len(contents))
  /\ UNCHANGED <<next, taken>>

FifoNext == Offer \/ Take \/ Discard
Fifo == FifoInit /\ [][FifoNext]_fifoVars
=============================================================================
