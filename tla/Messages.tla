------------------------------ MODULE Messages ------------------------------
(***************************************************************************)
(* What goes over the wire, as both ends write and read it: the requests   *)
(* and answers of schunk_fts_library/utility.py and of the dummy sensor,   *)
(* the datagrams of the stream, and the two tables of output rates.        *)
(*                                                                         *)
(* A message is its payload, a sequence of bytes.  The header (sync,       *)
(* counter, length) has six bytes that neither end looks at in a message   *)
(* over TCP.  A field of a request is the text the caller gives for it, as *)
(* the sequence of the bytes that its hexadecimal digits stand for; a text *)
(* that is not hexadecimal has a member that is no byte.                   *)
(***************************************************************************)
EXTENDS Integers, SequencesExt

Byte == 0..255
NotHex == <<256>>

-----------------------------------------------------------------------------
\* A class of message without a field leaves it empty.
GetParameterRequest(index, subindex) ==
  [command |-> <<240>>, index |-> index, subindex |-> subindex, value |-> <<>>]
SetParameterRequest(index, subindex, value) ==
  [command |-> <<241>>, index |-> index, subindex |-> subindex, value |-> value]
CommandRequest(command) ==
  [command |-> command, index |-> <<>>, subindex |-> <<>>, value |-> <<>>]
CommandWithParameterRequest(command, parameter) ==
  [command |-> command, index |-> <<>>, subindex |-> <<>>, value |-> parameter]

\* Each field is sent with its last byte first; one that fromhex() rejects is
\* left out, and the message is sent without it.
FieldBytes(field) ==
  IF \A i \in DOMAIN field : field[i] \in Byte THEN Reverse(field) ELSE <<>>
ToBytes(r) ==
  FieldBytes(r.command) \o FieldBytes(r.index) \o FieldBytes(r.subindex) \o FieldBytes(r.value)

\* from_bytes of the responses: of a command the first two fields.
FromBytes(payload) ==
  [command  |-> SubSeq(payload, 1, 1),
   error    |-> SubSeq(payload, 2, 2),
   index    |-> IF Len(payload) < 5 THEN <<>> ELSE Reverse(SubSeq(payload, 3, 4)),
   subindex |-> IF Len(payload) < 5 THEN <<>> ELSE SubSeq(payload, 5, 5),
   value    |-> SubSeq(payload, 6, Len(payload))]

Success == <<0>>

-----------------------------------------------------------------------------
\* OUTPUT_RATE_TO_MODE of the library's driver.
OutputRateMode ==
  [rate \in {"1000", "500", "250", "100", "500_16"} |->
     CASE rate = "1000"   -> [value |-> <<0>>,  packetRate |-> 1000, samples |-> 1]
       [] rate = "500"    -> [value |-> <<1>>,  packetRate |-> 500,  samples |-> 1]
       [] rate = "250"    -> [value |-> <<2>>,  packetRate |-> 250,  samples |-> 1]
       [] rate = "100"    -> [value |-> <<3>>,  packetRate |-> 100,  samples |-> 1]
       [] rate = "500_16" -> [value |-> <<10>>, packetRate |-> 500,  samples |-> 16]]

\* OUTPUT_RATE_PARAMETER_INDEX and _SUBINDEX.
RateIndex == <<16, 32>>
RateSubindex == <<0>>
ConfigureOutputRate(rate) ==
  SetParameterRequest(RateIndex, RateSubindex, OutputRateMode[rate].value)

-----------------------------------------------------------------------------
(***************************************************************************)
(* A datagram: how long it is, the payload length that its header          *)
(* declares, where it comes from, and the rate and the number of samples   *)
(* of what is in it.  decode_packet and decode_sample_batch take the same  *)
(* number of samples out of it, and both raise struct.error on the same    *)
(* datagrams: struct.unpack wants exactly its length, unpack_from at least.*)
(***************************************************************************)
Raises == 0
Decode(p) ==
  CASE p.declared = 449 /\ p.len >= 455 -> 16
    [] p.declared # 449 /\ p.len = 35 -> 1
    [] OTHER -> Raises
=============================================================================
