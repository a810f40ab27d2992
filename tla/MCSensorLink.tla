---------------------------- MODULE MCSensorLink ----------------------------
(* Two drivers of different rates and two connections, so that either driver *)
(* may give one up and take the other while its request waits on the first;  *)
(* and a program that sends datagrams of its own to the port.                *)
EXTENDS SensorLink, TLC

CONSTANTS a, b, c1, c2

MCClient == {a, b}
MCConn == {c1, c2}
MCRate == (a :> "1000") @@ (b :> "500_16")
MCStray == {[source |-> "other", len |-> 20, declared |-> 29, rate |-> 0, samples |-> 0]}

\* Of a, one request of each kind: the rate, another rate for it, one there is not,
\* no value, a text that is no index; the product name, a command, one with a
\* parameter, one the sensor does not know.
MCOtherRequest ==
  (a :> { GetRate, GetParameterRequest(<<0, 1>>, <<0>>),
          SetParameterRequest(RateIndex, RateSubindex, <<1>>),
          SetParameterRequest(RateIndex, RateSubindex, <<4>>),
          SetParameterRequest(RateIndex, RateSubindex, <<>>),
          SetParameterRequest(NotHex, <<0>>, <<10>>),
          CommandRequest(<<64>>), CommandWithParameterRequest(<<48>>, <<2>>),
          CommandRequest(<<153>>) }) @@
  (b :> {})
Symmetry == Permutations(Conn)
=============================================================================
