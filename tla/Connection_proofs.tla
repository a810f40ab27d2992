-------------------------- MODULE Connection_proofs --------------------------
(***************************************************************************)
(* What the operations of the Connection object keep, whoever calls them:  *)
(* lemmas for every module that is built on Connection.                    *)
(***************************************************************************)
EXTENDS Connection, SequenceTheorems, TLAPS

(***************************************************************************)
(* The answers that are left after n of them have been read are answers.   *)
(***************************************************************************)
LEMMA RestOfWire ==
  ASSUME wire \in Seq(Answer), NEW n \in 1..Len(wire)
  PROVE  SubSeq(wire, n + 1, Len(wire)) \in Seq(Answer)
  BY SMT

(***************************************************************************)
(* What is kept of a dropped socket is a dropped socket, and its answers   *)
(* are those it was kept with, or the first of them.                       *)
(***************************************************************************)
LEMMA KeptIsDropped ==
  ASSUME NEW R, R \subseteq Thread, NEW w \in Seq(Answer)
  PROVE  /\ Kept(R, w) \subseteq Dropped
         /\ \A d \in Kept(R, w) : d.readers = R /\ (d.wire = w \/ d.wire = First(w))
<1>1. First(w) \in Seq(Answer)
  BY DEF First
<1> DEFINE v == IF Cardinality(R) = 1 THEN First(w) ELSE w
<1>2. v \in Seq(Answer) /\ (v = w \/ v = First(w))
  BY <1>1
<1>3. Kept(R, w) = IF R = {} THEN {} ELSE {[readers |-> R, wire |-> v]}
  BY DEF Kept
<1> HIDE DEF v
<1>4. R # {} => [readers |-> R, wire |-> v] \in Dropped
  BY <1>2 DEF Dropped
<1> QED
  BY <1>2, <1>3, <1>4

(***************************************************************************)
(* What the operations of the Connection object do, whoever calls them.    *)
(* The flag is_open is true only on a socket that was connected, and a     *)
(* socket that is shut is about to be closed by whoever has the lock: the  *)
(* parts of the inductive invariant that the properties do not state.      *)
(***************************************************************************)
Linked == {"connected", "dead", "shut"}
FlagHonest == isOpen => sock \in Linked
ShutIsHeld == sock = "shut" => ~LockFree

ConnInv == ConnTypeOK /\ FlagHonest /\ ShutIsHeld

ConnStep(t) ==
  \/ Enter \/ MarkPersistent \/ ExitGoesOn(t) \/ ExitReturns(t) \/ Close
  \/ ReceiveBlocks(t) \/ ReceiveEmpty(t) \/ ReceiveRaises(t) \/ ReceiveTimesOut(t)
  \/ ReceiveFails(t) \/ UNCHANGED connVars

\* The sensor changes nothing but the socket and itself.
LEMMA SensorKeeps ==
  ASSUME ConnInv, ConnEnvironment \/ UNCHANGED connVars
  PROVE  ConnInv'
  BY DEF ConnInv, ConnTypeOK, FlagHonest, ShutIsHeld, LockFree, Linked, SockState, SensorState,
         ConnEnvironment, SensorGoesDown, SensorBoots, SensorReady, SensorDropsConnection,
         BreakSocket, connVars, Dropped

\* A reader less on a dropped socket.
LEMMA LeaveDroppedType ==
  ASSUME left \subseteq Dropped, NEW d \in left, NEW t \in Thread, NEW w \in Seq(Answer),
         LeaveDropped(d, t, w)
  PROVE  left' \subseteq Dropped
<1>1. d.readers \ {t} \subseteq Thread
  BY DEF Dropped
<1> QED
  BY <1>1, KeptIsDropped DEF LeaveDropped

LEMMA GiveUpType ==
  ASSUME left \subseteq Dropped, NEW t \in Thread, GiveUpDropped(t)
  PROVE  left' \subseteq Dropped
<1>1. CASE rx[t] = "left"
  <2>1. PICK d \in left : LeaveDropped(d, t, d.wire)
    BY <1>1 DEF GiveUpDropped
  <2>2. d.wire \in Seq(Answer)
    BY DEF Dropped
  <2> QED
    BY <2>1, <2>2, LeaveDroppedType
<1> QED
  BY <1>1 DEF GiveUpDropped

LEMMA ConnStepKeeps ==
  ASSUME ConnInv, NEW t \in Thread, ConnStep(t)
  PROVE  ConnInv'
<1> USE DEF ConnInv, ConnTypeOK, FlagHonest, ShutIsHeld, LockFree, Linked, SockState, RxState,
            SensorState
<1>0. <<>> \in Seq(Answer) /\ Dropped' = Dropped
  BY DEF Dropped
<1>1. CASE Enter
  <2>1. CASE EnterOpen
    BY <1>0, <2>1 DEF EnterOpen, connVars
  <2>2. CASE EnterWedged
    BY <1>0, <2>2 DEF EnterWedged, connVars
  <2>3. CASE EnterRefused
    BY <1>0, <2>3 DEF EnterRefused
  <2>4. CASE EnterConnects
    BY <1>0, <2>4 DEF EnterConnects
  <2> QED
    BY <1>1, <2>1, <2>2, <2>3, <2>4 DEF Enter
<1>2. CASE MarkPersistent
  BY <1>0, <1>2 DEF MarkPersistent
<1>3. CASE ExitGoesOn(t) \/ ExitReturns(t)
  <2>1. CASE ExitTests(t)
    BY <1>0, <2>1 DEF ExitTests
  <2>2. CASE ExitShuts(t)
    BY <1>0, <2>2 DEF ExitShuts
  <2>3. CASE ExitNeedless
    BY <1>0, <2>3 DEF ExitNeedless, connVars
  <2>4. CASE ExitTooLate(t)
    BY <1>0, <2>4 DEF ExitTooLate
  <2>5. CASE ExitCloses(t)
    BY <1>0, <2>5 DEF ExitCloses, BlockedNow
  <2> QED
    BY <1>3, <2>1, <2>2, <2>3, <2>4, <2>5 DEF ExitGoesOn, ExitReturns
<1>4. CASE Close
  <2>1. Receivers \subseteq Thread
    BY DEF Receivers
  <2>2. left' \subseteq Dropped
    BY <1>4, <2>1, KeptIsDropped DEF Close
  <2>3. rx' \in [Thread -> RxState]
    BY <1>4 DEF Close, BlockedNow
  <2> QED
    BY <1>0, <1>4, <2>2, <2>3 DEF Close
<1>5. CASE ReceiveBlocks(t)
  BY <1>0, <1>5 DEF ReceiveBlocks
<1>6. CASE ReceiveEmpty(t)
  <2>1. left' \subseteq Dropped
    BY <1>6, GiveUpType DEF ReceiveEmpty
  <2> QED
    BY <1>0, <1>6, <2>1 DEF ReceiveEmpty
<1>7. CASE ReceiveRaises(t)
  <2>1. left' \subseteq Dropped
    BY <1>7, GiveUpType DEF ReceiveRaises
  <2> QED
    BY <1>0, <1>7, <2>1 DEF ReceiveRaises
<1>8. CASE ReceiveFails(t)
  BY <1>0, <1>8 DEF ReceiveFails
<1>9. CASE UNCHANGED connVars
  BY <1>9, SensorKeeps
<1>10. CASE ReceiveTimesOut(t)
  BY <1>0, <1>10 DEF ReceiveTimesOut
<1> QED
  BY <1>1, <1>2, <1>3, <1>4, <1>5, <1>6, <1>7, <1>8, <1>9, <1>10 DEF ConnStep

LEMMA SendKeeps ==
  ASSUME ConnInv, NEW a \in Answer, Send(a)
  PROVE  ConnInv'
  BY DEF ConnInv, ConnTypeOK, FlagHonest, ShutIsHeld, LockFree, Linked, Send, Delivered, Dropped

(***************************************************************************)
(* What a thread reads is an answer, whatever socket it waits on.          *)
(***************************************************************************)
LEMMA ReadIsAnswer ==
  ASSUME ConnTypeOK, NEW t \in Thread, NEW a, ReceiveAnswer(t, a)
  PROVE  a \in Answer
<1>1. CASE \E n \in 1..Len(wire) : a = Head(wire)
  BY <1>1 DEF ConnTypeOK
<1>2. ASSUME NEW d \in left, NEW n \in 1..Len(d.wire), a = Head(d.wire) PROVE a \in Answer
  <2>1. d.wire \in Seq(Answer)
    BY DEF ConnTypeOK, Dropped
  <2> QED
    BY <1>2, <2>1
<1> QED
  BY <1>1, <1>2 DEF ReceiveAnswer

LEMMA AnswerKeeps ==
  ASSUME ConnInv, NEW t \in Thread, NEW a, ReceiveAnswer(t, a)
  PROVE  ConnInv'
<1>1. wire' \in Seq(Answer)
  BY RestOfWire DEF ReceiveAnswer, ConnInv, ConnTypeOK
<1>2. ASSUME NEW d \in left, NEW n \in 1..Len(d.wire),
             LeaveDropped(d, t, SubSeq(d.wire, n + 1, Len(d.wire)))
      PROVE  left' \subseteq Dropped
  <2>1. d.wire \in Seq(Answer)
    BY DEF ConnInv, ConnTypeOK, Dropped
  <2>2. SubSeq(d.wire, n + 1, Len(d.wire)) \in Seq(Answer)
    BY <2>1, SMT
  <2> QED
    BY <1>2, <2>2, LeaveDroppedType DEF ConnInv, ConnTypeOK
<1>3. left' \subseteq Dropped
  BY <1>2 DEF ReceiveAnswer, ConnInv, ConnTypeOK
<1>4. Dropped' = Dropped
  BY DEF Dropped
<1> QED
  BY <1>1, <1>3, <1>4 DEF ConnInv, ConnTypeOK, FlagHonest, ShutIsHeld, LockFree, Linked, RxState,
                          ReceiveAnswer

LEMMA InitConnInv ==
  ASSUME ConnInit
  PROVE  ConnInv
<1>1. <<>> \in Seq(Answer)
  OBVIOUS
<1> QED
  BY <1>1 DEF ConnInit, ConnInv, ConnTypeOK, FlagHonest, ShutIsHeld, SockState, RxState,
              SensorState
=============================================================================
