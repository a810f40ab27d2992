------------------------- MODULE NodeServices_proofs -------------------------
(***************************************************************************)
(* Proofs about ConnectionClients, for any threads and any number of       *)
(* requests in flight, and about NodeServices, for any number of executor  *)
(* threads and of other users of the connection.                           *)
(***************************************************************************)
EXTENDS NodeServices, Connection_proofs, FiniteSetTheorems

(***************************************************************************)
(* The inductive invariant.  LastingStays alone is not inductive: that a   *)
(* lasting connection survives a connect or an error needs the honest      *)
(* flag, and that it survives an exit, that no exit is past its test.      *)
(***************************************************************************)
NoExitPending == lasting => LockFree
Inv == TypeOK /\ FlagHonest /\ ShutIsHeld /\ LastingStays /\ NoExitPending

LEMMA InitInv ==
  ASSUME Init
  PROVE  Inv
<1>1. <<>> \in Seq(Answer)
  OBVIOUS
<1> QED
  BY <1>1 DEF Init, ConnInit, Inv, TypeOK, ConnTypeOK, FlagHonest, ShutIsHeld, NoExitPending,
              LastingStays, Linked, SockState, RxState, SensorState, Location

(***************************************************************************)
(* One step of one thread: one step per action, and under it the part that *)
(* is about the connection, by the lemmas above, the types of the client's *)
(* variables, and LastingStays.                                            *)
(***************************************************************************)
LEMMA ThreadKeeps ==
  ASSUME Inv, NEW t \in Thread, Step(t)
  PROVE  Inv'
<1>0. ConnInv
  BY DEF Inv, TypeOK, ConnInv
<1> SUFFICES /\ ConnInv'
             /\ pc' \in [Thread -> Location]
             /\ inside' \in [Thread -> BOOLEAN]
             /\ lasting' \in BOOLEAN
             /\ LastingStays' /\ NoExitPending'
  BY DEF Inv, TypeOK, ConnInv
<1> USE DEF Inv, TypeOK, ConnTypeOK, Location, LastingStays, NoExitPending, FlagHonest, ShutIsHeld,
            LockFree, Linked
<1>1. CASE EnterContext(t)
  <2>1. ConnInv'
    BY <1>0, <1>1, ConnStepKeeps DEF EnterContext, ConnStep
  <2>2. LastingStays' /\ NoExitPending'
    BY <1>1 DEF EnterContext, Enter, EnterOpen, EnterWedged, EnterRefused, EnterConnects, connVars
  <2> QED
    BY <1>1, <2>1, <2>2 DEF EnterContext, Goto
<1>2. CASE StartBare(t)
  <2>1. ConnInv'
    BY <1>0, <1>2, ConnStepKeeps DEF StartBare, ConnStep
  <2> QED
    BY <1>2, <2>1 DEF StartBare, Goto, connVars
<1>3. CASE SendRequest(t)
  <2>1. ConnInv'
    BY <1>0, <1>3, SendKeeps, AnswerAssumption DEF SendRequest
  <2> QED
    BY <1>3, <2>1 DEF SendRequest, Goto, Send
<1>4. CASE CallReceive(t)
  <2>1. ConnInv'
    BY <1>0, <1>4, ConnStepKeeps DEF CallReceive, ConnStep
  <2> QED
    BY <1>4, <2>1 DEF CallReceive, Goto, ReceiveBlocks, connVars
<1>5. ASSUME NEW a \in Answer, GetAnswer(t, a)
      PROVE  /\ ConnInv' /\ pc' \in [Thread -> Location] /\ UNCHANGED <<inside, lasting>>
             /\ LastingStays' /\ NoExitPending'
  <2>1. ConnInv'
    BY <1>0, <1>5, AnswerKeeps DEF GetAnswer
  <2> QED
    BY <1>5, <2>1 DEF GetAnswer, Goto, ReceiveAnswer
<1>6. CASE ReceiveError(t)
  <2>1. ConnInv'
    BY <1>0, <1>6, ConnStepKeeps DEF ReceiveError, ConnStep
  <2> QED
    BY <1>6, <2>1 DEF ReceiveError, ReceiveRaises, ReceiveTimesOut, clientVars
<1>7. CASE ReceiveGivesUp(t)
  <2>1. ConnInv'
    BY <1>0, <1>7, ConnStepKeeps DEF ReceiveGivesUp, ConnStep
  <2> QED
    BY <1>7, <2>1 DEF ReceiveGivesUp, Goto
<1>8. CASE LeaveContext(t)
  <2>1. ConnInv'
    BY <1>0, <1>8, ConnStepKeeps DEF LeaveContext, ConnStep
  <2>2. LastingStays' /\ NoExitPending'
    BY <1>8 DEF LeaveContext, ExitReturns, ExitNeedless, ExitTooLate, ExitCloses, connVars
  <2> QED
    BY <1>8, <2>1, <2>2 DEF LeaveContext, Goto
<1>14. CASE LeavingContext(t)
  <2>1. ConnInv'
    BY <1>0, <1>14, ConnStepKeeps DEF LeavingContext, ConnStep
  <2>2. LastingStays' /\ NoExitPending'
    BY <1>14 DEF LeavingContext, ExitGoesOn, ExitTests, ExitShuts, clientVars
  <2> QED
    BY <1>14, <2>1, <2>2 DEF LeavingContext, clientVars
<1>9. CASE OpenEnter(t)
  <2>1. ConnInv'
    BY <1>0, <1>9, ConnStepKeeps DEF OpenEnter, ConnStep
  <2>2. LastingStays' /\ NoExitPending'
    BY <1>9 DEF OpenEnter, Enter, EnterOpen, EnterWedged, EnterRefused, EnterConnects, connVars
  <2> QED
    BY <1>9, <2>1, <2>2 DEF OpenEnter, Goto
<1>10. CASE OpenCheck(t)
  <2>1. ConnInv'
    BY <1>0, <1>10, ConnStepKeeps DEF OpenCheck, ConnStep
  <2> QED
    BY <1>10, <2>1 DEF OpenCheck, Goto, connVars
<1>11. CASE OpenReturns(t)
  <2>1. ConnInv'
    BY <1>0, <1>11, ConnStepKeeps DEF OpenReturns, ConnStep
  <2> QED
    BY <1>11, <2>1 DEF OpenReturns, Goto, MarkPersistent
<1>12. CASE CallClose(t)
  <2>1. ConnInv'
    BY <1>0, <1>12, ConnStepKeeps DEF CallClose, ConnStep
  <2> QED
    BY <1>12, <2>1 DEF CallClose
<1>13. CASE GetNothing(t)
  <2>1. ConnInv'
    BY <1>0, <1>13, ConnStepKeeps DEF GetNothing, ConnStep
  <2> QED
    BY <1>13, <2>1 DEF GetNothing, Goto, ReceiveEmpty
<1> QED
  BY <1>1, <1>2, <1>3, <1>4, <1>5, <1>6, <1>7, <1>8, <1>9, <1>10, <1>11, <1>12, <1>13, <1>14
     DEF Step

\* What the sensor does keeps the invariant: a dead connection still is one.
LEMMA EnvironmentKeeps ==
  ASSUME Inv, ConnEnvironment \/ UNCHANGED connVars, UNCHANGED clientVars
  PROVE  Inv'
<1>1. LastingStays' /\ NoExitPending'
  BY DEF Inv, LastingStays, NoExitPending, LockFree, ConnEnvironment, SensorGoesDown,
         SensorBoots, SensorReady, SensorDropsConnection, BreakSocket, connVars, clientVars
<1>2. ConnInv'
  BY SensorKeeps DEF Inv, TypeOK, ConnInv
<1> QED
  BY <1>1, <1>2 DEF Inv, TypeOK, ConnInv, clientVars

LEMMA InvPreserved ==
  ASSUME Inv, [Next]_vars
  PROVE  Inv'
<1>1. CASE \E t \in Thread : Step(t)
  BY <1>1, ThreadKeeps
<1>2. CASE Environment
  BY <1>2, EnvironmentKeeps DEF Environment
<1>3. CASE UNCHANGED vars
  BY <1>3, EnvironmentKeeps DEF vars
<1> QED
  BY <1>1, <1>2, <1>3 DEF Next

(***************************************************************************)
(* The types of all variables, for any set of threads.                     *)
(***************************************************************************)
THEOREM TypeCorrect == Spec => []TypeOK
<1>1. Inv => TypeOK
  BY DEF Inv
<1> QED
  BY InitInv, InvPreserved, <1>1, PTL DEF Spec

(***************************************************************************)
(* Whatever the threads that share a Connection do, the connection that    *)
(* open() established while no with-block was about to close it is there   *)
(* until close() or a failed receive.                                      *)
(***************************************************************************)
THEOREM LastingConnectionStays == Spec => []LastingStays
<1>1. Inv => LastingStays
  BY DEF Inv
<1> QED
  BY InitInv, InvPreserved, <1>1, PTL DEF Spec

-----------------------------------------------------------------------------
(***************************************************************************)
(* The wedged connection.  WedgeStep is the action of WedgedUntilClose.    *)
(***************************************************************************)
WedgeStep ==
  /\ ~Wedged /\ Wedged' => \E t \in Thread : rx[t] = "error" /\ rx'[t] = "none"
  /\ Wedged /\ ~Wedged' => sock' = "fresh" /\ ~persistent'

\* A step that leaves flag and socket alone neither wedges nor repairs.
LEMMA SameSocket ==
  ASSUME UNCHANGED <<isOpen, sock>>
  PROVE  WedgeStep
  BY DEF WedgeStep, Wedged

LEMMA WedgeThread ==
  ASSUME Inv, NEW t \in Thread, Step(t)
  PROVE  WedgeStep
<1>1. CASE EnterContext(t) \/ OpenEnter(t)
  BY <1>1 DEF EnterContext, OpenEnter, Enter, EnterOpen, EnterWedged, EnterRefused,
              EnterConnects, connVars, WedgeStep, Wedged
<1>2. CASE ReceiveGivesUp(t)
  <2>1. rx[t] = "error" /\ rx'[t] = "none" /\ sock' = sock /\ ~isOpen'
    BY <1>2 DEF ReceiveGivesUp, ReceiveFails, Inv, TypeOK, ConnTypeOK
  <2> QED
    BY <2>1 DEF WedgeStep, Wedged
<1>3. CASE LeaveContext(t) \/ LeavingContext(t)
  BY <1>3 DEF LeaveContext, LeavingContext, ExitGoesOn, ExitReturns, ExitNeedless, ExitTests,
              ExitShuts, ExitTooLate, ExitCloses, connVars, WedgeStep, Wedged
<1>4. CASE CallClose(t)
  BY <1>4 DEF CallClose, Close, WedgeStep, Wedged
<1>5. CASE \/ StartBare(t) \/ SendRequest(t) \/ CallReceive(t)
           \/ \E a \in Answer : GetAnswer(t, a)
           \/ GetNothing(t) \/ ReceiveError(t) \/ OpenCheck(t) \/ OpenReturns(t)
  BY <1>5, SameSocket DEF StartBare, SendRequest, CallReceive, GetAnswer, GetNothing, ReceiveError,
       OpenCheck, OpenReturns, Send, ReceiveBlocks, ReceiveEmpty, ReceiveAnswer, ReceiveRaises,
       ReceiveTimesOut,
       MarkPersistent, connVars
<1> QED
  BY <1>1, <1>2, <1>3, <1>4, <1>5 DEF Step

(***************************************************************************)
(* For any number of threads: a connection that is connected but marked    *)
(* closed got there by a failed receive, and only close() gets it out.     *)
(***************************************************************************)
THEOREM WedgeNeedsClose == Spec => WedgedUntilClose
<1>1. Inv /\ [Next]_vars => [WedgeStep]_vars
  <2> SUFFICES ASSUME Inv, Next
               PROVE  WedgeStep
    BY DEF Inv
  <2>1. CASE Environment
    BY <2>1 DEF Environment, ConnEnvironment, SensorGoesDown, SensorBoots, SensorReady,
                SensorDropsConnection, BreakSocket, WedgeStep, Wedged
  <2>2. CASE \E t \in Thread : Step(t)
    BY <2>2, WedgeThread
  <2> QED
    BY <2>1, <2>2 DEF Next
<1>2. Spec => [][WedgeStep]_vars
  BY InitInv, InvPreserved, <1>1, PTL DEF Spec
<1> QED
  BY <1>2 DEF WedgedUntilClose, WedgeStep
-----------------------------------------------------------------------------
(***************************************************************************)
(* Nobody's answer.  Outside recv a thread has no receive() going on.      *)
(***************************************************************************)
RxFits == \A t \in Thread : pc[t] # "blocked" => rx[t] = "none"
WaitInv == RxFits /\ NoAnswerLeftOver

\* How many wait when one begins to, when one has done, and when no fewer do.
LEMMA WaitersCount ==
  ASSUME NEW W, NEW V, W \subseteq Thread, V \subseteq Thread
  PROVE  /\ Cardinality(W) \in Nat
         /\ W \subseteq V => Cardinality(W) <= Cardinality(V)
         /\ \A t \in Thread \ W : V = W \cup {t} => Cardinality(V) = Cardinality(W) + 1
         /\ \A t \in W : V = W \ {t} => Cardinality(V) = Cardinality(W) - 1
<1>1. IsFiniteSet(W) /\ IsFiniteSet(V)
  BY AnswerAssumption, FS_Subset
<1> QED
  BY <1>1, FS_CardinalityType, FS_Subset, FS_AddElement, FS_RemoveElement

LEMMA WaitInit == Init => WaitInv
  BY DEF Init, ConnInit, WaitInv, RxFits, NoAnswerLeftOver

LEMMA WaitStep ==
  ASSUME Inv, WaitInv, [Next]_vars
  PROVE  WaitInv'
<1> DEFINE W == {t \in Thread : Waiting(t)}
<1>a. /\ Cardinality(W) \in Nat /\ Cardinality(W') \in Nat
      /\ W \subseteq W' => Cardinality(W) <= Cardinality(W')
      /\ \A t \in Thread \ W : W' = W \cup {t} => Cardinality(W') = Cardinality(W) + 1
      /\ \A t \in W : W' = W \ {t} => Cardinality(W') = Cardinality(W) - 1
  BY WaitersCount
<1>b. /\ wire \in Seq(Answer) /\ pc \in [Thread -> Location] /\ rx \in [Thread -> RxState]
      /\ isOpen \in BOOLEAN
  BY DEF Inv, TypeOK, ConnTypeOK
<1>c. Len(wire) \in Nat
  BY <1>b
<1>d. isOpen => Len(wire) <= Cardinality(W)
  BY DEF WaitInv, NoAnswerLeftOver
<1>e. ASSUME RxFits', isOpen' => Len(wire') <= Cardinality(W') PROVE WaitInv'
  BY <1>e DEF WaitInv, NoAnswerLeftOver, Waiting
<1> HIDE DEF W
<1>1. ASSUME NEW t \in Thread, SendRequest(t) PROVE WaitInv'
  <2>1. /\ pc[t] = "request" /\ UNCHANGED <<isOpen, rx>>
        /\ pc' = [pc EXCEPT ![t] = IF isOpen THEN "answer" ELSE "leave"]
        /\ wire' = wire \/ wire' = Append(wire, t)
    BY <1>1 DEF SendRequest, Goto, Send
  <2>2. RxFits'
    BY <1>b, <2>1 DEF RxFits, WaitInv, Location
  <2>3. CASE isOpen
    <3>1. t \notin W
      BY <2>1 DEF W, Waiting, WaitInv, RxFits
    <3>2. W' = W \cup {t}
      BY <1>b, <2>1, <2>3 DEF W, Waiting
    <3>3. Cardinality(W') = Cardinality(W) + 1
      BY <1>a, <3>1, <3>2
    <3>4. Len(wire') <= Len(wire) + 1
      BY <1>b, <2>1, AnswerAssumption
    <3>5. Len(wire') \in Nat
      BY <1>b, <2>1, AnswerAssumption
    <3>6. Len(wire) <= Cardinality(W)
      BY <1>d, <2>3
    <3>7. Len(wire') <= Cardinality(W')
      BY <1>a, <1>c, <3>3, <3>4, <3>5, <3>6
    <3> QED
      BY <1>e, <2>2, <3>7
  <2> QED
    BY <1>e, <2>1, <2>2, <2>3
<1>f. ASSUME RxFits', W \subseteq W', isOpen' => isOpen /\ wire' = wire PROVE WaitInv'
  <2>1. Cardinality(W) <= Cardinality(W')
    BY <1>a, <1>f
  <2>2. isOpen' => wire' = wire /\ Len(wire) <= Cardinality(W)
    BY <1>f, <1>d
  <2>3. isOpen' => Len(wire') <= Cardinality(W')
    BY <1>a, <1>c, <2>1, <2>2
  <2> QED
    BY <1>f, <1>e, <2>3
<1>2. ASSUME NEW t \in Thread, NEW a \in Answer, GetAnswer(t, a) PROVE WaitInv'
  <2>1. /\ pc[t] = "blocked" /\ pc' = [pc EXCEPT ![t] = "leave"] /\ isOpen' = isOpen
        /\ rx' = [rx EXCEPT ![t] = "none"]
    BY <1>2 DEF GetAnswer, Goto, ReceiveAnswer
  <2>2. RxFits'
    BY <1>b, <2>1 DEF RxFits, WaitInv
  <2>3. ASSUME rx[t] = "live", NEW n \in 1..Len(wire), wire' = SubSeq(wire, n + 1, Len(wire))
        PROVE  WaitInv'
    <3>1. t \in W /\ W' = W \ {t}
      BY <1>b, <2>1, <2>3 DEF W, Waiting
    <3>2. Cardinality(W') = Cardinality(W) - 1
      BY <1>a, <3>1
    <3>3. Len(wire') = Len(wire) - n
      BY <1>b, <2>3, SMT
    <3>4. isOpen => Len(wire) - n <= Cardinality(W) - 1
      BY <1>a, <1>c, <1>d
    <3> QED
      BY <1>e, <2>1, <2>2, <3>2, <3>3, <3>4
  <2>4. CASE wire' = wire /\ rx[t] = "left"
    <3>1. W \subseteq W'
      BY <1>b, <2>1, <2>4 DEF W, Waiting
    <3> QED
      BY <1>f, <2>1, <2>2, <2>4, <3>1
  <2>5. ReceiveAnswer(t, a)
    BY <1>2 DEF GetAnswer
  <2>6. rx[t] = "live" => \E n \in 1..Len(wire) : wire' = SubSeq(wire, n + 1, Len(wire))
    BY <2>5 DEF ReceiveAnswer
  <2>7. rx[t] # "live" => rx[t] = "left" /\ wire' = wire
    BY <2>5 DEF ReceiveAnswer
  <2> QED
    BY <2>3, <2>4, <2>6, <2>7
<1>g. ASSUME RxFits', wire' = <<>> PROVE WaitInv'
  BY <1>a, <1>e, <1>g
<1>5. ASSUME NEW t \in Thread, EnterContext(t) \/ OpenEnter(t) PROVE WaitInv'
  <2>1. RxFits' /\ W' = W
    BY <1>b, <1>5 DEF EnterContext, OpenEnter, Goto, Enter, EnterOpen, EnterWedged, EnterRefused,
                      EnterConnects, connVars, RxFits, WaitInv, W, Waiting
  <2>2. wire' = <<>> \/ (isOpen' => isOpen /\ wire' = wire)
    BY <1>5 DEF EnterContext, OpenEnter, Enter, EnterOpen, EnterWedged, EnterRefused,
                EnterConnects, connVars
  <2> QED
    BY <1>f, <1>g, <2>1, <2>2
<1>6. ASSUME NEW t \in Thread,
             StartBare(t) \/ CallReceive(t) \/ ReceiveError(t) \/ OpenCheck(t) \/ OpenReturns(t)
      PROVE  WaitInv'
  <2>1. UNCHANGED <<isOpen, wire>>
    BY <1>6 DEF StartBare, CallReceive, ReceiveError, OpenCheck, OpenReturns,
         ReceiveBlocks, ReceiveRaises, ReceiveTimesOut, MarkPersistent, connVars
  <2>2. CASE StartBare(t) \/ OpenCheck(t) \/ OpenReturns(t)
    <3>1. UNCHANGED rx /\ pc[t] \notin {"answer", "blocked"}
      BY <2>2 DEF StartBare, OpenCheck, OpenReturns, Goto, MarkPersistent, connVars
    <3>2. \A u \in Thread : u # t => pc'[u] = pc[u]
      BY <1>b, <2>2 DEF StartBare, OpenCheck, OpenReturns, Goto
    <3>3. RxFits'
      BY <3>1, <3>2 DEF RxFits, WaitInv
    <3>4. W \subseteq W'
      BY <3>1, <3>2 DEF W, Waiting
    <3> QED
      BY <1>f, <2>1, <3>3, <3>4
  <2>3. CASE CallReceive(t)
    <3>1. CASE ReceiveBlocks(t) /\ Goto(t, "answer", "blocked")
      <4>1. RxFits' /\ W \subseteq W'
        BY <1>b, <3>1 DEF Goto, ReceiveBlocks, RxFits, WaitInv, W, Waiting
      <4> QED
        BY <1>f, <2>1, <4>1
    <3>2. CASE ~isOpen /\ Goto(t, "answer", "leave") /\ UNCHANGED connVars
      <4>1. RxFits' /\ ~isOpen'
        BY <1>b, <3>2 DEF Goto, connVars, RxFits, WaitInv
      <4> QED
        BY <1>e, <4>1
    <3> QED
      BY <2>3, <3>1, <3>2 DEF CallReceive
  <2>4. CASE ReceiveError(t)
    <3>1. RxFits' /\ W \subseteq W'
      BY <1>b, <2>4 DEF ReceiveError, ReceiveRaises, ReceiveTimesOut, clientVars, RxFits, WaitInv,
                        W, Waiting
    <3> QED
      BY <1>f, <2>1, <3>1
  <2> QED
    BY <1>6, <2>2, <2>3, <2>4
<1>7. ASSUME NEW t \in Thread, GetNothing(t) PROVE WaitInv'
  <2>1. RxFits' /\ isOpen' = isOpen
    BY <1>b, <1>7 DEF GetNothing, Goto, ReceiveEmpty, RxFits, WaitInv
  <2>2. CASE rx[t] = "live"
    BY <1>g, <1>7, <2>1, <2>2 DEF GetNothing, ReceiveEmpty
  <2>3. CASE rx[t] # "live"
    <3>1. wire' = wire /\ W \subseteq W'
      BY <1>b, <1>7, <2>3 DEF GetNothing, Goto, ReceiveEmpty, W, Waiting
    <3> QED
      BY <1>f, <2>1, <3>1
  <2> QED
    BY <2>2, <2>3
<1>8. ASSUME NEW t \in Thread,
             ReceiveGivesUp(t) \/ LeaveContext(t) \/ LeavingContext(t) \/ CallClose(t)
      PROVE  WaitInv'
  <2>1. RxFits'
    BY <1>b, <1>8 DEF ReceiveGivesUp, LeaveContext, LeavingContext, CallClose, Goto, ReceiveFails,
         ExitGoesOn, ExitReturns, ExitNeedless, ExitTests, ExitShuts, ExitTooLate, ExitCloses,
         Close, BlockedNow, connVars, clientVars, RxFits, WaitInv, RxState
  <2>2. CASE ~isOpen'
    BY <1>e, <2>1, <2>2
  <2>3. CASE isOpen'
    <3>1. LeaveContext(t) \/ LeavingContext(t)
      BY <1>8, <2>3 DEF ReceiveGivesUp, CallClose, ReceiveFails, Close
    <3>2. UNCHANGED <<isOpen, wire, rx>>
      BY <2>3, <3>1 DEF LeaveContext, LeavingContext, ExitGoesOn, ExitReturns, ExitNeedless,
           ExitTests, ExitShuts, ExitTooLate, ExitCloses, connVars
    <3>3. W \subseteq W'
      BY <1>b, <3>1, <3>2 DEF LeaveContext, LeavingContext, Goto, clientVars, W, Waiting
    <3> QED
      BY <1>f, <2>1, <3>2, <3>3
  <2> QED
    BY <2>2, <2>3
<1>9. CASE Environment \/ UNCHANGED vars
  <2>1. UNCHANGED <<isOpen, wire, rx, pc>>
    BY <1>9 DEF Environment, ConnEnvironment, SensorGoesDown, SensorBoots, SensorReady,
                SensorDropsConnection, vars, connVars, clientVars
  <2>2. RxFits' /\ W' = W
    BY <2>1 DEF RxFits, WaitInv, W, Waiting
  <2> QED
    BY <1>f, <2>1, <2>2
<1> QED
  BY <1>1, <1>2, <1>5, <1>6, <1>7, <1>8, <1>9 DEF Next, Step

(***************************************************************************)
(* For any number of threads: no answer on an open connection is left to   *)
(* a request that it does not belong to because its own gave up on it.     *)
(***************************************************************************)
THEOREM NoAnswerIsLeftOver == Spec => []NoAnswerLeftOver
<1>1. WaitInv => NoAnswerLeftOver
  BY DEF WaitInv
<1> QED
  BY InitInv, InvPreserved, WaitInit, WaitStep, <1>1, PTL DEF Spec
-----------------------------------------------------------------------------

(***************************************************************************)
(* A service is a client of the connection: what the clients keep, the     *)
(* services keep.                                                          *)
(***************************************************************************)
LEMMA ServicesAreClients ==
  ASSUME [ServiceNext]_allVars
  PROVE  [Next]_vars
<1>1. CASE ServiceNext
  <2>1. CASE Environment /\ UNCHANGED serviceVars
    BY <2>1 DEF Next
  <2>2. CASE OfferServices \/ DestroyServices
    BY <2>2 DEF OfferServices, DestroyServices
  <2>3. ASSUME NEW t \in Thread,
               CallCommand(t) \/ CallSetParameter(t) \/ Works(t) \/ Ends(t) \/ OthersStep(t)
        PROVE  Next
    BY <2>3 DEF CallCommand, CallSetParameter, Works, Ends, OthersStep, Step, Next
  <2> QED
    BY <1>1, <2>1, <2>2, <2>3 DEF ServiceNext, ServiceStep
<1>2. CASE UNCHANGED allVars
  BY <1>2 DEF allVars
<1> QED
  BY <1>1, <1>2

ServiceTypes ==
  /\ offered \in BOOLEAN
  /\ service \subseteq Thread /\ disturbed \subseteq service
  /\ got \in [Thread -> SUBSET Answer]

LEMMA ServiceTypesStep ==
  ASSUME Inv, ServiceTypes, [ServiceNext]_allVars
  PROVE  ServiceTypes'
<1> USE DEF ServiceTypes
<1>1. CASE OfferServices \/ DestroyServices
  BY <1>1 DEF OfferServices, DestroyServices
<1>2. ASSUME NEW t \in Thread, CallCommand(t) \/ CallSetParameter(t) PROVE ServiceTypes'
  BY <1>2 DEF CallCommand, CallSetParameter, Called
<1>3. ASSUME NEW t \in Thread, Works(t) PROVE ServiceTypes'
  BY <1>3 DEF Works
<1>4. ASSUME NEW t \in Thread, Ends(t) PROVE ServiceTypes'
  BY <1>4 DEF Ends
<1>5. ASSUME NEW t \in Thread, OthersStep(t) PROVE ServiceTypes'
  BY <1>5 DEF OthersStep
<1>6. CASE UNCHANGED serviceVars
  BY <1>6 DEF serviceVars
<1> QED
  BY <1>1, <1>2, <1>3, <1>4, <1>5, <1>6 DEF ServiceNext, ServiceStep, allVars

-----------------------------------------------------------------------------
(***************************************************************************)
(* The sockets that close() has dropped.  Their readers are blocked in     *)
(* recv, each on one of them.                                              *)
(***************************************************************************)
LeftInv ==
  /\ \A d \in left : \A t \in d.readers : rx[t] = "left"
  /\ \A d, e \in left : \A t \in d.readers : t \in e.readers => d = e

Own(w, t) == \A k \in 1..Len(w) : w[k] = t
LeftOwn(t) == \A d \in left : t \in d.readers => Own(d.wire, t)

\* What is left of one's own answers are one's own answers.
LEMMA OwnRest ==
  ASSUME NEW w \in Seq(Answer), NEW t, Own(w, t), NEW n \in 1..Len(w)
  PROVE  Own(SubSeq(w, n + 1, Len(w)), t)
<1> DEFINE v == SubSeq(w, n + 1, Len(w))
<1>1. Len(v) = Len(w) - n
  BY SMT
<1>2. \A k \in 1..Len(v) : v[k] = w[n + k] /\ n + k \in 1..Len(w)
  BY <1>1, SMT
<1> HIDE DEF v
<1>3. Own(v, t)
  BY <1>2 DEF Own
<1> QED
  BY <1>3 DEF v

LEMMA OwnKept ==
  ASSUME NEW R, R \subseteq Thread, NEW w \in Seq(Answer), NEW t, Own(w, t)
  PROVE  \A d \in Kept(R, w) : Own(d.wire, t)
<1>1. Own(First(w), t)
  BY DEF Own, First
<1> QED
  BY <1>1, KeptIsDropped

\* A reader has left a dropped socket: it reads on none.
LEMMA LeaveKeepsLeft ==
  ASSUME left \subseteq Dropped, LeftInv, NEW d \in left, NEW t \in d.readers,
         NEW w \in Seq(Answer), LeaveDropped(d, t, w),
         \A u \in Thread \ {t} : rx'[u] = rx[u]
  PROVE  LeftInv'
<1>1. d.readers \subseteq Thread /\ \A e \in left : e.readers \subseteq Thread
  BY DEF Dropped
<1>2. \A e \in left' : \/ e \in left /\ e # d
                       \/ e.readers = d.readers \ {t}
  BY <1>1, KeptIsDropped DEF LeaveDropped
<1>3. \A e \in left' : t \notin e.readers
  BY <1>2 DEF LeftInv
<1>4. \A e \in left' : \E f \in left : e.readers \subseteq f.readers
  BY <1>2
<1>5. \A e \in left' : \A u \in e.readers : rx'[u] = "left"
  BY <1>1, <1>3, <1>4 DEF LeftInv
<1>6. ASSUME NEW e \in left', NEW f \in left', NEW u \in e.readers, u \in f.readers PROVE e = f
  <2>1. CASE e \in left /\ e # d /\ f \in left /\ f # d
    BY <1>6, <2>1 DEF LeftInv
  <2>2. ASSUME NEW g \in left', g \notin left \/ g = d PROVE g \in Kept(d.readers \ {t}, w)
    BY <2>2 DEF LeaveDropped
  <2>3. ASSUME NEW g \in left', g \in left, g # d, u \in g.readers, u \in d.readers PROVE FALSE
    BY <2>3 DEF LeftInv
  <2>4. ASSUME NEW g \in left', g \in Kept(d.readers \ {t}, w) PROVE g.readers = d.readers \ {t}
    BY <1>1, <2>4, KeptIsDropped
  <2>5. CASE e \in Kept(d.readers \ {t}, w) /\ f \in Kept(d.readers \ {t}, w)
    BY <2>5 DEF Kept
  <2>6. u \in Thread
    BY <1>1, <1>4
  <2> QED
    BY <1>6, <2>1, <2>2, <2>3, <2>4, <2>5
<1> QED
  BY <1>5, <1>6 DEF LeftInv

LEMMA GiveUpKeepsLeft ==
  ASSUME left \subseteq Dropped, LeftInv, NEW t \in Thread, GiveUpDropped(t),
         \A u \in Thread \ {t} : rx'[u] = rx[u], rx[t] # "none"
  PROVE  LeftInv'
<1>1. CASE rx[t] = "left"
  <2>1. PICK d \in left : t \in d.readers /\ LeaveDropped(d, t, d.wire)
    BY <1>1 DEF GiveUpDropped
  <2>2. d.wire \in Seq(Answer)
    BY DEF Dropped
  <2> QED
    BY <2>1, <2>2, LeaveKeepsLeft
<1>2. CASE rx[t] # "left"
  <2>1. left' = left /\ \A d \in left : t \notin d.readers /\ d.readers \subseteq Thread
    BY <1>2 DEF GiveUpDropped, LeftInv, Dropped
  <2> QED
    BY <2>1 DEF LeftInv
<1> QED
  BY <1>1, <1>2

LEMMA LeftInit == Init => LeftInv
  BY DEF Init, ConnInit, LeftInv

LEMMA LeftStep ==
  ASSUME Inv, WaitInv, LeftInv, [Next]_vars
  PROVE  LeftInv'
<1>a. /\ left \subseteq Dropped /\ rx \in [Thread -> RxState] /\ wire \in Seq(Answer)
      /\ \A d \in left : d.readers \subseteq Thread
  BY DEF Inv, TypeOK, ConnTypeOK, Dropped
<1>1. ASSUME left' = left, \A t \in Thread : rx[t] = "left" => rx'[t] = "left"
      PROVE  LeftInv'
  BY <1>a, <1>1 DEF LeftInv
<1>2. ASSUME NEW t \in Thread, CallClose(t) PROVE LeftInv'
  <2>1. \A u \in Thread : rx[u] = "left" => rx'[u] = "left"
    BY <1>2 DEF CallClose, Close, BlockedNow
  <2>2. CASE isOpen
    BY <1>1, <1>2, <2>1, <2>2 DEF CallClose, Close
  <2>3. CASE ~isOpen
    <3>1. left' = left \cup Kept(Receivers, wire)
      BY <1>2, <2>3 DEF CallClose, Close
    <3>2. \A u \in Receivers : u \in Thread /\ rx[u] = "live" /\ rx'[u] = "left"
      BY <1>2, <2>3 DEF CallClose, Close, BlockedNow, Receivers
    <3>3. \A d \in Kept(Receivers, wire) : d.readers = Receivers
      BY <1>a, <3>2, KeptIsDropped
    <3>4. \A d \in left, e \in Kept(Receivers, wire), u \in Thread : ~(u \in d.readers /\ u \in e.readers)
      BY <3>2, <3>3 DEF LeftInv
    <3>5. \A d, e \in Kept(Receivers, wire) : d = e
      BY DEF Kept
    <3>6. \A d \in left' : \A u \in d.readers : rx'[u] = "left"
      BY <1>a, <2>1, <3>1, <3>2, <3>3 DEF LeftInv
    <3>7. ASSUME NEW d \in left', NEW e \in left', NEW u \in d.readers, u \in e.readers PROVE d = e
      <4>1. u \in Thread
        BY <1>a, <3>1, <3>2, <3>3
      <4> QED
        BY <3>1, <3>4, <3>5, <3>7, <4>1 DEF LeftInv
    <3> QED
      BY <3>6, <3>7 DEF LeftInv
  <2> QED
    BY <2>2, <2>3
<1>3. ASSUME NEW t \in Thread, NEW a \in Answer, GetAnswer(t, a) PROVE LeftInv'
  <2>1. \A u \in Thread \ {t} : rx'[u] = rx[u]
    BY <1>a, <1>3 DEF GetAnswer, ReceiveAnswer
  <2>2. CASE rx[t] = "live" /\ left' = left
    BY <1>1, <2>1, <2>2
  <2>3. ASSUME NEW d \in left, t \in d.readers, NEW n \in 1..Len(d.wire),
               LeaveDropped(d, t, SubSeq(d.wire, n + 1, Len(d.wire)))
        PROVE  LeftInv'
    <3>1. d.wire \in Seq(Answer)
      BY <1>a DEF Dropped
    <3>2. SubSeq(d.wire, n + 1, Len(d.wire)) \in Seq(Answer)
      BY <3>1, SMT
    <3> QED
      BY <1>a, <2>1, <2>3, <3>2, LeaveKeepsLeft
  <2> QED
    BY <1>3, <2>2, <2>3 DEF GetAnswer, ReceiveAnswer
<1>4. ASSUME NEW t \in Thread, GetNothing(t) \/ ReceiveRaises(t) PROVE LeftInv'
  BY <1>a, <1>4, GiveUpKeepsLeft DEF GetNothing, ReceiveEmpty, ReceiveRaises
<1>5. ASSUME NEW t \in Thread,
             \/ EnterContext(t) \/ StartBare(t) \/ SendRequest(t) \/ CallReceive(t)
             \/ ReceiveTimesOut(t) \/ ReceiveGivesUp(t) \/ LeavingContext(t) \/ LeaveContext(t)
             \/ OpenEnter(t) \/ OpenCheck(t) \/ OpenReturns(t)
      PROVE  LeftInv'
  <2>1. left' = left
    BY <1>5 DEF EnterContext, StartBare, SendRequest, CallReceive, ReceiveTimesOut,
         ReceiveGivesUp, LeavingContext, LeaveContext, OpenEnter, OpenCheck, OpenReturns,
         Enter, EnterOpen, EnterWedged, EnterRefused, EnterConnects, MarkPersistent, ExitGoesOn,
         ExitReturns, ExitNeedless, ExitTests, ExitShuts, ExitTooLate, ExitCloses,
         Send, ReceiveBlocks, ReceiveFails, connVars, clientVars
  <2>2. CASE CallReceive(t)
    <3>1. rx[t] = "none" /\ \A u \in Thread \ {t} : rx'[u] = rx[u]
      BY <1>a, <2>2 DEF CallReceive, Goto, WaitInv, RxFits, ReceiveBlocks, connVars
    <3> QED
      BY <1>1, <2>1, <3>1
  <2>3. CASE ~CallReceive(t)
    <3>1. \A u \in Thread : rx[u] = "left" => rx'[u] = "left"
      BY <1>a, <1>5, <2>3 DEF EnterContext, StartBare, SendRequest, ReceiveTimesOut,
           ReceiveGivesUp, LeavingContext, LeaveContext, OpenEnter, OpenCheck, OpenReturns,
           Enter, EnterOpen, EnterWedged, EnterRefused, EnterConnects, MarkPersistent, ExitGoesOn,
           ExitReturns, ExitNeedless, ExitTests, ExitShuts, ExitTooLate, ExitCloses, BlockedNow,
           Send, ReceiveFails, connVars, clientVars
    <3> QED
      BY <1>1, <2>1, <3>1
  <2> QED
    BY <2>2, <2>3
<1>6. CASE Environment \/ UNCHANGED vars
  BY <1>1, <1>6 DEF Environment, ConnEnvironment, SensorGoesDown, SensorBoots, SensorReady,
                    SensorDropsConnection, vars, connVars
<1> QED
  BY <1>2, <1>3, <1>4, <1>5, <1>6 DEF Next, Step, ReceiveError

(***************************************************************************)
(* What a dropped socket still has for a thread that waits on it is the    *)
(* thread's own answer, if what was under way for it was.                  *)
(***************************************************************************)
LEMMA LeftStaysOwn ==
  ASSUME Inv, NEW u \in Thread, Step(u), NEW t \in Thread, LeftOwn(t),
         rx[t] = "live" => Own(wire, t)
  PROVE  LeftOwn(t)'
<1>a. /\ wire \in Seq(Answer) /\ \A d \in left : d.wire \in Seq(Answer) /\ d.readers \subseteq Thread
  BY DEF Inv, TypeOK, ConnTypeOK, Dropped
<1>1. CASE left' = left
  BY <1>1 DEF LeftOwn
<1>2. ASSUME NEW d \in left, NEW v \in Thread, NEW w \in Seq(Answer), LeaveDropped(d, v, w),
             t \in d.readers => Own(w, t)
      PROVE  LeftOwn(t)'
  <2>1. \A e \in Kept(d.readers \ {v}, w) : t \in e.readers => Own(e.wire, t)
    <3>1. \A e \in Kept(d.readers \ {v}, w) : e.readers = d.readers \ {v}
      BY <1>a, KeptIsDropped
    <3>2. CASE t \in d.readers
      BY <1>a, <1>2, <3>2, OwnKept
    <3> QED
      BY <3>1, <3>2
  <2> QED
    BY <1>2, <2>1 DEF LeftOwn, LeaveDropped
<1>3. CASE CallClose(u) /\ left' # left
  <2>1. left' = left \cup Kept(Receivers, wire)
    BY <1>3 DEF CallClose, Close
  <2>2. \A e \in Kept(Receivers, wire) : t \in e.readers => Own(e.wire, t)
    <3>1. \A e \in Kept(Receivers, wire) : e.readers = Receivers
      BY <1>a, KeptIsDropped DEF Receivers
    <3>2. CASE t \in Receivers
      BY <1>a, <3>2, OwnKept DEF Receivers
    <3> QED
      BY <3>1, <3>2
  <2> QED
    BY <2>1, <2>2 DEF LeftOwn
<1>4. ASSUME NEW a \in Answer, GetAnswer(u, a) PROVE LeftOwn(t)'
  <2>1. ASSUME NEW d \in left, NEW n \in 1..Len(d.wire),
               LeaveDropped(d, u, SubSeq(d.wire, n + 1, Len(d.wire)))
        PROVE  LeftOwn(t)'
    <3>1. SubSeq(d.wire, n + 1, Len(d.wire)) \in Seq(Answer)
      BY <1>a, SMT
    <3>2. t \in d.readers => Own(SubSeq(d.wire, n + 1, Len(d.wire)), t)
      BY <1>a, OwnRest DEF LeftOwn
    <3> QED
      BY <1>2, <2>1, <3>1, <3>2
  <2> QED
    BY <1>1, <1>4, <2>1 DEF GetAnswer, ReceiveAnswer
<1>5. CASE GiveUpDropped(u)
  <2>1. ASSUME NEW d \in left, LeaveDropped(d, u, d.wire) PROVE LeftOwn(t)'
    BY <1>a, <1>2, <2>1 DEF LeftOwn
  <2> QED
    BY <1>1, <1>5, <2>1 DEF GiveUpDropped
<1>6. \/ left' = left \/ CallClose(u) \/ GiveUpDropped(u)
      \/ \E a \in Answer : GetAnswer(u, a)
  BY DEF Step, EnterContext, StartBare, SendRequest, CallReceive, GetNothing, ReceiveError,
       ReceiveGivesUp, LeavingContext, LeaveContext, OpenEnter, OpenCheck, OpenReturns,
       Enter, EnterOpen, EnterWedged, EnterRefused, EnterConnects, MarkPersistent, ExitGoesOn,
       ExitReturns, ExitNeedless, ExitTests, ExitShuts, ExitTooLate, ExitCloses, ReceiveEmpty,
       ReceiveRaises, ReceiveTimesOut, Send, ReceiveBlocks, ReceiveFails, connVars, clientVars
<1> QED
  BY <1>1, <1>3, <1>4, <1>5, <1>6

(***************************************************************************)
(* The inductive invariant.  One service runs at a time; while nobody      *)
(* disturbs it nobody else waits, and what is under way once it has sent   *)
(* its request, be it on a socket that has been dropped meanwhile, is its  *)
(* own answer.  That nothing was under way when it sent the request is     *)
(* NoAnswerLeftOver.                                                       *)
(***************************************************************************)
Undisturbed(t) ==
  /\ \A u \in Thread \ {t} : ~Waiting(u)
  /\ pc[t] \in {"answer", "blocked"} => Own(wire, t)
  /\ LeftOwn(t)
  /\ got[t] \subseteq {t}

ServiceInv ==
  /\ \A s, t \in service : s = t
  /\ \A t \in Thread \ service : got[t] = {}
  /\ \A t \in service \ disturbed : Undisturbed(t)

LEMMA ServiceInitInv == ServiceInit => Init /\ ServiceTypes /\ ServiceInv
  BY DEF ServiceInit, ServiceTypes, ServiceInv

\* Nobody waits on an open connection, then nothing is under way.
LEMMA NothingUnderWay ==
  ASSUME Inv, WaitInv, isOpen, \A u \in Thread : ~Waiting(u)
  PROVE  wire = <<>>
<1>1. {u \in Thread : Waiting(u)} = {}
  OBVIOUS
<1>2. Cardinality({u \in Thread : Waiting(u)}) = 0
  BY <1>1, FS_EmptySet
<1>3. Len(wire) <= 0
  BY <1>2 DEF WaitInv, NoAnswerLeftOver
<1> QED
  BY <1>3 DEF Inv, TypeOK, ConnTypeOK

\* A step of another thread that does not wait afterwards makes nobody wait and
\* puts nothing under way.
LEMMA OthersAreQuiet ==
  ASSUME Inv, NEW u \in Thread, Step(u), ~Waiting(u)',
         NEW t \in Thread, t # u
  PROVE  /\ \A v \in Thread : Waiting(v)' => Waiting(v)
         /\ pc'[t] = pc[t]
         /\ Own(wire, t) => Own(wire', t)
<1>a. /\ wire \in Seq(Answer) /\ pc \in [Thread -> Location] /\ rx \in [Thread -> RxState]
      /\ isOpen \in BOOLEAN
  BY DEF Inv, TypeOK, ConnTypeOK
<1>1. /\ \A v \in Thread \ {u} : pc'[v] = pc[v]
      /\ \A v \in Thread \ {u} : rx'[v] \in {rx[v], "stale", "left"}
  BY <1>a DEF Step, EnterContext, StartBare, SendRequest, CallReceive, GetAnswer, GetNothing,
       ReceiveError, ReceiveGivesUp, LeavingContext, LeaveContext, OpenEnter, OpenCheck,
       OpenReturns, CallClose, Goto, Enter, EnterOpen, EnterWedged, EnterRefused, EnterConnects,
       MarkPersistent, ExitGoesOn, ExitReturns, ExitNeedless, ExitTests, ExitShuts, ExitTooLate,
       ExitCloses, Close, BlockedNow, Send, ReceiveBlocks, ReceiveAnswer, ReceiveEmpty,
       ReceiveRaises, ReceiveTimesOut, ReceiveFails, connVars, clientVars
<1>2. \A v \in Thread : Waiting(v)' => Waiting(v)
  BY <1>1 DEF Waiting
<1>3. CASE wire' = wire \/ wire' = <<>>
  BY <1>1, <1>2, <1>3 DEF Own
<1>4. CASE SendRequest(u)
  <2>1. pc'[u] # "answer"
    BY DEF Waiting
  <2>2. ~isOpen
    BY <1>a, <1>4, <2>1 DEF SendRequest, Goto
  <2>3. wire' = wire
    BY <1>4, <2>2 DEF SendRequest, Send, Delivered
  <2> QED
    BY <1>3, <2>3
<1>5. ASSUME NEW n \in 1..Len(wire), wire' = SubSeq(wire, n + 1, Len(wire))
      PROVE  Own(wire, t) => Own(wire', t)
  BY <1>a, <1>5, OwnRest
<1>6. CASE \E a \in Answer : GetAnswer(u, a)
  BY <1>1, <1>2, <1>3, <1>5, <1>6 DEF GetAnswer, ReceiveAnswer
<1>7. CASE ~SendRequest(u) /\ ~\E a \in Answer : GetAnswer(u, a)
  <2>1. wire' = <<>> \/ wire' = wire
    BY <1>7 DEF Step, EnterContext, StartBare, CallReceive, GetNothing,
       ReceiveError, ReceiveGivesUp, LeavingContext, LeaveContext, OpenEnter, OpenCheck,
       OpenReturns, CallClose, Enter, EnterOpen, EnterWedged, EnterRefused, EnterConnects,
       MarkPersistent, ExitGoesOn, ExitReturns, ExitNeedless, ExitTests, ExitShuts, ExitTooLate,
       ExitCloses, Close, ReceiveBlocks, ReceiveEmpty, ReceiveRaises,
       ReceiveTimesOut, ReceiveFails, connVars, clientVars
  <2> QED
    BY <1>3, <2>1
<1> QED
  BY <1>4, <1>6, <1>7

LEMMA ServiceInvStep ==
  ASSUME Inv, WaitInv, LeftInv, ServiceTypes, ServiceInv, [ServiceNext]_allVars
  PROVE  ServiceInv'
<1>a. /\ wire \in Seq(Answer) /\ pc \in [Thread -> Location] /\ rx \in [Thread -> RxState]
      /\ isOpen \in BOOLEAN /\ inside \in [Thread -> BOOLEAN]
  BY DEF Inv, TypeOK, ConnTypeOK
<1>b. service \subseteq Thread /\ got \in [Thread -> SUBSET Answer] /\ disturbed \subseteq service
  BY DEF ServiceTypes
<1>c. /\ \A s, t \in service : s = t
      /\ \A t \in Thread \ service : got[t] = {}
      /\ \A t \in service \ disturbed : Undisturbed(t)
  BY DEF ServiceInv
<1>1. CASE OfferServices \/ DestroyServices \/ UNCHANGED allVars
  <2>1. UNCHANGED <<pc, rx, wire, left, got, service, disturbed>>
    BY <1>1 DEF OfferServices, DestroyServices, allVars, serviceVars, vars, connVars, clientVars
  <2> QED
    BY <2>1 DEF ServiceInv, Undisturbed, LeftOwn, Waiting
<1>2. CASE Environment /\ UNCHANGED serviceVars
  <2>1. UNCHANGED <<pc, rx, wire, left, got, service, disturbed>>
    BY <1>2 DEF Environment, ConnEnvironment, SensorGoesDown, SensorBoots, SensorReady,
                SensorDropsConnection, serviceVars, clientVars
  <2> QED
    BY <2>1 DEF ServiceInv, Undisturbed, LeftOwn, Waiting
<1>3. ASSUME NEW t \in Thread, CallCommand(t) \/ CallSetParameter(t) PROVE ServiceInv'
  <2>1. /\ service = {} /\ service' = {t} /\ got' = got /\ rx' = rx
        /\ disturbed' = disturbed \cup {s \in {t} : \E u \in Thread \ service : Waiting(u)}
        /\ pc' = [pc EXCEPT ![t] = "request"]
    BY <1>3 DEF CallCommand, CallSetParameter, Called, GroupFree, StartBare, EnterContext, Goto,
                Enter, EnterOpen, EnterWedged, EnterRefused, EnterConnects, connVars
  <2>2. t \in service' \ disturbed' => \A u \in Thread : ~Waiting(u)
    BY <2>1
  <2>3. t \in service' \ disturbed' => \A u \in Thread \ {t} : ~Waiting(u)'
    BY <1>a, <2>1, <2>2 DEF Waiting
  <2>4. pc'[t] = "request" /\ got'[t] = {} /\ \A u \in Thread \ {t} : got'[u] = {}
    BY <1>a, <1>c, <2>1
  <2>5. LeftOwn(t)'
    <3>1. rx[t] = "none" /\ left' = left
      BY <1>3 DEF CallCommand, CallSetParameter, StartBare, EnterContext, Goto, Enter, EnterOpen,
                  EnterWedged, EnterRefused, EnterConnects, connVars, WaitInv, RxFits
    <3> QED
      BY <3>1 DEF LeftInv, LeftOwn
  <2>6. t \in service' \ disturbed' => Undisturbed(t)'
    BY <2>3, <2>4, <2>5 DEF Undisturbed
  <2> QED
    BY <2>1, <2>4, <2>6 DEF ServiceInv
<1>4. ASSUME NEW t \in Thread, Works(t) PROVE ServiceInv'
  <2>1. t \in service /\ service' = service /\ disturbed' = disturbed
    BY <1>4 DEF Works
  <2>2. service = {t} /\ \A u \in Thread \ {t} : got'[u] = {}
    BY <1>b, <1>c, <1>4, <2>1 DEF Works
  <2>3. SUFFICES ASSUME t \notin disturbed PROVE Undisturbed(t)'
    BY <2>1, <2>2 DEF ServiceInv
  <2>4. Undisturbed(t)
    BY <1>c, <2>1, <2>3
  <2>5. /\ \A v \in Thread \ {t} : pc'[v] = pc[v] /\ rx'[v] \in {rx[v], "stale"}
    BY <1>a, <1>4 DEF Works, SendRequest, CallReceive, GetAnswer, GetNothing, ReceiveError,
         ReceiveGivesUp, LeavingContext, ExitGoesOn, ExitTests, ExitShuts, Goto, Send,
         ReceiveBlocks, ReceiveAnswer, ReceiveEmpty, ReceiveRaises, ReceiveTimesOut, ReceiveFails,
         connVars, clientVars
  <2>6. \A u \in Thread \ {t} : ~Waiting(u)'
    BY <2>4, <2>5 DEF Undisturbed, Waiting
  <2>10. LeftOwn(t)'
    <3>1. Step(t)
      BY <1>4 DEF Works, Step
    <3>2. rx[t] = "live" => Own(wire, t)
      BY <2>4 DEF Undisturbed, WaitInv, RxFits
    <3> QED
      BY <2>4, <3>1, <3>2, LeftStaysOwn DEF Undisturbed
  <2>7. CASE SendRequest(t) /\ UNCHANGED got
    <3>1. pc[t] = "request" /\ (wire' = wire \/ wire' = Append(wire, t))
          /\ pc' = [pc EXCEPT ![t] = IF isOpen THEN "answer" ELSE "leave"]
      BY <2>7 DEF SendRequest, Goto, Send
    <3>2. ~Waiting(t)
      BY <3>1 DEF Waiting, WaitInv, RxFits
    <3>3. isOpen => wire = <<>>
      <4>1. \A u \in Thread : ~Waiting(u)
        BY <2>4, <3>2 DEF Undisturbed
      <4> QED
        BY <4>1, NothingUnderWay
    <3>4. pc'[t] \in {"answer", "blocked"} => wire' = <<>> \/ wire' = <<t>>
      <4>1. pc'[t] = IF isOpen THEN "answer" ELSE "leave"
        BY <1>a, <3>1
      <4>2. CASE isOpen
        <5>1. wire' = <<>> \/ wire' = Append(<<>>, t)
          BY <3>1, <3>3, <4>2
        <5> QED
          BY <5>1
      <4> QED
        BY <4>1, <4>2
    <3>5. pc'[t] \in {"answer", "blocked"} => Own(wire', t)
      BY <3>4 DEF Own
    <3> QED
      BY <2>4, <2>6, <2>7, <2>10, <3>5 DEF Undisturbed
  <2>8. ASSUME NEW a \in Answer, GetAnswer(t, a), got' = [got EXCEPT ![t] = {a}]
        PROVE  Undisturbed(t)'
    <3>1. pc[t] = "blocked" /\ pc' = [pc EXCEPT ![t] = "leave"]
      BY <2>8 DEF GetAnswer, Goto
    <3>3. ASSUME NEW d \in left, t \in d.readers, NEW n \in 1..Len(d.wire), a = Head(d.wire)
          PROVE  a = t
      <4>1. d.wire \in Seq(Answer)
        BY DEF Inv, TypeOK, ConnTypeOK, Dropped
      <4>2. 1 \in 1..Len(d.wire) /\ Head(d.wire) = d.wire[1]
        BY <3>3, <4>1
      <4> QED
        BY <2>4, <3>3, <4>2 DEF Undisturbed, LeftOwn, Own
    <3>4. a = t
      <4>1. CASE \E n \in 1..Len(wire) : a = Head(wire)
        <5>1. 1 \in 1..Len(wire) /\ Head(wire) = wire[1]
          BY <1>a, <4>1
        <5> QED
          BY <2>4, <3>1, <4>1, <5>1 DEF Undisturbed, Own
      <4> QED
        BY <2>8, <3>3, <4>1 DEF GetAnswer, ReceiveAnswer
    <3>5. got'[t] = {t} /\ pc'[t] = "leave"
      BY <1>a, <1>b, <2>8, <3>1, <3>4
    <3> QED
      BY <2>6, <2>10, <3>5 DEF Undisturbed
  <2>9. CASE /\ \/ CallReceive(t) \/ GetNothing(t) \/ ReceiveError(t) \/ ReceiveGivesUp(t)
                \/ LeavingContext(t)
             /\ UNCHANGED got
    <3>1. wire' = wire \/ wire' = <<>>
      BY <2>9 DEF CallReceive, GetNothing, ReceiveError, ReceiveGivesUp, LeavingContext,
           ExitGoesOn, ExitTests, ExitShuts, ReceiveBlocks,
           ReceiveEmpty, ReceiveRaises, ReceiveTimesOut, ReceiveFails, connVars
    <3>2. pc'[t] \in {"answer", "blocked"} => pc[t] \in {"answer", "blocked"}
      BY <2>9 DEF CallReceive, GetNothing, ReceiveError, ReceiveGivesUp, LeavingContext, Goto,
                  clientVars
    <3>3. pc'[t] \in {"answer", "blocked"} => Own(wire', t)
      BY <2>4, <3>1, <3>2 DEF Undisturbed, Own
    <3> QED
      BY <2>4, <2>6, <2>9, <2>10, <3>3 DEF Undisturbed
  <2> QED
    BY <1>4, <2>7, <2>8, <2>9 DEF Works
<1>5. ASSUME NEW t \in Thread, Ends(t) PROVE ServiceInv'
  <2>1. service = {t} /\ service' = {}
    BY <1>c, <1>5 DEF Ends
  <2>2. \A u \in Thread : got'[u] = {}
    BY <1>b, <1>c, <1>5, <2>1 DEF Ends
  <2> QED
    BY <2>1, <2>2 DEF ServiceInv
<1>6. ASSUME NEW u \in Thread, OthersStep(u) PROVE ServiceInv'
  <2>1. /\ u \notin service /\ Step(u) /\ UNCHANGED <<service, got>>
        /\ disturbed' = IF Waiting(u)' THEN service ELSE disturbed
    BY <1>6 DEF OthersStep
  <2>2. SUFFICES ASSUME NEW t \in service, t \notin disturbed', ~Waiting(u)'
                 PROVE  Undisturbed(t)'
    BY <1>c, <2>1 DEF ServiceInv
  <2>3. t \in Thread /\ t # u /\ Undisturbed(t)
    BY <1>b, <1>c, <2>1, <2>2
  <2>4. /\ \A v \in Thread : Waiting(v)' => Waiting(v)
        /\ pc'[t] = pc[t]
        /\ Own(wire, t) => Own(wire', t)
    BY <2>1, <2>2, <2>3, OthersAreQuiet
  <2>5. \A v \in Thread \ {t} : ~Waiting(v)'
    BY <2>3, <2>4 DEF Undisturbed
  <2>6. pc'[t] \in {"answer", "blocked"} => Own(wire', t)
    BY <2>3, <2>4 DEF Undisturbed
  <2>7. LeftOwn(t)'
    <3>1. rx[t] = "live" => Own(wire, t)
      BY <2>3 DEF Undisturbed, WaitInv, RxFits
    <3> QED
      BY <2>1, <2>3, <3>1, LeftStaysOwn DEF Undisturbed
  <2> QED
    BY <2>1, <2>3, <2>5, <2>6, <2>7 DEF Undisturbed
<1> QED
  BY <1>1, <1>2, <1>3, <1>4, <1>5, <1>6 DEF ServiceNext, ServiceStep

AllInv == Inv /\ WaitInv /\ LeftInv /\ ServiceTypes /\ ServiceInv

LEMMA AllInvHolds == ServiceSpec => []AllInv
<1>1. ServiceInit => AllInv
  BY ServiceInitInv, InitInv, WaitInit, LeftInit DEF AllInv
<1>2. AllInv /\ [ServiceNext]_allVars => AllInv'
  BY ServicesAreClients, InvPreserved, WaitStep, LeftStep, ServiceTypesStep, ServiceInvStep DEF AllInv
<1> QED
  BY <1>1, <1>2, PTL DEF ServiceSpec

(***************************************************************************)
(* The types of the services' variables and of those of the clients.       *)
(***************************************************************************)
THEOREM ServiceTypeCorrect == ServiceSpec => []ServiceTypeOK
<1>1. AllInv => ServiceTypeOK
  BY DEF AllInv, Inv, ServiceTypes, ServiceTypeOK
<1> QED
  BY <1>1, AllInvHolds, PTL

(***************************************************************************)
(* For any number of threads: whatever times out, fails or is closed, a    *)
(* service reports the sensor's answer to its own request unless somebody  *)
(* outside the callback group has used the connection meanwhile.           *)
(***************************************************************************)
THEOREM ServicesGetTheirAnswer == ServiceSpec => []AnswersOwnRequest
<1>1. AllInv => AnswersOwnRequest
  BY DEF AllInv, ServiceInv, Undisturbed, AnswersOwnRequest
<1> QED
  BY <1>1, AllInvHolds, PTL
=============================================================================
