-------------------------- MODULE ConnectionClients --------------------------
(***************************************************************************)
(* Threads that use one Connection object in every way the driver uses it: *)
(*   - a request inside a context manager (Driver.get_parameter,           *)
(*     Driver.set_parameter),                                              *)
(*   - a request without one (Driver.run_command),                         *)
(*   - open() for a lasting connection (Driver.streaming_on,               *)
(*     Driver._attempt_reconnect),                                         *)
(*   - close().                                                            *)
(* The driver's own locks are not here: this module is about what the      *)
(* Connection object promises to threads that nobody coordinates.          *)
(***************************************************************************)
EXTENDS Connection

VARIABLES
  pc,      \* where each thread is
  inside,  \* whether it is in a with-block
  lasting  \* history: some open() has returned True, with the connection open and
           \* nobody about to close it on leaving a with-block, and since then nobody
           \* has called close() and no receive() has failed

\* The sensor's answers are told apart by the thread that asked.
ASSUME AnswerAssumption == Thread \subseteq Answer /\ IsFiniteSet(Thread)

clientVars == <<pc, inside, lasting>>
vars == <<connVars, clientVars>>

Location == {"idle", "request", "answer", "blocked", "leave", "opening", "opened"}

TypeOK ==
  /\ ConnTypeOK
  /\ pc \in [Thread -> Location]
  /\ inside \in [Thread -> BOOLEAN]
  /\ lasting \in BOOLEAN

Init ==
  /\ ConnInit
  /\ pc = [t \in Thread |-> "idle"]
  /\ inside = [t \in Thread |-> FALSE]
  /\ lasting = FALSE

Goto(t, from, to) ==
  /\ pc[t] = from
  /\ pc' = [pc EXCEPT ![t] = to]

-----------------------------------------------------------------------------
\* with connection as sensor:
EnterContext(t) ==
  /\ Goto(t, "idle", "request")
  /\ Enter
  /\ inside' = [inside EXCEPT ![t] = TRUE]
  /\ UNCHANGED lasting

\* if connection: ... without a with-block.
StartBare(t) ==
  /\ isOpen
  /\ Goto(t, "idle", "request")
  /\ UNCHANGED <<connVars, inside, lasting>>

\* if sensor: send(msg) and on to receive(); else nothing is sent or received.
SendRequest(t) ==
  /\ Goto(t, "request", IF isOpen THEN "answer" ELSE "leave")
  /\ Send(t)
  /\ UNCHANGED <<inside, lasting>>

CallReceive(t) ==
  \/ /\ Goto(t, "answer", "blocked")
     /\ ReceiveBlocks(t)
     /\ UNCHANGED <<inside, lasting>>
  \/ /\ ~isOpen
     /\ Goto(t, "answer", "leave")
     /\ UNCHANGED <<connVars, inside, lasting>>

GetAnswer(t, answer) ==
  /\ Goto(t, "blocked", "leave")
  /\ ReceiveAnswer(t, answer)
  /\ UNCHANGED <<inside, lasting>>

GetNothing(t) ==
  /\ Goto(t, "blocked", "leave")
  /\ ReceiveEmpty(t)
  /\ UNCHANGED <<inside, lasting>>

ReceiveError(t) ==
  /\ pc[t] = "blocked"
  /\ ReceiveRaises(t) \/ ReceiveTimesOut(t)
  /\ UNCHANGED clientVars

\* Mutant: receive() has no except clause, the thread is lost with the exception.
ReceiveRaisesThrough(t) ==
  /\ Goto(t, "blocked", "raised")
  /\ ReceiveFails(t)
  /\ lasting' = FALSE
  /\ UNCHANGED inside

ReceiveGivesUp(t) ==
  /\ Goto(t, "blocked", "leave")
  /\ ReceiveFails(t)
  /\ lasting' = FALSE
  /\ UNCHANGED inside

LeaveContext(t) ==
  /\ Goto(t, "leave", "idle")
  /\ IF inside[t] THEN ExitReturns(t) ELSE UNCHANGED connVars
  /\ inside' = [inside EXCEPT ![t] = FALSE]
  /\ UNCHANGED lasting

\* __exit__ before its last step.
LeavingContext(t) ==
  /\ pc[t] = "leave" /\ inside[t]
  /\ ExitGoesOn(t)
  /\ UNCHANGED clientVars

-----------------------------------------------------------------------------
OpenEnter(t) ==
  /\ Goto(t, "idle", "opening")
  /\ Enter
  /\ UNCHANGED <<inside, lasting>>

\* if self.is_open: ... else return False.
OpenCheck(t) ==
  /\ Goto(t, "opening", IF isOpen THEN "opened" ELSE "idle")
  /\ UNCHANGED <<connVars, inside, lasting>>

\* persistent.set(); return True.
OpenReturns(t) ==
  /\ Goto(t, "opened", "idle")
  /\ MarkPersistent
  /\ lasting' = (lasting \/ (isOpen /\ LockFree))
  /\ UNCHANGED inside

CallClose(t) ==
  /\ pc[t] = "idle"
  /\ Close
  /\ lasting' = FALSE
  /\ UNCHANGED <<pc, inside>>

Step(t) ==
  \/ EnterContext(t) \/ StartBare(t) \/ SendRequest(t) \/ CallReceive(t)
  \/ \E answer \in Answer : GetAnswer(t, answer)
  \/ GetNothing(t) \/ ReceiveError(t) \/ ReceiveGivesUp(t)
  \/ LeavingContext(t) \/ LeaveContext(t) \/ OpenEnter(t) \/ OpenCheck(t) \/ OpenReturns(t) \/ CallClose(t)

Environment == ConnEnvironment /\ UNCHANGED clientVars

Next == Environment \/ \E t \in Thread : Step(t)

Spec == Init /\ [][Next]_vars

-----------------------------------------------------------------------------
(***************************************************************************)
(* A connection that open() has established is open, marked persistent and *)
(* connected as far as this side knows, until somebody calls close() or a  *)
(* receive fails: no with-block, request or other open() that begins to    *)
(* close it only then takes it away.  The one that does is an __exit__     *)
(* which had tested persistent before open() set it: see WithBlockKeeps.   *)
(***************************************************************************)
LastingStays == lasting => isOpen /\ persistent /\ sock \in {"connected", "dead"}

(***************************************************************************)
(* test_connection.py:160-161: to leave a with-block must "not close a     *)
(* lasting connection" that "was previously opened by another thread".  It *)
(* does, when open() comes between the test of persistent and the closing: *)
(* the caller of open() has been told True.                                *)
(***************************************************************************)
WithBlockKeeps ==
  [][ \A t \in Thread :
        pc[t] = "leave" /\ pc'[t] = "idle" /\ isOpen /\ persistent => isOpen' /\ persistent'
    ]_vars

(***************************************************************************)
(* After a failed receive() the flag says closed while the socket is still *)
(* connected, and every later __enter__ fails with EISCONN.  Only a failed *)
(* receive leads there, and only close(), which makes a new socket, leads  *)
(* out of it: no number of with-blocks does.  The failed receive may be    *)
(* one of an earlier socket, whose late is_open = False hits the new one.  *)
(***************************************************************************)
Wedged == ~isOpen /\ sock \in {"connected", "dead"}
WedgedUntilClose ==
  [][ /\ ~Wedged /\ Wedged' => \E t \in Thread : rx[t] = "error" /\ rx'[t] = "none"
      /\ Wedged /\ ~Wedged' => sock' = "fresh" /\ ~persistent' ]_vars

(***************************************************************************)
(* Somebody waits for every answer on an open connection: an answer that   *)
(* comes after its receive() has given up is never there for the next      *)
(* request to take for its own.  It is is_open = FALSE after a failed      *)
(* receive, and the new socket of close(), that see to it.                 *)
(***************************************************************************)
Waiting(t) == pc[t] = "answer" \/ rx[t] \in {"live", "error"}
NoAnswerLeftOver ==
  isOpen => Len(wire) <= Cardinality({t \in Thread : Waiting(t)})
=============================================================================
