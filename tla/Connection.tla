----------------------------- MODULE Connection -----------------------------
(***************************************************************************)
(* The TCP connection to the sensor: class Connection of                   *)
(* schunk_fts_library/utility.py, one object shared by every thread of the *)
(* driver.  This module has the state of the object and one action per     *)
(* operation; ConnectionClients and StreamingDriver say which thread takes *)
(* which action when.                                                      *)
(*                                                                         *)
(* Grain of atomicity.  send(), receive(), __bool__ and the tail of open() *)
(* take no lock, so they are actions of their own, and receive() is three: *)
(* the call that blocks in recv, its return, and the assignment to is_open *)
(* in its except clause.  __exit__ is up to three as well, because the     *)
(* tail of open() may fall between its test of persistent, the shutdown    *)
(* and the reset of the flags; holder says who has Connection._lock in     *)
(* between.  The other two sections under that lock, __enter__ and         *)
(* close(), decide by what they read under it and overwrite both flags or  *)
(* one, so what others do in their middle they could have done before or   *)
(* after: one action each.                                                 *)
(***************************************************************************)
EXTENDS Naturals, Sequences, FiniteSets

CONSTANTS
  Thread,   \* the threads that share the Connection object
  Answer    \* what the sensor can answer, as far as the module that uses this one
            \* tells answers apart

VARIABLES
  isOpen,      \* Connection.is_open
  persistent,  \* Connection.persistent.is_set()
  sock,        \* the socket object in Connection.socket, as the kernel has it
  wire,        \* the sensor's answers on that socket that nobody has read
  rx,          \* what each thread's receive() is doing
  holder,      \* who holds Connection._lock: {}, or the thread that is in __exit__
               \* past its test of persistent
  left,        \* the connected sockets that close() has dropped without closing, as
               \* long as somebody is blocked in recv on them
  sensor       \* the sensor, at the other end (environment)

connVars == <<isOpen, persistent, sock, wire, rx, holder, left, sensor>>

(***************************************************************************)
(* "fresh": never connected.  "connected".  "dead": connected as far as    *)
(* this side knows, but the sensor has gone.  "shut": shutdown() in        *)
(* __exit__, not yet closed.  "closed": fileno() is -1.                    *)
(***************************************************************************)
SockState == {"fresh", "connected", "dead", "shut", "closed"}

(***************************************************************************)
(* "none": not in receive().  "live": blocked in recv on the current       *)
(* socket.  "stale": blocked in recv on a socket that has been shut down   *)
(* and closed since.  "left": blocked in recv on a socket in left.         *)
(* "error": recv has raised, is_open not yet written.                      *)
(***************************************************************************)
RxState == {"none", "live", "stale", "left", "error"}

\* A dropped socket: who is blocked in recv on it, and the answers still to come.
Dropped == [readers : (SUBSET Thread) \ {{}}, wire : Seq(Answer)]

(***************************************************************************)
(* "down": switched off or unplugged.  "booting": accepts connections but  *)
(* answers every command with an error.  "up".                             *)
(***************************************************************************)
SensorState == {"down", "booting", "up"}

ConnTypeOK ==
  /\ isOpen \in BOOLEAN
  /\ persistent \in BOOLEAN
  /\ sock \in SockState
  /\ wire \in Seq(Answer)
  /\ rx \in [Thread -> RxState]
  /\ holder \in {{}} \cup {{t} : t \in Thread}
  /\ left \subseteq Dropped
  /\ sensor \in SensorState

ConnInit ==
  /\ isOpen = FALSE
  /\ persistent = FALSE
  /\ sock = "fresh"
  /\ wire = <<>>
  /\ rx = [t \in Thread |-> "none"]
  /\ holder = {}
  /\ left = {}
  /\ sensor = "up"

-----------------------------------------------------------------------------
LockFree == holder = {}   \* Connection._lock

First(answers) == IF answers = <<>> THEN <<>> ELSE <<Head(answers)>>

\* A dropped socket exists as long as it has readers, and the last of them sees no
\* answer but the first.
Kept(readers, answers) ==
  IF readers = {} THEN {}
  ELSE {[readers |-> readers,
         wire    |-> IF Cardinality(readers) = 1 THEN First(answers) ELSE answers]}

Receivers == {t \in Thread : rx[t] = "live"}
BlockedNow(state) == [t \in Thread |-> IF rx[t] = "live" THEN state ELSE rx[t]]

(***************************************************************************)
(* __enter__.  connect() on a socket that is connected already fails with  *)
(* EISCONN, whether or not the sensor is still there.                      *)
(***************************************************************************)
EnterOpen == isOpen /\ UNCHANGED connVars
EnterWedged ==
  /\ ~isOpen
  /\ sock \in {"connected", "dead"}
  /\ UNCHANGED connVars
EnterRefused ==
  /\ ~isOpen
  /\ sock \in {"fresh", "closed"}
  /\ sensor = "down"
  /\ sock' = "fresh"
  /\ UNCHANGED <<isOpen, persistent, wire, rx, holder, left, sensor>>
EnterConnects ==
  /\ ~isOpen
  /\ sock \in {"fresh", "closed"}
  /\ sensor # "down"
  /\ isOpen' = TRUE
  /\ sock' = "connected"
  /\ wire' = <<>>
  /\ UNCHANGED <<persistent, rx, holder, left, sensor>>
Enter == LockFree /\ (EnterOpen \/ EnterWedged \/ EnterRefused \/ EnterConnects)

\* The last statement of open(), once its check of is_open has succeeded.
MarkPersistent ==
  /\ persistent' = TRUE
  /\ UNCHANGED <<isOpen, sock, wire, rx, holder, left, sensor>>

(***************************************************************************)
(* __exit__, with _close_socket inlined.  It has nothing to do on a lasting *)
(* connection, or on one that is not open.                                 *)
(***************************************************************************)
ExitNeedless ==
  /\ LockFree
  /\ persistent \/ ~isOpen
  /\ UNCHANGED connVars

\* Mutant: the test of persistent is forgotten.
ExitTestsOpen(t) ==
  /\ LockFree /\ isOpen
  /\ holder' = {t}
  /\ UNCHANGED <<isOpen, persistent, sock, wire, rx, left, sensor>>

ExitTests(t) ==
  /\ LockFree
  /\ ~persistent /\ isOpen
  /\ holder' = {t}
  /\ UNCHANGED <<isOpen, persistent, sock, wire, rx, left, sensor>>

ExitShuts(t) ==
  /\ holder = {t}
  /\ isOpen /\ sock # "shut"
  /\ sock' = "shut"
  /\ UNCHANGED <<isOpen, persistent, wire, rx, holder, left, sensor>>

\* A receive() of another thread has failed since the test.
ExitTooLate(t) ==
  /\ holder = {t}
  /\ ~isOpen /\ sock # "shut"
  /\ holder' = {}
  /\ UNCHANGED <<isOpen, persistent, sock, wire, rx, left, sensor>>

\* Mutant: socket.close() is forgotten.
ExitKeepsSocket(t) ==
  /\ holder = {t}
  /\ sock = "shut"
  /\ isOpen' = FALSE /\ persistent' = FALSE
  /\ sock' = "dead"
  /\ holder' = {}
  /\ UNCHANGED <<wire, rx, left, sensor>>

\* is_open = False, persistent.clear(), socket.close().
ExitCloses(t) ==
  /\ holder = {t}
  /\ sock = "shut"
  /\ isOpen' = FALSE /\ persistent' = FALSE
  /\ sock' = "closed"
  /\ wire' = <<>>
  /\ rx' = BlockedNow("stale")
  /\ holder' = {}
  /\ UNCHANGED <<left, sensor>>

ExitGoesOn(t) == ExitTests(t) \/ ExitShuts(t)
ExitReturns(t) == ExitNeedless \/ ExitTooLate(t) \/ ExitCloses(t)

(***************************************************************************)
(* close(): a new socket takes the place of the old one.  An open one is   *)
(* shut down and closed first, which wakes its receivers; one that is not  *)
(* marked open, though it may be connected, is only dropped, and whoever   *)
(* is blocked in recv on it stays there.                                   *)
(***************************************************************************)
Close ==
  /\ LockFree
  /\ isOpen' = FALSE
  /\ persistent' = FALSE
  /\ sock' = "fresh"
  /\ wire' = <<>>
  /\ rx' = BlockedNow(IF isOpen THEN "stale" ELSE "left")
  /\ left' = IF isOpen THEN left ELSE left \cup Kept(Receivers, wire)
  /\ UNCHANGED <<holder, sensor>>

(***************************************************************************)
(* send(): the request reaches the sensor only on a connection that is     *)
(* still there at both ends.  The sensor answers the requests of one       *)
(* connection in their order; answer is what it will answer this one.      *)
(***************************************************************************)
Delivered == isOpen /\ sock = "connected"
Send(answer) ==
  /\ wire' = IF Delivered THEN Append(wire, answer) ELSE wire
  /\ UNCHANGED <<isOpen, persistent, sock, rx, holder, left, sensor>>

-----------------------------------------------------------------------------
\* receive() on an open connection blocks in recv.
ReceiveBlocks(t) ==
  /\ isOpen
  /\ rx' = [rx EXCEPT ![t] = "live"]
  /\ UNCHANGED <<isOpen, persistent, sock, wire, holder, left, sensor>>

\* recv on the dropped socket d returns to t, and answers is what is still to come.
LeaveDropped(d, t, answers) ==
  left' = (left \ {d}) \cup Kept(d.readers \ {t}, answers)

(***************************************************************************)
(* recv(1024) returns everything that has arrived, one or more answers in  *)
(* one piece; the caller parses the first.  A shutdown does not take back  *)
(* what had arrived.                                                       *)
(***************************************************************************)
ReceiveAnswer(t, answer) ==
  /\ rx' = [rx EXCEPT ![t] = "none"]
  /\ \/ /\ rx[t] = "live"
        /\ \E n \in 1..Len(wire) : wire' = SubSeq(wire, n + 1, Len(wire))
        /\ answer = Head(wire)
        /\ UNCHANGED left
     \/ /\ rx[t] = "left"
        /\ \E d \in left :
             /\ t \in d.readers
             /\ \E n \in 1..Len(d.wire) :
                  LeaveDropped(d, t, SubSeq(d.wire, n + 1, Len(d.wire)))
             /\ answer = Head(d.wire)
        /\ UNCHANGED wire
  /\ UNCHANGED <<isOpen, persistent, sock, holder, sensor>>

\* t no longer waits for an answer on a socket that close() has dropped.
GiveUpDropped(t) ==
  IF rx[t] = "left" THEN \E d \in left : t \in d.readers /\ LeaveDropped(d, t, d.wire)
                    ELSE UNCHANGED left

\* The stream has ended: the other side has closed it, or this side has shut it
\* down.  recv returns b"" and is_open stays as it is; what the other side had not
\* delivered is lost.
ReceiveEmpty(t) ==
  /\ \/ rx[t] \in {"stale", "left"}
     \/ rx[t] = "live" /\ sock \in {"dead", "shut"}
  /\ wire' = IF rx[t] = "live" THEN <<>> ELSE wire
  /\ rx' = [rx EXCEPT ![t] = "none"]
  /\ GiveUpDropped(t)
  /\ UNCHANGED <<isOpen, persistent, sock, holder, sensor>>

\* recv raises: the two seconds are over, the connection was reset, or the file
\* descriptor is closed.
ReceiveRaises(t) ==
  /\ \/ rx[t] \in {"stale", "left"}
     \/ rx[t] = "live" /\ (sock = "dead" \/ wire = <<>>)
  /\ rx' = [rx EXCEPT ![t] = "error"]
  /\ GiveUpDropped(t)
  /\ UNCHANGED <<isOpen, persistent, sock, wire, holder, sensor>>

\* The two seconds are over and an answer is still under way.
ReceiveTimesOut(t) ==
  /\ rx[t] = "live"
  /\ rx' = [rx EXCEPT ![t] = "error"]
  /\ UNCHANGED <<isOpen, persistent, sock, wire, holder, left, sensor>>

\* Mutant: the except clause of receive() leaves the flag alone.
ReceiveFailsOpen(t) ==
  /\ rx[t] = "error"
  /\ rx' = [rx EXCEPT ![t] = "none"]
  /\ UNCHANGED <<isOpen, persistent, sock, wire, holder, left, sensor>>

\* The except clause of receive().  The socket stays as it is, and the flag may
\* by now belong to another socket than the one that failed.
ReceiveFails(t) ==
  /\ rx[t] = "error"
  /\ isOpen' = FALSE
  /\ rx' = [rx EXCEPT ![t] = "none"]
  /\ UNCHANGED <<persistent, sock, wire, holder, left, sensor>>

-----------------------------------------------------------------------------
(***************************************************************************)
(* The sensor.  It may go down at any time, comes back through a boot      *)
(* phase, and may drop a TCP connection while it stays up.                 *)
(***************************************************************************)
BreakSocket == sock' = IF sock = "connected" THEN "dead" ELSE sock

SensorGoesDown ==
  /\ sensor # "down"
  /\ sensor' = "down"
  /\ BreakSocket
  /\ UNCHANGED <<isOpen, persistent, wire, rx, holder, left>>

SensorBoots ==
  /\ sensor = "down"
  /\ sensor' = "booting"
  /\ UNCHANGED <<isOpen, persistent, sock, wire, rx, holder, left>>

SensorReady ==
  /\ sensor = "booting"
  /\ sensor' = "up"
  /\ UNCHANGED <<isOpen, persistent, sock, wire, rx, holder, left>>

SensorDropsConnection ==
  /\ sensor # "down"
  /\ sock = "connected"
  /\ BreakSocket
  /\ UNCHANGED <<isOpen, persistent, wire, rx, holder, left, sensor>>

ConnEnvironment == SensorGoesDown \/ SensorBoots \/ SensorReady \/ SensorDropsConnection
=============================================================================
