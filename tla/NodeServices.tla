---------------------------- MODULE NodeServices ----------------------------
(***************************************************************************)
(* The services of the ROS node: send_command, tare, reset_tare,           *)
(* set_parameter, select_tool_setting and select_noise_filter of           *)
(* schunk_fts_driver/driver.py.  A callback sends one request over the     *)
(* connection of the library driver and reports success if the answer it   *)
(* reads has the error code "00".  The executor has several threads; all   *)
(* six services are in one MutuallyExclusiveCallbackGroup.  on_activate    *)
(* creates the services and on_deactivate destroys them; the group is the  *)
(* node's for its life.                                                    *)
(*                                                                         *)
(* Any thread may run a service; the threads that do not are the other     *)
(* users of the connection, as ConnectionClients has them: the library's   *)
(* reconnection, and streaming_on and streaming_off.                       *)
(***************************************************************************)
EXTENDS ConnectionClients

VARIABLES
  offered,    \* the services exist, between on_activate and on_deactivate
  service,    \* the threads that run a service callback
  got,        \* whose answer each of them has read, {} if none
  disturbed   \* history: callbacks in whose time somebody who is not a service
              \* has sent, or was waiting for, a request

serviceVars == <<offered, service, got, disturbed>>
allVars == <<vars, serviceVars>>

ServiceTypeOK ==
  /\ TypeOK
  /\ offered \in BOOLEAN
  /\ service \subseteq Thread /\ disturbed \subseteq service
  /\ got \in [Thread -> SUBSET Answer]

ServiceInit ==
  /\ Init
  /\ offered = FALSE
  /\ service = {} /\ disturbed = {}
  /\ got = [t \in Thread |-> {}]

-----------------------------------------------------------------------------
OfferServices ==
  /\ ~offered /\ offered' = TRUE
  /\ UNCHANGED <<vars, service, got, disturbed>>

\* A callback that runs goes on, and counts among those of the group.
DestroyServices ==
  /\ offered /\ offered' = FALSE
  /\ UNCHANGED <<vars, service, got, disturbed>>

\* Mutant: each service has a callback group of its own.
NoGroup == TRUE
\* The executor starts no callback of a group while one of the group runs.
GroupFree == service = {}

Called(t) ==
  /\ offered /\ GroupFree
  /\ service' = service \cup {t}
  /\ disturbed' = disturbed \cup {s \in {t} : \E u \in Thread \ service : Waiting(u)}
  /\ UNCHANGED <<offered, got>>

\* The commands go out bare, set_parameter in a with-block; a callback that finds
\* the connection closed, or its argument out of range, has ended with a failure.
CallCommand(t) == Called(t) /\ StartBare(t)
CallSetParameter(t) == Called(t) /\ EnterContext(t)

\* The callback sends and receives.
Works(t) ==
  /\ t \in service
  /\ \/ SendRequest(t) /\ UNCHANGED got
     \/ CallReceive(t) /\ UNCHANGED got
     \/ \E answer \in Answer : GetAnswer(t, answer) /\ got' = [got EXCEPT ![t] = {answer}]
     \/ /\ GetNothing(t) \/ ReceiveError(t) \/ ReceiveGivesUp(t) \/ LeavingContext(t)
        /\ UNCHANGED got
  /\ UNCHANGED <<offered, service, disturbed>>

\* It ends with success if it has read an answer whose error code is "00".
Ends(t) ==
  /\ t \in service
  /\ LeaveContext(t)
  /\ service' = service \ {t} /\ disturbed' = disturbed \ {t}
  /\ got' = [got EXCEPT ![t] = {}]
  /\ UNCHANGED offered

\* What the others do; a request of theirs disturbs the services that run.
OthersStep(t) ==
  /\ t \notin service
  /\ Step(t)
  /\ disturbed' = IF Waiting(t)' THEN service ELSE disturbed
  /\ UNCHANGED <<offered, service, got>>

ServiceStep ==
  \/ OfferServices \/ DestroyServices
  \/ \E t \in Thread :
       CallCommand(t) \/ CallSetParameter(t) \/ Works(t) \/ Ends(t) \/ OthersStep(t)

ServiceNext == ServiceStep \/ (Environment /\ UNCHANGED serviceVars)

ServiceSpec == ServiceInit /\ [][ServiceNext]_allVars
-----------------------------------------------------------------------------
(***************************************************************************)
(* A service reports what the sensor answered to its own request, unless   *)
(* somebody who is not a service used the connection meanwhile: no answer  *)
(* of an earlier service, of one that was running when the node was        *)
(* deactivated and activated again, or of one that has timed out.  Nothing *)
(* in an answer is compared with the request.                              *)
(***************************************************************************)
AnswersOwnRequest ==
  \A t \in service \ disturbed : got[t] \subseteq {t}
=============================================================================
