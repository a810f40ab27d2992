---------------------------- MODULE SensorStatus ----------------------------
(***************************************************************************)
(* The status bits of a sample, as the set of the flags that are raised,   *)
(* and the two ways in which the node makes a diagnostic level of them:    *)
(* _status_level_from_bits for every packet it publishes, and              *)
(* _get_status_level, by way of the library's SensorStatus, when it        *)
(* configures itself and for the messages of the state topic.              *)
(***************************************************************************)

Flag == {"ready", "process_data_invalid", "temperature_out_of_range",
         "hardware_error", "mech_overrange", "user_overrange"}

Level == {"ok", "warn", "error"}

\* Driver._status_level_from_bits
LevelOverlooksOverrange(status) ==   \* mutant: bit 5 is not tested
  IF "hardware_error" \in status THEN "error"
  ELSE IF \/ status \cap {"process_data_invalid", "temperature_out_of_range",
                          "mech_overrange"} # {}
          \/ "ready" \notin status
       THEN "warn" ELSE "ok"
LevelFromBits(status) ==
  IF "hardware_error" \in status THEN "error"
  ELSE IF \/ status \cap {"process_data_invalid", "temperature_out_of_range",
                          "mech_overrange", "user_overrange"} # {}
          \/ "ready" \notin status
       THEN "warn" ELSE "ok"

\* SensorStatus.summary: a message for every flag that is raised, and one for
\* "ready" when it is not.
Summary(status) == (status \ {"ready"}) \cup ({"ready"} \ status)

\* Driver._get_status_level, for a status it could read.
StatusLevel(status) ==
  IF "hardware_error" \in status THEN "error"
  ELSE IF status \cap {"temperature_out_of_range", "process_data_invalid"} # {} THEN "warn"
  ELSE IF "ready" \notin status THEN "warn"
  ELSE IF Summary(status) # {} THEN "warn" ELSE "ok"
=============================================================================
