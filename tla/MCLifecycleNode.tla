-------------------------- MODULE MCLifecycleNode --------------------------
(* Instances of LifecycleNode for TLC. *)
EXTENDS LifecycleNode

OkStatus == {"ready"}
OkOnly == {OkStatus}
OkOrOverrange == {OkStatus, {"ready", "user_overrange"}}
=============================================================================
