--------------------------- MODULE MCPublishLoop ---------------------------
(* Instances of PublishLoop for TLC. *)
EXTENDS PublishLoop

OkStatus == {"ready"}
OkOnly == {OkStatus}
=============================================================================
