----------------------------- MODULE Connection -----------------------------
(***************************************************************************)
(* What status() promises about the life of one WSClient object.  The      *)
(* connection is opened at most once, and only from UNKNOWN; it is closed  *)
(* at most once; after that the status may still be relabelled among the   *)
(* closed ones (close() and a late ping timeout overwrite it), but it is   *)
(* never HEALTHY again.                                                    *)
(***************************************************************************)
ClosedStatus == {"CLOSED_BY_SERVER", "CLOSED_BY_CLIENT", "PING_TIMED_OUT"}

ConnectionStatus == {"HEALTHY", "FAILED", "UNKNOWN"} \cup ClosedStatus

VARIABLES
  status,   \* what status() answers
  open      \* whether the client considers the connection usable

vars == <<status, open>>

Init == status = "UNKNOWN" /\ open = FALSE

Open == status = "UNKNOWN" /\ status' = "HEALTHY" /\ open' = TRUE

Fail == status = "UNKNOWN" /\ status' = "FAILED" /\ UNCHANGED open

Shut == open /\ open' = FALSE /\ status' \in ClosedStatus

Relabel ==
  /\ status \in ClosedStatus
  /\ status' \in ClosedStatus
  /\ UNCHANGED open

Next == Open \/ Fail \/ Shut \/ Relabel

Spec == Init /\ [][Next]_vars
=============================================================================
