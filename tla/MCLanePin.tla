------------------------------ MODULE MCLanePin ------------------------------
(* The instance of LanePin that TLC checks. *)
EXTENDS LanePinProps

CONSTANT f1
=============================================================================
