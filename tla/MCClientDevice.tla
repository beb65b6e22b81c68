--------------------------- MODULE MCClientDevice ---------------------------
(* The instances of the client library TLC checks. *)
EXTENDS ClientDeviceProps

CONSTANTS p1, p2, s1, s2, e1, n1

(* The other event takes three units: two doublings. *)
Sizes == [e \in Events |-> IF e \in Ready THEN 1 ELSE 3]
=============================================================================
