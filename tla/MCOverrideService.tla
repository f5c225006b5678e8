-------------------------- MODULE MCOverrideService --------------------------
(* Model values for the runs of OverrideService. *)
EXTENDS OverrideService

CONSTANTS a, b, hA, hB, rA, rB, k1, v1

TwoInstances  == {a, b}
FourTasks     == {hA, hB, rA, rB}
TwoRefreshers == {rA, rB}
HomeOf        == [t \in FourTasks |-> IF t \in {hA, rA} THEN a ELSE b]
OneSelector   == {k1}
OneValue      == {v1}
=============================================================================
