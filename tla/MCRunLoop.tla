----------------------------- MODULE MCRunLoop -----------------------------
(* Values for the constants of RunLoop, named for the .cfg files.            *)
EXTENDS RunLoop

AllFaults == FaultSites
OneSpec == {"s1"}
TwoSpecs == {"s1", "s2"}
Ctrl_C == {"interrupted"}
AnyStop == {"interrupted", "cancelled"}
=============================================================================
