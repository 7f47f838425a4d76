---------------------------- MODULE MCSolvedPlant ----------------------------
EXTENDS SolvedPlant

CONSTANTS off, on, low, high

L(exit, log, output) == [exit |-> exit, log |-> log, output |-> output]
\* A good child, tables that end too early, and one child for every line of the
\* classification.
MCLeavings == {
  L(TRUE, "clean", "full"), L(TRUE, "clean", "edge"), L(TRUE, "clean", "short"),
  L(TRUE, "nonconvergence", "full"), L(FALSE, "clean", "full"),
  L(TRUE, "fatal", "full"), L(TRUE, "clean", "garbled"), L(FALSE, "none", "none"),
  L(TRUE, "none", "full")}
=============================================================================
