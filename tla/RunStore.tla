------------------------------ MODULE RunStore ------------------------------
(***************************************************************************)
(* What the output directory promises (docs/18, "Transaction and abandoned *)
(* -run handling"): under a run id there is either nothing or one whole    *)
(* package, put there in one step by one call and never touched again      *)
(* except for its PUBLISHED marker; a call that returns has published.     *)
(***************************************************************************)
CONSTANTS
  RunIds,   \* run ids in use
  Calls,    \* calls that publish
  NoCall    \* nobody

VARIABLES
  runs,     \* who published under an id, whether it is whole and marked
  returned  \* the calls that have returned a result

Nothing == [owner |-> NoCall, whole |-> FALSE, marked |-> FALSE]

Init == runs = [i \in RunIds |-> Nothing] /\ returned = {}

Publish(c, i) ==
  /\ runs[i] = Nothing
  /\ \A j \in RunIds : runs[j].owner # c
  /\ runs' = [runs EXCEPT ![i] =
                [owner |-> c, whole |-> TRUE, marked |-> FALSE]]
  /\ UNCHANGED returned

Mark(c, i) ==
  /\ runs[i].owner = c /\ ~runs[i].marked
  /\ runs' = [runs EXCEPT ![i] =
                [owner |-> c, whole |-> runs[i].whole, marked |-> TRUE]]
  /\ UNCHANGED returned

Return(c) ==
  /\ \E i \in RunIds : runs[i].owner = c /\ runs[i].marked
  /\ returned' = returned \cup {c}
  /\ UNCHANGED runs

Next == \E c \in Calls : \/ \E i \in RunIds : Publish(c, i) \/ Mark(c, i)
                         \/ Return(c)

Spec == Init /\ [][Next]_<<runs, returned>>
=============================================================================
