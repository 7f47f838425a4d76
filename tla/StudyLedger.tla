---------------------------- MODULE StudyLedger ----------------------------
(***************************************************************************)
(* What one invocation of a study promises about its points (the docstring *)
(* of run_study): they are attempted in the order of the plan, each once;  *)
(* a fate is final; points may be left out only after the last attempted   *)
(* point has shown that the study is over; the verdict is "pass" only if   *)
(* no attempted point failed, and it is the last word.                     *)
(***************************************************************************)
EXTENDS Naturals

CONSTANTS Studies, N

VARIABLES
  fate,    \* of every point: planned, ok, failed
  verdict  \* none, pass, fail, or lost with the process that held it

Point == 1 .. N
Open(s) == {p \in Point : fate[s][p] = "planned"}

Init ==
  /\ fate = [s \in Studies |-> [p \in Point |-> "planned"]]
  /\ verdict = [s \in Studies |-> "none"]

Attempt(s, p) ==
  /\ verdict[s] = "none"
  /\ p \in Open(s)
  /\ \A q \in Open(s) : p <= q
  /\ \E f \in {"ok", "failed"} : fate' = [fate EXCEPT ![s][p] = f]
  /\ UNCHANGED verdict

Pass(s) ==
  /\ verdict[s] = "none"
  /\ fate[s][1] = "ok"
  /\ \A p \in Point : fate[s][p] # "failed"
  /\ verdict' = [verdict EXCEPT ![s] = "pass"]
  /\ UNCHANGED fate

Refuse(s) ==
  /\ verdict[s] = "none"
  /\ \E v \in {"fail", "lost"} : verdict' = [verdict EXCEPT ![s] = v]
  /\ UNCHANGED fate

Next == \E s \in Studies : (\E p \in Point : Attempt(s, p)) \/ Pass(s) \/ Refuse(s)

Spec == Init /\ [][Next]_<<fate, verdict>>
=============================================================================
