-------------------------- MODULE SimulatorProcess --------------------------
(***************************************************************************)
(* One bounded call of the external simulator (NgspiceProcess.run): a work *)
(* directory of its own, one child process, a timeout, a classification of *)
(* what the child left behind, and the removal of the directory on every   *)
(* way out.  What the child computes is the business of its caller; here a *)
(* child is the record of what it leaves when it ends by itself.           *)
(***************************************************************************)
EXTENDS Naturals

CONSTANTS
  Leavings,       \* what a child that ends may leave, a set of Leaving
  MaxCalls,       \* bound: calls per plant object
  KeepArtifacts   \* keep_artifacts of the constructor

\* exit: returned zero; log: what the solver log says; output: the state of
\* the wrdata file when the child has ended.
Leaving == [exit : BOOLEAN, log : {"none", "clean", "nonconvergence", "fatal"},
            output : {"none", "garbled", "short", "edge", "full"}]

ASSUME SimulatorAssumption ==
  /\ Leavings \subseteq Leaving
  /\ MaxCalls \in Nat
  /\ KeepArtifacts \in BOOLEAN

VARIABLES
  stage,     \* idle, resolving, starting, running, ended, leaving
  leaving,   \* what the child has left so far
  dirs,      \* the calls whose work directory was made and not yet removed
  calls,     \* calls so far; the last one names its work directory
  evidence,  \* the evidence recorded for the call so far
  outcome    \* how the last call ended

simulatorVars == <<stage, leaving, dirs, calls, evidence, outcome>>

Nothing == [exit |-> FALSE, log |-> "none", output |-> "none"]
EvidenceKeys == {"netlist", "command", "log", "result"}
\* The exceptions that carry evidence; an OSError and an interrupt do not.
SimulationExecutionErrors == {"process", "timeout", "nonconvergence"}
Outcomes ==
  SimulationExecutionErrors \cup {"none", "accepted", "os_error", "interrupted"}

SimulatorTypeOK ==
  /\ stage \in {"idle", "resolving", "starting", "running", "ended", "leaving"}
  /\ leaving \in Leaving
  /\ dirs \subseteq 1 .. MaxCalls
  /\ calls \in 0 .. MaxCalls
  /\ evidence \subseteq EvidenceKeys
  /\ outcome \in Outcomes

SimulatorInit ==
  /\ stage = "idle"
  /\ leaving = Nothing
  /\ dirs = {}
  /\ calls = 0
  /\ evidence = {}
  /\ outcome = "none"

\* run() is entered with a rendered netlist.
Call ==
  /\ stage = "idle"
  /\ calls < MaxCalls
  /\ stage' = "resolving"
  /\ leaving' = Nothing
  /\ calls' = calls + 1
  /\ evidence' = {"netlist"}
  /\ outcome' = "none"
  /\ UNCHANGED dirs

\* Before the directory exists there is nothing to clean up.
Refuse(error) ==
  /\ stage' = "idle"
  /\ outcome' = error
  /\ UNCHANGED <<leaving, dirs, calls, evidence>>

\* The executable is found and the directory is created.  A missing executable
\* is a backend error, a directory that cannot be created a plain OSError.
MakeDirectory ==
  /\ stage = "resolving"
  /\ stage' = "starting"
  /\ dirs' = dirs \cup {calls}
  /\ UNCHANGED <<leaving, calls, evidence, outcome>>
ResolveFails ==
  /\ stage = "resolving"
  /\ \E error \in {"process", "os_error"} : Refuse(error)

\* Every way out of the try block passes here.  The log is read while the
\* directory is still there, unless it is in the evidence already.
\* (Mutant: it is looked for when the directory has gone.)
LogEvidenceAfterRemoval(error, left) == {}
LogEvidence(error, left) ==
  IF error \in SimulationExecutionErrors /\ left.log # "none" THEN {"log"} ELSE {}
Raise(error, left, keys) ==
  /\ stage' = "leaving"
  /\ leaving' = left
  /\ outcome' = error
  /\ evidence' = evidence \cup keys \cup LogEvidence(error, left)
  /\ UNCHANGED <<dirs, calls>>

\* The netlist is written and the child is started.
Start ==
  /\ stage = "starting"
  /\ stage' = "running"
  /\ evidence' = evidence \cup {"command"}
  /\ UNCHANGED <<leaving, dirs, calls, outcome>>
StartFails ==
  /\ stage = "starting"
  /\ \/ Raise("os_error", Nothing, {})
     \/ Raise("process", Nothing, {"command"})

\* The child opens its log long before it is done.
ChildLogs ==
  /\ stage = "running"
  /\ leaving = Nothing
  /\ leaving' = [Nothing EXCEPT !.log = "clean"]
  /\ UNCHANGED <<stage, dirs, calls, evidence, outcome>>

ChildEnds ==
  /\ stage = "running"
  /\ \E left \in Leavings : leaving' = left
  /\ stage' = "ended"
  /\ UNCHANGED <<dirs, calls, evidence, outcome>>

\* subprocess.run kills the child and waits for it before it raises; a child
\* that hangs, or that never closes its pipes, ends here.
\* (Mutant: only a child that has not written anything is timed out.)
TimeoutIfSilent ==
  /\ stage = "running"
  /\ leaving = Nothing
  /\ Raise("timeout", leaving, {})
Timeout ==
  /\ stage = "running"
  /\ Raise("timeout", leaving, {})

\* _classify_failure: what is wrong with the run, in the order of its tests.
Complaint(left) ==
  CASE left.log = "nonconvergence" -> "nonconvergence"
    [] left.log # "nonconvergence" /\ (~left.exit \/ left.log = "fatal") -> "process"
    [] OTHER -> "none"

\* A table is accepted only after the same tests as a missing one.  A log that is
\* not there counts as an empty one.
Examine ==
  /\ stage = "ended"
  /\ LET complaint == Complaint(leaving)
     IN IF complaint # "none" THEN Raise(complaint, leaving, {"log"})
        ELSE IF leaving.output \in {"none", "garbled"}
             THEN Raise("process", leaving, {"log"})
             ELSE Raise("accepted", leaving, {"log", "result"})

\* KeyboardInterrupt anywhere in run(): a running child is killed.
Interrupt ==
  \/ stage = "resolving" /\ Refuse("interrupted")
  \/ stage \in {"starting", "running", "ended"} /\ Raise("interrupted", leaving, {})

\* finally: the removal, whatever happened, and the call is over.  rmtree ignores its
\* errors: what the system would not delete counts as removed here.
Leave ==
  /\ stage = "leaving"
  /\ stage' = "idle"
  /\ dirs' = IF KeepArtifacts THEN dirs ELSE dirs \ {calls}
  /\ UNCHANGED <<leaving, calls, evidence, outcome>>

SimulatorStep ==
  \/ MakeDirectory \/ Start \/ StartFails
  \/ ChildLogs \/ ChildEnds \/ Timeout \/ Examine
=============================================================================
