----------------------------- MODULE MCWholeRun -----------------------------
EXTENDS WholeRun

\* One ordinary call, the calls that differ from it in what can be refused, and
\* the calls of the reference engine over every schedule of at most two entries.
Ordinary ==
  [control |-> "model", events |-> "window", mode |-> "exploratory", recovery |-> FALSE,
   applicability |-> "record", contract |-> "declared", runnable |-> TRUE, taken |-> FALSE,
   registered |-> TRUE, sink |-> "none", cancellable |-> TRUE, engine |-> "foreign",
   schedule |-> <<>>, duration |-> 10, cadence |-> 4, tolerance |-> 2]
Refusable ==
  {[Ordinary EXCEPT !.control = "kernel"], [Ordinary EXCEPT !.mode = "formal_comparison"],
   [Ordinary EXCEPT !.recovery = TRUE], [Ordinary EXCEPT !.applicability = "enforce"],
   [Ordinary EXCEPT !.contract = "missing"], [Ordinary EXCEPT !.contract = "wrong_type"],
   [Ordinary EXCEPT !.runnable = FALSE], [Ordinary EXCEPT !.taken = TRUE],
   [Ordinary EXCEPT !.registered = FALSE]}
Schedules(horizon) ==
  {<<>>} \cup {<<[time |-> t]>> : t \in 0 .. horizon}
         \cup {<<[time |-> t], [time |-> u]>> : t, u \in 0 .. horizon}
MCCalls ==
  Refusable
  \cup {[Ordinary EXCEPT !.sink = s, !.events = g] :
          s \in {"none", "sound", "flaky"}, g \in {"window", "continuous"}}
  \cup {[Ordinary EXCEPT !.engine = "reference", !.schedule = s, !.duration = d,
                         !.cancellable = FALSE] :
          s \in Schedules(10), d \in {9, 10}}

T(times, lengths) == [typed |-> TRUE, finite |-> TRUE, times |-> times, lengths |-> lengths]
MCTraces ==
  {T(<<0, 4, 8, 10>>, {4}), T(<<3, 7, 10>>, {3}), T(<<0, 4, 7>>, {3}),
   T(<<0, 4, 4, 8, 10>>, {5}), T(<<0, 4, 12>>, {3}), T(<<0, 8, 13>>, {3}),
   T(<<0, 4, 8, 10>>, {4, 3}), T(<<0, 4, 8, 10>>, {}), T(<<>>, {0}),
   [typed |-> FALSE], [T(<<0, 4, 8, 10>>, {4}) EXCEPT !.finite = FALSE]}

F(severity, passed, stop) == [severity |-> severity, passed |-> passed, stop |-> stop]
R(passed, findings, level) == [passed |-> passed, findings |-> findings, level |-> level]
Warned == R(TRUE, {F("warning", FALSE, FALSE)}, "none")
Stopped == R(FALSE, {F("warning", FALSE, TRUE)}, "none")
Contradicts == R(TRUE, {F("error", FALSE, FALSE)}, "none")
FailedByLevel == R(TRUE, {}, "failed")
MCChainResults ==
  {{}, {Stopped}, {Contradicts}, {Raised}, {Absent, Warned}, {FailedByLevel}}
MCLegacyResults == {ReportOk, CheckerError, Raised, Contradicts}
=============================================================================
