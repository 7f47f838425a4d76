------------------------------ MODULE StudyPlan ------------------------------
(***************************************************************************)
(* study.py: what a pe-sim.study.v1 document is expanded to, point by      *)
(* point, before anything runs, and how the samples of a point are judged. *)
(* A document is refused as a whole; why it is refused is left out.        *)
(*                                                                         *)
(* An experiment document is a function from paths to leaves.  A path is a *)
(* sequence of keys; a leaf that is a finite number is an integer, every   *)
(* other leaf is NotANumber or the value the expansion itself writes.      *)
(***************************************************************************)
EXTENDS Integers, Sequences, SequencesExt, FiniteSetsExt

CONSTANTS
  NotANumber,       \* a leaf or a value that is no finite number
  PositivePaths,    \* the leaves the experiment schema wants positive
  Random,           \* seed -> the uniform numbers of random.Random(seed)
  Scale,            \* a uniform number u stands for u / Scale
  BoxMuller,        \* two uniform numbers -> the normal one made of them
  MaxFloat          \* the largest finite number

MaxStudyPoints == 64
Seeds == 0 .. 2147483646  \* up to 2^32 - 1 in the code: larger than TLC's integers
RunIdPath == <<"run_id">>
OutputPath == <<"output", "directory">>
DurationPath == <<"timebase", "duration_s">>
ForbiddenPathRoots == {"schema_version", "run_id", "output", "experiment_id"}

Abs(n) == IF n < 0 THEN -n ELSE n
InRange(value, low, high) == value \in Int /\ low <= value /\ value <= high
Times(numbers) == FoldLeft(LAMBDA a, b : a * b, 1, numbers)
Total(numbers) == FoldLeft(LAMBDA a, b : a + b, 0, numbers)
Distinct(seq) == Cardinality(ToSet(seq)) = Len(seq)
Pluck(records, field(_)) == [i \in DOMAIN records |-> field(records[i])]

\* validate_experiment_document, as far as numbers go.
SchemaAccepts(document) ==
  \A path \in PositivePaths \cap DOMAIN document :
    document[path] \in Int /\ document[path] > 0

\* _validate_path_grammar, _resolve_path_parent
PathAccepted(base, path) ==
  /\ Head(path) \notin ForbiddenPathRoots
  /\ path \in DOMAIN base
  /\ base[path] \in Int

-----------------------------------------------------------------------------
(* Points *)

\* Mutant of PointDocument: the points share the document they are written to.
PointDocumentShared(base, parameters, id, index, directory) ==
  (RunIdPath :> <<id, index>>) @@ (OutputPath :> directory) @@ base

\* _build_point_document: a copy of the base with the parameters, and then the
\* identity and the directory, written over it.
PointDocument(base, parameters, id, index, directory) ==
  (RunIdPath :> <<id, index>>) @@ (OutputPath :> directory) @@ parameters @@ base

PointOf(study, parameters, index) ==
  [ index |-> index, parameters |-> parameters,
    document |-> PointDocument(study.base, parameters, study.study_id, index,
                               study.output) ]

\* Assigned(<<p, q>>, <<1, 2>>) writes 1 at p and 2 at q.
Assigned(paths, values) ==
  [p \in ToSet(paths) |-> values[CHOOSE i \in DOMAIN paths : paths[i] = p]]

PointsFrom(study, parameters) ==
  [i \in DOMAIN parameters |-> PointOf(study, parameters[i], i - 1)]

-----------------------------------------------------------------------------
(* parameter_sweep *)

RatioOfMeans == "ratio_of_means"
Reducers == {"mean", "min", "max", "rms", "peak_to_peak", "last", RatioOfMeans}
\* A statistic reads one sample key, or the two of a ratio.
StatisticAccepted(statistic) ==
  /\ statistic.reducer \in Reducers
  /\ Len(statistic.keys) = (IF statistic.reducer = RatioOfMeans THEN 2 ELSE 1)
StatisticsAccepted(statistics) ==
  /\ Len(statistics) <= 4
  /\ \A i \in DOMAIN statistics : StatisticAccepted(statistics[i])
  /\ Distinct(Pluck(statistics, LAMBDA s : s.name))

SweptValuesAccepted(values) ==
  /\ InRange(Len(values), 2, 16)
  /\ \A i \in DOMAIN values : values[i] \in Int
  /\ Distinct(values)

PathsAccepted(study) ==
  LET paths == Pluck(study.plan.parameters, LAMBDA p : p.path)
  IN /\ InRange(Len(paths), 1, 3)
     /\ Distinct(paths)
     /\ \A i \in DOMAIN paths : PathAccepted(study.base, paths[i])

Sizes(plan) == Pluck(plan.parameters, LAMBDA p : Len(p.values))

SweepAccepted(study) ==
  /\ PathsAccepted(study)
  /\ \A i \in DOMAIN study.plan.parameters :
       SweptValuesAccepted(study.plan.parameters[i].values)
  /\ Times(Sizes(study.plan)) <= MaxStudyPoints
  /\ StatisticsAccepted(study.plan.statistics)

\* The n-th combination of itertools.product: the last parameter is the fastest.
Combination(plan, n) ==
  [i \in DOMAIN plan.parameters |->
     LET values == plan.parameters[i].values
         slower == Times(SubSeq(Sizes(plan), i + 1, Len(plan.parameters)))
     IN values[((n \div slower) % Len(values)) + 1]]

Sweep(study) ==
  LET paths == Pluck(study.plan.parameters, LAMBDA p : p.path)
  IN [n \in 1 .. Times(Sizes(study.plan)) |->
        Assigned(paths, Combination(study.plan, n - 1))]

-----------------------------------------------------------------------------
(* monte_carlo: draws in sample-major, parameter-major order.                *)

DistributionAccepted(entry) ==
  \/ /\ entry.distribution = "uniform"
     /\ entry.low \in Int /\ entry.high \in Int /\ entry.low < entry.high
  \/ /\ entry.distribution = "normal"
     /\ entry.mean \in Int /\ entry.sigma \in Int /\ entry.sigma > 0

Consumes(entry) == IF entry.distribution = "uniform" THEN 1 ELSE 2
Position(entries, sample, i) ==
  (sample - 1) * Total(Pluck(entries, Consumes))
  + Total(Pluck(SubSeq(entries, 1, i - 1), Consumes))

Drawn(entry, stream, at) ==
  IF entry.distribution = "uniform"
  THEN entry.low + ((entry.high - entry.low) * stream[at + 1]) \div Scale
  ELSE entry.mean + entry.sigma * BoxMuller[<<Scale - stream[at + 1], stream[at + 2]>>]

MonteCarloDraws(plan) ==
  LET paths == Pluck(plan.parameters, LAMBDA p : p.path)
  IN [sample \in 1 .. plan.samples |->
        Assigned(paths,
          [i \in DOMAIN paths |->
             Drawn(plan.parameters[i], Random[plan.seed],
                   Position(plan.parameters, sample, i))])]

MonteCarloAccepted(study) ==
  /\ PathsAccepted(study)
  /\ \A i \in DOMAIN study.plan.parameters :
       DistributionAccepted(study.plan.parameters[i])
  /\ InRange(study.plan.samples, 1, MaxStudyPoints)
  /\ study.plan.seed \in Int /\ study.plan.seed \in Seeds
  /\ LET draws == MonteCarloDraws(study.plan)
     IN \A i \in DOMAIN draws : \A path \in DOMAIN draws[i] :
          InRange(draws[i][path], -MaxFloat, MaxFloat)

-----------------------------------------------------------------------------
(* periodicity: longer and longer runs of one experiment.                    *)

Durations(study) ==
  [i \in 1 .. study.plan.max_runs |->
     study.base[DurationPath] * study.plan.extend_factor ^ (i - 1)]

SignalsAccepted(signals) == InRange(Len(signals), 1, 8) /\ Distinct(signals)

PeriodicityAccepted(study) ==
  /\ InRange(study.plan.compare_period, 1, 64)
  /\ InRange(study.plan.compare_windows, 2, 32)
  /\ InRange(study.plan.max_runs, 2, 8)
  /\ study.plan.tolerance \in Int /\ study.plan.tolerance > 0
  /\ study.plan.extend_factor \in Int /\ study.plan.extend_factor > 1
  /\ SignalsAccepted(study.plan.signals)
  /\ DurationPath \in DOMAIN study.base /\ study.base[DurationPath] \in Int
  /\ \A i \in 1 .. study.plan.max_runs : InRange(Durations(study)[i], 1, MaxFloat)

-----------------------------------------------------------------------------
(* parse_study_document *)

PlanAccepted(study) ==
  \/ study.kind = "parameter_sweep" /\ SweepAccepted(study)
  \/ study.kind = "monte_carlo" /\ MonteCarloAccepted(study)
  \/ study.kind = "periodicity" /\ PeriodicityAccepted(study)

Parameters(study) ==
  CASE study.kind = "parameter_sweep" -> Sweep(study)
    [] study.kind = "monte_carlo" -> MonteCarloDraws(study.plan)
    [] study.kind = "periodicity" ->
         [i \in 1 .. study.plan.max_runs |-> DurationPath :> Durations(study)[i]]

StudyPoints(study) == PointsFrom(study, Parameters(study))

\* well_formed: the schema name and the keys of the document and of its plan.
StudyAccepted(study) ==
  /\ study.well_formed
  /\ SchemaAccepts(study.base)
  /\ PlanAccepted(study)
  /\ \A i \in DOMAIN StudyPoints(study) : SchemaAccepts(StudyPoints(study)[i].document)

-----------------------------------------------------------------------------
(* The samples of a point are a sequence of rows, functions from sample keys *)
(* to numbers.  A tolerance is in thousandths.                               *)

HasColumn(rows, key) ==
  \A i \in DOMAIN rows : key \in DOMAIN rows[i] /\ rows[i][key] \in Int

Repeats(first, second, tolerance) ==
  Abs(first - second) * 1000 <= tolerance * Max({Abs(first), Abs(second)})

\* evaluate_periodicity, over the trailing rows; an error is "empty".
EvaluatePeriodicity(rows, plan) ==
  LET period == plan.compare_period
      required == plan.compare_windows * period + 1
      before == Len(rows) - required
  IN CASE Len(rows) < required
          \/ \E key \in {"time_s"} \cup ToSet(plan.signals) : ~HasColumn(rows, key)
            -> "empty"
       [] OTHER ->
            IF \A key \in ToSet(plan.signals), i \in 1 .. required - period :
                 Repeats(rows[before + i][key], rows[before + i + period][key],
                         plan.tolerance)
            THEN "periodic" ELSE "drifting"

\* statistics_for_point: what makes a statistic impossible.
Undefined(rows, statistic) ==
  \/ \E i \in DOMAIN statistic.keys : ~HasColumn(rows, statistic.keys[i])
  \/ /\ statistic.reducer = RatioOfMeans
     /\ Total(Pluck(rows, LAMBDA row : row[statistic.keys[2]])) = 0
StatisticsFail(rows, statistics) ==
  statistics # <<>>
  /\ (rows = <<>> \/ \E i \in DOMAIN statistics : Undefined(rows, statistics[i]))
=============================================================================
