----------------------------- MODULE MCStudyRun -----------------------------
EXTENDS StudyRun, StudyPlan

CONSTANTS transient, edited, other, retitled, a, b, buck, boost, s1, s2

(***************************************************************************)
(* The plans of the documents.                                             *)
(***************************************************************************)
Gain == <<"controller_config", "kp">>
Load == <<"plant_config", "load_ohm">>
Title == <<"experiment_id">>
MCPositive == {Load, DurationPath}
MCRandom == [seed \in 0 .. 1 |-> IF seed = 0 THEN <<3, 1, 2, 0, 1, 3>> ELSE <<0, 0, 3, 2, 2, 1>>]
MCBoxMuller == [u \in (1 .. 4) \X (0 .. 3) |-> (u[1] - 2) * (1 - u[2])]

Base == (Gain :> 2) @@ (Load :> 10) @@ (DurationPath :> 4) @@ (Title :> NotANumber)
Study(id, kind, plan) ==
  [well_formed |-> TRUE, study_id |-> id, kind |-> kind, output |-> "out", base |-> Base,
   plan |-> plan]
Longer(factor) ==
  [compare_period |-> 2, compare_windows |-> 2, max_runs |-> 2, tolerance |-> 50,
   extend_factor |-> factor, signals |-> <<"vout">>]
Swept(parameters, statistics) == [parameters |-> parameters, statistics |-> statistics]
Values(path, values) == [path |-> path, values |-> values]
Efficiency == [name |-> "eta", reducer |-> RatioOfMeans, keys |-> <<"pout", "pin">>]
Uniform(path, low, high) ==
  [path |-> path, distribution |-> "uniform", low |-> low, high |-> high]
Normal(path, mean, sigma) ==
  [path |-> path, distribution |-> "normal", mean |-> mean, sigma |-> sigma]
Drawing(parameters, seed) == [parameters |-> parameters, samples |-> 2, seed |-> seed]

\* "edited" is "transient" with other values, "other" has another plant, and
\* "retitled" another study id; all of them write to one directory.
FourDocs == {transient, edited, other, retitled}
Written ==
  [d \in FourDocs |->
     CASE d = transient -> Study(a, "periodicity", Longer(2))
       [] d = edited -> Study(a, "monte_carlo",
                              Drawing(<<Normal(Gain, 2, 1), Uniform(Load, 8, 12)>>, 0))
       [] d = other -> Study(a, "parameter_sweep",
                             Swept(<<Values(Load, <<5, 10>>)>>, <<Efficiency>>))
       [] d = retitled -> Study(b, "periodicity", Longer(3))]
AcceptedDocs == {d \in FourDocs : StudyAccepted(Written[d])}
PlannedPoints == [d \in AcceptedDocs |-> StudyPoints(Written[d])]

MCIdOf == [d \in AcceptedDocs |-> Written[d].study_id]
MCPlantOf == [d \in AcceptedDocs |-> IF d = other THEN boost ELSE buck]
MCKindOf == [d \in AcceptedDocs |->
  LET study == Written[d] IN
  IF study.kind = "periodicity" THEN "periodicity"
  ELSE IF study.kind = "parameter_sweep" /\ study.plan.statistics # <<>>
  THEN "sweep_with_statistics" ELSE "parameter_sweep"]

\* A grid is expanded row by row; what is wrong with a plan refuses it as a whole.
Grid(loads) == Study(a, "parameter_sweep", Swept(<<Values(Gain, <<1, 2>>), Values(Load, loads)>>, <<>>))
RefusedPlans == {
  Grid(<<5, 10, 5>>), Grid(<<5, NotANumber>>),
  Study(a, "parameter_sweep", Swept(<<Values(Title, <<1, 2>>)>>, <<>>)),
  Study(a, "parameter_sweep", Swept(<<Values(Gain, <<1, 2>>), Values(Gain, <<3, 4>>)>>, <<>>)),
  Study(a, "monte_carlo", Drawing(<<Uniform(Load, 12, 8)>>, 0)),
  Study(a, "monte_carlo", Drawing(<<Normal(Gain, 2, 600)>>, 1)),
  Study(a, "periodicity", Longer(1)), Study(a, "periodicity", Longer(400))}
ASSUME ExpansionIsTotal ==
  /\ \A study \in RefusedPlans : ~StudyAccepted(study)
  /\ StudyAccepted(Grid(<<5, 10, 20>>))
  /\ LET points == StudyPoints(Grid(<<5, 10, 20>>))
     IN \A i \in 1 .. 6 :
          /\ points[i].parameters[Gain] = 1 + ((i - 1) \div 3)
          /\ points[i].parameters[Load] = <<5, 10, 20>>[1 + ((i - 1) % 3)]

(***************************************************************************)
(* The packages of the runs.                                               *)
(***************************************************************************)
Row(t, v) == [k \in {"time_s", "vout", "pin", "pout"} |-> IF k = "time_s" THEN t ELSE v]
Samples(values) == [i \in DOMAIN values |-> Row(i, values[i])]
P(status, level, rows, seal, route) ==
  [status |-> status, level |-> level, seal |-> seal, route |-> route,
   samples |-> IF StatisticsFail(rows, <<Efficiency>>) THEN "empty"
               ELSE EvaluatePeriodicity(rows, Longer(2))]
Settled == Samples(<<1, 7, 100, 101, 102, 101, 100>>)
Rising == Samples(<<100, 100, 101, 102, 104, 111, 109>>)
MCProducts == {
  P("QUALIFIED", "comparable", Settled, "whole", "first_route"),
  P("QUALIFIED", "comparable", Rising, "whole", "second_route"),
  P("RUN_OK", "limited", <<>>, "manifest_lost", "first_route"),
  P("RUN_FAILED", "diagnostic_only", Settled, "altered", "first_route")}

\* A retry, an edited plan with another plant, another study.
Launch(first, second) == [s \in {s1, s2} |-> IF s = s1 THEN first ELSE second]
MCLaunches == {Launch(transient, transient), Launch(edited, other),
               Launch(transient, retitled)}

-----------------------------------------------------------------------------
(***************************************************************************)
(* A point that counts ran a document of its own: the base experiment but  *)
(* for the parameters the point declares, its run id and its directory;    *)
(* the parameters are the ones the document holds, and no other point of   *)
(* the study has the same (docstring of StudyPoint's parameters; the       *)
(* report copies them, study.py:1655).                                     *)
(***************************************************************************)
PointsAreAsPlanned ==
  \A s \in Studies : \A i \in DOMAIN records[s] :
    LET r == records[s][i] IN
    Ok(r) =>
      LET d == package[r.run].doc
          point == PlannedPoints[d][r.point]
          base == Written[d].base
          declared == DOMAIN point.parameters
      IN /\ point.document[RunIdPath] = <<r.run[1], r.run[2] - 1>>
         /\ \A path \in declared : point.document[path] = point.parameters[path]
         /\ \A path \in DOMAIN base \ declared : point.document[path] = base[path]
         /\ \A q \in Point \ {r.point} :
              \E path \in declared : PlannedPoints[d][q].document[path] # point.document[path]
=============================================================================
