SPECIFICATION CircuitSpec
CONSTANTS
    DutyScale = 8
    Names <- MCNames
    Templates <- MCTemplates
    Netlists <- MCNetlists
    Sanitised <- MCSanitised
    Edits <- MCEdits
    CommandedDuties = {0, 1, 3, 8}
    Spans = {3, 8}
    Overrides <- MCOverrides
    MaxEdits = 1
    MaxTicks <- MCMaxTicks
INVARIANTS
    GraphVerdictsAreTrue
    ValidatorAndCompilerAgree
    GateFollowsTheCycle
    ImportKeepsTheCircuit
CHECK_DEADLOCK FALSE
