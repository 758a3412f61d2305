CONSTANT Runs <- MCRuns
SPECIFICATION Spec
INVARIANTS OwnFile SummaryComplete
PROPERTY SweepEnds
