CONSTANT Setups <- MCSetups
SPECIFICATION Spec
CHECK_DEADLOCK FALSE
INVARIANTS CommandsMinimal StreamAgrees FrameIsRow InorderPessimistic CellsDistinct TraceReplays
