CONSTANT Runs <- MCDrams
SPECIFICATION Spec
INVARIANT OwnFile
