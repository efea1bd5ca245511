CONSTANTS
    MaxParams <- MCMaxParams
    MaxRows <- MCMaxRows
    MaxExec <- MCMaxExec
    Faults <- MCNoFaults
SPECIFICATION Spec
INVARIANT AffectedRowsAccurate
