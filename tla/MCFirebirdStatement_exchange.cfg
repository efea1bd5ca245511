CONSTANTS
    MaxParams <- MCMaxParams
    MaxRows <- MCMaxRows
    MaxExec <- MCMaxExec
    Faults <- MCFaults
SPECIFICATION FairSpec
INVARIANT BindExclusive
INVARIANT NoExchangeWithoutBuffer
INVARIANT EndOfRowSetEmpty
PROPERTY FetchCountsTakenRows
PROPERTY CursorDrained
PROPERTY CursorRefinement
