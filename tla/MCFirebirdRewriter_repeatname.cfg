CONSTANTS
    Alphabet <- MCAlphabet
    MaxLen <- MCMaxLen
SPECIFICATION Spec
INVARIANT ParameterNamesByPosition
CHECK_DEADLOCK FALSE
