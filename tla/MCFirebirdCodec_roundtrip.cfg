CONSTANTS
    SqlType <- MCSqlType
    Scales <- MCScales
    Alphabet <- MCAlphabet
    MaxLen <- MCMaxLen
SPECIFICATION Spec
INVARIANT AcceptsOnlyDecimals
INVARIANT RoundTrip
