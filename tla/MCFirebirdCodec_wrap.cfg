CONSTANTS
    SqlType <- MCSqlType
    Scales <- MCScales
    Alphabet <- MCWrapAlphabet
    MaxLen <- MCMaxLen
SPECIFICATION Spec
INVARIANT NoSilentWrap
