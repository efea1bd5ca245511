CONSTANTS
    s1 = s1
    s2 = s2
    b1 = b1
    Stmts <- MCStmts
    Blobs <- MCBlobs
    Faults <- FaultsCreateBlob
SYMMETRY StmtSymmetry
SPECIFICATION Spec
INVARIANT NoUseAfterRelease
