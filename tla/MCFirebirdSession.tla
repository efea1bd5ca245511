------------------------ MODULE MCFirebirdSession ------------------------
(* Small instances of FirebirdSession for TLC: two statements (enough for  *)
(* one to hold a cursor while another one's close fails) and one BLOB.     *)
EXTENDS FirebirdSession, TLC

CONSTANTS s1, s2, b1

MCStmts == {s1, s2}
MCBlobs == {b1}

\* Statement backends are interchangeable.
StmtSymmetry == Permutations(MCStmts)

\* Every failure the release-and-reset paths are meant to absorb.
FaultsForRelease ==
    {"startTransaction", "closeCursor", "openBlob", "getSegment",
     "putSegment", "closeBlob"}

\* Every failure except a failing cursor close.
FaultsForCursorOrder ==
    {"startTransaction", "free", "prepare", "openBlob", "getSegment",
     "createBlob", "putSegment", "closeBlob"}

FaultsCloseCursor == {"closeCursor"}
FaultsFree        == {"free"}
FaultsCreateBlob  == {"createBlob"}
NoFaults          == {}
=============================================================================
