------------------------- MODULE MCFirebirdCodec -------------------------
(* Small instances of FirebirdCodec for TLC.  The column is a SMALLINT     *)
(* (SQL_SHORT, 16 bits): TLC's integers are 32-bit, so the 32- and 64-bit  *)
(* instantiations are out of its reach, and 16 bits already wraps at five  *)
(* digits.                                                                 *)
EXTENDS FirebirdCodec

MCSqlType == "SQL_SHORT"

\* SMALLINT, NUMERIC(4,1) and NUMERIC(4,2).
MCScales == {0, -1, -2}

\* Signs, a point, a letter and enough digits for values past 2^15 and 2^16.
MCAlphabet == {"-", ".", "x", "0", "1", "3", "4", "9"}

\* Only the digits of "40000", the shortest string past the range of short.
MCWrapAlphabet == {"0", "4"}

MCMaxLen == 5
=============================================================================
