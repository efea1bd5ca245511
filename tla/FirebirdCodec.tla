---------------------------- MODULE FirebirdCodec ----------------------------
(***************************************************************************)
(* The text codec of scaled integer columns (common.h, common.cpp).        *)
(*                                                                         *)
(* A use element of type std::string bound to a SMALLINT, INTEGER or       *)
(* BIGINT column (possibly NUMERIC/DECIMAL with a negative scale) is       *)
(* written by setTextParam, which calls parse_decimal<IntType,UIntType>:   *)
(* str2dec into the unsigned type, then into the signed type, then to_isc  *)
(* scales the value to the column.  An into element of type std::string    *)
(* reads the column through getTextParam, which calls format_decimal.      *)
(*                                                                         *)
(* Strings are sequences of one-character strings.  Integer types keep     *)
(* their width: every store into an IntType of w bits is taken modulo 2^w  *)
(* (two's complement for the signed types, as the compilers the backend    *)
(* supports do).                                                           *)
(*                                                                         *)
(* The state machine is the application's string: Type appends one         *)
(* character, Exchange hands the string to the statement and starts a new  *)
(* one.  The properties are about what setTextParam would store for the    *)
(* current string, and what getTextParam makes of it.                      *)
(***************************************************************************)
EXTENDS Integers, Sequences, SequencesExt

CONSTANTS
    SqlType,    \* the column's wire type: "SQL_SHORT", "SQL_LONG", "SQL_INT64"
    Scales,     \* the column scales (sqlscale) a run considers
    Alphabet,   \* the characters the application's strings are made of
    MaxLen      \* bound on the length of the application's string

IntTypes == {"SQL_SHORT", "SQL_LONG", "SQL_INT64"}

ASSUME CodecAssumption ==
    /\ SqlType \in IntTypes
    /\ Scales \subseteq -18..0
    /\ MaxLen \in Nat

(* The width of the C++ integer type parse_decimal is instantiated with    *)
(* (common.cpp: short, int, long long).                                    *)
Width(t) == IF t = "SQL_SHORT" THEN 16 ELSE IF t = "SQL_LONG" THEN 32 ELSE 64

(* Storing x into a signed integer of w bits. *)
Wrap(x, w) == LET m == x % 2^w IN IF m >= 2^(w - 1) THEN m - 2^w ELSE m

SignedRange(w) == -(2^(w - 1))..(2^(w - 1) - 1)

(* C++ integer division truncates toward zero; TLA+'s \div floors. *)
TruncDiv(a, b) == IF a >= 0 THEN a \div b ELSE -((-a) \div b)

DigitChar == <<"0", "1", "2", "3", "4", "5", "6", "7", "8", "9">>

IsDigit(c) == \E d \in 1..10 : DigitChar[d] = c

Digit(c) == CHOOSE d \in 0..9 : DigitChar[d + 1] = c

(***************************************************************************)
(* str2dec (common.h 40-81).  The sign is read once, then every character  *)
(* is one iteration of the for loop: a second '.' or a non-digit returns   *)
(* early, a digit computes res = res * 10 + IntType(d * sign) in the width *)
(* of IntType and returns early when res moved backwards.  The loop's      *)
(* increment sets out = res.  The caller only looks at whether the         *)
(* returned pointer reached the terminating NUL: ~stopped.                 *)
(***************************************************************************)
Str2DecInit == [stopped |-> FALSE, period |-> FALSE, out |-> 0, scale |-> 0]

(* Storing x into IntType, the unsigned or the signed type of w bits. *)
StoreInt(x, w, isUnsigned) == IF isUnsigned THEN x % 2^w ELSE Wrap(x, w)

(* A mutant of ScanChar: a second '.' is taken as a digit separator. *)
ScanCharTwoPoints(st, c, sign, w, isUnsigned) ==
    IF st.stopped THEN st
    ELSE IF c = "." THEN [st EXCEPT !.period = TRUE]
    ELSE IF ~IsDigit(c) THEN [st EXCEPT !.stopped = TRUE]
    ELSE LET res == StoreInt(st.out * 10 + StoreInt(Digit(c) * sign, w, isUnsigned),
                             w, isUnsigned)
         IN IF (sign = 1 /\ res < st.out) \/ (sign = -1 /\ res > st.out)
            THEN [st EXCEPT !.stopped = TRUE]
            ELSE [st EXCEPT !.out = res,
                            !.scale = IF st.period THEN @ + 1 ELSE @]

(* One iteration of str2dec's loop on character c. *)
ScanChar(st, c, sign, w, isUnsigned) ==
    IF st.stopped THEN st
    ELSE IF c = "." THEN [st EXCEPT !.stopped = st.period, !.period = TRUE]
    ELSE IF ~IsDigit(c) THEN [st EXCEPT !.stopped = TRUE]
    ELSE LET res == StoreInt(st.out * 10 + StoreInt(Digit(c) * sign, w, isUnsigned),
                             w, isUnsigned)
         IN IF (sign = 1 /\ res < st.out) \/ (sign = -1 /\ res > st.out)
            THEN [st EXCEPT !.stopped = TRUE]
            ELSE [st EXCEPT !.out = res,
                            !.scale = IF st.period THEN @ + 1 ELSE @]

HasSign(str) == Len(str) > 0 /\ str[1] \in {"+", "-"}

SignOf(str) == IF Len(str) > 0 /\ str[1] = "-" THEN -1 ELSE 1

Body(str) == IF HasSign(str) THEN Tail(str) ELSE str

Str2Dec(str, w, isUnsigned) ==
    FoldLeft(LAMBDA st, c : ScanChar(st, c, SignOf(str), w, isUnsigned),
             Str2DecInit, Body(str))

(***************************************************************************)
(* to_isc<IntType> for an integral column (common.h 113-147): the scale    *)
(* is sqlscale + x_scale, the value is multiplied by 10^-scale or divided  *)
(* (truncating) by 10^scale in long long, and the result is stored into    *)
(* the column's IntType.  round_for_isc is the identity for integers and   *)
(* checkInteger does nothing for them.                                     *)
(***************************************************************************)
ToIsc(value, sqlscale, xscale, w) ==
    LET scale      == sqlscale + xscale
        multiplier == IF scale < 0 THEN 10^(-scale) ELSE 1
        divisor    == IF scale > 0 THEN 10^scale ELSE 1
    IN  Wrap(TruncDiv(value * multiplier, divisor), w)

(***************************************************************************)
(* parse_decimal<IntType,UIntType> (common.h 165-179): the unsigned parse  *)
(* first, its bytes handed to to_isc<IntType> as an IntType; then the      *)
(* signed parse; else "Could not parse decimal value."                     *)
(***************************************************************************)
ParseDecimal(str, sqlscale, w) ==
    LET u == Str2Dec(str, w, TRUE)
        s == Str2Dec(str, w, FALSE)
    IN  IF ~u.stopped
        THEN [ok |-> TRUE, v |-> ToIsc(Wrap(u.out, w), sqlscale, u.scale, w)]
        ELSE IF ~s.stopped
        THEN [ok |-> TRUE, v |-> ToIsc(s.out, sqlscale, s.scale, w)]
        ELSE [ok |-> FALSE, v |-> 0]

(***************************************************************************)
(* format_decimal<IntType> (common.h 181-200): the decimal digits of x     *)
(* (operator<<), left-padded with zeros after the '-' to -sqlscale + 1     *)
(* digits when shorter, and a '.' inserted -sqlscale places from the right;*)
(* a scale >= 0 appends sqlscale zeros.                                    *)
(***************************************************************************)
DecDigits[m \in Nat] ==
    IF m < 10 THEN <<DigitChar[m + 1]>>
    ELSE DecDigits[m \div 10] \o <<DigitChar[(m % 10) + 1]>>

IntToString(x) == IF x < 0 THEN <<"-">> \o DecDigits[-x] ELSE DecDigits[x]

Zeros(k) == [i \in 1..k |-> "0"]

(* A mutant of FormatDecimal: the padding drops the leading '-'. *)
FormatDecimalDropsSign(x, sqlscale) ==
    LET neg == IF x < 0 THEN 1 ELSE 0
        r0  == IntToString(x)
        r   == IF sqlscale < 0 /\ Len(r0) - neg <= -sqlscale
               THEN Zeros(-sqlscale - (Len(r0) - neg) + 1)
                    \o SubSeq(r0, neg + 1, Len(r0))
               ELSE r0
    IN  IF sqlscale < 0
        THEN SubSeq(r, 1, Len(r) + sqlscale) \o <<".">>
             \o SubSeq(r, Len(r) + sqlscale + 1, Len(r))
        ELSE r \o Zeros(sqlscale)

FormatDecimal(x, sqlscale) ==
    LET neg == IF x < 0 THEN 1 ELSE 0
        r0  == IntToString(x)
        r   == IF sqlscale < 0 /\ Len(r0) - neg <= -sqlscale
               THEN SubSeq(r0, 1, neg) \o Zeros(-sqlscale - (Len(r0) - neg) + 1)
                    \o SubSeq(r0, neg + 1, Len(r0))
               ELSE r0
    IN  IF sqlscale < 0
        THEN SubSeq(r, 1, Len(r) + sqlscale) \o <<".">>
             \o SubSeq(r, Len(r) + sqlscale + 1, Len(r))
        ELSE r \o Zeros(sqlscale)

(* setTextParam and getTextParam for the integral column types            *)
(* (common.cpp 101-112 and 177-188).                                      *)
SetTextParam(str, sqltype, sqlscale) == ParseDecimal(str, sqlscale, Width(sqltype))

GetTextParam(v, sqltype, sqlscale) == FormatDecimal(v, sqlscale)

-----------------------------------------------------------------------------
(***************************************************************************)
(* The reference: what a decimal literal means.  A literal is an optional  *)
(* sign, then digits with at most one '.'.  Its value scaled to the column *)
(* is sign * digits * 10^(-sqlscale - fraction digits), truncated toward   *)
(* zero as to_isc does.                                                    *)
(***************************************************************************)
IsDecimal(str) ==
    LET b == Body(str)
    IN  /\ \A i \in 1..Len(b) : IsDigit(b[i]) \/ b[i] = "."
        /\ \A i, j \in 1..Len(b) : b[i] = "." /\ b[j] = "." => i = j

ExactScaled(str, sqlscale) ==
    LET b      == Body(str)
        points == {i \in 1..Len(b) : b[i] = "."}
        frac   == IF points = {} THEN 0 ELSE Len(b) - (CHOOSE i \in points : TRUE)
        mag    == FoldLeft(LAMBDA a, c : a * 10 + Digit(c), 0, SelectSeq(b, IsDigit))
        e      == -sqlscale - frac
    IN  SignOf(str) * (IF e >= 0 THEN mag * 10^e ELSE mag \div 10^(-e))

-----------------------------------------------------------------------------
VARIABLES
    text,       \* the application's std::string bound with use()
    sqlscale    \* the scale of the column it is bound to

vars == <<text, sqlscale>>

Init ==
    /\ text = <<>>
    /\ sqlscale \in Scales

(* The application appends a character to its string. *)
Type(c) ==
    /\ Len(text) < MaxLen
    /\ text' = Append(text, c)
    /\ UNCHANGED sqlscale

(* The statement exchanges the string (setTextParam); the application     *)
(* starts a new one for the next execution.                                *)
Exchange ==
    /\ text # <<>>
    /\ text' = <<>>
    /\ UNCHANGED sqlscale

Next == (\E c \in Alphabet : Type(c)) \/ Exchange

Spec == Init /\ [][Next]_vars

-----------------------------------------------------------------------------
Stored == SetTextParam(text, SqlType, sqlscale)

TypeOK ==
    /\ text \in Seq(Alphabet) /\ Len(text) <= MaxLen
    /\ sqlscale \in Scales
    /\ Stored.v \in SignedRange(Width(SqlType))

(* setTextParam accepts only decimal literals: str2dec's early returns on  *)
(* a non-digit and on a second '.' make both parses of anything else      *)
(* fail, so parse_decimal throws.                                          *)
AcceptsOnlyDecimals == Stored.ok => IsDecimal(text)

(* A value read back with getTextParam (format_decimal) and written again  *)
(* with setTextParam (parse_decimal) is stored unchanged (spec.md,         *)
(* "Decimal round-trip").                                                  *)
RoundTrip ==
    Stored.ok =>
        SetTextParam(GetTextParam(Stored.v, SqlType, sqlscale), SqlType, sqlscale)
            = [ok |-> TRUE, v |-> Stored.v]

(* A string that setTextParam accepts is stored as its exact scaled value: *)
(* a magnitude beyond the column's range fails with a parse error and      *)
(* never wraps (spec.md, "Overflow detection").                            *)
NoSilentWrap == Stored.ok => Stored.v = ExactScaled(text, sqlscale)

=============================================================================
