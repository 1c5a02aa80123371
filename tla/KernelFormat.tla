---------------------------- MODULE KernelFormat ----------------------------
(***************************************************************************)
(* The kernel's string routines (src/kernel/core/str.c): strlen and        *)
(* snprintf, as pure operators.                                            *)
(*                                                                         *)
(* A character is its ASCII code; a format string is the sequence of its  *)
(* codes without the terminating NUL (reading at its length yields 0).    *)
(* An argument of %s is a sequence of codes; the others are integers.     *)
(* Snprintf gives the SET of outcomes the build can produce: a read of an *)
(* uninitialised stack byte is a choice, and Garbage stands for the       *)
(* unknown non-NUL bytes strlen then counts.  An outcome is the sequence  *)
(* of bytes written to str[0..] and the return value; Undefined is the    *)
(* return of a run into undefined behaviour.                              *)
(***************************************************************************)
EXTENDS Integers, Sequences, SequencesExt

Nul == 0
Byte == 0 .. 255
Pct == 37          \* '%'
Zero == 48         \* '0'
Nine == 57         \* '9'
UpperA == 65       \* 'A'
LowerA == 97       \* 'a'
ConvS == 115       \* 's'
ConvC == 99        \* 'c'
ConvLowerX == 120  \* 'x'
ConvUpperX == 88   \* 'X'
ConvU == 117       \* 'u'
ConvD == 100       \* 'd'

\* An unknown byte that is not NUL.
Garbage == -1

Undefined == "undefined"

\* strlen: NULL (here <<>>) has length 0; otherwise the count of bytes
\* before the first NUL.
Strlen(s) ==
    IF \E k \in DOMAIN s : s[k] = Nul
    THEN (CHOOSE k \in DOMAIN s : s[k] = Nul /\ \A j \in 1 .. (k - 1) : s[j] # Nul) - 1
    ELSE Len(s)

\* fmt[k] of the C string.
FmtAt(fmt, k) == IF k < Len(fmt) THEN fmt[k + 1] ELSE Nul

IsDigit(ch) == Zero <= ch /\ ch <= Nine

\* A digit routine that would turn 9 into a letter.
HexDigitNineAsLetter(rem, upper) ==
    IF rem >= 9 THEN (IF upper THEN UpperA ELSE LowerA) + (rem - 10)
                ELSE Zero + rem

\* One hexadecimal digit: 'A'/'a' + (rem - 10) above 9, '0' + rem below.
HexDigit(rem, upper) ==
    IF rem > 9 THEN (IF upper THEN UpperA ELSE LowerA) + (rem - 10)
               ELSE Zero + rem

\* A digit loop that would not mask x to its low four bits.
RECURSIVE HexDigitsUnmasked(_, _)
HexDigitsUnmasked(x, upper) ==
    IF x = 0 THEN <<>> ELSE HexDigitsUnmasked(x \div 16, upper) \o <<HexDigit(x, upper)>>

\* The digit loop of %x/%X: x >>= 4 until zero, digits stored right to left.
RECURSIVE HexDigits(_, _)
HexDigits(x, upper) ==
    IF x = 0 THEN <<>> ELSE HexDigits(x \div 16, upper) \o <<HexDigit(x % 16, upper)>>

\* The digit loop of %u and %d: x /= 10 until zero.
RECURSIVE DecDigits(_)
DecDigits(x) == IF x = 0 THEN <<>> ELSE DecDigits(x \div 10) \o <<Zero + (x % 10)>>

\* %x/%X: "0" for zero; otherwise the digits, which start in hex_as_str at
\* 16-n and run to index 15.  hex_as_str[16] (and 9..15 above the digits)
\* is never initialised, so strlen may count garbage after the digits.
HexTexts(x, upper) ==
    IF x = 0 THEN {<<Zero>>}
    ELSE {HexDigits(x, upper), HexDigits(x, upper) \o <<Garbage>>}

\* %u: "0" for zero, else the digits; u_as_str[10] is zeroed.
UText(u) == IF u = 0 THEN <<Zero>> ELSE DecDigits(u)

\* The '0' flag: ++cursor, then skip while fmt[cursor] is NOT a digit
\* (the test is inverted), which runs past the terminating NUL when no
\* digit follows.  The indices where evaluation can resume; the least is
\* taken, and none means the read ran off the string.
DigitsFrom(fmt, k) == {j \in k .. (Len(fmt) - 1) : IsDigit(fmt[j + 1])}

Outcome(out, ret) == [str |-> out, ret |-> ret]

\* The bytes of text the copy loop stores before cursor_into reaches limit.
Copied(out, text, limit) == out \o SubSeq(text, 1, Min({Strlen(text), limit - Len(out)}))

RECURSIVE Walk(_, _, _, _, _)
RECURSIVE Convert(_, _, _, _, _)

\* The main loop: while (fmt[cursor] && cursor_into < limit).
Walk(fmt, limit, cur, args, out) ==
    IF FmtAt(fmt, cur) = Nul \/ Len(out) >= limit
    THEN {Outcome(out, Len(out))}
    ELSE IF FmtAt(fmt, cur) # Pct
         THEN Walk(fmt, limit, cur + 1, args, Append(out, FmtAt(fmt, cur)))
         ELSE Convert(fmt, limit, cur + 1, args, out)

\* The switch at snprintf__RepeatEvaluation, then the copy of str_to_print
\* and ++cursor.
Convert(fmt, limit, cur, args, out) ==
    LET ch   == FmtAt(fmt, cur)
        emit(texts) == UNION {Walk(fmt, limit, cur + 1, Tail(args), Copied(out, t, limit)) : t \in texts}
    IN  CASE ch = Pct -> Walk(fmt, limit, cur + 1, args, Append(out, Pct))
          [] ch = Zero ->
               IF DigitsFrom(fmt, cur + 1) = {} THEN {Outcome(out, Undefined)}
               ELSE Convert(fmt, limit, Min(DigitsFrom(fmt, cur + 1)), args, out)
          [] ch = ConvS -> emit({Head(args)})
          [] ch = ConvC -> Walk(fmt, limit, cur + 1, Tail(args), Append(out, Head(args) % 256))
          [] ch \in {ConvLowerX, ConvUpperX} -> emit(HexTexts(Head(args), ch = ConvUpperX))
          [] ch = ConvU -> emit({UText(Head(args))})
          \* A negative %d skips the digit loop and stores '-' at the
          \* uninitialised d_at - 1.
          [] ch = ConvD /\ Head(args) < 0 -> {Outcome(out, Undefined)}
          [] ch = ConvD /\ Head(args) >= 0 -> emit({UText(Head(args))})
          [] OTHER -> {Outcome(out, -1)}

Snprintf(limit, fmt, args) == Walk(fmt, limit, 0, args, <<>>)

-----------------------------------------------------------------------------
(* Reference: ISO C 7.21.6.1 for the conversions above without flags; the *)
(* text snprintf should store, before truncation.                          *)

DigitCodes(upper) ==
    <<48, 49, 50, 51, 52, 53, 54, 55, 56, 57>>
    \o (IF upper THEN <<65, 66, 67, 68, 69, 70>> ELSE <<97, 98, 99, 100, 101, 102>>)

\* n in the given base with the fewest digits (at least one): the width w
\* is the one with n \div base^(w-1) a single digit.
InBase(n, base, upper) ==
    LET width == CHOOSE w \in 1 .. 12 :
                     n \div base ^ (w - 1) < base /\ (w = 1 \/ n >= base ^ (w - 1))
    IN  [j \in 1 .. width |-> DigitCodes(upper)[((n \div base ^ (width - j)) % base) + 1]]

StdConversion(ch, arg) ==
    CASE ch = Pct -> <<Pct>>
      [] ch = ConvC -> <<arg % 256>>
      [] ch = ConvS -> SubSeq(arg, 1, Strlen(arg))
      [] ch = ConvU -> InBase(arg, 10, FALSE)
      [] ch = ConvD -> (IF arg < 0 THEN <<45>> ELSE <<>>) \o InBase(IF arg < 0 THEN -arg ELSE arg, 10, FALSE)
      [] ch = ConvLowerX -> InBase(arg, 16, FALSE)
      [] ch = ConvUpperX -> InBase(arg, 16, TRUE)

RECURSIVE StdFormat(_, _)
StdFormat(fmt, args) ==
    CASE fmt = <<>> -> <<>>
      [] Head(fmt) # Pct -> <<Head(fmt)>> \o StdFormat(Tail(fmt), args)
      [] fmt[2] = Pct -> <<Pct>> \o StdFormat(Tail(Tail(fmt)), args)
      [] OTHER -> StdConversion(fmt[2], Head(args)) \o StdFormat(Tail(Tail(fmt)), Tail(args))
=============================================================================
