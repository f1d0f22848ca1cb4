------------------------------ MODULE Replies ------------------------------
(***************************************************************************)
(* Replies, as far as clients can tell them apart, and numbers as text.  A *)
(* byte is a number below 2^ByteBits: 0 is NUL, 1..10 are the digits, 11   *)
(* is the minus sign and the others are letters.                           *)
(***************************************************************************)
EXTENDS Integers, Sequences, FiniteSets, SequencesExt

CONSTANTS ByteBits, IntLimit    \* INT64_MAX

Num(n) == [t |-> "int", n |-> n, s |-> <<>>]
Bulks(s) == [t |-> "array", n |-> Len(s), s |-> s]
Bulk(v) == [t |-> "bulk", n |-> 0, s |-> <<v>>]
Str(s) == [t |-> "string", n |-> 0, s |-> s]
Nil == [t |-> "nil", n |-> 0, s |-> <<>>]
Ok == [t |-> "ok", n |-> 0, s |-> <<>>]
Err == [t |-> "error", n |-> 0, s |-> <<>>]

Digit(d) == d + 1
Minus == 11
IsDigit(b) == b \in 1 .. 10
ValueOfDigits(s) == FoldLeft(LAMBDA v, b : 10 * v + b - 1, 0, s)

Digits(n) ==
    LET k == CHOOSE k \in 1 .. 9 : n < 10 ^ k /\ (k = 1 \/ n >= 10 ^ (k - 1))
    IN FoldLeft(LAMBDA s, i : Append(s, Digit((n \div 10 ^ (k - i)) % 10)), <<>>, [i \in 1 .. k |-> i])
\* i64_to_dec, and format_long_double of a whole number (-0 is 0 here).
TextOf(n) == IF n < 0 THEN <<Minus>> \o Digits(-n) ELSE Digits(n)

\* parse_long_double, of the texts of whole numbers: zeros may lead.
Unsigned(s) == IF s # <<>> /\ s[1] = Minus THEN Tail(s) ELSE s
IsFloat(s) == Unsigned(s) # <<>> /\ \A i \in DOMAIN Unsigned(s) : IsDigit(Unsigned(s)[i])
FloatOf(s) == IF s[1] = Minus THEN -ValueOfDigits(Tail(s)) ELSE ValueOfDigits(s)
=============================================================================
