------------------------------- MODULE Format -------------------------------
(***************************************************************************)
(* vsnprintf of lib/string.c.  A string is a sequence of characters and ap *)
(* the sequence of the arguments that are left; a number is the bit        *)
(* pattern of an int.                                                      *)
(***************************************************************************)
EXTENDS Integers, SequencesExt

CONSTANT Word       \* the number of values of an int

NoWidth == -1

Figures == <<"0", "1", "2", "3", "4", "5", "6", "7", "8", "9",
             "a", "b", "c", "d", "e", "f">>
Capitals == <<"0", "1", "2", "3", "4", "5", "6", "7", "8", "9",
              "A", "B", "C", "D", "E", "F">>

Signed(n) == IF n < Word \div 2 THEN n ELSE n - Word

\* The digits of n.  The one number that -n leaves negative has one digit.
digits(n, base) ==
    LET d[m \in Int] ==
            IF m < 0 THEN <<-((-m) % base)>>
            ELSE IF m < base THEN <<m>> ELSE Append(d[m \div base], m % base)
    IN  d[n]

Figure(d, c) ==
    IF d < 0 THEN "?" ELSE IF c = "X" THEN Capitals[d + 1] ELSE Figures[d + 1]

\* Mutant: one character of padding is missing.
Padding_Short(width, len, zeropad) ==
    [i \in 1..(width - len - 1) |-> IF zeropad THEN "0" ELSE " "]

Padding(width, len, zeropad) ==
    [i \in 1..(width - len) |-> IF zeropad THEN "0" ELSE " "]

Number(c, n, minwidth, zeropad) ==
    LET negative == c = "d" /\ Signed(n) < 0
        \* n = -n, in an int
        m  == IF negative THEN Signed((-n) % Word) ELSE n
        ds == digits(m, IF c \in {"x", "X"} THEN 16 ELSE 10)
    IN  (IF negative THEN <<"-">> ELSE << >>)
            \o Padding(minwidth, Len(ds), zeropad)
            \o [i \in DOMAIN ds |-> Figure(ds[i], c)]

IsDecimal(c) == \E i \in 1..10 : Figures[i] = c
Conversions  == {"u", "d", "x", "X"}

\* The number of decimals at the start of f, and their value.
Decimals(f) ==
    CHOOSE k \in 0..Len(f) :
        /\ \A i \in 1..k : IsDecimal(f[i])
        /\ k < Len(f) => ~IsDecimal(f[k + 1])
Value(f) ==
    FoldLeft(LAMBDA v, c : 10 * v + CHOOSE d \in 0..9 : Figures[d + 1] = c, 0, f)

\* What is written for the rest f of the format; minwidth and zeropad are those
\* of a conversion that has begun.
RECURSIVE Write(_, _, _, _)
Write(f, ap, minwidth, zeropad) ==
    IF f = << >> THEN << >>
    ELSE IF minwidth = NoWidth /\ Head(f) # "%"
    THEN <<Head(f)>> \o Write(Tail(f), ap, minwidth, zeropad)
    ELSE
      LET g == IF minwidth = NoWidth THEN Tail(f) ELSE f
          c == Head(g)
          rest == Tail(g)
          k == Decimals(rest)
          width == SubSeq(rest, 1, k)
          convert == k < Len(rest) /\ rest[k + 1] \in Conversions
      IN  CASE c = "%" -> <<"%", "%">> \o Write(rest, ap, minwidth, zeropad)
            [] c = "c" -> <<Head(ap)>> \o Write(rest, Tail(ap), minwidth, zeropad)
            [] c = "s" -> Head(ap) \o Write(rest, Tail(ap), minwidth, zeropad)
            [] c = "." -> Write(IF convert THEN SubSeq(rest, k + 1, Len(rest))
                                ELSE rest,
                                ap, Value(width), k > 0 /\ width[1] = "0")
            [] c \in Conversions ->
                  Number(c, Head(ap), minwidth, zeropad)
                    \o Write(rest, Tail(ap), NoWidth, zeropad)
            [] OTHER -> <<"%", c>> \o Write(rest, ap, minwidth, zeropad)

\* What str holds, for a buffer of at least two characters.
vsnprintf(size, format, ap) ==
    LET all == Write(format, ap, NoWidth, FALSE)
    IN  SubSeq(all, 1, Min({Len(all), size - 1}))
=============================================================================
