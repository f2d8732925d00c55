----------------------------- MODULE MCLibrary -----------------------------
(***************************************************************************)
(* Instance of Library: every day of the 21st century; formats of two      *)
(* pieces; all big reals of three digits in base 3, and pi to up to six    *)
(* groups of digits; disks of several geometries and segments of several   *)
(* sizes; up to six key strokes on a screen of three rows and columns; and *)
(* the heap of a task, with headers of 8 bytes as in the code, its pages   *)
(* and NALLOC scaled down in their ratio (NALLOC headers are two pages).   *)
(***************************************************************************)
EXTENDS Library

\* The day is before the first of the next month.
Calendar ==
    {<<y, m, d>> \in (2000..2099) \X (1..12) \X (1..31) :
        DaysSinceEpoch(y, m, d)
          < DaysSinceEpoch(y + m \div 12, (m % 12) + 1, 1)}
MCDates ==
    {c \o <<23, 59, 8>> : c \in Calendar}
      \cup {<<2007, 2, 28, hr, i, s>> : hr \in {0, 9, 10, 23}, i \in {0, 35}, s \in {0, 59}}

\* The int whose negation overflows, Word \div 2, is left out.
Ints == {0, 9, 16, 200, 255}
MCTexts == <<<<"o", "k">>>>
MCTokens ==
    [c : {"text", "s", "c"}, width : {NoWidth}, zero : {FALSE}, arg : {1}]
      \cup [c : Conversions, width : {NoWidth, 1, 4}, zero : {FALSE}, arg : Ints]
      \cup [c : Conversions, width : {2, 3}, zero : {TRUE}, arg : Ints]

MCDevices ==
    [lba : BOOLEAN, position : {0, 1}, heads : {1, 3, 16}, sectors : {1, 17, 63}]
MCBlocks == 0..64 \cup {1007, 1008, 65535, 16777215, 16777216, 268435455}

MCBases  == {0, 4096, 65536, 1048576, 16777216, 305418240, 2147479552}
MCLimits == {0, 103, 4095, 4096, 65535, 65536, 1044480, 268435456, 2147479552}
MCSelectors == [privilege : {0, 3}, in_ldt : BOOLEAN, segment_index : 0..4]

\* A name of NameLength - 2 characters keeps the blank behind it.
MCNames ==
    {s \in UNION {[1..k -> {"a", "A", " "}] : k \in 0..(NameLength - 3)} :
        s = << >> \/ s[Len(s)] # " "}

MCKeymap == [a |-> <<"a", "A">>, enter |-> <<NL, NL>>, shift |-> <<SHIFT, SHIFT>>]
=============================================================================
