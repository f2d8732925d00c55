------------------------------ MODULE Library ------------------------------
(***************************************************************************)
(* The functions that keep no state between calls, called one at a time,   *)
(* and the heap of a user task, used for as long as it likes: formatting   *)
(* (lib/string.c), the wall clock at boot (kernel/timer.c), the arithmetic *)
(* of compute_pi_task (kernel/main.c), block addresses (drivers/ide.c) and *)
(* segments (include/simplix/segment.h), a burst of key strokes            *)
(* (drivers/kbd.c, drivers/gfx.c), and malloc and free (lib/stdlib.c).     *)
(* Each function is compared with a definition of its result that does not *)
(* follow its code.                                                        *)
(***************************************************************************)
EXTENDS UserHeap, WallClock, Format, Console, IDEAddress, Segments

CONSTANTS
    Dates,          \* <<year, month, day, hour, minute, second>>
    Tokens, Texts, Buffers,     \* pieces of a format; sizes of the buffer
    SmallBase, SmallSize, SmallFactors, PiSizes,
    Devices, Blocks, Bases, Limits, Selectors,
    NameLength, Names,          \* of a device, without the blanks behind
    keymap, Keys, MaxKeys       \* bound: key strokes of a burst

Small == INSTANCE BigReal WITH B <- SmallBase
Real  == INSTANCE BigReal WITH B <- 10000

VARIABLES
    fn, arg,        \* the function that is called, and its arguments
    res             \* its result, NULL before the call

call == <<fn, arg, res>>
-----------------------------------------------------------------------------
\* The registers of the real time clock hold two BCD digits.
BCD(n) == 16 * (n \div 10) + (n % 10)

rtc(d) ==
    [year |-> BCD(d[1] - 2000), month |-> BCD(d[2]), date |-> BCD(d[3]),
     hour |-> BCD(d[4]), minute |-> BCD(d[5]), second |-> BCD(d[6])]

\* A token of a format: a piece of text or a conversion, with its argument.  Of
\* text, strings and characters arg is the number in Texts.
Spell(t) ==
    IF t.c = "text" THEN Texts[t.arg]
    ELSE <<"%">>
           \o (IF t.width = NoWidth THEN << >>
               ELSE <<".">> \o (IF t.zero THEN <<"0">> ELSE << >>)
                      \o <<Figures[t.width + 1]>>)
           \o <<t.c>>
Args(t) ==
    CASE t.c = "text" -> << >>
      [] t.c = "s" -> <<Texts[t.arg]>>
      [] t.c = "c" -> <<Head(Texts[t.arg])>>
      [] OTHER -> <<t.arg>>

\* The cylinders of a disk are numbered with 16 bits, its blocks with 28.
Capacity(d) == IF d.lba THEN 268435456 ELSE 65536 * d.heads * d.sectors

\* A device fills its name up with blanks.
Padded(name) == [i \in 1..NameLength |-> IF i <= Len(name) THEN name[i] ELSE " "]

SmallReals == [Small!Digits(SmallSize) -> 0..(SmallBase - 1)]
Bursts == UNION {[1..k -> [key : Keys, pressed : BOOLEAN]] : k \in 1..MaxKeys}

Result ==
    CASE fn = "init_wall_clock" -> init_wall_clock(rtc(arg))
      [] fn = "vsnprintf" ->
           vsnprintf(arg.size, Spell(arg.t) \o Spell(arg.u), Args(arg.t) \o Args(arg.u))
      [] fn = "Add" -> Small!Add(SmallSize, arg.x, arg.y)
      [] fn = "Sub" -> Small!Sub(SmallSize, arg.x, arg.y)
      [] fn = "Mul" -> Small!Mul(SmallSize, arg.x, arg.k)
      [] fn = "Div" -> Small!Div(SmallSize, arg.x, arg.k)
      [] fn = "compute_pi" -> Real!compute_pi(arg)
      [] fn = "ide_read_write_blocks" -> registers(arg.device, arg.block)
      [] fn = "BUILD_SEG_DESC" -> BUILD_SEG_DESC(arg.base_addr, arg.limit)
      [] fn = "BUILD_4KB_SEG_DESC" -> BUILD_4KB_SEG_DESC(arg.base_addr, arg.limit)
      [] fn = "SEG_REG_VAL" ->
           SEG_REG_VAL(arg.privilege, arg.in_ldt, arg.segment_index)
      [] fn = "fix_ide_string" ->
           fix_ide_string(Swap(Padded(arg)), Printable \ {" "}, NUL)
      [] fn = "handle_kbd_interrupt" -> typed(keymap, arg)

Called ==
    \/ fn = "init_wall_clock" /\ arg \in Dates
    \/ fn = "vsnprintf" /\ arg \in [size : Buffers, t : Tokens, u : Tokens]
    \/ fn \in {"Add", "Sub"} /\ arg \in [x : SmallReals, y : SmallReals]
    \/ fn \in {"Mul", "Div"} /\ arg \in [x : SmallReals, k : SmallFactors]
    \/ fn = "compute_pi" /\ arg \in PiSizes
    \/ /\ fn = "ide_read_write_blocks"
       /\ arg \in [device : Devices, block : Blocks]
       /\ arg.block < Capacity(arg.device)
    \/ /\ fn \in {"BUILD_SEG_DESC", "BUILD_4KB_SEG_DESC"}
       /\ arg \in [base_addr : Bases, limit : Limits]
       /\ fn = "BUILD_SEG_DESC" => arg.limit < 1048576
    \/ fn = "SEG_REG_VAL" /\ arg \in Selectors
    \/ fn = "fix_ide_string" /\ arg \in Names
    \/ fn = "handle_kbd_interrupt" /\ arg \in Bursts

LibraryInit ==
    /\ Init
    /\ res = NULL
    /\ Called \/ (fn = "malloc" /\ arg = NULL)

Call ==
    /\ fn # "malloc" /\ res = NULL
    /\ res' = Result
    /\ UNCHANGED <<vars, fn, arg>>

Returned == res # NULL /\ UNCHANGED <<vars, call>>

UseHeap == fn = "malloc" /\ Next /\ UNCHANGED call

LibraryNext == Call \/ Returned \/ UseHeap

LibrarySpec == LibraryInit /\ [][LibraryNext]_<<vars, call>>
-----------------------------------------------------------------------------
Done(f) == fn = f /\ res # NULL

\* The days from 1 January 1970 to a day of the Gregorian calendar, counted in
\* cycles of 400 years that begin in March.
DaysSinceEpoch(year, month, day) ==
    LET y   == IF month <= 2 THEN year - 1 ELSE year
        m   == IF month > 2 THEN month - 3 ELSE month + 9
        yoe == y % 400
    IN  (y \div 400) * 146097 + yoe * 365 + yoe \div 4 - yoe \div 100
          + (153 * m + 2) \div 5 + day - 1 - 719468

\* timer.c:104 "number of seconds since the Epoch": whatever date and time the
\* real time clock shows, init_wall_clock computes the day and the second.
EpochTime ==
    Done("init_wall_clock") =>
        res = <<DaysSinceEpoch(arg[1], arg[2], arg[3]),
                3600 * arg[4] + 60 * arg[5] + arg[6]>>

\* A number in a radix, right-aligned in at least width characters.
Numeral(n, radix, width, pad, c) ==
    LET len   == CHOOSE k \in 1..Word : /\ n < radix ^ k
                                        /\ \A j \in 1..(k - 1) : n >= radix ^ j
        total == Max({width, len})
    IN  [i \in 1..total |->
            IF total - i >= len THEN pad
            ELSE Figure((n \div radix ^ (total - i)) % radix, c)]

Expected(t) ==
    LET pad == IF t.zero THEN "0" ELSE " "
    IN  CASE t.c \in {"text", "s"} -> Texts[t.arg]
          [] t.c = "c" -> <<Head(Texts[t.arg])>>
          [] t.c = "u" -> Numeral(t.arg, 10, t.width, pad, "u")
          [] t.c = "d" -> IF Signed(t.arg) < 0
                          THEN <<"-">> \o Numeral(Word - t.arg, 10, t.width, pad, "d")
                          ELSE Numeral(t.arg, 10, t.width, pad, "d")
          [] OTHER -> Numeral(t.arg, 16, t.width, pad, t.c)

\* vsnprintf writes what its conversions stand for, one after the other, and as
\* much of it as fits in the buffer with the NUL: the width and the padding of a
\* conversion end with it, and a number reads back as the argument.  The name of
\* a device, up to the NUL, is what fix_ide_string was given without its blanks.
FormatExact ==
    /\ Done("vsnprintf") =>
          LET all == Expected(arg.t) \o Expected(arg.u)
          IN  res = SubSeq(all, 1, Min({Len(all), arg.size - 1}))
    /\ Done("fix_ide_string") =>
          /\ SubSeq(res, 1, Len(arg)) = arg
          /\ res[Len(arg) + 1] = NUL

\* A big real in units of its last digit.
Amount(x) ==
    LET u[i \in 0..(SmallSize - 1)] == x[i] + (IF i = 0 THEN 0 ELSE SmallBase * u[i - 1])
    IN  u[SmallSize - 1]

PiGroups == <<3, 1415, 9265, 3589, 7932, 3846, 2643, 3832, 7950>>

\* main.c:420-492: the operations on big reals are those on the numbers they
\* stand for (of a sum or product without what goes over the first digit, of a
\* quotient without the remainder), in digits of the base; and the sum of
\* arctangents agrees with pi in all digits but the last.
ArithmeticExact ==
    LET range == SmallBase ^ SmallSize
    IN  /\ res # NULL /\ fn \in {"Add", "Mul", "Div"} => res \in SmallReals
        /\ Done("Add") => Amount(res) = (Amount(arg.x) + Amount(arg.y)) % range
        /\ Done("Sub") /\ Amount(arg.x) >= Amount(arg.y) =>
              res \in SmallReals /\ Amount(res) = Amount(arg.x) - Amount(arg.y)
        /\ Done("Mul") => Amount(res) = (Amount(arg.x) * arg.k) % range
        /\ Done("Div") => Amount(res) = Amount(arg.x) \div arg.k
        /\ Done("compute_pi") => \A i \in 0..(arg - 2) : res[i] = PiGroups[i + 1]

NamesBlock(r, d, block) ==
    LET hd == r.drv_head % 16
    IN  /\ (r.drv_head \div 16) % 2 = d.position
        /\ r.drv_head \div 64 = (IF d.lba THEN 1 ELSE 0)
        /\ d.lba => block = r.sc + 256 * r.cl + 65536 * r.ch + 16777216 * hd
        /\ ~d.lba =>
              /\ r.sc \in 1..d.sectors /\ hd \in 0..(d.heads - 1)
              /\ block = ((r.cl + 256 * r.ch) * d.heads + hd) * d.sectors + r.sc - 1

\* What is split over fields of the hardware can be put together again.  The
\* registers of a disk name the block that was asked for, on the device that was
\* asked for, within its geometry (sectors count from 1, heads from 0).  The
\* base and the size of a segment, in whole pages where the descriptor counts
\* pages, read back from its descriptor, and the privilege from a selector.
AddressExact ==
    /\ Done("ide_read_write_blocks") => NamesBlock(res, arg.device, arg.block)
    /\ Done("BUILD_SEG_DESC") \/ Done("BUILD_4KB_SEG_DESC") =>
          /\ SEG_ADDR(res) = arg.base_addr
          /\ SEG_SIZE(res) = IF fn = "BUILD_SEG_DESC" THEN arg.limit
                             ELSE arg.limit - (arg.limit % 4096)
    /\ Done("SEG_REG_VAL") => SEG_REG_RPL(res) = arg.privilege

\* The characters of a burst: shift counts from its press to its release.
Shifted(k) ==
    \E i \in 1..(k - 1) :
        /\ arg[i].pressed /\ keymap[arg[i].key][1] = SHIFT
        /\ \A j \in (i + 1)..(k - 1) :
              ~arg[j].pressed => keymap[arg[j].key][1] # SHIFT
KeyTyped(k) == keymap[arg[k].key][IF Shifted(k) THEN 2 ELSE 1]
Text ==
    LET chars == [k \in DOMAIN arg |-> IF arg[k].pressed THEN KeyTyped(k) ELSE NUL]
    IN  SelectSeq(chars, LAMBDA c : c \in Printable \cup {NL})

\* The keys that were struck, shifted or not, stand on the screen in reading
\* order for as long as there is no need to scroll, and however much is typed
\* the cursor stays on the screen, next to the last character.
TypedShown ==
    Done("handle_kbd_interrupt") =>
        LET shown == SelectSeq([i \in 1..(SCREEN_ROWS * SCREEN_COLS) |->
                                    res.scr.cell[i - 1]],
                               LAMBDA c : c # NUL)
            lines == Len(SelectSeq(Text, LAMBDA c : c = NL))
            chars == SelectSeq(Text, LAMBDA c : c # NL)
        IN  /\ res.scr.offset \in 0..(SCREEN_ROWS * SCREEN_COLS)
            /\ Text # << >> /\ Last(Text) # NL =>
                  res.scr.cell[res.scr.offset - 1] = Last(Text)
            /\ Len(chars) + SCREEN_COLS * lines <= SCREEN_ROWS * SCREEN_COLS =>
                  shown = chars
=============================================================================
