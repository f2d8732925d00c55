------------------------------ MODULE Console ------------------------------
(***************************************************************************)
(* The text screen (drivers/gfx.c) and the keyboard (drivers/kbd.c).  A    *)
(* screen is a record of the cells of the video memory and the position of *)
(* the cursor; attributes are left out.  NL is '\n', NUL a blank cell, and *)
(* a key is a character, SHIFT (either of the two) or NUL (a key that      *)
(* prints nothing).                                                        *)
(***************************************************************************)
EXTENDS Integers, SequencesExt

CONSTANTS SCREEN_ROWS, SCREEN_COLS,
          Printable,        \* the characters from 32 to 126
          NL, NUL, SHIFT

Cells == 0..(SCREEN_ROWS * SCREEN_COLS - 1)

gfx_cls == [cell |-> [i \in Cells |-> NUL], offset |-> 0]

\* One row up, as the two loops do it: they run over a column too few.
scroll(scr) ==
    LET moved == (SCREEN_ROWS - 1) * (SCREEN_COLS - 1)
        end   == SCREEN_ROWS * (SCREEN_COLS - 1)
    IN  [cell |-> [i \in Cells |->
                      IF i < moved THEN scr.cell[i + SCREEN_COLS]
                      ELSE IF i < end THEN NUL ELSE scr.cell[i]],
         offset |-> scr.offset - SCREEN_COLS]

\* Mutant: the cursor stays on its line.
NextLine_Same(offset) == SCREEN_COLS * (offset \div SCREEN_COLS)

NextLine(offset) == SCREEN_COLS * (1 + offset \div SCREEN_COLS)

gfx_putchar(scr, c) ==
    LET s == IF scr.offset >= SCREEN_ROWS * SCREEN_COLS THEN scroll(scr) ELSE scr
    IN  CASE c \in Printable -> [cell   |-> [s.cell EXCEPT ![s.offset] = c],
                                 offset |-> s.offset + 1]
          [] c = NL -> [s EXCEPT !.offset = NextLine(s.offset)]
          [] OTHER  -> s

Releases(keymap, key) == keymap[key][1] = SHIFT

\* con is the screen and the flag of the handler.  A scancode is the number of
\* a key and whether it has been pressed; keymap gives its two columns.
handle_kbd_interrupt(keymap, con, scancode) ==
    LET key == keymap[scancode.key][IF con.shiftkey THEN 2 ELSE 1]
    IN  IF ~scancode.pressed
        THEN [con EXCEPT !.shiftkey = @ /\ ~Releases(keymap, scancode.key)]
        ELSE CASE key = SHIFT -> [con EXCEPT !.shiftkey = TRUE]
               [] key = NUL   -> con
               [] OTHER       -> [con EXCEPT !.scr = gfx_putchar(@, key)]

\* The interrupts of a sequence of scancodes, on a cleared screen.
typed(keymap, scancodes) ==
    FoldLeft(LAMBDA con, code : handle_kbd_interrupt(keymap, con, code),
             [scr |-> gfx_cls, shiftkey |-> FALSE], scancodes)
=============================================================================
