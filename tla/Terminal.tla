------------------------------- MODULE Terminal -------------------------------
(***************************************************************************)
(* The terminal's functions (kernel/arch/i386/Tty.cc) on a record t of its *)
(* state: what a function leaves behind when it has the terminal to        *)
(* itself.  Colours are left out.                                          *)
(*                                                                         *)
(*   vga     VGA_RAM: rows 0 to ROWS - 1, and row ROWS of the taskbar      *)
(*   row, col          the cursor                                          *)
(*   buf, head, count  the ring of lines that scrolled off                 *)
(*   active, offset, saved   the scrollback view, and the screen under it  *)
(*   shown   the cursor is visible                                         *)
(***************************************************************************)
EXTENDS Integers, Sequences, FiniteSetsExt

CONSTANTS
  VGA_WIDTH, ROWS, SCROLLBACK_LINES,
  Chars      \* characters other than the control characters

ASSUME TerminalAssumption ==
  /\ VGA_WIDTH \in Nat \ {0} /\ ROWS \in Nat \ {0, 1} /\ SCROLLBACK_LINES \in Nat \ {0}
  /\ " " \in Chars /\ Chars \cap {"LF", "CR", "BS"} = {}

Cols == 0 .. VGA_WIDTH - 1
Line == [Cols -> Chars \cup {"status"}]
Blank == [c \in Cols |-> " "]
SCROLLBACK_VIEW_HEIGHT == ROWS - 1

EmptyTerminal ==
  [vga |-> [r \in 0 .. ROWS |-> Blank], row |-> 0, col |-> 0,
   buf |-> [i \in 0 .. SCROLLBACK_LINES - 1 |-> Blank], head |-> 0, count |-> 0,
   active |-> FALSE, offset |-> 0, saved |-> [r \in 0 .. ROWS - 1 |-> Blank], shown |-> TRUE]

-----------------------------------------------------------------------------
(* Writing.                                                                *)

\* The top row is copied into the ring.
Saved(t) ==
  [t EXCEPT !.buf[t.head] = t.vga[0], !.head = (@ + 1) % SCROLLBACK_LINES,
            !.count = IF @ < SCROLLBACK_LINES THEN @ + 1 ELSE @]

\* clearRow(0), and the swaps that carry the empty row to the bottom.
Shifted(vga) ==
  [r \in 0 .. ROWS |->
     IF r < ROWS - 1 THEN vga[r + 1] ELSE IF r = ROWS - 1 THEN Blank ELSE vga[r]]

AdvRow(t) ==
  IF t.row + 1 < ROWS THEN [t EXCEPT !.row = @ + 1]
  ELSE [Saved(t) EXCEPT !.vga = Shifted(@), !.row = ROWS - 1, !.col = 0]

AdvCol(t) ==
  IF t.col + 1 < VGA_WIDTH THEN [t EXCEPT !.col = @ + 1] ELSE AdvRow([t EXCEPT !.col = 0])

DecCol(t) ==
  IF t.col > 0 THEN [t EXCEPT !.col = @ - 1]
  ELSE IF t.row > 0 THEN [t EXCEPT !.row = @ - 1, !.col = VGA_WIDTH - 1]
  ELSE t

\* One character of putc or rawPuts.
Emit(t, ch) ==
  CASE ch = "LF" -> [AdvRow(t) EXCEPT !.col = 0]
    [] ch = "CR" -> [t EXCEPT !.col = 0]
    [] ch = "BS" -> DecCol(t)
    [] OTHER -> AdvCol([t EXCEPT !.vga[t.row][t.col] = ch])

Cls(t) ==
  [t EXCEPT !.vga = [r \in 0 .. ROWS |-> IF r < ROWS THEN Blank ELSE @[r]],
            !.row = 0, !.col = 0]

-----------------------------------------------------------------------------
(* Scrollback.                                                             *)

\* Mutant: the line before.
ScrollbackLine_Before(t, n) == t.buf[(t.head - n - 1 + SCROLLBACK_LINES) % SCROLLBACK_LINES]

\* scrollbackLine(n - 1): the line that was the nth last to scroll off.
ScrollbackLine(t, n) == t.buf[(t.head - n + SCROLLBACK_LINES) % SCROLLBACK_LINES]

\* Mutant: the window is not moved down to the last lines there are.
Top_Free(t, offset) == offset + SCROLLBACK_VIEW_HEIGHT - 1

\* The oldest line that a view from offset shows.
Top(t, offset) == Min({offset + SCROLLBACK_VIEW_HEIGHT - 1, t.count})

\* Mutant: the screen is saved again when the view moves.
Under_Again(t) == [r \in 0 .. ROWS - 1 |-> t.vga[r]]

\* The screen under the view, saved when the view opens.
Under(t) == IF t.active THEN t.saved ELSE [r \in 0 .. ROWS - 1 |-> t.vga[r]]

\* Row r of a view of the lines from top down to bottom.
ShownRow(t, top, bottom, r) ==
  LET line == top - (r - 1)
  IN CASE r = 0 -> [c \in Cols |-> "status"]
       [] r = ROWS -> t.vga[r]
       [] OTHER -> IF line > t.count \/ line < bottom THEN Blank ELSE ScrollbackLine(t, line)

ScrollbackShow(t, wanted) ==
  IF wanted < 1 THEN t
  ELSE LET top == Top(t, Min({wanted, t.count}))
           bottom == Max({top - SCROLLBACK_VIEW_HEIGHT + 1, 1})
       IN [t EXCEPT !.saved = Under(t), !.active = TRUE, !.offset = bottom, !.shown = FALSE,
                    !.vga = [r \in 0 .. ROWS |-> ShownRow(t, top, bottom, r)]]

ScrollbackExit(t) ==
  IF ~t.active THEN t
  ELSE [t EXCEPT !.active = FALSE, !.offset = 0, !.shown = TRUE,
                 !.vga = [r \in 0 .. ROWS |-> IF r < ROWS THEN t.saved[r] ELSE @[r]]]

\* What the keys ask for, computed before the lock is taken: the offset to show,
\* 0 for scrollbackExit, or -1 for nothing.
Wanted(t, key) ==
  LET leave(offset) == IF offset <= 0 THEN 0 ELSE offset
  IN CASE key = "PageUp" -> LET o == Min({t.offset + SCROLLBACK_VIEW_HEIGHT, t.count})
                            IN IF o < 1 THEN -1 ELSE o
       [] key = "Home" -> IF t.count = 0 THEN -1 ELSE t.count
       [] key = "LineUp" -> IF ~t.active \/ t.offset + 1 > t.count THEN -1 ELSE t.offset + 1
       [] key = "LineDown" -> IF ~t.active THEN -1 ELSE leave(t.offset - 1)
       [] key = "PageDown" -> IF ~t.active THEN -1 ELSE leave(t.offset - SCROLLBACK_VIEW_HEIGHT)
       [] key = "End" -> 0

\* scrollbackShow or scrollbackExit, as Wanted said.
Scrolled(t, wanted) == IF wanted = 0 THEN ScrollbackExit(t) ELSE ScrollbackShow(t, wanted)

TerminalTypeOK(t) ==
  /\ t.vga \in [0 .. ROWS -> Line] /\ t.saved \in [0 .. ROWS - 1 -> Line]
  /\ t.row \in 0 .. ROWS - 1 /\ t.col \in Cols
  /\ t.buf \in [0 .. SCROLLBACK_LINES - 1 -> Line]
  /\ t.head \in 0 .. SCROLLBACK_LINES - 1 /\ t.count \in 0 .. SCROLLBACK_LINES
  /\ t.active \in BOOLEAN /\ t.shown \in BOOLEAN
  /\ t.offset \in (IF t.active THEN 1 .. t.count ELSE {0})
=============================================================================
