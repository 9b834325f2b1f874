---------------------------- MODULE ConsoleProofs ----------------------------
(***************************************************************************)
(* The scrollback ring holds the end of the text, the view is a window on  *)
(* it, the screen survives the view, and the taskbar writes at most once   *)
(* after it was suppressed, for every size of the screen and of the ring.  *)
(*                                                                         *)
(* At the end is the semaphore of the terminal, Tty::lock_, for any number *)
(* of tasks and units.  Without disturbance it serializes, loses no unit,  *)
(* wakes in order and never runs out of room for waiters.  With signals,   *)
(* kills and reused slots it still knows every task that it has blocked.   *)
(***************************************************************************)
EXTENDS Console, Semaphore, TLAPS

\* A leaf that names no prover goes to the SMT solver, with time to spare.
USE SMTT(30)

Control == {"LF", "CR", "BS"}
Screens == [0 .. ROWS -> Line]
Lines == [0 .. ROWS - 1 -> Line]

Terminals ==
  [vga : Screens, row : 0 .. ROWS - 1, col : Cols,
   buf : [0 .. SCROLLBACK_LINES - 1 -> Line], head : 0 .. SCROLLBACK_LINES - 1,
   count : 0 .. SCROLLBACK_LINES,
   active : BOOLEAN, offset : Nat, saved : Lines, shown : BOOLEAN]

\* The ring of t holds the end of the text g.
Ring(t, g) ==
  /\ t.count = Min({Len(g), SCROLLBACK_LINES})
  /\ \A n \in 1 .. t.count : ScrollbackLine(t, n) = g[Len(g) - n + 1]

\* The view of t and the ring of u are those of t.
SameView(t, u) ==
  u.active = t.active /\ u.offset = t.offset /\ u.saved = t.saved /\ u.shown = t.shown
SameRing(t, u) == u.buf = t.buf /\ u.head = t.head /\ u.count = t.count

\* One line more is in the ring of u.
Pushed(t, u, line) ==
  /\ u.buf = [t.buf EXCEPT ![t.head] = line]
  /\ u.head = (t.head + 1) % SCROLLBACK_LINES
  /\ u.count = IF t.count < SCROLLBACK_LINES THEN t.count + 1 ELSE t.count

\* The rows of t are those of a window on the text g that ends offset lines
\* from its end.
Window(t, g) ==
  LET lines == Min({SCROLLBACK_VIEW_HEIGHT, t.count})
  IN /\ \A r \in 1 .. lines :
          LET n == Len(g) - t.offset + 1 - (lines - r)
          IN n \in DOMAIN g /\ t.vga[r] = g[n]
     /\ \A r \in lines + 1 .. ROWS - 1 : t.vga[r] = Blank

\* The inductive invariant: of the terminal and its history, ...
TtyInv ==
  /\ tty \in Terminals /\ gone \in Seq(Line) /\ screen \in Lines /\ spoiled \in BOOLEAN
  /\ (tty.active => tty.offset \in 1 .. tty.count) /\ (~tty.active => tty.offset = 0)
  /\ Ring(tty, gone) /\ ViewIsWindow /\ ViewKeepsScreen

\* ... of what tasks keep between two steps: the offset that the shell has
\* computed without the semaphore is one of a line that is still there, ...
TaskInv ==
  /\ holder \in {"none", "shell"} /\ DOMAIN pc = Tasks
  /\ text \in Seq(Chars \cup Control) /\ arg \in 0 .. tty.count
  /\ savedVga \in [vga : Screens, row : 0 .. ROWS - 1, col : Cols]

\* ... and of the taskbar: once it has written late, it is not about to write.
LateInv ==
  /\ suppressed \in BOOLEAN /\ late \in Nat
  /\ suppressed => late <= 1 /\ (late = 1 => pc["bar"] = "idle")

ConsoleInv == TtyInv /\ TaskInv /\ LateInv

-----------------------------------------------------------------------------
(* Numbers and places in the ring.                                         *)

LEMMA MinOfTwo ==
  ASSUME NEW a \in Int, NEW b \in Int
  PROVE  Min({a, b}) = IF a <= b THEN a ELSE b
<1>1. CASE a <= b
  <2>1. \A x \in {a, b} : (\A y \in {a, b} : x <= y) => x = a
    BY <1>1
  <2>2. \A y \in {a, b} : a <= y
    BY <1>1
  <2>. QED  BY <1>1, <2>1, <2>2 DEF Min
<1>2. CASE ~(a <= b)
  <2>1. \A x \in {a, b} : (\A y \in {a, b} : x <= y) => x = b
    BY <1>2
  <2>2. \A y \in {a, b} : b <= y
    BY <1>2
  <2>. QED  BY <1>2, <2>1, <2>2 DEF Min
<1>. QED  BY <1>1, <1>2

LEMMA MaxOfTwo ==
  ASSUME NEW a \in Int, NEW b \in Int
  PROVE  Max({a, b}) = IF a >= b THEN a ELSE b
<1>1. CASE a >= b
  <2>1. \A x \in {a, b} : (\A y \in {a, b} : x >= y) => x = a
    BY <1>1
  <2>2. \A y \in {a, b} : a >= y
    BY <1>1
  <2>. QED  BY <1>1, <2>1, <2>2 DEF Max
<1>2. CASE ~(a >= b)
  <2>1. \A x \in {a, b} : (\A y \in {a, b} : x >= y) => x = b
    BY <1>2
  <2>2. \A y \in {a, b} : b >= y
    BY <1>2
  <2>. QED  BY <1>2, <2>1, <2>2 DEF Max
<1>. QED  BY <1>1, <1>2

\* The remainder of a number below twice the modulus.
LEMMA SmallMod ==
  ASSUME NEW m \in Nat \ {0}, NEW a \in 0 .. 2 * m - 1
  PROVE  a % m = IF a < m THEN a ELSE a - m
OBVIOUS

LEMMA Sizes ==
  /\ VGA_WIDTH \in Nat \ {0} /\ ROWS \in Nat \ {0, 1} /\ SCROLLBACK_LINES \in Nat \ {0}
  /\ ROWS - 1 \in Nat \ {0}
<1>1. VGA_WIDTH \in Nat \ {0} /\ ROWS \in Nat \ {0, 1} /\ SCROLLBACK_LINES \in Nat \ {0}
  BY TerminalAssumption, Zenon
<1>. QED  BY <1>1

\* Where scrollbackLine looks for a line.
LEMMA SlotOf ==
  ASSUME NEW h \in 0 .. SCROLLBACK_LINES - 1, NEW n \in 1 .. SCROLLBACK_LINES
  PROVE  (h - n + SCROLLBACK_LINES) % SCROLLBACK_LINES
           = IF n <= h THEN h - n ELSE h - n + SCROLLBACK_LINES
<1>1. /\ SCROLLBACK_LINES \in Nat \ {0}
      /\ h - n + SCROLLBACK_LINES \in 0 .. 2 * SCROLLBACK_LINES - 1
  BY Sizes
<1>2. PICK a \in 0 .. 2 * SCROLLBACK_LINES - 1 : a = h - n + SCROLLBACK_LINES
  BY <1>1
<1>3. a % SCROLLBACK_LINES = IF a < SCROLLBACK_LINES THEN a ELSE a - SCROLLBACK_LINES
  BY <1>1, SmallMod, Zenon
<1>. QED  BY <1>1, <1>2, <1>3

LEMMA HeadAfter ==
  ASSUME NEW h \in 0 .. SCROLLBACK_LINES - 1
  PROVE  (h + 1) % SCROLLBACK_LINES = IF h + 1 < SCROLLBACK_LINES THEN h + 1 ELSE 0
<1>1. SCROLLBACK_LINES \in Nat \ {0} /\ h + 1 \in 0 .. 2 * SCROLLBACK_LINES - 1
  BY Sizes
<1>2. PICK a \in 0 .. 2 * SCROLLBACK_LINES - 1 : a = h + 1
  BY <1>1
<1>3. a % SCROLLBACK_LINES = IF a < SCROLLBACK_LINES THEN a ELSE a - SCROLLBACK_LINES
  BY <1>1, SmallMod, Zenon
<1>. QED  BY <1>1, <1>2, <1>3

-----------------------------------------------------------------------------
(* Printing.                                                               *)

LEMMA BlankIsLine == Blank \in Line
<1>1. " " \in Chars
  BY TerminalAssumption, Zenon
<1>. QED  BY <1>1, Zenon DEF Blank, Line

LEMMA ShiftedScreen ==
  ASSUME NEW vga \in Screens
  PROVE  Shifted(vga) \in Screens
BY Sizes, BlankIsLine DEF Shifted, Screens

LEMMA SavedKeeps ==
  ASSUME NEW t \in Terminals
  PROVE  /\ Saved(t) \in Terminals /\ SameView(t, Saved(t)) /\ Pushed(t, Saved(t), t.vga[0])
         /\ Saved(t).vga = t.vga
<1>1. t.head + 1 \in Nat /\ (t.head + 1) % SCROLLBACK_LINES \in 0 .. SCROLLBACK_LINES - 1
  <2>1. t.head \in 0 .. SCROLLBACK_LINES - 1
    BY DEF Terminals
  <2>. QED  BY <2>1, HeadAfter, Sizes
<1>2. t.vga[0] \in Line
  BY Sizes DEF Terminals, Screens
<1>3. [t.buf EXCEPT ![t.head] = t.vga[0]] \in [0 .. SCROLLBACK_LINES - 1 -> Line]
  BY <1>2 DEF Terminals
<1>4. (IF t.count < SCROLLBACK_LINES THEN t.count + 1 ELSE t.count) \in 0 .. SCROLLBACK_LINES
  BY Sizes DEF Terminals
<1>5. Saved(t) = [t EXCEPT !.buf = [t.buf EXCEPT ![t.head] = t.vga[0]],
                          !.head = (t.head + 1) % SCROLLBACK_LINES,
                          !.count = IF t.count < SCROLLBACK_LINES THEN t.count + 1 ELSE t.count]
  BY DEF Saved, Terminals
<1>6. Saved(t) \in Terminals
  BY <1>1, <1>3, <1>4, <1>5, Zenon DEF Terminals
<1>. QED  BY <1>5, <1>6 DEF SameView, Pushed, Terminals

LEMMA AdvRowKeeps ==
  ASSUME NEW t \in Terminals
  PROVE  /\ AdvRow(t) \in Terminals /\ SameView(t, AdvRow(t))
         /\ t.row # ROWS - 1 => SameRing(t, AdvRow(t))
         /\ t.row = ROWS - 1 => Pushed(t, AdvRow(t), t.vga[0])
<1>1. CASE t.row + 1 < ROWS
  <2>1. AdvRow(t) = [t EXCEPT !.row = t.row + 1] /\ t.row # ROWS - 1
    BY <1>1, Sizes DEF AdvRow, Terminals
  <2>2. t.row + 1 \in 0 .. ROWS - 1
    BY <1>1, Sizes DEF Terminals
  <2>. QED  BY <2>1, <2>2 DEF Terminals, SameView, SameRing
<1>2. CASE ~(t.row + 1 < ROWS)
  <2>1. PICK u \in Terminals : u = Saved(t) /\ SameView(t, u) /\ Pushed(t, u, t.vga[0])
    BY SavedKeeps
  <2>2. AdvRow(t) = [u EXCEPT !.vga = Shifted(u.vga), !.row = ROWS - 1, !.col = 0]
    BY <1>2, <2>1 DEF AdvRow
  <2>3. Shifted(u.vga) \in Screens /\ ROWS - 1 \in 0 .. ROWS - 1 /\ 0 \in Cols
    BY Sizes, ShiftedScreen DEF Terminals, Cols
  <2>4. t.row = ROWS - 1
    BY <1>2, Sizes DEF Terminals
  <2>. QED  BY <2>1, <2>2, <2>3, <2>4, Zenon DEF Terminals, SameView, Pushed
<1>. QED  BY <1>1, <1>2

LEMMA AdvColKeeps ==
  ASSUME NEW t \in Terminals
  PROVE  /\ AdvCol(t) \in Terminals /\ SameView(t, AdvCol(t))
         /\ t.row # ROWS - 1 \/ t.col # VGA_WIDTH - 1 => SameRing(t, AdvCol(t))
         /\ t.row = ROWS - 1 /\ t.col = VGA_WIDTH - 1 => Pushed(t, AdvCol(t), t.vga[0])
<1>1. CASE t.col + 1 < VGA_WIDTH
  <2>1. AdvCol(t) = [t EXCEPT !.col = t.col + 1] /\ t.col # VGA_WIDTH - 1 /\ t.col + 1 \in Cols
    BY <1>1, Sizes DEF AdvCol, Terminals, Cols
  <2>. QED  BY <2>1 DEF Terminals, SameView, SameRing
<1>2. CASE ~(t.col + 1 < VGA_WIDTH)
  <2>0. 0 \in Cols /\ t.col \in Cols
    BY Sizes DEF Terminals, Cols
  <2>1. PICK u \in Terminals : u = [t EXCEPT !.col = 0]
    BY <2>0, Zenon DEF Terminals
  <2>2. AdvCol(t) = AdvRow(u)
    BY <1>2, <2>1 DEF AdvCol
  <2>3. t.col = VGA_WIDTH - 1
    BY <1>2, <2>0, Sizes DEF Cols
  <2>4. /\ u.row = t.row /\ u.vga = t.vga /\ SameView(t, u) /\ SameRing(t, u)
    BY <2>1 DEF Terminals, SameView, SameRing
  <2>5. /\ AdvRow(u) \in Terminals /\ SameView(u, AdvRow(u))
        /\ u.row # ROWS - 1 => SameRing(u, AdvRow(u))
        /\ u.row = ROWS - 1 => Pushed(u, AdvRow(u), u.vga[0])
    BY AdvRowKeeps
  <2>. QED  BY <2>2, <2>3, <2>4, <2>5 DEF SameView, SameRing, Pushed
<1>. QED  BY <1>1, <1>2

\* Is ch a character that makes terminal t scroll?
OffScreen(t, ch) ==
  /\ t.row = ROWS - 1
  /\ ch = "LF" \/ (ch \notin Control /\ t.col = VGA_WIDTH - 1)

\* putc and rawPuts keep the terminal's types and its view, and put the top row
\* into the ring exactly when the screen scrolls.
LEMMA EmitKeeps ==
  ASSUME NEW t \in Terminals, NEW ch \in Chars \cup Control
  PROVE  /\ Emit(t, ch) \in Terminals /\ SameView(t, Emit(t, ch))
         /\ ~OffScreen(t, ch) => SameRing(t, Emit(t, ch))
         /\ OffScreen(t, ch) => Pushed(t, Emit(t, ch), t.vga[0])
<1>1. CASE ch = "LF"
  <2>1. PICK u \in Terminals : /\ u = AdvRow(t) /\ SameView(t, u)
                               /\ t.row # ROWS - 1 => SameRing(t, u)
                               /\ t.row = ROWS - 1 => Pushed(t, u, t.vga[0])
    BY AdvRowKeeps
  <2>2. Emit(t, ch) = [u EXCEPT !.col = 0] /\ 0 \in Cols
    BY <1>1, <2>1, Sizes DEF Emit, Cols
  <2>. QED  BY <1>1, <2>1, <2>2 DEF OffScreen, Terminals, SameView, SameRing, Pushed
<1>2. CASE ch = "CR"
  <2>1. Emit(t, ch) = [t EXCEPT !.col = 0] /\ 0 \in Cols
    BY <1>2, Sizes DEF Emit, Cols
  <2>. QED  BY <1>2, <2>1 DEF OffScreen, Control, Terminals, SameView, SameRing
<1>3. CASE ch = "BS"
  <2>1. Emit(t, ch) = DecCol(t)
    BY <1>3 DEF Emit
  <2>2. DecCol(t) \in Terminals /\ SameView(t, DecCol(t)) /\ SameRing(t, DecCol(t))
    <3>1. t.col \in Cols /\ t.row \in 0 .. ROWS - 1
      BY DEF Terminals
    <3>2. CASE t.col > 0
      <4>1. DecCol(t) = [t EXCEPT !.col = t.col - 1] /\ t.col - 1 \in Cols
        BY <3>1, <3>2, Sizes DEF DecCol, Cols
      <4>. QED  BY <4>1 DEF Terminals, SameView, SameRing
    <3>3. CASE ~(t.col > 0) /\ t.row > 0
      <4>1. /\ DecCol(t) = [t EXCEPT !.row = t.row - 1, !.col = VGA_WIDTH - 1]
            /\ t.row - 1 \in 0 .. ROWS - 1 /\ VGA_WIDTH - 1 \in Cols
        BY <3>1, <3>3, Sizes DEF DecCol, Cols
      <4>. QED  BY <4>1, Zenon DEF Terminals, SameView, SameRing
    <3>4. CASE ~(t.col > 0) /\ ~(t.row > 0)
      BY <3>4 DEF DecCol, SameView, SameRing
    <3>. QED  BY <3>2, <3>3, <3>4
  <2>. QED  BY <1>3, <2>1, <2>2 DEF OffScreen, Control
<1>4. CASE ch \notin Control
  <2>1. t.vga \in Screens /\ t.row \in 0 .. ROWS - 1 /\ t.col \in Cols
    BY DEF Terminals
  <2>2. [t.vga EXCEPT ![t.row] = [t.vga[t.row] EXCEPT ![t.col] = ch]] \in Screens
    BY <1>4, <2>1, Sizes DEF Screens, Line
  <2>3. PICK u \in Terminals : u = [t EXCEPT !.vga[t.row][t.col] = ch]
    BY <2>1, <2>2, Zenon DEF Terminals
  <2>4. /\ u.row = t.row /\ u.col = t.col /\ SameView(t, u) /\ SameRing(t, u)
        /\ t.row # 0 => u.vga[0] = t.vga[0]
    BY <2>1, <2>3, Sizes DEF Terminals, Screens, SameView, SameRing
  <2>5. Emit(t, ch) = AdvCol(u)
    BY <1>4, <2>3 DEF Emit, Control
  <2>6. /\ AdvCol(u) \in Terminals /\ SameView(u, AdvCol(u))
        /\ u.row # ROWS - 1 \/ u.col # VGA_WIDTH - 1 => SameRing(u, AdvCol(u))
        /\ u.row = ROWS - 1 /\ u.col = VGA_WIDTH - 1 => Pushed(u, AdvCol(u), u.vga[0])
    BY AdvColKeeps
  <2>7. OffScreen(t, ch) <=> (t.row = ROWS - 1 /\ t.col = VGA_WIDTH - 1)
    BY <1>4 DEF OffScreen, Control
  <2>. QED  BY <2>4, <2>5, <2>6, <2>7, Sizes DEF SameView, SameRing, Pushed
<1>. QED  BY <1>1, <1>2, <1>3, <1>4 DEF Control

-----------------------------------------------------------------------------
(* The ring.                                                               *)

LEMMA SameRingKeeps ==
  ASSUME NEW t, NEW u, NEW g, Ring(t, g), SameRing(t, u)
  PROVE  Ring(u, g)
BY Zenon DEF Ring, SameRing, ScrollbackLine

\* The nth last line is in the ring, at a place other than the next one's.
LEMMA LineInRing ==
  ASSUME NEW t \in Terminals, NEW n \in 1 .. t.count
  PROVE  ScrollbackLine(t, n) \in Line
<1>1. /\ t.head \in 0 .. SCROLLBACK_LINES - 1 /\ n \in 1 .. SCROLLBACK_LINES
      /\ t.buf \in [0 .. SCROLLBACK_LINES - 1 -> Line]
  BY Sizes DEF Terminals
<1>2. (t.head - n + SCROLLBACK_LINES) % SCROLLBACK_LINES \in 0 .. SCROLLBACK_LINES - 1
  <2>1. (t.head - n + SCROLLBACK_LINES) % SCROLLBACK_LINES
          = IF n <= t.head THEN t.head - n ELSE t.head - n + SCROLLBACK_LINES
    BY <1>1, SlotOf, Zenon
  <2>2. PICK a \in 0 .. SCROLLBACK_LINES - 1 : a = t.head
    BY <1>1
  <2>3. (IF n <= a THEN a - n ELSE a - n + SCROLLBACK_LINES) \in 0 .. SCROLLBACK_LINES - 1
    BY <1>1, Sizes
  <2>. QED  BY <2>1, <2>2, <2>3
<1>. QED  BY <1>1, <1>2, Zenon DEF ScrollbackLine

\* advRow moves the ring on by one line, whether it was full or not.
LEMMA RingPushed ==
  ASSUME NEW t \in Terminals, NEW u \in Terminals, NEW g \in Seq(Line), NEW line \in Line,
         Ring(t, g), Pushed(t, u, line)
  PROVE  Append(g, line) \in Seq(Line) /\ Ring(u, Append(g, line))
<1>1. PICK h \in Seq(Line) :
        /\ h = Append(g, line) /\ Len(h) = Len(g) + 1 /\ h[Len(h)] = line
        /\ \A i \in 1 .. Len(g) : h[i] = g[i]
  <2>1. /\ Append(g, line) \in Seq(Line) /\ Len(Append(g, line)) = Len(g) + 1
        /\ \A i \in 1 .. Len(g) : Append(g, line)[i] = g[i]
        /\ Append(g, line)[Len(g) + 1] = line
    OBVIOUS
  <2>. QED  BY <2>1, Zenon
<1>2. PICK SL \in Nat \ {0} : SL = SCROLLBACK_LINES
  BY Sizes
<1>3. /\ t.head \in 0 .. SL - 1 /\ t.count \in 0 .. SL /\ Len(g) \in Nat
      /\ t.buf \in [0 .. SL - 1 -> Line]
  BY <1>2 DEF Terminals
<1>4. t.count = IF Len(g) <= SL THEN Len(g) ELSE SL
  <2>1. t.count = Min({Len(g), SL})
    BY <1>2, Zenon DEF Ring
  <2>2. Min({Len(g), SL}) = IF Len(g) <= SL THEN Len(g) ELSE SL
    <3>1. Len(g) \in Int /\ SL \in Int
      BY <1>2, <1>3
    <3>. QED  BY <3>1, MinOfTwo, Zenon
  <2>. QED  BY <2>1, <2>2
<1>5. /\ u.buf = [t.buf EXCEPT ![t.head] = line]
      /\ u.head = IF t.head + 1 < SL THEN t.head + 1 ELSE 0
      /\ u.count = IF t.count < SL THEN t.count + 1 ELSE t.count
  BY <1>2, <1>3, HeadAfter DEF Pushed
<1>6. u.count = Min({Len(h), SL})
  <2>1. Min({Len(h), SL}) = IF Len(h) <= SL THEN Len(h) ELSE SL
    <3>1. Len(h) \in Int /\ SL \in Int
      BY <1>1, <1>2, <1>3
    <3>. QED  BY <3>1, MinOfTwo, Zenon
  <2>. QED  BY <1>1, <1>3, <1>4, <1>5, <2>1
<1>7. ASSUME NEW n \in 1 .. u.count PROVE ScrollbackLine(u, n) = h[Len(h) - n + 1]
  <2>1. n \in 1 .. SL /\ u.head \in 0 .. SL - 1
    BY <1>3, <1>5
  <2>2. ScrollbackLine(u, n) = u.buf[IF n <= u.head THEN u.head - n ELSE u.head - n + SL]
    BY <1>2, <2>1, SlotOf, Zenon DEF ScrollbackLine
  <2>3. CASE n = 1
    <3>1. (IF n <= u.head THEN u.head - n ELSE u.head - n + SL) = t.head
      <4>0. PICK a \in 0 .. SL - 1 : a = t.head
        BY <1>3, Zenon
      <4>1. PICK b : b = u.head /\ b = IF a + 1 < SL THEN a + 1 ELSE 0
        BY <1>5, <4>0, Zenon
      <4>2. (IF 1 <= b THEN b - 1 ELSE b - 1 + SL) = a
        BY <4>1
      <4>. QED  BY <2>3, <4>0, <4>1, <4>2, Zenon
    <3>2. u.buf[t.head] = line /\ Len(h) - n + 1 = Len(h)
      BY <1>1, <1>3, <1>5, <2>3
    <3>. QED  BY <1>1, <2>2, <3>1, <3>2
  <2>4. CASE n # 1
    <3>1. n - 1 \in 1 .. t.count /\ n - 1 \in 1 .. SL - 1
      BY <1>3, <1>5, <2>1, <2>4
    <3>2. PICK k : /\ k = IF n - 1 <= t.head THEN t.head - (n - 1) ELSE t.head - (n - 1) + SL
                   /\ k \in 0 .. SL - 1 /\ k # t.head
      BY <1>3, <3>1
    <3>3. (IF n <= u.head THEN u.head - n ELSE u.head - n + SL) = k
      <4>1. PICK a \in 0 .. SL - 1, b \in 0 .. SL - 1 :
              /\ a = t.head /\ b = u.head /\ b = IF a + 1 < SL THEN a + 1 ELSE 0
        BY <1>3, <1>5, <2>1, Zenon
      <4>2. k = IF n - 1 <= a THEN a - (n - 1) ELSE a - (n - 1) + SL
        BY <3>2, <4>1
      <4>3. (IF n <= b THEN b - n ELSE b - n + SL) = k
        <5>1. n \in Int /\ n >= 2 /\ n <= SL /\ SL \in Int /\ a \in Int /\ a >= 0 /\ a < SL
          BY <2>1, <2>4, <4>1
        <5>2. CASE a + 1 < SL
          <6>1. b = a + 1
            BY <4>1, <5>2
          <6>. QED  BY <4>2, <5>1, <6>1
        <5>3. CASE a = SL - 1
          <6>1. b = 0
            BY <4>1, <5>1, <5>3
          <6>. QED  BY <4>2, <5>1, <5>3, <6>1
        <5>. QED  BY <5>1, <5>2, <5>3
      <4>. QED  BY <4>1, <4>3
    <3>4. u.buf[k] = t.buf[k]
      BY <1>3, <1>5, <3>2
    <3>5. ScrollbackLine(t, n - 1) = t.buf[k]
      <4>1. PICK m \in 1 .. SL : m = n - 1
        BY <3>1
      <4>2. ScrollbackLine(t, m) = t.buf[IF m <= t.head THEN t.head - m ELSE t.head - m + SL]
        BY <1>2, <1>3, SlotOf, Zenon DEF ScrollbackLine
      <4>. QED  BY <3>2, <4>1, <4>2
    <3>6. ScrollbackLine(t, n - 1) = g[Len(g) - (n - 1) + 1]
      BY <3>1 DEF Ring
    <3>7. /\ Len(g) - (n - 1) + 1 = Len(h) - n + 1
          /\ Len(h) - n + 1 \in 1 .. Len(g)
      BY <1>1, <1>3, <1>4, <3>1
    <3>. QED  BY <1>1, <2>2, <3>3, <3>4, <3>5, <3>6, <3>7
  <2>. QED  BY <2>3, <2>4
<1>. QED  BY <1>1, <1>2, <1>6, <1>7, Zenon DEF Ring

-----------------------------------------------------------------------------
(* The view.                                                               *)

LEMMA ShowKeeps ==
  ASSUME NEW t \in Terminals, NEW g \in Seq(Line), Ring(t, g), NEW wanted \in 1 .. t.count
  PROVE  /\ ScrollbackShow(t, wanted) \in Terminals
         /\ SameRing(t, ScrollbackShow(t, wanted))
         /\ ScrollbackShow(t, wanted).active
         /\ ScrollbackShow(t, wanted).offset \in 1 .. t.count
         /\ ScrollbackShow(t, wanted).saved = Under(t)
         /\ Window(ScrollbackShow(t, wanted), g)
<1> DEFINE VH == SCROLLBACK_VIEW_HEIGHT
<1>1. /\ t.count \in Nat \ {0} /\ t.count <= SCROLLBACK_LINES /\ VH \in Nat \ {0} /\ VH = ROWS - 1
      /\ ROWS \in Nat \ {0, 1} /\ wanted \in Nat \ {0} /\ wanted <= t.count
      /\ t.vga \in Screens
  BY Sizes DEF Terminals, SCROLLBACK_VIEW_HEIGHT
<1>2. PICK top, bottom :
        /\ top = Top(t, Min({wanted, t.count}))
        /\ bottom = Max({top - SCROLLBACK_VIEW_HEIGHT + 1, 1})
  BY Zenon
<1>3. /\ top \in Nat \ {0} /\ top <= t.count /\ bottom \in Nat \ {0}
      /\ top = bottom + Min({VH, t.count}) - 1
      /\ Min({VH, t.count}) \in Nat \ {0} /\ Min({VH, t.count}) <= VH
  <2>1. Min({wanted, t.count}) = wanted
    BY <1>1, MinOfTwo
  <2>2. top = IF wanted + VH - 1 <= t.count THEN wanted + VH - 1 ELSE t.count
    <3>1. wanted + VH - 1 \in Int /\ t.count \in Int
      BY <1>1
    <3>2. Min({wanted + VH - 1, t.count}) =
            IF wanted + VH - 1 <= t.count THEN wanted + VH - 1 ELSE t.count
      BY <3>1, MinOfTwo
    <3>. QED  BY <1>2, <2>1, <3>2, Zenon DEF Top
  <2>3. bottom = IF top - VH + 1 >= 1 THEN top - VH + 1 ELSE 1
    <3>1. top - VH + 1 \in Int /\ 1 \in Int
      BY <1>1, <2>2
    <3>2. Max({top - VH + 1, 1}) = IF top - VH + 1 >= 1 THEN top - VH + 1 ELSE 1
      BY <3>1, MaxOfTwo
    <3>. QED  BY <1>2, <3>2
  <2>4. Min({VH, t.count}) = IF VH <= t.count THEN VH ELSE t.count
    BY <1>1, MinOfTwo
  <2> HIDE DEF VH
  <2>5. CASE wanted + VH - 1 <= t.count
    BY <1>1, <2>2, <2>3, <2>4, <2>5
  <2>6. CASE ~(wanted + VH - 1 <= t.count)
    <3>1. top = t.count
      BY <2>2, <2>6
    <3>2. CASE VH <= t.count
      <4>1. bottom = t.count - VH + 1
        BY <1>1, <2>3, <3>1, <3>2
      <4>2. Min({VH, t.count}) = VH
        BY <2>4, <3>2
      <4>. QED  BY <1>1, <3>1, <3>2, <4>1, <4>2
    <3>3. CASE ~(VH <= t.count)
      <4>1. bottom = 1
        BY <1>1, <2>3, <3>1, <3>3
      <4>2. Min({VH, t.count}) = t.count
        BY <2>4, <3>3
      <4>. QED  BY <1>1, <3>1, <3>3, <4>1, <4>2
    <3>. QED  BY <3>2, <3>3
  <2>. QED  BY <2>5, <2>6
<1> HIDE DEF VH
<1>4. PICK vga : vga = [r \in 0 .. ROWS |-> ShownRow(t, top, bottom, r)]
  BY Zenon
<1>5. vga \in Screens
  <2>1. ASSUME NEW r \in 0 .. ROWS PROVE ShownRow(t, top, bottom, r) \in Line
    <3>1. CASE r = 0
      <4>1. [c \in Cols |-> "status"] \in Line
        BY DEF Line
      <4>2. ShownRow(t, top, bottom, r) = [c \in Cols |-> "status"]
        BY <1>1, <3>1 DEF ShownRow
      <4>. QED  BY <4>1, <4>2, Zenon
    <3>2. CASE r = ROWS
      BY <1>1, <3>2 DEF Screens, ShownRow
    <3>3. CASE r # 0 /\ r # ROWS
      <4>1. CASE top - (r - 1) > t.count \/ top - (r - 1) < bottom
        BY <3>3, <4>1, BlankIsLine DEF ShownRow
      <4>2. CASE ~(top - (r - 1) > t.count \/ top - (r - 1) < bottom)
        <5>1. PICK n \in 1 .. t.count : n = top - (r - 1)
          BY <1>1, <1>3, <4>2
        <5>2. ScrollbackLine(t, n) \in Line
          BY LineInRing
        <5>. QED  BY <3>3, <4>2, <5>1, <5>2 DEF ShownRow
      <4>. QED  BY <4>1, <4>2
    <3>. QED  BY <3>1, <3>2, <3>3
  <2>. QED  BY <1>4, <2>1 DEF Screens
<1>6. Under(t) \in Lines
  BY <1>1 DEF Under, Terminals, Lines, Screens
<1>7. PICK u : /\ u = ScrollbackShow(t, wanted)
               /\ u = [t EXCEPT !.saved = Under(t), !.vga = vga, !.active = TRUE,
                                !.offset = bottom, !.shown = FALSE]
  <2>1. ~(wanted < 1)
    BY <1>1
  <2>. QED  BY <1>2, <1>4, <2>1, Zenon DEF ScrollbackShow
<1>8. u \in Terminals
  BY <1>3, <1>5, <1>6, <1>7, Zenon DEF Terminals
<1>9. /\ SameRing(t, u) /\ u.active /\ u.offset = bottom /\ u.saved = Under(t)
      /\ u.vga = vga /\ u.count = t.count
  BY <1>7 DEF Terminals, SameRing
<1>10. bottom \in 1 .. t.count
  BY <1>1, <1>3
<1>11. Window(u, g)
  <2>0. /\ top \in Nat /\ bottom \in Nat \ {0} /\ top <= t.count /\ t.count \in Nat
        /\ VH \in Nat /\ VH <= ROWS - 1 /\ ROWS \in Nat
    BY <1>1, <1>3
  <2>1. PICK lines \in Nat \ {0} : lines = Min({VH, t.count}) /\ lines <= VH /\ top = bottom + lines - 1
    BY <1>3
  <2>2. t.count = IF Len(g) <= SCROLLBACK_LINES THEN Len(g) ELSE SCROLLBACK_LINES
    BY Sizes, MinOfTwo DEF Ring
  <2>3. Len(g) \in Nat /\ t.count <= Len(g) /\ DOMAIN g = 1 .. Len(g)
    BY <2>2, Sizes
  <2>4. ASSUME NEW r \in 1 .. lines, NEW n, n = Len(g) - bottom + 1 - (lines - r)
        PROVE  n \in DOMAIN g /\ vga[r] = g[n]
    <3>0. /\ top \in Nat /\ bottom \in Nat \ {0} /\ top <= t.count /\ t.count \in Nat
          /\ top = bottom + lines - 1 /\ n = Len(g) - bottom + 1 - (lines - r)
      BY <2>0, <2>1, <2>4, Zenon
    <3>1. r \in 0 .. ROWS /\ r # 0 /\ r # ROWS
      BY <1>1, <2>1
    <3>2. PICK line \in 1 .. t.count : line = top - (r - 1) /\ n = Len(g) - line + 1
      <4>1. top - (r - 1) \in 1 .. t.count
        BY <3>0
      <4>2. n = Len(g) - (top - (r - 1)) + 1
        BY <2>3, <3>0
      <4>. QED  BY <4>1, <4>2
    <3>3. ~(line > t.count) /\ ~(line < bottom)
      BY <3>0, <3>2
    <3>4. vga[r] = ScrollbackLine(t, line)
      BY <1>4, <3>1, <3>2, <3>3 DEF ShownRow
    <3>5. ScrollbackLine(t, line) = g[Len(g) - line + 1]
      BY DEF Ring
    <3>6. n \in 1 .. Len(g)
      BY <1>1, <2>3, <3>2
    <3>. QED  BY <2>3, <3>2, <3>4, <3>5, <3>6
  <2>5. ASSUME NEW r \in lines + 1 .. ROWS - 1 PROVE vga[r] = Blank
    <3>1. r \in 0 .. ROWS /\ r # 0 /\ r # ROWS
      BY <2>0
    <3>2. top - (r - 1) < bottom
      BY <2>0, <2>1
    <3>. QED  BY <1>4, <3>1, <3>2 DEF ShownRow
  <2>6. \A r \in 1 .. lines : LET n == Len(g) - u.offset + 1 - (lines - r)
                                IN n \in DOMAIN g /\ u.vga[r] = g[n]
    BY <1>9, <2>4, Zenon
  <2>7. \A r \in lines + 1 .. ROWS - 1 : u.vga[r] = Blank
    BY <1>9, <2>5, Zenon
  <2>8. lines = Min({SCROLLBACK_VIEW_HEIGHT, u.count})
    BY <1>9, <2>1, Zenon DEF VH
  <2>. QED  BY <2>6, <2>7, <2>8, Zenon DEF Window
<1>. QED  BY <1>7, <1>8, <1>9, <1>10, <1>11

LEMMA ExitKeeps ==
  ASSUME NEW t \in Terminals, t.active
  PROVE  /\ ScrollbackExit(t) \in Terminals /\ SameRing(t, ScrollbackExit(t))
         /\ ~ScrollbackExit(t).active /\ ScrollbackExit(t).offset = 0
         /\ Rows(ScrollbackExit(t).vga) = t.saved
<1>1. /\ ROWS \in Nat \ {0, 1} /\ t.vga \in Screens /\ t.saved \in Lines
  BY Sizes DEF Terminals
<1>2. PICK vga \in Screens : vga = [r \in 0 .. ROWS |-> IF r < ROWS THEN t.saved[r] ELSE t.vga[r]]
  <2>1. ASSUME NEW r \in 0 .. ROWS
        PROVE  (IF r < ROWS THEN t.saved[r] ELSE t.vga[r]) \in Line
    <3>1. r < ROWS => r \in 0 .. ROWS - 1
      BY <1>1
    <3>. QED  BY <1>1, <3>1 DEF Screens, Lines
  <2>. QED  BY <2>1, Zenon DEF Screens
<1>3. ScrollbackExit(t) = [t EXCEPT !.active = FALSE, !.offset = 0, !.shown = TRUE, !.vga = vga]
  BY <1>2 DEF ScrollbackExit
<1>4. Rows(vga) = t.saved
  <2>1. t.saved = [r \in 0 .. ROWS - 1 |-> t.saved[r]]
    BY <1>1 DEF Lines
  <2>2. \A r \in 0 .. ROWS - 1 : vga[r] = t.saved[r]
    BY <1>1, <1>2
  <2>. QED  BY <2>1, <2>2, Zenon DEF Rows
<1>5. PICK u : u = ScrollbackExit(t)
  OBVIOUS
<1>6. u \in Terminals /\ SameRing(t, u) /\ ~u.active /\ u.offset = 0 /\ u.vga = vga
  <2>1. u = [t EXCEPT !.active = FALSE, !.offset = 0, !.shown = TRUE, !.vga = vga]
    BY <1>3, <1>5
  <2>2. u \in Terminals
    BY <2>1, Zenon DEF Terminals
  <2>. QED  BY <2>1, <2>2 DEF Terminals, SameRing
<1>. QED  BY <1>4, <1>5, <1>6, Zenon

-----------------------------------------------------------------------------
(* Steps.                                                                  *)

LEMMA ViewIsWindowDef == ViewIsWindow <=> (tty.active /\ ~spoiled => Window(tty, gone))
BY DEF ViewIsWindow, Window

\* The ring of u, with text h, is the one of t, with text g, or one line ahead.
Advanced(t, g, u, h) ==
  \/ SameRing(t, u) /\ h = g
  \/ Pushed(t, u, t.vga[0]) /\ h = Append(g, t.vga[0])

\* A step that writes to the screen closes no view and loses no line.
LEMMA WrittenKeeps ==
  ASSUME TtyInv, NEW u \in Terminals, SameView(tty, u), Advanced(tty, gone, u, gone'), Written(u)
  PROVE  TtyInv' /\ tty'.count >= tty.count
<1>1. /\ tty' = u /\ (spoiled' <=> (spoiled \/ tty.active)) /\ spoiled' \in BOOLEAN
      /\ screen' = Rows(u.vga)
  BY Zenon DEF Written
<1>2. tty \in Terminals /\ gone \in Seq(Line) /\ Ring(tty, gone) /\ tty.vga[0] \in Line
  BY Sizes DEF TtyInv, Terminals, Screens
<1>3. gone' \in Seq(Line) /\ Ring(u, gone')
  BY <1>2, SameRingKeeps, RingPushed, Zenon DEF Advanced
<1>4. u.count >= tty.count /\ u.count \in Nat /\ tty.count \in Nat
  <2>1. u.count \in Nat /\ tty.count \in Nat
    BY <1>2, Sizes DEF Terminals
  <2>. QED  BY <2>1 DEF Advanced, SameRing, Pushed
<1>5. Rows(u.vga) \in Lines
  <2>1. \A r \in 0 .. ROWS - 1 : u.vga[r] \in Line
    BY Sizes DEF Terminals, Screens
  <2>. QED  BY <2>1 DEF Rows, Lines
<1>6. (u.active => u.offset \in 1 .. u.count) /\ (~u.active => u.offset = 0)
  BY <1>2, <1>4 DEF TtyInv, SameView, Terminals
<1>7. u.active <=> tty.active
  BY DEF SameView
<1>8. ViewIsWindow'
  BY <1>1, <1>7, Zenon DEF ViewIsWindow
<1>9. ViewKeepsScreen'
  BY <1>1, <1>7, Zenon DEF ViewKeepsScreen
<1>. QED  BY <1>1, <1>3, <1>4, <1>5, <1>6, <1>8, <1>9 DEF TtyInv

\* A step that leaves view, ring and rows alone.
LEMMA QuietKeeps ==
  ASSUME TtyInv, NEW u \in Terminals, tty' = u, SameView(tty, u), SameRing(tty, u),
         \A r \in 0 .. ROWS - 1 : u.vga[r] = tty.vga[r],
         UNCHANGED <<gone, screen, spoiled>>
  PROVE  TtyInv' /\ tty'.count = tty.count
<1>1. /\ (u.active <=> tty.active) /\ u.offset = tty.offset /\ u.saved = tty.saved
      /\ u.count = tty.count
  BY DEF SameView, SameRing
<1>2. Ring(u, gone)
  BY SameRingKeeps DEF TtyInv
<1>3. Rows(u.vga) = Rows(tty.vga)
  BY Zenon DEF Rows
<1>4. ViewKeepsScreen'
  BY <1>1, <1>3 DEF TtyInv, ViewKeepsScreen
<1>5. Window(tty, gone) => Window(u, gone)
  <2>1. SUFFICES ASSUME Window(tty, gone) PROVE Window(u, gone)
    OBVIOUS
  <2>2. PICK lines : lines = Min({SCROLLBACK_VIEW_HEIGHT, tty.count})
    OBVIOUS
  <2>3. lines \in Nat /\ lines <= ROWS - 1
    <3>1. /\ SCROLLBACK_VIEW_HEIGHT \in Int /\ tty.count \in Int /\ tty.count >= 0
          /\ SCROLLBACK_VIEW_HEIGHT = ROWS - 1 /\ ROWS - 1 \in Nat
      BY Sizes DEF SCROLLBACK_VIEW_HEIGHT, TtyInv, Terminals
    <3>. QED  BY <2>2, <3>1, MinOfTwo
  <2>4. \A r \in 1 .. ROWS - 1 : u.vga[r] = tty.vga[r]
    BY Sizes
  <2>5. ASSUME NEW r \in 1 .. lines
        PROVE  LET n == Len(gone) - u.offset + 1 - (lines - r)
               IN n \in DOMAIN gone /\ u.vga[r] = gone[n]
    <3>1. r \in 1 .. ROWS - 1
      BY <2>3, Sizes
    <3>. QED  BY <1>1, <2>1, <2>2, <2>4, <3>1, Zenon DEF Window
  <2>6. ASSUME NEW r \in lines + 1 .. ROWS - 1 PROVE u.vga[r] = Blank
    <3>1. r \in 1 .. ROWS - 1
      BY <2>3, Sizes
    <3>. QED  BY <2>1, <2>2, <2>4, <3>1, Zenon DEF Window
  <2>. QED  BY <1>1, <2>2, <2>5, <2>6, Zenon DEF Window
<1>6. ViewIsWindow'
  <2>1. ViewIsWindow' <=> (u.active /\ ~spoiled => Window(u, gone))
    BY DEF ViewIsWindow, Window
  <2>2. tty.active /\ ~spoiled => Window(tty, gone)
    BY ViewIsWindowDef DEF TtyInv
  <2>. QED  BY <1>1, <1>5, <2>1, <2>2
<1>. QED  BY <1>1, <1>2, <1>4, <1>6 DEF TtyInv

LEMMA TtyUnchanged ==
  ASSUME TtyInv, UNCHANGED <<tty, gone, screen, spoiled>>
  PROVE  TtyInv'
BY Zenon DEF TtyInv, ViewIsWindow, ViewKeepsScreen

\* A character of puts or of putc.
LEMMA EmitStep ==
  ASSUME TtyInv, NEW ch \in Chars \cup Control, Written(Emit(tty, ch)), gone' = Scrolls(ch)
  PROVE  TtyInv' /\ tty'.count >= tty.count
<1>1. tty \in Terminals
  BY DEF TtyInv
<1>2. PICK u : u = Emit(tty, ch)
  OBVIOUS
<1>3. /\ u \in Terminals /\ SameView(tty, u)
      /\ ~OffScreen(tty, ch) => SameRing(tty, u)
      /\ OffScreen(tty, ch) => Pushed(tty, u, tty.vga[0])
  BY <1>1, <1>2, EmitKeeps
<1>4. OffScreen(tty, ch) <=> ScrollsOff(ch)
  BY Zenon DEF OffScreen, ScrollsOff, Control
<1>5. Advanced(tty, gone, u, gone')
  BY <1>3, <1>4 DEF Advanced, Scrolls
<1>. QED  BY <1>2, <1>3, <1>5, WrittenKeeps

\* The offset that a key asks for is one of a line in the ring, or 0.
LEMMA WantedInRing ==
  ASSUME TtyInv, NEW key \in {"PageUp", "Home", "LineUp", "LineDown", "PageDown", "End"},
         Wanted(tty, key) >= 0
  PROVE  Wanted(tty, key) \in 0 .. tty.count
<1>1. /\ tty.count \in Nat /\ tty.offset \in Nat /\ tty.offset <= tty.count
      /\ SCROLLBACK_VIEW_HEIGHT \in Nat
  BY Sizes DEF TtyInv, Terminals, SCROLLBACK_VIEW_HEIGHT
<1>2. CASE key = "PageUp"
  <2>1. PICK o : o = Min({tty.offset + SCROLLBACK_VIEW_HEIGHT, tty.count})
    OBVIOUS
  <2>2. PICK a \in Int : a = tty.offset + SCROLLBACK_VIEW_HEIGHT
    BY <1>1
  <2>3. o \in Int /\ o <= tty.count
    BY <1>1, <2>1, <2>2, MinOfTwo
  <2>4. Wanted(tty, key) = IF o < 1 THEN -1 ELSE o
    BY <1>2, <2>1 DEF Wanted
  <2>. QED  BY <1>1, <2>3, <2>4
<1>3. CASE key = "Home"
  BY <1>1, <1>3 DEF Wanted
<1>4. CASE key = "LineUp"
  BY <1>1, <1>4 DEF Wanted
<1>5. CASE key = "LineDown"
  BY <1>1, <1>5 DEF Wanted
<1>6. CASE key = "PageDown"
  BY <1>1, <1>6 DEF Wanted
<1>7. CASE key = "End"
  BY <1>1, <1>7 DEF Wanted
<1>. QED  BY <1>2, <1>3, <1>4, <1>5, <1>6, <1>7

\* scrollbackShow and scrollbackExit, with an offset computed before: the ring
\* may have grown since, but its lines are still there.
LEMMA ScrolledStep ==
  ASSUME TtyInv, arg \in 0 .. tty.count, tty' = Scrolled(tty, arg),
         UNCHANGED <<gone, screen, spoiled>>
  PROVE  TtyInv' /\ tty'.count = tty.count
<1>1. tty \in Terminals /\ gone \in Seq(Line) /\ Ring(tty, gone) /\ tty.count \in Nat
  BY Sizes DEF TtyInv, Terminals
<1>2. ViewIsWindow' <=> (tty'.active /\ ~spoiled => Window(tty', gone))
  BY DEF ViewIsWindow, Window
<1>3. CASE arg = 0 /\ ~tty.active
  <2>1. tty' = tty
    BY <1>3 DEF Scrolled, ScrollbackExit
  <2>. QED  BY <2>1, TtyUnchanged
<1>4. CASE arg = 0 /\ tty.active
  <2>1. PICK u : u = ScrollbackExit(tty)
    OBVIOUS
  <2>2. tty' = u
    BY <1>4, <2>1 DEF Scrolled
  <2>3. /\ u \in Terminals /\ SameRing(tty, u) /\ ~u.active /\ u.offset = 0
        /\ Rows(u.vga) = tty.saved
    BY <1>1, <1>4, <2>1, ExitKeeps
  <2>4. Ring(u, gone) /\ u.count = tty.count
    BY <1>1, <2>3, SameRingKeeps DEF SameRing
  <2>5. ViewKeepsScreen'
    BY <1>4, <2>2, <2>3 DEF TtyInv, ViewKeepsScreen
  <2>6. ViewIsWindow'
    BY <1>2, <2>2, <2>3
  <2>. QED  BY <2>2, <2>3, <2>4, <2>5, <2>6 DEF TtyInv
<1>5. CASE arg # 0
  <2>1. PICK u : u = ScrollbackShow(tty, arg)
    OBVIOUS
  <2>2. tty' = u /\ arg \in 1 .. tty.count
    BY <1>1, <1>5, <2>1 DEF Scrolled
  <2>3. /\ u \in Terminals /\ SameRing(tty, u) /\ u.active /\ u.offset \in 1 .. tty.count
        /\ u.saved = Under(tty) /\ Window(u, gone)
    BY <1>1, <2>1, <2>2, ShowKeeps
  <2>4. Ring(u, gone) /\ u.count = tty.count
    BY <1>1, <2>3, SameRingKeeps DEF SameRing
  <2>5. ViewKeepsScreen'
    BY <2>2, <2>3 DEF TtyInv, ViewKeepsScreen, Under, Rows
  <2>6. ViewIsWindow'
    BY <1>2, <2>2, <2>3
  <2>. QED  BY <2>2, <2>3, <2>4, <2>5, <2>6 DEF TtyInv
<1>. QED  BY <1>3, <1>4, <1>5

\* What a step of the shell or of the game does to the taskbar.
LEMMA OthersLate ==
  ASSUME LateInv, DOMAIN pc = Tasks, NEW k \in {"shell", "game"}, NEW p,
         pc' = [pc EXCEPT ![k] = p], UNCHANGED <<suppressed, late>>
  PROVE  LateInv' /\ DOMAIN pc' = Tasks
<1>1. pc'["bar"] = pc["bar"] /\ DOMAIN pc' = Tasks
  BY DEF Tasks
<1>. QED  BY <1>1 DEF LateInv

-----------------------------------------------------------------------------
(* The invariant.                                                          *)

LEMMA InitConsole == Init => ConsoleInv
<1>1. SUFFICES ASSUME Init PROVE ConsoleInv
  OBVIOUS
<1>2. /\ tty = EmptyTerminal /\ gone = << >> /\ screen = Rows(tty.vga) /\ spoiled = FALSE
      /\ Len(gone) = 0 /\ gone \in Seq(Line)
  BY <1>1 DEF Init
<1>3. tty \in Terminals /\ tty.count = 0 /\ tty.active = FALSE /\ tty.offset = 0
  BY <1>2, Sizes, BlankIsLine DEF EmptyTerminal, Terminals, Screens, Lines, Cols
<1>4. Ring(tty, gone)
  <2>1. Min({Len(gone), SCROLLBACK_LINES}) = 0
    BY <1>2, Sizes, MinOfTwo
  <2>. QED  BY <1>3, <2>1 DEF Ring
<1>5. screen \in Lines
  BY <1>2, Sizes, BlankIsLine DEF Rows, EmptyTerminal, Lines
<1>6. ViewIsWindow /\ ViewKeepsScreen
  BY <1>2, <1>3 DEF ViewIsWindow, ViewKeepsScreen
<1>7. TaskInv
  <2>1. savedVga \in [vga : Screens, row : 0 .. ROWS - 1, col : Cols]
    BY <1>1, Sizes, BlankIsLine DEF Init, EmptyTerminal, Screens, Cols
  <2>2. DOMAIN pc = Tasks /\ text \in Seq(Chars \cup Control) /\ arg \in 0 .. tty.count
    BY <1>1, <1>3 DEF Init
  <2>. QED  BY <1>1, <2>1, <2>2 DEF Init, TaskInv
<1>8. LateInv
  BY <1>1, Zenon DEF Init, LateInv
<1>. QED  BY <1>2, <1>3, <1>4, <1>5, <1>6, <1>7, <1>8, Zenon DEF ConsoleInv, TtyInv

LEMMA StepConsole == ConsoleInv /\ [Next]_vars => ConsoleInv'
<1>1. SUFFICES ASSUME ConsoleInv, [Next]_vars PROVE ConsoleInv'
  OBVIOUS
<1>2. /\ TtyInv /\ TaskInv /\ LateInv /\ DOMAIN pc = Tasks /\ tty \in Terminals
      /\ tty.count \in Nat /\ arg \in 0 .. tty.count /\ arg \in Nat
  BY <1>1, Sizes DEF ConsoleInv, TaskInv, TtyInv, Terminals
<1>3. ASSUME NEW str \in Texts, Puts(str) PROVE ConsoleInv'
  <2>1. TtyInv'
    BY <1>2, <1>3, TtyUnchanged DEF Puts
  <2>2. LateInv' /\ DOMAIN pc' = Tasks
    BY <1>2, <1>3, OthersLate, Zenon DEF Puts, Begins
  <2>3. str \in Seq(Chars \cup Control)
    BY ConsoleAssumption, Zenon DEF Control
  <2>4. TaskInv'
    BY <1>2, <1>3, <2>2, <2>3 DEF Puts, TaskInv
  <2>. QED  BY <2>1, <2>2, <2>4 DEF ConsoleInv
<1>4. ASSUME RawPutsChar PROVE ConsoleInv'
  <2>1. Head(text) \in Chars \cup Control /\ Tail(text) \in Seq(Chars \cup Control)
    BY <1>2, <1>4 DEF RawPutsChar, TaskInv
  <2>2. TtyInv' /\ tty'.count >= tty.count
    BY <1>2, <1>4, <2>1, EmitStep DEF RawPutsChar
  <2>3. LateInv'
    BY <1>2, <1>4 DEF RawPutsChar, LateInv
  <2>4. arg \in 0 .. tty'.count
    BY <1>2, <2>2, Sizes DEF TtyInv, Terminals
  <2>5. TaskInv'
    BY <1>2, <1>4, <2>1, <2>4 DEF RawPutsChar, TaskInv
  <2>. QED  BY <2>2, <2>3, <2>5 DEF ConsoleInv
<1>5. ASSUME PutsReturn PROVE ConsoleInv'
  <2>1. TtyInv'
    BY <1>2, <1>5, TtyUnchanged DEF PutsReturn
  <2>2. LateInv' /\ DOMAIN pc' = Tasks
    BY <1>2, <1>5, OthersLate, Zenon DEF PutsReturn
  <2>3. TaskInv'
    BY <1>2, <1>5, <2>2 DEF PutsReturn, TaskInv
  <2>. QED  BY <2>1, <2>2, <2>3 DEF ConsoleInv
<1>6. ASSUME NEW ch \in Chars, Putc(ch) PROVE ConsoleInv'
  <2>1. TtyInv' /\ tty'.count >= tty.count
    <3>1. CASE tty.active
      BY <1>2, <1>6, <3>1, TtyUnchanged DEF Putc
    <3>2. CASE ~tty.active
      BY <1>2, <1>6, <3>2, EmitStep DEF Putc
    <3>. QED  BY <3>1, <3>2
  <2>2. LateInv' /\ DOMAIN pc' = Tasks
    BY <1>2, <1>6, OthersLate, Zenon DEF Putc, Begins
  <2>3. arg \in 0 .. tty'.count
    BY <1>2, <2>1, Sizes DEF TtyInv, Terminals
  <2>4. TaskInv'
    BY <1>2, <1>6, <2>2, <2>3 DEF Putc, TaskInv
  <2>. QED  BY <2>1, <2>2, <2>4 DEF ConsoleInv
<1>7. ASSUME Clear PROVE ConsoleInv'
  <2>1. PICK u : u = Cls(tty)
    OBVIOUS
  <2>2. u \in Terminals /\ SameView(tty, u) /\ SameRing(tty, u)
    <3>1. PICK vga : vga = [r \in 0 .. ROWS |-> IF r < ROWS THEN Blank ELSE tty.vga[r]]
      BY Zenon
    <3>2. vga \in Screens
      BY <1>2, <3>1, BlankIsLine, Zenon DEF Terminals, Screens
    <3>3. u = [tty EXCEPT !.vga = vga, !.row = 0, !.col = 0]
      BY <1>2, <2>1, <3>1 DEF Cls, Terminals
    <3>4. 0 \in Cols /\ 0 \in 0 .. ROWS - 1
      BY Sizes DEF Cols
    <3>. QED  BY <1>2, <3>2, <3>3, <3>4, Zenon DEF Terminals, SameView, SameRing
  <2>3. TtyInv' /\ tty'.count >= tty.count
    BY <1>2, <1>7, <2>1, <2>2, WrittenKeeps DEF Clear, Advanced
  <2>4. LateInv' /\ DOMAIN pc' = Tasks
    BY <1>2, <1>7, OthersLate, Zenon DEF Clear, Begins
  <2>5. arg \in 0 .. tty'.count
    BY <1>2, <2>3, Sizes DEF TtyInv, Terminals
  <2>6. TaskInv'
    BY <1>2, <1>7, <2>4, <2>5 DEF Clear, TaskInv
  <2>. QED  BY <2>3, <2>4, <2>6 DEF ConsoleInv
<1>8. ASSUME NEW key \in {"PageUp", "Home", "LineUp", "LineDown", "PageDown", "End"}, Scroll(key)
      PROVE  ConsoleInv'
  <2>1. TtyInv'
    BY <1>2, <1>8, TtyUnchanged DEF Scroll
  <2>2. LateInv' /\ DOMAIN pc' = Tasks
    BY <1>2, <1>8, OthersLate, Zenon DEF Scroll, Begins
  <2>3. arg' \in 0 .. tty'.count
    BY <1>2, <1>8, WantedInRing DEF Scroll
  <2>4. TaskInv'
    BY <1>2, <1>8, <2>2, <2>3 DEF Scroll, TaskInv
  <2>. QED  BY <2>1, <2>2, <2>4 DEF ConsoleInv
<1>9. ASSUME ScrollLocked PROVE ConsoleInv'
  <2>1. TtyInv' /\ tty'.count = tty.count
    BY <1>2, <1>9, ScrolledStep DEF ScrollLocked
  <2>2. LateInv' /\ DOMAIN pc' = Tasks
    BY <1>2, <1>9, OthersLate, Zenon DEF ScrollLocked, Continues
  <2>3. arg' \in 0 .. tty'.count
    BY <1>2, <1>9, <2>1 DEF ScrollLocked
  <2>4. TaskInv'
    BY <1>2, <1>9, <2>2, <2>3 DEF ScrollLocked, TaskInv
  <2>. QED  BY <2>1, <2>2, <2>4 DEF ConsoleInv
<1>10. ASSUME Suppress PROVE ConsoleInv'
  <2>1. TtyInv'
    BY <1>2, <1>10, TtyUnchanged DEF Suppress
  <2>2. LateInv'
    BY <1>10 DEF Suppress, LateInv
  <2>3. TaskInv'
    BY <1>2, <1>10 DEF Suppress, Begins, TaskInv
  <2>. QED  BY <2>1, <2>2, <2>3 DEF ConsoleInv
<1>11. ASSUME SaveCursor \/ SaveScreen PROVE ConsoleInv'
  <2>1. TtyInv'
    BY <1>2, <1>11, TtyUnchanged DEF SaveCursor, SaveScreen
  <2>2. LateInv' /\ DOMAIN pc' = Tasks
    BY <1>2, <1>11, OthersLate DEF SaveCursor, SaveScreen, Continues
  <2>3. savedVga' \in [vga : Screens, row : 0 .. ROWS - 1, col : Cols]
    BY <1>2, <1>11, Zenon DEF SaveCursor, SaveScreen, TaskInv, Terminals
  <2>4. TaskInv'
    BY <1>2, <1>11, <2>2, <2>3 DEF SaveCursor, SaveScreen, TaskInv
  <2>. QED  BY <2>1, <2>2, <2>4 DEF ConsoleInv
<1>12. ASSUME NEW r \in {0, ROWS}, Put(r, 0, CHOOSE ch \in Chars : ch # " ") PROVE ConsoleInv'
  <2>1. PICK ch \in Chars : ch = CHOOSE c \in Chars : c # " "
    BY ConsoleAssumption, Zenon
  <2>2. PICK u : u = [tty EXCEPT !.vga[r][0] = ch]
    BY Zenon
  <2>3. u \in Terminals /\ SameView(tty, u) /\ SameRing(tty, u)
    <3>1. r \in 0 .. ROWS /\ 0 \in Cols
      BY Sizes DEF Cols
    <3>2. tty.vga[r] \in Line
      BY <1>2, <3>1, Zenon DEF Terminals, Screens
    <3>3. PICK line \in Line : line = [tty.vga[r] EXCEPT ![0] = ch]
      BY <3>1, <3>2, Zenon DEF Line
    <3>4. u = [tty EXCEPT !.vga = [tty.vga EXCEPT ![r] = line]]
      BY <1>2, <2>2, <3>1, <3>3 DEF Terminals, Screens
    <3>5. [tty.vga EXCEPT ![r] = line] \in Screens
      BY <1>2, <3>1 DEF Terminals, Screens
    <3>. QED  BY <1>2, <3>4, <3>5 DEF Terminals, SameView, SameRing
  <2>4. TtyInv' /\ tty'.count >= tty.count
    BY <1>2, <1>12, <2>1, <2>2, <2>3, WrittenKeeps, Zenon DEF Put, Advanced
  <2>5. LateInv'
    BY <1>2, <1>12, Zenon DEF Put, LateInv
  <2>6. arg \in 0 .. tty'.count
    BY <1>2, <2>4, Sizes DEF TtyInv, Terminals
  <2>7. TaskInv'
    BY <1>2, <1>12, <2>6, Zenon DEF Put, TaskInv
  <2>. QED  BY <2>4, <2>5, <2>7 DEF ConsoleInv
<1>13. ASSUME RestoreScreen PROVE ConsoleInv'
  <2>1. PICK u : u = [tty EXCEPT !.vga = savedVga.vga]
    BY Zenon
  <2>2. u \in Terminals /\ SameView(tty, u) /\ SameRing(tty, u)
    BY <1>2, <2>1 DEF TaskInv, Terminals, SameView, SameRing
  <2>3. TtyInv' /\ tty'.count >= tty.count
    BY <1>2, <1>13, <2>1, <2>2, WrittenKeeps DEF RestoreScreen, Advanced
  <2>4. LateInv' /\ DOMAIN pc' = Tasks
    BY <1>2, <1>13, OthersLate, Zenon DEF RestoreScreen, Continues
  <2>5. arg \in 0 .. tty'.count
    BY <1>2, <2>3, Sizes DEF TtyInv, Terminals
  <2>6. TaskInv'
    BY <1>2, <1>13, <2>4, <2>5 DEF RestoreScreen, TaskInv
  <2>. QED  BY <2>3, <2>4, <2>6 DEF ConsoleInv
<1>14. ASSUME RestoreCursor PROVE ConsoleInv'
  <2>1. PICK u : u = [tty EXCEPT !.row = savedVga.row, !.col = savedVga.col]
    OBVIOUS
  <2>2. u \in Terminals /\ SameView(tty, u) /\ SameRing(tty, u) /\ u.vga = tty.vga
    BY <1>2, <2>1, Zenon DEF TaskInv, Terminals, SameView, SameRing
  <2>3. TtyInv' /\ tty'.count = tty.count
    BY <1>2, <1>14, <2>1, <2>2, QuietKeeps, Zenon DEF RestoreCursor
  <2>4. LateInv' /\ DOMAIN pc' = Tasks
    BY <1>2, <1>14, OthersLate, Zenon DEF RestoreCursor, Continues
  <2>5. TaskInv'
    BY <1>2, <1>14, <2>3, <2>4 DEF RestoreCursor, TaskInv
  <2>. QED  BY <2>3, <2>4, <2>5 DEF ConsoleInv
<1>15. ASSUME Exit PROVE ConsoleInv'
  <2>1. TtyInv'
    BY <1>2, <1>15, TtyUnchanged DEF Exit
  <2>2. LateInv'
    BY <1>2, <1>15, Zenon DEF Exit, LateInv
  <2>3. TaskInv'
    BY <1>2, <1>15 DEF Exit, Continues, TaskInv
  <2>. QED  BY <2>1, <2>2, <2>3 DEF ConsoleInv
<1>16. ASSUME BarChecks PROVE ConsoleInv'
  <2>1. TtyInv'
    BY <1>2, <1>16, TtyUnchanged DEF BarChecks
  <2>2. LateInv'
    BY <1>2, <1>16 DEF BarChecks, LateInv
  <2>3. TaskInv'
    BY <1>2, <1>16 DEF BarChecks, TaskInv
  <2>. QED  BY <2>1, <2>2, <2>3 DEF ConsoleInv
<1>17. ASSUME BarWrites PROVE ConsoleInv'
  <2>1. PICK u : u = [tty EXCEPT !.vga[ROWS] = [c \in Cols |-> "status"]]
    BY Zenon
  <2>2. ROWS \in 0 .. ROWS /\ [c \in Cols |-> "status"] \in Line /\ ROWS \notin 0 .. ROWS - 1
    BY Sizes DEF Line
  <2>3. /\ u \in Terminals /\ SameView(tty, u) /\ SameRing(tty, u)
        /\ \A r \in 0 .. ROWS - 1 : u.vga[r] = tty.vga[r]
    <3>1. PICK vga : vga = [tty.vga EXCEPT ![ROWS] = [c \in Cols |-> "status"]]
      BY Zenon
    <3>2. vga \in Screens /\ \A r \in 0 .. ROWS - 1 : vga[r] = tty.vga[r]
      BY <1>2, <2>2, <3>1, Sizes DEF Terminals, Screens
    <3>3. u = [tty EXCEPT !.vga = vga]
      BY <1>2, <2>1, <3>1 DEF Terminals
    <3>. QED  BY <1>2, <3>2, <3>3 DEF Terminals, SameView, SameRing
  <2>4. TtyInv' /\ tty'.count = tty.count
    BY <1>2, <1>17, <2>1, <2>3, QuietKeeps, Zenon DEF BarWrites
  <2>5. "bar" \in DOMAIN pc
    BY <1>2 DEF Tasks
  <2>6. LateInv'
    BY <1>2, <1>17, <2>5 DEF BarWrites, LateInv
  <2>7. TaskInv'
    BY <1>2, <1>17, <2>4 DEF BarWrites, TaskInv
  <2>. QED  BY <2>4, <2>6, <2>7 DEF ConsoleInv
<1>18. CASE UNCHANGED vars
  <2>1. TtyInv'
    BY <1>2, <1>18, TtyUnchanged DEF vars
  <2>2. TaskInv' /\ LateInv'
    BY <1>2, <1>18 DEF vars, TaskInv, LateInv
  <2>. QED  BY <2>1, <2>2 DEF ConsoleInv
<1>. QED  BY <1>1, <1>3, <1>4, <1>5, <1>6, <1>7, <1>8, <1>9, <1>10, <1>11, <1>12, <1>13,
             <1>14, <1>15, <1>16, <1>17, <1>18, Zenon DEF Next

THEOREM ConsoleInvariant == Spec => []ConsoleInv
BY InitConsole, StepConsole, PTL DEF Spec

-----------------------------------------------------------------------------
(* What follows.                                                           *)

\* The lines that scrollbackLine gives back are the last ones that scrolled off
\* the screen, whatever was printed, cleared, viewed and restored (advRow).
THEOREM RingIsHistoryHolds == Spec => []RingIsHistory
<1>1. ConsoleInv => RingIsHistory
  <2>1. SUFFICES ASSUME ConsoleInv PROVE RingIsHistory
    OBVIOUS
  <2>2. /\ tty \in Terminals /\ (tty.active => tty.offset \in 1 .. tty.count)
        /\ (~tty.active => tty.offset = 0)
    BY <2>1 DEF ConsoleInv, TtyInv
  <2>3. TerminalTypeOK(tty)
    BY <2>2 DEF TerminalTypeOK, Terminals, Screens, Lines
  <2>4. TypeOK
    BY <2>1, <2>3 DEF TypeOK, ConsoleInv, TtyInv, TaskInv, LateInv, Lines
  <2>. QED  BY <2>1, <2>4, Zenon DEF ConsoleInv, TtyInv, Ring, RingIsHistory
<1>. QED  BY <1>1, ConsoleInvariant, PTL

\* An open view that nobody writes over is a window on the text (scrollbackShow).
THEOREM ViewIsWindowHolds == Spec => []ViewIsWindow
<1>1. ConsoleInv => ViewIsWindow
  BY DEF ConsoleInv, TtyInv
<1>. QED  BY <1>1, ConsoleInvariant, PTL

\* The screen under the view comes back as it was (scrollbackExit).
THEOREM ViewKeepsScreenHolds == Spec => []ViewKeepsScreen
<1>1. ConsoleInv => ViewKeepsScreen
  BY DEF ConsoleInv, TtyInv
<1>. QED  BY <1>1, ConsoleInvariant, PTL

\* The taskbar that asked before it was suppressed writes once more at most
\* (taskbarMain).
THEOREM OneLateWriteHolds == Spec => []OneLateWrite
<1>1. ConsoleInv => OneLateWrite
  BY DEF ConsoleInv, LateInv, OneLateWrite
<1>. QED  BY <1>1, ConsoleInvariant, PTL

-----------------------------------------------------------------------------
(* The semaphore.                                                          *)

INSTANCE FiniteSetTheorems

\* The waiters are the BLOCKED tasks, each once, and there are none while a
\* unit is left; every unit is counted or owned by one task.
QueueOK ==
  /\ waiters \in Seq(Users)
  /\ \A i \in 1 .. Len(waiters) : at[waiters[i]] = "blocked"
  /\ \A i, j \in 1 .. Len(waiters) : waiters[i] = waiters[j] => i = j
  /\ count > 0 => waiters = << >>

SemInv ==
  /\ count \in Nat
  /\ at \in [Users -> {"out", "blocked", "woken", "in"}]
  /\ panicked = FALSE
  /\ QueueOK
  /\ UnitsConserved

\* The owners of units are finitely many.
LEMMA HoldersFinite ==
  /\ IsFiniteSet(Holders)
  /\ Cardinality(Holders) \in Nat
<1>1. Holders \subseteq Users  BY DEF Holders
<1>2. IsFiniteSet(Holders)  BY <1>1, FS_Subset, UsersAssumption
<1>. QED  BY <1>2, FS_CardinalityType

\* A task that is about to wait leaves room in waiters_: its own.
LEMMA RoomForWaiter ==
  ASSUME SemInv, NEW t \in Users, at[t] = "out"
  PROVE  Len(waiters) < MaxWaiters
<1>. DEFINE n == Len(waiters)
            f == [i \in 1 .. n |-> waiters[i]]
            T == Users \ {t}
<1>1. n \in Nat /\ waiters \in [1 .. n -> Users]
  BY DEF SemInv, QueueOK
<1>2. f \in [1 .. n -> T]
  BY <1>1 DEF SemInv, QueueOK
<1>3. IsFiniteSet(T) /\ Cardinality(T) = Cardinality(Users) - 1
  BY FS_RemoveElement, UsersAssumption
<1>4. IsFiniteSet(1 .. n) /\ Cardinality(1 .. n) = n
  BY <1>1, FS_Interval
<1>5. Cardinality(Users) \in Nat
  BY FS_CardinalityType, UsersAssumption
<1>6. \A i, j \in 1 .. n : f[i] = f[j] => i = j
  BY DEF SemInv, QueueOK
<1>. HIDE DEF f, T
<1>7. n > Cardinality(T) => FALSE
  <2>1. SUFFICES ASSUME n > Cardinality(T) PROVE FALSE
    OBVIOUS
  <2>2. \E x, y \in 1 .. n : x # y /\ f[x] = f[y]
    BY <2>1, <1>2, <1>3, <1>4, FS_PigeonHole
  <2>. QED  BY <2>2, <1>6
<1>. QED
  BY <1>1, <1>3, <1>5, <1>7, WaitersAssumption

\* The semaphore starts with all units counted.
LEMMA SemInitInv == SemInit => SemInv
<1>1. SUFFICES ASSUME SemInit PROVE SemInv
  OBVIOUS
<1>2. Holders = {}
  BY <1>1 DEF SemInit, Holders
<1>3. Cardinality(Holders) = 0
  BY <1>2, FS_EmptySet
<1>. QED
  BY <1>1, <1>3, UnitsAssumption DEF SemInit, SemInv, QueueOK, UnitsConserved

\* wait() takes a counted unit for its caller.
LEMMA TakeStep ==
  ASSUME SemInv, NEW t \in Users, at[t] = "out", WaitTakes(t)
  PROVE  SemInv'
<1>1. Holders' = Holders \cup {t} /\ t \notin Holders
  BY DEF Holders, WaitTakes, SemInv
<1>2. Cardinality(Holders') = Cardinality(Holders) + 1
  BY <1>1, HoldersFinite, FS_AddElement
<1>3. UnitsConserved'
  BY <1>2, HoldersFinite DEF WaitTakes, UnitsConserved, SemInv
<1>4. waiters = << >> /\ waiters' = << >>
  BY DEF WaitTakes, SemInv, QueueOK
<1>5. QueueOK'
  BY <1>4 DEF QueueOK
<1>. QED  BY <1>3, <1>5 DEF SemInv, WaitTakes

\* wait() registers its caller, who owned no unit and was not a waiter.
LEMMA BlockStep ==
  ASSUME SemInv, NEW t \in Users, at[t] = "out", WaitBlocks(t)
  PROVE  SemInv'
<1>1. Holders' = Holders
  BY DEF Holders, WaitBlocks, SemInv
<1>2. UnitsConserved'
  BY <1>1 DEF WaitBlocks, UnitsConserved, SemInv
<1>3. waiters \in Seq(Users) /\ waiters' = Append(waiters, t)
  BY DEF WaitBlocks, SemInv, QueueOK
<1>4. /\ waiters' \in Seq(Users)
      /\ Len(waiters') = Len(waiters) + 1
      /\ \A i \in 1 .. Len(waiters) : waiters'[i] = waiters[i]
      /\ waiters'[Len(waiters) + 1] = t
  BY <1>3
<1>5. Len(waiters) \in Nat
  BY <1>3
<1>6. \A i \in 1 .. Len(waiters) : waiters[i] # t /\ waiters[i] \in Users
  BY <1>3 DEF SemInv, QueueOK
<1>7. QueueOK'
  <2>1. \A i \in 1 .. Len(waiters') : at'[waiters'[i]] = "blocked"
    BY <1>4, <1>5, <1>6 DEF WaitBlocks, SemInv, QueueOK
  <2>2. \A i, j \in 1 .. Len(waiters') : waiters'[i] = waiters'[j] => i = j
    BY <1>4, <1>5, <1>6 DEF SemInv, QueueOK
  <2>. QED  BY <1>4, <2>1, <2>2 DEF QueueOK, WaitBlocks
<1>. QED  BY <1>2, <1>7 DEF SemInv, WaitBlocks

\* A woken task enters with the unit it has been handed.
LEMMA ResumeStep ==
  ASSUME SemInv, NEW t \in Users, Resume(t)
  PROVE  SemInv'
<1>1. Holders' = Holders
  BY DEF Holders, Resume, SemInv
<1>2. UnitsConserved'
  BY <1>1 DEF Resume, UnitsConserved, SemInv
<1>3. QueueOK'
  <2>1. \A i \in 1 .. Len(waiters) : waiters[i] \in Users
    BY DEF SemInv, QueueOK
  <2>. QED  BY <2>1 DEF QueueOK, SemInv, Resume
<1>. QED  BY <1>2, <1>3 DEF SemInv, Resume

\* signal() counts the unit, or the longest-waiting task owns it from now on.
LEMMA SignalStep ==
  ASSUME SemInv, NEW t \in Users, Signal(t)
  PROVE  SemInv'
<1>1. CASE waiters = << >>
  <2>1. /\ at' = [at EXCEPT ![t] = "out"] /\ count' = count + 1
        /\ waiters' = << >> /\ panicked' = panicked /\ at[t] = "in"
    BY <1>1 DEF Signal
  <2>2. Holders' = Holders \ {t} /\ t \in Holders
    BY <2>1 DEF Holders, SemInv
  <2>3. Cardinality(Holders') = Cardinality(Holders) - 1
    BY <2>2, HoldersFinite, FS_RemoveElement
  <2>4. UnitsConserved'
    BY <2>1, <2>3, HoldersFinite DEF UnitsConserved, SemInv
  <2>5. QueueOK'
    BY <2>1 DEF QueueOK
  <2>. QED  BY <2>1, <2>4, <2>5 DEF SemInv
<1>2. CASE waiters # << >>
  <2>. DEFINE h == Head(waiters)
  <2>1. /\ waiters \in Seq(Users) /\ Len(waiters) \in Nat \ {0}
        /\ h \in Users /\ h = waiters[1]
    BY <1>2 DEF SemInv, QueueOK
  <2>2. at[h] = "blocked" /\ at[t] = "in" /\ h # t
    BY <2>1 DEF SemInv, QueueOK, Signal
  <2>3. /\ at' = [at EXCEPT ![t] = "out", ![h] = "woken"]
        /\ waiters' = Tail(waiters) /\ count' = count /\ panicked' = panicked
    BY <1>2, <2>1, <2>2 DEF Signal, Unblocked, SemInv
  <2>4. /\ Holders' = (Holders \ {t}) \cup {h}
        /\ t \in Holders /\ h \notin Holders \ {t}
    BY <2>1, <2>2, <2>3 DEF Holders, SemInv
  <2>5. Cardinality(Holders') = Cardinality(Holders)
    <3>1. /\ IsFiniteSet(Holders \ {t})
          /\ Cardinality(Holders \ {t}) = Cardinality(Holders) - 1
      BY <2>4, HoldersFinite, FS_RemoveElement
    <3>2. Cardinality((Holders \ {t}) \cup {h}) = Cardinality(Holders \ {t}) + 1
      <4>1. PICK H : H = Holders \ {t}
        BY Zenon
      <4>2. IsFiniteSet(H) /\ h \notin H
        BY <2>4, <3>1, <4>1, Zenon
      <4>3. Cardinality(H \cup {h}) = Cardinality(H) + 1
        BY <4>2, FS_AddElement
      <4>. QED  BY <4>1, <4>3, Zenon
    <3>. QED  BY <3>1, <3>2, <2>4, HoldersFinite
  <2>6. UnitsConserved'
    BY <2>3, <2>5 DEF UnitsConserved, SemInv
  <2>7. /\ waiters' \in Seq(Users)
        /\ Len(waiters') = Len(waiters) - 1
        /\ \A i \in 1 .. Len(waiters') : waiters'[i] = waiters[i + 1]
    BY <2>1, <2>3, <1>2
  <2>8. \A i \in 1 .. Len(waiters') :
          /\ waiters[i + 1] \in Users /\ waiters[i + 1] # h
          /\ at[waiters[i + 1]] = "blocked"
    BY <2>1, <2>7 DEF SemInv, QueueOK
  <2>9. \A i \in 1 .. Len(waiters') : at'[waiters'[i]] = "blocked"
    BY <2>2, <2>3, <2>7, <2>8 DEF SemInv
  <2>10. \A i, j \in 1 .. Len(waiters') : waiters'[i] = waiters'[j] => i = j
    BY <2>1, <2>7 DEF SemInv, QueueOK
  <2>11. count' = 0
    BY <1>2, <2>3 DEF SemInv, QueueOK
  <2>12. QueueOK'
    BY <2>7, <2>9, <2>10, <2>11 DEF QueueOK
  <2>. QED  BY <2>3, <2>6, <2>12, Zenon DEF SemInv
<1>. QED  BY <1>1, <1>2

\* Every operation keeps the invariant, and none panics.
LEMMA SemStep == SemInv /\ [SemNext]_semVars => SemInv'
<1>1. SUFFICES ASSUME SemInv, [SemNext]_semVars PROVE SemInv'
  OBVIOUS
<1>2. CASE UNCHANGED semVars
  BY <1>1, <1>2 DEF semVars, SemInv, QueueOK, UnitsConserved, Holders
<1>3. CASE SemNext
  <2>1. PICK t \in Users : Wait(t) \/ Resume(t) \/ Signal(t)
    BY <1>3 DEF SemNext
  <2>2. CASE Wait(t)
    <3>1. at[t] = "out" /\ (WaitTakes(t) \/ WaitBlocks(t) \/ WaitPanics(t))
      BY <2>2 DEF Wait
    <3>2. Len(waiters) < MaxWaiters /\ Len(waiters) \in Nat
      <4>1. waiters \in Seq(Users)
        BY <1>1, Zenon DEF SemInv, QueueOK
      <4>2. Len(waiters) < MaxWaiters
        BY <1>1, <3>1, RoomForWaiter, Zenon
      <4>. QED  BY <4>1, <4>2
    <3>3. ~WaitPanics(t)
      BY <3>2, WaitersAssumption DEF WaitPanics
    <3>. QED  BY <1>1, <3>1, <3>3, TakeStep, BlockStep
  <2>. QED  BY <1>1, <2>1, <2>2, ResumeStep, SignalStep
<1>. QED  BY <1>1, <1>2, <1>3

\* The inductive invariant holds in every reachable state.
THEOREM SemInvariance == SemSpec => []SemInv
BY SemInitInv, SemStep, PTL DEF SemSpec

\* Semaphore::wait and signal neither lose a unit nor make one.
THEOREM UnitsAreConserved == SemSpec => []UnitsConserved
<1>1. SemInv => UnitsConserved  BY DEF SemInv
<1>. QED  BY <1>1, SemInvariance, PTL

\* Tty::lock admits as many tasks at a time as the semaphore has units.
THEOREM LockSerializes == SemSpec => []Serializes
<1>1. ASSUME SemInv PROVE Serializes
  <2>. DEFINE inside == {t \in Users : at[t] = "in"}
  <2>1. inside \subseteq Holders
    BY DEF Holders
  <2>2. Cardinality(inside) \in Nat /\ Cardinality(inside) <= Cardinality(Holders)
    BY <2>1, HoldersFinite, FS_Subset, FS_CardinalityType
  <2>. QED
    BY <1>1, <2>2, HoldersFinite, UnitsAssumption DEF SemInv, UnitsConserved, Serializes
<1>. QED  BY <1>1, SemInvariance, PTL

\* Semaphore::wait never finds waiters_ full.
THEOREM WaitersFit == SemSpec => []NeverPanics
<1>1. SemInv => NeverPanics  BY DEF SemInv, NeverPanics
<1>. QED  BY <1>1, SemInvariance, PTL

\* The units that are counted never exceed initialCount.
THEOREM SemTypes == SemSpec => []SemTypeOK
<1>1. ASSUME SemInv PROVE SemTypeOK
  <2>1. count \in 0 .. Units
    BY <1>1, HoldersFinite, UnitsAssumption DEF SemInv, UnitsConserved
  <2>2. waiters \in Seq(Users)
    BY <1>1 DEF SemInv, QueueOK
  <2>3. at \in [Users -> {"out", "blocked", "woken", "in", "dead"}]
    BY <1>1 DEF SemInv
  <2>4. panicked \in BOOLEAN
    BY <1>1, Zenon DEF SemInv
  <2>. QED  BY <2>1, <2>2, <2>3, <2>4, Zenon DEF SemTypeOK
<1>. QED  BY <1>1, SemInvariance, PTL

\* Semaphore::signal wakes the task that has waited for longest.
THEOREM SignalWakesLongest == SemSpec => WakesLongest
<1>. DEFINE Longest ==
       \A t \in Users : Signal(t) =>
         \A i \in 1 .. Len(waiters) :
           /\ at[waiters[i]] = "blocked"
           /\ \A j \in 1 .. i - 1 : at[waiters[j]] # "blocked"
           => at'[waiters[i]] = "woken"
<1>1. ASSUME SemInv PROVE Longest
  <2>1. SUFFICES ASSUME NEW t \in Users, Signal(t), NEW i \in 1 .. Len(waiters),
                        \A j \in 1 .. i - 1 : at[waiters[j]] # "blocked"
                 PROVE  at'[waiters[i]] = "woken"
    OBVIOUS
  <2>2. /\ waiters \in Seq(Users) /\ Len(waiters) \in Nat /\ waiters # << >>
        /\ at[waiters[1]] = "blocked" /\ at[t] = "in"
    BY <1>1, <2>1 DEF SemInv, QueueOK, Signal
  <2>3. i = 1
    BY <2>1, <2>2
  <2>4. Head(waiters) = waiters[1] /\ waiters[1] \in Users
    BY <2>2
  <2>5. at' = Unblocked([at EXCEPT ![t] = "out"], waiters[1])
    BY <2>1, <2>2, <2>4 DEF Signal
  <2>. QED  BY <1>1, <2>2, <2>3, <2>4, <2>5 DEF Unblocked, SemInv
<1>2. SemInv /\ [SemNext]_semVars => [Longest]_semVars
  BY <1>1
<1>. HIDE DEF Longest
<1>3. SemSpec => [][Longest]_semVars
  BY <1>2, SemInvariance, PTL DEF SemSpec
<1>. QED  BY <1>3 DEF Longest, WakesLongest

-----------------------------------------------------------------------------
(* The disturbed semaphore.                                                *)

\* WaitersKnown with the types is inductive: only signal() takes entries out
\* of waiters_, and it unblocks the task whose entry it takes.
DInv ==
  /\ count \in Nat
  /\ waiters \in Seq(Users)
  /\ at \in [Users -> {"out", "blocked", "woken", "in", "dead"}]
  /\ WaitersKnown

\* signal() keeps every other BLOCKED task in waiters_.
LEMMA SignalKnows ==
  ASSUME DInv, NEW t \in Users, Signal(t)
  PROVE  DInv'
<1>1. CASE waiters = << >>
  BY <1>1 DEF DInv, WaitersKnown, Signal
<1>2. CASE waiters # << >>
  <2>1. /\ Len(waiters) \in Nat \ {0} /\ Head(waiters) = waiters[1]
        /\ waiters[1] \in Users
        /\ waiters' = Tail(waiters) /\ waiters' \in Seq(Users)
        /\ Len(waiters') = Len(waiters) - 1
        /\ \A i \in 1 .. Len(waiters') : waiters'[i] = waiters[i + 1]
    <3>1. waiters \in Seq(Users) /\ waiters' = Tail(waiters)
      BY <1>2 DEF DInv, Signal
    <3>2. Len(waiters) \in Nat \ {0} /\ Head(waiters) = waiters[1] /\ waiters[1] \in Users
      BY <1>2, <3>1
    <3>3. Tail(waiters) \in Seq(Users) /\ Len(Tail(waiters)) = Len(waiters) - 1
          /\ \A i \in 1 .. Len(Tail(waiters)) : Tail(waiters)[i] = waiters[i + 1]
      BY <1>2, <3>1
    <3>. QED  BY <3>1, <3>2, <3>3
  <2>2. count' = count /\ count = 0
    BY <1>2 DEF DInv, WaitersKnown, Signal
  <2>3. at' = Unblocked([at EXCEPT ![t] = "out"], waiters[1])
    BY <1>2, <2>1 DEF Signal
  <2>4. /\ at' \in [Users -> {"out", "blocked", "woken", "in", "dead"}]
        /\ \A u \in Users : at'[u] = "blocked" => at[u] = "blocked" /\ u # waiters[1]
    BY <2>1, <2>3 DEF Unblocked, DInv
  <2>5. ASSUME NEW u \in Users, at'[u] = "blocked"
        PROVE  \E i \in 1 .. Len(waiters') : waiters'[i] = u
    <3>1. PICK k \in 1 .. Len(waiters) : waiters[k] = u
      BY <2>4, <2>5 DEF DInv, WaitersKnown
    <3>2. k - 1 \in 1 .. Len(waiters')
      BY <2>1, <2>4, <2>5, <3>1
    <3>3. waiters'[k - 1] = u
      BY <2>1, <3>1, <3>2
    <3>. QED  BY <3>2, <3>3
  <2>. QED  BY <2>1, <2>2, <2>4, <2>5 DEF DInv, WaitersKnown
<1>. QED  BY <1>1, <1>2

\* wait() blocks its caller only as a waiter.
LEMMA BlockKnows ==
  ASSUME DInv, NEW t \in Users, WaitBlocks(t)
  PROVE  DInv'
<1>1. /\ waiters' \in Seq(Users) /\ Len(waiters) \in Nat
      /\ Len(waiters') = Len(waiters) + 1
      /\ \A i \in 1 .. Len(waiters) : waiters'[i] = waiters[i]
      /\ waiters'[Len(waiters) + 1] = t
  BY DEF DInv, WaitBlocks
<1>2. ASSUME NEW u \in Users, at'[u] = "blocked"
      PROVE  \E i \in 1 .. Len(waiters') : waiters'[i] = u
  <2>1. CASE u = t
    BY <1>1, <2>1
  <2>2. CASE u # t
    <3>1. PICK k \in 1 .. Len(waiters) : waiters[k] = u
      BY <1>2, <2>2 DEF DInv, WaitersKnown, WaitBlocks
    <3>. QED  BY <1>1, <3>1
  <2>. QED  BY <2>1, <2>2
<1>. QED  BY <1>1, <1>2 DEF DInv, WaitersKnown, WaitBlocks

\* Signals, kills and reused slots block nobody, and leave waiters_ alone.
LEMMA DisturbedStep == DInv /\ [DisturbedNext]_semVars => DInv'
<1>1. SUFFICES ASSUME DInv, [DisturbedNext]_semVars PROVE DInv'
  OBVIOUS
<1>2. CASE UNCHANGED semVars
  BY <1>1, <1>2 DEF semVars, DInv, WaitersKnown
<1>3. ASSUME NEW t \in Users, Wait(t) PROVE DInv'
  <2>1. CASE WaitTakes(t)
    BY <1>1, <2>1 DEF WaitTakes, DInv, WaitersKnown
  <2>2. CASE WaitPanics(t)
    BY <1>1, <2>2 DEF WaitPanics, DInv, WaitersKnown
  <2>. QED  BY <1>1, <1>3, <2>1, <2>2, BlockKnows DEF Wait
<1>4. ASSUME NEW t \in Users, Resume(t) \/ SendSignal(t) \/ Kill(t) \/ Reuse(t)
      PROVE  DInv'
  BY <1>1, <1>4 DEF Resume, SendSignal, Kill, Reuse, Unblocked, DInv, WaitersKnown
<1>. QED
  BY <1>1, <1>2, <1>3, <1>4, SignalKnows DEF DisturbedNext, SemNext

\* Whatever sendSignal, killTask and fork do to its waiters, Semaphore::signal
\* will come to every task that is BLOCKED in wait().
THEOREM BlockedAreWaiters == DisturbedSpec => []WaitersKnown
<1>1. SemInit => DInv
  BY UnitsAssumption DEF SemInit, DInv, WaitersKnown
<1>2. DInv => WaitersKnown
  BY DEF DInv
<1>. QED  BY <1>1, <1>2, DisturbedStep, PTL DEF DisturbedSpec
=============================================================================
