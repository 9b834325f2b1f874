------------------------------- MODULE Console -------------------------------
(***************************************************************************)
(* The tasks that share the terminal: one that prints and scrolls (the     *)
(* shell with the line editor of the kernel, Kbd.cc and Syscall.cc), the   *)
(* game, which saves the screen, draws and restores it (IOCTL_SAVESCREEN,  *)
(* IOCTL_PUT, IOCTL_RESTORESCREEN), and the taskbar (Taskbar.cc).          *)
(*                                                                         *)
(* The functions of the terminal hold its semaphore from their first to    *)
(* their last access, so each is one step, taken when the semaphore is     *)
(* free; puts, with its loop, is a step for each character, and holds it   *)
(* throughout.  What is read without it, and the operations that take it   *)
(* twice, are steps of their own.  SYS_WRITE is the exception: putc holds  *)
(* the semaphore when it calls scrollbackExit, which waits for it again.   *)
(***************************************************************************)
EXTENDS Terminal

CONSTANTS
  Texts,     \* what printf and puts are called with, sequences of characters
  MaxOps     \* bound: the operations of each task, a function

Tasks == {"shell", "game", "bar"}

\* Texts are made of what the terminal can print, and there is something to
\* draw with.
ASSUME ConsoleAssumption ==
  /\ Texts \subseteq Seq(Chars \cup {"LF", "CR", "BS"})
  /\ MaxOps \in [Tasks -> Nat]
  /\ \E ch \in Chars : ch # " "

VARIABLES
  tty,       \* the terminal's record
  holder,    \* who holds the semaphore between two steps: "none" or "shell"
  pc,        \* where a task is between two steps of an operation
  text,      \* what puts has still to print
  arg,       \* the shell's argument of scrollbackShow, computed before the lock
  savedVga,  \* Syscall.cc's savedVgaBuf_, savedCursorRow_ and savedCursorCol_
  suppressed,\* the game has suppressed the taskbar
  ops,       \* operations begun, per task
  gone,      \* history: the lines that scrolled off, oldest first
  screen,    \* history: the rows of the screen, without the view
  spoiled,   \* history: the screen was written to while the view was open
  late       \* history: writes of the taskbar since it was suppressed

vars == <<tty, holder, pc, text, arg, savedVga, suppressed, ops, gone, screen, spoiled, late>>

Rows(vga) == [r \in 0 .. ROWS - 1 |-> vga[r]]

Init ==
  /\ tty = EmptyTerminal /\ holder = "none"
  /\ pc = [k \in Tasks |-> "idle"] /\ text = << >> /\ arg = 0
  /\ savedVga = [vga |-> EmptyTerminal.vga, row |-> 0, col |-> 0]
  /\ suppressed = FALSE /\ ops = [k \in Tasks |-> 0]
  /\ gone = << >> /\ screen = Rows(tty.vga) /\ spoiled = FALSE /\ late = 0

\* The semaphore is free.
Unlocked == holder = "none"

\* Task k begins an operation, and is at p after its first step.
Begins(k, p) ==
  /\ pc[k] = "idle" /\ ops[k] < MaxOps[k]
  /\ pc' = [pc EXCEPT ![k] = p] /\ ops' = [ops EXCEPT ![k] = @ + 1]

Continues(k, from, to) ==
  /\ pc[k] = from
  /\ pc' = [pc EXCEPT ![k] = to] /\ UNCHANGED ops

\* Does character ch make the screen scroll?
ScrollsOff(ch) ==
  /\ tty.row = ROWS - 1
  /\ ch = "LF" \/ (ch \notin {"LF", "CR", "BS"} /\ tty.col = VGA_WIDTH - 1)

\* The line that character ch makes scroll off, if any, is kept.
Scrolls(ch) == IF ScrollsOff(ch) THEN Append(gone, tty.vga[0]) ELSE gone

\* The terminal is t after the screen was written to.
Written(t) ==
  /\ tty' = t
  /\ spoiled' = (spoiled \/ tty.active)
  /\ screen' = Rows(t.vga)

-----------------------------------------------------------------------------
(* The shell, and the kernel's line editor on its behalf.                  *)

\* puts, which the kernel's printf calls, takes the semaphore ...
Puts(str) ==
  /\ Unlocked /\ Begins("shell", "puts")
  /\ holder' = "shell" /\ text' = str
  /\ UNCHANGED <<tty, arg, savedVga, suppressed, gone, screen, spoiled, late>>

\* ... and rawPuts prints one character after the other: the view stays open.
RawPutsChar ==
  /\ pc["shell"] = "puts" /\ text # << >>
  /\ Written(Emit(tty, Head(text))) /\ gone' = Scrolls(Head(text))
  /\ text' = Tail(text)
  /\ UNCHANGED <<holder, pc, arg, savedVga, suppressed, ops, late>>

PutsReturn ==
  /\ pc["shell"] = "puts" /\ text = << >>
  /\ pc' = [pc EXCEPT !["shell"] = "idle"] /\ holder' = "none"
  /\ UNCHANGED <<tty, text, arg, savedVga, suppressed, ops, gone, screen, spoiled, late>>

\* SYS_WRITE: putc takes the semaphore and, with the view open, waits for it in
\* scrollbackExit: nobody signals it any more.
Putc(ch) ==
  /\ Unlocked /\ Begins("shell", IF tty.active THEN "stuck" ELSE "idle")
  /\ IF tty.active
       THEN holder' = "shell" /\ UNCHANGED <<tty, spoiled, screen, gone>>
       ELSE Written(Emit(tty, ch)) /\ gone' = Scrolls(ch) /\ UNCHANGED holder
  /\ UNCHANGED <<text, arg, savedVga, suppressed, late>>

\* IOCTL_CLEAR.
Clear ==
  /\ Unlocked /\ Begins("shell", "idle")
  /\ Written(Cls(tty))
  /\ UNCHANGED <<holder, text, arg, savedVga, suppressed, gone, late>>

\* A key of the view: the offset is computed without the semaphore ...
Scroll(key) ==
  /\ Wanted(tty, key) >= 0
  /\ Begins("shell", "scroll")
  /\ arg' = Wanted(tty, key)
  /\ UNCHANGED <<tty, holder, text, savedVga, suppressed, gone, screen, spoiled, late>>

\* ... and used with it.
ScrollLocked ==
  /\ Unlocked /\ Continues("shell", "scroll", "idle")
  /\ tty' = Scrolled(tty, arg) /\ arg' = 0
  /\ UNCHANGED <<holder, text, savedVga, suppressed, gone, screen, spoiled, late>>

-----------------------------------------------------------------------------
(* The game.                                                               *)

\* sys_suppressTaskbar, at its start.
Suppress ==
  /\ ~suppressed /\ Begins("game", "suppressed")
  /\ suppressed' = TRUE /\ late' = 0
  /\ UNCHANGED <<tty, holder, text, arg, savedVga, gone, screen, spoiled>>

\* IOCTL_SAVESCREEN: the cursor and the screen are read under two locks.
SaveCursor ==
  /\ Unlocked /\ Continues("game", "suppressed", "save")
  /\ savedVga' = [savedVga EXCEPT !.row = tty.row, !.col = tty.col]
  /\ UNCHANGED <<tty, holder, text, arg, suppressed, gone, screen, spoiled, late>>

SaveScreen ==
  /\ Unlocked /\ Continues("game", "save", "drawing")
  /\ savedVga' = [savedVga EXCEPT !.vga = tty.vga]
  /\ UNCHANGED <<tty, holder, text, arg, suppressed, gone, screen, spoiled, late>>

\* IOCTL_PUT.
Put(r, c, ch) ==
  /\ ops["game"] < MaxOps["game"]
  /\ pc["game"] = "drawing" /\ Unlocked
  /\ ops' = [ops EXCEPT !["game"] = @ + 1]
  /\ Written([tty EXCEPT !.vga[r][c] = ch])
  /\ UNCHANGED <<holder, pc, text, arg, savedVga, suppressed, gone, late>>

\* IOCTL_RESTORESCREEN: the screen, and then the cursor under another lock.
RestoreScreen ==
  /\ Unlocked /\ Continues("game", "drawing", "restore")
  /\ Written([tty EXCEPT !.vga = savedVga.vga])
  /\ UNCHANGED <<holder, text, arg, savedVga, suppressed, gone, late>>

RestoreCursor ==
  /\ Unlocked /\ Continues("game", "restore", "restored")
  /\ tty' = [tty EXCEPT !.row = savedVga.row, !.col = savedVga.col]
  /\ UNCHANGED <<holder, text, arg, savedVga, suppressed, gone, screen, spoiled, late>>

\* sys_exit: a dead task suppresses nothing.
Exit ==
  /\ Continues("game", "restored", "idle")
  /\ suppressed' = FALSE
  /\ UNCHANGED <<tty, holder, text, arg, savedVga, gone, screen, spoiled, late>>

-----------------------------------------------------------------------------
(* The taskbar.                                                            *)

\* Mutant: the taskbar does not ask.
BarChecks_Unasked ==
  /\ pc["bar"] = "idle" /\ ops["bar"] < MaxOps["bar"]
  /\ pc' = [pc EXCEPT !["bar"] = "checked"]
  /\ UNCHANGED <<tty, holder, text, arg, savedVga, suppressed, ops, gone, screen, spoiled, late>>

\* isTaskbarSuppressed is asked without the semaphore ...
BarChecks ==
  /\ pc["bar"] = "idle" /\ ~suppressed /\ ops["bar"] < MaxOps["bar"]
  /\ pc' = [pc EXCEPT !["bar"] = "checked"]
  /\ UNCHANGED <<tty, holder, text, arg, savedVga, suppressed, ops, gone, screen, spoiled, late>>

\* ... before the row is written with it.
BarWrites ==
  /\ pc["bar"] = "checked" /\ Unlocked /\ ops["bar"] < MaxOps["bar"]
  /\ pc' = [pc EXCEPT !["bar"] = "idle"] /\ ops' = [ops EXCEPT !["bar"] = @ + 1]
  /\ tty' = [tty EXCEPT !.vga[ROWS] = [c \in Cols |-> "status"]]
  /\ late' = IF suppressed THEN late + 1 ELSE late
  /\ UNCHANGED <<holder, text, arg, savedVga, suppressed, gone, screen, spoiled>>

Next ==
  \/ \E str \in Texts : Puts(str)
  \/ RawPutsChar \/ PutsReturn
  \/ \E ch \in Chars : Putc(ch)
  \/ \E key \in {"PageUp", "Home", "LineUp", "LineDown", "PageDown", "End"} : Scroll(key)
  \/ Clear \/ ScrollLocked
  \/ \E r \in {0, ROWS} : Put(r, 0, CHOOSE ch \in Chars : ch # " ")
  \/ Suppress \/ SaveCursor \/ SaveScreen \/ RestoreScreen \/ RestoreCursor \/ Exit
  \/ BarChecks \/ BarWrites

Spec == Init /\ [][Next]_vars

-----------------------------------------------------------------------------
(* Properties.                                                             *)

\* The cursor is on the screen and outside of the taskbar's row, the ring's
\* indices are in range, and an open view has an offset among the saved lines.
TypeOK ==
  /\ TerminalTypeOK(tty) /\ holder \in {"none", "shell"}
  /\ spoiled \in BOOLEAN /\ suppressed \in BOOLEAN /\ late \in Nat
  /\ screen \in [0 .. ROWS - 1 -> Line] /\ gone \in Seq(Line)

\* The ring of advRow is the end of the text: the lines that it gives back,
\* newest first, are the ones that scrolled off last, as many as fit.
RingIsHistory ==
  /\ TypeOK
  /\ tty.count = Min({Len(gone), SCROLLBACK_LINES})
  /\ \A n \in 1 .. tty.count : ScrollbackLine(tty, n) = gone[Len(gone) - n + 1]

\* An open view is a window on the text: below the status are lines that
\* scrolled off one after the other, ending offset lines from the end, and none
\* is left out while rows are empty (scrollbackShow's top and bottom).
ViewIsWindow ==
  tty.active /\ ~spoiled =>
    LET lines == Min({SCROLLBACK_VIEW_HEIGHT, tty.count})
    IN /\ \A r \in 1 .. lines :
            LET n == Len(gone) - tty.offset + 1 - (lines - r)
            IN n \in DOMAIN gone /\ tty.vga[r] = gone[n]
       /\ \A r \in lines + 1 .. ROWS - 1 : tty.vga[r] = Blank

\* Looking back loses nothing: what is under the view, and on the screen when
\* it closes, is what the tasks wrote (scrollbackShow's copy, scrollbackExit's).
ViewKeepsScreen ==
  ~spoiled => screen = IF tty.active THEN tty.saved ELSE Rows(tty.vga)

\* After the game has suppressed the taskbar, the row is written at most once
\* more, by the taskbar that had asked before (taskbarMain).
OneLateWrite == suppressed => late <= 1
=============================================================================
