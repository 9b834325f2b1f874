------------------------------- MODULE Keyboard -------------------------------
(***************************************************************************)
(* The keyboard driver (kernel/arch/i386/Kbd.cc, kernel/kernel/Keymap.cc)  *)
(* and the system calls that read from it (handleReadLine, handleRead and  *)
(* IOCTL_POLL_KEY of kernel/kernel/Syscall.cc).  The interrupt handler     *)
(* fills a ring of characters and the counters of the navigation keys;     *)
(* one task empties them, and edits a line that it echoes to the terminal. *)
(*                                                                         *)
(* The handler runs between any two steps of the task, also between the    *)
(* load and the store of a counter that the task decrements.               *)
(***************************************************************************)
EXTENDS Terminal

CONSTANTS
  BUF_SIZE, HISTORY_MAX,
  MaxLen,     \* the size of the buffer that is passed to SYS_READ_LINE
  Bytes,      \* what the keyboard sends, [code, release] records
  Letters,    \* the codes of letters
  Histories,  \* bound: the histories that a run starts with
  Held,       \* bound: the modifier keys that a run may start with
  MaxBytes    \* bound: bytes sent

NoChar == "none"

\* What toText returns.
Texts ==
  {NoChar, "LF", "BS"} \cup Letters
    \cup {"^" \o k : k \in Letters} \cup {"upper " \o k : k \in Letters}

\* Entry i of a history h, from the newest one.
Entry(h, i) == h.buf[(h.head - i + HISTORY_MAX) % HISTORY_MAX]

\* No entry twice in a row, and no empty one, all around the ring.
NoRepeats(h) ==
  \A i \in 1 .. h.count : Entry(h, i) # << >> /\ (i < h.count => Entry(h, i) # Entry(h, i + 1))

ASSUME KeyboardAssumption ==
  /\ BUF_SIZE \in Nat \ {0} /\ HISTORY_MAX \in Nat \ {0} /\ MaxLen \in Nat \ {0, 1}
  /\ VGA_WIDTH > 2 /\ {">", "?", "^", "C"} \subseteq Chars
  /\ \A h \in Histories :
       /\ DOMAIN h = {"buf", "count", "head", "pos"}
       /\ h.buf \in [0 .. HISTORY_MAX - 1 -> Seq(Texts)]
       /\ h.count \in 0 .. HISTORY_MAX /\ h.head \in 0 .. HISTORY_MAX - 1 /\ h.pos = -1
       /\ NoRepeats(h)

VARIABLES
  buffer, head, tail,
  avail,      \* the count of the semaphore available_
  mods,       \* [shift, ctrl, alt, caps]
  extended,   \* the last byte was E0
  pending,    \* the counters of the navigation keys
  phase,      \* "idle", "line" in readLine, "stuck" in putc
  load,       \* a counter the task has loaded and not yet stored, or NoLoad
  line, pos,  \* readLine's
  hist,       \* [buf, count, head, pos], the task's history
  tty,        \* the terminal
  sent,       \* bytes so far
  typed,      \* history: the characters pushed
  pressed,    \* history: presses of the navigation keys
  handled,    \* history: the ones that were handled
  clean       \* history: this prompt began an empty row, and the line stayed in it

vars == <<buffer, head, tail, avail, mods, extended, pending, phase, load, line, pos, hist, tty,
          sent, typed, pressed, handled, clean>>
ring == <<buffer, head, tail, avail, typed>>
editor == <<line, pos, hist, tty, clean>>
nav == <<pending, load, pressed, handled>>
bytes == <<mods, extended, sent>>

NavOrder == <<"Up", "Down", "Left", "Right", "PageUp", "PageDown", "Home", "End">>
Nav == Range(NavOrder)
NoLoad == <<"none", 0>>

\* rawPuts, which nobody interrupts here.
RawPuts(t, str) ==
  LET after[i \in 0 .. Len(str)] == IF i = 0 THEN t ELSE Emit(after[i - 1], str[i])
  IN after[Len(str)]

Init ==
  /\ buffer = [i \in 0 .. BUF_SIZE - 1 |-> NoChar] /\ head = 0 /\ tail = 0 /\ avail = 0
  /\ mods \in {[shift |-> "shift" \in h, ctrl |-> "ctrl" \in h, alt |-> FALSE,
                caps |-> "caps" \in h] : h \in Held}
  /\ extended = FALSE /\ pending = [k \in Nav |-> 0]
  /\ phase = "idle" /\ load = NoLoad /\ line = << >> /\ pos = 0
  /\ hist \in Histories
  /\ tty = RawPuts(EmptyTerminal, [i \in 1 .. ROWS |-> "LF"])
  /\ sent = 0 /\ typed = << >>
  /\ pressed = [k \in Nav |-> 0] /\ handled = [k \in Nav |-> 0]
  /\ clean = TRUE

-----------------------------------------------------------------------------
(* The interrupt handler.                                                  *)

\* lookupScancode: the codes of the navigation keys are those of the keypad
\* without the prefix, and those of letters, Enter and the like are unknown
\* with it.
Lookup(code, ext) ==
  CASE code \in Nav -> IF ext THEN code ELSE "Keypad"
    [] code \in {"ctrl", "alt"} -> code
    [] OTHER -> IF ext THEN "Unknown" ELSE code

\* toText: a letter, its upper case or its control character.
ToText(key) ==
  CASE key \in Letters /\ mods.ctrl -> "^" \o key
    [] key \in Letters /\ ~mods.ctrl -> IF mods.shift # mods.caps THEN "upper " \o key ELSE key
    [] key \in {"LF", "BS"} /\ ~mods.ctrl -> key
    [] OTHER -> NoChar

\* Mutant: the semaphore is signalled only for the first character.
PushChar_Once(ch) ==
  /\ buffer' = [buffer EXCEPT ![head % BUF_SIZE] = ch] /\ head' = head + 1
  /\ avail' = IF head = tail THEN avail + 1 ELSE avail
  /\ typed' = Append(typed, ch) /\ UNCHANGED tail

\* Mutant: the index is used after it was incremented.
PushChar_Ahead(ch) ==
  /\ buffer' = [buffer EXCEPT ![(head + 1) % BUF_SIZE] = ch] /\ head' = head + 1
  /\ avail' = avail + 1
  /\ typed' = Append(typed, ch) /\ UNCHANGED tail

\* pushChar, whether or not the ring has room.
PushChar(ch) ==
  /\ buffer' = [buffer EXCEPT ![head % BUF_SIZE] = ch] /\ head' = head + 1
  /\ avail' = avail + 1
  /\ typed' = Append(typed, ch) /\ UNCHANGED tail

\* processScancode for a navigation key; Shift makes Home an End.
PressNav(key) ==
  LET k == IF key = "Home" /\ mods.shift THEN "End" ELSE key
  IN pending' = [pending EXCEPT ![k] = @ + 1] /\ pressed' = [pressed EXCEPT ![k] = @ + 1]

ProcessScancode(code, release, ext) ==
  LET key == Lookup(code, ext)
      text == ToText(key)
  IN CASE key = "caps" -> /\ mods' = [mods EXCEPT !.caps = IF release THEN @ ELSE ~@]
                          /\ UNCHANGED <<pending, pressed, ring>>
       [] key \in {"shift", "ctrl", "alt"} -> /\ mods' = [mods EXCEPT ![key] = ~release]
                                              /\ UNCHANGED <<pending, pressed, ring>>
       [] key \in Nav -> /\ IF release THEN UNCHANGED <<pending, pressed>> ELSE PressNav(key)
                         /\ UNCHANGED <<mods, ring>>
       [] OTHER -> /\ IF release \/ text = NoChar THEN UNCHANGED ring ELSE PushChar(text)
                   /\ UNCHANGED <<mods, pending, pressed>>

IsrHandler(b) ==
  /\ sent < MaxBytes /\ sent' = sent + 1
  /\ IF b.code = "E0"
       THEN extended' = TRUE /\ UNCHANGED <<mods, pending, pressed, ring>>
       ELSE extended' = FALSE /\ ProcessScancode(b.code, b.release, extended)
  /\ UNCHANGED <<phase, load, handled, editor>>

-----------------------------------------------------------------------------
(* The line editor: what each key makes of a record of line, pos and       *)
(* history, and what it prints.                                            *)

Rep(ch, n) == [i \in 1 .. n |-> ch]
From(s, p) == SubSeq(s, p + 1, Len(s))

\* How the terminal shows a character.
Glyph(s) == [i \in DOMAIN s |-> IF s[i] \in Chars THEN s[i] ELSE "?"]

\* Mutant: the cursor ends up behind what was printed.
LineDelete_Off(e, p) ==
  LET new == SubSeq(e.line, 1, p) \o From(e.line, p + 1)
  IN [e EXCEPT !.line = new,
               !.out = @ \o Glyph(From(new, p)) \o <<" ">> \o Rep("BS", Len(new) - p)]

\* deleteAt.
LineDelete(e, p) ==
  LET new == SubSeq(e.line, 1, p) \o From(e.line, p + 1)
  IN [e EXCEPT !.line = new,
               !.out = @ \o Glyph(From(new, p)) \o <<" ">> \o Rep("BS", Len(e.line) - p)]

\* insertAt and the step of the cursor after it.
LineInsert(e, p, ch) ==
  LET new == SubSeq(e.line, 1, p) \o <<ch>> \o From(e.line, p)
  IN [e EXCEPT !.line = new, !.pos = p + 1,
               !.out = Glyph(From(new, p)) \o Rep("BS", Len(new) - (p + 1))]

\* redrawLine, with the line as it is now.
RedrawLine(e, new, cursor) ==
  LET most == Max({Len(new), Len(e.line)})
  IN [e EXCEPT !.line = new, !.pos = cursor,
               !.out = <<"CR", ">", " ">> \o Glyph(new) \o Rep(" ", most - Len(new))
                          \o Rep("BS", most - cursor)]

ClearRange(e, from) == RedrawLine(e, SubSeq(e.line, 1, from), from)

LoadHistory(e, i) == RedrawLine([e EXCEPT !.hist.pos = i], e.hist.buf[i], Len(e.hist.buf[i]))

HistoryUp(e) ==
  LET h == e.hist
      oldest == (h.head - h.count + HISTORY_MAX) % HISTORY_MAX
      newest == (h.head - 1 + HISTORY_MAX) % HISTORY_MAX
  IN IF h.pos = -1 THEN IF h.count = 0 THEN e ELSE LoadHistory(e, newest)
     ELSE IF h.pos = oldest THEN e
     ELSE LoadHistory(e, (h.pos - 1 + HISTORY_MAX) % HISTORY_MAX)

HistoryDown(e) ==
  IF e.hist.pos = -1 THEN e ELSE RedrawLine([e EXCEPT !.hist.pos = -1], << >>, 0)

Left(e) == IF e.pos > 0 THEN [e EXCEPT !.pos = @ - 1, !.out = <<"BS">>] ELSE e

Right(e) ==
  IF e.pos < Len(e.line)
    THEN [e EXCEPT !.pos = @ + 1, !.out = Glyph(<<e.line[e.pos + 1]>>)] ELSE e

\* The characters that do not end the line.
Edited(e, ch) ==
  CASE ch = "^p" -> HistoryUp(e)
    [] ch = "^n" -> HistoryDown(e)
    [] ch = "^a" -> [e EXCEPT !.pos = 0, !.out = Rep("BS", e.pos)]
    [] ch = "^e" -> [e EXCEPT !.pos = Len(e.line), !.out = Glyph(From(e.line, e.pos))]
    [] ch = "^b" -> Left(e)
    [] ch = "^f" -> Right(e)
    [] ch = "^d" -> IF e.pos < Len(e.line) THEN LineDelete(e, e.pos) ELSE e
    [] ch = "^k" -> IF e.pos < Len(e.line) THEN ClearRange(e, e.pos) ELSE e
    [] ch = "^u" -> IF e.line # << >> THEN ClearRange(e, 0) ELSE e
    [] ch = "BS" -> IF e.pos > 0
                      THEN LineDelete([e EXCEPT !.pos = @ - 1, !.out = <<"BS">>], e.pos - 1) ELSE e
    [] OTHER -> LineInsert(e, e.pos, ch)

Now == [line |-> line, pos |-> pos, hist |-> hist, out |-> << >>]

\* What is left of the editor's state after a key: the line is clean as long as
\* it fits into its row, and nothing was printed into an open view.
Becomes(e) ==
  /\ line' = e.line /\ pos' = e.pos /\ hist' = e.hist
  /\ tty' = RawPuts(tty, e.out)
  /\ clean' = (clean /\ Len(e.line) + 2 < VGA_WIDTH /\ (e.out = << >> \/ ~tty.active))

-----------------------------------------------------------------------------
(* readLine and its callers.                                               *)

\* The shell prints its prompt and calls SYS_READ_LINE.  With the view open
\* the prompt does not return (see Console).
Prompt ==
  /\ phase = "idle" /\ load = NoLoad
  /\ IF tty.active THEN phase' = "stuck" /\ UNCHANGED <<line, pos, tty, clean>>
     ELSE /\ phase' = "line" /\ line' = << >> /\ pos' = 0
          /\ tty' = RawPuts(tty, <<">", " ">>)
          /\ clean' = (tty.col = 0 /\ tty.vga[tty.row] = Blank)
  /\ UNCHANGED <<ring, bytes, nav, hist>>

\* The navigation keys come before the characters, the first one that is
\* pending in the order of the code.  The counter is loaded ...
NavLoad ==
  /\ phase \in {"idle", "line"} /\ load = NoLoad
  /\ \E i \in DOMAIN NavOrder :
       /\ pending[NavOrder[i]] > 0
       /\ \A j \in 1 .. i - 1 : pending[NavOrder[j]] = 0
       /\ load' = <<NavOrder[i], pending[NavOrder[i]]>>
  /\ UNCHANGED <<ring, bytes, phase, editor, pending, pressed, handled>>

\* What readLine does for a key, when the view is open and when it is not.
Navigate(k) ==
  LET key == CASE k = "Up" -> "LineUp" [] k = "Down" -> "LineDown" [] OTHER -> k
      scrolls == \/ k \in {"PageUp", "PageDown", "Home", "End"}
                 \/ tty.active /\ k \in {"Up", "Down"}
  IN IF scrolls
       THEN /\ tty' = IF Wanted(tty, key) < 0 THEN tty ELSE Scrolled(tty, Wanted(tty, key))
            /\ UNCHANGED <<line, pos, hist, clean>>
     ELSE Becomes(CASE k = "Up" -> HistoryUp(Now)
                    [] k = "Down" -> HistoryDown(Now)
                    [] k = "Left" -> IF tty.active THEN Now ELSE Left(Now)
                    [] k = "Right" -> IF tty.active THEN Now ELSE Right(Now))

\* Mutant: the key is counted off once more than it was pressed.
Stored_Kept(k, v) == [pending EXCEPT ![k] = v]

Stored(k, v) == [pending EXCEPT ![k] = v - 1]

\* ... and stored, and the key handled, by readLine or by the caller of
\* IOCTL_POLL_KEY.  Leaving the view clears all the counters.
NavStore ==
  /\ load # NoLoad
  /\ LET k == load[1]
     IN /\ load' = NoLoad
        /\ handled' = [handled EXCEPT ![k] = @ + 1]
        /\ IF phase = "line" THEN Navigate(k) ELSE UNCHANGED editor
        /\ IF tty.active /\ ~tty'.active
             THEN pending' = [n \in Nav |-> 0]
             ELSE pending' = Stored(k, load[2])
  /\ UNCHANGED <<ring, bytes, phase, pressed>>

NothingPending == load = NoLoad /\ \A k \in Nav : pending[k] = 0

\* getChar, or the last part of tryReadKey.
TakeChar == head # tail /\ tail' = tail + 1 /\ UNCHANGED <<buffer, head, avail, typed>>
Char == buffer[tail % BUF_SIZE]

ReadChar ==
  /\ phase = "line" /\ NothingPending /\ TakeChar
  /\ Char \notin {"LF", "^c"}
  /\ Becomes(Edited(Now, Char))
  /\ UNCHANGED <<bytes, nav, phase>>

\* Mutant: the line is compared with the entry that is about to be overwritten.
IsRepeat_Head(h, s) == h.count > 0 /\ s = h.buf[h.head]

IsRepeat(h, s) == h.count > 0 /\ s = h.buf[(h.head - 1 + HISTORY_MAX) % HISTORY_MAX]

\* The end of handleReadLine.
Remember(h, s) ==
  LET new == [h EXCEPT !.buf[h.head] = s, !.head = (@ + 1) % HISTORY_MAX,
                       !.count = Min({@ + 1, HISTORY_MAX})]
  IN [IF s = << >> \/ IsRepeat(h, s) THEN h ELSE new EXCEPT !.pos = -1]

\* Mutant: Enter on an empty line is skipped.
EndLine_SkipsEmpty ==
  /\ phase = "line" /\ NothingPending /\ TakeChar
  /\ Char \in {"LF", "^c"}
  /\ phase' = IF line = << >> THEN "line" ELSE "idle"
  /\ UNCHANGED <<bytes, nav, editor>>

\* Enter and Ctrl-C end the line; the caller gets what fits into its buffer.
EndLine ==
  /\ phase = "line" /\ NothingPending /\ TakeChar
  /\ Char \in {"LF", "^c"}
  /\ phase' = "idle"
  /\ LET s == IF Char = "LF" THEN line ELSE << >>
     IN line' = SubSeq(s, 1, Min({Len(s), MaxLen - 1})) /\ hist' = Remember(hist, s)
  /\ tty' = RawPuts(tty, IF Char = "LF" THEN <<"LF">> ELSE <<"^", "C", "LF">>)
  /\ UNCHANGED <<bytes, nav, pos, clean>>

\* IOCTL_POLL_KEY with a character to return.
PollChar ==
  /\ phase = "idle" /\ NothingPending /\ TakeChar
  /\ UNCHANGED <<bytes, nav, phase, editor>>

\* SYS_READ of up to n characters: waitForChar, and what there is, if anything.
Read(n) ==
  /\ phase = "idle" /\ load = NoLoad /\ avail > 0
  /\ avail' = avail - 1 /\ tail' = Min({tail + n, head})
  /\ UNCHANGED <<buffer, head, typed, bytes, nav, phase, editor>>

Reader == NavLoad \/ NavStore \/ ReadChar \/ EndLine

Next ==
  \/ \E b \in Bytes : IsrHandler(b)
  \/ Prompt \/ PollChar \/ Reader
  \/ \E n \in {1, 2} : Read(n)

Spec == Init /\ [][Next]_vars

\* The task has something to do: ENABLED Reader.
CanRead ==
  /\ phase \in {"idle", "line"}
  /\ ~NothingPending \/ (phase = "line" /\ head # tail)

\* The task polls, and the scheduler gives it the processor again and again:
\* WF_vars(Reader).
FairSpec == Spec /\ ([]<>~CanRead \/ []<><<Reader>>_vars)

-----------------------------------------------------------------------------
(* Properties.                                                             *)

\* The types of the driver's variables; the cursor of the line is within it.
TypeOK ==
  /\ head \in Nat /\ tail \in 0 .. head /\ avail \in Nat
  /\ pending \in [Nav -> Nat] /\ phase \in {"idle", "line", "stuck"}
  /\ load \in {NoLoad} \cup (Nav \X (Nat \ {0}))
  /\ phase = "line" => pos \in 0 .. Len(line)
  /\ hist.count \in 0 .. HISTORY_MAX /\ hist.head \in 0 .. HISTORY_MAX - 1
  /\ hist.pos \in {-1} \cup {(hist.head - i + HISTORY_MAX) % HISTORY_MAX : i \in 1 .. hist.count}
  /\ TerminalTypeOK(tty)

\* The ring gives the characters back in the order they were typed in: what is
\* between tail and head is the end of the text, as long as not more than
\* BUF_SIZE characters wait (pushChar does not look).
InOrder ==
  head - tail <= BUF_SIZE => \A i \in tail .. head - 1 : buffer[i % BUF_SIZE] = typed[i + 1]

\* No character waits unannounced: the semaphore counts at least the characters
\* in the ring, although readLine and tryReadKey take some without waiting, so
\* SYS_READ never blocks with a character there.
Announced == head - tail <= avail

\* What the user sees is what the program will get: at each moment of a line
\* that fits into its row, the row shows the prompt, the line and nothing else,
\* with the cursor on the character that pos says (deleteAt, insertAt,
\* redrawLine and the backspaces they print).
EchoAgrees ==
  /\ TypeOK
  /\ phase = "line" /\ clean /\ ~tty.active =>
       /\ tty.col = pos + 2
       /\ \A c \in Cols :
            tty.vga[tty.row][c] =
              CASE c = 0 -> ">" [] c = 1 -> " "
                [] c \in 2 .. Len(line) + 1 -> Glyph(line)[c - 1]
                [] OTHER -> " "

\* The history has no entry twice in a row, and no empty one, all around the
\* ring (handleReadLine).
HistoryDiffers == NoRepeats(hist)

\* A key that was not pressed is never handled, whenever the interrupt comes
\* between the load and the store of its counter.
NoPhantomKey == \A k \in Nav : handled[k] + pending[k] <= pressed[k]

\* Enter ends the line: once the keyboard is quiet, a line whose end is in the
\* ring is returned, whatever keys are still to be handled before it.
EnterReturns ==
  (/\ phase = "line" /\ sent = MaxBytes /\ head - tail <= BUF_SIZE
   /\ \E i \in tail + 1 .. head : typed[i] = "LF") ~> phase # "line"
=============================================================================
