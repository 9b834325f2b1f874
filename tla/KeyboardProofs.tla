---------------------------- MODULE KeyboardProofs ----------------------------
(***************************************************************************)
(* Proofs about module Keyboard, for rings, histories, lines and screens   *)
(* of any size and any number of keys: the ring and the counters of the    *)
(* navigation keys, the history, and, the longest part, the echo.          *)
(***************************************************************************)
EXTENDS Keyboard, TLAPS

\* A leaf that names no prover goes to the SMT solver, with time to spare.
USE SMTT(30)

\* The ring: the places that were written last hold the last characters typed,
\* also those that have been read.
RingInv ==
  /\ head \in Nat /\ tail \in 0 .. head /\ avail \in Nat
  /\ head - tail <= avail
  /\ typed \in Seq(Texts) /\ Len(typed) = head
  /\ DOMAIN buffer = 0 .. BUF_SIZE - 1
  /\ \A i \in 0 .. head - 1 :
       head - i <= BUF_SIZE => buffer[i % BUF_SIZE] = typed[i + 1]

\* The counters: what the task has loaded, and not stored yet, is not more than
\* what is there.
NavInv ==
  /\ pending \in [Nav -> Nat] /\ pressed \in [Nav -> Nat] /\ handled \in [Nav -> Nat]
  /\ load # NoLoad => load[1] \in Nav /\ load[2] \in 1 .. pending[load[1]]
  /\ NoPhantomKey

HistOK(h) ==
  /\ DOMAIN h = {"buf", "count", "head", "pos"} /\ DOMAIN h.buf = 0 .. HISTORY_MAX - 1
  /\ h.count \in 0 .. HISTORY_MAX /\ h.head \in 0 .. HISTORY_MAX - 1
  /\ NoRepeats(h)

HistInv == HistOK(hist)

\* A record of the line editor.
Editor(e) == DOMAIN e = {"line", "pos", "hist", "out"} /\ HistOK(e.hist)

-----------------------------------------------------------------------------
(* Arithmetic.                                                             *)

LEMMA MinOfTwo ==
  ASSUME NEW a \in Int, NEW b \in Int
  PROVE  Min({a, b}) = IF a <= b THEN a ELSE b
<1> DEFINE m == IF a <= b THEN a ELSE b
<1>1. m \in {a, b} /\ \A y \in {a, b} : m <= y
  OBVIOUS
<1>2. \A x \in {a, b} : (\A y \in {a, b} : x <= y) => x = m
  OBVIOUS
<1>. QED  BY <1>1, <1>2 DEF Min

LEMMA ModRange ==
  ASSUME NEW n \in Nat \ {0}, NEW a \in Int
  PROVE  a % n \in 0 .. n - 1
OBVIOUS

\* Two numbers less than n apart are in different places of a ring of n.
LEMMA ModApart ==
  ASSUME NEW n \in Nat \ {0}, NEW a \in Nat, NEW b \in Nat, a < b, b - a < n
  PROVE  a % n # b % n
<1>1. a \div n \in Int /\ b \div n \in Int /\ a % n \in Int /\ b % n \in Int
  OBVIOUS
<1>2. a % n = a - n * (a \div n)
  OBVIOUS
<1>3. b % n = b - n * (b \div n)
  OBVIOUS
<1> DEFINE d == (b \div n) - (a \div n)
<1>4. SUFFICES ASSUME a % n = b % n  PROVE FALSE
  OBVIOUS
<1>5. d \in Int /\ b - a = n * d
  BY <1>1, <1>2, <1>3, <1>4
<1> HIDE DEF d
<1>6. d >= 1
  BY <1>5
<1>7. n * d >= n
  BY <1>5, <1>6
<1>. QED  BY <1>5, <1>7

LEMMA ModBack ==
  ASSUME NEW n \in Nat \ {0}, NEW h \in 0 .. n - 1, NEW i \in 1 .. n
  PROVE  (h - i + n) % n = IF i <= h THEN h - i ELSE h - i + n
OBVIOUS

LEMMA ModNext ==
  ASSUME NEW n \in Nat \ {0}, NEW h \in 0 .. n - 1
  PROVE  (h + 1) % n = IF h + 1 = n THEN 0 ELSE h + 1
OBVIOUS

-----------------------------------------------------------------------------
(* The operators.                                                          *)

\* What an interrupt does to the ring and the counters.
LEMMA IsrEffect ==
  ASSUME NEW b \in Bytes, IsrHandler(b)
  PROVE  /\ UNCHANGED <<phase, load, handled, editor>>
         /\ \/ UNCHANGED <<ring, pending, pressed>>
            \/ \E ch \in Texts : PushChar(ch) /\ UNCHANGED <<pending, pressed>>
            \/ /\ UNCHANGED ring
               /\ \E k \in Nav : /\ pending' = [pending EXCEPT ![k] = @ + 1]
                                 /\ pressed' = [pressed EXCEPT ![k] = @ + 1]
<1>1. UNCHANGED <<phase, load, handled, editor>>
  BY DEF IsrHandler
<1>2. CASE b.code = "E0"
  BY <1>1, <1>2 DEF IsrHandler
<1>3. CASE b.code # "E0"
  <2>1. ProcessScancode(b.code, b.release, extended)
    BY <1>3 DEF IsrHandler
  <2> DEFINE key == Lookup(b.code, extended)
             text == ToText(key)
  <2>2. text \in Texts
    BY Zenon DEF ToText, Texts
  <2>3. "End" \in Nav
    <3>1. NavOrder[8] = "End" /\ 8 \in DOMAIN NavOrder
      BY DEF NavOrder
    <3>. QED  BY <3>1 DEF Nav, Range
  <2>4. \/ UNCHANGED <<ring, pending, pressed>>
        \/ PushChar(text) /\ UNCHANGED <<pending, pressed>>
        \/ key \in Nav /\ PressNav(key) /\ UNCHANGED ring
    <3> HIDE DEF key, text
    <3>0. key = Lookup(b.code, extended) /\ text = ToText(key)
      BY DEF key, text
    <3>1. CASE key = "caps"
      BY <2>1, <3>0, <3>1 DEF ProcessScancode
    <3>2. CASE key \in {"shift", "ctrl", "alt"}
      BY <2>1, <3>0, <3>2 DEF ProcessScancode
    <3>3. CASE key \in Nav
      BY <2>1, <3>0, <3>3 DEF ProcessScancode
    <3>4. CASE key \notin {"caps", "shift", "ctrl", "alt"} \cup Nav
      BY <2>1, <3>0, <3>4 DEF ProcessScancode
    <3>. QED  BY <3>1, <3>2, <3>3, <3>4
  <2> HIDE DEF key, text
  <2>5. CASE key \in Nav /\ PressNav(key) /\ UNCHANGED ring
    BY <1>1, <2>3, <2>5, Zenon DEF PressNav
  <2>. QED  BY <1>1, <2>2, <2>4, <2>5
<1>. QED  BY <1>2, <1>3

\* handleReadLine puts the line into the history, and no two that are the same
\* next to each other.
LEMMA RememberKeeps ==
  ASSUME NEW h, NEW s, HistOK(h)
  PROVE  HistOK(Remember(h, s))
<1> DEFINE H == HISTORY_MAX
           new == [h EXCEPT !.buf[h.head] = s, !.head = (@ + 1) % H,
                            !.count = Min({@ + 1, H})]
           r == Remember(h, s)
<1>0. H \in Nat \ {0} /\ h.head \in 0 .. H - 1 /\ h.count \in 0 .. H
  BY KeyboardAssumption DEF HistOK
<1>1. CASE s = << >> \/ IsRepeat(h, s)
  <2>1. r = [h EXCEPT !.pos = -1]
    BY <1>1 DEF Remember
  <2>2. DOMAIN r = DOMAIN h /\ r.buf = h.buf /\ r.count = h.count /\ r.head = h.head
    BY <2>1 DEF HistOK
  <2>. QED  BY <2>2 DEF HistOK, NoRepeats, Entry
<1>2. CASE s # << >> /\ ~IsRepeat(h, s)
  <2>1. r = [new EXCEPT !.pos = -1]
    BY <1>2, Zenon DEF Remember
  <2>2. /\ DOMAIN r = DOMAIN h /\ r.buf = [h.buf EXCEPT ![h.head] = s]
        /\ r.count = Min({h.count + 1, H}) /\ r.head = (h.head + 1) % H
    BY <2>1 DEF HistOK
  <2> HIDE DEF r, new
  <2>3. /\ r.count = IF h.count + 1 <= H THEN h.count + 1 ELSE H
        /\ r.head = IF h.head + 1 = H THEN 0 ELSE h.head + 1
    BY <1>0, <2>2, MinOfTwo, ModNext
  <2>4. /\ DOMAIN r.buf = 0 .. H - 1 /\ r.buf[h.head] = s
        /\ \A i \in 0 .. H - 1 : i # h.head => r.buf[i] = h.buf[i]
    BY <1>0, <2>2 DEF HistOK
  \* The new entry is the first one, and the others move up.
  <2>5. Entry(r, 1) = s
    <3>1. r.head \in 0 .. H - 1 /\ 1 \in 1 .. H
      BY <1>0, <2>3
    <3>2. (r.head - 1 + H) % H = IF 1 <= r.head THEN r.head - 1 ELSE r.head - 1 + H
      BY <1>0, <3>1, ModBack, Zenon
    <3>3. (r.head - 1 + H) % H = h.head
      BY <1>0, <2>3, <3>2
    <3>. QED  BY <2>4, <3>3 DEF Entry
  <2>6. ASSUME NEW i \in 2 .. r.count  PROVE Entry(r, i) = Entry(h, i - 1)
    <3>1. r.head \in 0 .. H - 1 /\ i \in 1 .. H /\ i - 1 \in 1 .. H /\ i - 1 < H
      BY <1>0, <2>3
    <3>2. (r.head - i + H) % H = IF i <= r.head THEN r.head - i ELSE r.head - i + H
      BY <1>0, <3>1, ModBack, Zenon
    <3> DEFINE j == i - 1
    <3>3. (h.head - j + H) % H = IF j <= h.head THEN h.head - j ELSE h.head - j + H
      <4>1. j \in 1 .. H
        BY <3>1
      <4> HIDE DEF j
      <4>. QED  BY <1>0, <4>1, ModBack, Zenon
    <3>4. /\ (r.head - i + H) % H = (h.head - j + H) % H
          /\ (r.head - i + H) % H \in 0 .. H - 1 /\ (r.head - i + H) % H # h.head
      BY <1>0, <2>3, <3>1, <3>2, <3>3
    <3>. QED  BY <2>4, <3>4 DEF Entry
  <2>7. ~(h.count > 0 /\ s = Entry(h, 1))
    BY <1>2 DEF IsRepeat, Entry
  <2>8. ASSUME NEW i \in 1 .. r.count
        PROVE  Entry(r, i) # << >> /\ (i < r.count => Entry(r, i) # Entry(r, i + 1))
    <3>1. CASE i = 1
      <4>1. Entry(r, 1) # << >>
        BY <1>2, <2>5
      <4>2. ASSUME 1 < r.count  PROVE Entry(r, 1) # Entry(r, 2)
        <5>1. h.count > 0 /\ 2 \in 2 .. r.count
          BY <1>0, <2>3, <4>2
        <5>2. Entry(r, 2) = Entry(h, 1)
          BY <2>6, <5>1
        <5>. QED  BY <2>5, <2>7, <5>1, <5>2
      <4>. QED  BY <3>1, <4>1, <4>2
    <3>2. CASE i # 1
      <4>1. i \in 2 .. r.count /\ i - 1 \in 1 .. h.count /\ (i - 1) + 1 = i
        BY <1>0, <2>3, <3>2
      <4>2. Entry(r, i) = Entry(h, i - 1) /\ Entry(h, i - 1) # << >>
        BY <2>6, <4>1 DEF HistOK, NoRepeats
      <4>3. ASSUME i < r.count  PROVE Entry(r, i) # Entry(r, i + 1)
        <5>1. i + 1 \in 2 .. r.count /\ i - 1 < h.count /\ (i + 1) - 1 = i
          BY <1>0, <2>3, <4>1, <4>3
        <5>2. Entry(r, i + 1) = Entry(h, i)
          BY <2>6, <5>1
        <5>3. Entry(h, i - 1) # Entry(h, i)
          BY <4>1, <5>1 DEF HistOK, NoRepeats
        <5>. QED  BY <4>2, <5>2, <5>3
      <4>. QED  BY <4>2, <4>3
    <3>. QED  BY <3>1, <3>2
  <2>9. r.count \in 0 .. H /\ r.head \in 0 .. H - 1
    BY <1>0, <2>3
  <2>. QED  BY <2>2, <2>4, <2>8, <2>9, Zenon DEF HistOK, NoRepeats, r
<1>. QED  BY <1>1, <1>2

\* No key of the line editor changes the entries of the history.
LEMMA PosKeeps ==
  ASSUME NEW e, Editor(e), NEW i
  PROVE  Editor([e EXCEPT !.hist.pos = i])
<1> DEFINE f == [e EXCEPT !.hist.pos = i]
<1>1. DOMAIN f = DOMAIN e /\ f.hist = [e.hist EXCEPT !.pos = i]
  BY DEF Editor
<1> HIDE DEF f
<1>2. /\ DOMAIN f.hist = DOMAIN e.hist /\ f.hist.buf = e.hist.buf
      /\ f.hist.count = e.hist.count /\ f.hist.head = e.hist.head
  BY <1>1 DEF Editor, HistOK
<1>. QED  BY <1>1, <1>2 DEF Editor, HistOK, NoRepeats, Entry, f

LEMMA RedrawKeeps ==
  ASSUME NEW e, Editor(e), NEW new, NEW cursor
  PROVE  Editor(RedrawLine(e, new, cursor))
BY DEF Editor, RedrawLine

LEMMA HistoryKeeps ==
  ASSUME NEW e, Editor(e)
  PROVE  Editor(HistoryUp(e)) /\ Editor(HistoryDown(e))
<1>1. ASSUME NEW i  PROVE Editor(LoadHistory(e, i))
  BY PosKeeps, RedrawKeeps DEF LoadHistory
<1>2. Editor(HistoryUp(e))
  BY <1>1 DEF HistoryUp
<1>3. Editor(HistoryDown(e))
  BY PosKeeps, RedrawKeeps, Zenon DEF HistoryDown
<1>. QED  BY <1>2, <1>3

LEMMA CursorKeeps ==
  ASSUME NEW e, Editor(e)
  PROVE  Editor(Left(e)) /\ Editor(Right(e))
BY DEF Editor, Left, Right

LEMMA EditedKeeps ==
  ASSUME NEW e, Editor(e), NEW ch
  PROVE  Editor(Edited(e, ch))
<1>1. Editor(HistoryUp(e)) /\ Editor(HistoryDown(e)) /\ Editor(Left(e)) /\ Editor(Right(e))
  BY HistoryKeeps, CursorKeeps
<1>2. Editor([e EXCEPT !.pos = 0, !.out = Rep("BS", e.pos)])
  BY DEF Editor
<1>3. Editor([e EXCEPT !.pos = Len(e.line), !.out = Glyph(From(e.line, e.pos))])
  BY DEF Editor
<1>4. ASSUME NEW f, Editor(f), NEW p  PROVE Editor(LineDelete(f, p))
  BY <1>4 DEF Editor, LineDelete
<1>5. ASSUME NEW p  PROVE Editor(ClearRange(e, p))
  BY RedrawKeeps DEF ClearRange
<1>6. Editor([e EXCEPT !.pos = @ - 1, !.out = <<"BS">>])
  BY DEF Editor
<1>7. Editor(LineInsert(e, e.pos, ch))
  BY DEF Editor, LineInsert
<1>8. Editor(LineDelete([e EXCEPT !.pos = @ - 1, !.out = <<"BS">>], e.pos - 1))
  BY <1>4, <1>6
<1>. QED  BY <1>1, <1>2, <1>3, <1>4, <1>5, <1>7, <1>8 DEF Edited

LEMMA BecomesKeeps ==
  ASSUME NEW e, Editor(e), Becomes(e)
  PROVE  HistInv'
BY DEF Becomes, Editor, HistInv

LEMMA NavigateKeeps ==
  ASSUME HistInv, NEW k \in Nav, Navigate(k)
  PROVE  HistInv'
<1>1. Editor(Now) /\ Editor(HistoryUp(Now)) /\ Editor(HistoryDown(Now))
      /\ Editor(Left(Now)) /\ Editor(Right(Now))
  <2>1. Editor(Now)
    BY DEF Editor, Now, HistInv
  <2>. QED  BY <2>1, HistoryKeeps, CursorKeeps
<1>2. CASE UNCHANGED hist
  BY <1>2 DEF HistInv
<1>3. CASE ~UNCHANGED hist
  <2>1. k \in {"Up", "Down", "Left", "Right", "PageUp", "PageDown", "Home", "End"}
    <3>1. DOMAIN NavOrder = 1 .. 8
      BY DEF NavOrder
    <3>2. PICK i \in 1 .. 8 : k = NavOrder[i]
      BY <3>1 DEF Nav, Range
    <3>. QED  BY <3>2 DEF NavOrder
  <2>2. PICK e \in {Now, HistoryUp(Now), HistoryDown(Now), Left(Now), Right(Now)} : Becomes(e)
    BY <1>3, <2>1 DEF Navigate
  <2>. QED  BY <1>1, <2>2, BecomesKeeps
<1>. QED  BY <1>2, <1>3

-----------------------------------------------------------------------------
(* The ring.                                                               *)

LEMMA RingInit == Init => RingInv
<1> SUFFICES ASSUME Init  PROVE RingInv
  OBVIOUS
<1>1. typed \in Seq(Texts) /\ Len(typed) = 0
  BY DEF Init
<1>. QED  BY <1>1, KeyboardAssumption DEF Init, RingInv

\* pushChar writes to a place that none of the last BUF_SIZE - 1 characters has.
LEMMA PushKeeps ==
  ASSUME RingInv, NEW ch \in Texts, PushChar(ch)
  PROVE  RingInv'
<1>0. BUF_SIZE \in Nat \ {0} /\ head \in Nat /\ tail \in 0 .. head /\ avail \in Nat
  BY KeyboardAssumption DEF RingInv
<1>1. /\ head' = head + 1 /\ tail' = tail /\ avail' = avail + 1 /\ typed' = Append(typed, ch)
      /\ buffer' = [buffer EXCEPT ![head % BUF_SIZE] = ch]
  BY DEF PushChar
<1>2. /\ typed' \in Seq(Texts) /\ Len(typed') = head + 1
      /\ typed'[head + 1] = ch
      /\ \A i \in 1 .. head : typed'[i] = typed[i]
  <2>1. typed \in Seq(Texts) /\ Len(typed) = head
    BY DEF RingInv
  <2>. QED  BY <1>0, <1>1, <2>1
<1>3. head % BUF_SIZE \in 0 .. BUF_SIZE - 1
  BY <1>0, ModRange
<1>4. /\ DOMAIN buffer' = 0 .. BUF_SIZE - 1
      /\ buffer'[head % BUF_SIZE] = ch
      /\ \A j \in 0 .. BUF_SIZE - 1 : j # head % BUF_SIZE => buffer'[j] = buffer[j]
  BY <1>1, <1>3 DEF RingInv
<1>5. ASSUME NEW i \in 0 .. head, head + 1 - i <= BUF_SIZE
      PROVE  buffer'[i % BUF_SIZE] = typed'[i + 1]
  <2>1. CASE i = head
    BY <1>2, <1>4, <2>1
  <2>2. CASE i # head
    <3>1. i \in 0 .. head - 1 /\ head - i < BUF_SIZE /\ i + 1 \in 1 .. head
      BY <1>0, <1>5, <2>2
    <3>2. i % BUF_SIZE \in 0 .. BUF_SIZE - 1
      BY <1>0, <3>1, ModRange
    <3>3. i % BUF_SIZE # head % BUF_SIZE
      <4>1. i \in Nat /\ i < head
        BY <1>0, <3>1
      <4>. QED  BY <1>0, <3>1, <4>1, ModApart, Zenon
    <3>4. buffer[i % BUF_SIZE] = typed[i + 1]
      BY <1>0, <3>1 DEF RingInv
    <3>. QED  BY <1>2, <1>4, <3>1, <3>2, <3>3, <3>4
  <2>. QED  BY <2>1, <2>2
<1>6. head' \in Nat /\ tail' \in 0 .. head' /\ avail' \in Nat /\ head' - tail' <= avail'
  BY <1>0, <1>1 DEF RingInv
<1>7. head' - 1 = head
  BY <1>0, <1>1
<1>. QED  BY <1>1, <1>2, <1>4, <1>5, <1>6, <1>7 DEF RingInv

LEMMA RingStep == RingInv /\ [Next]_vars => RingInv'
<1> SUFFICES ASSUME RingInv, [Next]_vars  PROVE RingInv'
  OBVIOUS
<1>1. ASSUME UNCHANGED ring  PROVE RingInv'
  BY <1>1 DEF ring, RingInv
<1>2. ASSUME TakeChar  PROVE RingInv'
  <2>1. /\ UNCHANGED <<buffer, head, avail, typed>> /\ tail' = tail + 1
        /\ head \in Nat /\ tail \in 0 .. head /\ head # tail /\ avail \in Nat
    BY <1>2 DEF TakeChar, RingInv
  <2>2. tail' \in 0 .. head /\ head - tail' <= avail
    BY <2>1 DEF RingInv
  <2>. QED  BY <2>1, <2>2 DEF RingInv
<1>3. ASSUME NEW b \in Bytes, IsrHandler(b)  PROVE RingInv'
  BY <1>1, <1>3, IsrEffect, PushKeeps
<1>4. CASE Prompt
  BY <1>1, <1>4, Zenon DEF Prompt
<1>5. CASE PollChar
  BY <1>2, <1>5 DEF PollChar
<1>6. CASE NavLoad
  BY <1>1, <1>6 DEF NavLoad
<1>7. CASE NavStore
  BY <1>1, <1>7 DEF NavStore
<1>8. CASE ReadChar
  BY <1>2, <1>8 DEF ReadChar
<1>9. CASE EndLine
  BY <1>2, <1>9 DEF EndLine
<1>10. ASSUME NEW n \in {1, 2}, Read(n)  PROVE RingInv'
  <2>1. /\ UNCHANGED <<buffer, head, typed>> /\ avail' = avail - 1 /\ avail > 0
        /\ tail' = Min({tail + n, head})
        /\ head \in Nat /\ tail \in 0 .. head /\ avail \in Nat
    BY <1>10 DEF Read, RingInv
  <2>2. tail' = IF tail + n <= head THEN tail + n ELSE head
    BY <2>1, MinOfTwo
  <2>3. tail' \in 0 .. head /\ avail' \in Nat /\ head - tail' <= avail'
    BY <2>1, <2>2 DEF RingInv
  <2>. QED  BY <2>1, <2>3 DEF RingInv
<1>11. CASE UNCHANGED vars
  BY <1>1, <1>11 DEF vars, ring
<1>. QED
  BY <1>3, <1>4, <1>5, <1>6, <1>7, <1>8, <1>9, <1>10, <1>11 DEF Next, Reader

LEMMA RingInvariant == Spec => []RingInv
BY RingInit, RingStep, PTL DEF Spec

\* Whatever is typed and read, by whichever system call, a ring that has not
\* overflowed gives the characters back in the order they were typed in.
THEOREM InOrderHolds == Spec => []InOrder
<1>1. RingInv => InOrder
  <2> SUFFICES ASSUME RingInv, head - tail <= BUF_SIZE, NEW i \in tail .. head - 1
               PROVE  buffer[i % BUF_SIZE] = typed[i + 1]
    BY DEF InOrder
  <2>1. i \in 0 .. head - 1 /\ head - i <= BUF_SIZE
    BY KeyboardAssumption DEF RingInv
  <2>. QED  BY <2>1 DEF RingInv
<1>. QED  BY <1>1, RingInvariant, PTL

\* No character waits unannounced, so SYS_READ never blocks with one there.
THEOREM AnnouncedHolds == Spec => []Announced
<1>1. RingInv => Announced
  BY DEF RingInv, Announced
<1>. QED  BY <1>1, RingInvariant, PTL

-----------------------------------------------------------------------------
(* The navigation keys.                                                    *)

LEMMA NavInit == Init => NavInv
BY DEF Init, NavInv, NoPhantomKey

LEMMA NavStep == NavInv /\ [Next]_vars => NavInv'
<1> SUFFICES ASSUME NavInv, [Next]_vars  PROVE NavInv'
  OBVIOUS
<1>1. ASSUME UNCHANGED nav  PROVE NavInv'
  BY <1>1 DEF nav, NavInv, NoPhantomKey
<1>2. ASSUME NEW b \in Bytes, IsrHandler(b)  PROVE NavInv'
  <2>1. UNCHANGED <<load, handled>>
    BY <1>2, IsrEffect
  <2>2. CASE UNCHANGED <<pending, pressed>>
    BY <1>1, <2>1, <2>2 DEF nav
  <2>3. CASE \E k \in Nav : /\ pending' = [pending EXCEPT ![k] = @ + 1]
                            /\ pressed' = [pressed EXCEPT ![k] = @ + 1]
    BY <2>1, <2>3 DEF NavInv, NoPhantomKey
  <2>. QED  BY <1>2, <2>2, <2>3, IsrEffect
<1>3. CASE Prompt
  BY <1>1, <1>3, Zenon DEF Prompt
<1>4. CASE PollChar
  BY <1>1, <1>4 DEF PollChar
<1>5. CASE NavLoad
  <2>1. /\ UNCHANGED <<pending, pressed, handled>>
        /\ \E k \in Nav : pending[k] > 0 /\ load' = <<k, pending[k]>>
    BY <1>5 DEF NavLoad, Nav, Range
  <2>. QED  BY <2>1 DEF NavInv, NoPhantomKey
<1>6. CASE NavStore
  <2> DEFINE k == load[1]
  <2>1. /\ k \in Nav /\ load[2] \in 1 .. pending[k] /\ load' = NoLoad
        /\ handled' = [handled EXCEPT ![k] = @ + 1] /\ UNCHANGED pressed
        /\ \/ pending' = [n \in Nav |-> 0]
           \/ pending' = [pending EXCEPT ![k] = load[2] - 1]
    BY <1>6 DEF NavStore, NavInv, Stored
  <2> HIDE DEF k
  <2>2. pending' \in [Nav -> Nat] /\ handled' \in [Nav -> Nat] /\ pressed' \in [Nav -> Nat]
    BY <2>1 DEF NavInv
  <2>3. ASSUME NEW n \in Nav  PROVE handled'[n] + pending'[n] <= pressed'[n]
    <3>1. /\ handled[n] \in Nat /\ pending[n] \in Nat /\ pressed[n] \in Nat
          /\ handled[n] + pending[n] <= pressed[n]
      BY DEF NavInv, NoPhantomKey
    <3>2. CASE n = k
      <4>1. handled'[n] = handled[n] + 1 /\ pending'[n] + 1 <= pending[n] /\ pending'[n] \in Nat
        BY <2>1, <3>1, <3>2 DEF NavInv
      <4>. QED  BY <2>1, <3>1, <4>1
    <3>3. CASE n # k
      <4>1. handled'[n] = handled[n] /\ pending'[n] <= pending[n] /\ pending'[n] \in Nat
        BY <2>1, <3>1, <3>3 DEF NavInv
      <4>. QED  BY <2>1, <3>1, <4>1
    <3>. QED  BY <3>2, <3>3
  <2>. QED  BY <2>1, <2>2, <2>3 DEF NavInv, NoPhantomKey
<1>7. CASE ReadChar
  BY <1>1, <1>7 DEF ReadChar
<1>8. CASE EndLine
  BY <1>1, <1>8 DEF EndLine
<1>9. ASSUME NEW n \in {1, 2}, Read(n)  PROVE NavInv'
  BY <1>1, <1>9 DEF Read
<1>10. CASE UNCHANGED vars
  BY <1>1, <1>10 DEF vars, nav
<1>. QED
  BY <1>2, <1>3, <1>4, <1>5, <1>6, <1>7, <1>8, <1>9, <1>10 DEF Next, Reader

LEMMA NavInvariant == Spec => []NavInv
BY NavInit, NavStep, PTL DEF Spec

\* No navigation key is handled more often than it was pressed, wherever between
\* the load and the store of a counter the interrupt comes.
THEOREM NoPhantomKeyHolds == Spec => []NoPhantomKey
<1>1. NavInv => NoPhantomKey
  BY DEF NavInv
<1>. QED  BY <1>1, NavInvariant, PTL

-----------------------------------------------------------------------------
(* The history.                                                            *)

LEMMA HistInit == Init => HistInv
BY KeyboardAssumption DEF Init, HistInv, HistOK

LEMMA HistStep == NavInv /\ HistInv /\ [Next]_vars => HistInv'
<1> SUFFICES ASSUME NavInv, HistInv, [Next]_vars  PROVE HistInv'
  OBVIOUS
<1>1. ASSUME UNCHANGED hist  PROVE HistInv'
  BY <1>1 DEF HistInv
<1>2. ASSUME NEW b \in Bytes, IsrHandler(b)  PROVE HistInv'
  BY <1>1, <1>2 DEF IsrHandler, editor
<1>3. CASE Prompt
  BY <1>1, <1>3, Zenon DEF Prompt
<1>4. CASE PollChar
  BY <1>1, <1>4 DEF PollChar, editor
<1>5. CASE NavLoad
  BY <1>1, <1>5 DEF NavLoad, editor
<1>6. CASE NavStore
  BY <1>1, <1>6, NavigateKeeps DEF NavStore, editor, NavInv
<1>7. CASE ReadChar
  <2>1. Editor(Now)
    BY DEF Editor, Now, HistInv
  <2>. QED  BY <1>7, <2>1, EditedKeeps, BecomesKeeps DEF ReadChar
<1>8. CASE EndLine
  <2>1. PICK s : hist' = Remember(hist, s)
    BY <1>8 DEF EndLine
  <2>. QED  BY <2>1, RememberKeeps DEF HistInv
<1>9. ASSUME NEW n \in {1, 2}, Read(n)  PROVE HistInv'
  BY <1>1, <1>9 DEF Read, editor
<1>10. CASE UNCHANGED vars
  BY <1>1, <1>10 DEF vars
<1>. QED
  BY <1>2, <1>3, <1>4, <1>5, <1>6, <1>7, <1>8, <1>9, <1>10 DEF Next, Reader

\* The history never has the same line twice in a row, or an empty one, for a
\* ring of any size and however often it has gone around.
THEOREM HistoryDiffersHolds == Spec => []HistoryDiffers
<1>1. HistInv => HistoryDiffers
  BY DEF HistInv, HistOK, HistoryDiffers
<1>. QED  BY <1>1, HistInit, HistStep, NavInvariant, PTL DEF Spec

-----------------------------------------------------------------------------
(* The echo.  The inductive invariant, of the terminal's types, ...        *)

Control == {"LF", "CR", "BS"}
Screens == [0 .. ROWS -> Line]
Lines == [0 .. ROWS - 1 -> Line]

Terminals ==
  [vga : Screens, row : 0 .. ROWS - 1, col : Cols,
   buf : [0 .. SCROLLBACK_LINES - 1 -> Line], head : 0 .. SCROLLBACK_LINES - 1,
   count : 0 .. SCROLLBACK_LINES,
   active : BOOLEAN, offset : Nat, saved : Lines, shown : BOOLEAN]

ViewOK(t) == (t.active => t.offset \in 1 .. t.count) /\ (~t.active => t.offset = 0)

\* ... of the history: the place that Up goes on from is the one of an entry, ...
HistTyped(h) ==
  /\ HistOK(h) /\ h.buf \in [0 .. HISTORY_MAX - 1 -> Seq(Texts)]
  /\ h.pos = -1 \/ \E i \in 1 .. h.count : h.pos = (h.head - i + HISTORY_MAX) % HISTORY_MAX

\* ... and of the row: it shows the prompt and the line s, with the cursor on p,
\* and it does so under the scrollback view as well.
Cell(s, c) ==
  IF c = 0 THEN ">" ELSE IF c = 1 THEN " " ELSE IF c <= Len(s) + 1 THEN Glyph(s)[c - 1] ELSE " "
Shows(row, s) == \A c \in Cols : row[c] = Cell(s, c)
EchoOn(t, row, s, p) == Len(s) + 2 < VGA_WIDTH /\ t.col = p + 2 /\ Shows(row, s)

EchoInv ==
  /\ tty \in Terminals /\ ViewOK(tty) /\ clean \in BOOLEAN
  /\ buffer \in [0 .. BUF_SIZE - 1 -> Texts] /\ phase \in {"idle", "line", "stuck"}
  /\ line \in Seq(Texts) /\ HistTyped(hist)
  /\ phase = "line" => pos \in 0 .. Len(line)
  /\ phase = "line" /\ clean => EchoOn(tty, Under(tty)[tty.row], line, pos)

-----------------------------------------------------------------------------
(* rawPuts prints one character after the other.                           *)

\* Induction up to n.  It is proved at the end of the module, from the library's
\* theorem that the naturals are well-founded; what uses it before assumes it.
Induction ==
  \A n \in Nat : \A S :
    0 \in S /\ (\A i \in 1 .. n : i - 1 \in S => i \in S) => 0 .. n \subseteq S

LEMMA UpTo ==
  ASSUME Induction, NEW n \in Nat, NEW S, 0 \in S,
         \A i \in 1 .. n : i - 1 \in S => i \in S
  PROVE  0 .. n \subseteq S
BY Zenon DEF Induction

\* f is the terminal after each of the characters of str.
Prints(f, t, str) ==
  f[0] = t /\ \A i \in 1 .. Len(str) : f[i] = Emit(f[i - 1], str[i])

\* There is such a function, and rawPuts returns its last value.
LEMMA RawPutsPrints ==
  ASSUME Induction, NEW t, NEW str, Len(str) \in Nat
  PROVE  \E f : Prints(f, t, str) /\ RawPuts(t, str) = f[Len(str)]
<1> DEFINE L == Len(str)
           F(f, n) == f = [i \in 0 .. n |-> IF i = 0 THEN t ELSE Emit(f[i - 1], str[i])]
           S == {n \in Nat : \E f : F(f, n)}
<1>1. 0 \in S
  <2>1. F([i \in 0 .. 0 |-> t], 0)
    OBVIOUS
  <2>. QED  BY <2>1, Zenon
<1>2. ASSUME NEW n \in 1 .. L, n - 1 \in S PROVE n \in S
  <2>0. n \in Nat /\ n # 0
    OBVIOUS
  <2>1. PICK f : F(f, n - 1)
    BY <1>2
  <2> DEFINE g == [i \in 0 .. n |-> IF i = n THEN Emit(f[n - 1], str[n]) ELSE f[i]]
  <2>2. ASSUME NEW i \in 0 .. n
        PROVE  g[i] = IF i = 0 THEN t ELSE Emit(g[i - 1], str[i])
    <3>1. CASE i = n
      <4>1. n - 1 \in 0 .. n /\ n \in 0 .. n /\ n - 1 # n /\ n # 0
        BY <2>0
      <4>2. g[n - 1] = f[n - 1] /\ g[n] = Emit(f[n - 1], str[n])
        BY <4>1, Zenon
      <4>. QED  BY <3>1, <4>1, <4>2, Zenon
    <3>2. CASE i = 0
      <4>1. 0 \in 0 .. n /\ 0 # n /\ 0 \in 0 .. n - 1
        BY <2>0
      <4>. QED  BY <2>1, <3>2, <4>1, Zenon
    <3>3. CASE i # n /\ i # 0
      <4>1. i \in 0 .. n - 1 /\ i - 1 \in 0 .. n /\ i - 1 # n
        BY <2>0, <3>3
      <4>2. g[i] = f[i] /\ g[i - 1] = f[i - 1]
        BY <3>3, <4>1, Zenon
      <4>3. f[i] = Emit(f[i - 1], str[i])
        BY <2>1, <3>3, <4>1, Zenon
      <4>. QED  BY <3>3, <4>2, <4>3, Zenon
    <3>. QED  BY <3>1, <3>2, <3>3, Zenon
  <2>3. F(g, n)
    <3>1. g = [i \in 0 .. n |-> g[i]]
      BY Zenon
    <3> HIDE DEF g
    <3>. QED  BY <2>2, <3>1, Zenon
  <2>. QED  BY <2>0, <2>3, Zenon
<1>3. 0 .. L \subseteq S
  <2> HIDE DEF S
  <2>. QED  BY <1>1, <1>2, UpTo, Zenon
<1>4. PICK f : F(f, L)
  <2>1. L \in 0 .. L
    OBVIOUS
  <2>. QED  BY <1>3, <2>1, Zenon
<1> DEFINE after == CHOOSE g : F(g, L)
<1>5. F(after, L)
  BY <1>4, Zenon
<1>6. RawPuts(t, str) = after[L]
  BY Zenon DEF RawPuts
<1>7. 0 \in 0 .. L /\ \A i \in 1 .. L : i \in 0 .. L /\ i # 0
  OBVIOUS
<1> HIDE DEF after
<1>8. Prints(after, t, str)
  BY <1>5, <1>7, Zenon DEF Prints
<1>. QED  BY <1>6, <1>8, Zenon

LEMMA RawPutsIs ==
  ASSUME Induction, NEW t, NEW str, Len(str) \in Nat, NEW f, Prints(f, t, str)
  PROVE  RawPuts(t, str) = f[Len(str)]
<1>1. PICK g : Prints(g, t, str) /\ RawPuts(t, str) = g[Len(str)]
  BY RawPutsPrints, Zenon
<1> DEFINE S == {i \in Nat : f[i] = g[i]}
<1>2. 0 \in S
  BY <1>1 DEF Prints
<1>3. ASSUME NEW i \in 1 .. Len(str), i - 1 \in S PROVE i \in S
  <2>1. i \in Nat /\ f[i - 1] = g[i - 1]
    BY <1>3
  <2>. QED  BY <1>1, <2>1, Zenon DEF Prints
<1>4. 0 .. Len(str) \subseteq S
  <2> HIDE DEF S
  <2>. QED  BY <1>2, <1>3, UpTo, Zenon
<1>5. Len(str) \in S
  BY <1>4
<1>. QED  BY <1>1, <1>5

LEMMA RawPutsNothing ==
  ASSUME Induction, NEW t
  PROVE  RawPuts(t, << >>) = t
<1>1. PICK f : f = [i \in {0} |-> t]
  BY Zenon
<1>2. Len(<< >>) = 0 /\ f[0] = t
  BY <1>1
<1>3. Prints(f, t, << >>)
  BY <1>2 DEF Prints
<1>. QED  BY <1>2, <1>3, RawPutsIs

LEMMA RawPutsChar ==
  ASSUME Induction, NEW t, NEW ch
  PROVE  RawPuts(t, <<ch>>) = Emit(t, ch)
<1>1. PICK f : f = [i \in {0, 1} |-> IF i = 0 THEN t ELSE Emit(t, ch)]
  BY Zenon
<1>2. Len(<<ch>>) = 1 /\ f[0] = t /\ f[1] = Emit(t, ch) /\ <<ch>>[1] = ch
  BY <1>1
<1>3. Prints(f, t, <<ch>>)
  <2>1. \A i \in 1 .. 1 : i = 1 /\ i - 1 = 0
    OBVIOUS
  <2>. QED  BY <1>2, <2>1 DEF Prints
<1>4. Len(<<ch>>) \in Nat
  BY <1>2
<1>5. RawPuts(t, <<ch>>) = f[Len(<<ch>>)]
  BY <1>3, <1>4, RawPutsIs, Zenon
<1>. QED  BY <1>2, <1>5

LEMMA RawPutsConcat ==
  ASSUME Induction, NEW t, NEW X, NEW a \in Seq(X), NEW b \in Seq(X)
  PROVE  RawPuts(t, a \o b) = RawPuts(RawPuts(t, a), b)
<1>1. PICK s \in Seq(X) :
        /\ s = a \o b /\ Len(s) = Len(a) + Len(b) /\ Len(a) \in Nat /\ Len(b) \in Nat
        /\ \A i \in 1 .. Len(a) : s[i] = a[i]
        /\ \A i \in 1 .. Len(b) : s[Len(a) + i] = b[i]
  <2>1. /\ a \o b \in Seq(X) /\ Len(a \o b) = Len(a) + Len(b) /\ Len(a) \in Nat /\ Len(b) \in Nat
        /\ \A i \in 1 .. Len(a) : (a \o b)[i] = a[i]
        /\ \A i \in 1 .. Len(b) : (a \o b)[Len(a) + i] = b[i]
    OBVIOUS
  <2>. QED  BY <2>1, Zenon
<1>2. Len(s) \in Nat
  BY <1>1
<1>3. PICK h : Prints(h, t, s) /\ RawPuts(t, s) = h[Len(s)]
  BY <1>2, RawPutsPrints, Zenon
<1>4. Prints(h, t, a)
  <2>1. \A i \in 1 .. Len(a) : i \in 1 .. Len(s)
    BY <1>1
  <2>. QED  BY <1>1, <1>3, <2>1, Zenon DEF Prints
<1>5. RawPuts(t, a) = h[Len(a)]
  BY <1>1, <1>4, RawPutsIs, Zenon
<1>6. PICK g : g = [i \in 0 .. Len(b) |-> h[Len(a) + i]]
  BY Zenon
<1>7. /\ g[0] = h[Len(a)] /\ g[Len(b)] = h[Len(s)]
      /\ \A i \in 1 .. Len(b) : g[i] = h[Len(a) + i] /\ g[i - 1] = h[Len(a) + i - 1]
  BY <1>1, <1>6
<1>8. ASSUME NEW i \in 1 .. Len(b) PROVE g[i] = Emit(g[i - 1], b[i])
  <2>1. PICK j \in 1 .. Len(s) : j = Len(a) + i
    BY <1>1
  <2>2. h[j] = Emit(h[j - 1], s[j])
    BY <1>3, Zenon DEF Prints
  <2>. QED  BY <1>1, <1>7, <2>1, <2>2
<1>9. Prints(g, h[Len(a)], b)
  BY <1>7, <1>8, Zenon DEF Prints
<1>10. RawPuts(h[Len(a)], b) = g[Len(b)]
  <2>1. Len(b) \in Nat
    BY <1>1
  <2>. QED  BY <1>9, <2>1, RawPutsIs, Zenon
<1>. QED  BY <1>1, <1>3, <1>5, <1>7, <1>10

-----------------------------------------------------------------------------
(* What printing leaves alone.                                             *)

LEMMA Sizes ==
  /\ VGA_WIDTH \in Nat \ {0} /\ ROWS \in Nat \ {0, 1} /\ SCROLLBACK_LINES \in Nat \ {0}
  /\ ROWS - 1 \in Nat \ {0} /\ VGA_WIDTH > 2
<1>1. /\ VGA_WIDTH \in Nat \ {0} /\ ROWS \in Nat \ {0, 1} /\ SCROLLBACK_LINES \in Nat \ {0}
      /\ VGA_WIDTH > 2
  BY TerminalAssumption, KeyboardAssumption, Zenon
<1>. QED  BY <1>1

LEMMA Glyphs ==
  /\ " " \in Chars /\ Chars \cap Control = {} /\ {">", "?", "^", "C"} \subseteq Chars
BY TerminalAssumption, KeyboardAssumption, Zenon DEF Control

LEMMA FirstCol == 0 \in Cols
BY Sizes DEF Cols

\* The scrollback view of u is that of t, and its ring has no line less.
Grows(t, u) ==
  u.active = t.active /\ u.offset = t.offset /\ u.saved = t.saved /\ u.count >= t.count

LEMMA GrowsKeeps ==
  ASSUME NEW t \in Terminals, NEW u \in Terminals, Grows(t, u)
  PROVE  /\ ViewOK(t) => ViewOK(u)
         /\ \A v : Grows(u, v) /\ v \in Terminals => Grows(t, v)
<1>1. t.count \in Int /\ u.count \in Int
  BY Sizes DEF Terminals
<1>2. ASSUME NEW v, Grows(u, v), v \in Terminals PROVE Grows(t, v)
  <2>1. v.count \in Int
    BY <1>2, Sizes DEF Terminals
  <2>. QED  BY <1>1, <1>2, <2>1 DEF Grows
<1>3. ViewOK(t) => ViewOK(u)
  BY <1>1 DEF ViewOK, Grows, Terminals
<1>. QED  BY <1>2, <1>3, Zenon

LEMMA AdvRowKeeps ==
  ASSUME NEW t \in Terminals
  PROVE  AdvRow(t) \in Terminals /\ Grows(t, AdvRow(t))
<1>0. t.count \in Nat /\ t.row \in 0 .. ROWS - 1
  BY Sizes DEF Terminals
<1>1. CASE t.row + 1 < ROWS
  <2>1. AdvRow(t) = [t EXCEPT !.row = t.row + 1]
    BY <1>1 DEF AdvRow, Terminals
  <2>2. t.row + 1 \in 0 .. ROWS - 1
    BY <1>0, <1>1, Sizes
  <2>. QED  BY <1>0, <2>1, <2>2 DEF Terminals, Grows
<1>2. CASE ~(t.row + 1 < ROWS)
  <2>1. (t.head + 1) % SCROLLBACK_LINES \in 0 .. SCROLLBACK_LINES - 1
    <3>1. t.head + 1 \in Int
      BY Sizes DEF Terminals
    <3>. QED  BY <3>1, Sizes, ModRange, Zenon
  <2>2. [t.buf EXCEPT ![t.head] = t.vga[0]] \in [0 .. SCROLLBACK_LINES - 1 -> Line]
    <3>1. t.vga[0] \in Line
      BY Sizes DEF Terminals, Screens
    <3>. QED  BY <3>1 DEF Terminals
  <2>3. PICK n \in 0 .. SCROLLBACK_LINES :
          n = (IF t.count < SCROLLBACK_LINES THEN t.count + 1 ELSE t.count) /\ n >= t.count
    BY Sizes DEF Terminals
  <2>4. Shifted(t.vga) \in Screens
    <3>1. Blank \in Line
      BY Glyphs, Zenon DEF Blank, Line
    <3>. QED  BY <3>1, Sizes DEF Shifted, Screens, Terminals
  <2>5. ROWS - 1 \in 0 .. ROWS - 1
    BY Sizes
  <2>6. AdvRow(t) = [t EXCEPT !.buf = [t.buf EXCEPT ![t.head] = t.vga[0]],
                              !.head = (t.head + 1) % SCROLLBACK_LINES, !.count = n,
                              !.vga = Shifted(t.vga), !.row = ROWS - 1, !.col = 0]
    BY <1>2, <2>3 DEF AdvRow, Saved, Terminals
  <2>7. AdvRow(t) \in Terminals
    BY <2>1, <2>2, <2>4, <2>5, <2>6, FirstCol, Zenon DEF Terminals
  <2>. QED  BY <1>0, <2>3, <2>6, <2>7 DEF Grows, Terminals
<1>. QED  BY <1>1, <1>2

LEMMA AdvColKeeps ==
  ASSUME NEW t \in Terminals
  PROVE  AdvCol(t) \in Terminals /\ Grows(t, AdvCol(t))
<1>0. t.count \in Nat /\ t.col \in Cols
  BY Sizes DEF Terminals
<1>1. CASE t.col + 1 < VGA_WIDTH
  <2>1. AdvCol(t) = [t EXCEPT !.col = t.col + 1] /\ t.col + 1 \in Cols
    BY <1>0, <1>1, Sizes DEF AdvCol, Terminals, Cols
  <2>. QED  BY <1>0, <2>1 DEF Terminals, Grows
<1>2. CASE ~(t.col + 1 < VGA_WIDTH)
  <2>1. PICK u \in Terminals : u = [t EXCEPT !.col = 0]
    BY FirstCol, Zenon DEF Terminals
  <2>2. AdvCol(t) = AdvRow(u)
    BY <1>2, <2>1 DEF AdvCol
  <2>3. Grows(t, u)
    BY <1>0, <2>1 DEF Terminals, Grows
  <2>. QED  BY <2>2, <2>3, AdvRowKeeps, GrowsKeeps
<1>. QED  BY <1>1, <1>2

LEMMA DecColKeeps ==
  ASSUME NEW t \in Terminals
  PROVE  DecCol(t) \in Terminals /\ Grows(t, DecCol(t))
<1>0. t.count \in Nat /\ t.col \in Cols /\ t.row \in 0 .. ROWS - 1
  BY Sizes DEF Terminals
<1>1. CASE t.col > 0
  <2>1. DecCol(t) = [t EXCEPT !.col = t.col - 1] /\ t.col - 1 \in Cols
    BY <1>0, <1>1, Sizes DEF DecCol, Cols
  <2>. QED  BY <1>0, <2>1 DEF Terminals, Grows
<1>2. CASE ~(t.col > 0) /\ t.row > 0
  <2>1. /\ DecCol(t) = [t EXCEPT !.row = t.row - 1, !.col = VGA_WIDTH - 1]
        /\ t.row - 1 \in 0 .. ROWS - 1 /\ VGA_WIDTH - 1 \in Cols
    BY <1>0, <1>2, Sizes DEF DecCol, Cols
  <2>2. DecCol(t) \in Terminals
    BY <2>1, Zenon DEF Terminals
  <2>. QED  BY <1>0, <2>1, <2>2 DEF Terminals, Grows
<1>3. CASE ~(t.col > 0) /\ ~(t.row > 0)
  BY <1>0, <1>3 DEF DecCol, Grows
<1>. QED  BY <1>1, <1>2, <1>3

\* A character of u is written at the cursor.
LEMMA WriteKeeps ==
  ASSUME NEW t \in Terminals, NEW ch \in Chars
  PROVE  \E u \in Terminals :
           /\ u = [t EXCEPT !.vga[t.row][t.col] = ch] /\ Grows(t, u)
           /\ u.row = t.row /\ u.col = t.col
           /\ \A c \in Cols : u.vga[t.row][c] = IF c = t.col THEN ch ELSE t.vga[t.row][c]
<1>1. t.vga \in Screens /\ t.row \in 0 .. ROWS /\ t.col \in Cols /\ t.count \in Nat
  BY Sizes DEF Terminals
<1>2. PICK row \in Line : /\ row = [t.vga[t.row] EXCEPT ![t.col] = ch]
                          /\ \A c \in Cols : row[c] = IF c = t.col THEN ch ELSE t.vga[t.row][c]
  <2>1. t.vga[t.row] \in Line
    BY <1>1, Zenon DEF Screens
  <2>2. [t.vga[t.row] EXCEPT ![t.col] = ch] \in Line
    BY <1>1, <2>1 DEF Line
  <2>3. \A c \in Cols : [t.vga[t.row] EXCEPT ![t.col] = ch][c] = IF c = t.col THEN ch ELSE t.vga[t.row][c]
    BY <1>1, <2>1 DEF Line
  <2>. QED  BY <2>2, <2>3, Zenon
<1>3. PICK vga \in Screens : vga = [t.vga EXCEPT ![t.row] = row] /\ vga[t.row] = row
  <2>1. [t.vga EXCEPT ![t.row] = row] \in Screens /\ [t.vga EXCEPT ![t.row] = row][t.row] = row
    BY <1>1, Sizes DEF Screens
  <2>. QED  BY <2>1, Zenon
<1>4. PICK u \in Terminals : u = [t EXCEPT !.vga = vga]
  BY Zenon DEF Terminals
<1>5. u = [t EXCEPT !.vga[t.row][t.col] = ch]
  BY <1>2, <1>3, <1>4, Zenon
<1>6. u.row = t.row /\ u.col = t.col /\ u.vga[t.row] = row /\ Grows(t, u)
  BY <1>1, <1>3, <1>4 DEF Terminals, Grows
<1>7. \A c \in Cols : u.vga[t.row][c] = IF c = t.col THEN ch ELSE t.vga[t.row][c]
  BY <1>2, <1>6, Zenon
<1>. QED  BY <1>5, <1>6, <1>7, Zenon

LEMMA EmitKeeps ==
  ASSUME NEW t \in Terminals, NEW ch \in Chars \cup Control
  PROVE  Emit(t, ch) \in Terminals /\ Grows(t, Emit(t, ch))
<1>0. t.count \in Nat
  BY Sizes DEF Terminals
<1>1. CASE ch = "LF"
  <2>1. PICK u \in Terminals : u = AdvRow(t) /\ Grows(t, u)
    BY AdvRowKeeps
  <2>2. Emit(t, ch) = [u EXCEPT !.col = 0]
    BY <1>1, <2>1 DEF Emit
  <2>. QED  BY <2>1, <2>2, FirstCol DEF Terminals, Grows
<1>2. CASE ch = "CR"
  <2>1. Emit(t, ch) = [t EXCEPT !.col = 0]
    BY <1>2 DEF Emit
  <2>. QED  BY <1>0, <2>1, FirstCol DEF Terminals, Grows
<1>3. CASE ch = "BS"
  BY <1>3, DecColKeeps DEF Emit
<1>4. CASE ch \notin Control
  <2>1. PICK u \in Terminals : u = [t EXCEPT !.vga[t.row][t.col] = ch] /\ Grows(t, u)
    BY <1>4, WriteKeeps, Zenon
  <2>2. Emit(t, ch) = AdvCol(u)
    BY <1>4, <2>1 DEF Emit, Control
  <2>. QED  BY <2>1, <2>2, AdvColKeeps, GrowsKeeps
<1>. QED  BY <1>1, <1>2, <1>3, <1>4 DEF Control

\* rawPuts keeps the terminal's types and its view.
LEMMA RawPutsKeeps ==
  ASSUME Induction, NEW t \in Terminals, NEW str \in Seq(Chars \cup Control)
  PROVE  RawPuts(t, str) \in Terminals /\ Grows(t, RawPuts(t, str))
<1>1. Len(str) \in Nat /\ \A i \in 1 .. Len(str) : str[i] \in Chars \cup Control
  OBVIOUS
<1>2. PICK f : Prints(f, t, str) /\ RawPuts(t, str) = f[Len(str)]
  BY <1>1, RawPutsPrints, Zenon
<1> DEFINE S == {i \in Nat : f[i] \in Terminals /\ Grows(t, f[i])}
<1>3. 0 \in S
  <2>1. f[0] = t
    BY <1>2, Zenon DEF Prints
  <2>2. t.count \in Nat
    BY Sizes DEF Terminals
  <2>. QED  BY <2>1, <2>2 DEF Grows
<1>4. ASSUME NEW i \in 1 .. Len(str), i - 1 \in S PROVE i \in S
  <2>1. PICK u \in Terminals : u = f[i - 1] /\ Grows(t, u)
    BY <1>4
  <2>2. f[i] = Emit(u, str[i]) /\ str[i] \in Chars \cup Control
    BY <1>1, <1>2, <2>1, Zenon DEF Prints
  <2>3. Emit(u, str[i]) \in Terminals /\ Grows(u, Emit(u, str[i]))
    BY <2>2, EmitKeeps, Zenon
  <2>4. f[i] \in Terminals /\ Grows(t, f[i])
    BY <2>1, <2>2, <2>3, GrowsKeeps, Zenon
  <2>5. i \in Nat
    OBVIOUS
  <2>. QED  BY <2>4, <2>5, Zenon
<1>5. 0 .. Len(str) \subseteq S
  <2> HIDE DEF S
  <2>. QED  BY <1>1, <1>3, <1>4, UpTo, Zenon
<1>6. Len(str) \in S
  BY <1>1, <1>5
<1>. QED  BY <1>2, <1>6

-----------------------------------------------------------------------------
(* Printing within a row.                                                  *)

\* Row q is row r, with the characters of s from column c on.
Over(q, r, c, s) ==
  \A d \in Cols : q[d] = IF c <= d /\ d < c + Len(s) THEN s[d - c + 1] ELSE r[d]

\* u is t with s printed at the cursor, in one row.
Printed(t, u, s) ==
  /\ u.row = t.row /\ u.col = t.col + Len(s)
  /\ Over(u.vga[u.row], t.vga[t.row], t.col, s)

PrintedChar(t, u, ch) ==
  /\ u.row = t.row /\ u.col = t.col + 1
  /\ \A d \in Cols : u.vga[t.row][d] = IF d = t.col THEN ch ELSE t.vga[t.row][d]

LEMMA PrintChar ==
  ASSUME NEW t \in Terminals, NEW ch \in Chars, t.col + 1 < VGA_WIDTH
  PROVE  PrintedChar(t, Emit(t, ch), ch)
<1>1. PICK u \in Terminals :
        /\ u = [t EXCEPT !.vga[t.row][t.col] = ch] /\ u.row = t.row /\ u.col = t.col
        /\ \A c \in Cols : u.vga[t.row][c] = IF c = t.col THEN ch ELSE t.vga[t.row][c]
  BY WriteKeeps, Zenon
<1>2. ch # "LF" /\ ch # "CR" /\ ch # "BS"
  BY Glyphs, Zenon DEF Control
<1>3. Emit(t, ch) = AdvCol(u)
  BY <1>1, <1>2, Zenon DEF Emit
<1>4. AdvCol(u) = [u EXCEPT !.col = u.col + 1]
  BY <1>1, Zenon DEF AdvCol
<1>5. PICK v : v = [u EXCEPT !.col = u.col + 1]
  BY Zenon
<1>6. v.row = u.row /\ v.col = u.col + 1 /\ v.vga = u.vga
  BY <1>5 DEF Terminals
<1>7. Emit(t, ch) = v
  BY <1>3, <1>4, <1>5
<1>8. v.row = t.row /\ v.col = t.col + 1
  BY <1>1, <1>6
<1>9. \A c \in Cols : v.vga[t.row][c] = IF c = t.col THEN ch ELSE t.vga[t.row][c]
  BY <1>1, <1>6, Zenon
<1>. QED  BY <1>7, <1>8, <1>9, Zenon DEF PrintedChar

LEMMA PrintRow ==
  ASSUME Induction, NEW t \in Terminals, NEW s \in Seq(Chars), t.col + Len(s) < VGA_WIDTH
  PROVE  Printed(t, RawPuts(t, s), s)
<1>1. Len(s) \in Nat /\ \A i \in 1 .. Len(s) : s[i] \in Chars
  OBVIOUS
<1>2. PICK f : Prints(f, t, s) /\ RawPuts(t, s) = f[Len(s)]
  BY <1>1, RawPutsPrints, Zenon
<1>3. t.col \in Nat /\ VGA_WIDTH \in Nat /\ Cols = 0 .. VGA_WIDTH - 1
  BY Sizes DEF Terminals, Cols
<1> DEFINE Cut(i, d) == IF t.col <= d /\ d < t.col + i THEN s[d - t.col + 1] ELSE t.vga[t.row][d]
           P(i) == /\ f[i] \in Terminals /\ f[i].row = t.row /\ f[i].col = t.col + i
                   /\ \A d \in Cols : f[i].vga[t.row][d] = Cut(i, d)
           S == {i \in Nat : P(i)}
<1>4. 0 \in S
  <2>1. f[0] = t
    BY <1>2, Zenon DEF Prints
  <2>2. \A d \in Cols : Cut(0, d) = t.vga[t.row][d]
    BY <1>3
  <2>3. t.col = t.col + 0
    BY <1>3
  <2>4. P(0)
    BY <2>1, <2>2, <2>3, Zenon
  <2>. QED  BY <2>4
<1>5. ASSUME NEW i \in 1 .. Len(s), i - 1 \in S PROVE i \in S
  <2>0. i \in Nat /\ i - 1 \in Nat /\ s[i] \in Chars
    BY <1>1
  <2>1. PICK u \in Terminals : /\ u = f[i - 1] /\ u.row = t.row /\ u.col = t.col + (i - 1)
                               /\ \A d \in Cols : u.vga[t.row][d] = Cut(i - 1, d)
    BY <1>5, Zenon
  <2>2. f[i] = Emit(u, s[i])
    BY <1>2, <2>1, Zenon DEF Prints
  <2>3. u.col + 1 < VGA_WIDTH
    BY <1>1, <1>3, <2>1
  <2>4. PrintedChar(u, f[i], s[i])
    BY <2>0, <2>2, <2>3, PrintChar, Zenon
  <2>5. f[i] \in Terminals
    BY <2>0, <2>2, EmitKeeps, Zenon
  <2>6. u.col + 1 = t.col + i
    <3>1. u.col = t.col + (i - 1)
      BY <2>1, Zenon
    <3>. QED  BY <1>3, <2>0, <3>1
  <2>7. ASSUME NEW d \in Cols PROVE f[i].vga[t.row][d] = Cut(i, d)
    <3>1. f[i].vga[t.row][d] = IF d = t.col + (i - 1) THEN s[i] ELSE Cut(i - 1, d)
      <4>1. f[i].vga[u.row][d] = IF d = u.col THEN s[i] ELSE u.vga[u.row][d]
        BY <2>4, Zenon DEF PrintedChar
      <4>2. u.vga[t.row][d] = Cut(i - 1, d) /\ u.row = t.row /\ u.col = t.col + (i - 1)
        BY <2>1, Zenon
      <4> HIDE DEF Cut
      <4>. QED  BY <4>1, <4>2
    <3>2. d \in Nat
      BY <1>3
    <3>3. d = t.col + (i - 1) => s[i] = s[d - t.col + 1] /\ t.col <= d /\ d < t.col + i
      <4>1. d = t.col + (i - 1) => d - t.col + 1 = i
        BY <1>3, <2>0, <3>2
      <4>. QED  BY <1>3, <2>0, <3>2, <4>1
    <3>4. d # t.col + (i - 1) => (d < t.col + i <=> d < t.col + (i - 1))
      BY <1>3, <2>0, <3>2
    <3>. QED  BY <3>1, <3>3, <3>4, Zenon
  <2>8. P(i)
    BY <2>1, <2>4, <2>5, <2>6, <2>7, Zenon DEF PrintedChar
  <2>. QED  BY <2>0, <2>8, Zenon
<1>6. 0 .. Len(s) \subseteq S
  <2> HIDE DEF S
  <2>. QED  BY <1>1, <1>4, <1>5, UpTo, Zenon
<1>7. Len(s) \in 0 .. Len(s)
  BY <1>1
<1>8. P(Len(s))
  BY <1>6, <1>7, Zenon
<1>. QED  BY <1>2, <1>8, Zenon DEF Printed, Over

\* u is t with the cursor moved back by n columns.
Back(t, u, n) == u.row = t.row /\ u.col = t.col - n /\ u.vga = t.vga

LEMMA BackRow ==
  ASSUME Induction, NEW t \in Terminals, NEW n \in 0 .. t.col
  PROVE  Back(t, RawPuts(t, Rep("BS", n)), n)
<1>1. t.col \in Nat /\ n \in Nat /\ n <= t.col
  BY Sizes DEF Terminals, Cols
<1>2. PICK str : str = Rep("BS", n) /\ Len(str) = n /\ \A i \in 1 .. n : str[i] = "BS"
  <2>1. Rep("BS", n) \in Seq({"BS"}) /\ Len(Rep("BS", n)) = n
    BY <1>1 DEF Rep
  <2>2. \A i \in 1 .. n : Rep("BS", n)[i] = "BS"
    BY DEF Rep
  <2>. QED  BY <2>1, <2>2, Zenon
<1>3. PICK f : Prints(f, t, str) /\ RawPuts(t, str) = f[n]
  BY <1>1, <1>2, RawPutsPrints, Zenon
<1> DEFINE P(i) == f[i] \in Terminals /\ Back(t, f[i], i)
           S == {i \in Nat : P(i)}
<1>4. 0 \in S
  <2>1. f[0] = t
    BY <1>3, Zenon DEF Prints
  <2>. QED  BY <1>1, <2>1 DEF Back
<1>5. ASSUME NEW i \in 1 .. n, i - 1 \in S PROVE i \in S
  <2>1. PICK u \in Terminals : u = f[i - 1] /\ Back(t, u, i - 1)
    BY <1>5, Zenon
  <2>2. f[i] = Emit(u, "BS")
    BY <1>2, <1>3, <2>1, Zenon DEF Prints
  <2>3. u.col > 0 /\ u.col - 1 = t.col - i
    BY <1>1, <2>1 DEF Back
  <2>4. f[i] = [u EXCEPT !.col = u.col - 1]
    BY <2>2, <2>3 DEF Emit, DecCol
  <2>5. f[i] \in Terminals
    <3>1. "BS" \in Chars \cup Control
      BY DEF Control
    <3>. QED  BY <2>2, <3>1, EmitKeeps, Zenon
  <2>6. Back(t, f[i], i)
    BY <2>1, <2>3, <2>4 DEF Back, Terminals
  <2>7. i \in Nat
    OBVIOUS
  <2>. QED  BY <2>5, <2>6, <2>7, Zenon
<1>6. 0 .. n \subseteq S
  <2> HIDE DEF S
  <2>. QED  BY <1>1, <1>4, <1>5, UpTo, Zenon
<1>7. n \in 0 .. n
  BY <1>1
<1>8. Back(t, f[n], n)
  BY <1>6, <1>7, Zenon
<1>. QED  BY <1>2, <1>3, <1>8, Zenon

-----------------------------------------------------------------------------
(* Redrawing the end of a row.                                             *)

GlyphOf(x) == IF x \in Chars THEN x ELSE "?"

LEMMA GlyphSeq ==
  ASSUME NEW s \in Seq(Texts)
  PROVE  /\ Glyph(s) \in Seq(Chars) /\ Len(Glyph(s)) = Len(s)
         /\ \A i \in 1 .. Len(s) : Glyph(s)[i] = GlyphOf(s[i])
<1>1. \A x : GlyphOf(x) \in Chars
  BY Glyphs, Zenon DEF GlyphOf
<1>2. DOMAIN s = 1 .. Len(s) /\ Len(s) \in Nat
  OBVIOUS
<1>3. Glyph(s) = [i \in 1 .. Len(s) |-> GlyphOf(s[i])]
  BY <1>2, Zenon DEF Glyph, GlyphOf
<1> HIDE DEF GlyphOf
<1>. QED  BY <1>1, <1>2, <1>3

LEMMA FromSeq ==
  ASSUME NEW X, NEW s \in Seq(X), NEW p \in 0 .. Len(s)
  PROVE  /\ From(s, p) \in Seq(X) /\ Len(From(s, p)) = Len(s) - p
         /\ \A i \in 1 .. Len(s) - p : From(s, p)[i] = s[p + i]
BY DEF From

LEMMA RepSeq ==
  ASSUME NEW X, NEW ch \in X, NEW n \in Nat
  PROVE  /\ Rep(ch, n) \in Seq(X) /\ Len(Rep(ch, n)) = n
         /\ \A i \in 1 .. n : Rep(ch, n)[i] = ch
BY DEF Rep

LEMMA CellIs ==
  ASSUME NEW s \in Seq(Texts), NEW d \in Nat
  PROVE  /\ d > Len(s) + 1 => Cell(s, d) = " "
         /\ d \in 2 .. Len(s) + 1 => Cell(s, d) = GlyphOf(s[d - 1])
<1>1. Len(s) \in Nat
  OBVIOUS
<1>2. d > Len(s) + 1 => d # 0 /\ d # 1 /\ ~(d <= Len(s) + 1)
  BY <1>1
<1>3. d \in 2 .. Len(s) + 1 => d # 0 /\ d # 1 /\ d <= Len(s) + 1 /\ d - 1 \in 1 .. Len(s)
  BY <1>1
<1>4. d - 1 \in 1 .. Len(s) => Glyph(s)[d - 1] = GlyphOf(s[d - 1])
  BY GlyphSeq, Zenon
<1>5. d > Len(s) + 1 => Cell(s, d) = " "
  BY <1>2, Zenon DEF Cell
<1>6. d \in 2 .. Len(s) + 1 => Cell(s, d) = GlyphOf(s[d - 1])
  BY <1>3, <1>4, Zenon DEF Cell
<1>. QED  BY <1>5, <1>6, Zenon

\* Lines s and new begin with the same p characters.
Begin(s, new, p) == \A i \in 1 .. p : new[i] = s[i]

Blanks(b) == Len(b) \in Nat /\ \A i \in 1 .. Len(b) : b[i] = " "

\* A row that shows s, and on which what is different in new, and blanks for
\* what was longer in s, are printed over it.
LEMMA RowAfter ==
  ASSUME NEW s \in Seq(Texts), NEW new \in Seq(Texts), NEW p \in Nat,
         p <= Len(new), p <= Len(s), Begin(s, new, p),
         NEW b, Blanks(b), Len(s) <= Len(new) + Len(b),
         NEW r0, NEW r1, NEW r2, Shows(r0, s),
         Over(r1, r0, p + 2, Glyph(From(new, p))), Over(r2, r1, Len(new) + 2, b)
  PROVE  Shows(r2, new)
<1>0. Len(b) \in Nat /\ \A i \in 1 .. Len(b) : b[i] = " "
  BY Zenon DEF Blanks
<1>1. Len(s) \in Nat /\ Len(new) \in Nat /\ Len(b) \in Nat
  <2>1. Len(s) \in Nat
    OBVIOUS
  <2>2. Len(new) \in Nat
    OBVIOUS
  <2>. QED  BY <1>0, <2>1, <2>2, Zenon
<1>2. PICK g \in Seq(Chars) : /\ g = Glyph(From(new, p)) /\ Len(g) = Len(new) - p
                              /\ \A i \in 1 .. Len(new) - p : g[i] = GlyphOf(new[p + i])
  <2>1. p \in 0 .. Len(new)
    BY <1>1
  <2>2. /\ From(new, p) \in Seq(Texts) /\ Len(From(new, p)) = Len(new) - p
        /\ \A i \in 1 .. Len(new) - p : From(new, p)[i] = new[p + i]
    BY <2>1, FromSeq
  <2>3. PICK f : f = From(new, p)
    BY Zenon
  <2>4. /\ Glyph(f) \in Seq(Chars) /\ Len(Glyph(f)) = Len(f)
        /\ \A i \in 1 .. Len(f) : Glyph(f)[i] = GlyphOf(f[i])
    BY <2>2, <2>3, GlyphSeq, Zenon
  <2>5. /\ Len(Glyph(f)) = Len(new) - p
        /\ \A i \in 1 .. Len(new) - p : Glyph(f)[i] = GlyphOf(new[p + i])
    BY <2>2, <2>3, <2>4
  <2>. QED  BY <2>3, <2>4, <2>5, Zenon
<1>3. SUFFICES ASSUME NEW d \in Cols PROVE r2[d] = Cell(new, d)
  BY Zenon DEF Shows
<1>4. d \in Nat
  BY Sizes DEF Cols
<1>5. /\ r0[d] = Cell(s, d)
      /\ r1[d] = IF p + 2 <= d /\ d < p + 2 + Len(g) THEN g[d - (p + 2) + 1] ELSE r0[d]
      /\ r2[d] = IF Len(new) + 2 <= d /\ d < Len(new) + 2 + Len(b)
                   THEN b[d - (Len(new) + 2) + 1] ELSE r1[d]
  BY <1>2, Zenon DEF Shows, Over
<1>6. /\ d > Len(new) + 1 => Cell(new, d) = " "
      /\ d \in 2 .. Len(new) + 1 => Cell(new, d) = GlyphOf(new[d - 1])
  BY <1>4, CellIs, Zenon
<1>7. /\ d > Len(s) + 1 => Cell(s, d) = " "
      /\ d \in 2 .. Len(s) + 1 => Cell(s, d) = GlyphOf(s[d - 1])
  BY <1>4, CellIs, Zenon
<1>8. CASE Len(new) + 2 <= d
  <2>1. Cell(new, d) = " "
    <3>1. d > Len(new) + 1
      BY <1>1, <1>4, <1>8
    <3>. QED  BY <1>6, <3>1, Zenon
  <2>2. CASE d < Len(new) + 2 + Len(b)
    <3>1. d - (Len(new) + 2) + 1 \in 1 .. Len(b)
      BY <1>1, <1>4, <1>8, <2>2
    <3>. QED  BY <1>0, <1>5, <1>8, <2>1, <2>2, <3>1, Zenon
  <2>3. CASE ~(d < Len(new) + 2 + Len(b))
    <3>1. ~(d < p + 2 + Len(g)) /\ d > Len(s) + 1
      <4>1. Len(g) = Len(new) - p
        BY <1>2, Zenon
      <4>. QED  BY <1>1, <1>4, <1>8, <2>3, <4>1
    <3>. QED  BY <1>5, <1>7, <2>1, <2>3, <3>1, Zenon
  <2>. QED  BY <2>2, <2>3
<1>9. CASE ~(Len(new) + 2 <= d) /\ p + 2 <= d
  <2>1. /\ d < p + 2 + Len(g) /\ d - (p + 2) + 1 \in 1 .. Len(new) - p /\ d - 1 \in 1 .. Len(new)
        /\ p + (d - (p + 2) + 1) = d - 1 /\ d \in 2 .. Len(new) + 1
    <3>1. Len(g) = Len(new) - p
      BY <1>2, Zenon
    <3>. QED  BY <1>1, <1>4, <1>9, <3>1
  <2>2. r2[d] = g[d - (p + 2) + 1]
    <3>1. r2[d] = r1[d]
      BY <1>5, <1>9, Zenon
    <3>2. p + 2 <= d /\ d < p + 2 + Len(g)
      BY <1>9, <2>1, Zenon
    <3>3. r1[d] = g[d - (p + 2) + 1]
      BY <1>5, <3>2, Zenon
    <3>. QED  BY <3>1, <3>3, Zenon
  <2>3. g[d - (p + 2) + 1] = GlyphOf(new[d - 1])
    <3>1. g[d - (p + 2) + 1] = GlyphOf(new[p + (d - (p + 2) + 1)])
      BY <1>2, <2>1, Zenon
    <3>. QED  BY <2>1, <3>1, Zenon
  <2>4. Cell(new, d) = GlyphOf(new[d - 1])
    BY <1>6, <2>1, Zenon
  <2>. QED  BY <2>2, <2>3, <2>4
<1>10. CASE ~(Len(new) + 2 <= d) /\ ~(p + 2 <= d)
  <2>1. r2[d] = Cell(s, d)
    BY <1>5, <1>10, Zenon
  <2>2. CASE d = 0 \/ d = 1
    BY <2>1, <2>2, Zenon DEF Cell
  <2>3. CASE ~(d = 0 \/ d = 1)
    <3>1. d - 1 \in 1 .. p /\ d \in 2 .. Len(new) + 1 /\ d \in 2 .. Len(s) + 1
      BY <1>1, <1>4, <1>10, <2>3
    <3>2. Cell(s, d) = GlyphOf(s[d - 1]) /\ Cell(new, d) = GlyphOf(new[d - 1])
      BY <1>6, <1>7, <3>1, Zenon
    <3>3. new[d - 1] = s[d - 1]
      BY <3>1, Zenon DEF Begin
    <3>. QED  BY <2>1, <3>2, <3>3
  <2>. QED  BY <2>2, <2>3
<1>. QED  BY <1>8, <1>9, <1>10

\* Terminal t shows the line s with the cursor on p.
Echoes(t, s, p) == EchoOn(t, t.vga[t.row], s, p)

LEMMA PrintsKeep ==
  ASSUME Induction, NEW t \in Terminals, NEW s \in Seq(Chars)
  PROVE  RawPuts(t, s) \in Terminals
<1>1. s \in Seq(Chars \cup Control)
  OBVIOUS
<1>. QED  BY <1>1, RawPutsKeeps, Zenon

LEMMA BackKeeps ==
  ASSUME NEW n \in Nat
  PROVE  Rep("BS", n) \in Seq(Chars \cup Control)
<1>1. "BS" \in Chars \cup Control
  BY DEF Control
<1>. QED  BY <1>1, RepSeq, Zenon

\* What deleteAt, insertAt and redrawLine print from column p + 2 on: the rest
\* of the new line, blanks, and backspaces.
LEMMA RedrawFrom ==
  ASSUME Induction, NEW t \in Terminals, NEW s \in Seq(Texts), NEW new \in Seq(Texts), NEW p \in Nat,
         Echoes(t, s, p), p <= Len(new), p <= Len(s), Begin(s, new, p),
         NEW b \in Seq(Chars), Blanks(b), Len(s) <= Len(new) + Len(b),
         Len(new) + Len(b) + 2 < VGA_WIDTH, NEW k \in Nat, k <= Len(new) + Len(b)
  PROVE  Echoes(RawPuts(RawPuts(RawPuts(t, Glyph(From(new, p))), b), Rep("BS", k)),
                new, Len(new) + Len(b) - k)
<1>1. Len(s) \in Nat /\ Len(new) \in Nat /\ Len(b) \in Nat /\ VGA_WIDTH \in Nat
  BY Sizes
<1>2. PICK g \in Seq(Chars) : g = Glyph(From(new, p)) /\ Len(g) = Len(new) - p
  <2>1. p \in 0 .. Len(new)
    BY <1>1
  <2>2. From(new, p) \in Seq(Texts) /\ Len(From(new, p)) = Len(new) - p
    BY <2>1, FromSeq
  <2>3. PICK f \in Seq(Texts) : f = From(new, p)
    BY <2>2, Zenon
  <2>4. Glyph(f) \in Seq(Chars) /\ Len(Glyph(f)) = Len(f)
    BY GlyphSeq, Zenon
  <2>5. Len(Glyph(f)) = Len(new) - p
    BY <2>2, <2>3, <2>4
  <2>. QED  BY <2>3, <2>4, <2>5, Zenon
<1>3. PICK t1 \in Terminals : t1 = RawPuts(t, g)
  BY PrintsKeep, Zenon
<1>4. PICK t2 \in Terminals : t2 = RawPuts(t1, b)
  BY PrintsKeep, Zenon
<1>5. t.col = p + 2 /\ Shows(t.vga[t.row], s)
  BY Zenon DEF Echoes, EchoOn
<1>6. Printed(t, t1, g)
  <2>1. t.col + Len(g) < VGA_WIDTH
    BY <1>1, <1>2, <1>5
  <2>. QED  BY <1>3, <2>1, PrintRow, Zenon
<1>7. t1.col = Len(new) + 2
  <2>1. t1.col = t.col + Len(g)
    BY <1>6, Zenon DEF Printed
  <2>. QED  BY <1>1, <1>2, <1>5, <2>1
<1>8. Printed(t1, t2, b)
  <2>1. t1.col + Len(b) < VGA_WIDTH
    BY <1>1, <1>7
  <2>. QED  BY <1>4, <2>1, PrintRow, Zenon
<1>9. t2.col = Len(new) + 2 + Len(b)
  BY <1>7, <1>8, Zenon DEF Printed
<1>10. PICK t3 : t3 = RawPuts(t2, Rep("BS", k)) /\ Back(t2, t3, k)
  <2>1. k \in 0 .. t2.col
    BY <1>1, <1>9
  <2>. QED  BY <2>1, BackRow, Zenon
<1>11. /\ Over(t1.vga[t1.row], t.vga[t.row], p + 2, Glyph(From(new, p)))
       /\ Over(t2.vga[t2.row], t1.vga[t1.row], Len(new) + 2, b)
  BY <1>2, <1>5, <1>6, <1>7, <1>8, Zenon DEF Printed
<1>12. Shows(t2.vga[t2.row], new)
  <2>1. PICK r0, r1, r2 : r0 = t.vga[t.row] /\ r1 = t1.vga[t1.row] /\ r2 = t2.vga[t2.row]
    BY Zenon
  <2>2. /\ Shows(r0, s) /\ Over(r1, r0, p + 2, Glyph(From(new, p)))
        /\ Over(r2, r1, Len(new) + 2, b)
    BY <1>5, <1>11, <2>1, Zenon
  <2>3. Shows(r2, new)
    BY <2>2, RowAfter, Zenon
  <2>. QED  BY <2>1, <2>3, Zenon
<1>13. Shows(t3.vga[t3.row], new)
  BY <1>10, <1>12, Zenon DEF Back
<1>14. t3.col = Len(new) + Len(b) - k + 2
  <2>1. t3.col = t2.col - k
    BY <1>10, Zenon DEF Back
  <2>. QED  BY <1>1, <1>9, <2>1
<1>15. Len(new) + 2 < VGA_WIDTH
  BY <1>1
<1>16. Echoes(t3, new, Len(new) + Len(b) - k)
  BY <1>13, <1>14, <1>15, Zenon DEF Echoes, EchoOn
<1>. QED  BY <1>2, <1>3, <1>4, <1>10, <1>16, Zenon

\* Backspaces move the cursor.
LEMMA BackEcho ==
  ASSUME Induction, NEW t \in Terminals, NEW s \in Seq(Texts), NEW p \in Nat, Echoes(t, s, p),
         NEW n \in 0 .. p
  PROVE  Echoes(RawPuts(t, Rep("BS", n)), s, p - n)
<1>1. t.col = p + 2
  BY Zenon DEF Echoes, EchoOn
<1>2. n \in 0 .. t.col
  BY <1>1
<1>3. PICK u : u = RawPuts(t, Rep("BS", n)) /\ Back(t, u, n)
  BY <1>2, BackRow, Zenon
<1>4. u.col = p - n + 2
  <2>1. u.col = t.col - n
    BY <1>3, Zenon DEF Back
  <2>. QED  BY <1>1, <2>1
<1>5. Echoes(u, s, p - n)
  BY <1>3, <1>4, Zenon DEF Echoes, EchoOn, Back
<1>. QED  BY <1>3, <1>5, Zenon

-----------------------------------------------------------------------------
(* The line editor.                                                        *)

\* Sequences of what rawPuts can print.
Output == Seq(Chars \cup Control)

\* Terminal u is t after str has been printed.
After(t, str, u) == u = RawPuts(t, str)

LEMMA AfterBoth ==
  ASSUME Induction, NEW t, NEW a \in Output, NEW b \in Output, NEW u, NEW v, After(t, a, u), After(u, b, v)
  PROVE  After(t, a \o b, v)
<1>1. RawPuts(t, a \o b) = RawPuts(RawPuts(t, a), b)
  BY RawPutsConcat DEF Output
<1>. QED  BY <1>1, Zenon DEF After

LEMMA Concat ==
  ASSUME NEW X, NEW a \in Seq(X), NEW b \in Seq(X)
  PROVE  /\ a \o b \in Seq(X) /\ Len(a) \in Nat /\ Len(b) \in Nat
         /\ Len(a \o b) = Len(a) + Len(b)
         /\ \A i \in 1 .. Len(a) : (a \o b)[i] = a[i]
OBVIOUS

LEMMA OutputConcat ==
  ASSUME NEW a \in Output, NEW b \in Output
  PROVE  /\ a \o b \in Output /\ Len(a) \in Nat /\ Len(b) \in Nat
         /\ Len(a \o b) = Len(a) + Len(b)
BY Concat DEF Output

LEMMA CharsOutput ==
  ASSUME NEW s \in Seq(Chars)
  PROVE  s \in Output
BY DEF Output

LEMMA CutSeq ==
  ASSUME NEW X, NEW s \in Seq(X), NEW n \in 0 .. Len(s)
  PROVE  /\ SubSeq(s, 1, n) \in Seq(X) /\ Len(SubSeq(s, 1, n)) = n
         /\ \A i \in 1 .. n : SubSeq(s, 1, n)[i] = s[i]
OBVIOUS

LEMMA DeleteSeq ==
  ASSUME NEW s \in Seq(Texts), NEW p \in Nat, p < Len(s)
  PROVE  \E new \in Seq(Texts) :
           /\ new = SubSeq(s, 1, p) \o From(s, p + 1)
           /\ Len(new) = Len(s) - 1 /\ Begin(s, new, p)
<1>1. p \in 0 .. Len(s) /\ p + 1 \in 0 .. Len(s) /\ Len(s) \in Nat
  OBVIOUS
<1>2. PICK a \in Seq(Texts) : /\ a = SubSeq(s, 1, p) /\ Len(a) = p
                              /\ \A i \in 1 .. p : a[i] = s[i]
  <2>1. /\ SubSeq(s, 1, p) \in Seq(Texts) /\ Len(SubSeq(s, 1, p)) = p
        /\ \A i \in 1 .. p : SubSeq(s, 1, p)[i] = s[i]
    BY <1>1, CutSeq
  <2>. QED  BY <2>1, Zenon
<1>3. PICK b \in Seq(Texts) : b = From(s, p + 1) /\ Len(b) = Len(s) - (p + 1)
  BY <1>1, FromSeq
<1>4. /\ a \o b \in Seq(Texts) /\ Len(a \o b) = Len(a) + Len(b)
      /\ \A i \in 1 .. Len(a) : (a \o b)[i] = a[i]
  BY Concat
<1>5. Len(a \o b) = Len(s) - 1 /\ \A i \in 1 .. p : (a \o b)[i] = s[i]
  <2>1. Len(a) = p /\ Len(b) = Len(s) - (p + 1) /\ Len(a \o b) = Len(a) + Len(b)
    BY <1>2, <1>3, <1>4, Zenon
  <2>2. Len(a \o b) = Len(s) - 1
    BY <1>1, <2>1
  <2>. QED  BY <1>2, <1>4, <2>2, Zenon
<1>. QED  BY <1>2, <1>3, <1>4, <1>5, Zenon DEF Begin

LEMMA InsertSeq ==
  ASSUME NEW s \in Seq(Texts), NEW p \in 0 .. Len(s), NEW ch \in Texts
  PROVE  \E new \in Seq(Texts) :
           /\ new = SubSeq(s, 1, p) \o <<ch>> \o From(s, p)
           /\ Len(new) = Len(s) + 1 /\ Begin(s, new, p)
<1>1. Len(s) \in Nat /\ p \in Nat
  OBVIOUS
<1>2. PICK a \in Seq(Texts) : /\ a = SubSeq(s, 1, p) /\ Len(a) = p
                              /\ \A i \in 1 .. p : a[i] = s[i]
  <2>1. /\ SubSeq(s, 1, p) \in Seq(Texts) /\ Len(SubSeq(s, 1, p)) = p
        /\ \A i \in 1 .. p : SubSeq(s, 1, p)[i] = s[i]
    BY CutSeq
  <2>. QED  BY <2>1, Zenon
<1>3. PICK b \in Seq(Texts) : b = From(s, p) /\ Len(b) = Len(s) - p
  BY FromSeq
<1>4. PICK c \in Seq(Texts) : /\ c = a \o <<ch>> /\ Len(c) = p + 1
                              /\ \A i \in 1 .. p : c[i] = s[i]
  <2>1. PICK x \in Seq(Texts) : x = <<ch>> /\ Len(x) = 1
    <3>1. <<ch>> \in Seq(Texts) /\ Len(<<ch>>) = 1
      OBVIOUS
    <3>. QED  BY <3>1, Zenon
  <2>2. /\ a \o x \in Seq(Texts) /\ Len(a \o x) = Len(a) + Len(x)
        /\ \A i \in 1 .. Len(a) : (a \o x)[i] = a[i]
    BY Concat
  <2>3. Len(a \o x) = p + 1 /\ \A i \in 1 .. p : (a \o x)[i] = s[i]
    BY <1>1, <1>2, <2>1, <2>2
  <2>. QED  BY <2>1, <2>2, <2>3, Zenon
<1>5. /\ c \o b \in Seq(Texts) /\ Len(c \o b) = Len(c) + Len(b)
      /\ \A i \in 1 .. Len(c) : (c \o b)[i] = c[i]
  BY Concat
<1>6. Len(c \o b) = Len(s) + 1 /\ \A i \in 1 .. p : (c \o b)[i] = s[i]
  BY <1>1, <1>3, <1>4, <1>5
<1>. QED  BY <1>2, <1>3, <1>4, <1>5, <1>6, Zenon DEF Begin

\* A record of the line editor, with types.
EditorOK(e) ==
  /\ DOMAIN e = {"line", "pos", "hist", "out"} /\ HistTyped(e.hist)
  /\ e.line \in Seq(Texts) /\ e.pos \in 0 .. Len(e.line) /\ e.out \in Output

\* Where line and cursor of e are on the screen, and the line of f fits into the
\* row, those of f are on the screen once its output is printed.
Draws(e, f) ==
  \A t \in Terminals : Echoes(t, e.line, e.pos) /\ Len(f.line) + 2 < VGA_WIDTH
                         => Echoes(RawPuts(t, f.out), f.line, f.pos)

\* f is what a key makes of e; if it prints nothing, it has changed nothing.
Edits(e, f) ==
  EditorOK(f) /\ Draws(e, f) /\ (Len(f.out) = 0 => f.line = e.line /\ f.pos = e.pos)

LEMMA EditsNothing ==
  ASSUME Induction, NEW e, EditorOK(e), e.out = << >>
  PROVE  Edits(e, e)
BY RawPutsNothing, Zenon DEF Edits, Draws

LEMMA DeleteEdits ==
  ASSUME Induction, NEW e, NEW f, EditorOK(f), f.line = e.line, Draws(e, f), f.pos < Len(f.line)
  PROVE  Edits(e, LineDelete(f, f.pos))
<1>1. PICK s \in Seq(Texts), p \in Nat, o \in Output :
        s = f.line /\ p = f.pos /\ o = f.out /\ p < Len(s) /\ Len(s) \in Nat
  <2>1. f.line \in Seq(Texts) /\ f.pos \in Nat /\ f.out \in Output
    BY DEF EditorOK
  <2>2. Len(f.line) \in Nat
    BY <2>1
  <2>. QED  BY <2>1, <2>2, Zenon
<1>2. PICK new \in Seq(Texts) :
        /\ new = SubSeq(s, 1, p) \o From(s, p + 1) /\ Len(new) = Len(s) - 1 /\ Begin(s, new, p)
  BY <1>1, DeleteSeq, Zenon
<1>3. PICK g \in Output : g = Glyph(From(new, p))
  <2>1. p \in 0 .. Len(new)
    BY <1>1, <1>2
  <2>2. From(new, p) \in Seq(Texts)
    BY <2>1, FromSeq, Zenon
  <2>3. Glyph(From(new, p)) \in Seq(Chars)
    BY <2>2, GlyphSeq, Zenon
  <2>. QED  BY <2>3, CharsOutput, Zenon
<1>4. PICK b \in Seq(Chars) : b = <<" ">> /\ Len(b) = 1 /\ Blanks(b)
  <2>0. PICK x \in Chars : x = " "
    BY Glyphs, Zenon
  <2>1. <<x>> \in Seq(Chars) /\ Len(<<x>>) = 1 /\ <<x>>[1] = x
    OBVIOUS
  <2>2. \A i \in 1 .. 1 : i = 1
    OBVIOUS
  <2>3. 1 \in Nat
    OBVIOUS
  <2>4. Blanks(<<x>>)
    BY <2>0, <2>1, <2>2, <2>3, Zenon DEF Blanks
  <2>. QED  BY <2>0, <2>1, <2>4, Zenon
<1>5. PICK n \in Nat : n = Len(s) - p
  BY <1>1
<1>6. PICK r \in Output : r = Rep("BS", n)
  BY BackKeeps, Zenon DEF Output
<1>7. PICK d : d = LineDelete(f, f.pos)
  BY Zenon
<1>8. d = [f EXCEPT !.line = new, !.out = ((o \o g) \o b) \o r]
  BY <1>1, <1>2, <1>3, <1>4, <1>5, <1>6, <1>7, Zenon DEF LineDelete
<1>9. PICK og, ogb, all \in Output :
        og = o \o g /\ ogb = og \o b /\ all = ogb \o r
  <2>0. b \in Output
    BY CharsOutput, Zenon
  <2>1. o \o g \in Output
    BY OutputConcat, Zenon
  <2>2. (o \o g) \o b \in Output
    BY <2>0, <2>1, OutputConcat, Zenon
  <2>3. ((o \o g) \o b) \o r \in Output
    BY <2>2, OutputConcat, Zenon
  <2>. QED  BY <2>1, <2>2, <2>3, Zenon
<1>10. /\ DOMAIN d = DOMAIN f /\ d.hist = f.hist /\ d.line = new /\ d.pos = p /\ d.out = all
  <2>1. d = [f EXCEPT !.line = new, !.out = all]
    BY <1>8, <1>9, Zenon
  <2>. QED  BY <1>1, <2>1 DEF EditorOK
<1>11. EditorOK(d)
  <2>1. p \in 0 .. Len(new)
    BY <1>1, <1>2
  <2>. QED  BY <1>9, <1>10, <2>1, Zenon DEF EditorOK
<1>12. Draws(e, d)
  <2>1. SUFFICES ASSUME NEW t \in Terminals, Echoes(t, e.line, e.pos),
                        Len(new) + 2 < VGA_WIDTH
                 PROVE  Echoes(RawPuts(t, all), new, p)
    BY <1>10, Zenon DEF Draws
  <2>2. Len(s) + 2 < VGA_WIDTH
    BY <1>1, <2>1, Zenon DEF Echoes, EchoOn
  <2>3. PICK u \in Terminals : u = RawPuts(t, o) /\ Echoes(u, s, p)
    <3>1. RawPuts(t, o) \in Terminals
      BY RawPutsKeeps, Zenon DEF Output
    <3>2. Echoes(RawPuts(t, o), s, p)
      BY <1>1, <2>1, <2>2, Zenon DEF Draws
    <3>. QED  BY <3>1, <3>2, Zenon
  <2>4. PICK v1, v2, v3 : After(u, g, v1) /\ After(v1, b, v2) /\ After(v2, r, v3)
    BY Zenon DEF After
  <2>5. After(t, all, v3)
    <3>0. b \in Output /\ After(t, o, u)
      BY <2>3 DEF Output, After
    <3>1. After(t, og, v1)
      BY <1>9, <2>4, <3>0, AfterBoth, Zenon
    <3>2. After(t, ogb, v2)
      BY <1>9, <2>4, <3>0, <3>1, AfterBoth, Zenon
    <3>. QED  BY <1>9, <2>4, <3>2, AfterBoth, Zenon
  <2>0. /\ Len(b) = 1 /\ Len(new) = Len(s) - 1 /\ p < Len(s) /\ Len(s) \in Nat
        /\ n = Len(s) - p
    BY <1>1, <1>2, <1>4, <1>5, Zenon
  <2>6. /\ p <= Len(new) /\ p <= Len(s) /\ Len(s) <= Len(new) + Len(b)
        /\ Len(new) + Len(b) + 2 < VGA_WIDTH /\ n <= Len(new) + Len(b)
    BY <2>0, <2>2, Sizes
  <2>7. Len(new) + Len(b) - n = p
    BY <2>0
  <2>8. Blanks(b) /\ Begin(s, new, p) /\ Echoes(u, s, p)
    BY <1>2, <1>4, <2>3, Zenon
  <2>9. Echoes(RawPuts(RawPuts(RawPuts(u, Glyph(From(new, p))), b), Rep("BS", n)),
               new, Len(new) + Len(b) - n)
    BY <2>6, <2>8, RedrawFrom, Zenon
  <2>. QED  BY <1>3, <1>6, <2>4, <2>5, <2>7, <2>9, Zenon DEF After
<1>13. Len(d.out) # 0
  <2>0. b \in Output /\ Len(b) = 1
    BY <1>4, CharsOutput, Zenon
  <2>1. Len(ogb) = Len(og) + Len(b) /\ Len(og) \in Nat
    <3>1. Len(og \o b) = Len(og) + Len(b) /\ Len(og) \in Nat
      BY <2>0, OutputConcat, Zenon
    <3>. QED  BY <1>9, <3>1, Zenon
  <2>2. Len(all) = Len(ogb) + Len(r) /\ Len(r) \in Nat
    BY <1>9, OutputConcat
  <2>3. Len(all) # 0
    BY <2>0, <2>1, <2>2
  <2>. QED  BY <1>10, <2>3, Zenon
<1>. QED  BY <1>7, <1>11, <1>12, <1>13, Zenon DEF Edits

LEMMA EmptySeq ==
  ASSUME NEW X
  PROVE  << >> \in Seq(X) /\ Len(<< >>) = 0
OBVIOUS

LEMMA NoBlanks == Blanks(<< >>)
<1>1. Len(<< >>) = 0 /\ Len(<< >>) \in Nat /\ 1 .. Len(<< >>) = {}
  OBVIOUS
<1>. QED  BY <1>1, Zenon DEF Blanks

\* RedrawFrom, without blanks.
LEMMA RedrawExact ==
  ASSUME Induction, NEW t \in Terminals, NEW s \in Seq(Texts), NEW new \in Seq(Texts), NEW p \in Nat,
         Echoes(t, s, p), p <= Len(new), p <= Len(s), Begin(s, new, p),
         Len(s) <= Len(new), Len(new) + 2 < VGA_WIDTH, NEW k \in Nat, k <= Len(new)
  PROVE  Echoes(RawPuts(RawPuts(t, Glyph(From(new, p))), Rep("BS", k)), new, Len(new) - k)
<1>1. Len(s) \in Nat /\ Len(new) \in Nat /\ VGA_WIDTH \in Nat
  BY Sizes
<1>2. PICK b \in Seq(Chars) : b = << >> /\ Len(b) = 0 /\ Blanks(b)
  BY EmptySeq, NoBlanks, Zenon
<1>3. PICK z : z = Len(b) /\ z = 0
  BY <1>2, Zenon
<1>4. /\ Len(s) <= Len(new) + z /\ Len(new) + z + 2 < VGA_WIDTH /\ k <= Len(new) + z
      /\ Len(new) + z - k = Len(new) - k
  BY <1>1, <1>3
<1>5. /\ Len(s) <= Len(new) + Len(b) /\ Len(new) + Len(b) + 2 < VGA_WIDTH
      /\ k <= Len(new) + Len(b)
  BY <1>3, <1>4, Zenon
<1>6. Echoes(RawPuts(RawPuts(RawPuts(t, Glyph(From(new, p))), b), Rep("BS", k)),
             new, Len(new) + Len(b) - k)
  BY <1>2, <1>5, RedrawFrom, Zenon
<1>7. PICK u : u = RawPuts(t, Glyph(From(new, p)))
  BY Zenon
<1>8. RawPuts(u, b) = u
  BY <1>2, RawPutsNothing
<1>9. Len(new) + Len(b) - k = Len(new) - k
  BY <1>3, <1>4, Zenon
<1>. QED  BY <1>6, <1>7, <1>8, <1>9, Zenon

LEMMA InsertEdits ==
  ASSUME Induction, NEW e, EditorOK(e), NEW ch \in Texts
  PROVE  Edits(e, LineInsert(e, e.pos, ch))
<1>1. PICK s \in Seq(Texts), p \in Nat : s = e.line /\ p = e.pos /\ p \in 0 .. Len(s)
  <2>1. e.line \in Seq(Texts) /\ e.pos \in Nat /\ e.pos \in 0 .. Len(e.line)
    BY DEF EditorOK
  <2>. QED  BY <2>1, Zenon
<1>2. PICK new \in Seq(Texts) :
        /\ new = SubSeq(s, 1, p) \o <<ch>> \o From(s, p)
        /\ Len(new) = Len(s) + 1 /\ Begin(s, new, p)
  BY <1>1, InsertSeq, Zenon
<1>3. /\ Len(s) \in Nat /\ Len(new) \in Nat /\ p \in 0 .. Len(new) /\ p + 1 \in 0 .. Len(new)
      /\ Len(new) - p > 0 /\ p <= Len(new) /\ p <= Len(s) /\ Len(s) <= Len(new)
  BY <1>1, <1>2
<1>4. PICK g \in Output : g = Glyph(From(new, p)) /\ Len(g) = Len(new) - p
  <2>1. From(new, p) \in Seq(Texts) /\ Len(From(new, p)) = Len(new) - p
    BY <1>3, FromSeq
  <2>2. PICK f \in Seq(Texts) : f = From(new, p) /\ Len(f) = Len(new) - p
    BY <2>1, Zenon
  <2>3. Glyph(f) \in Seq(Chars) /\ Len(Glyph(f)) = Len(f)
    BY GlyphSeq, Zenon
  <2>. QED  BY <2>2, <2>3, CharsOutput, Zenon
<1>5. PICK n \in Nat : n = Len(new) - (p + 1) /\ n <= Len(new) /\ Len(new) - n = p + 1
  <2>1. /\ Len(new) - (p + 1) \in Nat /\ Len(new) - (p + 1) <= Len(new)
        /\ Len(new) - (Len(new) - (p + 1)) = p + 1
    BY <1>3
  <2>. QED  BY <2>1, Zenon
<1>6. PICK r \in Output : r = Rep("BS", n)
  BY BackKeeps, Zenon DEF Output
<1>7. PICK all \in Output : all = g \o r /\ Len(all) # 0
  <2>1. g \o r \in Output /\ Len(g) \in Nat /\ Len(r) \in Nat /\ Len(g \o r) = Len(g) + Len(r)
    BY OutputConcat, Zenon
  <2>2. Len(g \o r) # 0
    BY <1>3, <1>4, <2>1
  <2>. QED  BY <2>1, <2>2, Zenon
<1>8. PICK d : d = LineInsert(e, e.pos, ch)
  BY Zenon
<1>9. DOMAIN d = DOMAIN e /\ d.hist = e.hist /\ d.line = new /\ d.pos = p + 1 /\ d.out = all
  <2>1. d = [e EXCEPT !.line = new, !.pos = p + 1, !.out = all]
    BY <1>1, <1>2, <1>4, <1>5, <1>6, <1>7, <1>8, Zenon DEF LineInsert
  <2>. QED  BY <2>1 DEF EditorOK
<1>10. EditorOK(d)
  <2>1. p + 1 \in 0 .. Len(new)
    BY <1>3, Zenon
  <2>2. d.hist = e.hist /\ HistTyped(e.hist) /\ DOMAIN d = {"line", "pos", "hist", "out"}
    BY <1>9, Zenon DEF EditorOK
  <2>3. d.line \in Seq(Texts) /\ d.pos \in 0 .. Len(d.line) /\ d.out \in Output
    BY <1>9, <2>1
  <2>. QED  BY <2>2, <2>3, Zenon DEF EditorOK
<1>11. Draws(e, d)
  <2>1. SUFFICES ASSUME NEW t \in Terminals, Echoes(t, s, p), Len(new) + 2 < VGA_WIDTH
                 PROVE  Echoes(RawPuts(t, all), new, p + 1)
    BY <1>1, <1>9, Zenon DEF Draws
  <2>2. PICK u, v : After(t, g, u) /\ After(u, r, v)
    BY Zenon DEF After
  <2>3. After(t, all, v)
    BY <1>7, <2>2, AfterBoth, Zenon
  <2>4. Begin(s, new, p) /\ n <= Len(new)
    BY <1>2, <1>5, Zenon
  <2>5. Echoes(RawPuts(RawPuts(t, Glyph(From(new, p))), Rep("BS", n)), new, Len(new) - n)
    BY <1>3, <2>1, <2>4, RedrawExact, Zenon
  <2>. QED  BY <1>4, <1>5, <1>6, <2>2, <2>3, <2>5, Zenon DEF After
<1>. QED  BY <1>7, <1>8, <1>9, <1>10, <1>11, Zenon DEF Edits

\* What the prompt is printed over, at the start of a row.
LEMMA PromptRow ==
  ASSUME Induction, NEW t \in Terminals, t.col = 0
  PROVE  \E u \in Terminals :
           /\ u = RawPuts(t, <<">", " ">>) /\ Grows(t, u) /\ u.row = t.row /\ u.col = 2
           /\ \A d \in Cols : u.vga[u.row][d] = IF d = 0 THEN ">" ELSE IF d = 1 THEN " "
                                                ELSE t.vga[t.row][d]
<1>1. PICK x \in Chars, y \in Chars : x = ">" /\ y = " "
  BY Glyphs, Zenon
<1>2. PICK s \in Seq(Chars) : s = <<x, y>> /\ Len(s) = 2 /\ s[1] = x /\ s[2] = y
  <2>1. <<x, y>> \in Seq(Chars) /\ Len(<<x, y>>) = 2 /\ <<x, y>>[1] = x /\ <<x, y>>[2] = y
    OBVIOUS
  <2>. QED  BY <2>1, Zenon
<1>3. PICK u \in Terminals : u = RawPuts(t, s) /\ Grows(t, u)
  BY CharsOutput, RawPutsKeeps, Zenon DEF Output
<1>4. Printed(t, u, s)
  <2>1. t.col + Len(s) < VGA_WIDTH
    BY <1>2, Sizes
  <2>. QED  BY <1>3, <2>1, PrintRow, Zenon
<1>5. u.row = t.row /\ u.col = 2
  <2>1. u.row = t.row /\ u.col = t.col + Len(s)
    BY <1>4, Zenon DEF Printed
  <2>. QED  BY <1>2, <2>1
<1>6. ASSUME NEW d \in Cols
      PROVE  u.vga[u.row][d] = IF d = 0 THEN ">" ELSE IF d = 1 THEN " " ELSE t.vga[t.row][d]
  <2>1. u.vga[u.row][d] = IF t.col <= d /\ d < t.col + Len(s) THEN s[d - t.col + 1]
                          ELSE t.vga[t.row][d]
    BY <1>4, Zenon DEF Printed, Over
  <2>2. d \in Nat
    BY Sizes DEF Cols
  <2>3. CASE d = 0
    <3>1. t.col <= d /\ d < t.col + Len(s) /\ d - t.col + 1 = 1
      BY <1>2, <2>3
    <3>. QED  BY <1>1, <1>2, <2>1, <2>3, <3>1, Zenon
  <2>4. CASE d = 1
    <3>1. t.col <= d /\ d < t.col + Len(s) /\ d - t.col + 1 = 2 /\ d # 0
      BY <1>2, <2>4
    <3>. QED  BY <1>1, <1>2, <2>1, <2>4, <3>1, Zenon
  <2>5. CASE d # 0 /\ d # 1
    <3>1. ~(d < t.col + Len(s))
      BY <1>2, <2>2, <2>5
    <3>. QED  BY <2>1, <2>5, <3>1, Zenon
  <2>. QED  BY <2>3, <2>4, <2>5, Zenon
<1>. QED  BY <1>1, <1>2, <1>3, <1>5, <1>6, Zenon

LEMMA SameSeq ==
  ASSUME NEW X, NEW a \in Seq(X), NEW b \in Seq(X), NEW n \in Nat, Len(a) = n, Len(b) = n,
         \A i \in 1 .. n : a[i] = b[i]
  PROVE  a = b
<1>1. DOMAIN a = 1 .. n /\ DOMAIN b = 1 .. n
  OBVIOUS
<1>2. a = [i \in 1 .. n |-> a[i]] /\ b = [i \in 1 .. n |-> b[i]]
  BY <1>1
<1>. QED  BY <1>2, Zenon

\* redrawLine begins with the prompt, which is there already.
LEMMA PromptAgain ==
  ASSUME Induction, NEW t \in Terminals, NEW s \in Seq(Texts), NEW p, Echoes(t, s, p)
  PROVE  \E u \in Terminals : After(t, <<"CR", ">", " ">>, u) /\ Echoes(u, s, 0)
<1>1. PICK v \in Terminals : v = [t EXCEPT !.col = 0] /\ v.row = t.row /\ v.vga = t.vga /\ v.col = 0
  <2>1. [t EXCEPT !.col = 0] \in Terminals
    BY FirstCol, Zenon DEF Terminals
  <2>2. [t EXCEPT !.col = 0].row = t.row /\ [t EXCEPT !.col = 0].vga = t.vga
        /\ [t EXCEPT !.col = 0].col = 0
    BY DEF Terminals
  <2>. QED  BY <2>1, <2>2, Zenon
<1>2. After(t, <<"CR">>, v)
  <2>1. RawPuts(t, <<"CR">>) = Emit(t, "CR")
    BY RawPutsChar, Zenon
  <2>2. Emit(t, "CR") = v
    BY <1>1 DEF Emit
  <2>. QED  BY <2>1, <2>2, Zenon DEF After
<1>3. PICK u \in Terminals :
        /\ u = RawPuts(v, <<">", " ">>) /\ u.row = v.row /\ u.col = 2
        /\ \A d \in Cols : u.vga[u.row][d] = IF d = 0 THEN ">" ELSE IF d = 1 THEN " "
                                             ELSE v.vga[v.row][d]
  BY <1>1, PromptRow, Zenon
<1>4. After(t, <<"CR", ">", " ">>, u)
  <2>1. PICK c \in Chars \cup Control, x \in Chars \cup Control, y \in Chars \cup Control :
          c = "CR" /\ x = ">" /\ y = " "
    BY Glyphs, Zenon DEF Control
  <2>2. <<c>> \o <<x, y>> = <<c, x, y>> /\ <<c>> \in Output /\ <<x, y>> \in Output
    <3>1. <<c>> \in Output /\ <<x, y>> \in Output
      BY DEF Output
    <3>2. <<c>> \o <<x, y>> = <<c, x, y>>
      <4>1. PICK a, b : a = <<c>> \o <<x, y>> /\ b = <<c, x, y>>
        BY Zenon
      <4>2. a \in Output /\ b \in Output /\ Len(a) = 3 /\ Len(b) = 3
        BY <4>1 DEF Output
      <4>3. a[1] = b[1] /\ a[2] = b[2] /\ a[3] = b[3]
        BY <4>1
      <4>4. \A i \in 1 .. 3 : i = 1 \/ i = 2 \/ i = 3
        OBVIOUS
      <4>5. \A i \in 1 .. 3 : a[i] = b[i]
        BY <4>3, <4>4, Zenon
      <4>6. 3 \in Nat
        OBVIOUS
      <4>. QED  BY <4>1, <4>2, <4>5, <4>6, SameSeq, Zenon DEF Output
    <3>. QED  BY <3>1, <3>2
  <2>3. After(t, <<c>>, v) /\ After(v, <<x, y>>, u)
    BY <1>2, <1>3, <2>1, Zenon DEF After
  <2>4. After(t, <<c>> \o <<x, y>>, u)
    BY <2>2, <2>3, AfterBoth, Zenon
  <2>. QED  BY <2>1, <2>2, <2>4, Zenon
<1>5. Shows(u.vga[u.row], s)
  <2>1. ASSUME NEW d \in Cols PROVE u.vga[u.row][d] = Cell(s, d)
    <3>1. v.vga[v.row][d] = Cell(s, d)
      BY <1>1, Zenon DEF Echoes, EchoOn, Shows
    <3>2. d = 0 => Cell(s, d) = ">"
      BY Zenon DEF Cell
    <3>3. d = 1 => Cell(s, d) = " "
      <4>1. 1 # 0
        OBVIOUS
      <4>. QED  BY <4>1, Zenon DEF Cell
    <3>. QED  BY <1>3, <3>1, <3>2, <3>3, Zenon
  <2>. QED  BY <2>1, Zenon DEF Shows
<1>6. 2 = 0 + 2 /\ Len(s) + 2 < VGA_WIDTH
  <2>1. Len(s) + 2 < VGA_WIDTH
    BY Zenon DEF Echoes, EchoOn
  <2>. QED  BY <2>1
<1>7. Echoes(u, s, 0)
  BY <1>3, <1>5, <1>6, Zenon DEF Echoes, EchoOn
<1>. QED  BY <1>4, <1>7, Zenon

LEMMA MaxOfTwo ==
  ASSUME NEW a \in Int, NEW b \in Int
  PROVE  Max({a, b}) = IF a >= b THEN a ELSE b
<1> DEFINE m == IF a >= b THEN a ELSE b
<1>1. m \in {a, b} /\ \A y \in {a, b} : m >= y
  OBVIOUS
<1>2. \A x \in {a, b} : (\A y \in {a, b} : x >= y) => x = m
  OBVIOUS
<1>. QED  BY <1>1, <1>2 DEF Max

LEMMA FromStart ==
  ASSUME NEW s \in Seq(Texts)
  PROVE  From(s, 0) = s
BY DEF From

LEMMA RedrawEdits ==
  ASSUME Induction, NEW e, NEW f, EditorOK(f), f.line = e.line,
         NEW new \in Seq(Texts), NEW cursor \in 0 .. Len(new)
  PROVE  Edits(e, RedrawLine(f, new, cursor))
<1>1. PICK s \in Seq(Texts) : s = f.line /\ s = e.line
  BY Zenon DEF EditorOK
<1>2. Len(s) \in Nat /\ Len(new) \in Nat /\ cursor \in Nat /\ cursor <= Len(new)
  <2>1. Len(s) \in Nat
    OBVIOUS
  <2>. QED  BY <2>1
<1>3. PICK most \in Nat : /\ most = Max({Len(new), Len(f.line)})
                          /\ most = IF Len(new) >= Len(s) THEN Len(new) ELSE Len(s)
  <2>1. Len(new) \in Int /\ Len(s) \in Int
    BY <1>2
  <2>2. PICK m : m = Max({Len(new), Len(s)})
    BY Zenon
  <2>3. m = IF Len(new) >= Len(s) THEN Len(new) ELSE Len(s)
    BY <2>1, <2>2, MaxOfTwo
  <2>4. m \in Nat
    BY <1>2, <2>3
  <2>. QED  BY <1>1, <2>2, <2>3, <2>4, Zenon
<1>4. PICK m \in Nat, n \in Nat :
        /\ m = most - Len(new) /\ n = most - cursor /\ Len(s) <= Len(new) + m
        /\ n <= Len(new) + m /\ Len(new) + m - n = cursor
        /\ (Len(new) + 2 < VGA_WIDTH /\ Len(s) + 2 < VGA_WIDTH => Len(new) + m + 2 < VGA_WIDTH)
  <2>1. most = IF Len(new) >= Len(s) THEN Len(new) ELSE Len(s)
    BY <1>3, Zenon
  <2>2. /\ most - Len(new) \in Nat /\ most - cursor \in Nat
        /\ Len(s) <= Len(new) + (most - Len(new)) /\ most - cursor <= Len(new) + (most - Len(new))
        /\ Len(new) + (most - Len(new)) - (most - cursor) = cursor
    BY <1>2, <2>1
  <2>3. Len(new) + 2 < VGA_WIDTH /\ Len(s) + 2 < VGA_WIDTH
          => Len(new) + (most - Len(new)) + 2 < VGA_WIDTH
    BY <1>2, <2>1, Sizes
  <2>. QED  BY <2>2, <2>3, Zenon
<1>5. PICK b \in Seq(Chars) : b = Rep(" ", m) /\ Len(b) = m /\ Blanks(b)
  <2>1. /\ Rep(" ", m) \in Seq(Chars) /\ Len(Rep(" ", m)) = m
        /\ \A i \in 1 .. m : Rep(" ", m)[i] = " "
    BY Glyphs, RepSeq, Zenon
  <2>. QED  BY <2>1, Zenon DEF Blanks
<1>6. PICK r \in Output : r = Rep("BS", n)
  BY BackKeeps, Zenon DEF Output
<1>7. PICK g \in Output : g = Glyph(new)
  BY GlyphSeq, CharsOutput, Zenon
<1>8. PICK o \in Output : o = <<"CR", ">", " ">> /\ Len(o) = 3
  <2>1. PICK c \in Chars \cup Control, x \in Chars \cup Control, y \in Chars \cup Control :
          c = "CR" /\ x = ">" /\ y = " "
    BY Glyphs, Zenon DEF Control
  <2>2. <<c, x, y>> \in Output /\ Len(<<c, x, y>>) = 3
    BY DEF Output
  <2>. QED  BY <2>1, <2>2, Zenon
<1>9. b \in Output
  BY CharsOutput, Zenon
<1>10. PICK og \in Output, ogb \in Output, all \in Output :
         og = o \o g /\ ogb = og \o b /\ all = ogb \o r /\ Len(all) # 0
  <2>1. o \o g \in Output /\ Len(o \o g) = Len(o) + Len(g) /\ Len(g) \in Nat
    BY OutputConcat, Zenon
  <2>2. PICK og \in Output : og = o \o g
    BY <2>1, Zenon
  <2>3. og \o b \in Output /\ Len(og \o b) = Len(og) + Len(b) /\ Len(b) \in Nat
    BY <1>9, OutputConcat, Zenon
  <2>4. PICK ogb \in Output : ogb = og \o b
    BY <2>3, Zenon
  <2>5. ogb \o r \in Output /\ Len(ogb \o r) = Len(ogb) + Len(r) /\ Len(r) \in Nat
    BY OutputConcat, Zenon
  <2>6. Len(og) = 3 + Len(g) /\ Len(ogb) = Len(og) + Len(b)
    BY <1>8, <2>1, <2>2, <2>3, <2>4, Zenon
  <2>7. Len(ogb \o r) # 0
    BY <2>1, <2>3, <2>5, <2>6
  <2>. QED  BY <2>2, <2>4, <2>5, <2>7, Zenon
<1>11. PICK d : d = RedrawLine(f, new, cursor)
  BY Zenon
<1>12. DOMAIN d = DOMAIN f /\ d.hist = f.hist /\ d.line = new /\ d.pos = cursor /\ d.out = all
  <2>1. d = [f EXCEPT !.line = new, !.pos = cursor, !.out = all]
    BY <1>3, <1>4, <1>5, <1>6, <1>7, <1>8, <1>10, <1>11, Zenon DEF RedrawLine
  <2>. QED  BY <2>1 DEF EditorOK
<1>13. EditorOK(d)
  <2>1. d.hist = f.hist /\ HistTyped(f.hist) /\ DOMAIN d = {"line", "pos", "hist", "out"}
    BY <1>12, Zenon DEF EditorOK
  <2>2. d.line \in Seq(Texts) /\ d.pos \in 0 .. Len(d.line) /\ d.out \in Output
    BY <1>12
  <2>. QED  BY <2>1, <2>2, Zenon DEF EditorOK
<1>14. Draws(e, d)
  <2>1. SUFFICES ASSUME NEW t \in Terminals, Echoes(t, s, e.pos), Len(new) + 2 < VGA_WIDTH
                 PROVE  Echoes(RawPuts(t, all), new, cursor)
    BY <1>1, <1>12, Zenon DEF Draws
  <2>2. PICK u \in Terminals : After(t, o, u) /\ Echoes(u, s, 0)
    BY <1>8, <2>1, PromptAgain, Zenon
  <2>3. PICK v1, v2, v3 : After(u, g, v1) /\ After(v1, b, v2) /\ After(v2, r, v3)
    BY Zenon DEF After
  <2>4. After(t, all, v3)
    <3>1. After(t, og, v1)
      BY <1>10, <2>2, <2>3, AfterBoth, Zenon
    <3>2. After(t, ogb, v2)
      BY <1>9, <1>10, <2>3, <3>1, AfterBoth, Zenon
    <3>. QED  BY <1>10, <2>3, <3>2, AfterBoth, Zenon
  <2>5. Len(s) + 2 < VGA_WIDTH
    BY <2>1, Zenon DEF Echoes, EchoOn
  <2>6. /\ 0 <= Len(new) /\ 0 <= Len(s) /\ 0 \in Nat /\ 1 .. 0 = {}
    BY <1>2
  <2>7. /\ Len(s) <= Len(new) + Len(b) /\ n <= Len(new) + Len(b)
        /\ Len(new) + Len(b) + 2 < VGA_WIDTH
    BY <1>4, <1>5, <2>1, <2>5, Zenon
  <2>8. Blanks(b) /\ Begin(s, new, 0)
    BY <1>5, <2>6, Zenon DEF Begin
  <2>9. Echoes(RawPuts(RawPuts(RawPuts(u, Glyph(From(new, 0))), b), Rep("BS", n)),
               new, Len(new) + Len(b) - n)
    BY <2>2, <2>6, <2>7, <2>8, RedrawFrom, Zenon
  <2>10. From(new, 0) = new
    BY FromStart, Zenon
  <2>11. Len(new) + Len(b) - n = cursor
    BY <1>4, <1>5, Zenon
  <2>. QED  BY <1>6, <1>7, <2>3, <2>4, <2>9, <2>10, <2>11, Zenon DEF After
<1>. QED  BY <1>10, <1>11, <1>12, <1>13, <1>14, Zenon DEF Edits

\* No backspace, and one.
LEMMA FewBacks == Rep("BS", 0) = << >> /\ Rep("BS", 1) = <<"BS">>
<1>1. PICK x : x = "BS"
  BY Zenon
<1>2. Rep(x, 0) \in Seq({x}) /\ Len(Rep(x, 0)) = 0 /\ << >> \in Seq({x}) /\ Len(<< >>) = 0
  BY DEF Rep
<1>3. /\ Rep(x, 1) \in Seq({x}) /\ Len(Rep(x, 1)) = 1 /\ Rep(x, 1)[1] = x
      /\ <<x>> \in Seq({x}) /\ Len(<<x>>) = 1 /\ <<x>>[1] = x
  BY DEF Rep
<1>4. 0 \in Nat /\ 1 \in Nat /\ 1 .. 0 = {} /\ \A i \in 1 .. 1 : i = 1
  OBVIOUS
<1>5. Rep(x, 0) = << >>
  BY <1>2, <1>4, SameSeq, Zenon
<1>6. Rep(x, 1) = <<x>>
  BY <1>3, <1>4, SameSeq, Zenon
<1>. QED  BY <1>1, <1>5, <1>6, Zenon

\* The cursor moves n columns back.
LEMMA BackEdits ==
  ASSUME Induction, NEW e, EditorOK(e), NEW n \in 0 .. e.pos
  PROVE  Edits(e, [e EXCEPT !.pos = e.pos - n, !.out = Rep("BS", n)])
<1>1. PICK s \in Seq(Texts), p \in Nat : s = e.line /\ p = e.pos /\ p \in 0 .. Len(s)
  <2>1. e.line \in Seq(Texts) /\ e.pos \in Nat /\ e.pos \in 0 .. Len(e.line)
    BY DEF EditorOK
  <2>. QED  BY <2>1, Zenon
<1>2. n \in Nat /\ p - n \in 0 .. Len(s) /\ n \in 0 .. p
  <2>1. n \in 0 .. p /\ p \in 0 .. Len(s)
    BY <1>1, Zenon
  <2>. QED  BY <2>1
<1>3. PICK r \in Output : r = Rep("BS", n) /\ Len(r) = n
  <2>1. PICK x \in Chars \cup Control : x = "BS"
    BY Zenon DEF Control
  <2>2. Rep(x, n) \in Output /\ Len(Rep(x, n)) = n
    BY <1>2, RepSeq, Zenon DEF Output
  <2>. QED  BY <2>1, <2>2, Zenon
<1>0. PICK d : d = [e EXCEPT !.pos = e.pos - n, !.out = Rep("BS", n)]
  BY Zenon
<1>4. DOMAIN d = DOMAIN e /\ d.hist = e.hist /\ d.line = s /\ d.pos = p - n /\ d.out = r
  <2>1. d = [e EXCEPT !.pos = p - n, !.out = r]
    BY <1>0, <1>1, <1>3, Zenon
  <2>. QED  BY <1>1, <2>1 DEF EditorOK
<1>5. EditorOK(d)
  <2>1. d.hist = e.hist /\ HistTyped(e.hist) /\ DOMAIN d = {"line", "pos", "hist", "out"}
    BY <1>4, Zenon DEF EditorOK
  <2>2. d.line \in Seq(Texts) /\ d.pos \in 0 .. Len(d.line) /\ d.out \in Output
    BY <1>2, <1>4
  <2>. QED  BY <2>1, <2>2, Zenon DEF EditorOK
<1>6. Draws(e, d)
  <2>1. SUFFICES ASSUME NEW t \in Terminals, Echoes(t, s, p)
                 PROVE  Echoes(RawPuts(t, r), s, p - n)
    BY <1>1, <1>4, Zenon DEF Draws
  <2>. QED  BY <1>2, <1>3, <2>1, BackEcho, Zenon
<1>7. Len(d.out) = 0 => d.pos = e.pos
  BY <1>1, <1>2, <1>3, <1>4
<1>. QED  BY <1>0, <1>1, <1>4, <1>5, <1>6, <1>7, Zenon DEF Edits

LEMMA LeftEdits ==
  ASSUME Induction, NEW e, EditorOK(e), e.pos > 0
  PROVE  Edits(e, [e EXCEPT !.pos = @ - 1, !.out = <<"BS">>])
<1>1. 1 \in 0 .. e.pos
  BY DEF EditorOK
<1>. QED  BY <1>1, FewBacks, BackEdits, Zenon

LEMMA HomeEdits ==
  ASSUME Induction, NEW e, EditorOK(e)
  PROVE  Edits(e, [e EXCEPT !.pos = 0, !.out = Rep("BS", e.pos)])
<1>1. e.pos \in 0 .. e.pos /\ e.pos - e.pos = 0
  BY DEF EditorOK
<1>. QED  BY <1>1, BackEdits, Zenon

LEMMA EndEdits ==
  ASSUME Induction, NEW e, EditorOK(e)
  PROVE  Edits(e, [e EXCEPT !.pos = Len(e.line), !.out = Glyph(From(e.line, e.pos))])
<1>1. PICK s \in Seq(Texts), p \in Nat : s = e.line /\ p = e.pos /\ p \in 0 .. Len(s)
  <2>1. e.line \in Seq(Texts) /\ e.pos \in Nat /\ e.pos \in 0 .. Len(e.line)
    BY DEF EditorOK
  <2>. QED  BY <2>1, Zenon
<1>2. Len(s) \in Nat /\ p <= Len(s) /\ Len(s) <= Len(s) /\ Len(s) \in 0 .. Len(s) /\ Len(s) - 0 = Len(s)
  BY <1>1
<1>3. PICK g \in Output : g = Glyph(From(s, p)) /\ Len(g) = Len(s) - p
  <2>1. From(s, p) \in Seq(Texts) /\ Len(From(s, p)) = Len(s) - p
    BY <1>1, FromSeq
  <2>2. PICK f \in Seq(Texts) : f = From(s, p) /\ Len(f) = Len(s) - p
    BY <2>1, Zenon
  <2>3. Glyph(f) \in Seq(Chars) /\ Len(Glyph(f)) = Len(f)
    BY GlyphSeq, Zenon
  <2>. QED  BY <2>2, <2>3, CharsOutput, Zenon
<1>4. PICK d : d = [e EXCEPT !.pos = Len(e.line), !.out = Glyph(From(e.line, e.pos))]
  BY Zenon
<1>5. DOMAIN d = DOMAIN e /\ d.hist = e.hist /\ d.line = s /\ d.pos = Len(s) /\ d.out = g
  <2>1. d = [e EXCEPT !.pos = Len(s), !.out = g]
    BY <1>1, <1>3, <1>4, Zenon
  <2>. QED  BY <1>1, <2>1 DEF EditorOK
<1>6. EditorOK(d)
  <2>1. d.hist = e.hist /\ HistTyped(e.hist) /\ DOMAIN d = {"line", "pos", "hist", "out"}
    BY <1>5, Zenon DEF EditorOK
  <2>2. d.line \in Seq(Texts) /\ d.pos \in 0 .. Len(d.line) /\ d.out \in Output
    BY <1>2, <1>5
  <2>. QED  BY <2>1, <2>2, Zenon DEF EditorOK
<1>7. Draws(e, d)
  <2>1. SUFFICES ASSUME NEW t \in Terminals, Echoes(t, s, p), Len(s) + 2 < VGA_WIDTH
                 PROVE  Echoes(RawPuts(t, g), s, Len(s))
    BY <1>1, <1>5, Zenon DEF Draws
  <2>2. Begin(s, s, p) /\ 0 \in Nat /\ 0 <= Len(s)
    BY <1>2 DEF Begin
  <2>3. Echoes(RawPuts(RawPuts(t, Glyph(From(s, p))), Rep("BS", 0)), s, Len(s) - 0)
    BY <1>2, <2>1, <2>2, RedrawExact, Zenon
  <2>4. PICK u : u = RawPuts(t, g)
    BY Zenon
  <2>5. RawPuts(u, Rep("BS", 0)) = u
    BY FewBacks, RawPutsNothing, Zenon
  <2>. QED  BY <1>2, <1>3, <2>3, <2>4, <2>5, Zenon
<1>8. Len(d.out) = 0 => d.pos = e.pos
  <2>1. Len(g) = 0 => Len(s) = p
    BY <1>1, <1>2, <1>3
  <2>. QED  BY <1>1, <1>5, <2>1, Zenon
<1>. QED  BY <1>1, <1>4, <1>5, <1>6, <1>7, <1>8, Zenon DEF Edits

LEMMA RightEdits ==
  ASSUME Induction, NEW e, EditorOK(e), e.pos < Len(e.line)
  PROVE  Edits(e, [e EXCEPT !.pos = @ + 1, !.out = Glyph(<<e.line[e.pos + 1]>>)])
<1>1. PICK s \in Seq(Texts), p \in Nat : s = e.line /\ p = e.pos /\ p < Len(s) /\ Len(s) \in Nat
  <2>1. e.line \in Seq(Texts) /\ e.pos \in Nat
    BY DEF EditorOK
  <2>2. Len(e.line) \in Nat
    BY <2>1
  <2>. QED  BY <2>1, <2>2, Zenon
<1>2. PICK x \in Texts : x = s[p + 1]
  <2>1. s[p + 1] \in Texts
    BY <1>1
  <2>. QED  BY <2>1, Zenon
<1>3. PICK g \in Seq(Chars) : g = Glyph(<<x>>) /\ Len(g) = 1 /\ g[1] = GlyphOf(x)
  <2>1. <<x>> \in Seq(Texts) /\ Len(<<x>>) = 1 /\ <<x>>[1] = x /\ 1 \in 1 .. 1
    OBVIOUS
  <2>2. PICK f \in Seq(Texts) : f = <<x>> /\ Len(f) = 1 /\ f[1] = x
    BY <2>1, Zenon
  <2>3. /\ Glyph(f) \in Seq(Chars) /\ Len(Glyph(f)) = Len(f)
        /\ \A i \in 1 .. Len(f) : Glyph(f)[i] = GlyphOf(f[i])
    BY GlyphSeq, Zenon
  <2>4. Glyph(f)[1] = GlyphOf(x)
    BY <2>1, <2>2, <2>3, Zenon
  <2>. QED  BY <2>2, <2>3, <2>4, Zenon
<1>4. PICK d : d = [e EXCEPT !.pos = @ + 1, !.out = Glyph(<<e.line[e.pos + 1]>>)]
  BY Zenon
<1>5. DOMAIN d = DOMAIN e /\ d.hist = e.hist /\ d.line = s /\ d.pos = p + 1 /\ d.out = g
  <2>1. d = [e EXCEPT !.pos = p + 1, !.out = g]
    BY <1>1, <1>2, <1>3, <1>4, Zenon
  <2>. QED  BY <1>1, <2>1 DEF EditorOK
<1>6. EditorOK(d)
  <2>1. d.hist = e.hist /\ HistTyped(e.hist) /\ DOMAIN d = {"line", "pos", "hist", "out"}
    BY <1>5, Zenon DEF EditorOK
  <2>2. p + 1 \in 0 .. Len(s)
    BY <1>1
  <2>3. d.line \in Seq(Texts) /\ d.pos \in 0 .. Len(d.line) /\ d.out \in Output
    BY <1>5, <2>2, CharsOutput, Zenon
  <2>. QED  BY <2>1, <2>3, Zenon DEF EditorOK
<1>7. Draws(e, d)
  <2>1. SUFFICES ASSUME NEW t \in Terminals, Echoes(t, s, p), Len(s) + 2 < VGA_WIDTH
                 PROVE  Echoes(RawPuts(t, g), s, p + 1)
    BY <1>1, <1>5, Zenon DEF Draws
  <2>2. t.col = p + 2 /\ Shows(t.vga[t.row], s)
    BY <2>1, Zenon DEF Echoes, EchoOn
  <2>3. PICK u : u = RawPuts(t, g) /\ Printed(t, u, g)
    <3>1. t.col + Len(g) < VGA_WIDTH
      <4>1. Len(g) = 1
        BY <1>3, Zenon
      <4>. QED  BY <1>1, <2>1, <2>2, <4>1, Sizes
    <3>. QED  BY <3>1, PrintRow, Zenon
  <2>4. u.col = (p + 1) + 2
    <3>1. u.col = t.col + Len(g) /\ Len(g) = 1
      BY <1>3, <2>3, Zenon DEF Printed
    <3>. QED  BY <2>2, <3>1
  <2>5. ASSUME NEW c \in Cols PROVE u.vga[u.row][c] = Cell(s, c)
    <3>1. /\ u.vga[u.row][c] = IF t.col <= c /\ c < t.col + Len(g) THEN g[c - t.col + 1]
                               ELSE t.vga[t.row][c]
          /\ t.vga[t.row][c] = Cell(s, c)
      BY <2>2, <2>3, Zenon DEF Printed, Over, Shows
    <3>2. Len(g) = 1 /\ t.col = p + 2 /\ c \in Nat
      <4>1. c \in Nat
        BY Sizes DEF Cols
      <4>. QED  BY <1>3, <2>2, <4>1, Zenon
    <3>3. CASE c = p + 2
      <4>1. /\ t.col <= c /\ c < t.col + Len(g) /\ c - t.col + 1 = 1 /\ c \in 2 .. Len(s) + 1
            /\ c - 1 = p + 1
        BY <1>1, <3>2, <3>3
      <4>2. Cell(s, c) = GlyphOf(s[c - 1])
        BY <3>2, <4>1, CellIs, Zenon
      <4>. QED  BY <1>2, <1>3, <3>1, <4>1, <4>2, Zenon
    <3>4. CASE c # p + 2
      <4>1. ~(t.col <= c /\ c < t.col + Len(g))
        BY <1>1, <3>2, <3>4
      <4>. QED  BY <3>1, <4>1, Zenon
    <3>. QED  BY <3>3, <3>4
  <2>6. Echoes(u, s, p + 1)
    BY <2>1, <2>4, <2>5, Zenon DEF Echoes, EchoOn, Shows
  <2>. QED  BY <2>3, <2>6, Zenon
<1>8. Len(d.out) # 0
  <2>1. 1 # 0
    OBVIOUS
  <2>. QED  BY <1>3, <1>5, <2>1, Zenon
<1>. QED  BY <1>4, <1>6, <1>7, <1>8, Zenon DEF Edits

\* The keys that change the line.
LEMMA BackspaceEdits ==
  ASSUME Induction, NEW e, EditorOK(e), e.pos > 0
  PROVE  Edits(e, LineDelete([e EXCEPT !.pos = @ - 1, !.out = <<"BS">>], e.pos - 1))
<1>1. PICK f : f = [e EXCEPT !.pos = @ - 1, !.out = <<"BS">>]
  BY Zenon
<1>2. EditorOK(f) /\ Draws(e, f)
  BY <1>1, LeftEdits, Zenon DEF Edits
<1>3. f.line = e.line /\ f.pos = e.pos - 1
  <2>1. PICK o : o = <<"BS">>
    BY Zenon
  <2>2. f = [e EXCEPT !.pos = @ - 1, !.out = o]
    BY <1>1, <2>1, Zenon
  <2>. QED  BY <2>2 DEF EditorOK
<1>4. f.pos < Len(f.line)
  BY <1>3 DEF EditorOK
<1>. QED  BY <1>1, <1>2, <1>3, <1>4, DeleteEdits, Zenon

LEMMA ClearEdits ==
  ASSUME Induction, NEW e, EditorOK(e), NEW from \in 0 .. Len(e.line)
  PROVE  Edits(e, ClearRange(e, from))
<1>1. PICK s \in Seq(Texts) : s = e.line
  BY Zenon DEF EditorOK
<1>2. SubSeq(s, 1, from) \in Seq(Texts) /\ Len(SubSeq(s, 1, from)) = from
  BY <1>1, CutSeq, Zenon
<1>3. from \in 0 .. from
  BY <1>1
<1>. QED  BY <1>1, <1>2, <1>3, RedrawEdits, Zenon DEF ClearRange

\* A place in the history: none, or that of an entry.
Place(h, i) ==
  i = -1 \/ \E j \in 1 .. h.count : i = (h.head - j + HISTORY_MAX) % HISTORY_MAX

LEMMA PlaceKeeps ==
  ASSUME NEW e, EditorOK(e), NEW i, Place(e.hist, i)
  PROVE  EditorOK([e EXCEPT !.hist.pos = i]) /\ [e EXCEPT !.hist.pos = i].line = e.line
<1>1. PICK f : f = [e EXCEPT !.hist.pos = i]
  BY Zenon
<1>2. Editor(f)
  BY <1>1, PosKeeps, Zenon DEF EditorOK, HistTyped, Editor
<1>3. /\ DOMAIN f = DOMAIN e /\ f.hist = [e.hist EXCEPT !.pos = i]
      /\ f.line = e.line /\ f.pos = e.pos /\ f.out = e.out
  BY <1>1 DEF EditorOK
<1>4. /\ f.hist.pos = i /\ f.hist.buf = e.hist.buf /\ f.hist.head = e.hist.head
      /\ f.hist.count = e.hist.count
  BY <1>3 DEF EditorOK, HistTyped, HistOK
<1>5. HistTyped(f.hist)
  BY <1>2, <1>4, Zenon DEF Editor, HistTyped, Place, EditorOK
<1>. QED  BY <1>1, <1>3, <1>5, Zenon DEF EditorOK

LEMMA LoadEdits ==
  ASSUME Induction, NEW e, EditorOK(e), NEW i \in 0 .. HISTORY_MAX - 1, Place(e.hist, i)
  PROVE  Edits(e, LoadHistory(e, i))
<1>1. PICK s \in Seq(Texts) : s = e.hist.buf[i]
  <2>1. e.hist.buf \in [0 .. HISTORY_MAX - 1 -> Seq(Texts)]
    BY Zenon DEF EditorOK, HistTyped
  <2>. QED  BY <2>1, Zenon
<1>2. Len(s) \in 0 .. Len(s)
  OBVIOUS
<1>. QED  BY <1>1, <1>2, PlaceKeeps, RedrawEdits, Zenon DEF LoadHistory

LEMMA HistoryUpEdits ==
  ASSUME Induction, NEW e, EditorOK(e), e.out = << >>
  PROVE  Edits(e, HistoryUp(e))
<1>1. PICK h : h = e.hist
  BY Zenon
<1>2. /\ HISTORY_MAX \in Nat \ {0} /\ h.count \in 0 .. HISTORY_MAX
      /\ h.head \in 0 .. HISTORY_MAX - 1 /\ Place(h, h.pos)
  BY <1>1, KeyboardAssumption, Zenon DEF EditorOK, HistTyped, HistOK, Place
<1>3. CASE h.pos = -1 /\ h.count = 0
  BY <1>1, <1>3, EditsNothing, Zenon DEF HistoryUp
<1>4. CASE h.pos = -1 /\ h.count # 0
  <2>1. 1 \in 1 .. h.count
    BY <1>2, <1>4
  <2>2. (h.head - 1 + HISTORY_MAX) % HISTORY_MAX \in 0 .. HISTORY_MAX - 1
    BY <1>2
  <2>3. Place(h, (h.head - 1 + HISTORY_MAX) % HISTORY_MAX)
    BY <2>1, Zenon DEF Place
  <2>4. HistoryUp(e) = LoadHistory(e, (h.head - 1 + HISTORY_MAX) % HISTORY_MAX)
    BY <1>1, <1>4, Zenon DEF HistoryUp
  <2>. QED  BY <1>1, <2>2, <2>3, <2>4, LoadEdits, Zenon
<1>5. CASE h.pos # -1 /\ h.pos = (h.head - h.count + HISTORY_MAX) % HISTORY_MAX
  BY <1>1, <1>5, EditsNothing, Zenon DEF HistoryUp
<1>6. CASE h.pos # -1 /\ h.pos # (h.head - h.count + HISTORY_MAX) % HISTORY_MAX
  <2>1. PICK j \in 1 .. h.count : h.pos = (h.head - j + HISTORY_MAX) % HISTORY_MAX
    BY <1>2, <1>6, Zenon DEF Place
  <2>2. j + 1 \in 1 .. h.count /\ j \in 1 .. HISTORY_MAX /\ j + 1 \in 1 .. HISTORY_MAX
    <3>1. j # h.count
      BY <1>6, <2>1, Zenon
    <3>2. h.count \in 0 .. HISTORY_MAX /\ HISTORY_MAX \in Nat \ {0}
      BY <1>2, Zenon
    <3>. QED  BY <3>1, <3>2
  <2>3. h.pos = (IF j <= h.head THEN h.head - j ELSE h.head - j + HISTORY_MAX)
    BY <1>2, <2>1, <2>2, ModBack, Zenon
  <2>4. (h.head - (j + 1) + HISTORY_MAX) % HISTORY_MAX
          = IF j + 1 <= h.head THEN h.head - (j + 1) ELSE h.head - (j + 1) + HISTORY_MAX
    BY <1>2, <2>2, ModBack, Zenon
  <2>5. /\ h.pos \in 0 .. HISTORY_MAX - 1
        /\ 1 \in 1 .. HISTORY_MAX
    BY <1>2, <2>2, <2>3
  <2>6. (h.pos - 1 + HISTORY_MAX) % HISTORY_MAX
          = IF 1 <= h.pos THEN h.pos - 1 ELSE h.pos - 1 + HISTORY_MAX
    BY <1>2, <2>5, ModBack, Zenon
  <2>7. /\ (h.pos - 1 + HISTORY_MAX) % HISTORY_MAX
             = (h.head - (j + 1) + HISTORY_MAX) % HISTORY_MAX
        /\ (h.pos - 1 + HISTORY_MAX) % HISTORY_MAX \in 0 .. HISTORY_MAX - 1
    <3>1. PICK n \in Nat \ {0}, k \in Int, p \in Int :
            n = HISTORY_MAX /\ k = h.head /\ p = h.pos /\ k \in 0 .. n - 1
      <4>1. h.head \in Int /\ h.pos \in Int
        BY <1>2, <2>5
      <4>. QED  BY <1>2, <4>1, Zenon
    <3>2. PICK a, b : /\ a = (p - 1 + n) % n /\ b = (k - (j + 1) + n) % n
                      /\ a = IF 1 <= p THEN p - 1 ELSE p - 1 + n
                      /\ b = IF j + 1 <= k THEN k - (j + 1) ELSE k - (j + 1) + n
      BY <2>4, <2>6, <3>1, Zenon
    <3>3. /\ p = IF j <= k THEN k - j ELSE k - j + n
          /\ a = IF 1 <= p THEN p - 1 ELSE p - 1 + n
          /\ b = IF j + 1 <= k THEN k - (j + 1) ELSE k - (j + 1) + n
          /\ j \in 1 .. n /\ j + 1 \in 1 .. n /\ k \in 0 .. n - 1
      BY <2>2, <2>3, <3>1, <3>2, Zenon
    <3>4. a = b /\ a \in 0 .. n - 1
      <4>1. j \in Nat
        BY <3>3
      <4>2. CASE j <= k /\ j + 1 <= k
        BY <3>3, <4>1, <4>2
      <4>3. CASE j <= k /\ ~(j + 1 <= k)
        BY <3>3, <4>1, <4>3
      <4>4. CASE ~(j <= k)
        BY <3>3, <4>1, <4>4
      <4>. QED  BY <4>2, <4>3, <4>4
    <3>. QED  BY <3>1, <3>2, <3>4, Zenon
  <2>8. Place(h, (h.pos - 1 + HISTORY_MAX) % HISTORY_MAX)
    BY <2>2, <2>7, Zenon DEF Place
  <2>9. HistoryUp(e) = LoadHistory(e, (h.pos - 1 + HISTORY_MAX) % HISTORY_MAX)
    BY <1>1, <1>6, Zenon DEF HistoryUp
  <2>. QED  BY <1>1, <2>7, <2>8, <2>9, LoadEdits, Zenon
<1>. QED  BY <1>3, <1>4, <1>5, <1>6

LEMMA HistoryDownEdits ==
  ASSUME Induction, NEW e, EditorOK(e), e.out = << >>
  PROVE  Edits(e, HistoryDown(e))
<1>1. << >> \in Seq(Texts) /\ 0 \in 0 .. Len(<< >>)
  OBVIOUS
<1>2. Place(e.hist, -1)
  BY Zenon DEF Place
<1>3. Edits(e, RedrawLine([e EXCEPT !.hist.pos = -1], << >>, 0))
  BY <1>1, <1>2, PlaceKeeps, RedrawEdits, Zenon
<1>. QED  BY <1>3, EditsNothing, Zenon DEF HistoryDown

LEMMA CursorEdits ==
  ASSUME Induction, NEW e, EditorOK(e), e.out = << >>
  PROVE  Edits(e, Left(e)) /\ Edits(e, Right(e))
BY LeftEdits, RightEdits, EditsNothing, Zenon DEF Left, Right

\* What a character makes of a line that is on the screen is on the screen.
LEMMA EditedEdits ==
  ASSUME Induction, NEW e, EditorOK(e), e.out = << >>, NEW ch \in Texts
  PROVE  Edits(e, Edited(e, ch))
<1>1. e.line \in Seq(Texts) /\ e.pos \in 0 .. Len(e.line) /\ 0 \in 0 .. Len(e.line)
  BY DEF EditorOK
<1>2. Draws(e, e) /\ Edits(e, e)
  BY EditsNothing, Zenon DEF Edits
<1>3. e.pos < Len(e.line) => Edits(e, LineDelete(e, e.pos))
  BY <1>2, DeleteEdits, Zenon
<1>4. Edits(e, ClearRange(e, e.pos)) /\ Edits(e, ClearRange(e, 0))
  BY <1>1, ClearEdits, Zenon
<1>5. Edits(e, LineInsert(e, e.pos, ch))
  BY InsertEdits, Zenon
<1>6. Edits(e, HistoryUp(e)) /\ Edits(e, HistoryDown(e)) /\ Edits(e, Left(e)) /\ Edits(e, Right(e))
  BY HistoryUpEdits, HistoryDownEdits, CursorEdits, Zenon
<1>7. /\ Edits(e, [e EXCEPT !.pos = 0, !.out = Rep("BS", e.pos)])
      /\ Edits(e, [e EXCEPT !.pos = Len(e.line), !.out = Glyph(From(e.line, e.pos))])
  BY HomeEdits, EndEdits, Zenon
<1>8. e.pos > 0 => Edits(e, LineDelete([e EXCEPT !.pos = @ - 1, !.out = <<"BS">>], e.pos - 1))
  BY BackspaceEdits, Zenon
<1>. QED  BY <1>2, <1>3, <1>4, <1>5, <1>6, <1>7, <1>8, Zenon DEF Edited

-----------------------------------------------------------------------------
(* The scrollback view hides the row and gives it back.                    *)

LEMMA LineInRing ==
  ASSUME NEW t \in Terminals, NEW n \in 1 .. t.count
  PROVE  ScrollbackLine(t, n) \in Line
<1>1. /\ t.head \in 0 .. SCROLLBACK_LINES - 1 /\ n \in 1 .. SCROLLBACK_LINES
      /\ t.buf \in [0 .. SCROLLBACK_LINES - 1 -> Line] /\ SCROLLBACK_LINES \in Nat \ {0}
  BY Sizes DEF Terminals
<1>2. t.head - n + SCROLLBACK_LINES \in Int
  BY <1>1
<1>3. (t.head - n + SCROLLBACK_LINES) % SCROLLBACK_LINES \in 0 .. SCROLLBACK_LINES - 1
  BY <1>1, <1>2, ModRange, Zenon
<1>. QED  BY <1>1, <1>3, Zenon DEF ScrollbackLine

LEMMA ViewKeeps ==
  ASSUME NEW t \in Terminals, NEW wanted \in 1 .. t.count
  PROVE  \E u \in Terminals :
           /\ u = ScrollbackShow(t, wanted) /\ u.active /\ u.saved = Under(t)
           /\ u.offset \in 1 .. u.count /\ u.row = t.row /\ u.col = t.col
<1>1. PICK VH \in Nat \ {0}, n \in Nat \ {0} :
        VH = SCROLLBACK_VIEW_HEIGHT /\ n = t.count /\ wanted \in 1 .. n
  <2>1. SCROLLBACK_VIEW_HEIGHT \in Nat \ {0} /\ t.count \in Nat \ {0}
    BY Sizes DEF Terminals, SCROLLBACK_VIEW_HEIGHT
  <2>. QED  BY <2>1, Zenon
<1>2. PICK top, bottom :
        /\ top = Top(t, Min({wanted, t.count}))
        /\ bottom = Max({top - SCROLLBACK_VIEW_HEIGHT + 1, 1})
  BY Zenon
<1>3. top \in 1 .. n /\ bottom \in 1 .. top
  <2>1. Min({wanted, n}) = wanted
    <3>1. wanted \in Int /\ n \in Int /\ wanted <= n
      BY <1>1
    <3>. QED  BY <3>1, MinOfTwo
  <2>2. top = IF wanted + VH - 1 <= n THEN wanted + VH - 1 ELSE n
    <3>1. wanted + VH - 1 \in Int /\ n \in Int
      BY <1>1
    <3>2. Min({wanted + VH - 1, n}) = IF wanted + VH - 1 <= n THEN wanted + VH - 1 ELSE n
      BY <3>1, MinOfTwo
    <3>. QED  BY <1>1, <1>2, <2>1, <3>2, Zenon DEF Top
  <2>3. top \in 1 .. n
    BY <1>1, <2>2
  <2>4. bottom = IF top - VH + 1 >= 1 THEN top - VH + 1 ELSE 1
    <3>1. top - VH + 1 \in Int /\ 1 \in Int
      BY <2>3
    <3>2. Max({top - VH + 1, 1}) = IF top - VH + 1 >= 1 THEN top - VH + 1 ELSE 1
      BY <3>1, MaxOfTwo
    <3>. QED  BY <1>1, <1>2, <3>2, Zenon
  <2>. QED  BY <2>3, <2>4
<1>4. PICK vga : vga = [r \in 0 .. ROWS |-> ShownRow(t, top, bottom, r)]
  BY Zenon
<1>5. vga \in Screens
  <2>1. ASSUME NEW r \in 0 .. ROWS PROVE ShownRow(t, top, bottom, r) \in Line
    <3>1. CASE r = 0
      <4>1. [c \in Cols |-> "status"] \in Line
        BY Zenon DEF Line
      <4>2. ShownRow(t, top, bottom, r) = [c \in Cols |-> "status"]
        BY <3>1, Sizes DEF ShownRow
      <4>. QED  BY <4>1, <4>2, Zenon
    <3>2. CASE r # 0 /\ r = ROWS
      <4>1. t.vga[r] \in Line
        <5>1. t.vga \in Screens
          BY DEF Terminals
        <5>. QED  BY <5>1, Zenon DEF Screens
      <4>. QED  BY <3>2, <4>1, Zenon DEF ShownRow
    <3>3. CASE r # 0 /\ r # ROWS
      <4>1. Blank \in Line
        BY Glyphs, Zenon DEF Blank, Line
      <4>2. ASSUME ~(top - (r - 1) > t.count \/ top - (r - 1) < bottom)
            PROVE  ScrollbackLine(t, top - (r - 1)) \in Line
        <5>1. ~(top - (r - 1) > n \/ top - (r - 1) < bottom)
          BY <1>1, <4>2, Zenon
        <5>2. top - (r - 1) \in 1 .. n
          BY <1>3, <5>1, Sizes
        <5>. QED  BY <1>1, <5>2, LineInRing, Zenon
      <4>. QED  BY <3>3, <4>1, <4>2, Zenon DEF ShownRow
    <3>. QED  BY <3>1, <3>2, <3>3
  <2>. QED  BY <1>4, <2>1, Zenon DEF Screens
<1>6. Under(t) \in Lines
  BY Sizes DEF Under, Terminals, Lines, Screens
<1>7. PICK u : /\ u = ScrollbackShow(t, wanted)
               /\ u = [t EXCEPT !.saved = Under(t), !.vga = vga, !.active = TRUE,
                                !.offset = bottom, !.shown = FALSE]
  <2>1. ~(wanted < 1)
    BY <1>1
  <2>. QED  BY <1>2, <1>4, <2>1, Zenon DEF ScrollbackShow
<1>8. bottom \in Nat
  BY <1>3
<1>9. u \in Terminals
  BY <1>5, <1>6, <1>7, <1>8, Zenon DEF Terminals
<1>10. /\ u.active /\ u.offset = bottom /\ u.saved = Under(t) /\ u.count = t.count
       /\ u.row = t.row /\ u.col = t.col
  BY <1>7 DEF Terminals
<1>11. u.offset \in 1 .. u.count
  <2>1. bottom \in 1 .. n
    BY <1>3
  <2>. QED  BY <1>1, <1>10, <2>1, Zenon
<1>. QED  BY <1>7, <1>9, <1>10, <1>11, Zenon

LEMMA ExitKeeps ==
  ASSUME NEW t \in Terminals, t.active
  PROVE  \E u \in Terminals :
           /\ u = ScrollbackExit(t) /\ ~u.active /\ u.offset = 0 /\ u.row = t.row /\ u.col = t.col
           /\ \A r \in 0 .. ROWS - 1 : u.vga[r] = t.saved[r]
<1>1. /\ ROWS \in Nat \ {0, 1} /\ t.vga \in Screens /\ t.saved \in Lines
  BY Sizes DEF Terminals
<1>2. PICK vga \in Screens : vga = [r \in 0 .. ROWS |-> IF r < ROWS THEN t.saved[r] ELSE t.vga[r]]
  <2>1. ASSUME NEW r \in 0 .. ROWS
        PROVE  (IF r < ROWS THEN t.saved[r] ELSE t.vga[r]) \in Line
    <3>1. r < ROWS => r \in 0 .. ROWS - 1
      BY <1>1
    <3>. QED  BY <1>1, <3>1 DEF Screens, Lines
  <2>. QED  BY <2>1, Zenon DEF Screens
<1>3. ScrollbackExit(t) = [t EXCEPT !.active = FALSE, !.offset = 0, !.shown = TRUE, !.vga = vga]
  BY <1>2 DEF ScrollbackExit
<1>4. PICK u : u = ScrollbackExit(t)
  BY Zenon
<1>5. u = [t EXCEPT !.active = FALSE, !.offset = 0, !.shown = TRUE, !.vga = vga]
  BY <1>3, <1>4, Zenon
<1>6. u \in Terminals
  <2>1. 0 \in Nat
    OBVIOUS
  <2>. QED  BY <1>5, <2>1, Zenon DEF Terminals
<1>7. ~u.active /\ u.offset = 0 /\ u.row = t.row /\ u.col = t.col /\ u.vga = vga
  BY <1>5 DEF Terminals
<1>8. \A r \in 0 .. ROWS - 1 : vga[r] = t.saved[r]
  BY <1>1, <1>2
<1>. QED  BY <1>4, <1>6, <1>7, <1>8, Zenon

\* What scrolling does not touch: the cursor, and the rows under the view.
SameRow(t, u) == u.row = t.row /\ u.col = t.col /\ Under(u)[u.row] = Under(t)[t.row]

LEMMA ScrolledKeeps ==
  ASSUME NEW t \in Terminals, ViewOK(t), NEW wanted \in 0 .. t.count
  PROVE  /\ Scrolled(t, wanted) \in Terminals /\ ViewOK(Scrolled(t, wanted))
         /\ SameRow(t, Scrolled(t, wanted))
<1>1. CASE wanted = 0 /\ ~t.active
  BY <1>1, Zenon DEF Scrolled, ScrollbackExit, SameRow
<1>2. CASE wanted = 0 /\ t.active
  <2>1. PICK u \in Terminals :
           /\ u = ScrollbackExit(t) /\ ~u.active /\ u.offset = 0 /\ u.row = t.row /\ u.col = t.col
           /\ \A r \in 0 .. ROWS - 1 : u.vga[r] = t.saved[r]
    BY <1>2, ExitKeeps, Zenon
  <2>2. t.row \in 0 .. ROWS - 1
    BY DEF Terminals
  <2>3. SameRow(t, u)
    BY <1>2, <2>1, <2>2, Zenon DEF SameRow, Under
  <2>. QED  BY <1>2, <2>1, <2>3, Zenon DEF Scrolled, ViewOK
<1>3. CASE wanted # 0
  <2>1. wanted \in 1 .. t.count
    BY <1>3, Sizes DEF Terminals
  <2>2. PICK u \in Terminals :
           /\ u = ScrollbackShow(t, wanted) /\ u.active /\ u.saved = Under(t)
           /\ u.offset \in 1 .. u.count /\ u.row = t.row /\ u.col = t.col
    BY <2>1, ViewKeeps, Zenon
  <2>3. SameRow(t, u)
    BY <2>2, Zenon DEF SameRow, Under
  <2>. QED  BY <1>3, <2>2, <2>3, Zenon DEF Scrolled, ViewOK
<1>. QED  BY <1>1, <1>2, <1>3

Scrolls == {"PageUp", "PageDown", "Home", "End", "LineUp", "LineDown"}

LEMMA WantedRange ==
  ASSUME NEW t \in Terminals, ViewOK(t), NEW key \in Scrolls
  PROVE  Wanted(t, key) < 0 \/ Wanted(t, key) \in 0 .. t.count
<1>1. PICK n \in Nat, o \in Nat, VH \in Nat \ {0} :
        n = t.count /\ o = t.offset /\ VH = SCROLLBACK_VIEW_HEIGHT
  <2>1. t.count \in Nat /\ t.offset \in Nat /\ SCROLLBACK_VIEW_HEIGHT \in Nat \ {0}
    BY Sizes DEF Terminals, SCROLLBACK_VIEW_HEIGHT
  <2>. QED  BY <2>1, Zenon
<1>2. o <= n
  <2>1. t.active \/ ~t.active
    OBVIOUS
  <2>2. o \in 1 .. n \/ o = 0
    BY <1>1, <2>1, Zenon DEF ViewOK
  <2>. QED  BY <2>2
<1>3. CASE key = "PageUp"
  <2>1. Min({o + VH, n}) = IF o + VH <= n THEN o + VH ELSE n
    BY MinOfTwo
  <2>2. PICK w : w = Min({o + VH, n})
    BY Zenon
  <2>3. Wanted(t, key) = IF w < 1 THEN -1 ELSE w
    BY <1>1, <1>3, <2>2, Zenon DEF Wanted
  <2>4. w \in 0 .. n
    BY <2>1, <2>2
  <2>5. PICK x : x = Wanted(t, key)
    BY Zenon
  <2>6. x = IF w < 1 THEN -1 ELSE w
    BY <2>3, <2>5, Zenon
  <2>7. x < 0 \/ x \in 0 .. n
    BY <2>4, <2>6
  <2>. QED  BY <1>1, <2>5, <2>7, Zenon
<1>4. ASSUME \/ Wanted(t, key) = -1 \/ Wanted(t, key) = 0
             \/ Wanted(t, key) = n
             \/ Wanted(t, key) = o + 1 /\ ~(o + 1 > n)
             \/ Wanted(t, key) = o - 1 /\ ~(o - 1 <= 0)
             \/ Wanted(t, key) = o - VH /\ ~(o - VH <= 0)
      PROVE  Wanted(t, key) < 0 \/ Wanted(t, key) \in 0 .. n
  <2>1. PICK x : x = Wanted(t, key)
    BY Zenon
  <2>2. \/ x = -1 \/ x = 0 \/ x = n
        \/ x = o + 1 /\ ~(o + 1 > n)
        \/ x = o - 1 /\ ~(o - 1 <= 0)
        \/ x = o - VH /\ ~(o - VH <= 0)
    BY <1>4, <2>1, Zenon
  <2>3. x < 0 \/ x \in 0 .. n
    BY <1>2, <2>2
  <2>. QED  BY <2>1, <2>3, Zenon
<1>5. CASE key = "Home"
  BY <1>1, <1>4, <1>5, Zenon DEF Wanted
<1>6. CASE key = "LineUp"
  BY <1>1, <1>4, <1>6, Zenon DEF Wanted
<1>7. CASE key = "LineDown"
  BY <1>1, <1>4, <1>7, Zenon DEF Wanted
<1>8. CASE key = "PageDown"
  BY <1>1, <1>4, <1>8, Zenon DEF Wanted
<1>9. CASE key = "End"
  BY <1>1, <1>4, <1>9, Zenon DEF Wanted
<1>. QED  BY <1>1, <1>3, <1>5, <1>6, <1>7, <1>8, <1>9, Zenon DEF Scrolls

-----------------------------------------------------------------------------
(* Steps.                                                                  *)

LEMMA UnderRow ==
  ASSUME NEW t \in Terminals, ~t.active
  PROVE  Under(t)[t.row] = t.vga[t.row]
<1>1. t.row \in 0 .. ROWS - 1
  BY DEF Terminals
<1>. QED  BY <1>1, Zenon DEF Under

LEMMA NowOK ==
  ASSUME EchoInv, phase = "line"
  PROVE  EditorOK(Now) /\ Now.out = << >> /\ Now.line = line /\ Now.pos = pos
<1>1. << >> \in Output
  BY EmptySeq, Zenon DEF Output
<1>2. PICK o \in Output : o = << >>
  BY <1>1, Zenon
<1>3. PICK e : e = [line |-> line, pos |-> pos, hist |-> hist, out |-> o]
  BY Zenon
<1>4. /\ DOMAIN e = {"line", "pos", "hist", "out"}
      /\ e.line = line /\ e.pos = pos /\ e.hist = hist /\ e.out = o
  BY <1>3
<1>5. EditorOK(e)
  BY <1>4, Zenon DEF EditorOK, EchoInv
<1>6. e = Now
  BY <1>2, <1>3, Zenon DEF Now
<1>. QED  BY <1>2, <1>4, <1>5, <1>6, Zenon

\* What a key makes of the line is printed: the row agrees again, if it did.
LEMMA BecomesEcho ==
  ASSUME Induction, EchoInv, phase = "line", NEW e, Edits(Now, e), Becomes(e), UNCHANGED <<buffer, phase>>
  PROVE  EchoInv'
<1>1. /\ EditorOK(e) /\ Draws(Now, e)
      /\ Len(e.out) = 0 => e.line = line /\ e.pos = pos
  BY NowOK, Zenon DEF Edits
<1>2. PICK u : u = RawPuts(tty, e.out)
  BY Zenon
<1>3. u \in Terminals /\ Grows(tty, u)
  BY <1>1, <1>2, RawPutsKeeps, Zenon DEF EditorOK, Output, EchoInv
<1>4. ViewOK(u)
  BY <1>3, GrowsKeeps, Zenon DEF EchoInv
<1>5. /\ line' = e.line /\ pos' = e.pos /\ hist' = e.hist /\ tty' = u
      /\ clean' \in BOOLEAN
      /\ clean' => clean /\ Len(e.line) + 2 < VGA_WIDTH /\ (e.out = << >> \/ ~tty.active)
  BY <1>2, Zenon DEF Becomes
<1>6. ASSUME clean' PROVE EchoOn(u, Under(u)[u.row], e.line, e.pos)
  <2>1. EchoOn(tty, Under(tty)[tty.row], line, pos)
    BY <1>5, <1>6, Zenon DEF EchoInv
  <2>2. CASE Len(e.out) = 0
    <3>1. e.out = << >>
      <4>1. PICK o \in Output : o = e.out /\ Len(o) = 0
        BY <1>1, <2>2, Zenon DEF EditorOK
      <4>2. o = << >>
        BY <4>1 DEF Output
      <4>. QED  BY <4>1, <4>2, Zenon
    <3>2. u = tty
      BY <1>2, <3>1, RawPutsNothing, Zenon
    <3>. QED  BY <1>1, <2>1, <2>2, <3>2, Zenon
  <2>3. CASE Len(e.out) # 0
    <3>1. ~tty.active /\ ~u.active
      <4>1. e.out # << >>
        BY <2>3, EmptySeq, Zenon
      <4>2. ~tty.active
        BY <1>5, <1>6, <4>1, Zenon
      <4>. QED  BY <1>3, <4>2, Zenon DEF Grows
    <3>2. tty \in Terminals
      BY Zenon DEF EchoInv
    <3>3. Echoes(tty, line, pos)
      BY <2>1, <3>1, <3>2, UnderRow, Zenon DEF Echoes
    <3>4. Echoes(u, e.line, e.pos)
      BY <1>1, <1>2, <1>5, <1>6, <3>2, <3>3, NowOK, Zenon DEF Draws
    <3>. QED  BY <1>3, <3>1, <3>4, UnderRow, Zenon DEF Echoes
  <2>. QED  BY <2>2, <2>3
<1>. QED  BY <1>1, <1>3, <1>4, <1>5, <1>6, Zenon DEF EchoInv, EditorOK

\* The keys for the view, and those that edit.
LEMMA NavigateEcho ==
  ASSUME Induction, EchoInv, phase = "line", NEW k \in Nav, Navigate(k), UNCHANGED <<buffer, phase>>
  PROVE  EchoInv'
<1>0. tty \in Terminals /\ ViewOK(tty)
  BY Zenon DEF EchoInv
<1>1. ASSUME NEW key \in Scrolls, UNCHANGED <<line, pos, hist, clean>>,
             tty' = IF Wanted(tty, key) < 0 THEN tty ELSE Scrolled(tty, Wanted(tty, key))
      PROVE  EchoInv'
  <2>1. Wanted(tty, key) < 0 \/ Wanted(tty, key) \in 0 .. tty.count
    BY <1>0, WantedRange, Zenon
  <2>2. tty' \in Terminals /\ ViewOK(tty') /\ SameRow(tty, tty')
    <3>1. SameRow(tty, tty)
      BY Zenon DEF SameRow
    <3>. QED  BY <1>0, <1>1, <2>1, <3>1, ScrolledKeeps, Zenon
  <2>3. EchoOn(tty, Under(tty)[tty.row], line, pos)
          => EchoOn(tty', Under(tty')[tty'.row], line, pos)
    BY <2>2, Zenon DEF EchoOn, SameRow
  <2>. QED  BY <1>1, <2>2, <2>3, Zenon DEF EchoInv
<1>2. k \in {"Up", "Down", "Left", "Right", "PageUp", "PageDown", "Home", "End"}
  <2>1. DOMAIN NavOrder = 1 .. 8
    BY DEF NavOrder
  <2>2. PICK i \in 1 .. 8 : k = NavOrder[i]
    BY <2>1 DEF Nav, Range
  <2>. QED  BY <2>2 DEF NavOrder
<1>3. PICK key : key = CASE k = "Up" -> "LineUp" [] k = "Down" -> "LineDown" [] OTHER -> k
  BY Zenon
<1>4. key \in Scrolls \/ k \in {"Left", "Right"}
  BY <1>2, <1>3, Zenon DEF Scrolls
<1>5. CASE k \in {"PageUp", "PageDown", "Home", "End"} \/ (tty.active /\ k \in {"Up", "Down"})
  <2>1. /\ UNCHANGED <<line, pos, hist, clean>>
        /\ tty' = IF Wanted(tty, key) < 0 THEN tty ELSE Scrolled(tty, Wanted(tty, key))
    BY <1>3, <1>5, Zenon DEF Navigate
  <2>2. key \in Scrolls
    BY <1>4, <1>5, Zenon
  <2>. QED  BY <1>1, <2>1, <2>2, Zenon
<1>6. CASE ~(k \in {"PageUp", "PageDown", "Home", "End"} \/ (tty.active /\ k \in {"Up", "Down"}))
  <2>1. \/ Becomes(Now) \/ Becomes(HistoryUp(Now)) \/ Becomes(HistoryDown(Now))
        \/ Becomes(Left(Now)) \/ Becomes(Right(Now))
    <3>1. PICK e : /\ Becomes(e)
                   /\ e = CASE k = "Up" -> HistoryUp(Now)
                            [] k = "Down" -> HistoryDown(Now)
                            [] k = "Left" -> IF tty.active THEN Now ELSE Left(Now)
                            [] k = "Right" -> IF tty.active THEN Now ELSE Right(Now)
      BY <1>6, Zenon DEF Navigate
    <3>2. k \in {"Up", "Down", "Left", "Right"}
      BY <1>2, <1>6, Zenon
    <3>3. e \in {Now, HistoryUp(Now), HistoryDown(Now), Left(Now), Right(Now)}
      BY <3>1, <3>2, Zenon
    <3>. QED  BY <3>1, <3>3, Zenon
  <2>2. /\ Edits(Now, Now) /\ Edits(Now, HistoryUp(Now)) /\ Edits(Now, HistoryDown(Now))
        /\ Edits(Now, Left(Now)) /\ Edits(Now, Right(Now))
    BY NowOK, EditsNothing, HistoryUpEdits, HistoryDownEdits, CursorEdits, Zenon
  <2>. QED  BY <2>1, <2>2, BecomesEcho, Zenon
<1>. QED  BY <1>5, <1>6

LEMMA RememberTyped ==
  ASSUME NEW h, HistTyped(h), NEW s \in Seq(Texts)
  PROVE  HistTyped(Remember(h, s))
<1>1. HistOK(h) /\ h.buf \in [0 .. HISTORY_MAX - 1 -> Seq(Texts)] /\ h.head \in 0 .. HISTORY_MAX - 1
  BY Zenon DEF HistTyped, HistOK
<1>2. PICK r : r = Remember(h, s)
  BY Zenon
<1>3. HistOK(r)
  BY <1>1, <1>2, RememberKeeps, Zenon
<1>4. r.pos = -1 /\ (r.buf = h.buf \/ r.buf = [h.buf EXCEPT ![h.head] = s])
  <2>1. PICK a, b : /\ a = (h.head + 1) % HISTORY_MAX /\ b = Min({h.count + 1, HISTORY_MAX})
    BY Zenon
  <2>2. \/ r = [h EXCEPT !.pos = -1]
        \/ r = [[h EXCEPT !.buf[h.head] = s, !.head = a, !.count = b] EXCEPT !.pos = -1]
    BY <1>2, <2>1, Zenon DEF Remember
  <2>3. CASE r = [h EXCEPT !.pos = -1]
    BY <1>1, <2>3 DEF HistOK
  <2>4. CASE r = [[h EXCEPT !.buf[h.head] = s, !.head = a, !.count = b] EXCEPT !.pos = -1]
    <3>1. PICK q : q = [h EXCEPT !.buf[h.head] = s, !.head = a, !.count = b]
      BY Zenon
    <3>2. DOMAIN q = DOMAIN h /\ q.buf = [h.buf EXCEPT ![h.head] = s]
      BY <1>1, <3>1 DEF HistOK
    <3>3. r = [q EXCEPT !.pos = -1]
      BY <2>4, <3>1, Zenon
    <3>4. DOMAIN q = {"buf", "count", "head", "pos"}
      BY <1>1, <3>2, Zenon DEF HistOK
    <3>5. r.pos = -1 /\ r.buf = q.buf
      BY <3>3, <3>4
    <3>. QED  BY <3>2, <3>5, Zenon
  <2>. QED  BY <2>2, <2>3, <2>4
<1>5. r.buf \in [0 .. HISTORY_MAX - 1 -> Seq(Texts)]
  BY <1>1, <1>4, Zenon
<1>. QED  BY <1>2, <1>3, <1>4, <1>5, Zenon DEF HistTyped

LEMMA EmptyTerminalOK == EmptyTerminal \in Terminals /\ ViewOK(EmptyTerminal)
<1>1. Blank \in Line
  BY Glyphs, Zenon DEF Blank, Line
<1>2. /\ [r \in 0 .. ROWS |-> Blank] \in Screens /\ [r \in 0 .. ROWS - 1 |-> Blank] \in Lines
      /\ [i \in 0 .. SCROLLBACK_LINES - 1 |-> Blank] \in [0 .. SCROLLBACK_LINES - 1 -> Line]
  BY <1>1, Zenon DEF Screens, Lines
<1>3. /\ 0 \in 0 .. ROWS - 1 /\ 0 \in Cols /\ 0 \in 0 .. SCROLLBACK_LINES - 1
      /\ 0 \in 0 .. SCROLLBACK_LINES /\ 0 \in Nat
  BY Sizes DEF Cols
<1>4. EmptyTerminal \in Terminals
  BY <1>2, <1>3, Zenon DEF EmptyTerminal, Terminals
<1>5. EmptyTerminal.active = FALSE /\ EmptyTerminal.offset = 0
  BY DEF EmptyTerminal
<1>. QED  BY <1>4, <1>5, Zenon DEF ViewOK

LEMMA EchoInit == Induction /\ Init => EchoInv
<1> SUFFICES ASSUME Induction, Init  PROVE EchoInv
  OBVIOUS
<1>1. PICK str : str = [i \in 1 .. ROWS |-> "LF"]
  BY Zenon
<1>2. str \in Seq(Chars \cup Control)
  <2>1. PICK x \in Chars \cup Control : x = "LF"
    BY Zenon DEF Control
  <2>2. ROWS \in Nat
    BY Sizes
  <2>. QED  BY <1>1, <2>1, <2>2, RepSeq, Zenon DEF Rep
<1>3. tty = RawPuts(EmptyTerminal, str)
  BY <1>1, Zenon DEF Init
<1>4. tty \in Terminals /\ ViewOK(tty)
  BY <1>2, <1>3, EmptyTerminalOK, RawPutsKeeps, GrowsKeeps, Zenon
<1>5. buffer \in [0 .. BUF_SIZE - 1 -> Texts] /\ phase = "idle" /\ clean \in BOOLEAN
  <2>1. NoChar \in Texts
    BY Zenon DEF Texts
  <2>2. buffer = [i \in 0 .. BUF_SIZE - 1 |-> NoChar] /\ phase = "idle" /\ clean = TRUE
    BY Zenon DEF Init
  <2>. QED  BY <2>1, <2>2, Zenon
<1>6. line \in Seq(Texts)
  BY EmptySeq, Zenon DEF Init
<1>7. HistTyped(hist)
  <2>1. hist \in Histories /\ HistOK(hist)
    BY HistInit, Zenon DEF Init, HistInv
  <2>2. hist.buf \in [0 .. HISTORY_MAX - 1 -> Seq(Texts)] /\ hist.pos = -1
    BY <2>1, KeyboardAssumption, Zenon
  <2>. QED  BY <2>1, <2>2, Zenon DEF HistTyped
<1>8. phase # "line" /\ phase \in {"idle", "line", "stuck"}
  BY <1>5
<1>. QED  BY <1>4, <1>5, <1>6, <1>7, <1>8, Zenon DEF EchoInv

\* The prompt, at the start of an empty row and elsewhere.
LEMMA PromptEcho ==
  ASSUME Induction, EchoInv, Prompt
  PROVE  EchoInv'
<1>1. /\ UNCHANGED <<buffer, hist>> /\ tty \in Terminals /\ ViewOK(tty)
  BY Zenon DEF Prompt, EchoInv, ring
<1>2. CASE tty.active
  <2>1. phase' = "stuck" /\ UNCHANGED <<line, pos, tty, clean>>
    BY <1>2, Zenon DEF Prompt
  <2>2. phase' # "line" /\ phase' \in {"idle", "line", "stuck"}
    BY <2>1
  <2>. QED  BY <1>1, <2>1, <2>2, Zenon DEF EchoInv
<1>3. CASE ~tty.active
  <2>1. PICK u : u = RawPuts(tty, <<">", " ">>)
    BY Zenon
  <2>2. /\ phase' = "line" /\ line' = << >> /\ pos' = 0 /\ tty' = u
        /\ clean' \in BOOLEAN /\ (clean' => tty.col = 0 /\ tty.vga[tty.row] = Blank)
    BY <1>3, <2>1, Zenon DEF Prompt
  <2>3. u \in Terminals /\ Grows(tty, u)
    <3>1. PICK x \in Chars, y \in Chars : x = ">" /\ y = " "
      BY Glyphs, Zenon
    <3>2. <<x, y>> \in Seq(Chars)
      OBVIOUS
    <3>. QED  BY <1>1, <2>1, <3>1, <3>2, CharsOutput, RawPutsKeeps, Zenon DEF Output
  <2>4. ViewOK(u) /\ ~u.active
    BY <1>1, <1>3, <2>3, GrowsKeeps, Zenon DEF Grows
  <2>5. PICK s \in Seq(Texts) : s = << >> /\ Len(s) = 0
    BY EmptySeq, Zenon
  <2>6. ASSUME clean' PROVE EchoOn(u, Under(u)[u.row], s, 0)
    <3>1. tty.col = 0 /\ tty.vga[tty.row] = Blank
      BY <2>2, <2>6, Zenon
    <3>2. /\ u.col = 2
          /\ \A d \in Cols : u.vga[u.row][d] = IF d = 0 THEN ">" ELSE IF d = 1 THEN " "
                                               ELSE tty.vga[tty.row][d]
      <4>1. PICK v \in Terminals :
              /\ v = RawPuts(tty, <<">", " ">>) /\ v.col = 2
              /\ \A d \in Cols : v.vga[v.row][d] = IF d = 0 THEN ">" ELSE IF d = 1 THEN " "
                                                   ELSE tty.vga[tty.row][d]
        BY <1>1, <3>1, PromptRow, Zenon
      <4>. QED  BY <2>1, <4>1, Zenon
    <3>3. ASSUME NEW d \in Cols PROVE u.vga[u.row][d] = Cell(s, d)
      <4>1. d # 0 /\ d # 1 => ~(d <= Len(s) + 1)
        <5>1. d \in Nat
          BY Sizes DEF Cols
        <5>. QED  BY <2>5, <5>1
      <4>2. tty.vga[tty.row][d] = " "
        BY <3>1, Zenon DEF Blank
      <4>. QED  BY <3>2, <4>1, <4>2, Zenon DEF Cell
    <3>4. Len(s) + 2 < VGA_WIDTH /\ u.col = 0 + 2
      <4>1. Len(s) = 0 /\ u.col = 2
        BY <2>5, <3>2, Zenon
      <4>. QED  BY <4>1, Sizes
    <3>5. Under(u)[u.row] = u.vga[u.row]
      BY <2>3, <2>4, UnderRow, Zenon
    <3>. QED  BY <3>3, <3>4, <3>5, Zenon DEF EchoOn, Shows
  <2>7. pos' \in 0 .. Len(s)
    BY <2>2, <2>5
  <2>8. phase' \in {"idle", "line", "stuck"}
    BY <2>2, Zenon
  <2>. QED  BY <1>1, <2>2, <2>3, <2>4, <2>5, <2>6, <2>7, <2>8, Zenon DEF EchoInv
<1>. QED  BY <1>2, <1>3

LEMMA EndLineEcho ==
  ASSUME Induction, EchoInv, EndLine
  PROVE  EchoInv'
<1>1. PICK s : /\ s \in {line, << >>} /\ hist' = Remember(hist, s)
               /\ line' = SubSeq(s, 1, Min({Len(s), MaxLen - 1}))
  BY Zenon DEF EndLine
<1>2. s \in Seq(Texts)
  BY <1>1, EmptySeq, Zenon DEF EchoInv
<1>3. HistTyped(hist')
  BY <1>1, <1>2, RememberTyped, Zenon DEF EchoInv
<1>4. line' \in Seq(Texts)
  <2>1. PICK n : n = Min({Len(s), MaxLen - 1})
    BY Zenon
  <2>2. Len(s) \in Nat /\ MaxLen - 1 \in Nat
    BY <1>2, KeyboardAssumption
  <2>3. n = IF Len(s) <= MaxLen - 1 THEN Len(s) ELSE MaxLen - 1
    <3>1. Len(s) \in Int /\ MaxLen - 1 \in Int
      BY <2>2
    <3>. QED  BY <2>1, <3>1, MinOfTwo, Zenon
  <2>4. n \in 0 .. Len(s)
    BY <2>2, <2>3
  <2>. QED  BY <1>1, <1>2, <2>1, <2>4, CutSeq, Zenon
<1>5. PICK o \in Seq(Chars \cup Control) : tty' = RawPuts(tty, o)
  <2>1. PICK x \in Chars \cup Control, y \in Chars \cup Control, z \in Chars \cup Control :
          x = "^" /\ y = "C" /\ z = "LF"
    BY Glyphs, Zenon DEF Control
  <2>2. <<z>> \in Seq(Chars \cup Control) /\ <<x, y, z>> \in Seq(Chars \cup Control)
    OBVIOUS
  <2>3. tty' = RawPuts(tty, <<z>>) \/ tty' = RawPuts(tty, <<x, y, z>>)
    BY <2>1, Zenon DEF EndLine
  <2>. QED  BY <2>2, <2>3, Zenon
<1>6. tty' \in Terminals /\ ViewOK(tty')
  BY <1>5, RawPutsKeeps, GrowsKeeps, Zenon DEF EchoInv
<1>7. UNCHANGED <<buffer, clean>> /\ phase' = "idle"
  BY Zenon DEF EndLine, TakeChar
<1>8. phase' # "line" /\ phase' \in {"idle", "line", "stuck"}
  BY <1>7
<1>. QED  BY <1>3, <1>4, <1>6, <1>7, <1>8, Zenon DEF EchoInv

LEMMA EchoStep == Induction /\ NavInv /\ RingInv /\ EchoInv /\ [Next]_vars => EchoInv'
<1> SUFFICES ASSUME Induction, NavInv, RingInv, EchoInv, [Next]_vars  PROVE EchoInv'
  OBVIOUS
<1>1. ASSUME UNCHANGED <<buffer, phase, line, pos, hist, tty, clean>>  PROVE EchoInv'
  BY <1>1, Zenon DEF EchoInv
<1>2. ASSUME NEW b \in Bytes, IsrHandler(b)  PROVE EchoInv'
  <2>1. UNCHANGED <<phase, line, pos, hist, tty, clean>>
    BY <1>2, Zenon DEF IsrHandler, editor
  <2>2. UNCHANGED buffer \/ \E ch \in Texts : buffer' = [buffer EXCEPT ![head % BUF_SIZE] = ch]
    BY <1>2, IsrEffect, Zenon DEF ring, PushChar
  <2>3. buffer' \in [0 .. BUF_SIZE - 1 -> Texts]
    BY <2>2, Zenon DEF EchoInv
  <2>. QED  BY <2>1, <2>3, Zenon DEF EchoInv
<1>3. CASE Prompt
  BY <1>3, PromptEcho, Zenon
<1>4. CASE PollChar
  BY <1>1, <1>4, Zenon DEF PollChar, editor, TakeChar
<1>5. CASE NavLoad
  BY <1>1, <1>5, Zenon DEF NavLoad, editor, ring
<1>6. CASE NavStore
  <2>1. /\ UNCHANGED <<buffer, phase>> /\ load[1] \in Nav
        /\ IF phase = "line" THEN Navigate(load[1]) ELSE UNCHANGED editor
    BY <1>6, Zenon DEF NavStore, NavInv, ring
  <2>. QED  BY <1>1, <2>1, NavigateEcho, Zenon DEF editor
<1>7. CASE ReadChar
  <2>1. phase = "line" /\ UNCHANGED <<buffer, phase>> /\ Becomes(Edited(Now, Char))
    BY <1>7, Zenon DEF ReadChar, TakeChar
  <2>2. Char \in Texts
    <3>1. tail % BUF_SIZE \in 0 .. BUF_SIZE - 1
      BY KeyboardAssumption DEF RingInv
    <3>. QED  BY <3>1, Zenon DEF Char, EchoInv
  <2>3. Edits(Now, Edited(Now, Char))
    BY <2>1, <2>2, NowOK, EditedEdits, Zenon
  <2>. QED  BY <2>1, <2>3, BecomesEcho, Zenon
<1>8. CASE EndLine
  BY <1>8, EndLineEcho, Zenon
<1>9. ASSUME NEW n \in {1, 2}, Read(n)  PROVE EchoInv'
  BY <1>1, <1>9, Zenon DEF Read, editor
<1>10. CASE UNCHANGED vars
  BY <1>1, <1>10, Zenon DEF vars
<1>. QED
  BY <1>2, <1>3, <1>4, <1>5, <1>6, <1>7, <1>8, <1>9, <1>10, Zenon DEF Next, Reader

\* A counter that was loaded was not zero.
LoadInv == load \in {NoLoad} \cup (Nav \X (Nat \ {0}))

LEMMA LoadStep == NavInv /\ LoadInv /\ [Next]_vars => LoadInv'
<1> SUFFICES ASSUME NavInv, LoadInv, [Next]_vars  PROVE LoadInv'
  OBVIOUS
<1>1. CASE NavLoad
  <2>1. PICK k \in Nav : pending[k] > 0 /\ load' = <<k, pending[k]>>
    BY <1>1 DEF NavLoad, Nav, Range
  <2>2. pending[k] \in Nat \ {0}
    BY <2>1 DEF NavInv
  <2>. QED  BY <2>1, <2>2, Zenon DEF LoadInv
<1>2. CASE ~NavLoad
  <2>1. load' = load \/ load' = NoLoad
    BY <1>2, Zenon DEF Next, Reader, NavStore, IsrHandler, Prompt, PollChar, ReadChar, EndLine, Read,
                       nav, vars
  <2>. QED  BY <2>1, Zenon DEF LoadInv
<1>. QED  BY <1>1, <1>2

-----------------------------------------------------------------------------
(* Induction, and the theorem.                                             *)

INSTANCE WellFoundedInduction

LEMMA InductionHolds == Induction
<1>0. SUFFICES ASSUME NEW n \in Nat, NEW S, 0 \in S,
                      \A i \in 1 .. n : i - 1 \in S => i \in S
               PROVE  0 .. n \subseteq S
  BY Zenon DEF Induction
<1> DEFINE T == (0 .. n) \ S
<1>1. SUFFICES ASSUME T # {} PROVE FALSE
  BY Zenon
<1>2. T \subseteq Nat
  OBVIOUS
<1>3. PICK x \in T : \A y \in T : <<y, x>> \notin OpToRel(<, Nat)
  BY <1>1, <1>2, NatLessThanWellFounded, WFMin, Zenon
<1>4. x \in 1 .. n /\ x - 1 \in 0 .. n
  BY <1>0
<1>5. x - 1 \notin T
  <2>1. <<x - 1, x>> \in {ss \in Nat \X Nat : ss[1] < ss[2]}
    BY <1>4
  <2>. QED  BY <1>3, <2>1, Zenon DEF OpToRel
<1>. QED  BY <1>0, <1>4, <1>5, Zenon

\* What the user sees is what the program gets: a prompt that begins an empty row
\* is followed by the line as it is, with the cursor where the next character
\* goes, after any keys, for screens, lines, rings and histories of any size.
THEOREM EchoAgreesHolds == Spec => []EchoAgrees
<1>1. Init => LoadInv
  BY Zenon DEF Init, LoadInv
<1>2. RingInv /\ NavInv /\ LoadInv /\ EchoInv => EchoAgrees
  <2> SUFFICES ASSUME RingInv, NavInv, LoadInv, EchoInv  PROVE EchoAgrees
    OBVIOUS
  <2>1. TerminalTypeOK(tty)
    <3>1. tty \in Terminals /\ ViewOK(tty)
      BY Zenon DEF EchoInv
    <3>2. /\ tty.vga \in Screens /\ tty.saved \in Lines
          /\ tty.row \in 0 .. ROWS - 1 /\ tty.col \in Cols
          /\ tty.buf \in [0 .. SCROLLBACK_LINES - 1 -> Line]
          /\ tty.head \in 0 .. SCROLLBACK_LINES - 1 /\ tty.count \in 0 .. SCROLLBACK_LINES
          /\ tty.active \in BOOLEAN /\ tty.shown \in BOOLEAN
      BY <3>1 DEF Terminals
    <3>. QED  BY <3>1, <3>2, Zenon DEF TerminalTypeOK, ViewOK, Screens, Lines
  <2>2. TypeOK
    <3>1. /\ hist.count \in 0 .. HISTORY_MAX /\ hist.head \in 0 .. HISTORY_MAX - 1
          /\ hist.pos \in {-1} \cup
               {(hist.head - i + HISTORY_MAX) % HISTORY_MAX : i \in 1 .. hist.count}
      BY Zenon DEF EchoInv, HistTyped, HistOK
    <3>. QED  BY <2>1, <3>1, Zenon DEF TypeOK, RingInv, NavInv, LoadInv, EchoInv
  <2>3. ASSUME phase = "line", clean, ~tty.active
        PROVE  /\ tty.col = pos + 2
               /\ \A c \in Cols :
                    tty.vga[tty.row][c] =
                      CASE c = 0 -> ">" [] c = 1 -> " "
                        [] c \in 2 .. Len(line) + 1 -> Glyph(line)[c - 1]
                        [] OTHER -> " "
    <3>1. EchoOn(tty, tty.vga[tty.row], line, pos)
      BY <2>3, UnderRow, Zenon DEF EchoInv
    <3>2. ASSUME NEW c \in Cols
          PROVE  tty.vga[tty.row][c] =
                   CASE c = 0 -> ">" [] c = 1 -> " "
                     [] c \in 2 .. Len(line) + 1 -> Glyph(line)[c - 1]
                     [] OTHER -> " "
      <4>1. PICK n \in Nat : n = Len(line)
        <5>1. line \in Seq(Texts)
          BY Zenon DEF EchoInv
        <5>2. Len(line) \in Nat
          BY <5>1
        <5>. QED  BY <5>2, Zenon
      <4>2. /\ c # 0 /\ c # 1 /\ c <= n + 1 => c \in 2 .. n + 1
            /\ c \in 2 .. n + 1 => c # 0 /\ c # 1 /\ c <= n + 1
            /\ 0 # 1
        <5>1. c \in Nat
          BY Sizes DEF Cols
        <5>. QED  BY <5>1
      <4>3. tty.vga[tty.row][c] = Cell(line, c)
        BY <3>1, Zenon DEF EchoOn, Shows
      <4>. QED  BY <4>1, <4>2, <4>3, Zenon DEF Cell
    <3>. QED  BY <3>1, <3>2, Zenon DEF EchoOn
  <2>. QED  BY <2>2, <2>3, Zenon DEF EchoAgrees
<1>3. Init => EchoInv
  BY InductionHolds, EchoInit, Zenon
<1>4. NavInv /\ RingInv /\ EchoInv /\ [Next]_vars => EchoInv'
  BY InductionHolds, EchoStep, Zenon
<1>. QED  BY <1>1, <1>2, <1>3, <1>4, LoadStep, RingInvariant, NavInvariant, PTL DEF Spec
=============================================================================
