------------------------------ MODULE StringRep ------------------------------
(***************************************************************************)
(* The representation of class string (libc++/string/string.cc): a pointer *)
(* to the characters, which are in the object itself (the small-string     *)
(* buffer sso_) or in a block of the allocator, a size and a capacity.     *)
(*                                                                         *)
(* The operations are functions on a memory w, a record with               *)
(*   obj    obj[o] = [data, size, cap]: data_, size_ and capacity_ of o    *)
(*   buf    the bytes behind a pointer: buf[o] is sso_ of object o, and    *)
(*          buf[b] block b of the allocator; there are none after the end  *)
(*          of the object, or before and after the life of the block       *)
(*   fault  a byte outside of any buffer was read or written, or a block   *)
(*          was freed that was not allocated                               *)
(*   halt   allocate found no memory and stopped for good                  *)
(***************************************************************************)
EXTENDS StringSearch

CONSTANTS
  Blocks,        \* the blocks the allocator has
  SSO_CAPACITY

Junk == -1  \* what an indeterminate byte holds

NoObject == [data |-> 0, size |-> 0, cap |-> 0]

InBounds(w, p, off, n) == off + n <= Len(w.buf[p])

\* n bytes from p + off on.
Read(w, p, off, n) ==
  IF InBounds(w, p, off, n) THEN SubSeq(w.buf[p], off + 1, off + n) ELSE [i \in 1 .. n |-> Junk]

\* memcpy, memmove or memset of bytes that were read before, to p + off.
Put(w, p, off, bytes) ==
  IF InBounds(w, p, off, Len(bytes))
    THEN [w EXCEPT !.buf[p] = [i \in DOMAIN @ |-> IF i \in off + 1 .. off + Len(bytes)
                                                    THEN bytes[i - off] ELSE @[i]]]
    ELSE [w EXCEPT !.fault = TRUE]

\* The same, from q + from on.
Copy(w, p, off, q, from, n) ==
  LET v == Put(w, p, off, Read(w, q, from, n))
  IN IF InBounds(w, q, from, n) THEN v ELSE [v EXCEPT !.fault = TRUE]

FreeBlocks(w) == {b \in Blocks : w.buf[b] = << >>}

\* The block the next allocate returns, any one when there is none.
Block(w) == IF FreeBlocks(w) = {} THEN CHOOSE b \in Blocks : TRUE
            ELSE CHOOSE b \in FreeBlocks(w) : \A c \in FreeBlocks(w) : b <= c

\* allocate(cap).
Allocate(w, cap) ==
  IF FreeBlocks(w) = {} THEN [w EXCEPT !.halt = TRUE]
  ELSE [w EXCEPT !.buf[Block(w)] = [i \in 1 .. cap + 1 |-> Junk]]

\* deallocate(p).
Deallocate(w, p) ==
  IF w.buf[p] = << >> THEN [w EXCEPT !.fault = TRUE] ELSE [w EXCEPT !.buf[p] = << >>]

IsSSO(w, o) == w.obj[o].data = o
Size(w, o) == w.obj[o].size
Data(w, o) == w.obj[o].data

\* Mutant: capacity_ is believed after a move took the block away.
Capacity_Stale(w, o) == w.obj[o].cap

\* capacity(): capacity_ means nothing while the characters are in sso_.
Capacity(w, o) == IF IsSSO(w, o) THEN SSO_CAPACITY ELSE w.obj[o].cap

Chars(w, o) == Read(w, Data(w, o), 0, Size(w, o))

\* setSSO(s), and capacity_ = SSO_CAPACITY, which all its callers do.
SetSSO(w, o, s) ==
  [Put(w, o, 0, Append(s, NUL)) EXCEPT
     !.obj[o] = [data |-> o, size |-> Len(s), cap |-> SSO_CAPACITY]]

\* setHeap(p, n, cap).
SetHeap(w, o, p, n, cap) ==
  [Put(w, p, n, <<NUL>>) EXCEPT !.obj[o] = [data |-> p, size |-> n, cap |-> cap]]

\* A block with room for cap characters and bytes in it, as the new data_ of o.
NewHeap(w, o, bytes, n, cap) ==
  LET v == Allocate(w, cap)
  IN IF v.halt THEN v ELSE SetHeap(Put(v, Block(w), 0, bytes), o, Block(w), n, cap)

Release(w, o) == IF IsSSO(w, o) THEN w ELSE Deallocate(w, Data(w, o))

-----------------------------------------------------------------------------
(* Lifetime.                                                               *)

\* The storage of an object, before its constructor runs ...
Declare(w, o) ==
  [w EXCEPT !.buf[o] = [i \in 1 .. SSO_CAPACITY + 1 |-> Junk]]

\* ... and the destructor and the end of the storage.
Destruct(w, o) == [Release(w, o) EXCEPT !.buf[o] = << >>, !.obj[o] = NoObject]

\* string(), string(s), string(s, count) and string(count, ch): of characters.
FromChars(w, o, s) ==
  LET d == Declare(w, o)
  IN IF Len(s) <= SSO_CAPACITY THEN SetSSO(d, o, s) ELSE NewHeap(d, o, s, Len(s), Len(s))

\* string(const string &y).
CopyConstruct(w, o, y) ==
  LET d == Declare(w, o)
  IN IF IsSSO(w, y) THEN SetSSO(d, o, Read(w, y, 0, Size(w, y)))
     ELSE NewHeap(d, o, Read(w, Data(w, y), 0, Size(w, y) + 1), Size(w, y), w.obj[y].cap)

\* What a move leaves behind: no characters, and the old capacity_.
Emptied(w, y) ==
  [Put(w, y, 0, <<NUL>>) EXCEPT !.obj[y].data = y, !.obj[y].size = 0]

\* The fields of y become those of o, for the constructor and the assignment.
TakeOver(w, o, y) ==
  LET v == [w EXCEPT !.obj[o] = w.obj[y]]
  IN Emptied(IF IsSSO(w, y)
               THEN [Copy(v, o, 0, y, 0, Size(w, y) + 1) EXCEPT !.obj[o].data = o] ELSE v, y)

\* string(string &&y).
MoveConstruct(w, o, y) == TakeOver(Declare(w, o), o, y)

-----------------------------------------------------------------------------
(* Assignment.                                                             *)

\* operator=(const string &y): a block that is large enough is kept.
CopyAssign(w, x, y) ==
  LET n == Size(w, y)
      bytes == Read(w, Data(w, y), 0, n + 1)
  IN IF x = y THEN w
     ELSE IF IsSSO(w, y) THEN SetSSO(Release(w, x), x, Read(w, y, 0, n))
     ELSE IF ~IsSSO(w, x) /\ w.obj[x].cap >= n
       THEN [Put(w, Data(w, x), 0, bytes) EXCEPT !.obj[x].size = n]
     ELSE NewHeap(Release(w, x), x, bytes, n, w.obj[y].cap)

\* operator=(string &&y).
MoveAssign(w, x, y) == IF x = y THEN w ELSE TakeOver(Release(w, x), x, y)

\* assign(const char *s).
AssignChars(w, x, s) ==
  IF Len(s) <= SSO_CAPACITY THEN SetSSO(Release(w, x), x, s)
  ELSE IF ~IsSSO(w, x) /\ w.obj[x].cap >= Len(s)
    THEN [Put(w, Data(w, x), 0, Append(s, NUL)) EXCEPT !.obj[x].size = Len(s)]
  ELSE NewHeap(Release(w, x), x, s, Len(s), Len(s))

\* swap(y), through a temporary object t.
SwapWith(w, x, y, t) ==
  Destruct(MoveAssign(MoveAssign(MoveConstruct(w, t, x), x, y), y, t), t)

-----------------------------------------------------------------------------
(* Capacity.                                                               *)

\* grow(minCap): the new block is allocated before the old one is freed.
Grow(w, x, minCap) ==
  LET newCap == Max({Capacity(w, x) * 2, minCap, SSO_CAPACITY + 1})
      v == Allocate(w, newCap)
      n == Size(w, x)
      c == Put(Copy(v, Block(w), 0, Data(w, x), 0, n), Block(w), n, <<NUL>>)
  IN IF v.halt THEN v ELSE SetHeap(Release(c, x), x, Block(w), n, newCap)

\* reserve(newCap), and reserveFor(n): with characters in sso_ its second test
\* says the same as the first.
Reserve(w, x, n) == IF n <= Capacity(w, x) THEN w ELSE Grow(w, x, n)

\* shrink_to_fit().
ShrinkToFit(w, x) ==
  LET n == Size(w, x)
      v == Allocate(w, n)
      c == Copy(v, Block(w), 0, Data(w, x), 0, n)
  IN IF IsSSO(w, x) \/ n = w.obj[x].cap THEN w
     ELSE IF n <= SSO_CAPACITY THEN SetSSO(Deallocate(w, Data(w, x)), x, Chars(w, x))
     ELSE IF v.halt THEN v
     ELSE SetHeap(Deallocate(c, Data(w, x)), x, Block(w), n, n)

-----------------------------------------------------------------------------
(* Modifiers.                                                              *)

\* size_ = n; data_[n] = '\0'.
SetSize(w, x, n) == [Put(w, Data(w, x), n, <<NUL>>) EXCEPT !.obj[x].size = n]

\* clear().
Clear(w, x) ==
  [Put(Release(w, x), x, 0, <<NUL>>) EXCEPT
     !.obj[x] = [data |-> x, size |-> 0, cap |-> IF IsSSO(w, x) THEN @.cap ELSE SSO_CAPACITY]]

\* pop_back().
PopBack(w, x) == IF Size(w, x) > 0 THEN SetSize(w, x, Size(w, x) - 1) ELSE w

\* Room for n characters at position p, before those that are there.
OpenGap(w, x, p, n) ==
  LET v == Reserve(w, x, Size(w, x) + n)
  IN IF v.halt \/ p >= Size(w, x) THEN v
     ELSE Copy(v, Data(v, x), p + n, Data(v, x), p, Size(w, x) - p)

\* insert(pos, y); data_ of y is read after the growth, which may be that of x.
Insert(w, x, pos, y) ==
  LET p == Min({pos, Size(w, x)})
      v == OpenGap(w, x, p, Size(w, y))
      c == Copy(v, Data(v, x), p, Data(v, y), 0, Size(w, y))
  IN IF v.halt THEN v ELSE SetSize(c, x, Size(w, x) + Size(w, y))

\* insert(pos, s), append(s), replace(pos, count, s), and other calls with a C
\* string: Op(v) with a temporary object t for it.
WithTemporary(w, t, s, Op(_)) ==
  LET v == FromChars(w, t, s)
      r == Op(v)
  IN IF v.halt \/ r.halt THEN [w EXCEPT !.halt = TRUE] ELSE Destruct(r, t)

\* insert(pos, count, ch), and push_back(ch) at the end.
InsertFill(w, x, pos, count, ch) ==
  LET p == Min({pos, Size(w, x)})
      v == OpenGap(w, x, p, count)
  IN IF v.halt THEN v
     ELSE SetSize(Put(v, Data(v, x), p, [i \in 1 .. count |-> ch]), x, Size(w, x) + count)

\* How many of count characters there are from pos on.
Clamp(w, x, pos, count) ==
  IF count = Npos \/ pos + count > Size(w, x) THEN Size(w, x) - pos ELSE count

\* Mutant: one character too few is moved down.
Erase_Short(w, x, pos, count) ==
  LET n == Clamp(w, x, pos, count)
      rest == Size(w, x) - pos - n
  IN IF pos > Size(w, x) THEN w
     ELSE SetSize(IF rest > 1 THEN Copy(w, Data(w, x), pos, Data(w, x), pos + n, rest - 1) ELSE w,
                  x, Size(w, x) - n)

\* erase(pos, count).
Erase(w, x, pos, count) ==
  LET n == Clamp(w, x, pos, count)
      rest == Size(w, x) - pos - n
  IN IF pos > Size(w, x) THEN w
     ELSE SetSize(IF rest > 0 THEN Copy(w, Data(w, x), pos, Data(w, x), pos + n, rest) ELSE w,
                  x, Size(w, x) - n)

\* resize(n, ch).
Resize(w, x, n, ch) ==
  LET v == Reserve(w, x, n)
      k == Size(w, x)
  IN IF n < k THEN SetSize(w, x, n)
     ELSE IF n = k THEN w
     ELSE IF v.halt THEN v
     ELSE SetSize(Put(v, Data(v, x), k, [i \in 1 .. n - k |-> ch]), x, n)

\* replace(pos, count, y).
Replace(w, x, pos, count, y) == Insert(Erase(w, x, pos, count), x, pos, y)

\* replace(pos, count, s, count2), with s of length count2.
ReplaceChars(w, x, pos, count, s) ==
  LET p == Min({pos, Size(w, x)})
      n == Clamp(w, x, p, count)
      size == Size(w, x) - n + Len(s)
      v == Reserve(w, x, size)
      rest == Size(w, x) - p - n
      moved == IF rest > 0 THEN Copy(v, Data(v, x), p + Len(s), Data(v, x), p + n, rest) ELSE v
  IN IF v.halt THEN v ELSE SetSize(Put(moved, Data(v, x), p, s), x, size)

\* substr(pos, count) of y, as a new object o.
Substr(w, o, y, pos, count) ==
  IF pos >= Size(w, y) THEN FromChars(w, o, << >>)
  ELSE FromChars(w, o, Read(w, Data(w, y), pos, Clamp(w, y, pos, count)))

\* y + z, as a new object o.
Plus(w, o, y, z) ==
  LET v == CopyConstruct(w, o, y)
  IN IF v.halt THEN v ELSE Insert(v, o, Size(v, o), z)

\* erase(x, ch): the characters that stay move down, then resize.
EraseAll(w, x, ch) ==
  LET kept == SelectSeq(Chars(w, x), LAMBDA c : c # ch)
      moved == Put(w, Data(w, x), 0, kept)
  IN IF Len(kept) < Size(w, x) THEN Resize(moved, x, Len(kept), NUL) ELSE w
=============================================================================
