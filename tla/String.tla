------------------------------- MODULE String -------------------------------
(***************************************************************************)
(* Programs that use class string (libc++/string/string.cc): every call is *)
(* made on the representation w (StringRep) and on the values val          *)
(* (StringValue), and the two must agree.                                  *)
(***************************************************************************)
EXTENDS StringRep

CONSTANTS
  Objects,    \* variables of type string
  Temporary,  \* the temporary object of a call
  Literals,   \* C strings that are passed to calls
  Letters,    \* characters that are passed to calls
  Positions,  \* positions that are passed to calls
  Counts,     \* counts that are passed to calls, Npos included
  MaxLen      \* bound: the longest value of a string

VARIABLES w, val

vars == <<w, val>>

V == INSTANCE StringValue

Names == Objects \cup {Temporary}

Init ==
  /\ w = [obj |-> [o \in Names |-> NoObject],
          buf |-> [p \in Names \cup Blocks |-> << >>], fault |-> FALSE, halt |-> FALSE]
  /\ V!Init

\* Bytes that are behind the terminator of a string, or in an sso_ that is not
\* in use, are forgotten: a call that used one would be seen to.
Settled(n) ==
  LET Used(p) == {n.obj[o].size + 1 : o \in {q \in Names : n.obj[q].data = p /\ n.buf[q] # << >>}}
  IN [n EXCEPT !.buf = [p \in DOMAIN @ |->
        [i \in DOMAIN @[p] |-> IF \E k \in Used(p) : i <= k THEN @[p][i] ELSE Junk]]]

\* The call makes n of the memory.
Call(n) ==
  /\ \A o \in Objects : V!Alive(o)' => Len(val'[o]) <= MaxLen
  /\ w' = IF n.halt THEN [w EXCEPT !.halt = TRUE] ELSE Settled(n)

T == Temporary

Lifetime(o) ==
  \/ /\ V!Destroy(o) /\ Call(Destruct(w, o))
  \/ \E s \in Literals : V!Create(o, s) /\ Call(FromChars(w, o, s))
  \/ \E n \in Counts \ {Npos}, ch \in Letters :
       V!Create(o, V!Filled(n, ch)) /\ Call(FromChars(w, o, V!Filled(n, ch)))
  \/ \E y \in Objects :
       \/ V!CreateCopy(o, y) /\ Call(CopyConstruct(w, o, y))
       \/ V!CreateMoved(o, y) /\ Call(MoveConstruct(w, o, y))
       \/ \E pos \in Positions, n \in Counts :
            V!CreatePart(o, y, pos, n) /\ Call(Substr(w, o, y, pos, n))
       \/ \E z \in Objects : V!CreateSum(o, y, z) /\ Call(Plus(w, o, y, z))

Assignment(x) ==
  \/ \E s \in Literals : V!Assign(x, s) /\ Call(AssignChars(w, x, s))
  \/ \E y \in Objects :
       \/ V!AssignCopy(x, y) /\ Call(CopyAssign(w, x, y))
       \/ V!AssignMoved(x, y) /\ Call(MoveAssign(w, x, y))
       \/ V!Swap(x, y) /\ Call(SwapWith(w, x, y, T))

Storage(x) ==
  \/ \E n \in Counts \ {Npos} : V!Keep(x) /\ Call(Reserve(w, x, n))
  \/ V!Keep(x) /\ Call(ShrinkToFit(w, x))

\* A string is not inserted into the middle of itself, nor put in the place of
\* a part of itself: insert reads it after it moved the end away.
Modification(x) ==
  \/ V!Assign(x, << >>) /\ Call(Clear(w, x))
  \/ V!PopBack(x) /\ Call(PopBack(w, x))
  \/ \E pos \in Positions :
       \/ \E y \in Objects :
            /\ V!Alive(y) /\ (x = y => pos >= Len(val[x]))
            /\ V!Replace(x, pos, 0, val[y])
            /\ Call(Insert(w, x, pos, y))
       \/ \E s \in Literals :
            /\ V!Replace(x, pos, 0, s)
            /\ Call(WithTemporary(w, T, s, LAMBDA v : Insert(v, x, pos, T)))
       \/ \E n \in Counts \ {Npos}, ch \in Letters :
            V!Replace(x, pos, 0, V!Filled(n, ch)) /\ Call(InsertFill(w, x, pos, n, ch))
       \/ \E n \in Counts :
            \/ V!Erase(x, pos, n) /\ Call(Erase(w, x, pos, n))
            \/ \E y \in Objects \ {x} :
                 V!Alive(y) /\ V!Replace(x, pos, n, val[y]) /\ Call(Replace(w, x, pos, n, y))
            \/ \E s \in Literals :
                 \/ /\ V!Replace(x, pos, n, s)
                    /\ Call(WithTemporary(w, T, s, LAMBDA v : Replace(v, x, pos, n, T)))
                 \/ V!Replace(x, pos, n, s) /\ Call(ReplaceChars(w, x, pos, n, s))
  \/ \E n \in Counts \ {Npos}, ch \in Letters \cup {NUL} :
       V!Resize(x, n, ch) /\ Call(Resize(w, x, n, ch))
  \/ \E ch \in Letters : V!EraseAll(x, ch) /\ Call(EraseAll(w, x, ch))

Next ==
  /\ ~w.halt /\ ~w.fault
  /\ \E o \in Objects : Lifetime(o) \/ Assignment(o) \/ Storage(o) \/ Modification(o)

Spec == Init /\ [][Next]_vars

-----------------------------------------------------------------------------
(* What the representation promises.                                       *)

Live == {o \in Objects : w.buf[o] # << >>}
Working == ~w.halt

TypeOK ==
  /\ w.obj \in [Names -> [data : Names \cup Blocks \cup {0}, size : Nat, cap : Nat]]
  /\ w.fault \in BOOLEAN /\ w.halt \in BOOLEAN
  /\ val \in [Objects -> Seq(Letters \cup {NUL, -1})]

\* Whatever the calls, the representation holds the value it stands for, and
\* its terminator: growing, moving, shrinking and reusing a block lose nothing.
Agree ==
  Working => \A o \in Objects :
    IF o \in Live
      THEN /\ Chars(w, o) = val[o]
           /\ Read(w, Data(w, o), Size(w, o), 1) = <<NUL>>
      ELSE ~V!Alive(o)

\* The memory of strings is safe: no call reads or writes outside of a buffer,
\* uses a block after it was freed or frees one twice; every block belongs to
\* one object and has room for its capacity and the terminator: none is lost.
MemorySafe ==
  /\ TypeOK /\ ~w.fault
  /\ Working =>
       /\ \A b \in Blocks \ FreeBlocks(w) : \E o \in Live : Data(w, o) = b
       /\ \A o \in Live : Size(w, o) <= Capacity(w, o)
       /\ \A o \in Live : ~IsSSO(w, o) => /\ Len(w.buf[Data(w, o)]) = Capacity(w, o) + 1
                                          /\ Capacity(w, o) > SSO_CAPACITY
       /\ \A o, q \in Live : Data(w, o) = Data(w, q) => o = q

-----------------------------------------------------------------------------
(* What the searches and comparisons promise, on every value of a string.  *)

Values == {val[o] : o \in {q \in Objects : V!Alive(q)}}

Lowest(S) == IF S = {} THEN Npos ELSE Min(S)
Highest(S) == IF S = {} THEN Npos ELSE Max(S)
Occurs(d, n, i) == i + Len(n) <= Len(d) /\ SubSeq(d, i + 1, i + Len(n)) = n

\* find and its variants, strchr and strstr return the first place at or after
\* pos, with every text and every pos up to npos, for empty texts as well.
FirstMatches ==
  \A d, n \in Values, pos \in Positions \cup {Npos} :
    LET places == pos .. Len(d)
    IN /\ Find(d, n, pos) = Lowest({i \in places : Occurs(d, n, i)})
       /\ ViewFind(d, n, pos) = Find(d, n, pos)
       /\ FindFirstOf(d, n, pos) = Lowest({i \in places \ {Len(d)} : d[i + 1] \in ToSet(n)})
       /\ FindFirstNotOf(d, n, pos) = Lowest({i \in places \ {Len(d)} : d[i + 1] \notin ToSet(n)})
       /\ ContainsString(d, n) <=> \E i \in 0 .. Len(d) : Occurs(d, n, i)
       /\ Strstr(CStr(d), CStr(n)) = Find(CStr(d), CStr(n), 0)
       /\ \A ch \in Letters : Strchr(CStr(d), ch) = Find(Append(CStr(d), NUL), <<ch>>, 0)

\* rfind and its variants return the last place at or before pos, but rfind of
\* nothing finds nothing, unlike that of string_view; and strrchr never returns
\* the beginning of the text.
LastMatches ==
  \A d, n \in Values, pos \in Positions \cup {Npos} :
    LET places == 0 .. Min({pos, Len(d)})
        last == Highest({i \in places : Occurs(d, n, i)})
    IN /\ Rfind(d, n, pos) = IF n = << >> THEN Npos ELSE last
       /\ ViewRfind(d, n, pos) = last
       /\ FindLastOf(d, n, pos) = Highest({i \in places \ {Len(d)} : d[i + 1] \in ToSet(n)})
       /\ FindLastNotOf(d, n, pos) = Highest({i \in places \ {Len(d)} : d[i + 1] \notin ToSet(n)})
       /\ \A ch \in Letters : Strrchr(CStr(d), ch) =
            Highest({i \in 1 .. Len(CStr(d)) : Append(CStr(d), NUL)[i + 1] = ch})

\* compare orders strings as a dictionary does, and ==, starts_with, ends_with
\* and strcmp fit to it.
OrderIsLexicographic ==
  \A d, n \in Values :
    LET Before(a, b) == \/ IsStrictPrefix(a, b)
                        \/ \E i \in 1 .. Min({Len(a), Len(b)}) :
                             SubSeq(a, 1, i - 1) = SubSeq(b, 1, i - 1) /\ a[i] < b[i]
    IN /\ Compare(d, n) < 0 <=> Before(d, n)
       /\ Compare(d, n) = 0 <=> d = n
       /\ Equal(d, n) <=> d = n
       /\ StartsWith(d, n) <=> IsPrefix(n, d)
       /\ EndsWith(d, n) <=> IsSuffix(n, d)
       /\ Strcmp(CStr(d), CStr(n)) < 0 <=> Before(CStr(d), CStr(n))
       /\ Strcmp(CStr(d), CStr(n)) = 0 <=> CStr(d) = CStr(n)

\* All that looks at strings without changing them agrees with its definition,
\* on every value that the calls can produce.
LookupsAgree == FirstMatches /\ LastMatches /\ OrderIsLexicographic

\* The shell gets the words of a line, whole and in their order: the runs of
\* characters between blanks, the first MaxTokens - 1 of them.
TokensAreWords ==
  \A d \in Values :
    LET Letter(i) == i \in 1 .. Len(d) /\ d[i] # Blank
        starts == {i \in 1 .. Len(d) : Letter(i) /\ ~Letter(i - 1)}
        tokens == Tokenize(d)
    IN /\ Len(tokens) = Min({Cardinality(starts), MaxTokens - 1})
       /\ \A k \in 1 .. Len(tokens) :
            LET i == tokens[k][1] + 1
                j == tokens[k][1] + tokens[k][2]
            IN /\ i \in starts /\ Cardinality({s \in starts : s < i}) = k - 1
               /\ \A c \in i .. j : Letter(c)
               /\ ~Letter(j + 1)
=============================================================================
