----------------------------- MODULE StringValue -----------------------------
(***************************************************************************)
(* What class string promises: each object holds a sequence of characters, *)
(* and every operation changes it the way these definitions say.  There    *)
(* are no buffers, capacities or pointers here.                            *)
(***************************************************************************)
EXTENDS Integers, SequencesExt

CONSTANTS
  Objects,    \* variables of type string
  NUL,        \* the character '\0'
  Npos        \* string::npos

VARIABLE val  \* val[o]: the value of o, or NoString outside its lifetime

NoString == << -1 >>

Alive(o) == val[o] # NoString

\* The characters of s from position pos on, count of them at most.
Part(s, pos, count) ==
  IF pos >= Len(s) THEN << >>
  ELSE SubSeq(s, pos + 1, IF count = Npos THEN Len(s) ELSE Min({Len(s), pos + count}))

\* s with the part from pos on, count characters at most, replaced by t.
Splice(s, pos, count, t) ==
  LET p == Min({pos, Len(s)})
  IN SubSeq(s, 1, p) \o t \o Part(s, p + Len(Part(s, p, count)), Npos)

Filled(count, ch) == [i \in 1 .. count |-> ch]

Init == val = [o \in Objects |-> NoString]

Create(o, s) == ~Alive(o) /\ val' = [val EXCEPT ![o] = s]
CreateCopy(o, y) == Alive(y) /\ Create(o, val[y])
CreateMoved(o, y) == ~Alive(o) /\ Alive(y) /\ val' = [val EXCEPT ![o] = val[y], ![y] = << >>]
CreatePart(o, y, pos, count) == Alive(y) /\ Create(o, Part(val[y], pos, count))
CreateSum(o, y, z) == Alive(y) /\ Alive(z) /\ Create(o, val[y] \o val[z])
Destroy(o) == Alive(o) /\ val' = [val EXCEPT ![o] = NoString]

Assign(x, s) == Alive(x) /\ val' = [val EXCEPT ![x] = s]
AssignCopy(x, y) == Alive(y) /\ Assign(x, val[y])
AssignMoved(x, y) ==
  /\ Alive(x) /\ Alive(y)
  /\ val' = IF x = y THEN val ELSE [val EXCEPT ![x] = val[y], ![y] = << >>]
Swap(x, y) == Alive(x) /\ Alive(y) /\ val' = [val EXCEPT ![x] = val[y], ![y] = val[x]]

Keep(x) == Alive(x) /\ UNCHANGED val
PopBack(x) == Assign(x, IF val[x] = << >> THEN << >> ELSE Front(val[x]))
Replace(x, pos, count, s) == Assign(x, Splice(val[x], pos, count, s))
Erase(x, pos, count) == Assign(x, IF pos > Len(val[x]) THEN val[x]
                                  ELSE Splice(val[x], pos, count, << >>))
Resize(x, n, ch) ==
  Assign(x, IF n <= Len(val[x]) THEN SubSeq(val[x], 1, n)
            ELSE val[x] \o Filled(n - Len(val[x]), ch))
EraseAll(x, ch) == Assign(x, SelectSeq(val[x], LAMBDA c : c # ch))
=============================================================================
