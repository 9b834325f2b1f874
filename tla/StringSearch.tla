---------------------------- MODULE StringSearch ----------------------------
(***************************************************************************)
(* The searches and comparisons of class string (libc++/string/string.cc), *)
(* of string_view (libc++/include/string_view) and of the C functions      *)
(* (libc++/string/str*.cc, mem*.cc), and the tokenizer of the shell        *)
(* (user/shell/Tokenize.cc), with their early returns.  d is the text that *)
(* is searched, n what is looked for, and positions count from 0.          *)
(***************************************************************************)
EXTENDS Integers, SequencesExt

CONSTANTS
  NUL,        \* the character '\0'
  Npos,       \* npos, and nullptr of the C functions
  Blank,      \* a character that is a delimiter for the shell
  MaxTokens   \* the size of tokenize's array

\* A loop that returns the first i of lo .. hi with P(i), going up ...
Upward(lo, hi, P(_)) ==
  IF \E i \in lo .. hi : P(i)
    THEN CHOOSE i \in lo .. hi : P(i) /\ \A j \in lo .. i - 1 : ~P(j) ELSE Npos

\* ... and one that goes down from hi to 0.
Downward(hi, P(_)) ==
  IF \E i \in 0 .. hi : P(i)
    THEN CHOOSE i \in 0 .. hi : P(i) /\ \A j \in i + 1 .. hi : ~P(j) ELSE Npos

\* memcmp(d + i, n, Len(n)) == 0.
MatchAt(d, i, n) == \A k \in 1 .. Len(n) : d[i + k] = n[k]

\* Is d[i] one of the characters of n?
OneOf(d, i, n) == \E k \in 1 .. Len(n) : d[i + 1] = n[k]

\* Mutant: the last place where n fits is not looked at.
Find_Short(d, n, pos) ==
  CASE pos > Len(d) -> Npos
    [] pos <= Len(d) /\ n = << >> -> pos
    [] OTHER -> IF Len(n) > Len(d) - pos THEN Npos
                ELSE Upward(pos, Len(d) - Len(n) - 1, LAMBDA i : MatchAt(d, i, n))

\* find(str, pos), find(s, pos), find(s, pos, count).
Find(d, n, pos) ==
  CASE pos > Len(d) -> Npos
    [] pos <= Len(d) /\ n = << >> -> pos
    [] OTHER -> IF Len(n) > Len(d) - pos THEN Npos
                ELSE Upward(pos, Len(d) - Len(n), LAMBDA i : MatchAt(d, i, n))

\* rfind(str, pos), rfind(s, pos), rfind(s, pos, count).
Rfind(d, n, pos) ==
  IF n = << >> \/ Len(n) > Len(d) THEN Npos
  ELSE Downward(Min({pos, Len(d) - Len(n)}), LAMBDA i : MatchAt(d, i, n))

\* Where a search for single characters from the back starts.
LastPos(d, pos) == IF pos >= Len(d) THEN Len(d) - 1 ELSE pos

\* find(ch, pos), find_first_of(...), find_first_not_of(...).
FindFirstOf(d, n, pos) ==
  IF pos >= Len(d) THEN Npos ELSE Upward(pos, Len(d) - 1, LAMBDA i : OneOf(d, i, n))

FindFirstNotOf(d, n, pos) ==
  IF pos >= Len(d) THEN Npos ELSE Upward(pos, Len(d) - 1, LAMBDA i : ~OneOf(d, i, n))

\* rfind(ch, pos), find_last_of(...), find_last_not_of(...).
FindLastOf(d, n, pos) ==
  IF d = << >> THEN Npos ELSE Downward(LastPos(d, pos), LAMBDA i : OneOf(d, i, n))

FindLastNotOf(d, n, pos) ==
  IF d = << >> THEN Npos ELSE Downward(LastPos(d, pos), LAMBDA i : ~OneOf(d, i, n))

\* find and rfind of string_view; the other searches are those of string.
ViewFind(d, n, pos) ==
  IF pos > Len(d) \/ Len(n) > Len(d) - pos THEN Npos
  ELSE Upward(pos, Len(d) - Len(n), LAMBDA i : MatchAt(d, i, n))

ViewRfind(d, n, pos) ==
  IF Len(n) > Len(d) THEN Npos
  ELSE Downward(IF pos < Len(d) - Len(n) THEN pos ELSE Len(d) - Len(n),
                LAMBDA i : MatchAt(d, i, n))

\* contains, starts_with, ends_with.
ContainsString(d, n) == Find(d, n, 0) # Npos
StartsWith(d, n) == IF Len(n) > Len(d) THEN FALSE ELSE MatchAt(d, 0, n)
EndsWith(d, n) == IF Len(n) > Len(d) THEN FALSE ELSE MatchAt(d, Len(d) - Len(n), n)

\* memcmp of the first num characters: the first difference decides.
Memcmp(d, n, num) ==
  LET i == Upward(0, num - 1, LAMBDA k : d[k + 1] # n[k + 1])
  IN IF i = Npos THEN 0 ELSE IF d[i + 1] > n[i + 1] THEN 1 ELSE -1

\* compare(str), and operator<=> and string_view::compare by its sign.
Compare(d, n) ==
  LET cmp == Memcmp(d, n, Min({Len(d), Len(n)}))
  IN CASE cmp # 0 -> cmp
       [] cmp = 0 /\ Len(d) < Len(n) -> -1
       [] cmp = 0 /\ Len(d) > Len(n) -> 1
       [] OTHER -> 0

\* operator==.
Equal(d, n) == Len(d) = Len(n) /\ Memcmp(d, n, Len(d)) = 0

-----------------------------------------------------------------------------
(* C strings: c is a text with no NUL in it and with one behind it.        *)

\* strlen(d.c_str()).
Strlen(d) == LET i == Upward(0, Len(d) - 1, LAMBDA k : d[k + 1] = NUL)
             IN IF i = Npos THEN Len(d) ELSE i

CStr(d) == SubSeq(d, 1, Strlen(d))

\* strchr looks at the terminator too; strrchr as well, but not at position 0.
Strchr(c, ch) == Upward(0, Len(c), LAMBDA i : Append(c, NUL)[i + 1] = ch)
Strrchr(c, ch) ==
  LET i == Downward(Len(c), LAMBDA k : k # 0 /\ Append(c, NUL)[k + 1] = ch) IN i

\* strstr: the inner loop stops at the end of either text.
Strstr(c, n) ==
  IF n = << >> THEN 0
  ELSE Upward(0, Len(c) - 1, LAMBDA i : Len(n) <= Len(c) - i /\ MatchAt(c, i, n))

\* strcmp, and strncmp with a num that is large enough.
Strcmp(c, n) ==
  LET a == Append(c, NUL)
      b == Append(n, NUL)
      i == CHOOSE k \in 1 .. Len(a) : /\ \A j \in 1 .. k - 1 : a[j] = b[j]
                                      /\ a[k] = NUL \/ a[k] # b[k]
  IN a[i] - b[i]

-----------------------------------------------------------------------------
(* tokenize: the words of a line, as <<start, length>>.                    *)

\* Mutant: the last place of the array is used for a word as well.
RECURSIVE TokensFrom_Full(_, _, _)
TokensFrom_Full(line, i, tokens) ==
  LET start == Upward(i, Len(line) - 1, LAMBDA k : line[k + 1] # Blank)
      delim == Upward(start, Len(line) - 1, LAMBDA k : line[k + 1] = Blank)
      end == IF delim = Npos THEN Len(line) ELSE delim
  IN IF start = Npos \/ Len(tokens) >= MaxTokens THEN tokens
     ELSE TokensFrom_Full(line, end, Append(tokens, <<start, end - start>>))

RECURSIVE TokensFrom(_, _, _)
TokensFrom(line, i, tokens) ==
  LET start == Upward(i, Len(line) - 1, LAMBDA k : line[k + 1] # Blank)
      delim == Upward(start, Len(line) - 1, LAMBDA k : line[k + 1] = Blank)
      end == IF delim = Npos THEN Len(line) ELSE delim
  IN IF start = Npos \/ Len(tokens) >= MaxTokens - 1 THEN tokens
     ELSE TokensFrom(line, end, Append(tokens, <<start, end - start>>))

Tokenize(line) == TokensFrom(line, 0, << >>)
=============================================================================
