----------------------------- MODULE HeapProofs -----------------------------
(***************************************************************************)
(* Proofs about module Heap, for a heap of any size and requests of any    *)
(* size.                                                                   *)
(***************************************************************************)
EXTENDS Heap, TLAPS

\* A leaf that names no prover goes to the SMT solver, with time to spare.
USE SMTT(30)

Aligned(n) == n % BLOCK_ALIGN = 0

\* The blocks at B, with the sizes that h has, cover s .. e - 1 one after the
\* other, and are aligned.
Tiling(h, B, s, e) ==
  /\ B \subseteq s .. e - 1 /\ s \in B
  /\ \A a \in B : h[a].size \in Nat \ {0} /\ a + h[a].size \in B \cup {e}
  /\ \A a, b \in B : a < b => a + h[a].size <= b
  /\ \A a \in B \ {s} : \E b \in B : b + h[b].size = a
  /\ \A a \in B : Aligned(a) /\ Aligned(h[a].size)

\* The headers in s .. e - 1, those that are stale too: L are in use.
Headers(h, L, s, e) ==
  \A a \in DOMAIN h :
    /\ a \in s .. e - 1
    /\ DOMAIN h[a] = {"size", "alloc"} /\ h[a].size \in 1 .. e - s
    /\ (h[a].alloc <=> a \in L)

\* No free block is followed by a free block.
Coalesced(h, F) == \A a \in F : a + h[a].size \notin F

\* ... but for block node.
CoalescedBut(h, F, node) == \A a \in F \ {node} : a + h[a].size \notin F

\* The headers of the blocks L have not changed.
Same(h, g, L) == \A a \in L : g[a] = h[a]

\* A list of free blocks.
List(list) == list \in Seq(Nat) /\ IsInjective(list)

\* The blocks of list and the blocks L in use.
Blocks(h, list, L, s, e) ==
  /\ s \in Nat /\ e \in Nat /\ List(list)
  /\ Range(list) \cap L = {} /\ Range(list) \cup L \subseteq DOMAIN h
  /\ Headers(h, L, s, e)
  /\ Tiling(h, Range(list) \cup L, s, e)

HeapInv ==
  /\ Blocks(hdr, freeList, DOMAIN live, heapStart, heapEnd)
  /\ Coalesced(hdr, Range(freeList))
  /\ \A a \in DOMAIN live : live[a] \in Nat /\ HDR + live[a] <= hdr[a].size

-----------------------------------------------------------------------------
(* Arithmetic.                                                             *)

LEMMA ModDiv ==
  ASSUME NEW n \in Nat \ {0}, NEW a \in Nat
  PROVE  /\ a \div n \in Nat /\ a % n \in 0 .. n - 1
         /\ a % n = a - n * (a \div n)
OBVIOUS

LEMMA MultipleOf ==
  ASSUME NEW n \in Nat \ {0}, NEW q \in Nat
  PROVE  (n * q) % n = 0
<1>1. n * q \in Nat
  OBVIOUS
<1>2. (n * q) % n = n * q - n * ((n * q) \div n) /\ (n * q) % n \in 0 .. n - 1
      /\ (n * q) \div n \in Nat
  BY <1>1, ModDiv, Zenon
<1> DEFINE d == (n * q) \div n
<1>3. n * q - n * d = n * (q - d)
  <2> HIDE DEF d
  <2>1. d \in Nat
    BY <1>2 DEF d
  <2>. QED  BY <2>1
<1>4. q - d \in Int /\ 0 <= n * (q - d) /\ n * (q - d) < n
  BY <1>2, <1>3
<1>5. q - d = 0
  <2>1. CASE q - d >= 1
    <3>1. n * (q - d) >= n
      BY <2>1, <1>4
    <3>. QED  BY <3>1, <1>4
  <2>2. CASE q - d <= -1
    <3>1. n * (q - d) <= -n
      BY <2>2, <1>4
    <3>. QED  BY <3>1, <1>4
  <2>. QED  BY <2>1, <2>2, <1>4
<1>. QED  BY <1>2, <1>3, <1>5

LEMMA AlignedSum ==
  ASSUME NEW m \in Nat, NEW n \in Nat, Aligned(m), Aligned(n)
  PROVE  Aligned(m + n) /\ (m <= n => Aligned(n - m))
<1> DEFINE A == BLOCK_ALIGN
<1>1. A \in Nat \ {0}
  BY HeapAssumption
<1>2. m = A * (m \div A) /\ n = A * (n \div A) /\ m \div A \in Nat /\ n \div A \in Nat
  BY <1>1, ModDiv DEF Aligned
<1> DEFINE p == m \div A
           q == n \div A
<1>3. m + n = A * (p + q) /\ p + q \in Nat
  BY <1>1, <1>2
<1>4. Aligned(m + n)
  BY <1>1, <1>3, MultipleOf, Zenon DEF Aligned
<1>5. ASSUME m <= n PROVE Aligned(n - m)
  <2>1. n - m = A * (q - p)
    BY <1>1, <1>2
  <2>2. q - p \in Nat
    <3>1. CASE q - p <= -1
      <4>1. A * (q - p) <= -A
        BY <3>1, <1>1, <1>2
      <4>. QED  BY <4>1, <2>1, <1>5, <1>1
    <3>. QED  BY <3>1, <1>2
  <2>. QED  BY <1>1, <2>1, <2>2, MultipleOf, Zenon DEF Aligned
<1>. QED  BY <1>4, <1>5

\* What alignUp returns, unless it saturates.
LEMMA AlignUpBound ==
  ASSUME NEW n \in Nat, NEW a \in Nat \ {0}, n <= SIZE_MAX - (a - 1)
  PROVE  AlignUp(n, a) \in n .. n + a - 1 /\ AlignUp(n, a) % a = 0
<1> DEFINE x == n + a - 1
           q == x \div a
<1>1. SIZE_MAX \in Nat /\ x \in Nat
  BY HeapAssumption
<1>2. q \in Nat /\ x % a \in 0 .. a - 1 /\ x % a = x - a * q
  BY <1>1, ModDiv, Zenon
<1>3. AlignUp(n, a) = a * q
  BY <1>1, <1>2 DEF AlignUp
<1>4. a * q \in Int
  BY <1>2
<1>5. a * q \in n .. n + a - 1
  BY <1>1, <1>2, <1>4
<1>6. (a * q) % a = 0
  BY <1>2, MultipleOf, Zenon
<1>. QED  BY <1>3, <1>5, <1>6

LEMMA LargerOf ==
  ASSUME NEW a \in Nat, NEW b \in Nat
  PROVE  Max({a, b}) \in Nat /\ Max({a, b}) >= a /\ Max({a, b}) >= b
<1> DEFINE m == IF a >= b THEN a ELSE b
<1>1. m \in {a, b} /\ \A y \in {a, b} : m >= y
  OBVIOUS
<1>. QED  BY <1>1 DEF Max

\* A block that alloc asks for has room for the header and the request.
LEMMA NeededRoom ==
  ASSUME NEW n \in Nat, Needed(n) # SIZE_MAX
  PROVE  Needed(n) \in Nat \ {0} /\ Needed(n) >= HDR + n /\ Aligned(Needed(n))
<1> DEFINE aligned == AlignUp(n, WORD)
           m == Max({HDR + aligned, MIN_BLOCK})
<1>1. /\ HDR \in Nat \ {0} /\ WORD \in Nat \ {0} /\ BLOCK_ALIGN \in Nat \ {0}
      /\ MIN_BLOCK \in Nat \ {0} /\ SIZE_MAX \in Nat
  BY HeapAssumption
<1>2. ~(aligned > SIZE_MAX - HDR) /\ Needed(n) = AlignUp(m, BLOCK_ALIGN)
  BY DEF Needed
<1>3. n <= SIZE_MAX - (WORD - 1)
  BY <1>1, <1>2 DEF AlignUp
<1>4. aligned \in n .. n + WORD - 1
  BY <1>1, <1>3, AlignUpBound
<1>5. m \in Nat /\ m >= HDR + aligned
  BY <1>1, <1>4, LargerOf
<1>6. m <= SIZE_MAX - (BLOCK_ALIGN - 1)
  BY <1>1, <1>2, <1>5 DEF AlignUp
<1>7. AlignUp(m, BLOCK_ALIGN) \in m .. m + BLOCK_ALIGN - 1 /\ Aligned(AlignUp(m, BLOCK_ALIGN))
  BY <1>1, <1>5, <1>6, AlignUpBound DEF Aligned
<1> HIDE DEF m, aligned
<1>. QED  BY <1>1, <1>2, <1>4, <1>5, <1>7

-----------------------------------------------------------------------------
(* Lists.                                                                  *)

Replaced(list, i, x) == [list EXCEPT ![i] = x]

LEMMA ListReplaced ==
  ASSUME NEW list, List(list), NEW i \in 1 .. Len(list), NEW x \in Nat, x \notin Range(list)
  PROVE  /\ List(Replaced(list, i, x))
         /\ Range(Replaced(list, i, x)) = (Range(list) \ {list[i]}) \cup {x}
<1> DEFINE new == [list EXCEPT ![i] = x]
<1>1. list \in Seq(Nat) /\ Len(list) \in Nat /\ DOMAIN list = 1 .. Len(list)
      /\ \A j, k \in 1 .. Len(list) : list[j] = list[k] => j = k
  BY DEF List, IsInjective
<1>2. new \in Seq(Nat) /\ DOMAIN new = 1 .. Len(list)
  BY <1>1
<1>3. \A j \in 1 .. Len(list) : new[j] = IF j = i THEN x ELSE list[j]
  BY <1>1
<1>4. \A j \in 1 .. Len(list) : list[j] # x
  BY <1>1 DEF Range
<1> HIDE DEF new
<1>5. IsInjective(new)
  BY <1>1, <1>2, <1>3, <1>4, Zenon DEF IsInjective
<1>6. Range(new) = (Range(list) \ {list[i]}) \cup {x}
  BY <1>1, <1>2, <1>3, <1>4 DEF Range
<1>. QED  BY <1>2, <1>5, <1>6, Zenon DEF List, Replaced, new

LEMMA ListRemoved ==
  ASSUME NEW list, List(list), NEW i \in 1 .. Len(list)
  PROVE  /\ List(RemoveFromFreeList(list, i))
         /\ Range(RemoveFromFreeList(list, i)) = Range(list) \ {list[i]}
<1> DEFINE new == RemoveFromFreeList(list, i)
           front == SubSeq(list, 1, i - 1)
           back == SubSeq(list, i + 1, Len(list))
<1>1. list \in Seq(Nat) /\ Len(list) \in Nat /\ DOMAIN list = 1 .. Len(list)
  BY DEF List
<1>2. PICK n \in Nat : n = Len(list)
  BY <1>1, Zenon
<1>3. i \in 1 .. n /\ DOMAIN list = 1 .. n
  BY <1>1, <1>2
<1>4. \A j \in 1 .. n : list[j] \in Nat
  BY <1>1, <1>2
<1>5. \A j, k \in 1 .. n : list[j] = list[k] => j = k
  BY <1>3 DEF List, IsInjective
<1>6. front \in Seq(Nat) /\ Len(front) = i - 1 /\ \A j \in 1 .. i - 1 : front[j] = list[j]
  <2>1. 1 \in Int /\ i - 1 \in Int /\ \A j \in 1 .. i - 1 : list[j] \in Nat
    BY <1>3, <1>4
  <2>2. /\ front \in Seq(Nat) /\ Len(front) = IF 1 <= i - 1 THEN i - 1 - 1 + 1 ELSE 0
        /\ \A j \in 1 .. i - 1 - 1 + 1 : front[j] = list[1 + j - 1]
    BY <2>1
  <2> HIDE DEF front
  <2>. QED  BY <1>3, <2>2
<1>7. back \in Seq(Nat) /\ Len(back) = n - i /\ \A j \in 1 .. n - i : back[j] = list[j + i]
  <2>1. i + 1 \in Int /\ n \in Int /\ \A j \in i + 1 .. n : list[j] \in Nat
    BY <1>3, <1>4
  <2>2. back = SubSeq(list, i + 1, n)
    BY <1>2
  <2> HIDE DEF back
  <2>3. /\ back \in Seq(Nat) /\ Len(back) = IF i + 1 <= n THEN n - (i + 1) + 1 ELSE 0
        /\ \A j \in 1 .. n - (i + 1) + 1 : back[j] = list[i + 1 + j - 1]
    BY <2>1, <2>2
  <2>4. n - (i + 1) + 1 = n - i /\ \A j \in 1 .. n - i : i + 1 + j - 1 = j + i
    BY <1>3
  <2>. QED  BY <1>3, <2>3, <2>4
<1>8. new \in Seq(Nat) /\ Len(new) = n - 1
      /\ \A j \in 1 .. n - 1 : new[j] = IF j <= i - 1 THEN front[j] ELSE back[j - (i - 1)]
  <2>1. new = front \o back
    BY DEF RemoveFromFreeList
  <2> HIDE DEF new, front, back
  <2>2. /\ new \in Seq(Nat) /\ Len(new) = Len(front) + Len(back)
        /\ \A j \in 1 .. Len(front) + Len(back) :
             new[j] = IF j <= Len(front) THEN front[j] ELSE back[j - Len(front)]
    <3>1. \A u, v \in Seq(Nat) :
            /\ u \o v \in Seq(Nat) /\ Len(u \o v) = Len(u) + Len(v)
            /\ \A j \in 1 .. Len(u) + Len(v) :
                 (u \o v)[j] = IF j <= Len(u) THEN u[j] ELSE v[j - Len(u)]
      OBVIOUS
    <3>. QED  BY <1>6, <1>7, <2>1, <3>1, Zenon
  <2>3. Len(front) = i - 1 /\ Len(front) + Len(back) = n - 1
    BY <1>3, <1>6, <1>7
  <2>. QED  BY <2>2, <2>3
<1> HIDE DEF new, front, back
<1>9. /\ \A j \in 1 .. i - 1 : j \in 1 .. n - 1 /\ new[j] = list[j]
      /\ \A j \in i .. n - 1 : new[j] = list[j + 1]
  <2>1. ASSUME NEW j \in 1 .. i - 1 PROVE j \in 1 .. n - 1 /\ new[j] = list[j]
    <3>1. j \in 1 .. n - 1 /\ j <= i - 1
      BY <1>3
    <3>2. front[j] = list[j]
      BY <1>6
    <3>. QED  BY <3>1, <3>2, <1>8
  <2>2. ASSUME NEW j \in i .. n - 1 PROVE new[j] = list[j + 1]
    <3>1. j \in 1 .. n - 1 /\ ~(j <= i - 1) /\ j - (i - 1) \in 1 .. n - i
          /\ (j - (i - 1)) + i = j + 1
      BY <1>3
    <3>2. back[j - (i - 1)] = list[j + 1]
      BY <3>1, <1>7
    <3>3. new[j] = IF j <= i - 1 THEN front[j] ELSE back[j - (i - 1)]
      BY <3>1, <1>8
    <3>. QED  BY <3>1, <3>2, <3>3
  <2>. QED  BY <2>1, <2>2
<1>10. DOMAIN new = 1 .. n - 1 /\ new \in Seq(Nat)
  BY <1>8
<1>11. \A j \in 1 .. n - 1 :
         \E k \in 1 .. n : new[j] = list[k] /\ k # i /\ k = IF j < i THEN j ELSE j + 1
  <2>1. SUFFICES ASSUME NEW j \in 1 .. n - 1
                 PROVE  \E k \in 1 .. n : /\ new[j] = list[k] /\ k # i
                                          /\ k = IF j < i THEN j ELSE j + 1
    OBVIOUS
  <2>2. CASE j < i
    <3>1. j \in 1 .. i - 1 /\ j \in 1 .. n /\ j # i
      BY <1>3, <2>2
    <3>. QED  BY <1>9, <2>2, <3>1
  <2>3. CASE ~(j < i)
    <3>1. j \in i .. n - 1 /\ j + 1 \in 1 .. n /\ j + 1 # i
      BY <1>3, <2>3
    <3>. QED  BY <1>9, <2>3, <3>1
  <2>. QED  BY <2>2, <2>3
<1>12. IsInjective(new)
  <2>1. SUFFICES ASSUME NEW j \in 1 .. n - 1, NEW k \in 1 .. n - 1, new[j] = new[k] PROVE j = k
    BY <1>10 DEF IsInjective
  <2>2. PICK jj \in 1 .. n : new[j] = list[jj] /\ jj = IF j < i THEN j ELSE j + 1
    BY <1>11
  <2>3. PICK kk \in 1 .. n : new[k] = list[kk] /\ kk = IF k < i THEN k ELSE k + 1
    BY <1>11
  <2>4. jj = kk
    BY <1>5, <2>1, <2>2, <2>3, Zenon
  <2>. QED  BY <1>3, <2>2, <2>3, <2>4
<1>13. Range(new) = Range(list) \ {list[i]}
  <2>1. ASSUME NEW x \in Range(new) PROVE x \in Range(list) \ {list[i]}
    <3>1. PICK j \in 1 .. n - 1 : x = new[j]
      BY <1>10 DEF Range
    <3>2. PICK k \in 1 .. n : x = list[k] /\ k # i
      BY <1>11, <3>1
    <3>. QED  BY <1>3, <1>5, <3>2 DEF Range
  <2>2. ASSUME NEW x \in Range(list) \ {list[i]} PROVE x \in Range(new)
    <3>1. PICK k \in 1 .. n : x = list[k]
      BY <1>3 DEF Range
    <3>2. CASE k < i
      <4>1. k \in 1 .. n - 1 /\ new[k] = x
        BY <1>3, <1>9, <3>1, <3>2
      <4>. QED  BY <1>10, <4>1 DEF Range
    <3>3. CASE k > i
      <4>1. k - 1 \in i .. n - 1 /\ k - 1 \in 1 .. n - 1 /\ (k - 1) + 1 = k
        BY <1>3, <3>3
      <4>2. new[k - 1] = x
        BY <1>9, <3>1, <4>1
      <4>. QED  BY <1>10, <4>1, <4>2 DEF Range
    <3>. QED  BY <1>3, <3>1, <3>2, <3>3, <2>2
  <2>. QED  BY <2>1, <2>2
<1>. QED  BY <1>10, <1>12, <1>13 DEF List, new

LEMMA ListUnlinked ==
  ASSUME NEW list, List(list), NEW x \in Range(list)
  PROVE  /\ List(RemoveFromFreeList(list, Place(list, x)))
         /\ Range(RemoveFromFreeList(list, Place(list, x))) = Range(list) \ {x}
<1>1. /\ list \in Seq(Nat) /\ Len(list) \in Nat /\ DOMAIN list = 1 .. Len(list)
      /\ \A j, k \in 1 .. Len(list) : list[j] = list[k] => j = k
  BY DEF List, IsInjective
<1>2. PICK i \in 1 .. Len(list) : list[i] = x
  BY <1>1 DEF Range
<1>3. {j \in 1 .. Len(list) : list[j] = x} = {i}
  BY <1>1, <1>2
<1>4. Min({i}) = i
  <2>1. i \in {i} /\ \A y \in {i} : i <= y
    BY <1>1, <1>2
  <2>. QED  BY <2>1 DEF Min
<1>5. Place(list, x) = i
  BY <1>3, <1>4, Zenon DEF Place
<1>. QED  BY <1>2, <1>5, ListRemoved, Zenon

LEMMA ListLinked ==
  ASSUME NEW list, List(list), NEW x \in Nat, x \notin Range(list)
  PROVE  List(<<x>> \o list) /\ Range(<<x>> \o list) = Range(list) \cup {x}
<1> DEFINE new == <<x>> \o list
<1>1. PICK n \in Nat :
      /\ n = Len(list) /\ list \in Seq(Nat) /\ DOMAIN list = 1 .. n
      /\ \A j, k \in 1 .. n : list[j] = list[k] => j = k
  BY DEF List, IsInjective
<1>2. <<x>> \in Seq(Nat) /\ Len(<<x>>) = 1 /\ <<x>>[1] = x
  OBVIOUS
<1>3. /\ new \in Seq(Nat) /\ Len(new) = n + 1
      /\ \A j \in 1 .. n + 1 : new[j] = IF j <= 1 THEN <<x>>[j] ELSE list[j - 1]
  BY <1>1, <1>2
<1>4. DOMAIN new = 1 .. n + 1
  BY <1>3
<1>5. new[1] = x /\ \A j \in 1 .. n : new[j + 1] = list[j]
  BY <1>1, <1>2, <1>3
<1>6. \A j \in 1 .. n + 1 : j = 1 \/ (j - 1 \in 1 .. n /\ new[j] = list[j - 1])
  BY <1>1, <1>3
<1>7. \A j \in 1 .. n : list[j] # x
  BY <1>1 DEF Range
<1> HIDE DEF new
<1>8. IsInjective(new)
  <2>1. SUFFICES ASSUME NEW j \in 1 .. n + 1, NEW k \in 1 .. n + 1, new[j] = new[k] PROVE j = k
    BY <1>4 DEF IsInjective
  <2>2. j = 1 \/ (j - 1 \in 1 .. n /\ new[j] = list[j - 1])
    BY <1>6
  <2>3. k = 1 \/ (k - 1 \in 1 .. n /\ new[k] = list[k - 1])
    BY <1>6
  <2>4. CASE j # 1 /\ k # 1
    <3>1. j - 1 = k - 1
      BY <1>1, <2>1, <2>2, <2>3, <2>4
    <3>. QED  BY <3>1
  <2>. QED  BY <1>5, <1>7, <2>1, <2>2, <2>3, <2>4
<1>9. Range(new) = Range(list) \cup {x}
  <2>1. ASSUME NEW y \in Range(new) PROVE y \in Range(list) \cup {x}
    <3>1. PICK j \in 1 .. n + 1 : y = new[j]
      BY <1>4 DEF Range
    <3>2. j = 1 \/ (j - 1 \in DOMAIN list /\ new[j] = list[j - 1])
      BY <1>1, <1>6
    <3>. QED  BY <1>5, <3>1, <3>2 DEF Range
  <2>2. x \in Range(new)
    BY <1>1, <1>4, <1>5 DEF Range
  <2>3. ASSUME NEW y \in Range(list) PROVE y \in Range(new)
    <3>1. PICK j \in 1 .. n : y = list[j]
      BY <1>1 DEF Range
    <3>2. j + 1 \in 1 .. n + 1
      BY <1>1
    <3>. QED  BY <1>4, <1>5, <3>1, <3>2 DEF Range
  <2>. QED  BY <2>1, <2>2, <2>3, Zenon
<1>. QED  BY <1>3, <1>8, <1>9 DEF List, new

-----------------------------------------------------------------------------
(* Blocks.                                                                 *)

LEMMA TilingSame ==
  ASSUME NEW h, NEW g, NEW B, NEW s \in Nat, NEW e \in Nat, Tiling(h, B, s, e),
         \A a \in B : g[a].size = h[a].size
  PROVE  Tiling(g, B, s, e)
BY DEF Tiling

\* A block becomes two.
LEMMA TilingSplit ==
  ASSUME NEW h, NEW g, NEW B, NEW s \in Nat, NEW e \in Nat, Tiling(h, B, s, e),
         NEW a \in B, NEW m \in Nat \ {0}, m < h[a].size, Aligned(m),
         g[a].size = m, g[a + m].size = h[a].size - m,
         \A b \in B \ {a} : g[b].size = h[b].size
  PROVE  Tiling(g, B \cup {a + m}, s, e) /\ a + m \notin B
<1> DEFINE r == a + m
           z == h[a].size
<1>1. /\ B \subseteq s .. e - 1 /\ s \in B /\ a \in Nat
      /\ \A b \in B : h[b].size \in Nat \ {0} /\ b + h[b].size \in B \cup {e}
      /\ \A b, c \in B : b < c => b + h[b].size <= c
      /\ \A b \in B \ {s} : \E c \in B : c + h[c].size = b
      /\ \A b \in B : Aligned(b) /\ Aligned(h[b].size)
  BY DEF Tiling
<1>2. r \notin B /\ r \in s .. e - 1 /\ a < r /\ r + g[r].size = a + z /\ r # a
  BY <1>1
<1>3. Aligned(r) /\ Aligned(g[r].size)
  BY <1>1, AlignedSum
<1>4. \A b \in B \cup {r} : g[b].size \in Nat \ {0} /\ b + g[b].size \in B \cup {r, e}
  BY <1>1, <1>2
<1>5. ASSUME NEW b \in B \cup {r}, NEW c \in B \cup {r}, b < c PROVE b + g[b].size <= c
  <2>1. CASE b \in B \ {a} /\ c = r
    <3>1. b < a
      BY <1>1, <1>2, <1>5, <2>1
    <3>. QED  BY <1>1, <1>2, <2>1, <3>1
  <2>2. CASE b = r /\ c \in B
    BY <1>1, <1>2, <1>5, <2>2
  <2>3. CASE b = a
    BY <1>1, <1>2, <1>5, <2>3
  <2>4. CASE b \in B \ {a} /\ c \in B
    BY <1>1, <1>5, <2>4
  <2>5. b # r \/ c # r
    BY <1>2, <1>5
  <2>. QED  BY <2>1, <2>2, <2>3, <2>4, <2>5
<1>6. ASSUME NEW b \in (B \cup {r}) \ {s} PROVE \E c \in B \cup {r} : c + g[c].size = b
  <2>1. CASE b = r
    BY <2>1
  <2>2. CASE b # r
    <3>1. PICK c \in B : c + h[c].size = b
      BY <1>1, <1>6, <2>2
    <3>2. CASE c = a
      BY <1>2, <3>1, <3>2
    <3>3. CASE c # a
      BY <3>1, <3>3
    <3>. QED  BY <3>2, <3>3
  <2>. QED  BY <2>1, <2>2
<1>7. \A b \in B \cup {r} : Aligned(b) /\ Aligned(g[b].size)
  BY <1>1, <1>3
<1> HIDE DEF r
<1>8. Tiling(g, B \cup {r}, s, e)
  BY <1>1, <1>2, <1>4, <1>5, <1>6, <1>7 DEF Tiling
<1>. QED  BY <1>2, <1>8 DEF r

\* A block and the next one become one.
LEMMA TilingMerge ==
  ASSUME NEW h, NEW g, NEW B, NEW s \in Nat, NEW e \in Nat, Tiling(h, B, s, e),
         NEW a \in B, NEW b \in B, b = a + h[a].size,
         g[a].size = h[a].size + h[b].size,
         \A c \in B \ {a, b} : g[c].size = h[c].size
  PROVE  Tiling(g, B \ {b}, s, e)
<1>0. B \subseteq Nat
  BY DEF Tiling
<1>1. /\ B \subseteq s .. e - 1 /\ s \in B /\ a \in Nat /\ b \in Nat
      /\ \A c \in B : h[c].size \in Nat \ {0} /\ c + h[c].size \in B \cup {e}
      /\ \A c, d \in B : c < d => c + h[c].size <= d
      /\ \A c \in B \ {s} : \E d \in B : d + h[d].size = c
      /\ \A c \in B : Aligned(c) /\ Aligned(h[c].size)
  BY DEF Tiling
<1>2. a < b /\ b # s /\ a + g[a].size = b + h[b].size
  BY <1>1
<1>3. Aligned(g[a].size)
  <2>1. h[a].size \in Nat /\ h[b].size \in Nat /\ Aligned(h[a].size) /\ Aligned(h[b].size)
    BY <1>1
  <2>. QED  BY <2>1, AlignedSum
<1>4. ASSUME NEW c \in B \ {b} PROVE g[c].size \in Nat \ {0} /\ c + g[c].size \in (B \ {b}) \cup {e}
  <2>1. CASE c = a
    BY <1>1, <1>2, <2>1
  <2>2. CASE c # a
    <3>1. /\ c \in B /\ c # b /\ g[c].size = h[c].size /\ h[c].size \in Nat \ {0}
          /\ c < a => c + h[c].size <= a
          /\ a < c => b <= c
      BY <1>1, <2>2, <1>4, Zenon
    <3>2. c \in Nat /\ a \in Nat /\ b \in Nat /\ a < b
      BY <1>0, <1>2, <3>1, Zenon
    <3>3. c + h[c].size # b
      BY <2>2, <3>1, <3>2
    <3>. QED  BY <1>1, <3>1, <3>3, Zenon
  <2>. QED  BY <2>1, <2>2
<1>5. ASSUME NEW c \in B \ {b}, NEW d \in B \ {b}, c < d PROVE c + g[c].size <= d
  <2>1. CASE c = a
    <3>1. b <= d /\ (b < d => b + h[b].size <= d)
      BY <1>1, <1>5, <2>1, Zenon
    <3>2. b \in Nat /\ d \in Nat /\ d # b
      BY <1>0, <1>5, Zenon
    <3>. QED  BY <1>2, <2>1, <3>1, <3>2
  <2>2. CASE c # a
    <3>1. g[c].size = h[c].size
      BY <1>5, <2>2, Zenon
    <3>. QED  BY <1>1, <1>5, <3>1, Zenon
  <2>. QED  BY <2>1, <2>2
<1>6. ASSUME NEW c \in (B \ {b}) \ {s} PROVE \E d \in B \ {b} : d + g[d].size = c
  <2>1. PICK d \in B : d + h[d].size = c
    BY <1>1, <1>6, Zenon
  <2>2. CASE d = b
    BY <1>2, <2>1, <2>2
  <2>3. CASE d # b
    <3>1. d # a
      BY <1>6, <2>1
    <3>. QED  BY <2>1, <2>3, <3>1
  <2>. QED  BY <2>2, <2>3
<1>7. \A c \in B \ {b} : Aligned(c) /\ Aligned(g[c].size)
  BY <1>1, <1>3, Zenon
<1>. QED  BY <1>1, <1>2, <1>4, <1>5, <1>6, <1>7 DEF Tiling

\* Facts about one block.
LEMMA BlockFacts ==
  ASSUME NEW h, NEW list, NEW L, NEW s, NEW e, Blocks(h, list, L, s, e),
         NEW a \in Range(list) \cup L
  PROVE  /\ a \in DOMAIN h /\ a \in Nat /\ s <= a /\ a < e
         /\ DOMAIN h[a] = {"size", "alloc"} /\ (h[a].alloc <=> a \in L)
         /\ h[a].size \in Nat \ {0} /\ a + h[a].size <= e
         /\ a + h[a].size \in Range(list) \cup L \cup {e}
<1>1. s \in Nat /\ e \in Nat /\ a \in DOMAIN h
  BY DEF Blocks
<1>2. a \in s .. e - 1 /\ DOMAIN h[a] = {"size", "alloc"} /\ (h[a].alloc <=> a \in L)
  BY <1>1 DEF Blocks, Headers
<1>3. /\ h[a].size \in Nat \ {0} /\ a + h[a].size \in Range(list) \cup L \cup {e}
      /\ Range(list) \cup L \subseteq s .. e - 1
  BY DEF Blocks, Tiling
<1>. QED  BY <1>1, <1>2, <1>3

\* coalesce keeps the blocks in order, and leaves no two free blocks next to
\* each other if node and the next one were the only ones.
LEMMA CoalesceKeeps ==
  ASSUME NEW h, NEW list, NEW L, NEW s, Blocks(h, list, L, s, heapEnd),
         NEW node \in Range(list), CoalescedBut(h, Range(list), node)
  PROVE  /\ Blocks(Coalesce(h, list, node).hdr, Coalesce(h, list, node).free, L, s, heapEnd)
         /\ Coalesced(Coalesce(h, list, node).hdr, Range(Coalesce(h, list, node).free))
         /\ Same(h, Coalesce(h, list, node).hdr, L)
<1> DEFINE e == heapEnd
           next == node + h[node].size
           B == Range(list) \cup L
           g == [h EXCEPT ![node].size = @ + h[next].size]
           r == Coalesce(h, list, node)
<1>1. /\ s \in Nat /\ e \in Nat /\ List(list) /\ Range(list) \cap L = {}
      /\ B \subseteq DOMAIN h /\ Headers(h, L, s, e) /\ Tiling(h, B, s, e)
  BY DEF Blocks
<1>2. /\ node \in DOMAIN h /\ node \in Nat /\ s <= node /\ node < e /\ node \notin L
      /\ DOMAIN h[node] = {"size", "alloc"} /\ ~h[node].alloc
      /\ h[node].size \in Nat \ {0} /\ next \in B \cup {e}
  BY <1>1, BlockFacts
<1>3. \A a \in B : /\ a \in DOMAIN h /\ a \in Nat /\ a < e /\ h[a].size \in Nat \ {0}
                   /\ (h[a].alloc <=> a \in L) /\ a + h[a].size <= e
  BY BlockFacts
<1>4. CASE next \notin Range(list)
  <2>1. r = [hdr |-> h, free |-> list]
    BY <1>4 DEF Coalesce
  <2>2. Coalesced(h, Range(list))
    BY <1>4 DEF Coalesced, CoalescedBut
  <2>. QED  BY <2>1, <2>2 DEF Same
<1>5. CASE next \in Range(list)
  <2>1. next \in B /\ ~(next >= e) /\ ~h[next].alloc /\ next # node
    BY <1>1, <1>2, <1>3, <1>5
  <2>2. r = [hdr |-> g, free |-> RemoveFromFreeList(list, Place(list, next))]
    BY <1>5, <2>1 DEF Coalesce
  <2> DEFINE new == RemoveFromFreeList(list, Place(list, next))
  <2>3. List(new) /\ Range(new) = Range(list) \ {next}
    BY <1>1, <1>5, ListUnlinked
  <2>4. /\ DOMAIN g = DOMAIN h /\ \A a \in DOMAIN h \ {node} : g[a] = h[a]
        /\ g[node] = [h[node] EXCEPT !.size = @ + h[next].size]
    BY <1>2
  <2>5. /\ DOMAIN g[node] = {"size", "alloc"} /\ ~g[node].alloc
        /\ g[node].size = h[node].size + h[next].size
    BY <1>2, <2>4
  <2> HIDE DEF g, r, new
  <2>6. Tiling(g, B \ {next}, s, e)
    <3>1. node \in B /\ \A c \in B \ {node, next} : g[c].size = h[c].size
      BY <1>1, <2>4
    <3> HIDE DEF B
    <3>2. next = node + h[node].size
      OBVIOUS
    <3> HIDE DEF next
    <3>. QED  BY <1>1, <2>1, <2>5, <3>1, <3>2, TilingMerge
  <2>7. Headers(g, L, s, e)
    <3>1. ASSUME NEW a \in DOMAIN g, a # node
          PROVE  /\ a \in s .. e - 1 /\ DOMAIN g[a] = {"size", "alloc"}
                 /\ g[a].size \in 1 .. e - s /\ (g[a].alloc <=> a \in L)
      BY <1>1, <2>4, <3>1 DEF Headers
    <3>2. /\ node \in s .. e - 1 /\ DOMAIN g[node] = {"size", "alloc"}
          /\ g[node].size \in 1 .. e - s /\ (g[node].alloc <=> node \in L)
      <4>1. next + h[next].size <= e /\ h[next].size \in Nat \ {0}
        BY <1>3, <2>1
      <4>. QED  BY <1>1, <1>2, <2>5, <4>1
    <3>. QED  BY <3>1, <3>2 DEF Headers
  <2>8. Range(new) \cup L = B \ {next} /\ Range(new) \cap L = {}
    BY <1>1, <1>5, <2>3
  <2>9. Blocks(g, new, L, s, e)
    BY <1>1, <2>3, <2>4, <2>6, <2>7, <2>8 DEF Blocks
  <2>10. Coalesced(g, Range(new))
    <3>1. node + g[node].size = next + h[next].size
      BY <1>2, <1>3, <2>1, <2>5
    <3>2. next + h[next].size \notin Range(list)
      BY <1>5, <2>1 DEF CoalescedBut
    <3>3. \A a \in Range(list) \ {node} : g[a].size = h[a].size
      BY <1>1, <2>4
    <3>. QED  BY <2>3, <3>1, <3>2, <3>3 DEF Coalesced, CoalescedBut
  <2>11. Same(h, g, L)
    BY <1>1, <1>2, <2>4 DEF Same
  <2>12. r.hdr = g /\ r.free = new
    BY <2>2 DEF g, new
  <2>. QED  BY <2>9, <2>10, <2>11, <2>12 DEF r
<1>. QED  BY <1>4, <1>5

\* A block that is released, with no free block in front of it.
LEMMA ReleaseAlone ==
  ASSUME NEW h, NEW list, NEW L, NEW s, NEW e, Blocks(h, list, L, s, e), NEW addr \in L
  PROVE  Blocks([h EXCEPT ![addr] = Free(h[addr].size)], <<addr>> \o list, L \ {addr}, s, e)
<1> DEFINE g == [h EXCEPT ![addr] = Free(h[addr].size)]
           new == <<addr>> \o list
           B == Range(list) \cup L
<1>1. /\ s \in Nat /\ e \in Nat /\ List(list) /\ Range(list) \cap L = {}
      /\ B \subseteq DOMAIN h /\ Headers(h, L, s, e) /\ Tiling(h, B, s, e)
  BY DEF Blocks
<1>2. addr \in Nat /\ addr \in DOMAIN h /\ addr \notin Range(list)
  BY <1>1, BlockFacts
<1>3. List(new) /\ Range(new) = Range(list) \cup {addr}
  BY <1>1, <1>2, ListLinked
<1>4. /\ DOMAIN g = DOMAIN h /\ \A a \in DOMAIN h \ {addr} : g[a] = h[a]
      /\ DOMAIN g[addr] = {"size", "alloc"} /\ g[addr].size = h[addr].size
      /\ ~g[addr].alloc
  BY <1>2 DEF Free
<1> HIDE DEF g, new
<1>5. \A a \in B : g[a].size = h[a].size
  BY <1>1, <1>4
<1>6. Tiling(g, B, s, e)
  BY <1>1, <1>5, TilingSame
<1>7. Headers(g, L \ {addr}, s, e)
  BY <1>1, <1>4 DEF Headers
<1>8. Range(new) \cup (L \ {addr}) = B /\ Range(new) \cap (L \ {addr}) = {}
  BY <1>1, <1>3
<1>9. Blocks(g, new, L \ {addr}, s, e)
  BY <1>1, <1>3, <1>4, <1>6, <1>7, <1>8 DEF Blocks
<1>. QED  BY <1>9 DEF g, new

\* A block that is released into the free block in front of it.
LEMMA ReleaseInto ==
  ASSUME NEW h, NEW list, NEW L, NEW s, NEW e, Blocks(h, list, L, s, e), NEW addr \in L,
         NEW into \in Range(list), into + h[into].size = addr
  PROVE  Blocks([[h EXCEPT ![addr] = Free(h[addr].size)] EXCEPT
                   ![into].size = @ + h[addr].size], list, L \ {addr}, s, e)
<1> DEFINE f == [h EXCEPT ![addr] = Free(h[addr].size)]
           g == [f EXCEPT ![into].size = @ + h[addr].size]
           B == Range(list) \cup L
<1>1. /\ s \in Nat /\ e \in Nat /\ List(list) /\ Range(list) \cap L = {}
      /\ B \subseteq DOMAIN h /\ Headers(h, L, s, e) /\ Tiling(h, B, s, e)
  BY DEF Blocks
<1>2. /\ addr \in Nat /\ addr \in DOMAIN h /\ h[addr].size \in Nat \ {0}
      /\ addr + h[addr].size <= e
  BY BlockFacts
<1>3. /\ into \in Nat /\ into \in DOMAIN h /\ s <= into /\ into < e /\ into \notin L
      /\ h[into].size \in Nat \ {0} /\ ~h[into].alloc
      /\ DOMAIN h[into] = {"size", "alloc"}
  BY <1>1, BlockFacts
<1>4. into # addr
  BY <1>1
<1>5. /\ DOMAIN f = DOMAIN h /\ f[into] = h[into] /\ f[addr] = Free(h[addr].size)
      /\ \A a \in DOMAIN h \ {addr} : f[a] = h[a]
  BY <1>2, <1>3, <1>4
<1> HIDE DEF f
<1>6. /\ DOMAIN g = DOMAIN h /\ \A a \in DOMAIN h \ {into, addr} : g[a] = h[a]
      /\ g[addr] = Free(h[addr].size)
      /\ g[into] = [h[into] EXCEPT !.size = @ + h[addr].size]
  BY <1>2, <1>3, <1>4, <1>5
<1>7. /\ DOMAIN g[into] = {"size", "alloc"} /\ ~g[into].alloc
      /\ g[into].size = h[into].size + h[addr].size
      /\ DOMAIN g[addr] = {"size", "alloc"} /\ ~g[addr].alloc
      /\ g[addr].size = h[addr].size
  BY <1>3, <1>6 DEF Free
<1> HIDE DEF g
<1>8. Tiling(g, B \ {addr}, s, e)
  <2>1. into \in B /\ addr \in B /\ \A c \in B \ {into, addr} : g[c].size = h[c].size
    BY <1>1, <1>6
  <2> HIDE DEF B
  <2>. QED  BY <1>1, <1>7, <2>1, TilingMerge
<1>9. Headers(g, L \ {addr}, s, e)
  <2>1. ASSUME NEW a \in DOMAIN g, a \notin {into, addr}
        PROVE  /\ a \in s .. e - 1 /\ DOMAIN g[a] = {"size", "alloc"}
               /\ g[a].size \in 1 .. e - s /\ (g[a].alloc <=> a \in L \ {addr})
    BY <1>1, <1>6, <2>1 DEF Headers
  <2>2. /\ addr \in s .. e - 1 /\ g[addr].size \in 1 .. e - s
    BY <1>1, <1>2, <1>7 DEF Headers
  <2>3. into \in s .. e - 1 /\ g[into].size \in 1 .. e - s
    BY <1>1, <1>2, <1>3, <1>7
  <2>. QED  BY <1>3, <1>7, <2>1, <2>2, <2>3, Zenon DEF Headers
<1>10. Range(list) \cup (L \ {addr}) = B \ {addr} /\ Range(list) \cap (L \ {addr}) = {}
  BY <1>1
<1>11. Blocks(g, list, L \ {addr}, s, e)
  BY <1>1, <1>6, <1>8, <1>9, <1>10 DEF Blocks
<1>. QED  BY <1>11 DEF f, g

\* What lies strictly inside of a block is not the start of a block.
LEMMA Inside ==
  ASSUME NEW h, NEW list, NEW L, NEW s, NEW e, Blocks(h, list, L, s, e),
         NEW a \in Range(list) \cup L, NEW b \in Range(list) \cup L, a < b
  PROVE  a + h[a].size <= b
BY DEF Blocks, Tiling

\* The headers g are h after alloc has written a used block of size z at addr,
\* and a free one of size m behind it (if there is any).  What was inside of the
\* used block is lost.
TakesWhole(h, g, addr, z) ==
  /\ addr \in DOMAIN g /\ DOMAIN g \subseteq DOMAIN h
  /\ \A a \in DOMAIN h : a \notin addr + 1 .. addr + z - 1 => a \in DOMAIN g
  /\ \A a \in DOMAIN g \ {addr} : g[a] = h[a]
  /\ g[addr] = Used(z)

TakesFirst(h, g, addr, z, m) ==
  LET rest == addr + z
  IN /\ {addr, rest} \subseteq DOMAIN g /\ DOMAIN g \subseteq DOMAIN h \cup {rest}
     /\ \A a \in DOMAIN h : a \notin addr + 1 .. addr + z - 1 => a \in DOMAIN g
     /\ \A a \in DOMAIN g \ {addr, rest} : g[a] = h[a]
     /\ g[addr] = Used(z) /\ g[rest] = Free(m)

\* The list new is list without x, or with y in its place.
Unlinked(list, new, x) == List(new) /\ Range(new) = Range(list) \ {x}
Relinked(list, new, x, y) == List(new) /\ Range(new) = (Range(list) \ {x}) \cup {y}

\* alloc takes the whole block.
LEMMA TakeWhole ==
  ASSUME NEW h, NEW list, NEW L, NEW s, NEW e, Blocks(h, list, L, s, e),
         Coalesced(h, Range(list)), NEW addr \in Range(list),
         NEW new, Unlinked(list, new, addr),
         NEW g, TakesWhole(h, g, addr, h[addr].size)
  PROVE  Blocks(g, new, L \cup {addr}, s, e) /\ Coalesced(g, Range(new)) /\ Same(h, g, L)
<1>1. /\ DOMAIN g \subseteq DOMAIN h
      /\ \A a \in DOMAIN h : a \notin addr + 1 .. addr + h[addr].size - 1 => a \in DOMAIN g
      /\ \A a \in DOMAIN g \ {addr} : g[a] = h[a]
      /\ DOMAIN g[addr] = {"size", "alloc"} /\ g[addr].alloc /\ g[addr].size = h[addr].size
      /\ List(new) /\ Range(new) = Range(list) \ {addr}
  BY DEF TakesWhole, Used, Unlinked
<1> USE <1>1
<1> DEFINE B == Range(list) \cup L
<1>2. /\ s \in Nat /\ e \in Nat /\ List(list) /\ Range(list) \cap L = {}
      /\ B \subseteq DOMAIN h /\ Headers(h, L, s, e) /\ Tiling(h, B, s, e)
  BY DEF Blocks
<1>3. addr \in Nat /\ addr \in DOMAIN h /\ addr \notin L /\ h[addr].size \in Nat \ {0}
  BY <1>2, BlockFacts
<1>4. ASSUME NEW a \in B PROVE a \in DOMAIN g
  <2>1. a \in Nat /\ a \in DOMAIN h /\ (addr < a => addr + h[addr].size <= a)
    BY BlockFacts, Inside
  <2>2. a \notin addr + 1 .. addr + h[addr].size - 1
    BY <1>3, <2>1
  <2>. QED  BY <2>1, <2>2
<1>5. \A a \in B : g[a].size = h[a].size
  BY <1>4
<1>6. Tiling(g, B, s, e)
  BY <1>2, <1>5, TilingSame
<1>7. Headers(g, L \cup {addr}, s, e)
  <2>1. ASSUME NEW a \in DOMAIN g, a # addr
        PROVE  /\ a \in s .. e - 1 /\ DOMAIN g[a] = {"size", "alloc"}
               /\ g[a].size \in 1 .. e - s /\ (g[a].alloc <=> a \in L \cup {addr})
    <3>1. g[a] = h[a] /\ a \in DOMAIN h
      BY <2>1
    <3>. QED  BY <1>2, <2>1, <3>1 DEF Headers
  <2>2. addr \in s .. e - 1 /\ g[addr].size \in 1 .. e - s
    BY <1>2, <1>3 DEF Headers
  <2>. QED  BY <2>1, <2>2 DEF Headers
<1>8. /\ Range(new) \cup (L \cup {addr}) = B /\ Range(new) \cap (L \cup {addr}) = {}
      /\ B \subseteq DOMAIN g
  BY <1>2, <1>3, <1>4
<1>9. Blocks(g, new, L \cup {addr}, s, e)
  BY <1>2, <1>6, <1>7, <1>8, Zenon DEF Blocks
<1>10. Coalesced(g, Range(new))
  BY <1>5 DEF Coalesced
<1>11. Same(h, g, L)
  BY <1>3, <1>4, Zenon DEF Same
<1>. QED  BY <1>9, <1>10, <1>11

\* alloc takes the first m bytes of the block, and the rest stays free.
LEMMA TakeFirst ==
  ASSUME NEW h, NEW list, NEW L, NEW s, NEW e, Blocks(h, list, L, s, e),
         Coalesced(h, Range(list)), NEW addr \in Range(list),
         NEW m \in Nat \ {0}, m < h[addr].size, Aligned(m),
         NEW new, Relinked(list, new, addr, addr + m),
         NEW g, TakesFirst(h, g, addr, m, h[addr].size - m)
  PROVE  Blocks(g, new, L \cup {addr}, s, e) /\ Coalesced(g, Range(new)) /\ Same(h, g, L)
<1>1. PICK r : r = addr + m
  OBVIOUS
<1>2. /\ DOMAIN g \subseteq DOMAIN h \cup {r} /\ r \in DOMAIN g
      /\ \A a \in DOMAIN h : a \notin addr + 1 .. addr + m - 1 => a \in DOMAIN g
      /\ \A a \in DOMAIN g \ {addr, r} : g[a] = h[a]
      /\ DOMAIN g[addr] = {"size", "alloc"} /\ g[addr].alloc /\ g[addr].size = m
      /\ DOMAIN g[r] = {"size", "alloc"} /\ ~g[r].alloc /\ g[r].size = h[addr].size - m
      /\ List(new) /\ Range(new) = (Range(list) \ {addr}) \cup {r}
  BY <1>1 DEF TakesFirst, Used, Free, Relinked
<1> USE <1>1, <1>2
<1> DEFINE B == Range(list) \cup L
<1>3. /\ s \in Nat /\ e \in Nat /\ List(list) /\ Range(list) \cap L = {}
      /\ B \subseteq DOMAIN h /\ Headers(h, L, s, e) /\ Tiling(h, B, s, e)
  BY DEF Blocks
<1>4. /\ addr \in Nat /\ addr \in DOMAIN h /\ addr \notin L /\ h[addr].size \in Nat \ {0}
      /\ s <= addr /\ addr + h[addr].size <= e
  BY <1>3, BlockFacts
<1>5. r \in Nat /\ addr < r /\ r < e /\ r # addr /\ r + g[r].size = addr + h[addr].size
      /\ r # addr + h[addr].size
  BY <1>3, <1>4, <1>1
<1>6. ASSUME NEW a \in B PROVE a \in DOMAIN g /\ a # r
  <2>1. a \in Nat /\ a \in DOMAIN h /\ (addr < a => addr + h[addr].size <= a)
    BY BlockFacts, Inside
  <2>2. a \notin addr + 1 .. addr + m - 1 /\ a # r
    BY <1>4, <1>1, <2>1
  <2>. QED  BY <2>1, <2>2
<1>7. \A a \in B \ {addr} : g[a] = h[a]
  BY <1>1, <1>6
<1>8. Tiling(g, B \cup {r}, s, e)
  <2>1. addr \in B /\ \A b \in B \ {addr} : g[b].size = h[b].size
    BY <1>7
  <2> HIDE DEF B
  <2>. QED  BY <1>3, <1>1, <2>1, TilingSplit
<1>9. Headers(g, L \cup {addr}, s, e)
  <2>1. ASSUME NEW a \in DOMAIN g, a \notin {addr, r}
        PROVE  /\ a \in s .. e - 1 /\ DOMAIN g[a] = {"size", "alloc"}
               /\ g[a].size \in 1 .. e - s /\ (g[a].alloc <=> a \in L \cup {addr})
    <3>1. g[a] = h[a] /\ a \in DOMAIN h
      BY <1>1, <2>1
    <3>. QED  BY <1>3, <2>1, <3>1 DEF Headers
  <2>2. addr \in s .. e - 1 /\ g[addr].size \in 1 .. e - s
    BY <1>3, <1>4
  <2>3. r \in s .. e - 1 /\ g[r].size \in 1 .. e - s
    BY <1>3, <1>4, <1>1, <1>5
  <2>4. r \notin L \cup {addr} /\ ~g[r].alloc /\ DOMAIN g[r] = {"size", "alloc"}
    BY <1>1, <1>5, <1>6
  <2>. QED  BY <2>1, <2>2, <2>3, <2>4, Zenon DEF Headers
<1>10. Range(new) = (Range(list) \ {addr}) \cup {r} /\ r \in DOMAIN g
  BY <1>1
<1>11. Range(new) \cup (L \cup {addr}) = B \cup {r} /\ Range(new) \cap (L \cup {addr}) = {}
  BY <1>3, <1>4, <1>5, <1>6, <1>10
<1>12. B \cup {r} \subseteq DOMAIN g
  BY <1>6, <1>10
<1>13. Blocks(g, new, L \cup {addr}, s, e)
  BY <1>3, <1>8, <1>9, <1>11, <1>12, Zenon DEF Blocks
<1>14. Coalesced(g, Range(new))
  <2>1. addr + h[addr].size \notin Range(list)
    BY DEF Coalesced
  <2>2. ASSUME NEW a \in Range(list) \ {addr} PROVE a + g[a].size \notin Range(list) \cup {r}
    <3>1. g[a] = h[a]
      BY <1>7
    <3>2. a + h[a].size \in B \cup {e}
      BY BlockFacts
    <3>3. a + h[a].size # r
      BY <1>5, <1>6, <3>2
    <3>. QED  BY <3>1, <3>3 DEF Coalesced
  <2>. QED  BY <1>5, <1>10, <2>1, <2>2 DEF Coalesced
<1>15. Same(h, g, L)
  BY <1>4, <1>7, Zenon DEF Same
<1>. QED  BY <1>13, <1>14, <1>15

\* The two ways in which alloc writes the headers and the list.
SplitWritten(h, list, i, addr, m, g, new) ==
  /\ i \in 1 .. Len(list) /\ addr = list[i]
  /\ g = Set(Set(Drop(h, {a \in DOMAIN h : addr < a /\ a < addr + m}),
                 addr + m, Free(h[addr].size - m)), addr, Used(m))
  /\ new = [list EXCEPT ![i] = addr + m]

WholeWritten(h, list, i, addr, m, g, new) ==
  /\ i \in 1 .. Len(list) /\ addr = list[i] /\ m = h[addr].size
  /\ g = Set(Drop(h, {a \in DOMAIN h : addr < a /\ a < addr + m}), addr, Used(m))
  /\ new = RemoveFromFreeList(list, i)

LEMMA WriteSplit ==
  ASSUME NEW h, NEW list, NEW L, NEW s, NEW e, Blocks(h, list, L, s, e),
         Coalesced(h, Range(list)), NEW i, NEW addr \in Range(list),
         NEW m \in Nat \ {0}, m < h[addr].size, Aligned(m),
         NEW g, NEW new, SplitWritten(h, list, i, addr, m, g, new)
  PROVE  /\ Blocks(g, new, L \cup {addr}, s, e) /\ Coalesced(g, Range(new))
         /\ Same(h, g, L)
<1>1. PICK rest : rest = addr + m
  OBVIOUS
<1>2. /\ addr \in Nat /\ addr \in DOMAIN h /\ h[addr].size \in Nat
      /\ rest \in Nat /\ addr # rest
  BY <1>1, BlockFacts
<1>3. /\ DOMAIN g = (DOMAIN h \ {a \in DOMAIN h : addr < a /\ a < rest}) \cup {addr, rest}
      /\ g[addr] = Used(m) /\ g[rest] = Free(h[addr].size - m)
      /\ \A a \in DOMAIN g \ {addr, rest} : g[a] = h[a]
  BY <1>1, <1>2, Zenon DEF SplitWritten, Set, Drop
<1>4. TakesFirst(h, g, addr, m, h[addr].size - m)
  <2>1. \A a \in DOMAIN h : a \in Nat
    BY DEF Blocks, Headers
  <2>2. \A a \in DOMAIN h : a \notin addr + 1 .. addr + m - 1 => a \in DOMAIN g
    BY <1>1, <1>2, <1>3, <2>1
  <2>. QED  BY <1>1, <1>2, <1>3, <2>2, Zenon DEF TakesFirst
<1>5. rest \notin Range(list)
  <2>1. ASSUME NEW b \in Range(list) PROVE b # rest
    <3>1. b \in Nat /\ (addr < b => addr + h[addr].size <= b)
      BY BlockFacts, Inside
    <3>. QED  BY <1>1, <1>2, <3>1
  <2>. QED  BY <2>1
<1>6. Relinked(list, new, addr, addr + m)
  <2>1. List(list) /\ i \in 1 .. Len(list) /\ addr = list[i]
    BY DEF Blocks, SplitWritten
  <2>2. new = Replaced(list, i, rest)
    BY <1>1, Zenon DEF SplitWritten, Replaced
  <2>3. List(new) /\ Range(new) = (Range(list) \ {addr}) \cup {rest}
    BY <1>2, <1>5, <2>1, <2>2, ListReplaced
  <2>. QED  BY <1>1, <2>3 DEF Relinked
<1>. QED  BY <1>4, <1>6, TakeFirst, Zenon

LEMMA WriteWhole ==
  ASSUME NEW h, NEW list, NEW L, NEW s, NEW e, Blocks(h, list, L, s, e),
         Coalesced(h, Range(list)), NEW i, NEW addr \in Range(list),
         NEW m,
         NEW g, NEW new, WholeWritten(h, list, i, addr, m, g, new)
  PROVE  /\ Blocks(g, new, L \cup {addr}, s, e) /\ Coalesced(g, Range(new))
         /\ Same(h, g, L)
<1>1. addr \in Nat /\ addr \in DOMAIN h /\ m \in Nat /\ m = h[addr].size
  BY BlockFacts DEF WholeWritten
<1>2. /\ DOMAIN g = (DOMAIN h \ {a \in DOMAIN h : addr < a /\ a < addr + m}) \cup {addr}
      /\ g[addr] = Used(m) /\ \A a \in DOMAIN g \ {addr} : g[a] = h[a]
  BY Zenon DEF WholeWritten, Set, Drop
<1>3. TakesWhole(h, g, addr, m)
  <2>1. \A a \in DOMAIN h : a \in Nat
    BY DEF Blocks, Headers
  <2>2. \A a \in DOMAIN h : a \notin addr + 1 .. addr + m - 1 => a \in DOMAIN g
    BY <1>1, <1>2, <2>1
  <2>. QED  BY <1>1, <1>2, <2>2, Zenon DEF TakesWhole
<1>4. Unlinked(list, new, addr)
  <2>1. List(list)
    BY Zenon DEF Blocks
  <2>. QED  BY <2>1, ListRemoved, Zenon DEF WholeWritten, Unlinked
<1>. QED  BY <1>1, <1>3, <1>4, TakeWhole, Zenon

-----------------------------------------------------------------------------
(* Least elements.                                                         *)
INSTANCE WellFoundedInduction

\* A non-empty set of natural numbers has a least element, and Min is it.
LEMMA LeastOf ==
  ASSUME NEW S \in SUBSET Nat, S # {}
  PROVE  Min(S) \in S /\ \A y \in S : Min(S) <= y
<1>1. \E x \in S : \A y \in S : <<y, x>> \notin OpToRel(<, Nat)
  BY NatLessThanWellFounded, WFMin, Zenon
<1>2. PICK x \in S : \A y \in S : <<y, x>> \notin OpToRel(<, Nat)
  BY <1>1, Zenon
<1>3. \A y \in S : x <= y
  <2>1. SUFFICES ASSUME NEW y \in S, y < x PROVE FALSE
    OBVIOUS
  <2>2. <<y, x>> \in {ss \in Nat \X Nat : ss[1] < ss[2]}
    BY <2>1
  <2>. QED  BY <1>2, <2>2 DEF OpToRel
<1>. QED  BY <1>3, Zenon DEF Min

-----------------------------------------------------------------------------
(* The actions.                                                            *)

\* The best-fit search finds a block that is large enough.
LEMMA BestFits ==
  ASSUME HeapInv, NEW needed \in Nat, Best(needed) # 0
  PROVE  /\ Best(needed) \in 1 .. Len(freeList)
         /\ hdr[freeList[Best(needed)]].size >= needed
<1> DEFINE fits == {i \in 1 .. Len(freeList) : hdr[freeList[i]].size >= needed}
           sizes == {hdr[freeList[i]].size : i \in fits}
           least == Min(sizes)
           smallest == {i \in fits : hdr[freeList[i]].size = least}
<1>1. List(freeList) /\ DOMAIN freeList = 1 .. Len(freeList) /\ Len(freeList) \in Nat
  BY DEF HeapInv, Blocks, List
<1>2. \A i \in 1 .. Len(freeList) : hdr[freeList[i]].size \in Nat
  <2>1. \A a \in Range(freeList) : hdr[a].size \in Nat
    BY BlockFacts DEF HeapInv
  <2>. QED  BY <1>1, <2>1 DEF Range
<1>3. fits # {} /\ Best(needed) = Min(smallest)
  BY DEF Best
<1>4. sizes \in SUBSET Nat /\ sizes # {}
  BY <1>2, <1>3, Zenon
<1>5. least \in sizes
  BY <1>4, LeastOf, Zenon
<1> HIDE DEF least
<1>6. smallest \in SUBSET Nat /\ smallest # {}
  BY <1>1, <1>5
<1>7. Min(smallest) \in smallest
  BY <1>6, LeastOf
<1>. QED  BY <1>3, <1>7, Zenon

LEMMA AllocKeeps ==
  ASSUME HeapInv, NEW n \in Requests, Alloc(n)
  PROVE  HeapInv'
<1>1. PICK needed, i, addr, size, L, g, new :
        /\ needed = Needed(n) /\ i = Best(needed) /\ addr = freeList[i]
        /\ size = hdr[addr].size /\ L = DOMAIN live /\ g = hdr' /\ new = freeList'
        /\ needed # SIZE_MAX /\ i # 0 /\ live' = Set(live, addr, n)
        /\ i \in 1 .. Len(freeList) =>
           IF Split(size - needed)
             THEN SplitWritten(hdr, freeList, i, addr, needed, g, new)
             ELSE WholeWritten(hdr, freeList, i, addr, size, g, new)
        /\ heapStart' = heapStart /\ heapEnd' = heapEnd
  BY Zenon DEF Alloc, SplitWritten, WholeWritten
<1>2. n \in Nat /\ needed \in Nat \ {0} /\ needed >= HDR + n /\ Aligned(needed)
  BY <1>1, HeapAssumption, NeededRoom
<1>3. i \in 1 .. Len(freeList) /\ size >= needed
  BY <1>1, <1>2, BestFits
<1>4. /\ Blocks(hdr, freeList, L, heapStart, heapEnd) /\ Coalesced(hdr, Range(freeList))
      /\ \A a \in L : live[a] \in Nat /\ HDR + live[a] <= hdr[a].size
  BY <1>1 DEF HeapInv
<1>5. addr \in Range(freeList) /\ size \in Nat
  <2>1. DOMAIN freeList = 1 .. Len(freeList)
    BY <1>4 DEF Blocks, List
  <2>2. addr \in Range(freeList)
    BY <1>1, <1>3, <2>1 DEF Range
  <2>. QED  BY <1>1, <1>4, <2>2, BlockFacts
<1>6. HDR \in Nat /\ MIN_BLOCK \in Nat \ {0}
  BY HeapAssumption
<1>7. /\ Blocks(g, new, L \cup {addr}, heapStart, heapEnd)
      /\ Coalesced(g, Range(new)) /\ Same(hdr, g, L)
      /\ g[addr].size \in {needed, size}
  <2>1. CASE Split(size - needed)
    <3>1. SplitWritten(hdr, freeList, i, addr, needed, g, new)
      BY <1>1, <1>3, <2>1, Zenon
    <3>2. needed < hdr[addr].size
      BY <1>1, <1>2, <1>5, <1>6, <2>1 DEF Split
    <3>3. /\ Blocks(g, new, L \cup {addr}, heapStart, heapEnd)
          /\ Coalesced(g, Range(new)) /\ Same(hdr, g, L)
      BY <1>2, <1>3, <1>4, <1>5, <3>1, <3>2, WriteSplit, Zenon
    <3>4. g[addr] = Used(needed)
      BY <3>1, Zenon DEF SplitWritten, Set
    <3>. QED  BY <3>3, <3>4 DEF Used
  <2>2. CASE ~Split(size - needed)
    <3>1. WholeWritten(hdr, freeList, i, addr, size, g, new)
      BY <1>1, <1>3, <2>2, Zenon
    <3>2. /\ Blocks(g, new, L \cup {addr}, heapStart, heapEnd)
          /\ Coalesced(g, Range(new)) /\ Same(hdr, g, L)
      BY <1>3, <1>4, <1>5, <3>1, WriteWhole, Zenon
    <3>3. g[addr] = Used(size)
      BY <3>1, Zenon DEF WholeWritten, Set
    <3>. QED  BY <3>2, <3>3 DEF Used
  <2>. QED  BY <2>1, <2>2, Zenon
<1>8. /\ DOMAIN live' = L \cup {addr} /\ live'[addr] = n
      /\ \A a \in L : a # addr => live'[a] = live[a]
  BY <1>1 DEF Set
<1>9. ASSUME NEW a \in DOMAIN live' PROVE live'[a] \in Nat /\ HDR + live'[a] <= g[a].size
  <2>1. CASE a = addr
    BY <1>2, <1>3, <1>5, <1>6, <1>7, <1>8, <2>1
  <2>2. CASE a # addr
    BY <1>4, <1>7, <1>8, <1>9, <2>2 DEF Same
  <2>. QED  BY <2>1, <2>2, Zenon
<1>10. heapStart' = heapStart /\ heapEnd' = heapEnd /\ g = hdr' /\ new = freeList'
  BY <1>1, Zenon
<1>. QED  BY <1>7, <1>8, <1>9, <1>10 DEF HeapInv

LEMMA FreeKeeps ==
  ASSUME HeapInv, NEW addr \in DOMAIN hdr, FreeBlock(addr)
  PROVE  HeapInv'
<1> DEFINE size == hdr[addr].size
           h == [hdr EXCEPT ![addr] = Free(size)]
           merge == Before(h, addr)
           into == CHOOSE a \in merge : TRUE
           h2 == [h EXCEPT ![into].size = @ + size]
           L == DOMAIN live
           r == IF merge # {} THEN Coalesce(h2, freeList, into)
                ELSE Coalesce(h, <<addr>> \o freeList, addr)
<1>1. /\ Blocks(hdr, freeList, L, heapStart, heapEnd) /\ Coalesced(hdr, Range(freeList))
      /\ \A a \in L : live[a] \in Nat /\ HDR + live[a] <= hdr[a].size
  BY DEF HeapInv
<1>2. CASE ~hdr[addr].alloc
  <2>1. UNCHANGED vars
    BY <1>2 DEF FreeBlock, vars
  <2>. QED  BY <2>1 DEF HeapInv, vars
<1>3. CASE hdr[addr].alloc
  <2>1. /\ hdr' = r.hdr /\ freeList' = r.free /\ live' = Drop(live, {addr})
        /\ heapStart' = heapStart /\ heapEnd' = heapEnd
    BY <1>3, Zenon DEF FreeBlock
  <2>2. addr \in L
    BY <1>1, <1>3 DEF Blocks, Headers
  <2>3. DOMAIN live' = L \ {addr} /\ \A a \in L \ {addr} : live'[a] = live[a]
    BY <2>1 DEF Drop
  <2>4. Range(freeList) \cap L = {} /\ Range(freeList) \cup L \subseteq DOMAIN hdr
    BY <1>1 DEF Blocks
  <2>5. /\ DOMAIN h = DOMAIN hdr /\ \A a \in DOMAIN hdr \ {addr} : h[a] = hdr[a]
        /\ h[addr].size = size
    BY DEF Free
  <2>6. \A a \in Range(freeList) : a # addr /\ h[a] = hdr[a]
    BY <2>2, <2>4, <2>5
  <2>7. merge = {a \in Range(freeList) : a + hdr[a].size = addr}
    BY <2>6 DEF Before
  <2>8. /\ Blocks(r.hdr, r.free, L \ {addr}, heapStart, heapEnd)
        /\ Coalesced(r.hdr, Range(r.free)) /\ \A a \in L \ {addr} : r.hdr[a] = hdr[a]
    <3>1. CASE merge # {}
      <4>1. into \in Range(freeList) /\ into + hdr[into].size = addr
        BY <2>7, <3>1, Zenon
      <4> HIDE DEF into, merge
      <4>2. Blocks(h2, freeList, L \ {addr}, heapStart, heapEnd)
        BY <1>1, <2>2, <4>1, ReleaseInto, Zenon
      <4>3. \A a \in DOMAIN hdr \ {addr, into} : h2[a] = hdr[a]
        BY <2>5
      <4>4. CoalescedBut(h2, Range(freeList), into)
        BY <1>1, <2>4, <2>6, <4>3 DEF Coalesced, CoalescedBut
      <4>5. \A a \in L \ {addr} : h2[a] = hdr[a]
        BY <2>4, <4>1, <4>3
      <4> HIDE DEF h2, h, L
      <4>6. /\ Blocks(Coalesce(h2, freeList, into).hdr, Coalesce(h2, freeList, into).free,
                      L \ {addr}, heapStart, heapEnd)
            /\ Coalesced(Coalesce(h2, freeList, into).hdr, Range(Coalesce(h2, freeList, into).free))
            /\ Same(h2, Coalesce(h2, freeList, into).hdr, L \ {addr})
        BY <4>1, <4>2, <4>4, CoalesceKeeps
      <4>. QED  BY <3>1, <4>5, <4>6 DEF Same
    <3>2. CASE merge = {}
      <4> DEFINE list == <<addr>> \o freeList
      <4>1. Blocks(h, list, L \ {addr}, heapStart, heapEnd)
        BY <1>1, <2>2, ReleaseAlone
      <4>2. Range(list) = Range(freeList) \cup {addr}
        <5>1. addr \in Nat /\ addr \notin Range(freeList)
          BY <1>1, <2>2, <2>6, BlockFacts
        <5>. QED  BY <1>1, <5>1, ListLinked DEF Blocks
      <4>3. CoalescedBut(h, Range(list), addr)
        BY <1>1, <2>6, <2>7, <3>2, <4>2, Zenon DEF Coalesced, CoalescedBut
      <4>4. \A a \in L \ {addr} : h[a] = hdr[a]
        BY <2>4, <2>5
      <4>5. addr \in Range(list)
        BY <4>2
      <4> HIDE DEF list, h, L, merge
      <4>6. /\ Blocks(Coalesce(h, list, addr).hdr, Coalesce(h, list, addr).free,
                      L \ {addr}, heapStart, heapEnd)
            /\ Coalesced(Coalesce(h, list, addr).hdr, Range(Coalesce(h, list, addr).free))
            /\ Same(h, Coalesce(h, list, addr).hdr, L \ {addr})
        BY <4>1, <4>3, <4>5, CoalesceKeeps
      <4>7. r = Coalesce(h, list, addr)
        BY <3>2 DEF list
      <4> HIDE DEF r
      <4>. QED  BY <4>4, <4>6, <4>7 DEF Same
    <3>. QED  BY <3>1, <3>2, Zenon
  <2> HIDE DEF r, L
  <2>9. \A a \in DOMAIN live' : live'[a] \in Nat /\ HDR + live'[a] <= hdr'[a].size
    BY <1>1, <2>1, <2>3, <2>8, Zenon
  <2>. QED  BY <2>1, <2>3, <2>8, <2>9, Zenon DEF HeapInv
<1>. QED  BY <1>2, <1>3

LEMMA InitInv ==
  ASSUME Init
  PROVE  HeapInv
<1>1. PICK span \in Spans :
        /\ heapStart = AlignUp(span.start, BLOCK_ALIGN)
        /\ heapEnd = heapStart + AlignUp(span.size, BLOCK_ALIGN)
        /\ hdr = [a \in {heapStart} |-> Free(heapEnd - heapStart)]
        /\ freeList = <<heapStart>> /\ live = << >>
  BY DEF Init
<1>2. /\ span.start \in Nat /\ span.size \in Nat \ {0} /\ BLOCK_ALIGN \in Nat \ {0}
      /\ SIZE_MAX \in Nat /\ span.start + span.size + 2 * (BLOCK_ALIGN - 1) <= SIZE_MAX
  BY HeapAssumption
<1>3. /\ heapStart \in span.start .. span.start + BLOCK_ALIGN - 1 /\ Aligned(heapStart)
  <2>1. span.start <= SIZE_MAX - (BLOCK_ALIGN - 1)
    BY <1>2
  <2>. QED  BY <1>1, <1>2, <2>1, AlignUpBound DEF Aligned
<1>4. /\ AlignUp(span.size, BLOCK_ALIGN) \in span.size .. span.size + BLOCK_ALIGN - 1
      /\ Aligned(AlignUp(span.size, BLOCK_ALIGN))
  <2>1. span.size <= SIZE_MAX - (BLOCK_ALIGN - 1)
    BY <1>2
  <2>. QED  BY <1>2, <2>1, AlignUpBound DEF Aligned
<1> DEFINE z == AlignUp(span.size, BLOCK_ALIGN)
<1>5. heapStart \in Nat /\ z \in Nat \ {0} /\ heapEnd = heapStart + z /\ heapEnd - heapStart = z
  <2> HIDE DEF z
  <2>1. z \in span.size .. span.size + BLOCK_ALIGN - 1 /\ heapEnd = heapStart + z
    BY <1>1, <1>4 DEF z
  <2>. QED  BY <1>2, <1>3, <2>1
<1>6. Aligned(z)
  BY <1>4
<1> HIDE DEF z
<1>7. /\ DOMAIN hdr = {heapStart} /\ hdr[heapStart].size = z /\ ~hdr[heapStart].alloc
      /\ DOMAIN hdr[heapStart] = {"size", "alloc"}
  BY <1>1, <1>5 DEF Free
<1>8. /\ freeList \in Seq(Nat) /\ DOMAIN freeList = {1} /\ freeList[1] = heapStart
      /\ DOMAIN live = {}
  BY <1>1, <1>5
<1>9. List(freeList) /\ Range(freeList) = {heapStart}
  BY <1>8 DEF List, IsInjective, Range
<1>10. Headers(hdr, {}, heapStart, heapEnd)
  BY <1>5, <1>7 DEF Headers
<1>11. Tiling(hdr, {heapStart}, heapStart, heapEnd)
  BY <1>3, <1>5, <1>6, <1>7 DEF Tiling
<1>12. heapEnd \in Nat /\ Range(freeList) \cup DOMAIN live = {heapStart}
  BY <1>5, <1>8, <1>9
<1>13. Blocks(hdr, freeList, DOMAIN live, heapStart, heapEnd)
  BY <1>5, <1>7, <1>8, <1>9, <1>10, <1>11, <1>12 DEF Blocks
<1>14. Coalesced(hdr, Range(freeList))
  BY <1>5, <1>7, <1>9 DEF Coalesced
<1>. QED  BY <1>8, <1>13, <1>14 DEF HeapInv

LEMMA HeapInvariant == Spec => []HeapInv
<1>1. Init => HeapInv
  BY InitInv
<1>2. HeapInv /\ [Next]_vars => HeapInv'
  <2> SUFFICES ASSUME HeapInv, [Next]_vars PROVE HeapInv'
    OBVIOUS
  <2>1. CASE \E n \in Requests : Alloc(n)
    BY <2>1, AllocKeeps
  <2>2. CASE \E n \in Requests : AllocFails(n)
    <3>1. UNCHANGED vars
      BY <2>2 DEF AllocFails
    <3>. QED  BY <3>1 DEF HeapInv, vars
  <2>3. CASE \E addr \in DOMAIN hdr : FreeBlock(addr)
    BY <2>3, FreeKeeps
  <2>4. CASE UNCHANGED vars
    BY <2>4 DEF HeapInv, vars
  <2>. QED  BY <2>1, <2>2, <2>3, <2>4 DEF Next
<1>. QED  BY <1>1, <1>2, PTL DEF Spec

-----------------------------------------------------------------------------
(* The theorems.                                                           *)

\* Whatever the order of alloc and free, for any heap and any requests, the free
\* and the live blocks cover the heap without a hole or an overlap, no block is
\* in the list twice, and the list and the headers agree.
THEOREM TilesHolds == Spec => []Tiles
<1>1. HeapInv => Tiles
  <2> SUFFICES ASSUME HeapInv PROVE Tiles
    OBVIOUS
  <2>1. Blocks(hdr, freeList, DOMAIN live, heapStart, heapEnd)
    BY DEF HeapInv
  <2>2. /\ heapStart \in Nat /\ heapEnd \in Nat /\ freeList \in Seq(Nat)
        /\ IsInjective(freeList) /\ Range(freeList) \cap DOMAIN live = {}
        /\ Range(freeList) \subseteq DOMAIN hdr /\ DOMAIN live \subseteq DOMAIN hdr
    BY <2>1 DEF Blocks, List
  <2>3. freeList \in Seq(DOMAIN hdr)
    <3>1. Len(freeList) \in Nat /\ freeList \in [1 .. Len(freeList) -> Nat]
      BY <2>2
    <3>2. \A i \in 1 .. Len(freeList) : freeList[i] \in DOMAIN hdr
      BY <2>2, <3>1 DEF Range
    <3>3. freeList \in [1 .. Len(freeList) -> DOMAIN hdr]
      BY <3>1, <3>2
    <3>. QED  BY <3>1, <3>3
  <2>4. TypeOK
    BY <2>1, <2>2, <2>3 DEF TypeOK, TotalMem, Blocks, Headers
  <2>5. /\ heapStart \in BlocksInUse
        /\ \A a \in BlocksInUse : End(a) \in BlocksInUse \cup {heapEnd}
        /\ \A a, b \in BlocksInUse : a < b => End(a) <= b
    BY <2>1 DEF Blocks, Tiling, BlocksInUse, End
  <2>6. \A a \in BlocksInUse : hdr[a].alloc <=> a \in DOMAIN live
    BY <2>1 DEF Blocks, Headers, BlocksInUse
  <2>. QED  BY <2>2, <2>4, <2>5, <2>6 DEF Tiles
<1>. QED  BY <1>1, HeapInvariant, PTL

\* What alloc returns is aligned and has the room that was asked for, also when
\* alignUp saturates.
THEOREM RoomyHolds == Spec => []Roomy
<1>1. HeapInv => Roomy
  <2> SUFFICES ASSUME HeapInv, NEW a \in DOMAIN live
               PROVE  (a + HDR) % BLOCK_ALIGN = 0 /\ a + HDR + live[a] <= End(a)
    BY DEF Roomy
  <2>1. a \in Nat /\ hdr[a].size \in Nat
    BY BlockFacts DEF HeapInv
  <2>2. Aligned(a)
    BY DEF HeapInv, Blocks, Tiling
  <2>3. HDR \in Nat /\ Aligned(HDR)
    BY HeapAssumption DEF Aligned
  <2>4. Aligned(a + HDR)
    BY <2>1, <2>2, <2>3, AlignedSum
  <2>5. live[a] \in Nat /\ HDR + live[a] <= hdr[a].size
    BY DEF HeapInv
  <2>. QED  BY <2>1, <2>3, <2>4, <2>5 DEF Aligned, End
<1>. QED  BY <1>1, HeapInvariant, PTL

\* coalesce and the search backwards in free leave no fragments: the free blocks
\* are exactly the gaps between live blocks, and largestFreeBlock is the largest.
THEOREM FreeIsGapsHolds == Spec => []FreeIsGaps
<1>1. HeapInv => FreeIsGaps
  <2> SUFFICES ASSUME HeapInv PROVE FreeIsGaps
    OBVIOUS
  <2> DEFINE F == Range(freeList)
             L == DOMAIN live
             ends == {heapEnd} \cup L
             Up(s) == Min({x \in ends : x >= s})
             starts == {heapStart} \cup {End(a) : a \in L}
             gaps == {g \in Gaps : g[1] < g[2]}
             free == {<<a, End(a)>> : a \in F}
  <2>1. /\ Blocks(hdr, freeList, L, heapStart, heapEnd) /\ F \cap L = {}
        /\ heapStart \in Nat /\ heapEnd \in Nat
        /\ heapStart \in F \cup L
        /\ \A a \in (F \cup L) \ {heapStart} : \E b \in F \cup L : End(b) = a
    BY DEF HeapInv, Blocks, Tiling, End
  <2>2. \A a \in F : End(a) \notin F
    BY DEF HeapInv, Coalesced, End
  <2>3. \A a \in F \cup L : /\ a \in Nat /\ End(a) \in Nat /\ a < heapEnd /\ a < End(a)
                           /\ End(a) <= heapEnd /\ End(a) \in F \cup L \cup {heapEnd}
    BY <2>1, BlockFacts DEF End
  <2>4. \A a, b \in F \cup L : a < b => End(a) <= b
    BY <2>1, Inside DEF End
  <2>5. Gaps = {<<s, Up(s)>> : s \in starts}
    BY DEF Gaps
  <2> HIDE DEF F, L
  <2>6. ASSUME NEW a \in F PROVE Up(a) = End(a)
    <3>1. End(a) \in ends /\ End(a) \in Nat /\ a < End(a) /\ a \in Nat
      BY <2>2, <2>3
    <3>2. ASSUME NEW x \in ends, x >= a PROVE End(a) <= x
      <4>1. CASE x = heapEnd
        BY <4>1, <2>3
      <4>2. CASE x \in L
        <5>1. x # a /\ x \in Nat
          BY <4>2, <2>1, <2>3
        <5>. QED  BY <3>1, <3>2, <4>2, <5>1, <2>4
      <4>. QED  BY <4>1, <4>2
    <3> DEFINE S == {x \in ends : x >= a}
    <3>3. End(a) \in S /\ \A x \in S : End(a) <= x
      BY <3>1, <3>2
    <3>4. S \in SUBSET Nat /\ S # {}
      BY <2>1, <2>3, <3>3, Zenon
    <3> HIDE DEF S
    <3>5. Min(S) \in S /\ \A x \in S : Min(S) <= x
      BY <3>4, LeastOf
    <3>6. Min(S) = End(a)
      <4>1. Min(S) \in Nat /\ End(a) \in Nat /\ Min(S) <= End(a) /\ End(a) <= Min(S)
        BY <3>1, <3>3, <3>4, <3>5, Zenon
      <4>. QED  BY <4>1
    <3>. QED  BY <3>6 DEF S
  <2>7. ASSUME NEW a \in F PROVE a \in starts
    <3>1. CASE a = heapStart
      BY <3>1
    <3>2. CASE a # heapStart
      <4>1. PICK b \in F \cup L : End(b) = a
        BY <2>1, <3>2
      <4>2. b \in L
        BY <2>2, <4>1
      <4>. QED  BY <4>1, <4>2
    <3>. QED  BY <3>1, <3>2
  <2>8. ASSUME NEW s \in starts, s < Up(s) PROVE s \in F
    <3>1. s \in F \cup L \cup {heapEnd} /\ s \in Nat
      <4>1. CASE s = heapStart
        BY <4>1, <2>1
      <4>2. CASE \E a \in L : s = End(a)
        BY <4>2, <2>3
      <4>. QED  BY <4>1, <4>2
    <3>2. s \notin ends
      <4>1. SUFFICES ASSUME s \in ends PROVE FALSE
        OBVIOUS
      <4> DEFINE S == {x \in ends : x >= s}
      <4>2. s \in S
        BY <3>1, <4>1
      <4>3. \A x \in ends : x \in Nat
        BY <2>1, <2>3
      <4>4. S \in SUBSET Nat
        BY <4>3
      <4> HIDE DEF S
      <4>5. Min(S) \in Nat /\ Min(S) <= s
        BY <4>2, <4>4, LeastOf, Zenon
      <4>6. s < Min(S)
        BY <2>8 DEF S
      <4>. QED  BY <3>1, <4>5, <4>6
    <3>. QED  BY <3>1, <3>2
  <2>9. free = gaps
    <3>1. ASSUME NEW a \in F PROVE <<a, End(a)>> \in gaps
      <4>1. <<a, End(a)>> = <<a, Up(a)>> /\ a \in starts /\ a < End(a)
        BY <2>3, <2>6, <2>7
      <4> HIDE DEF Up, starts
      <4>. QED  BY <2>5, <4>1
    <3>2. ASSUME NEW g \in gaps PROVE g \in free
      <4> HIDE DEF Up, starts, ends
      <4>1. PICK s \in starts : g = <<s, Up(s)>>
        BY <2>5
      <4>2. s < Up(s)
        BY <4>1
      <4>3. s \in F /\ Up(s) = End(s)
        BY <4>2, <2>6, <2>8
      <4>. QED  BY <4>1, <4>3
    <3>. QED  BY <3>1, <3>2
  <2>10. {hdr[a].size : a \in F} = {g[2] - g[1] : g \in gaps}
    <3>1. \A a \in F : hdr[a].size = End(a) - a
      <4>1. \A a \in F : a \in Nat /\ hdr[a].size \in Nat
        BY <2>1, BlockFacts DEF F
      <4>. QED  BY <4>1 DEF End
    <3>2. {hdr[a].size : a \in F} = {End(a) - a : a \in F}
      BY <3>1
    <3> HIDE DEF gaps, End, ends, starts, Up
    <3>3. {End(a) - a : a \in F} = {g[2] - g[1] : g \in free}
      <4>1. ASSUME NEW a \in F PROVE End(a) - a \in {g[2] - g[1] : g \in free}
        <5>1. <<a, End(a)>> \in free /\ <<a, End(a)>>[1] = a /\ <<a, End(a)>>[2] = End(a)
          OBVIOUS
        <5> HIDE DEF free
        <5>. QED  BY <5>1
      <4>2. ASSUME NEW g \in free PROVE g[2] - g[1] \in {End(a) - a : a \in F}
        <5>1. PICK a \in F : g = <<a, End(a)>>
          OBVIOUS
        <5>. QED  BY <5>1
      <4>. QED  BY <4>1, <4>2
    <3> HIDE DEF free
    <3>. QED  BY <2>9, <3>2, <3>3, Zenon
  <2> HIDE DEF gaps
  <2>11. LargestFreeBlock = Max({0} \cup {g[2] - g[1] : g \in gaps})
    BY <2>10, Zenon DEF LargestFreeBlock, F
  <2>. QED  BY <2>9, <2>11 DEF FreeIsGaps, gaps, F
<1>. QED  BY <1>1, HeapInvariant, PTL

=============================================================================
