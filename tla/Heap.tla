-------------------------------- MODULE Heap --------------------------------
(***************************************************************************)
(* The kernel heap (kernel/kernel/Heap.cc): blocks with a header, a list   *)
(* of the free ones, best fit, and coalescing with both neighbours.        *)
(*                                                                         *)
(* alloc and free run with interrupts off, so each is one step.  Memory is *)
(* what the headers say: hdr[a] is the header at address a, as long as     *)
(* nobody wrote over it; its magic is HEAP_MAGIC if alloc, and 0 if not.   *)
(***************************************************************************)
EXTENDS Integers, Sequences, FiniteSetsExt

CONSTANTS
  HDR,          \* sizeof(Header)
  WORD,         \* the 4 of alignUp(size, 4)
  BLOCK_ALIGN,
  MIN_BLOCK,
  SIZE_MAX,     \* static_cast<size_t>(-1)
  Spans,        \* the [start, size] that kmain may find for the heap
  Requests      \* the sizes that are asked for

\* A header does not disturb the alignment of what follows it, and there is room
\* for the heap below the end of the address space.
ASSUME HeapAssumption ==
  /\ {HDR, WORD, BLOCK_ALIGN, MIN_BLOCK} \subseteq Nat \ {0}
  /\ HDR % BLOCK_ALIGN = 0
  /\ SIZE_MAX \in Nat /\ Requests \subseteq Nat
  /\ \A span \in Spans :
       /\ span.start \in Nat /\ span.size \in Nat \ {0}
       /\ span.start + span.size + 2 * (BLOCK_ALIGN - 1) <= SIZE_MAX

VARIABLES
  heapStart, heapEnd,
  hdr,        \* partial function from addresses to [size, alloc]
  freeList,   \* the addresses of the free blocks, from freeList_ on
  live        \* the blocks in use: partial function from addresses to the
              \* sizes that were asked for
vars == <<heapStart, heapEnd, hdr, freeList, live>>

Drop(f, S) == [a \in DOMAIN f \ S |-> f[a]]
Set(f, a, x) == [b \in DOMAIN f \cup {a} |-> IF b = a THEN x ELSE f[b]]

\* alignUp saturates.
AlignUp(n, a) == IF n > SIZE_MAX - (a - 1) THEN SIZE_MAX ELSE ((n + a - 1) \div a) * a

Free(size) == [size |-> size, alloc |-> FALSE]
Used(size) == [size |-> size, alloc |-> TRUE]

\* Heap::init.
Init ==
  \E span \in Spans :
    /\ heapStart = AlignUp(span.start, BLOCK_ALIGN)
    /\ heapEnd = heapStart + AlignUp(span.size, BLOCK_ALIGN)
    /\ hdr = [a \in {heapStart} |-> Free(heapEnd - heapStart)]
    /\ freeList = <<heapStart>>
    /\ live = << >>

\* Mutant: the header is not counted.
Needed_NoHeader(n) ==
  LET aligned == AlignUp(n, WORD)
  IN IF aligned > SIZE_MAX - HDR THEN SIZE_MAX
     ELSE AlignUp(Max({aligned, MIN_BLOCK}), BLOCK_ALIGN)

\* The size of the block for a request, SIZE_MAX when there can be none.
Needed(n) ==
  LET aligned == AlignUp(n, WORD)
  IN IF aligned > SIZE_MAX - HDR THEN SIZE_MAX
     ELSE AlignUp(Max({HDR + aligned, MIN_BLOCK}), BLOCK_ALIGN)

\* The place in the list of the first of the smallest blocks that fit, or 0.
Best(needed) ==
  LET fits == {i \in 1 .. Len(freeList) : hdr[freeList[i]].size >= needed}
      least == Min({hdr[freeList[i]].size : i \in fits})
  IN IF fits = {} THEN 0 ELSE Min({i \in fits : hdr[freeList[i]].size = least})

\* The first place of a block in the list.
Place(list, addr) == Min({i \in 1 .. Len(list) : list[i] = addr})

\* removeFromFreeList, for the i-th block of the list.
RemoveFromFreeList(list, i) ==
  SubSeq(list, 1, i - 1) \o SubSeq(list, i + 1, Len(list))

\* Is the rest large enough for a block of its own?
Split(residual) == residual >= MIN_BLOCK

\* alloc(n).  What was in the block belongs to the caller now.
Alloc(n) ==
  LET needed == Needed(n)
      i == Best(needed)
      addr == freeList[i]
      size == hdr[addr].size
      rest == addr + needed
      end == addr + IF Split(size - needed) THEN needed ELSE size
      kept == Drop(hdr, {a \in DOMAIN hdr : addr < a /\ a < end})
  IN /\ n # 0 /\ needed # SIZE_MAX /\ i # 0
     /\ live' = Set(live, addr, n)
     /\ IF Split(size - needed)
          THEN /\ hdr' = Set(Set(kept, rest, Free(size - needed)), addr, Used(needed))
               /\ freeList' = [freeList EXCEPT ![i] = rest]
          ELSE /\ hdr' = Set(kept, addr, Used(size))
               /\ freeList' = RemoveFromFreeList(freeList, i)
     /\ UNCHANGED <<heapStart, heapEnd>>

\* alloc(n) that returns nullptr.
AllocFails(n) ==
  /\ n = 0 \/ Needed(n) = SIZE_MAX \/ Best(Needed(n)) = 0
  /\ UNCHANGED vars

\* Mutant: the list keeps a block that its neighbour has swallowed.
Coalesce_KeepsNext(h, list, node) ==
  LET next == node + h[node].size
  IN IF next >= heapEnd \/ h[next].alloc THEN [hdr |-> h, free |-> list]
     ELSE [hdr |-> [h EXCEPT ![node].size = @ + h[next].size], free |-> list]

\* coalesce(node), with headers h and list: the next block, if it is free and
\* in the list, becomes part of node.
Coalesce(h, list, node) ==
  LET next == node + h[node].size
  IN IF next >= heapEnd \/ h[next].alloc \/ next \notin Range(list)
       THEN [hdr |-> h, free |-> list]
     ELSE [hdr |-> [h EXCEPT ![node].size = @ + h[next].size],
           free |-> RemoveFromFreeList(list, Place(list, next))]

\* Mutant: only the block behind is looked at.
Before_None(h, addr) == {}

\* The free blocks that end where addr begins.
Before(h, addr) == {a \in Range(freeList) : a + h[a].size = addr}

\* free(ptr), for the block at addr, with a header that is still as the heap
\* left it: of a block in use, or of one that was freed before.
FreeBlock(addr) ==
  LET size == hdr[addr].size
      h == [hdr EXCEPT ![addr] = Free(size)]
      merge == Before(h, addr)
      into == CHOOSE a \in merge : TRUE
      r == IF merge # {}
             THEN Coalesce([h EXCEPT ![into].size = @ + size], freeList, into)
             ELSE Coalesce(h, <<addr>> \o freeList, addr)
  IN /\ addr \in DOMAIN hdr
     /\ IF hdr[addr].alloc
          THEN hdr' = r.hdr /\ freeList' = r.free /\ live' = Drop(live, {addr})
          ELSE UNCHANGED <<hdr, freeList, live>>
     /\ UNCHANGED <<heapStart, heapEnd>>

Next ==
  \/ \E n \in Requests : Alloc(n) \/ AllocFails(n)
  \/ \E addr \in DOMAIN hdr : FreeBlock(addr)

Spec == Init /\ [][Next]_vars

\* freeMem, totalMem and largestFreeBlock.
FreeMem == MapThenSumSet(LAMBDA i : hdr[freeList[i]].size, 1 .. Len(freeList))
TotalMem == heapEnd - heapStart
LargestFreeBlock == Max({0} \cup {hdr[a].size : a \in Range(freeList)})

-----------------------------------------------------------------------------
(* What the heap promises.                                                 *)

TypeOK ==
  /\ heapStart \in Nat /\ heapEnd \in Nat
  /\ \A a \in DOMAIN hdr : a \in heapStart .. heapEnd - 1 /\ hdr[a].size \in 1 .. TotalMem
  /\ freeList \in Seq(DOMAIN hdr)
  /\ DOMAIN live \subseteq DOMAIN hdr

BlocksInUse == Range(freeList) \cup DOMAIN live
End(a) == a + hdr[a].size

\* Whatever the order of alloc and free, and of frees of what is free already,
\* the free and the live blocks cover the heap without a hole or an overlap.
Tiles ==
  /\ TypeOK
  /\ heapStart \in BlocksInUse
  /\ \A a \in BlocksInUse : End(a) \in BlocksInUse \cup {heapEnd}
  /\ IsInjective(freeList) /\ Range(freeList) \cap DOMAIN live = {}
  /\ \A a, b \in BlocksInUse : a < b => End(a) <= b
  /\ \A a \in BlocksInUse : hdr[a].alloc <=> a \in DOMAIN live

\* Every pointer that alloc returned is aligned and has the room that was asked
\* for, with sizes near the end of size_t too.
Roomy ==
  \A a \in DOMAIN live :
    (a + HDR) % BLOCK_ALIGN = 0 /\ a + HDR + live[a] <= End(a)

\* The stretches between live blocks: from the start of the heap or the end of
\* a live block to the next live block or the end of the heap.
Gaps ==
  LET ends == {heapEnd} \cup DOMAIN live
      Up(s) == Min({e \in ends : e >= s})
  IN {<<s, Up(s)>> : s \in {heapStart} \cup {End(a) : a \in DOMAIN live}}

\* Coalescing leaves no fragments: the free blocks are the gaps between live
\* blocks, so that alloc fails only when no gap is large enough, and
\* largestFreeBlock says how much can be had.
FreeIsGaps ==
  LET gaps == {g \in Gaps : g[1] < g[2]}
  IN /\ {<<a, End(a)>> : a \in Range(freeList)} = gaps
     /\ LargestFreeBlock = Max({0} \cup {g[2] - g[1] : g \in gaps})

\* And freeMem is what the gaps have together.
GapsAreBlocks ==
  /\ FreeIsGaps
  /\ FreeMem = MapThenSumSet(LAMBDA g : g[2] - g[1], {g \in Gaps : g[1] < g[2]})
=============================================================================
