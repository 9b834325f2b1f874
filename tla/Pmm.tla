-------------------------------- MODULE Pmm --------------------------------
(***************************************************************************)
(* The physical memory manager (kernel/kernel/Pmm.cc): an intrusive LIFO   *)
(* list of free frames and an 8-bit reference count for each frame.        *)
(*                                                                         *)
(* The operations are functions on the memory state m, a record with       *)
(*   free   freeList_ from its head (freeCount_ is its length)             *)
(*   ref    refCounts_                                                     *)
(*   data   what each frame holds                                          *)
(*   inUse  allocCount_ - freeTotalCount_                                  *)
(*   panic  panic() was called                                             *)
(* and fields of the modules that use this one.  A frame is its number     *)
(* (physical address / PAGE_SIZE); frame 0 is the null pointer.            *)
(***************************************************************************)
EXTENDS Integers, SequencesExt

CONSTANTS
  PageSize,  \* PAGE_SIZE, in the units of the boot layouts
  MaxRef     \* MAX_REFCOUNT

PageUp(a) == (a + PageSize - 1) \div PageSize
PageDown(a) == a \div PageSize

Panic(m) == [m EXCEPT !.panic = TRUE]

\* frame->next = freeList_: the link is stored in the frame itself.
Link == -2

\* freeFrameFast: push without a look at the reference count.
FreeFrameFast(m, f) ==
  IF f = 0 THEN m ELSE [m EXCEPT !.free = <<f>> \o @, !.data[f] = Link]

OutOfFrames(m) == m.free = << >>

\* The frame allocFrame returns when there is one.
NextFrame(m) == Head(m.free)

\* allocFrame, with a free frame to pop: it is zeroed and has one reference.
AllocFrame(m) ==
  [m EXCEPT !.free = Tail(@), !.ref[NextFrame(m)] = 1,
            !.data[NextFrame(m)] = 0, !.inUse = @ + 1]

\* freeFrame: drop a reference, and push the frame when it was the last.
FreeFrame(m, f) ==
  CASE f = 0 -> m
    [] f # 0 /\ m.ref[f] = 0 -> Panic(m)
    [] m.ref[f] > 1 -> [m EXCEPT !.ref[f] = @ - 1]
    [] m.ref[f] = 1 -> [FreeFrameFast(m, f) EXCEPT !.ref[f] = 0, !.inUse = @ - 1]

\* addRef saturates.
AddRef(m, f) == IF m.ref[f] < MaxRef THEN [m EXCEPT !.ref[f] = @ + 1] ELSE m

\* removeRef counts the release of the last reference, but pushes nothing.
RemoveRef(m, f) ==
  CASE m.ref[f] = 0 -> Panic(m)
    [] m.ref[f] = 1 -> [m EXCEPT !.ref[f] = 0, !.inUse = @ - 1]
    [] OTHER -> [m EXCEPT !.ref[f] = @ - 1]

\* if (removeRef(f)) freeFrameFast(f): what every unmapping does.
DropRef(m, f) ==
  IF m.ref[f] = 1 THEN FreeFrameFast(RemoveRef(m, f), f) ELSE RemoveRef(m, f)

-----------------------------------------------------------------------------
(* Boot.  A layout has `map', the available entries of the Multiboot memory *)
(* map in their order, `kernel' and `modules', all of them ranges of        *)
(* addresses [start, end), and `vga', the frame of the VGA buffer.          *)

InRange(a, r) == r.start <= a /\ a < r.end

\* collectModuleRanges: the whole pages a module touches.
ModuleRange(mod) == [start |-> PageDown(mod.start), end |-> PageUp(mod.end)]

\* The pages addMemoryMapPages leaves out: the kernel image and the modules.
Available(layout, f) ==
  /\ ~InRange(f * PageSize, layout.kernel)
  /\ \A mod \in layout.modules : ~InRange(f, ModuleRange(mod))

\* The pages of one entry of the map, in the order in which they are pushed.
EntryPages(layout, entry) ==
  LET first == PageUp(entry.start)
      pages == [i \in 1 .. PageDown(entry.end) - first |-> first + i - 1]
  IN SelectSeq(pages, LAMBDA f : f # 0 /\ Available(layout, f))

\* maxFrameIdx_: one more than the highest frame of the map.
MaxFrameIdx(layout) ==
  PageUp(Max({layout.map[i].end : i \in 1 .. Len(layout.map)}))

\* reserveFrame takes the frame off the list and gives it a reference.
ReserveFrame(m, f) ==
  IF Contains(m.free, f)
    THEN [m EXCEPT !.free = RemoveFirst(@, f), !.ref[f] = 1] ELSE m

\* Pmm::init: the list is pushed in ascending order, so its head is the top of
\* the last entry of the map.
PmmInit(layout) ==
  LET frames == 0 .. MaxFrameIdx(layout) - 1
      pages == FlattenSeq([i \in 1 .. Len(layout.map) |->
                             EntryPages(layout, layout.map[i])])
      m == [free |-> Reverse(pages), ref |-> [f \in frames |-> 0],
            data |-> [f \in frames |-> IF Contains(pages, f) THEN Link ELSE 0],
            inUse |-> 0, panic |-> FALSE]
  IN ReserveFrame(m, layout.vga)

\* removeFramesAbove(boundary), for a boundary between two pages.
RemoveFramesAbove(m, page) ==
  [m EXCEPT !.free = SelectSeq(@, LAMBDA f : f < page)]

\* Mutant: the first page of the region stays on the list.
ReserveRegion_Late(m, start, end) ==
  [m EXCEPT !.free = SelectSeq(@, LAMBDA f : f <= PageUp(start) \/ f >= PageDown(end))]

\* reserveRegion(start, end): the whole pages inside the region.
ReserveRegion(m, start, end) ==
  [m EXCEPT !.free = SelectSeq(@, LAMBDA f : f < PageUp(start) \/ f >= PageDown(end))]

\* Mem::init keeps the entries from 1 MiB up, where the kernel starts, and
\* Mem::availableAbove(kernel end) is what is left of the one the kernel is in.
AvailableAbove(layout) ==
  LET e == layout.kernel.end
      chunks == SelectSeq(layout.map, LAMBDA r : r.start >= layout.kernel.start /\ InRange(e, r))
  IN IF chunks = << >> THEN 0 ELSE Head(chunks).end - e
=============================================================================
