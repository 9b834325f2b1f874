------------------------------- MODULE Paging -------------------------------
(***************************************************************************)
(* Page directories, copy-on-write and the ELF loader                      *)
(* (kernel/arch/i386/Paging.cc, kernel/kernel/ElfLoader.cc, and the page   *)
(* helpers of kernel/kernel/SchedulerProcess.cc).                          *)
(*                                                                         *)
(* m.dir[o] is the page directory of owner o, a task or the kernel: its    *)
(* own frame `pd' (0 when there is none), the frames `pt' of its user page *)
(* tables (0 when the PDE is not present) and the user PTEs.  What all     *)
(* directories share, the identity map and its higher-half mirror, carries *)
(* no reference counts; m.kernel has the frames it is made of.             *)
(*                                                                         *)
(* An operation that can run out of frames returns [m, ok].                *)
(***************************************************************************)
EXTENDS Pmm, FiniteSets

CONSTANTS
  Kernel,      \* the owner of the kernel page directory
  Tables,      \* the user PDEs in use, in their order
  StackPages,  \* USER_STACK_PAGES pages from USER_STACK_VADDR down
  ElfPages,    \* the pages of user programs, from 0x10000000 up
  PdeSize      \* PDE_SIZE, in the units of the boot layouts

Pages == ToSet(StackPages) \cup ToSet(ElfPages)
TableOf(v) == IF v \in ToSet(StackPages) THEN "stack" ELSE "elf"
PagesOf(tb) == IF tb = "stack" THEN StackPages ELSE ElfPages

NotPresent == [frame |-> 0, rw |-> FALSE, cow |-> FALSE]
Present(pte) == pte.frame # 0

NoDir == [pd |-> 0, pt |-> [tb \in ToSet(Tables) |-> 0],
          pte |-> [v \in Pages |-> NotPresent]]

Done(m) == [m |-> m, ok |-> TRUE]
Failed(m) == [m |-> m, ok |-> FALSE]

\* ensurePageTable: a frame for the table of PDE tb.
EnsurePageTable(m, o, tb) ==
  IF m.dir[o].pt[tb] # 0 THEN Done(m)
  ELSE IF OutOfFrames(m) THEN Failed(m)
  ELSE Done([AllocFrame(m) EXCEPT !.dir[o].pt[tb] = NextFrame(m)])

DropPte(m, o, v) ==
  IF Present(m.dir[o].pte[v]) THEN DropRef(m, m.dir[o].pte[v].frame) ELSE m

\* mapPage: map v to f, writable, in place of what was mapped there.
MapPage(m, o, v, f) ==
  LET t == EnsurePageTable(m, o, TableOf(v))
  IN IF ~t.ok THEN t
     ELSE Done([DropPte(t.m, o, v) EXCEPT
                  !.dir[o].pte[v] = [frame |-> f, rw |-> TRUE, cow |-> FALSE]])

\* unmapPage, with tryFreePageTable: the last page takes the table with it.
UnmapPage(m, o, v) ==
  LET tb == TableOf(v)
      u == [DropPte(m, o, v) EXCEPT !.dir[o].pte[v] = NotPresent]
  IN IF m.dir[o].pt[tb] = 0 THEN m
     ELSE IF \E w \in ToSet(PagesOf(tb)) : Present(u.dir[o].pte[w]) THEN u
     ELSE FreeFrame([u EXCEPT !.dir[o].pt[tb] = 0], m.dir[o].pt[tb])

\* The references of the pages of table tb are given up, one by one.
DropTable(m, o, tb) ==
  FoldLeft(LAMBDA n, v : DropPte(n, o, v), m, PagesOf(tb))

\* clearPageTable puts an empty table in the place of the old one, or leaves
\* everything as it is when there is no frame for it.
ClearPageTable(m, o, tb) ==
  IF m.dir[o].pt[tb] = 0 \/ OutOfFrames(m) THEN m
  ELSE FreeFrame([DropTable(AllocFrame(m), o, tb) EXCEPT
                    !.dir[o].pt[tb] = NextFrame(m),
                    !.dir[o].pte = [v \in Pages |-> IF TableOf(v) = tb THEN NotPresent ELSE @[v]]],
                 m.dir[o].pt[tb])

Protect(pte) ==
  IF Present(pte) /\ pte.rw THEN [pte EXCEPT !.rw = FALSE, !.cow = TRUE] ELSE pte

\* One user PDE of clonePageDir: a copy of the table in which every page has
\* one reference more and none is writable.
CloneTable(m, src, dst, tb) ==
  LET copy == [AllocFrame(m) EXCEPT
                 !.dir[dst].pt[tb] = NextFrame(m),
                 !.dir[dst].pte = [v \in Pages |-> IF TableOf(v) = tb
                                                     THEN Protect(m.dir[src].pte[v]) ELSE @[v]]]
      Share(n, v) == IF Present(m.dir[src].pte[v]) THEN AddRef(n, m.dir[src].pte[v].frame) ELSE n
  IN FoldLeft(Share, copy, PagesOf(tb))

\* Mutant: the rollback forgets the references it took.
Rollback_KeepsRefs(m, dst) ==
  LET Undo(n, tb) == IF n.dir[dst].pt[tb] = 0 THEN n ELSE FreeFrame(n, n.dir[dst].pt[tb])
  IN [FreeFrame(FoldLeft(Undo, m, Tables), m.dir[dst].pd) EXCEPT !.dir[dst] = NoDir]

\* The rollback of clonePageDir: references first, then tables, then the
\* directory.  It pushes no page, because the source still has them all.
Rollback(m, dst) ==
  LET Unref(n, v) == IF Present(n.dir[dst].pte[v]) THEN RemoveRef(n, n.dir[dst].pte[v].frame) ELSE n
      Undo(n, tb) == IF n.dir[dst].pt[tb] = 0 THEN n
                     ELSE FreeFrame(FoldLeft(Unref, n, PagesOf(tb)), n.dir[dst].pt[tb])
  IN [FreeFrame(FoldLeft(Undo, m, Tables), m.dir[dst].pd) EXCEPT !.dir[dst] = NoDir]

\* clonePageDir(src), as the directory of dst.
ClonePageDir(m, src, dst) ==
  LET start == [AllocFrame(m) EXCEPT !.dir[dst] = [NoDir EXCEPT !.pd = NextFrame(m)]]
      Clone(r, tb) == IF ~r.ok \/ m.dir[src].pt[tb] = 0 THEN r
                      ELSE IF OutOfFrames(r.m) THEN Failed(Rollback(r.m, dst))
                      ELSE Done(CloneTable(r.m, src, dst, tb))
  IN IF OutOfFrames(m) THEN Failed([m EXCEPT !.dir[dst] = NoDir])
     ELSE FoldLeft(Clone, Done(start), Tables)

\* freePageDirectory, and freeFrame on the directory, which its callers do.
FreePageDirectory(m, o) ==
  LET Drop(n, tb) == IF n.dir[o].pt[tb] = 0 THEN n
                     ELSE FreeFrame(DropTable(n, o, tb), n.dir[o].pt[tb])
  IN IF m.dir[o].pd = 0 THEN m
     ELSE [FreeFrame(FoldLeft(Drop, m, Tables), m.dir[o].pd) EXCEPT !.dir[o] = NoDir]

\* handleCowFault: the only owner gets the page itself, another a copy.
HandleCowFault(m, o, v) ==
  LET pte == m.dir[o].pte[v]
      f == NextFrame(m)
  IN IF ~Present(pte) \/ ~pte.cow THEN Failed(m)
     ELSE IF m.ref[pte.frame] = 1
       THEN Done([m EXCEPT !.dir[o].pte[v] = [pte EXCEPT !.rw = TRUE, !.cow = FALSE]])
     ELSE IF OutOfFrames(m) THEN Failed(m)
     ELSE Done([RemoveRef(AllocFrame(m), pte.frame) EXCEPT
                  !.data[f] = m.data[pte.frame],
                  !.dir[o].pte[v] = [frame |-> f, rw |-> TRUE, cow |-> FALSE]])

-----------------------------------------------------------------------------
(* Paging::init.                                                           *)

\* n frames, for the page directory and the identity-map tables.
TakeKernelFrames(m, n) ==
  FoldLeft(LAMBDA k, i : [AllocFrame(k) EXCEPT !.kernel = @ \cup {NextFrame(k)}],
           m, [i \in 1 .. n |-> i])

\* calcNumPageTables.
CalcNumPageTables(end) == Max({1, (end + PdeSize - 1) \div PdeSize})

\* mapTrampoline: a page, and a table for it; without the second frame the
\* first is given back.
MapTrampoline(m) ==
  CASE Len(m.free) = 0 -> m
    [] Len(m.free) = 1 -> FreeFrame(AllocFrame(m), NextFrame(m))
    [] OTHER -> TakeKernelFrames(m, 2)

\* Paging::init(identityMapEnd).  When setupIdentityMap runs out of frames, the
\* tables and then the directory are given back and paging stays off.
PagingInit(m, identityMapEnd) ==
  LET end == PageUp(identityMapEnd) * PageSize
      n == 1 + CalcNumPageTables(end)
      k == TakeKernelFrames(m, n)
  IN IF OutOfFrames(m) THEN Failed(m)
     ELSE IF Len(m.free) < n
       THEN Failed([FoldLeft(FreeFrame, TakeKernelFrames(m, Len(m.free)),
                             Append(Tail(m.free), NextFrame(m))) EXCEPT !.kernel = {}])
     ELSE Done(MapTrampoline([RemoveFramesAbove(k, PageDown(end)) EXCEPT
                                !.dir[Kernel] = [NoDir EXCEPT !.pd = NextFrame(m)]]))

-----------------------------------------------------------------------------
(* Pages of a user program.                                                *)

\* allocAndMapUserPage(v), filled with x once it is mapped.
AllocAndMapUserPage(m, o, v, x) ==
  LET f == NextFrame(m)
      r == MapPage(AllocFrame(m), o, v, f)
  IN IF OutOfFrames(m) THEN Failed(m)
     ELSE IF ~r.ok THEN Failed(FreeFrame(r.m, f))
     ELSE Done([r.m EXCEPT !.data[f] = x])

\* One page after the other, up to the first failure.
MapUserPages(m, o, pages, x) ==
  FoldLeft(LAMBDA r, v : IF r.ok THEN AllocAndMapUserPage(r.m, o, v, x) ELSE r, Done(m), pages)

\* mapUserStackPages.
MapUserStackPages(m, o) == MapUserPages(m, o, StackPages, 0)

\* freePageArray.
FreePageArray(m, o, pages) == FoldLeft(LAMBDA n, v : UnmapPage(n, o, v), m, pages)

\* ElfLoader::load of an image: its pages and what the file puts there.  An
\* image that validateSegment refuses lies in the kernel's half, where there is
\* no table to clear (with less than 512 MiB).  rollbackMapped unmaps from the
\* kernel directory, where these pages never are.
ElfLoad(m, o, image) ==
  LET clear == ClearPageTable(m, o, "elf")
      r == MapUserPages(clear, o, image.pages, image.data)
  IN IF ~image.valid THEN Failed(m)
     ELSE IF r.ok THEN r
     ELSE Failed(FreePageArray(r.m, Kernel, image.pages))
=============================================================================
