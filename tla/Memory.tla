------------------------------- MODULE Memory -------------------------------
(***************************************************************************)
(* Memory from boot to the end of processes: kmain sets up the frame       *)
(* allocator, paging and the heap (kernel/kernel/Kernel.cc), and processes *)
(* are loaded, forked, replaced, killed and ended                          *)
(* (kernel/kernel/SchedulerProcess.cc), store into their pages and take    *)
(* page faults (kernel/arch/i386/ExceptionHandlers.cc).                    *)
(*                                                                         *)
(* Each of these is one step, so that what is checked here holds for       *)
(* handlers that the timer does not interrupt.  Faults, exit and boot have *)
(* interrupts off; fork, exec and killTask do not (README, hazards).       *)
(***************************************************************************)
EXTENDS Paging

CONSTANTS
  Tasks,         \* the slots of user processes
  Taskbar,       \* the owner of the page directory of the taskbar
  Layouts,       \* the memories the kernel may boot in
  Images,        \* the ELF modules: [valid, pages, data]
  StoredTo,      \* bound: the pages that processes store to
  MaxOps,        \* bound: programs loaded, forks, ends and signals after boot
  WriteProtect   \* CR0.WP, which boot leaves as it finds it

VARIABLES
  phase,      \* how far boot is: "start", "pmm", "paging", "up"; or the end:
              \* "failed" (no paging), "panicked" (a page fault of the kernel),
              \* "stray" (a signal was written into a page of others)
  layout,     \* the memory of this machine
  heap,       \* the range of addresses Heap::init was given
  m,          \* frames and page directories
  alive,      \* alive[t]: slot t is in use
  stackPhys,  \* tasks_[t].userStackPhys, as a function of the page
  elfPages,   \* tasks_[t].elfVaddr, the ELF pages exec would unmap
  badLoads,   \* history: the loads that failed behind a page directory
  fresh,      \* history: the processes that did an exec, and no fork since
  ops         \* programs loaded, forks, ends and signals so far

vars == <<phase, layout, heap, m, alive, stackPhys, elfPages, badLoads, fresh, ops>>
procs == <<alive, stackPhys, elfPages, badLoads, fresh>>

Owners == {Kernel, Taskbar} \cup Tasks

Init ==
  /\ phase = "start"
  /\ layout \in Layouts
  /\ heap = [start |-> 0, end |-> 0]
  /\ m = [free |-> << >>, ref |-> << >>, data |-> << >>, inUse |-> 0, panic |-> FALSE]
  /\ alive = [t \in Tasks |-> FALSE]
  /\ stackPhys = [t \in Tasks |-> [v \in ToSet(StackPages) |-> 0]]
  /\ elfPages = [t \in Tasks |-> << >>]
  /\ badLoads = 0 /\ fresh = {}
  /\ ops = 0

-----------------------------------------------------------------------------
(* Boot: kmain, with interrupts off.                                       *)

\* The heap takes all that is left of the memory the kernel is in.
HeapRange == [start |-> layout.kernel.end, end |-> layout.kernel.end + AvailableAbove(layout)]

BootPmm ==
  /\ phase = "start" /\ phase' = "pmm"
  /\ m' = PmmInit(layout) @@ [dir |-> [o \in Owners |-> NoDir], kernel |-> {}, orphans |-> {}]
  /\ UNCHANGED <<layout, heap, procs, ops>>

BootPaging ==
  LET r == PagingInit(m, Max({HeapRange.end, PdeSize}))
  IN /\ phase = "pmm" /\ phase' = IF r.ok THEN "paging" ELSE "failed"
     /\ m' = r.m
     /\ UNCHANGED <<layout, heap, procs, ops>>

\* addUserElfTask(t, image) in memory n, as [m, ok]: the stack is mapped in the
\* kernel directory, and the clone of that directory gets the image.  The slot
\* is wiped first, so a directory that is still in it has no owner any more.
AddUserElfTask(n, t, image) ==
  LET wiped == IF n.dir[t].pd = 0 THEN n
               ELSE [n EXCEPT !.orphans = @ \cup {n.dir[t]}, !.dir[t] = NoDir]
      stack == MapUserStackPages(wiped, Kernel)
      clone == ClonePageDir(stack.m, Kernel, t)
  IN IF ~stack.ok THEN stack
     ELSE IF ~clone.ok THEN clone
     ELSE ElfLoad(clone.m, t, image)

\* The fields of slot t after addUserElfTask went from n to r.
Started(n, r, t, image) ==
  /\ alive' = [alive EXCEPT ![t] = r.ok]
  /\ elfPages' = [elfPages EXCEPT ![t] = IF r.ok THEN image.pages ELSE << >>]
  /\ stackPhys' = [stackPhys EXCEPT ![t] =
                     [v \in ToSet(StackPages) |-> r.m.dir[Kernel].pte[v].frame]]
  /\ badLoads' = IF ~r.ok /\ r.m.dir[t].pd # 0 THEN badLoads + 1 ELSE badLoads
  /\ UNCHANGED fresh

\* The heap, the shell and the taskbar.  The taskbar, a kernel task, gets a
\* clone of the kernel directory too.
BootPrograms ==
  LET first == CHOOSE t \in Tasks : \A u \in Tasks : t <= u
      size == HeapRange.end - HeapRange.start
      n == IF size > 0 THEN ReserveRegion(m, HeapRange.start, HeapRange.end) ELSE m
  IN /\ phase = "paging" /\ phase' = "up"
     /\ heap' = HeapRange
     /\ \E image \in {i \in Images : i.valid} :
          LET r == AddUserElfTask(n, first, image)
          IN m' = ClonePageDir(r.m, Kernel, Taskbar).m /\ Started(n, r, first, image)
     /\ UNCHANGED <<layout, ops>>

-----------------------------------------------------------------------------
(* Processes.                                                              *)

\* SYS_EXECMOD: addUserElfTask in the first free slot.
Execmod(t, image) ==
  LET r == AddUserElfTask(m, t, image)
  IN /\ ~alive[t] /\ \A u \in Tasks : u < t => alive[u]
     /\ m' = r.m
     /\ Started(m, r, t, image)
     /\ UNCHANGED <<phase, layout, heap>>

\* fork: the child gets a clone of the parent's directory, in which nothing is
\* writable, and then nothing is in the parent's either.  elfPageCount of the
\* child is 0.
Fork(p, c) ==
  LET wiped == IF m.dir[c].pd = 0 THEN m
               ELSE [m EXCEPT !.orphans = @ \cup {m.dir[c]}, !.dir[c] = NoDir]
      r == ClonePageDir(wiped, p, c)
  IN /\ alive[p] /\ ~alive[c] /\ \A u \in Tasks : u < c => alive[u]
     /\ m' = IF r.ok THEN [r.m EXCEPT !.dir[p].pte = [v \in Pages |-> Protect(@[v])]] ELSE r.m
     /\ alive' = [alive EXCEPT ![c] = r.ok]
     /\ stackPhys' = [stackPhys EXCEPT ![c] = stackPhys[p]]
     /\ elfPages' = [elfPages EXCEPT ![c] = << >>]
     /\ fresh' = fresh \ {p}
     /\ UNCHANGED <<phase, layout, heap, badLoads>>

\* Mutant: the page directory stays behind.
Ended_KeepsDir(n, t) ==
  /\ m' = n
  /\ alive' = [alive EXCEPT ![t] = FALSE]
  /\ elfPages' = [elfPages EXCEPT ![t] = << >>]
  /\ fresh' = fresh \ {t}
  /\ UNCHANGED <<phase, layout, heap, stackPhys, badLoads>>

\* The memory part of exitCurrentTask and killTask, in memory n.
Ended(n, t) ==
  /\ m' = FreePageDirectory(n, t)
  /\ alive' = [alive EXCEPT ![t] = FALSE]
  /\ elfPages' = [elfPages EXCEPT ![t] = << >>]
  /\ fresh' = fresh \ {t}
  /\ UNCHANGED <<phase, layout, heap, stackPhys, badLoads>>

\* Mutant: the old stack is left to the new program.
Exec_KeepsStack(t, image) ==
  LET freed == FreePageArray(m, t, elfPages[t])
      loaded == ElfLoad(freed, t, image)
  IN /\ alive[t]
     /\ IF loaded.ok
          THEN /\ m' = loaded.m
               /\ elfPages' = [elfPages EXCEPT ![t] = image.pages]
               /\ fresh' = fresh \ {t}
               /\ UNCHANGED <<phase, layout, heap, alive, badLoads, stackPhys>>
          ELSE Ended(loaded.m, t)

\* Mutant: the frames of the old stack stay on record.
Exec_OldStack(t, image) ==
  LET freed == FreePageArray(FreePageArray(m, t, elfPages[t]), t, StackPages)
      stack == MapUserStackPages(freed, t)
      loaded == ElfLoad(stack.m, t, image)
  IN /\ alive[t]
     /\ IF ~stack.ok THEN Ended(stack.m, t)
        ELSE IF ~loaded.ok THEN Ended(FreePageArray(loaded.m, t, StackPages), t)
        ELSE /\ m' = loaded.m
             /\ elfPages' = [elfPages EXCEPT ![t] = image.pages]
             /\ fresh' = fresh \cup {t}
             /\ UNCHANGED <<phase, layout, heap, alive, badLoads, stackPhys>>

\* exec: the old pages go, a fresh stack and the new image come; the process
\* ends when they cannot.
Exec(t, image) ==
  LET freed == FreePageArray(FreePageArray(m, t, elfPages[t]), t, StackPages)
      stack == MapUserStackPages(freed, t)
      loaded == ElfLoad(stack.m, t, image)
  IN /\ alive[t]
     /\ IF ~stack.ok THEN Ended(stack.m, t)
        ELSE IF ~loaded.ok THEN Ended(FreePageArray(loaded.m, t, StackPages), t)
        ELSE /\ m' = loaded.m
             /\ elfPages' = [elfPages EXCEPT ![t] = image.pages]
             /\ stackPhys' = [stackPhys EXCEPT ![t] =
                                [v \in ToSet(StackPages) |-> loaded.m.dir[t].pte[v].frame]]
             /\ fresh' = fresh \cup {t}
             /\ UNCHANGED <<phase, layout, heap, alive, badLoads>>

\* exitCurrentTask and killTask, of a process ...
End(t) == alive[t] /\ Ended(m, t)

\* ... and of the taskbar.
KillTaskbar ==
  /\ m.dir[Taskbar].pd # 0
  /\ m' = FreePageDirectory(m, Taskbar)
  /\ UNCHANGED <<phase, layout, heap, procs>>

\* What process t stores: something that no other process does.
ValueOf(t) == 10 + t

Stored(n, t, v) == [n EXCEPT !.data[n.dir[t].pte[v].frame] = ValueOf(t)]

\* A store of user code.  A read-only page makes it fault, and excPf either
\* resolves the fault and the store is tried again, or the process is killed.
UserWrite(t, v) ==
  LET pte == m.dir[t].pte[v]
      r == HandleCowFault(m, t, v)
  IN /\ alive[t] /\ Present(pte)
     /\ IF ~pte.rw /\ ~r.ok THEN Ended(m, t)
        ELSE /\ m' = Stored(IF pte.rw THEN m ELSE r.m, t, v)
             /\ UNCHANGED <<phase, layout, heap, procs>>

\* A system call stores a result for the process (SYS_READ, SYS_READLINE,
\* SYS_WAITPID, ...).  The kernel faults on a read-only page only with CR0.WP,
\* and a fault of the kernel that cannot be resolved is a panic.
KernelWrite(t, v) ==
  LET pte == m.dir[t].pte[v]
      r == HandleCowFault(m, t, v)
  IN /\ alive[t] /\ Present(pte)
     /\ IF pte.rw \/ ~WriteProtect \/ r.ok
          THEN /\ m' = Stored(IF pte.rw \/ ~WriteProtect THEN m ELSE r.m, t, v)
               /\ UNCHANGED phase
          ELSE phase' = "panicked" /\ UNCHANGED m
     /\ UNCHANGED <<layout, heap, procs>>

\* A signal is handled: writeSignalTrampoline stores through the frame that
\* userStackPhys has for the page.  If t has another frame there, or another
\* process has that frame too, the model ends.
WriteSignalTrampoline(t, v) ==
  LET f == stackPhys[t][v]
  IN /\ alive[t]
     /\ IF /\ m.dir[t].pte[v].frame = f
           /\ \A u \in Tasks \ {t}, w \in Pages : m.dir[u].pte[w].frame # f
          THEN m' = Stored(m, t, v) /\ UNCHANGED phase
          ELSE phase' = "stray" /\ UNCHANGED m
     /\ UNCHANGED <<layout, heap, procs>>

ProcessNext ==
  /\ phase = "up" /\ ~m.panic
  /\ \/ /\ ops < MaxOps /\ ops' = ops + 1
        /\ \/ \E t \in Tasks, image \in Images : Execmod(t, image) \/ Exec(t, image)
           \/ \E p, c \in Tasks : Fork(p, c)
           \/ \E t \in Tasks : End(t)
           \/ KillTaskbar
           \/ \E t \in Tasks, v \in ToSet(StackPages) : WriteSignalTrampoline(t, v)
     \/ /\ \E t \in Tasks, v \in StoredTo : UserWrite(t, v) \/ KernelWrite(t, v)
        /\ UNCHANGED ops

Next == BootPmm \/ BootPaging \/ BootPrograms \/ ProcessNext

Spec == Init /\ [][Next]_vars

-----------------------------------------------------------------------------
(* What memory management promises.                                        *)

Booted == phase \in {"paging", "up", "panicked", "stray"}
Frames == DOMAIN m.ref

\* Types; addRef and removeRef keep the counts of a uint8_t.
TypeOK ==
  /\ phase \in {"start", "pmm", "paging", "up", "failed", "panicked", "stray"}
  /\ m.free \in Seq(Frames)
  /\ \A f \in Frames : m.ref[f] \in 0 .. MaxRef
  /\ alive \in [Tasks -> BOOLEAN]
  /\ badLoads \in Nat

\* All page directories, those that nobody can reach any more included.
Dirs == {m.dir[o] : o \in Owners} \cup m.orphans

\* How often frame f is in use: as a page, as a table, as a directory, by the
\* identity map, and as the VGA buffer that Pmm::init reserves.
Uses(f) ==
  LET pages == {<<d, v>> \in Dirs \X Pages : d.pte[v].frame = f}
      tables == {<<d, tb>> \in Dirs \X ToSet(Tables) : d.pt[tb] = f}
      dirs == {d \in Dirs \ {m.dir[Kernel]} : d.pd = f}
      others == {k \in {"kernel", "vga"} : IF k = "kernel" THEN f \in m.kernel ELSE f = layout.vga}
  IN Cardinality(pages) + Cardinality(tables) + Cardinality(dirs) + Cardinality(others)

\* "Each frame has an 8-bit reference count" (Pmm.h:13): through fork, exec,
\* faults, exits, and every rollback on the way, it is exactly the number of
\* times the frame is in use.  No path gives a reference back twice (the panics
\* of freeFrame and removeRef), and the statistics "keep allocCount_ -
\* freeTotalCount_ equal to in-use frames" (Pmm.cc:325).
CountsAreUses ==
  /\ TypeOK /\ ~m.panic
  /\ Booted =>
       /\ \A f \in Frames :
            f # 0 /\ (f # layout.vga \/ m.ref[f] > 0) => m.ref[f] = Uses(f)
       /\ m.inUse = Cardinality({f \in Frames \ {layout.vga} : m.ref[f] > 0})

HeapFrames == PageDown(heap.start) .. PageUp(heap.end) - 1

\* Is frame f part of the kernel image or of a module?
Loaded(f) == \/ \E a \in f * PageSize .. f * PageSize + PageSize - 1 : InRange(a, layout.kernel)
             \/ \E mod \in layout.modules : InRange(f, ModuleRange(mod))

\* The free list never offers a frame twice, one that is in use, or one of the
\* kernel image, of a module, of the VGA buffer or of the heap, wherever in
\* their pages these begin and end.
FreeIsFree ==
  \A i \in 1 .. Len(m.free) :
    LET f == m.free[i]
    IN /\ f # 0 /\ m.ref[f] = 0 /\ f # layout.vga /\ ~Loaded(f)
       /\ heap.end > heap.start => f \notin HeapFrames
       /\ \A j \in 1 .. i - 1 : m.free[j] # f

\* A page directory outlives its process only behind a load that failed in
\* addUserElfTask: nothing else leaks.
NoLeak ==
  phase = "up" =>
    Cardinality(m.orphans) + Cardinality({t \in Tasks : ~alive[t] /\ m.dir[t].pd # 0}) = badLoads

\* "Write 16 bytes onto the userland stack" (SchedulerSignals.cc:14): as long as
\* a process does not fork after its exec, the frames that userStackPhys has for
\* it are those of its stack, and nobody else's, whatever the others do.  Without
\* an exec, and after a fork, the first store makes them stale.
SignalStays ==
  phase = "up" =>
    \A t \in fresh, v \in ToSet(StackPages) :
      /\ stackPhys[t][v] = m.dir[t].pte[v].frame
      /\ \A d \in Dirs \ {m.dir[t]}, w \in Pages : d.pte[w].frame # stackPhys[t][v]

Unmapped == -1

\* The memory process t sees.
View(t) ==
  [v \in Pages |->
     IF phase \in {"up", "panicked", "stray"} /\ alive[t] /\ Present(m.dir[t].pte[v])
       THEN m.data[m.dir[t].pte[v].frame] ELSE Unmapped]

\* What a program has in its pages when it starts: a zeroed stack and its file.
Contents(image) ==
  [v \in ToSet(StackPages) \cup ToSet(image.pages) |->
     IF v \in ToSet(StackPages) THEN 0 ELSE image.data]

P == INSTANCE PrivateMemory WITH
       Images <- {Contents(image) : image \in {i \in Images : i.valid}},
       Values <- {ValueOf(t) : t \in Tasks},
       mem <- [t \in Tasks |-> View(t)]

\* Frames, references and copy-on-write implement private memories: "parent and
\* child have independent copies" (CopyOnWrite.cc:125), a new program finds
\* a zeroed stack and its own pages only, and this survives every failure on
\* the way.
PrivateMemory == P!Spec
=============================================================================
