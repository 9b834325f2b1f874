------------------------------- MODULE Process -------------------------------
(***************************************************************************)
(* Processes: fork, waitpid, SYS_EXECMOD, exit, kill and signal wake-up    *)
(* (kernel/kernel/SchedulerProcess.cc, SchedulerSignals.cc, Syscall.cc).   *)
(*                                                                         *)
(* INT 0x80 is a trap gate, so interrupts stay on in a system call and the *)
(* timer may take the CPU from the caller between any two statements that  *)
(* are not under InterruptGuard.  A system call is a sequence of actions   *)
(* here, one per stretch of code whose effects another task can see;       *)
(* `pc[t]' says where task t is, `arg[t]' is the slot it works on.  Only   *)
(* the current task moves, and Tick may come in between: also between the  *)
(* load and the store of `taskCount_++' and `nextPid_++'.                  *)
(*                                                                         *)
(* All user tasks have PRIORITY_NORMAL (addUserElfTask sets it, fork       *)
(* copies it), so the timer of module Scheduler reduces to a tick that may *)
(* come at any time and that uses up the quantum.                          *)
(***************************************************************************)
EXTENDS Integers, Sequences, FiniteSets

CONSTANTS
  MaxTasks,     \* MAX_TASKS
  MaxChildren,  \* Task::MAX_CHILDREN
  PidMod,       \* 256: pid and nextPid_ are uint8_t
  MaxCreated,   \* bound: tasks that system calls create in one behaviour
  MaxSent,      \* bound: kills and signals in one behaviour
  Calls         \* the system calls user tasks make

ASSUME ProcessAssumption ==
  /\ MaxTasks \in Nat /\ MaxTasks >= 2
  /\ MaxChildren \in Nat /\ PidMod \in Nat \ {0} /\ MaxCreated \in Nat
  /\ MaxSent \in Nat
  /\ Calls \subseteq {"fork", "execmod", "waitpid", "kill", "signal"}

VARIABLES
  state, taskCount, current,  \* the task table, as in Scheduler
  pid,                        \* tasks_[i].pid
  nextPid,                    \* nextPid_
  children,                   \* tasks_[i].children[0 .. childCount - 1]
  unblockOnExit,              \* tasks_[i].unblockOnExit
  pc, arg,                    \* where each task is in the kernel
  loaded,                     \* nextPid_ as the task has read it, or -1
  started, sent,              \* creations, and kills and signals, so far
  reaped,                     \* history: the pids waitpid has returned
  raced                       \* history: two creations have overlapped

vars == <<state, taskCount, current, pid, nextPid, children, unblockOnExit,
          pc, arg, loaded, started, sent, reaped, raced>>

Slots == 0 .. MaxTasks - 1
Idle == 0

S == INSTANCE TaskTable WITH
       priority <- [t \in Slots |-> IF t = Idle THEN 9 ELSE 4]

table == <<state, taskCount, current>>
family == <<pid, nextPid, children, unblockOnExit>>
log == <<started, sent, reaped, raced>>
place == <<pc, arg, loaded>>

\* Where a task is between findSlot and the last use of the new slot's pid.
Creation ==
  {"fork_fresh", "fork_count", "fork_reset", "fork_ready", "fork_load", "fork_store",
   "fork_link", "exec_fresh", "exec_count", "exec_reset", "exec_ready", "exec_load",
   "exec_store"}

\* The kernel is at `at' in the current task, which is not halted.
At(at) == state[current] # "BLOCKED" /\ pc[current] = at

Goto(at) == pc' = [pc EXCEPT ![current] = at] /\ UNCHANGED <<arg, loaded>>

\* Back to user code; what is on the kernel stacks of the tasks in `done' is of
\* no use any more.
Leave(done) ==
  /\ pc' = [t \in Slots |-> IF t \in done THEN "user" ELSE pc[t]]
  /\ arg' = [t \in Slots |-> IF t \in done THEN -1 ELSE arg[t]]
  /\ loaded' = [t \in Slots |-> IF t \in done THEN -1 ELSE loaded[t]]
Return == Leave({current})

\* At(at) for a system call that user code makes.
Call(name) == name \in Calls /\ current # Idle /\ At("user")

\* One more kill or signal.
Send == sent < MaxSent /\ sent' = sent + 1

Init ==
  /\ state = [t \in Slots |-> IF t = Idle THEN "RUNNING" ELSE "DEAD"]
  /\ taskCount = 1
  /\ current = Idle
  /\ pid = [t \in Slots |-> 0]
  /\ nextPid = 0
  /\ children = [t \in Slots |-> << >>]
  /\ unblockOnExit = [t \in Slots |-> -1]
  /\ pc = [t \in Slots |-> IF t = Idle THEN "boot" ELSE "user"]
  /\ arg = [t \in Slots |-> -1]
  /\ loaded = [t \in Slots |-> -1]
  /\ started = 0
  /\ sent = 0
  /\ reaped = {}
  /\ raced = FALSE

\* findNext, which panics when taskCount_ is out of range.
FindNext(next, st) == taskCount <= MaxTasks /\ S!FindNext(next, st)

\* The timer interrupt at the end of a quantum.  Idle keeps the CPU when there
\* is nobody else.
Tick ==
  /\ pc[Idle] # "boot"
  /\ \E next \in Slots :
       /\ FindNext(next, state)
       /\ state' = IF next = current THEN state ELSE S!Switched(state, next)
       /\ current' = next
  /\ UNCHANGED <<taskCount, family, place, log>>

-----------------------------------------------------------------------------
(* Creation: fork, and addUserElfTask for SYS_EXECMOD.                     *)

\* findSlot looks for a DEAD slot, which it does not reserve, and otherwise for
\* room for a fresh one ...
FindSlot(fresh, reset) ==
  /\ started < MaxCreated
  /\ \E s \in Slots :
       /\ S!FindSlot(s)
       /\ IF s = taskCount
            THEN UNCHANGED arg /\ pc' = [pc EXCEPT ![current] = fresh]
            ELSE arg' = [arg EXCEPT ![current] = s] /\ pc' = [pc EXCEPT ![current] = reset]
  /\ started' = started + 1
  /\ raced' = (raced \/ \E t \in Slots : pc[t] \in Creation)
  /\ UNCHANGED <<table, family, loaded, sent, reaped>>

Fork == Call("fork") /\ FindSlot("fork_fresh", "fork_reset")

Execmod == Call("execmod") /\ FindSlot("exec_fresh", "exec_reset")

\* ... takes the next one, n = volatileLoad(taskCount_) ...
LoadCount ==
  /\ \/ At("fork_fresh") /\ pc' = [pc EXCEPT ![current] = "fork_count"]
     \/ At("exec_fresh") /\ pc' = [pc EXCEPT ![current] = "exec_count"]
  /\ arg' = [arg EXCEPT ![current] = taskCount]
  /\ UNCHANGED <<table, family, loaded, log>>

\* ... and counts it, volatileStore(taskCount_, n + 1).
StoreCount ==
  /\ \/ At("fork_count") /\ Goto("fork_reset")
     \/ At("exec_count") /\ Goto("exec_reset")
  /\ taskCount' = arg[current] + 1
  /\ UNCHANGED <<state, current, family, log>>

\* `child = {}' and `t = {}': the slot is wiped, whatever it holds by now.  What
\* a write behind the table does is not modelled.
Wipe(s) ==
  /\ s \in Slots
  /\ state' = [state EXCEPT ![s] = "DEAD"]
  /\ pid' = [pid EXCEPT ![s] = 0]
  /\ children' = [children EXCEPT ![s] = << >>]
  /\ unblockOnExit' = [unblockOnExit EXCEPT ![s] = -1]

\* A stack, a page directory or the ELF image may be refused, and the call
\* returns -1; otherwise its long part begins.
Reset ==
  /\ \/ At("fork_reset") /\ Goto("fork_ready")
     \/ At("exec_reset") /\ Goto("exec_ready")
     \/ (At("fork_reset") \/ At("exec_reset")) /\ Return
  /\ Wipe(arg[current])
  /\ UNCHANGED <<taskCount, current, nextPid, log>>

\* The new task becomes READY before it has a pid.  Its esp is that of a new
\* kernel stack, from which it returns to user code, wherever the slot's last
\* owner was.
Ready ==
  LET s == arg[current]
      Becomes(at) ==
        /\ pc' = [pc EXCEPT ![current] = at, ![s] = "user"]
        /\ arg' = [arg EXCEPT ![s] = -1]
        /\ loaded' = [loaded EXCEPT ![s] = -1]
  IN /\ \/ At("fork_ready") /\ Becomes("fork_load")
        \/ At("exec_ready") /\ Becomes("exec_load")
     /\ state' = [state EXCEPT ![s] = "READY"]
     /\ UNCHANGED <<taskCount, current, family, log>>

\* `pid = nextPid_++' reads nextPid_ ...
LoadPid ==
  /\ \/ At("fork_load") /\ pc' = [pc EXCEPT ![current] = "fork_store"]
     \/ At("exec_load") /\ pc' = [pc EXCEPT ![current] = "exec_store"]
  /\ loaded' = [loaded EXCEPT ![current] = nextPid]
  /\ UNCHANGED <<table, family, arg, log>>

\* ... and writes p to the pid of slot s and p + 1 back.
AssignPid(s, p) ==
  /\ pid' = [pid EXCEPT ![s] = p]
  /\ nextPid' = (p + 1) % PidMod

\* The new task starts with an empty list.
StorePid ==
  /\ \/ At("fork_store") /\ pc' = [pc EXCEPT ![current] = "fork_link"]
     \/ At("exec_store") /\ pc' = [pc EXCEPT ![current] = "exec_mark"]
  /\ AssignPid(arg[current], loaded[current])
  /\ children' = [children EXCEPT ![arg[current]] = << >>]
  /\ loaded' = [loaded EXCEPT ![current] = -1]
  /\ UNCHANGED <<table, unblockOnExit, arg, log>>

\* The rest of fork: what is the child's pid by now goes to the list of the
\* parent, if there is a place left.
ForkLink ==
  /\ At("fork_link")
  /\ children' = IF Len(children[current]) < MaxChildren
                   THEN [children EXCEPT ![current] = Append(@, pid[arg[current]])]
                   ELSE children
  /\ Return
  /\ UNCHANGED <<table, pid, nextPid, unblockOnExit, log>>

\* kmain starts the shell, with interrupts still off, and becomes idle.  The
\* taskbar, a LOW task that makes no system call, counts as idle here.
Boot ==
  /\ pc[Idle] = "boot"
  /\ taskCount' = 2
  /\ state' = [state EXCEPT ![1] = "READY"]
  /\ AssignPid(1, nextPid)
  /\ Goto("idle")
  /\ UNCHANGED <<current, children, unblockOnExit, log>>

\* setUnblockOnExit(tid, callerId).
ExecMark ==
  /\ At("exec_mark")
  /\ unblockOnExit' = [unblockOnExit EXCEPT ![arg[current]] = current]
  /\ Goto("exec_block")
  /\ UNCHANGED <<table, pid, nextPid, children, log>>

-----------------------------------------------------------------------------
(* waitpid.                                                                *)

\* Mutant: any slot with the pid will do.
IsDeadChild_Any(t, i) == \E s \in 0 .. taskCount - 1 : pid[s] = children[t][i]

\* reapDeadChild looks for the first child in the list whose pid some DEAD
\* slot still carries.
IsDeadChild(t, i) ==
  \E s \in 0 .. taskCount - 1 : pid[s] = children[t][i] /\ state[s] = "DEAD"
HasDeadChild(t) == \E i \in 1 .. Len(children[t]) : IsDeadChild(t, i)

\* Mutant: the reaped child stays in the list.
Reap_KeepsEntry ==
  \E i \in 1 .. Len(children[current]) :
    /\ IsDeadChild(current, i)
    /\ children' = children
    /\ reaped' = reaped \cup {children[current][i]}

\* The last entry of the list takes the place of the reaped one.
Reap ==
  \E i \in 1 .. Len(children[current]) :
    LET list == children[current]
        n == Len(list)
    IN /\ IsDeadChild(current, i)
       /\ \A j \in 1 .. i - 1 : ~IsDeadChild(current, j)
       /\ children' = [children EXCEPT ![current] =
                         SubSeq([list EXCEPT ![i] = list[n]], 1, n - 1)]
       /\ reaped' = reaped \cup {list[i]}

\* The first attempt: a child that has exited, or a wait.  Without children
\* the call returns -1 at once.
Waitpid ==
  /\ Call("waitpid")
  /\ \/ Reap /\ UNCHANGED place
     \/ /\ ~HasDeadChild(current) /\ children[current] # << >>
        /\ Goto("wait_mark")
        /\ UNCHANGED <<children, reaped>>
  /\ UNCHANGED <<table, pid, nextPid, unblockOnExit, started, sent, raced>>

\* Every live child is told whom to wake.
WaitMark ==
  LET mine == {s \in 0 .. taskCount - 1 :
                 /\ state[s] # "DEAD"
                 /\ \E i \in 1 .. Len(children[current]) : pid[s] = children[current][i]}
  IN /\ At("wait_mark")
     /\ unblockOnExit' = [s \in Slots |-> IF s \in mine THEN current
                                          ELSE unblockOnExit[s]]
     /\ Goto("wait_block")
     /\ UNCHANGED <<table, pid, nextPid, children, log>>

\* blockCurrentTaskAndYield, for waitpid and for SYS_EXECMOD.
Block ==
  /\ \/ At("wait_block") /\ Goto("wait_halt")
     \/ At("exec_block") /\ Goto("exec_halt")
  /\ state' = [state EXCEPT ![current] = "BLOCKED"]
  /\ UNCHANGED <<taskCount, current, family, log>>

\* Woken, waitpid tries once more and returns what it finds, or -1.
WaitReturn ==
  /\ At("wait_halt")
  /\ \/ Reap
     \/ ~HasDeadChild(current) /\ UNCHANGED <<children, reaped>>
  /\ Return
  /\ UNCHANGED <<table, pid, nextPid, unblockOnExit, started, sent, raced>>

ExecReturn ==
  /\ At("exec_halt")
  /\ Return
  /\ UNCHANGED <<table, family, log>>

-----------------------------------------------------------------------------
(* The end of a task.                                                      *)

\* unblockTask(w) on states st.
Unblock(st, w) ==
  IF w \in 0 .. taskCount - 1 /\ st[w] = "BLOCKED"
    THEN [st EXCEPT ![w] = "READY"] ELSE st

\* exitCurrentTask, all of it with interrupts off.
ExitCurrentTask ==
  LET st == [state EXCEPT ![current] = "DEAD"]
  IN /\ \E next \in Slots :
          /\ FindNext(next, st)
          /\ current' = next
          /\ state' = Unblock(S!Switched(st, next), unblockOnExit[current])
     /\ unblockOnExit' = [unblockOnExit EXCEPT ![current] = -1]
     /\ Return
     /\ UNCHANGED <<taskCount, pid, nextPid, children, reaped, started, raced>>

\* SYS_EXIT.
Exit == current # Idle /\ At("user") /\ ExitCurrentTask /\ UNCHANGED sent

\* A pending signal without a handler ends the current task at the next tick,
\* in the kernel as well as in user code.  A task may signal itself, so there
\* is no place in a system call where this cannot happen.
SignalExit == "signal" \in Calls /\ current # Idle /\ ExitCurrentTask /\ Send

\* sendSignal wakes a BLOCKED target.
SignalWake ==
  /\ Call("signal")
  /\ \E t \in Slots \ {Idle, current} :
       t < taskCount /\ state[t] = "BLOCKED" /\ state' = Unblock(state, t)
  /\ Send
  /\ UNCHANGED <<taskCount, current, family, place, started, reaped, raced>>

\* Mutant: killTask does not refuse the caller.
KillCall_Self(t) ==
  /\ state[t] # "DEAD"
  /\ arg' = [arg EXCEPT ![current] = t]
  /\ pc' = [pc EXCEPT ![current] = "kill_wake"]
  /\ Send
  /\ UNCHANGED <<table, family, loaded, started, reaped, raced>>

\* killTask(t) is about to be called.
KillCall(t) ==
  /\ t # current /\ state[t] # "DEAD"
  /\ arg' = [arg EXCEPT ![current] = t]
  /\ pc' = [pc EXCEPT ![current] = "kill_wake"]
  /\ Send
  /\ UNCHANGED <<table, family, loaded, started, reaped, raced>>

\* sendSignal(SIGKILL) takes the first live task that has the pid; the caller
\* itself would exit (Exit) ...
KillFind ==
  /\ Call("kill")
  /\ \E t \in 1 .. taskCount - 1 :
       /\ \A u \in 1 .. t - 1 : state[u] # "DEAD" => pid[u] # pid[t]
       /\ KillCall(t)

\* Mutant: `idle' is killable.
TaskctlKill_Idle == Call("kill") /\ \E t \in 0 .. taskCount - 1 : KillCall(t)

\* ... SYS_TASKCTL takes the slot that user code names ...
TaskctlKill == Call("kill") /\ \E t \in 1 .. taskCount - 1 : KillCall(t)

\* ... and killTask, which looks again, unblocks whoever waits for it ...
KillWake ==
  LET id == arg[current]
  IN /\ At("kill_wake")
     /\ IF state[id] = "DEAD"
          THEN Return /\ UNCHANGED <<state, unblockOnExit>>
          ELSE /\ unblockOnExit' = [unblockOnExit EXCEPT ![id] = -1]
               /\ state' = Unblock(state, unblockOnExit[id])
               /\ Goto("kill_mark")
     /\ UNCHANGED <<taskCount, current, pid, nextPid, children, log>>

\* ... and then marks the task DEAD.
KillMark ==
  /\ At("kill_mark")
  /\ state' = [state EXCEPT ![arg[current]] = "DEAD"]
  /\ Leave({current, arg[current]})
  /\ UNCHANGED <<taskCount, current, family, log>>

Next ==
  \/ Boot \/ Tick
  \/ Fork \/ Execmod \/ LoadCount \/ StoreCount \/ Reset \/ Ready
  \/ LoadPid \/ StorePid \/ ForkLink \/ ExecMark
  \/ Waitpid \/ WaitMark \/ Block \/ WaitReturn \/ ExecReturn
  \/ Exit \/ SignalExit \/ SignalWake
  \/ KillFind \/ TaskctlKill \/ KillWake \/ KillMark

Spec == Init /\ [][Next]_vars

-----------------------------------------------------------------------------
(* What holds whatever is preempted where.                                 *)

Live(t) == state[t] # "DEAD"

\* Types.  findSlot tests taskCount_ before it loads it, so a race for the last
\* slot takes it past MAX_TASKS, by one: then findNext panics.
TypeOK ==
  /\ state \in [Slots -> {"DEAD", "READY", "RUNNING", "BLOCKED"}]
  /\ taskCount \in 1 .. MaxTasks + 1
  /\ current \in Slots /\ current < taskCount
  /\ pid \in [Slots -> 0 .. PidMod - 1]
  /\ nextPid \in 0 .. PidMod - 1
  /\ \A t \in Slots : Len(children[t]) <= MaxChildren
  /\ unblockOnExit \in [Slots -> Slots \cup {-1}]
  /\ arg \in [Slots -> -1 .. MaxTasks]
  /\ loaded \in [Slots -> -1 .. PidMod - 1]
  /\ started \in 0 .. MaxCreated /\ sent \in 0 .. MaxSent

\* However system calls and ticks interleave, and although fork and killTask
\* change the task table with interrupts on, findNext never returns a task
\* that switchTo would panic about.
NeverPanics == taskCount <= MaxTasks => S!NextIsReady

\* A half-made, wiped or killed slot, and a taskCount_ that goes back because
\* of a lost store, never take the CPU away from the current task: nobody else
\* is RUNNING, it is not DEAD, and its slot is counted.
OneRunner == TypeOK /\ S!OnlyCurrentRuns

\* As long as no two creations have overlapped, a pid is in the list of one
\* live parent at most, and in none once waitpid has returned it: no child is
\* reaped twice, whatever exits, is killed or takes over a slot meanwhile.
ReapedOnce ==
  ~raced =>
    \A t \in Slots : Live(t) =>
      \A i \in 1 .. Len(children[t]) :
        /\ children[t][i] \notin reaped
        /\ \A u \in Slots : Live(u) =>
             \A j \in 1 .. Len(children[u]) :
               children[u][j] = children[t][i] => u = t /\ i = j

\* As long as no two creations have overlapped, waitpid never returns the pid of
\* a task that is still alive.
ReapedIsOver ==
  [][~raced => \A c \in reaped' \ reaped : \A t \in Slots : Live(t) => pid[t] # c]_vars

-----------------------------------------------------------------------------
(* What the documents say of processes, and the code does not do.          *)

\* SYS_EXIT "unblocks its parent if waiting" (NOTES.md:871): no task stays
\* blocked in waitpid with a child that it could reap.
NoLostWakeup ==
  \A t \in Slots : state[t] = "BLOCKED" /\ pc[t] = "wait_halt" => ~HasDeadChild(t)

\* findNext panics about a "corrupted taskCount" (Scheduler.cc:657) when
\* taskCount_ is out of the range that every loop over tasks_ relies on.
TaskCountInRange == taskCount <= MaxTasks
=============================================================================
