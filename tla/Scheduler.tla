----------------------------- MODULE Scheduler -----------------------------
(***************************************************************************)
(* The core of the Doors scheduler (kernel/kernel/Scheduler.cc with the    *)
(* exit and kill paths of SchedulerProcess.cc): the task table, the        *)
(* tickless one-shot timer, the sorted sleep queue, priority round robin   *)
(* and the switch from one task to the next.                               *)
(*                                                                         *)
(* Each action is one operation that the kernel runs with interrupts off:  *)
(* the timer ISR, a call under InterruptGuard, or a call from an ISR.  The *)
(* system calls that can be preempted half way are built from these        *)
(* operations in module Process.                                           *)
(*                                                                         *)
(* Time.  Between two firings of the PIT pitTicks is frozen, and the code  *)
(* only subtracts and compares times.  The model therefore keeps every     *)
(* time relative to pitTicks: `due' is deadline - pitTicks (0 once it has  *)
(* passed), `quantumElapsed' is pitTicks - quantumStartMs_, `pitRemaining' *)
(* is pitDeadlineMs - pitTicks.  A firing of the PIT shifts all of them.   *)
(***************************************************************************)
EXTENDS TaskTable, Sequences

CONSTANTS
  Quantum,     \* QUANTUM_MS (20)
  PitMaxMs,    \* PIT_MAX_MS, the longest one-shot delay (54)
  U32,         \* 2^32: millisecond counts are truncated to uint32_t
  Priorities,  \* the priorities tasks are created with
  SleepMs      \* the arguments sleep() is called with

ASSUME QuantumAssumption == Quantum \in Nat /\ Quantum >= 1
ASSUME PitAssumption == PitMaxMs \in Nat /\ PitMaxMs >= 1
ASSUME U32Assumption == U32 \in Nat /\ U32 > PitMaxMs
ASSUME PrioritiesAssumption == Priorities \subseteq 0..8
ASSUME SleepMsAssumption == SleepMs \subseteq Nat

VARIABLES
  sleepQueue,      \* sleepQueue_[0 .. sleepCount_ - 1]
  quantumElapsed,  \* pitTicks - quantumStartMs_
  pitRemaining     \* pitDeadlineMs - pitTicks

vars == <<state, priority, taskCount, current, sleepQueue, quantumElapsed,
          pitRemaining>>

Minimum(a, b) == IF a <= b THEN a ELSE b
Maximum(a, b) == IF a >= b THEN a ELSE b

-----------------------------------------------------------------------------
(* The timer.                                                              *)

\* Pit::programForMs clamps its argument to [1, PIT_MAX_MS].
ProgramForMs(ms) == Minimum(Maximum(ms, 1), PitMaxMs)

\* The delay programNextTick arms for the sleep queue q when the running
\* task has used e ms of its quantum.
ProgramNextTick(q, e) ==
  LET sleepMs == IF q = << >> THEN PitMaxMs
                 ELSE IF q[1].due > 0 THEN q[1].due % U32 ELSE 1
      quantumMs == IF e < Quantum THEN Quantum - e ELSE sleepMs
  IN ProgramForMs(Minimum(sleepMs, quantumMs))

-----------------------------------------------------------------------------
(* The sleep queue.                                                        *)

\* The queue as it looks ms later.  How long ago a deadline has passed is
\* nowhere looked at.
Shift(q, ms) ==
  [i \in 1 .. Len(q) |-> [due |-> Maximum(q[i].due - ms, 0), task |-> q[i].task]]

\* Mutant: the test for the deadline is the wrong way round.
PopsExpired_Inverted(q, n) ==
  /\ \A i \in 1 .. n : q[i].due > 0
  /\ n < Len(q) => q[n + 1].due <= 0

\* tick pops heads while their deadline has passed: it pops n of them.
PopsExpired(q, n) ==
  /\ \A i \in 1 .. n : q[i].due <= 0
  /\ n < Len(q) => q[n + 1].due > 0

\* sleep() walks back from the end over the later deadlines, and inserts
\* after the first p entries.
InsertsAfter(q, ms, p) ==
  /\ p > 0 => q[p].due <= ms
  /\ \A i \in p + 1 .. Len(q) : q[i].due > ms

Insert(q, p, entry) ==
  [i \in 1 .. Len(q) + 1 |->
     IF i <= p THEN q[i] ELSE IF i = p + 1 THEN entry ELSE q[i - 1]]

\* Mutant: the entry of a task that is no longer asleep stays behind.
RemoveFromSleepQueue_Forgets(q, id) == q

\* removeFromSleepQueue drops the first entry of the task, if there is one.
RemoveFromSleepQueue(q, id) ==
  LET hits == {i \in 1 .. Len(q) : q[i].task = id}
      hit == CHOOSE i \in hits : \A j \in hits : i <= j
  IN IF hits = {} THEN q
     ELSE [i \in 1 .. Len(q) - 1 |-> IF i < hit THEN q[i] ELSE q[i + 1]]

-----------------------------------------------------------------------------
(* The switch.                                                             *)

\* Mutant: the timer is left as it is.
SwitchTo_NoProgram(next, st, q) ==
  /\ current' = next
  /\ state' = Switched(st, next)
  /\ quantumElapsed' = 0
  /\ pitRemaining' = pitRemaining

\* switchTo(next) from states st and sleep queue q: the new task starts a
\* fresh quantum.
SwitchTo(next, st, q) ==
  /\ current' = next
  /\ state' = Switched(st, next)
  /\ quantumElapsed' = 0
  /\ pitRemaining' = ProgramNextTick(q, 0)

-----------------------------------------------------------------------------
(* The operations.                                                         *)

\* Slot 0 runs kmain and then idles; it is READY or RUNNING, never asleep.
Init ==
  /\ state = [t \in Slots |-> IF t = 0 THEN "RUNNING" ELSE "DEAD"]
  /\ priority = [t \in Slots |-> IF t = 0 THEN PriorityIdle ELSE 0]
  /\ taskCount = 1
  /\ current = 0
  /\ sleepQueue = << >>
  /\ quantumElapsed = 0
  /\ pitRemaining = 1

\* The current task executes code; a BLOCKED one only halts in its loop.
Executes == state[current] # "BLOCKED"

\* The PIT fires: Pit::tick moves the clock to the deadline, and
\* Scheduler::tick pops the n expired sleepers.
Woken(q, n) ==
  [t \in Slots |-> IF state[t] = "BLOCKED" /\ \E i \in 1 .. n : q[i].task = t
                     THEN "READY" ELSE state[t]]

\* tick with the quantum not used up: the current task keeps running.
TickKeep(q, n) ==
  LET rest == SubSeq(q, n + 1, Len(q))
      e == quantumElapsed + pitRemaining
  IN /\ e < Quantum
     /\ sleepQueue' = rest
     /\ state' = Woken(q, n)
     /\ quantumElapsed' = e
     /\ pitRemaining' = ProgramNextTick(rest, e)
     /\ UNCHANGED <<priority, taskCount, current>>

\* tick at the end of the quantum with nobody else to run.
TickRenew(q, n) ==
  LET rest == SubSeq(q, n + 1, Len(q))
      st == Woken(q, n)
  IN /\ quantumElapsed + pitRemaining >= Quantum
     /\ taskCount <= 1 \/ FindNext(current, st)
     /\ sleepQueue' = rest
     /\ state' = st
     /\ quantumElapsed' = 0
     /\ pitRemaining' = ProgramNextTick(rest, 0)
     /\ UNCHANGED <<priority, taskCount, current>>

\* tick at the end of the quantum: the next task takes over.
TickSwitch(q, n) ==
  LET rest == SubSeq(q, n + 1, Len(q))
      st == Woken(q, n)
  IN /\ quantumElapsed + pitRemaining >= Quantum
     /\ taskCount > 1
     /\ \E next \in Slots \ {current} :
          FindNext(next, st) /\ SwitchTo(next, st, rest)
     /\ sleepQueue' = rest
     /\ UNCHANGED <<priority, taskCount>>

Tick ==
  LET q == Shift(sleepQueue, pitRemaining)
  IN \E n \in 0 .. Len(q) :
       /\ PopsExpired(q, n)
       /\ TickKeep(q, n) \/ TickRenew(q, n) \/ TickSwitch(q, n)

\* What unblockTask(id) does to states st, and to the timer armed to pit,
\* when task c is current.
Unblocked(st, id) == [st EXCEPT ![id] = "READY"]
UnblockPit(pit, id, c) ==
  IF priority[id] < priority[c] THEN ProgramForMs(1) ELSE pit

\* unblockTask from a semaphore, an interrupt handler or another task.
UnblockTask(id) ==
  /\ id < taskCount
  /\ state[id] = "BLOCKED"
  /\ state' = Unblocked(state, id)
  /\ sleepQueue' = RemoveFromSleepQueue(sleepQueue, id)
  /\ pitRemaining' = UnblockPit(pitRemaining, id, current)
  /\ UNCHANGED <<priority, taskCount, current, quantumElapsed>>

\* sendSignal wakes a BLOCKED target but leaves the timer alone.
SendSignalWake(id) ==
  /\ Executes
  /\ current # 0
  /\ id # 0 /\ id < taskCount
  /\ state[id] = "BLOCKED"
  /\ state' = Unblocked(state, id)
  /\ sleepQueue' = RemoveFromSleepQueue(sleepQueue, id)
  /\ UNCHANGED <<priority, taskCount, current, quantumElapsed, pitRemaining>>

\* addTaskImpl with a stack: slot s becomes READY.
AddTask(s, p) ==
  /\ Executes
  /\ FindSlot(s)
  /\ state' = [state EXCEPT ![s] = "READY"]
  /\ priority' = [priority EXCEPT ![s] = p]
  /\ taskCount' = Maximum(taskCount, s + 1)
  /\ UNCHANGED <<current, sleepQueue, quantumElapsed, pitRemaining>>

\* addTaskImpl that gets no stack from the heap: the slot stays DEAD, but it
\* is counted.
AddTaskNoStack(s, p) ==
  /\ Executes
  /\ FindSlot(s)
  /\ priority' = [priority EXCEPT ![s] = p]
  /\ taskCount' = Maximum(taskCount, s + 1)
  /\ UNCHANGED <<state, current, sleepQueue, quantumElapsed, pitRemaining>>

\* addTaskAndBlock: the creator waits for the new NORMAL task.
AddTaskAndBlock(s) ==
  /\ Executes
  /\ current # 0
  /\ FindSlot(s)
  /\ state' = [state EXCEPT ![s] = "READY", ![current] = "BLOCKED"]
  /\ priority' = [priority EXCEPT ![s] = 4]
  /\ taskCount' = Maximum(taskCount, s + 1)
  /\ UNCHANGED <<current, sleepQueue, quantumElapsed, pitRemaining>>

\* blockCurrentTask and blockCurrentTaskAndYield.  The idle task runs kmain's
\* halt loop only, so it never blocks.
BlockCurrentTask ==
  /\ Executes
  /\ current # 0
  /\ state' = [state EXCEPT ![current] = "BLOCKED"]
  /\ UNCHANGED <<priority, taskCount, current, sleepQueue, quantumElapsed,
                 pitRemaining>>

\* sleep(ms) up to its halt loop.
Sleep(ms) ==
  /\ Executes
  /\ current # 0
  /\ state' = [state EXCEPT ![current] = "BLOCKED"]
  /\ \E p \in 0 .. Len(sleepQueue) :
       /\ InsertsAfter(sleepQueue, ms, p)
       /\ sleepQueue' = Insert(sleepQueue, p, [due |-> ms, task |-> current])
  /\ pitRemaining' = IF ms < pitRemaining THEN ProgramForMs(ms % U32)
                     ELSE pitRemaining
  /\ UNCHANGED <<priority, taskCount, current, quantumElapsed>>

\* exitCurrentTask once the sleep queue is q; w is the task whose id the
\* exiting one holds in unblockOnExit, or -1.  It is unblocked after the
\* switch, so its priority is compared with that of the new current task.
ExitTo(q, w) ==
  LET st == [state EXCEPT ![current] = "DEAD"]
      rest == RemoveFromSleepQueue(q, current)
  IN /\ current # 0
     /\ UNCHANGED <<priority, taskCount>>
     /\ \E next \in Slots :
          /\ FindNext(next, st)
          /\ current' = next
          /\ quantumElapsed' = 0
          /\ LET after == Switched(st, next)
                 pit == ProgramNextTick(rest, 0)
             IN IF w >= 0 /\ w < taskCount /\ after[w] = "BLOCKED"
                  THEN /\ state' = Unblocked(after, w)
                       /\ sleepQueue' = RemoveFromSleepQueue(rest, w)
                       /\ pitRemaining' = UnblockPit(pit, w, next)
                  ELSE /\ state' = after
                       /\ sleepQueue' = rest
                       /\ pitRemaining' = pit

\* SYS_EXIT, the end of a task's entry function, a fatal fault, a signal
\* without a handler at the return from a system call.
ExitCurrentTask(w) == Executes /\ ExitTo(sleepQueue, w)

\* tick finds a pending signal without a handler: deliverPendingSignals
\* leaves through exitCurrentTask, and the expired sleepers are not popped.
TickExit(w) == ExitTo(Shift(sleepQueue, pitRemaining), w)

\* killTask(id) from the current task; w is id's unblockOnExit, or -1, and is
\* unblocked before id is marked DEAD.  The callers refuse the idle task.
KillTask(id, w) ==
  LET wakes == w >= 0 /\ w < taskCount /\ state[w] = "BLOCKED"
      q == IF wakes THEN RemoveFromSleepQueue(sleepQueue, w) ELSE sleepQueue
  IN /\ Executes
     /\ current # 0
     /\ id # 0 /\ id < taskCount /\ id # current
     /\ state[id] # "DEAD"
     /\ state' = [(IF wakes THEN Unblocked(state, w) ELSE state)
                    EXCEPT ![id] = "DEAD"]
     /\ sleepQueue' = RemoveFromSleepQueue(q, id)
     /\ pitRemaining' = IF wakes THEN UnblockPit(pitRemaining, w, current)
                        ELSE pitRemaining
     /\ UNCHANGED <<priority, taskCount, current, quantumElapsed>>

Next ==
  \/ Tick
  \/ \E w \in Slots \cup {-1} : ExitCurrentTask(w) \/ TickExit(w)
  \/ \E id \in Slots, w \in Slots \cup {-1} : KillTask(id, w)
  \/ \E id \in Slots : UnblockTask(id) \/ SendSignalWake(id)
  \/ \E s \in Slots, p \in Priorities : AddTask(s, p) \/ AddTaskNoStack(s, p)
  \/ \E s \in Slots : AddTaskAndBlock(s)
  \/ BlockCurrentTask
  \/ \E ms \in SleepMs : Sleep(ms)

Spec == Init /\ [][Next]_vars

-----------------------------------------------------------------------------
(* findNext as the loop it is.  FindNext defines its result by what the    *)
(* loop looks for; here the loop is run.                                   *)

\* <bestIdx, bestPriority> after i rounds.
Scan[i \in 0 .. MaxTasks - 1] ==
  IF i = 0 THEN [idx |-> -1, prio |-> PriorityIdle + 1]
  ELSE LET best == Scan[i - 1]
           idx == (current + i) % taskCount
       IN IF best.prio # 0 /\ state[idx] = "READY" /\ priority[idx] < best.prio
            THEN [idx |-> idx, prio |-> priority[idx]] ELSE best

\* Mutant: one slot short.
FindNextLoop_Short == IF Scan[taskCount - 2].idx >= 0 THEN Scan[taskCount - 2].idx ELSE 0

FindNextLoop == IF Scan[taskCount - 1].idx >= 0 THEN Scan[taskCount - 1].idx ELSE 0

-----------------------------------------------------------------------------
(* What the scheduler keeps true.                                          *)

\* Every variable has its type: the current task is a used slot, the timer is
\* armed within its range, and a quantum is never used up.
TypeOK ==
  /\ state \in [Slots -> States]
  /\ priority \in [Slots -> 0 .. PriorityIdle]
  /\ taskCount \in 1 .. MaxTasks
  /\ current \in 0 .. taskCount - 1
  /\ sleepQueue \in Seq([due : Nat, task : Slots])
  /\ quantumElapsed \in 0 .. Quantum - 1
  /\ pitRemaining \in 1 .. PitMaxMs

\* The sleep queue holds each sleeper once, and only BLOCKED tasks: whatever
\* wakes, kills or ends a sleeper also takes its entry out, so no entry can
\* wake a later sleep of the task, or the next owner of its slot.
SleepersBlocked ==
  /\ \A i \in 1 .. Len(sleepQueue) :
       sleepQueue[i].task # 0 /\ state[sleepQueue[i].task] = "BLOCKED"
  /\ \A i, j \in 1 .. Len(sleepQueue) :
       sleepQueue[i].task = sleepQueue[j].task => i = j

\* The array sleepQueue_ never overflows: idle never sleeps, so one of its
\* MAX_SLEEPERS = MAX_TASKS entries is free whenever sleep() inserts.
SleepQueueFits == Len(sleepQueue) < MaxTasks

\* The one-shot timer is never armed too late: it fires no later than the
\* first deadline (1 ms after it if it has passed), and by the end of the
\* quantum, whatever switch, exit, sleep or wake-up came last.
TimerCovers ==
  /\ \A i \in 1 .. Len(sleepQueue) :
       pitRemaining <= Maximum(1, sleepQueue[i].due)
  /\ pitRemaining <= Quantum - quantumElapsed

\* A tick that gets as far as the sleep queue leaves no expired sleeper in it,
\* although it looks at the head only: the queue stays sorted.
TickWakesAllExpired ==
  [][Tick => \A i \in 1 .. Len(sleepQueue') : sleepQueue'[i].due > 0]_vars

\* When the CPU passes from a task that lives on to another one, no READY task
\* had a better priority ("findNext() selects the highest-priority READY
\* task", NOTES.md:531).
BestPriorityNext ==
  [][current' # current /\ state'[current] # "DEAD" =>
       \A t \in Slots \ {current} :
         state'[t] = "READY" => priority[current'] <= priority[t]]_vars

\* The scan of findNext, with its wrap-around, its strict comparison and its
\* early exit at PRIORITY_HIGH, returns the READY task that a round robin over
\* the best priority is due to run, and idle when there is none.
ScanIsRoundRobin ==
  taskCount > 1 => \A n \in Slots : FindNext(n, state) <=> n = FindNextLoop

-----------------------------------------------------------------------------
(* Liveness.  The PIT is always armed (TimerCovers), and the code that runs  *)
(* with interrupts off is finite, so the timer interrupt keeps coming.  Not  *)
(* every one of them may end a task, so it is Tick that is weakly fair.      *)

FairSpec == Spec /\ WF_vars(Tick)

\* Round robin among tasks of one priority starves no one: a READY task gets
\* the CPU (or is killed) however the others exit, block, wake and are
\* created, unless tasks of better priority keep wanting it, who starve the
\* rest on purpose (findNext).
ReadyTaskRuns ==
  \A t \in Slots \ {0} :
    state[t] = "READY" ~>
      \/ state[t] # "READY"
      \/ \E u \in Slots : state[u] \in {"READY", "RUNNING"} /\ priority[u] < priority[t]

\* Whoever sleeps is woken, by the timer or by someone else.
SleeperWakes ==
  \A t \in Slots \ {0} :
    LET asleep == \E i \in 1 .. Len(sleepQueue) : sleepQueue[i].task = t
    IN asleep ~> ~asleep
=============================================================================
