----------------------------- MODULE Semaphore -----------------------------
(***************************************************************************)
(* The counting semaphore (kernel/kernel/Semaphore.cc) as the lock that    *)
(* Tty::lock and Tty::unlock make of it: a task that has returned from     *)
(* wait() is inside until it calls signal().                               *)
(*                                                                         *)
(* wait() and signal() run under InterruptGuard, so each is one step; a    *)
(* task that wait() blocks halts and goes on once it is READY again, for   *)
(* whatever reason.  signal() hands its unit to the waiter it wakes and    *)
(* does not touch count_.  A task is named by its slot, as in waiters_.    *)
(*                                                                         *)
(* SemSpec has the two operations only.  DisturbedSpec adds what the rest  *)
(* of the kernel does to tasks without a look at semaphores: sendSignal,   *)
(* killTask and the reuse of a slot.                                       *)
(***************************************************************************)
EXTENDS Integers, Sequences, FiniteSets

CONSTANTS
  Users,       \* the slots of the tasks that use the semaphore
  MaxWaiters,  \* MAX_WAITERS, the size of waiters_ (8, as MAX_TASKS)
  Units        \* initialCount: 1 for Tty::lock_

ASSUME UsersAssumption == IsFiniteSet(Users)
ASSUME WaitersAssumption == MaxWaiters \in Nat /\ Cardinality(Users) <= MaxWaiters
ASSUME UnitsAssumption == Units \in Nat \ {0}

VARIABLES
  count,    \* count_
  waiters,  \* waiters_[0 .. waitCount_ - 1]
  at,       \* where each task is
  panicked  \* wait() found waiters_ full

semVars == <<count, waiters, at, panicked>>

SemInit ==
  /\ count = Units
  /\ waiters = << >>
  /\ at = [t \in Users |-> "out"]
  /\ panicked = FALSE

\* wait() with a unit to take.
WaitTakes(t) ==
  /\ count > 0
  /\ count' = count - 1
  /\ at' = [at EXCEPT ![t] = "in"]
  /\ UNCHANGED <<waiters, panicked>>

\* Mutant: the task takes the place of the one that waits longest.
WaitBlocks_First(t) ==
  /\ count = 0 /\ Len(waiters) < MaxWaiters
  /\ waiters' = <<t>> \o waiters
  /\ at' = [at EXCEPT ![t] = "blocked"]
  /\ UNCHANGED <<count, panicked>>

\* Mutant: the task blocks before it is a waiter.
WaitBlocks_NotRegistered(t) ==
  /\ count = 0 /\ Len(waiters) < MaxWaiters
  /\ at' = [at EXCEPT ![t] = "blocked"]
  /\ UNCHANGED <<count, waiters, panicked>>

\* wait() without one: register, then block.
WaitBlocks(t) ==
  /\ count = 0 /\ Len(waiters) < MaxWaiters
  /\ waiters' = Append(waiters, t)
  /\ at' = [at EXCEPT ![t] = "blocked"]
  /\ UNCHANGED <<count, panicked>>

\* wait() with no room for another waiter.
WaitPanics(t) ==
  /\ count = 0 /\ Len(waiters) >= MaxWaiters
  /\ panicked' = TRUE
  /\ UNCHANGED <<count, waiters, at>>

Wait(t) == at[t] = "out" /\ (WaitTakes(t) \/ WaitBlocks(t) \/ WaitPanics(t))

\* The halt loop of wait() ends, and wait() returns.
Resume(t) ==
  /\ at[t] = "woken"
  /\ at' = [at EXCEPT ![t] = "in"]
  /\ UNCHANGED <<count, waiters, panicked>>

\* unblockTask(id) on places p; it does nothing to a task that is not BLOCKED.
Unblocked(p, id) ==
  IF p[id] = "blocked" THEN [p EXCEPT ![id] = "woken"] ELSE p

\* Mutant: the unit is both handed over and counted.
Signal_Counts(t) ==
  /\ at[t] = "in"
  /\ count' = count + 1
  /\ LET out == [at EXCEPT ![t] = "out"]
     IN IF waiters # << >>
          THEN waiters' = Tail(waiters) /\ at' = Unblocked(out, Head(waiters))
          ELSE waiters' = waiters /\ at' = out
  /\ UNCHANGED panicked

\* signal(): the longest-waiting task gets the unit.
Signal(t) ==
  /\ at[t] = "in"
  /\ LET out == [at EXCEPT ![t] = "out"]
     IN IF waiters # << >>
          THEN /\ waiters' = Tail(waiters)
               /\ at' = Unblocked(out, Head(waiters))
               /\ UNCHANGED count
          ELSE /\ count' = count + 1
               /\ at' = out
               /\ UNCHANGED waiters
  /\ UNCHANGED panicked

SemNext == ~panicked /\ \E t \in Users : Wait(t) \/ Resume(t) \/ Signal(t)

SemSpec == SemInit /\ [][SemNext]_semVars

\* A task inside leaves, and a task that is READY again gets the CPU: module
\* Scheduler's ReadyTaskRuns, for tasks of one priority.
FairSpec == SemSpec /\ \A t \in Users : WF_semVars(Resume(t)) /\ WF_semVars(Signal(t))

-----------------------------------------------------------------------------
(* The rest of the kernel.                                                 *)

\* sendSignal makes a BLOCKED task READY.
SendSignal(t) ==
  /\ at[t] = "blocked"
  /\ at' = Unblocked(at, t)
  /\ UNCHANGED <<count, waiters, panicked>>

\* killTask, or the end of the task.
Kill(t) ==
  /\ at[t] # "dead"
  /\ at' = [at EXCEPT ![t] = "dead"]
  /\ UNCHANGED <<count, waiters, panicked>>

\* The slot gets a new owner.
Reuse(t) ==
  /\ at[t] = "dead"
  /\ at' = [at EXCEPT ![t] = "out"]
  /\ UNCHANGED <<count, waiters, panicked>>

DisturbedNext ==
  \/ SemNext
  \/ ~panicked /\ \E t \in Users : SendSignal(t) \/ Kill(t) \/ Reuse(t)

DisturbedSpec == SemInit /\ [][DisturbedNext]_semVars

-----------------------------------------------------------------------------
(* What the semaphore promises.                                            *)

\* Types.  There are never more units to take than there were at the start.
SemTypeOK ==
  /\ count \in 0 .. Units
  /\ waiters \in Seq(Users)
  /\ at \in [Users -> {"out", "blocked", "woken", "in", "dead"}]
  /\ panicked \in BOOLEAN

\* The tasks that own a unit.
Holders == {t \in Users : at[t] \in {"woken", "in"}}

\* "a counting semaphore to serialize access from multiple tasks"
\* (NOTES.md:1104): no more tasks are inside than there are units.
Serializes == Cardinality({t \in Users : at[t] = "in"}) <= Units

\* A unit is never lost or made: signal() either counts it or hands it over.
UnitsConserved == count + Cardinality(Holders) = Units

\* waiters_ cannot overflow, so wait() never panics.
NeverPanics == ~panicked

\* Whatever happens to the waiters, a BLOCKED task is known to signal(), and
\* nobody is kept waiting while there is a unit to take.
WaitersKnown ==
  /\ \A t \in Users : at[t] = "blocked" => \E i \in 1 .. Len(waiters) : waiters[i] = t
  /\ count > 0 => waiters = << >>

\* "signal() wakes the longest-waiting task" (NOTES.md:1106): if a task is
\* BLOCKED, signal() wakes the one that has been in the queue for longest.
WakesLongest ==
  [][\A t \in Users : Signal(t) =>
       \A i \in 1 .. Len(waiters) :
         /\ at[waiters[i]] = "blocked"
         /\ \A j \in 1 .. i - 1 : at[waiters[j]] # "blocked"
         => at'[waiters[i]] = "woken"]_semVars

\* Nobody overtakes for ever: a task that waits gets in.
WaiterEnters == \A t \in Users : at[t] = "blocked" ~> at[t] = "in"
=============================================================================
