--------------------------- MODULE SchedulerProofs ---------------------------
(***************************************************************************)
(* Proofs about module Scheduler for any number of slots, any quantum, any *)
(* timer range and any sleeps.                                             *)
(***************************************************************************)
EXTENDS Scheduler, TLAPS

\* A leaf that names no prover goes to the SMT solver, with time to spare.
USE SMTT(30)

Entry == [due : Nat, task : Slots]

\* The entries of a queue and their fields.
LEMMA EntryFields ==
  ASSUME NEW q \in Seq(Entry), NEW i \in 1 .. Len(q)
  PROVE  q[i] \in Entry /\ q[i].due \in Nat /\ q[i].task \in Slots
<1>1. q[i] \in Entry
  OBVIOUS
<1>. QED  BY <1>1 DEF Entry

-----------------------------------------------------------------------------
(* The timer arithmetic.                                                   *)

\* Pit::programForMs always arms a delay the PIT can count, and never a later
\* one than it is asked for, except that 0 becomes 1.
LEMMA ProgramForMsRange ==
  ASSUME NEW ms \in Int
  PROVE  /\ ProgramForMs(ms) \in 1 .. PitMaxMs
         /\ ProgramForMs(ms) <= Maximum(1, ms)
BY PitAssumption DEF ProgramForMs, Minimum, Maximum

\* Truncation to uint32_t never makes a delay longer.
LEMMA TruncationShortens ==
  ASSUME NEW ms \in Nat
  PROVE  ms % U32 \in Nat /\ ms % U32 <= ms
<1>1. U32 \in Nat /\ U32 > 0
  BY U32Assumption, PitAssumption
<1>. QED  BY <1>1, Z3

\* programNextTick arms the timer for the end of the quantum and for the head
\* of the sleep queue, whichever comes first.
LEMMA ProgramNextTickRange ==
  ASSUME NEW q \in Seq(Entry), NEW e \in 0 .. Quantum - 1
  PROVE  /\ ProgramNextTick(q, e) \in 1 .. PitMaxMs
         /\ ProgramNextTick(q, e) <= Quantum - e
         /\ q # << >> => ProgramNextTick(q, e) <= Maximum(1, q[1].due)
<1> DEFINE sleepMs == IF q = << >> THEN PitMaxMs
                      ELSE IF q[1].due > 0 THEN q[1].due % U32 ELSE 1
<1>1. q # << >> => q[1].due \in Int
  <2> SUFFICES ASSUME q # << >>  PROVE q[1].due \in Int
    OBVIOUS
  <2>1. Len(q) \in Nat \ {0}
    OBVIOUS
  <2>2. 1 \in 1 .. Len(q)
    BY <2>1
  <2>. QED  BY <2>2, EntryFields
<1>2. sleepMs \in Int /\ (q # << >> => sleepMs <= Maximum(1, q[1].due))
  <2>1. CASE q = << >>
    BY <2>1, PitAssumption
  <2>2. CASE q # << >> /\ q[1].due > 0
    <3>1. PICK d \in Nat : d = q[1].due
      BY <1>1, <2>2
    <3>2. q[1].due % U32 \in Nat /\ q[1].due % U32 <= q[1].due
      BY <3>1, TruncationShortens, Zenon
    <3>. QED  BY <2>2, <3>1, <3>2 DEF Maximum
  <2>3. CASE q # << >> /\ ~(q[1].due > 0)
    BY <1>1, <2>3 DEF Maximum
  <2>. QED  BY <2>1, <2>2, <2>3
<1>3. ProgramNextTick(q, e) = ProgramForMs(Minimum(sleepMs, Quantum - e))
  BY QuantumAssumption DEF ProgramNextTick
<1>. HIDE DEF sleepMs
<1>4. Minimum(sleepMs, Quantum - e) \in Int
  BY <1>2, QuantumAssumption DEF Minimum
<1>5. /\ ProgramNextTick(q, e) \in 1 .. PitMaxMs
      /\ ProgramNextTick(q, e) <= Maximum(1, Minimum(sleepMs, Quantum - e))
  BY <1>3, <1>4, ProgramForMsRange
<1>. QED
  BY <1>1, <1>2, <1>4, <1>5, QuantumAssumption, PitAssumption DEF Minimum, Maximum

-----------------------------------------------------------------------------
(* The sleep queue operations.                                             *)

Sleepers(q) == {q[i].task : i \in 1 .. Len(q)}
Distinct(q) == \A i, j \in 1 .. Len(q) : q[i].task = q[j].task => i = j
Sorted(q) == \A i, j \in 1 .. Len(q) : i <= j => q[i].due <= q[j].due
Within(r, q) == \A i \in 1 .. Len(r) : \E j \in 1 .. Len(q) : r[i] = q[j]

\* The passing of time changes nothing but the distance to the deadlines.
LEMMA ShiftProperties ==
  ASSUME NEW q \in Seq(Entry), NEW ms \in Int
  PROVE  /\ Shift(q, ms) \in Seq(Entry)
         /\ Len(Shift(q, ms)) = Len(q)
         /\ \A i \in 1 .. Len(q) : /\ Shift(q, ms)[i].due = Maximum(q[i].due - ms, 0)
                                  /\ Shift(q, ms)[i].task = q[i].task
         /\ Sleepers(Shift(q, ms)) = Sleepers(q)
         /\ Distinct(q) => Distinct(Shift(q, ms))
         /\ Sorted(q) => Sorted(Shift(q, ms))
<1> DEFINE r == Shift(q, ms)
<1>1. Len(q) \in Nat
  OBVIOUS
<1>2. \A i \in 1 .. Len(q) : /\ Maximum(q[i].due - ms, 0) \in Nat
                            /\ q[i].due \in Int
                            /\ q[i].task \in Slots
  BY EntryFields DEF Maximum
<1>3. r \in Seq(Entry) /\ Len(r) = Len(q)
  BY <1>1, <1>2 DEF Shift, Entry
<1>4. \A i \in 1 .. Len(q) : r[i].due = Maximum(q[i].due - ms, 0) /\ r[i].task = q[i].task
  BY <1>1, <1>2 DEF Shift
<1>. HIDE DEF r
<1>5. Sleepers(r) = Sleepers(q)
  BY <1>3, <1>4 DEF Sleepers
<1>6. Distinct(q) => Distinct(r)
  BY <1>1, <1>3, <1>4 DEF Distinct
<1>7. Sorted(q) => Sorted(r)
  <2> SUFFICES ASSUME Sorted(q), NEW i \in 1 .. Len(q), NEW j \in 1 .. Len(q), i <= j
               PROVE  r[i].due <= r[j].due
    BY <1>3 DEF Sorted
  <2>1. q[i].due <= q[j].due
    BY DEF Sorted
  <2>. QED  BY <2>1, <1>2, <1>4 DEF Maximum
<1>. QED  BY <1>3, <1>4, <1>5, <1>6, <1>7 DEF r

\* What is left after the first n entries are popped.
LEMMA PopProperties ==
  ASSUME NEW q \in Seq(Entry), NEW n \in 0 .. Len(q)
  PROVE  LET r == SubSeq(q, n + 1, Len(q)) IN
         /\ r \in Seq(Entry)
         /\ Len(r) = Len(q) - n
         /\ \A i \in 1 .. Len(r) : r[i] = q[i + n]
         /\ Within(r, q)
         /\ Distinct(q) =>
              /\ Distinct(r)
              /\ Sleepers(r) = Sleepers(q) \ {q[i].task : i \in 1 .. n}
         /\ Sorted(q) => Sorted(r)
<1> DEFINE r == SubSeq(q, n + 1, Len(q))
<1>1. Len(q) \in Nat
  OBVIOUS
<1>2. \A i \in n + 1 .. Len(q) : q[i] \in Entry
  BY <1>1, EntryFields
<1>3. /\ r \in Seq(Entry)
      /\ Len(r) = IF n + 1 <= Len(q) THEN Len(q) - (n + 1) + 1 ELSE 0
      /\ \A i \in 1 .. Len(q) - (n + 1) + 1 : r[i] = q[(n + 1) + i - 1]
  BY <1>1, <1>2
<1>. HIDE DEF r
<1>4. Len(r) = Len(q) - n
  BY <1>1, <1>3
<1>5. \A i \in 1 .. Len(r) : r[i] = q[i + n]
  BY <1>1, <1>3, <1>4
<1>6. Within(r, q)
  BY <1>1, <1>4, <1>5 DEF Within
<1>7. Distinct(q) => Distinct(r)
  <2> SUFFICES ASSUME Distinct(q), NEW i \in 1 .. Len(r), NEW j \in 1 .. Len(r),
                      r[i].task = r[j].task
               PROVE  i = j
    BY DEF Distinct
  <2>1. i + n \in 1 .. Len(q) /\ j + n \in 1 .. Len(q)
    BY <1>1, <1>4
  <2>2. q[i + n].task = q[j + n].task
    BY <1>5
  <2>3. i + n = j + n
    BY <2>1, <2>2 DEF Distinct
  <2>. QED  BY <2>3, <1>1, <1>4
<1>8. Distinct(q) => Sleepers(r) = Sleepers(q) \ {q[i].task : i \in 1 .. n}
  <2> SUFFICES ASSUME Distinct(q)
               PROVE  Sleepers(r) = Sleepers(q) \ {q[i].task : i \in 1 .. n}
    OBVIOUS
  <2>1. ASSUME NEW t \in Sleepers(r)
        PROVE  t \in Sleepers(q) \ {q[i].task : i \in 1 .. n}
    <3>1. PICK i \in 1 .. Len(r) : t = r[i].task
      BY DEF Sleepers
    <3>2. i + n \in 1 .. Len(q) /\ t = q[i + n].task /\ i + n > n
      BY <3>1, <1>1, <1>4, <1>5
    <3>. QED  BY <3>2, <1>1 DEF Sleepers, Distinct
  <2>2. ASSUME NEW t \in Sleepers(q) \ {q[i].task : i \in 1 .. n}
        PROVE  t \in Sleepers(r)
    <3>1. PICK j \in 1 .. Len(q) : t = q[j].task
      BY DEF Sleepers
    <3>2. j - n \in 1 .. Len(r) /\ (j - n) + n = j
      BY <3>1, <1>1, <1>4
    <3>3. r[j - n] = q[j]
      BY <3>2, <1>5
    <3>. QED  BY <3>1, <3>2, <3>3 DEF Sleepers
  <2>. QED  BY <2>1, <2>2
<1>9. Sorted(q) => Sorted(r)
  <2> SUFFICES ASSUME Sorted(q), NEW i \in 1 .. Len(r), NEW j \in 1 .. Len(r), i <= j
               PROVE  r[i].due <= r[j].due
    BY DEF Sorted
  <2>1. i + n \in 1 .. Len(q) /\ j + n \in 1 .. Len(q) /\ i + n <= j + n
    BY <1>1, <1>4
  <2>. QED  BY <2>1, <1>5, Zenon DEF Sorted
<1>. QED  BY <1>3, <1>4, <1>5, <1>6, <1>7, <1>8, <1>9 DEF r

\* removeFromSleepQueue takes out the entry of one task and leaves the others
\* in their order.
LEMMA RemoveProperties ==
  ASSUME NEW q \in Seq(Entry), NEW id, Distinct(q)
  PROVE  LET r == RemoveFromSleepQueue(q, id) IN
         /\ r \in Seq(Entry)
         /\ Distinct(r)
         /\ Sleepers(r) = Sleepers(q) \ {id}
         /\ Within(r, q)
         /\ Sorted(q) => Sorted(r)
<1> DEFINE r == RemoveFromSleepQueue(q, id)
           hits == {i \in 1 .. Len(q) : q[i].task = id}
<1>1. Len(q) \in Nat
  OBVIOUS
<1>2. CASE hits = {}
  <2>1. r = q
    BY <1>2 DEF RemoveFromSleepQueue
  <2>2. id \notin Sleepers(q)
    BY <1>2 DEF Sleepers
  <2>3. Within(q, q)
    BY DEF Within
  <2>. QED  BY <2>1, <2>2, <2>3
<1>3. CASE hits # {}
  <2>1. PICK k \in 1 .. Len(q) : q[k].task = id
    BY <1>3
  <2>2. hits = {k}
    BY <2>1 DEF Distinct
  <2>3. (CHOOSE i \in hits : \A j \in hits : i <= j) = k
    BY <2>2
  <2>4. r = [i \in 1 .. Len(q) - 1 |-> IF i < k THEN q[i] ELSE q[i + 1]]
    BY <2>2, <2>3, Zenon DEF RemoveFromSleepQueue
  <2> DEFINE from(i) == IF i < k THEN i ELSE i + 1
  <2>5. \A i \in 1 .. Len(q) - 1 : from(i) \in 1 .. Len(q) /\ from(i) # k
    BY <1>1, <2>1
  <2>6. \A i \in 1 .. Len(q) - 1 : (IF i < k THEN q[i] ELSE q[i + 1]) \in Entry
    BY <1>1, <2>5, EntryFields
  <2>7. r \in Seq(Entry) /\ Len(r) = Len(q) - 1
    BY <1>1, <2>1, <2>4, <2>6
  <2>8. \A i \in 1 .. Len(r) : r[i] = q[from(i)]
    BY <2>4, <2>7
  <2>9. \A i \in 1 .. Len(r) : from(i) \in 1 .. Len(q) /\ from(i) # k
    BY <2>5, <2>7
  <2>10. \A j \in 1 .. Len(q) : j # k => \E i \in 1 .. Len(r) : from(i) = j
    <3> SUFFICES ASSUME NEW j \in 1 .. Len(q), j # k
                 PROVE  \E i \in 1 .. Len(r) : from(i) = j
      OBVIOUS
    <3>1. CASE j < k
      BY <3>1, <1>1, <2>1, <2>7
    <3>2. CASE j > k
      <4>1. j - 1 \in 1 .. Len(r) /\ from(j - 1) = j
        BY <3>2, <1>1, <2>1, <2>7
      <4>. QED  BY <4>1
    <3>. QED  BY <3>1, <3>2, <1>1, <2>1
  <2>11. \A i, j \in 1 .. Len(r) : /\ i <= j => from(i) <= from(j)
                                   /\ from(i) = from(j) => i = j
    BY <1>1, <2>1, <2>7
  <2>. HIDE DEF r, from
  <2>12. Distinct(r)
    BY <2>8, <2>9, <2>11 DEF Distinct
  <2>13. Within(r, q)
    BY <2>8, <2>9 DEF Within
  <2>14. Sorted(q) => Sorted(r)
    BY <2>8, <2>9, <2>11 DEF Sorted
  <2>15. Sleepers(r) \subseteq Sleepers(q) \ {id}
    <3> SUFFICES ASSUME NEW i \in 1 .. Len(r)
                 PROVE  r[i].task \in Sleepers(q) \ {id}
      BY DEF Sleepers
    <3>. QED  BY <2>1, <2>8, <2>9 DEF Sleepers, Distinct
  <2>16. Sleepers(q) \ {id} \subseteq Sleepers(r)
    <3> SUFFICES ASSUME NEW j \in 1 .. Len(q), q[j].task # id
                 PROVE  q[j].task \in Sleepers(r)
      BY DEF Sleepers
    <3>1. PICK i \in 1 .. Len(r) : from(i) = j
      BY <2>1, <2>10
    <3>. QED  BY <3>1, <2>8 DEF Sleepers
  <2>. QED  BY <2>7, <2>12, <2>13, <2>14, <2>15, <2>16 DEF r
<1>. QED  BY <1>2, <1>3 DEF r

\* sleep() puts the new entry in its place in the order of deadlines.
LEMMA InsertProperties ==
  ASSUME NEW q \in Seq(Entry), NEW ms \in Nat, NEW t \in Slots,
         NEW p \in 0 .. Len(q)
  PROVE  LET r == Insert(q, p, [due |-> ms, task |-> t]) IN
         /\ r \in Seq(Entry)
         /\ Sleepers(r) = Sleepers(q) \cup {t}
         /\ \A i \in 1 .. Len(r) : \/ r[i].due = ms
                                   \/ \E j \in 1 .. Len(q) : r[i] = q[j]
         /\ Distinct(q) /\ t \notin Sleepers(q) => Distinct(r)
         /\ Sorted(q) /\ InsertsAfter(q, ms, p) => Sorted(r)
<1> DEFINE e == [due |-> ms, task |-> t]
           r == Insert(q, p, e)
           from(i) == IF i <= p THEN i ELSE i - 1
<1>1. Len(q) \in Nat
  OBVIOUS
<1>2. e \in Entry /\ e.due = ms /\ e.task = t
  BY DEF Entry
<1>3. \A i \in 1 .. Len(q) + 1 : i # p + 1 => from(i) \in 1 .. Len(q)
  BY <1>1
<1>. HIDE DEF e
<1>4. \A i \in 1 .. Len(q) + 1 :
        (IF i <= p THEN q[i] ELSE IF i = p + 1 THEN e ELSE q[i - 1]) \in Entry
  BY <1>1, <1>2, <1>3, EntryFields
<1>5. r \in Seq(Entry) /\ Len(r) = Len(q) + 1
  BY <1>1, <1>4 DEF Insert
<1>6. /\ p + 1 \in 1 .. Len(r)
      /\ r[p + 1] = e
      /\ \A i \in 1 .. Len(r) : i # p + 1 => r[i] = q[from(i)]
  BY <1>1, <1>5 DEF Insert
<1>7. \A i \in 1 .. Len(r) : i # p + 1 => from(i) \in 1 .. Len(q)
  BY <1>3, <1>5
<1>8. \A j \in 1 .. Len(q) : \E i \in 1 .. Len(r) : i # p + 1 /\ from(i) = j
  <2> TAKE j \in 1 .. Len(q)
  <2>1. CASE j <= p
    BY <2>1, <1>1, <1>5
  <2>2. CASE j > p
    <3>1. j + 1 \in 1 .. Len(r) /\ j + 1 # p + 1 /\ from(j + 1) = j
      BY <2>2, <1>1, <1>5
    <3>. QED  BY <3>1
  <2>. QED  BY <2>1, <2>2, <1>1
<1>9. \A i, j \in 1 .. Len(r) : i # p + 1 /\ j # p + 1 =>
        /\ i <= j => from(i) <= from(j)
        /\ from(i) = from(j) => i = j
  BY <1>1, <1>5
<1>10. \A i \in 1 .. Len(r) : /\ i < p + 1 => from(i) <= p /\ p > 0
                              /\ i > p + 1 => from(i) \in p + 1 .. Len(q)
  BY <1>1, <1>5
<1>. HIDE DEF r, from
<1>11. Sleepers(r) = Sleepers(q) \cup {t}
  <2>1. \A i \in 1 .. Len(r) : r[i].task \in Sleepers(q) \cup {t}
    BY <1>2, <1>6, <1>7 DEF Sleepers
  <2>2. t \in Sleepers(r)
    BY <1>2, <1>6 DEF Sleepers
  <2>3. ASSUME NEW j \in 1 .. Len(q)
        PROVE  q[j].task \in Sleepers(r)
    <3>1. PICK i \in 1 .. Len(r) : i # p + 1 /\ from(i) = j
      BY <1>8
    <3>. QED  BY <3>1, <1>6 DEF Sleepers
  <2>. QED  BY <2>1, <2>2, <2>3, Zenon DEF Sleepers
<1>12. \A i \in 1 .. Len(r) : r[i].due = ms \/ \E j \in 1 .. Len(q) : r[i] = q[j]
  BY <1>2, <1>6, <1>7
<1>13. Distinct(q) /\ t \notin Sleepers(q) => Distinct(r)
  <2> SUFFICES ASSUME Distinct(q), t \notin Sleepers(q),
                      NEW i \in 1 .. Len(r), NEW j \in 1 .. Len(r),
                      r[i].task = r[j].task
               PROVE  i = j
    BY DEF Distinct
  <2>1. \A k \in 1 .. Len(r) : k # p + 1 => r[k].task # t
    BY <1>6, <1>7 DEF Sleepers
  <2>2. r[p + 1].task = t
    BY <1>2, <1>6
  <2>3. CASE i = p + 1 \/ j = p + 1
    BY <2>1, <2>2, <2>3
  <2>4. CASE i # p + 1 /\ j # p + 1
    BY <2>4, <1>6, <1>7, <1>9 DEF Distinct
  <2>. QED  BY <2>3, <2>4
<1>14. Sorted(q) /\ InsertsAfter(q, ms, p) => Sorted(r)
  <2> SUFFICES ASSUME Sorted(q), InsertsAfter(q, ms, p),
                      NEW i \in 1 .. Len(r), NEW j \in 1 .. Len(r), i <= j
               PROVE  r[i].due <= r[j].due
    BY DEF Sorted
  <2>1. CASE i # p + 1 /\ j # p + 1
    BY <2>1, <1>6, <1>7, <1>9 DEF Sorted
  <2>2. CASE i = p + 1 /\ j = p + 1
    BY <2>2, <1>2, <1>6
  <2>3. CASE i = p + 1 /\ j > p + 1
    <3>1. from(j) \in p + 1 .. Len(q)
      BY <2>3, <1>10
    <3>2. from(j) \in 1 .. Len(q) /\ r[j] = q[from(j)]
      BY <2>3, <1>6, <1>7, <1>1
    <3>3. q[from(j)].due > ms
      BY <3>1 DEF InsertsAfter
    <3>. QED  BY <2>3, <3>2, <3>3, <1>2, <1>6, EntryFields
  <2>4. CASE i < p + 1 /\ j = p + 1
    <3>1. from(i) <= p /\ p > 0 /\ p \in 1 .. Len(q)
      BY <2>4, <1>10, <1>1
    <3>2. from(i) \in 1 .. Len(q) /\ r[i] = q[from(i)]
      BY <2>4, <1>6, <1>7, <1>1
    <3>3. q[from(i)].due <= q[p].due /\ q[p].due <= ms
      BY <3>1, <3>2 DEF Sorted, InsertsAfter
    <3>4. q[from(i)].due \in Int /\ q[p].due \in Int
      BY <3>1, <3>2, EntryFields
    <3>. QED  BY <2>4, <3>2, <3>3, <3>4, <1>2, <1>6
  <2>. QED  BY <2>1, <2>2, <2>3, <2>4, <1>1
<1>. QED  BY <1>5, <1>11, <1>12, <1>13, <1>14 DEF r, e

-----------------------------------------------------------------------------
(* The inductive invariant.  None of the properties is inductive alone: a    *)
(* switch is safe because idle is READY whenever it does not run, a new task *)
(* disturbs nobody because the slot it gets is DEAD, an entry can be taken   *)
(* out because its task has only one, and the timer covers every sleeper     *)
(* because it covers the head of a sorted queue.                             *)

\* The task table: states st, current task c, n used slots.
TableOK(st, c, n) ==
  /\ st \in [Slots -> States]
  /\ n \in 1 .. MaxTasks
  /\ c \in 0 .. n - 1
  /\ \A t \in Slots : st[t] = "RUNNING" => t = c
  /\ st[c] # "DEAD"
  /\ st[0] = IF c = 0 THEN "RUNNING" ELSE "READY"
  /\ \A t \in Slots : t >= n => st[t] = "DEAD"

\* The sleep queue q, against the states st.
QueueOK(q, st) ==
  /\ q \in Seq(Entry)
  /\ Distinct(q)
  /\ Sorted(q)
  /\ \A t \in Sleepers(q) : t # 0 /\ st[t] = "BLOCKED"

\* A timer armed to pit fires in time for the queue q.
Covers(q, pit) == \A i \in 1 .. Len(q) : pit <= Maximum(1, q[i].due)

\* The timer: armed to pit when e ms of the quantum are used.
TimerOK(pit, e) ==
  /\ e \in 0 .. Quantum - 1
  /\ pit \in 1 .. PitMaxMs
  /\ pit <= Quantum - e

IInv ==
  /\ TableOK(state, current, taskCount)
  /\ priority \in [Slots -> 0 .. PriorityIdle]
  /\ QueueOK(sleepQueue, state)
  /\ Covers(sleepQueue, pitRemaining)
  /\ TimerOK(pitRemaining, quantumElapsed)

\* Arming the timer with programNextTick covers the whole queue.
LEMMA ProgramNextTickCovers ==
  ASSUME NEW q, NEW st, QueueOK(q, st), NEW e \in 0 .. Quantum - 1
  PROVE  TimerOK(ProgramNextTick(q, e), e) /\ Covers(q, ProgramNextTick(q, e))
<1> DEFINE pit == ProgramNextTick(q, e)
<1>1. /\ pit \in 1 .. PitMaxMs
      /\ pit <= Quantum - e
      /\ q # << >> => pit <= Maximum(1, q[1].due)
  BY ProgramNextTickRange DEF QueueOK
<1>. HIDE DEF pit
<1>2. ASSUME NEW i \in 1 .. Len(q)
      PROVE  pit <= Maximum(1, q[i].due)
  <2>1. Len(q) \in Nat /\ q # << >> /\ 1 \in 1 .. Len(q) /\ 1 <= i
    BY DEF QueueOK
  <2>2. q[1].due \in Int /\ q[i].due \in Int /\ q[1].due <= q[i].due
    BY <2>1, EntryFields DEF QueueOK, Sorted
  <2>. QED  BY <1>1, <2>1, <2>2, PitAssumption DEF Maximum
<1>. QED  BY <1>1, <1>2 DEF TimerOK, Covers, pit

\* A timer armed earlier, or a queue with fewer entries, is covered as well.
LEMMA CoversMonotonic ==
  ASSUME NEW q \in Seq(Entry), NEW r, Within(r, q),
         NEW pit \in Int, NEW pit2 \in Int, pit2 <= pit, Covers(q, pit)
  PROVE  Covers(r, pit2)
<1> SUFFICES ASSUME NEW i \in 1 .. Len(r)
             PROVE  pit2 <= Maximum(1, r[i].due)
  BY DEF Covers
<1>1. PICK j \in 1 .. Len(q) : r[i] = q[j]
  BY DEF Within
<1>2. q[j].due \in Int /\ pit <= Maximum(1, q[j].due)
  BY EntryFields DEF Covers
<1>. QED  BY <1>1, <1>2 DEF Maximum

\* unblockTask never arms the timer later than it was.
LEMMA UnblockPitEarlier ==
  ASSUME NEW pit \in 1 .. PitMaxMs, NEW id, NEW c
  PROVE  UnblockPit(pit, id, c) \in 1 .. PitMaxMs /\ UnblockPit(pit, id, c) <= pit
BY PitAssumption DEF UnblockPit, ProgramForMs, Minimum, Maximum

\* Taking task id out of the queue allows its state to become anything.
LEMMA RemoveKeepsQueue ==
  ASSUME NEW q, NEW st, NEW st2, QueueOK(q, st), NEW id,
         \A t \in Slots \ {id} : st2[t] = st[t]
  PROVE  LET r == RemoveFromSleepQueue(q, id) IN
         /\ QueueOK(r, st2) /\ r \in Seq(Entry) /\ Within(r, q)
         /\ Sleepers(r) = Sleepers(q) \ {id}
<1> DEFINE r == RemoveFromSleepQueue(q, id)
<1>1. /\ r \in Seq(Entry)
      /\ Distinct(r)
      /\ Sleepers(r) = Sleepers(q) \ {id}
      /\ Within(r, q)
      /\ Sorted(r)
  BY RemoveProperties DEF QueueOK
<1>2. Sleepers(q) \subseteq Slots
  BY EntryFields DEF QueueOK, Sleepers
<1>. HIDE DEF r
<1>3. \A t \in Sleepers(r) : t # 0 /\ st2[t] = "BLOCKED"
  BY <1>1, <1>2 DEF QueueOK
<1>. QED  BY <1>1, <1>3 DEF QueueOK, r

\* findNext only ever returns a READY task other than the current one, or idle.
LEMMA FindNextReady ==
  ASSUME NEW n \in Slots, NEW st \in [Slots -> States],
         current \in 0 .. taskCount - 1, taskCount \in 1 .. MaxTasks,
         current # 0 => st[0] = "READY", n # current, FindNext(n, st)
  PROVE  st[n] = "READY" /\ n \in 0 .. taskCount - 1
<1>1. CASE Contenders(st) = {}
  BY <1>1, MaxTasksAssumption DEF FindNext, Slots
<1>2. CASE Contenders(st) # {}
  BY <1>2 DEF FindNext, Contenders
<1>. QED  BY <1>1, <1>2

\* switchTo(next) to a READY task leaves a good table, whatever the state of
\* the task that loses the CPU.
LEMMA SwitchedTable ==
  ASSUME NEW st \in [Slots -> States], NEW next \in 0 .. taskCount - 1,
         taskCount \in 1 .. MaxTasks, current \in 0 .. taskCount - 1,
         next # current, st[next] = "READY",
         \A t \in Slots : st[t] = "RUNNING" => t = current,
         current = 0 => st[0] = "RUNNING",
         current # 0 => st[0] = "READY",
         \A t \in Slots : t >= taskCount => st[t] = "DEAD"
  PROVE  /\ TableOK(Switched(st, next), next, taskCount)
         /\ \A t \in Slots : Switched(st, next)[t] = "BLOCKED" <=> st[t] = "BLOCKED"
BY MaxTasksAssumption DEF TableOK, Switched, Slots, States

-----------------------------------------------------------------------------
(* Each action preserves the invariant.                                      *)

\* The timer interrupt, in its three outcomes.
LEMMA TickStep ==
  ASSUME IInv, Tick
  PROVE  IInv'
<1> DEFINE q == Shift(sleepQueue, pitRemaining)
<1>1. pitRemaining \in Int /\ quantumElapsed \in Int
  BY PitAssumption, QuantumAssumption DEF IInv, TimerOK
<1>2. PICK n \in 0 .. Len(q) :
        PopsExpired(q, n) /\ (TickKeep(q, n) \/ TickRenew(q, n) \/ TickSwitch(q, n))
  BY DEF Tick
<1> DEFINE rest == SubSeq(q, n + 1, Len(q))
           st == Woken(q, n)
<1>3. /\ q \in Seq(Entry) /\ Distinct(q) /\ Sorted(q)
      /\ Sleepers(q) = Sleepers(sleepQueue)
  BY <1>1, ShiftProperties DEF IInv, QueueOK
<1>. HIDE DEF q
<1>4. /\ rest \in Seq(Entry) /\ Distinct(rest) /\ Sorted(rest)
      /\ Sleepers(rest) = Sleepers(q) \ {q[i].task : i \in 1 .. n}
  BY <1>3, PopProperties, Zenon
<1>5. TableOK(st, current, taskCount)
  BY MaxTasksAssumption DEF IInv, TableOK, Woken, Slots, States
<1>6. Sleepers(q) \subseteq Slots
  BY <1>3, EntryFields DEF Sleepers
<1>7. QueueOK(rest, st)
  <2> SUFFICES ASSUME NEW t \in Sleepers(rest)
               PROVE  t # 0 /\ st[t] = "BLOCKED"
    BY <1>4 DEF QueueOK
  <2>1. t \in Slots /\ t # 0 /\ state[t] = "BLOCKED"
    BY <1>3, <1>4, <1>6 DEF IInv, QueueOK
  <2>2. ~ \E i \in 1 .. n : q[i].task = t
    BY <1>4
  <2>. QED  BY <2>1, <2>2 DEF Woken
<1>. HIDE DEF rest, st
<1>8. CASE TickKeep(q, n)
  <2> DEFINE e == quantumElapsed + pitRemaining
  <2>1. e \in 0 .. Quantum - 1
    BY <1>8, QuantumAssumption, PitAssumption DEF TickKeep, IInv, TimerOK
  <2>2. /\ sleepQueue' = rest /\ state' = st /\ quantumElapsed' = e
        /\ pitRemaining' = ProgramNextTick(rest, e)
        /\ UNCHANGED <<priority, taskCount, current>>
    BY <1>8 DEF TickKeep, rest, st
  <2>. HIDE DEF e
  <2>3. TimerOK(pitRemaining', quantumElapsed') /\ Covers(rest, pitRemaining')
    BY <1>7, <2>1, <2>2, ProgramNextTickCovers
  <2>. QED  BY <1>5, <1>7, <2>2, <2>3 DEF IInv
<1>9. CASE TickRenew(q, n)
  <2>1. /\ sleepQueue' = rest /\ state' = st /\ quantumElapsed' = 0
        /\ pitRemaining' = ProgramNextTick(rest, 0)
        /\ UNCHANGED <<priority, taskCount, current>>
    BY <1>9 DEF TickRenew, rest, st
  <2>2. TimerOK(pitRemaining', quantumElapsed') /\ Covers(rest, pitRemaining')
    BY <1>7, <2>1, ProgramNextTickCovers, QuantumAssumption
  <2>. QED  BY <1>5, <1>7, <2>1, <2>2 DEF IInv
<1>10. CASE TickSwitch(q, n)
  <2>1. PICK next \in Slots \ {current} :
          FindNext(next, st) /\ SwitchTo(next, st, rest)
    BY <1>10 DEF TickSwitch, rest, st
  <2>2. sleepQueue' = rest /\ UNCHANGED <<priority, taskCount>>
    BY <1>10 DEF TickSwitch, rest
  <2>3. st[next] = "READY" /\ next \in 0 .. taskCount - 1
    BY <1>5, <2>1, FindNextReady DEF TableOK
  <2>4. /\ TableOK(Switched(st, next), next, taskCount)
        /\ \A t \in Slots : Switched(st, next)[t] = "BLOCKED" <=> st[t] = "BLOCKED"
    BY <1>5, <2>1, <2>3, SwitchedTable DEF TableOK
  <2>5. QueueOK(rest, Switched(st, next))
    BY <1>4, <1>6, <1>7, <2>4 DEF QueueOK
  <2>6. /\ current' = next /\ state' = Switched(st, next) /\ quantumElapsed' = 0
        /\ pitRemaining' = ProgramNextTick(rest, 0)
    BY <2>1 DEF SwitchTo
  <2>7. TimerOK(pitRemaining', quantumElapsed') /\ Covers(rest, pitRemaining')
    BY <1>7, <2>6, ProgramNextTickCovers, QuantumAssumption
  <2>. QED  BY <2>2, <2>4, <2>5, <2>6, <2>7 DEF IInv
<1>. QED  BY <1>2, <1>8, <1>9, <1>10

\* unblockTask, and the wake-up by a signal.
LEMMA UnblockStep ==
  ASSUME IInv, NEW id \in Slots, UnblockTask(id) \/ SendSignalWake(id)
  PROVE  IInv'
<1>1. /\ state[id] = "BLOCKED"
      /\ state' = [state EXCEPT ![id] = "READY"]
      /\ sleepQueue' = RemoveFromSleepQueue(sleepQueue, id)
      /\ UNCHANGED <<priority, taskCount, current, quantumElapsed>>
      /\ pitRemaining' = UnblockPit(pitRemaining, id, current) \/ pitRemaining' = pitRemaining
  BY DEF UnblockTask, SendSignalWake, Unblocked
<1>2. pitRemaining' \in 1 .. PitMaxMs /\ pitRemaining' <= pitRemaining
  BY <1>1, UnblockPitEarlier DEF IInv, TimerOK
<1>3. TableOK(state', current, taskCount)
  BY <1>1, MaxTasksAssumption DEF IInv, TableOK, Slots, States
<1>4. \A t \in Slots \ {id} : state'[t] = state[t]
  BY <1>1 DEF IInv, TableOK
<1>5. QueueOK(sleepQueue', state') /\ Within(sleepQueue', sleepQueue)
  BY <1>1, <1>4, RemoveKeepsQueue, Zenon DEF IInv
<1>6. Covers(sleepQueue', pitRemaining')
  BY <1>2, <1>5, CoversMonotonic DEF IInv, QueueOK, TimerOK
<1>7. TimerOK(pitRemaining', quantumElapsed')
  BY <1>1, <1>2, QuantumAssumption, PitAssumption DEF IInv, TimerOK
<1>. QED  BY <1>1, <1>3, <1>5, <1>6, <1>7 DEF IInv

\* The slot a new task gets is DEAD, so it is neither the current task nor
\* idle nor asleep.
LEMMA FindSlotDead ==
  ASSUME IInv, NEW s \in Slots, FindSlot(s)
  PROVE  /\ state[s] = "DEAD" /\ s # current /\ s # 0
         /\ s \notin Sleepers(sleepQueue)
         /\ Maximum(taskCount, s + 1) \in 1 .. MaxTasks
         /\ s < Maximum(taskCount, s + 1) /\ taskCount <= Maximum(taskCount, s + 1)
<1>1. state[s] = "DEAD"
  BY DEF IInv, TableOK, FindSlot, Slots
<1>2. s # current /\ s # 0
  BY <1>1 DEF IInv, TableOK
<1>3. s \notin Sleepers(sleepQueue)
  BY <1>1 DEF IInv, QueueOK
<1>4. taskCount \in 1 .. MaxTasks /\ s \in 0 .. MaxTasks - 1
  BY DEF IInv, TableOK, Slots
<1>. QED
  BY <1>1, <1>2, <1>3, <1>4, MaxTasksAssumption DEF Maximum

\* Task creation, with and without a stack, and with a waiting creator.
LEMMA AddTaskStep ==
  ASSUME IInv, NEW s \in Slots, NEW p \in 0 .. 8,
         AddTask(s, p) \/ AddTaskNoStack(s, p) \/ AddTaskAndBlock(s)
  PROVE  IInv'
<1>1. /\ state[s] = "DEAD" /\ s # current /\ s # 0
      /\ s \notin Sleepers(sleepQueue)
      /\ Maximum(taskCount, s + 1) \in 1 .. MaxTasks
      /\ s < Maximum(taskCount, s + 1) /\ taskCount <= Maximum(taskCount, s + 1)
  BY FindSlotDead DEF AddTask, AddTaskNoStack, AddTaskAndBlock
<1>2. /\ taskCount' = Maximum(taskCount, s + 1)
      /\ UNCHANGED <<current, sleepQueue, quantumElapsed, pitRemaining>>
      /\ priority' = [priority EXCEPT ![s] = p] \/ priority' = [priority EXCEPT ![s] = 4]
  BY DEF AddTask, AddTaskNoStack, AddTaskAndBlock
<1>3. priority' \in [Slots -> 0 .. PriorityIdle]
  BY <1>2 DEF IInv, PriorityIdle
<1>4. \/ state' = [state EXCEPT ![s] = "READY"]
      \/ state' = state
      \/ /\ current # 0
         /\ state' = [state EXCEPT ![s] = "READY", ![current] = "BLOCKED"]
  BY DEF AddTask, AddTaskNoStack, AddTaskAndBlock
<1>5. current \in Slots
  BY MaxTasksAssumption DEF IInv, TableOK, Slots
<1>6. state' \in [Slots -> States]
  BY <1>4, <1>5 DEF IInv, TableOK, States
<1>7. /\ state'[s] \in {"READY", "DEAD"}
      /\ \A t \in Slots \ {s, current} : state'[t] = state[t]
      /\ state'[current] = state[current] \/ (current # 0 /\ state'[current] = "BLOCKED")
  BY <1>1, <1>4, <1>5 DEF IInv, TableOK
<1>8. TableOK(state', current, taskCount')
  <2>1. taskCount' \in 1 .. MaxTasks /\ current \in 0 .. taskCount' - 1
    BY <1>1, <1>2 DEF IInv, TableOK
  <2>2. \A t \in Slots : state'[t] = "RUNNING" => t = current
    BY <1>1, <1>7 DEF IInv, TableOK
  <2>3. state'[current] # "DEAD"
    BY <1>7 DEF IInv, TableOK
  <2>4. state'[0] = state[0]
    BY <1>1, <1>7, MaxTasksAssumption DEF Slots
  <2>5. ASSUME NEW t \in Slots, t >= taskCount'
        PROVE  state'[t] = "DEAD"
    <3>1. t # s /\ t # current /\ t >= taskCount
      BY <2>5, <1>1, <1>2, <1>5 DEF IInv, TableOK, Slots
    <3>. QED  BY <3>1, <1>7 DEF IInv, TableOK
  <2>. QED  BY <1>6, <2>1, <2>2, <2>3, <2>4, <2>5, Zenon DEF IInv, TableOK
<1>9. QueueOK(sleepQueue, state')
  <2>1. Sleepers(sleepQueue) \subseteq Slots
    BY EntryFields DEF IInv, QueueOK, Sleepers
  <2>2. \A t \in Sleepers(sleepQueue) : state'[t] = "BLOCKED"
    BY <1>1, <1>7, <2>1 DEF IInv, QueueOK
  <2>. QED  BY <2>2 DEF IInv, QueueOK
<1>. QED  BY <1>2, <1>3, <1>8, <1>9 DEF IInv

\* Blocking without a deadline.
LEMMA BlockStep ==
  ASSUME IInv, BlockCurrentTask
  PROVE  IInv'
<1>1. /\ current # 0 /\ current \in Slots
      /\ state' = [state EXCEPT ![current] = "BLOCKED"]
      /\ UNCHANGED <<priority, taskCount, current, sleepQueue, quantumElapsed,
                     pitRemaining>>
  BY MaxTasksAssumption DEF BlockCurrentTask, IInv, TableOK, Slots
<1>2. TableOK(state', current, taskCount)
  BY <1>1, MaxTasksAssumption DEF IInv, TableOK, Slots, States
<1>3. Sleepers(sleepQueue) \subseteq Slots
  BY EntryFields DEF IInv, QueueOK, Sleepers
<1>4. QueueOK(sleepQueue, state')
  BY <1>1, <1>3 DEF IInv, TableOK, QueueOK
<1>. QED  BY <1>1, <1>2, <1>4 DEF IInv

\* Going to sleep: the caller is BLOCKED and in the queue, and the timer is
\* moved forward if it has to be.
LEMMA SleepStep ==
  ASSUME IInv, NEW ms \in SleepMs, Sleep(ms)
  PROVE  IInv'
<1>1. /\ current # 0 /\ current \in Slots /\ state[current] # "BLOCKED"
      /\ state' = [state EXCEPT ![current] = "BLOCKED"]
      /\ UNCHANGED <<priority, taskCount, current, quantumElapsed>>
  BY MaxTasksAssumption DEF Sleep, Executes, IInv, TableOK, Slots
<1>2. ms \in Nat /\ ms \in Int
  BY SleepMsAssumption
<1>3. PICK p \in 0 .. Len(sleepQueue) :
        /\ InsertsAfter(sleepQueue, ms, p)
        /\ sleepQueue' = Insert(sleepQueue, p, [due |-> ms, task |-> current])
  BY DEF Sleep
<1>4. TableOK(state', current, taskCount)
  BY <1>1, MaxTasksAssumption DEF IInv, TableOK, Slots, States
<1>5. current \notin Sleepers(sleepQueue) /\ Sleepers(sleepQueue) \subseteq Slots
  BY <1>1, EntryFields DEF IInv, QueueOK, Sleepers
<1>6. /\ sleepQueue' \in Seq(Entry)
      /\ Sleepers(sleepQueue') = Sleepers(sleepQueue) \cup {current}
      /\ \A i \in 1 .. Len(sleepQueue') :
           \/ sleepQueue'[i].due = ms
           \/ \E j \in 1 .. Len(sleepQueue) : sleepQueue'[i] = sleepQueue[j]
      /\ Distinct(sleepQueue')
      /\ Sorted(sleepQueue')
  <2>1. sleepQueue \in Seq(Entry) /\ Distinct(sleepQueue) /\ Sorted(sleepQueue)
    BY DEF IInv, QueueOK
  <2>2. current \in Slots
    BY <1>1, MaxTasksAssumption DEF IInv, TableOK, Slots
  <2> DEFINE r == Insert(sleepQueue, p, [due |-> ms, task |-> current])
  <2>3. /\ r \in Seq(Entry)
        /\ Sleepers(r) = Sleepers(sleepQueue) \cup {current}
        /\ \A i \in 1 .. Len(r) :
             \/ r[i].due = ms
             \/ \E j \in 1 .. Len(sleepQueue) : r[i] = sleepQueue[j]
        /\ Distinct(sleepQueue) /\ current \notin Sleepers(sleepQueue) => Distinct(r)
        /\ Sorted(sleepQueue) /\ InsertsAfter(sleepQueue, ms, p) => Sorted(r)
    BY <1>2, <2>1, <2>2, InsertProperties, Zenon
  <2>4. sleepQueue' = r
    BY <1>3
  <2>. HIDE DEF r
  <2>5. Distinct(r) /\ Sorted(r)
    BY <1>3, <1>5, <2>1, <2>3
  <2>. QED  BY <2>3, <2>4, <2>5, Zenon
<1>7. QueueOK(sleepQueue', state')
  BY <1>1, <1>5, <1>6 DEF IInv, TableOK, QueueOK
<1>8. /\ pitRemaining' \in 1 .. PitMaxMs
      /\ pitRemaining' <= pitRemaining
      /\ pitRemaining' <= Maximum(1, ms)
  <2>1. CASE ms < pitRemaining
    <3>1. ms % U32 \in Int /\ ms % U32 <= ms /\ ms % U32 \in Nat
      BY <1>2, TruncationShortens
    <3>2. /\ ProgramForMs(ms % U32) \in 1 .. PitMaxMs
          /\ ProgramForMs(ms % U32) <= Maximum(1, ms % U32)
      BY <3>1, ProgramForMsRange
    <3>3. pitRemaining' = ProgramForMs(ms % U32)
      BY <2>1 DEF Sleep
    <3>. QED
      BY <1>2, <2>1, <3>1, <3>2, <3>3, PitAssumption DEF Maximum, IInv, TimerOK
  <2>2. CASE ~(ms < pitRemaining)
    <3>1. pitRemaining' = pitRemaining
      BY <2>2 DEF Sleep
    <3>. QED  BY <1>2, <2>2, <3>1, PitAssumption DEF Maximum, IInv, TimerOK
  <2>. QED  BY <2>1, <2>2
<1>9. Covers(sleepQueue', pitRemaining')
  <2> SUFFICES ASSUME NEW i \in 1 .. Len(sleepQueue')
               PROVE  pitRemaining' <= Maximum(1, sleepQueue'[i].due)
    BY DEF Covers
  <2>1. CASE sleepQueue'[i].due = ms
    BY <2>1, <1>8
  <2>2. CASE \E j \in 1 .. Len(sleepQueue) : sleepQueue'[i] = sleepQueue[j]
    <3>1. PICK j \in 1 .. Len(sleepQueue) : sleepQueue'[i] = sleepQueue[j]
      BY <2>2
    <3>2. /\ sleepQueue[j].due \in Int
          /\ pitRemaining <= Maximum(1, sleepQueue[j].due)
      BY EntryFields DEF IInv, QueueOK, Covers
    <3>. QED  BY <3>1, <3>2, <1>8 DEF Maximum, IInv, TimerOK
  <2>. QED  BY <2>1, <2>2, <1>6
<1>10. TimerOK(pitRemaining', quantumElapsed')
  BY <1>1, <1>8, QuantumAssumption, PitAssumption DEF IInv, TimerOK
<1>. QED  BY <1>1, <1>4, <1>7, <1>9, <1>10 DEF IInv

\* The exit of the current task, once the sleep queue is q.
LEMMA ExitStep ==
  ASSUME IInv, NEW q, QueueOK(q, state), NEW w \in Slots \cup {-1}, ExitTo(q, w)
  PROVE  IInv'
<1> DEFINE st == [state EXCEPT ![current] = "DEAD"]
           rest == RemoveFromSleepQueue(q, current)
           pit == ProgramNextTick(rest, 0)
<1>1. current # 0 /\ current \in Slots /\ UNCHANGED <<priority, taskCount>>
  BY MaxTasksAssumption DEF ExitTo, IInv, TableOK, Slots
<1>2. PICK next \in Slots :
        /\ FindNext(next, st)
        /\ current' = next
        /\ quantumElapsed' = 0
        /\ LET after == Switched(st, next)
           IN IF w >= 0 /\ w < taskCount /\ after[w] = "BLOCKED"
                THEN /\ state' = Unblocked(after, w)
                     /\ sleepQueue' = RemoveFromSleepQueue(rest, w)
                     /\ pitRemaining' = UnblockPit(pit, w, next)
                ELSE /\ state' = after
                     /\ sleepQueue' = rest
                     /\ pitRemaining' = pit
  BY DEF ExitTo
<1> DEFINE after == Switched(st, next)
<1>3. /\ st \in [Slots -> States] /\ st[current] = "DEAD"
      /\ \A t \in Slots \ {current} : st[t] = state[t]
  BY <1>1 DEF IInv, TableOK, States
<1>4. QueueOK(rest, st) /\ rest \in Seq(Entry) /\ Sleepers(rest) \subseteq Slots
  <2>1. QueueOK(rest, st) /\ rest \in Seq(Entry)
    BY <1>3, RemoveKeepsQueue, Zenon
  <2>. QED  BY <2>1, EntryFields DEF Sleepers
<1>. HIDE DEF st, rest
<1>5. TimerOK(pit, 0) /\ Covers(rest, pit)
  BY <1>4, ProgramNextTickCovers, QuantumAssumption
<1>. HIDE DEF pit
<1>6. next # current
  BY <1>2, <1>1 DEF FindNext, Contenders
<1>7. st[0] = "READY" /\ st[next] = "READY" /\ next \in 0 .. taskCount - 1
  <2>1. st[0] = "READY"
    BY <1>1, <1>3, MaxTasksAssumption DEF IInv, TableOK, Slots
  <2>. QED  BY <1>2, <1>3, <1>6, <2>1, FindNextReady DEF IInv, TableOK
<1>8. /\ TableOK(after, next, taskCount)
      /\ \A t \in Slots : after[t] = "BLOCKED" <=> st[t] = "BLOCKED"
  <2>1. /\ taskCount \in 1 .. MaxTasks /\ current \in 0 .. taskCount - 1
        /\ \A t \in Slots : st[t] = "RUNNING" => t = current
        /\ \A t \in Slots : t >= taskCount => st[t] = "DEAD"
    BY <1>3 DEF IInv, TableOK
  <2>. QED  BY <1>1, <1>3, <1>6, <1>7, <2>1, SwitchedTable
<1>9. QueueOK(rest, after)
  BY <1>4, <1>8 DEF QueueOK
<1>. HIDE DEF after
<1>10. CASE w >= 0 /\ w < taskCount /\ after[w] = "BLOCKED"
  <2>1. /\ w \in Slots
        /\ state' = [after EXCEPT ![w] = "READY"]
        /\ sleepQueue' = RemoveFromSleepQueue(rest, w)
        /\ pitRemaining' = UnblockPit(pit, w, next)
    BY <1>2, <1>10 DEF Unblocked, after
  <2>2. TableOK(state', next, taskCount)
    BY <1>8, <1>10, <2>1, MaxTasksAssumption DEF TableOK, Slots, States
  <2>3. \A t \in Slots \ {w} : state'[t] = after[t]
    BY <1>8, <2>1 DEF TableOK
  <2>4. QueueOK(sleepQueue', state') /\ Within(sleepQueue', rest)
    BY <1>9, <2>1, <2>3, RemoveKeepsQueue, Zenon
  <2>5. pitRemaining' \in 1 .. PitMaxMs /\ pitRemaining' <= pit
    BY <1>5, <2>1, UnblockPitEarlier DEF TimerOK
  <2>6. Covers(sleepQueue', pitRemaining')
    BY <1>4, <1>5, <2>4, <2>5, CoversMonotonic DEF TimerOK
  <2>7. TimerOK(pitRemaining', 0)
    BY <1>5, <2>5, QuantumAssumption, PitAssumption DEF TimerOK
  <2>. QED  BY <1>1, <1>2, <2>2, <2>4, <2>6, <2>7 DEF IInv
<1>11. CASE ~(w >= 0 /\ w < taskCount /\ after[w] = "BLOCKED")
  <2>1. state' = after /\ sleepQueue' = rest /\ pitRemaining' = pit
    BY <1>2, <1>11 DEF after
  <2>. QED  BY <1>1, <1>2, <1>5, <1>8, <1>9, <2>1 DEF IInv
<1>. QED  BY <1>10, <1>11

\* The killing of another task, and of whom it had to wake first.
LEMMA KillStep ==
  ASSUME IInv, NEW id \in Slots, NEW w \in Slots \cup {-1}, KillTask(id, w)
  PROVE  IInv'
<1> DEFINE wakes == w >= 0 /\ w < taskCount /\ state[w] = "BLOCKED"
           st == IF wakes THEN Unblocked(state, w) ELSE state
           q == IF wakes THEN RemoveFromSleepQueue(sleepQueue, w) ELSE sleepQueue
<1>1. /\ id # 0 /\ id # current
      /\ state' = [st EXCEPT ![id] = "DEAD"]
      /\ sleepQueue' = RemoveFromSleepQueue(q, id)
      /\ UNCHANGED <<priority, taskCount, current, quantumElapsed>>
      /\ pitRemaining' = IF wakes THEN UnblockPit(pitRemaining, w, current)
                         ELSE pitRemaining
  BY DEF KillTask
<1>2. pitRemaining' \in 1 .. PitMaxMs /\ pitRemaining' <= pitRemaining
  BY <1>1, UnblockPitEarlier, PitAssumption DEF IInv, TimerOK
<1>3. /\ TableOK(st, current, taskCount)
      /\ QueueOK(q, st)
      /\ Within(q, sleepQueue)
  <2>1. CASE wakes
    <3>1. w \in Slots /\ st = [state EXCEPT ![w] = "READY"]
      BY <2>1 DEF Unblocked
    <3>2. TableOK(st, current, taskCount)
      BY <2>1, <3>1, MaxTasksAssumption DEF IInv, TableOK, Slots, States
    <3>3. \A t \in Slots \ {w} : st[t] = state[t]
      BY <3>1, Zenon DEF IInv, TableOK
    <3>4. q = RemoveFromSleepQueue(sleepQueue, w)
      BY <2>1
    <3>. HIDE DEF st, q, wakes
    <3>. QED  BY <3>2, <3>3, <3>4, RemoveKeepsQueue DEF IInv
  <2>2. CASE ~wakes
    <3>1. st = state /\ q = sleepQueue
      BY <2>2
    <3>2. Within(sleepQueue, sleepQueue)
      BY DEF Within
    <3>. QED  BY <3>1, <3>2 DEF IInv
  <2>. QED  BY <2>1, <2>2
<1>. HIDE DEF st, q, wakes
<1>4. \A t \in Slots \ {id} : state'[t] = st[t]
  BY <1>1, <1>3 DEF TableOK
<1>5. /\ QueueOK(sleepQueue', state')
      /\ Within(sleepQueue', q)
  BY <1>1, <1>3, <1>4, RemoveKeepsQueue, Zenon
<1>6. Within(sleepQueue', sleepQueue)
  BY <1>3, <1>5 DEF Within
<1>7. Covers(sleepQueue', pitRemaining')
  BY <1>2, <1>6, CoversMonotonic DEF IInv, QueueOK, TimerOK
<1>8. TimerOK(pitRemaining', quantumElapsed')
  BY <1>1, <1>2, QuantumAssumption, PitAssumption DEF IInv, TimerOK
<1>9. TableOK(state', current, taskCount)
  BY <1>1, <1>3, MaxTasksAssumption DEF TableOK, Slots, States
<1>. QED  BY <1>1, <1>5, <1>7, <1>8, <1>9 DEF IInv

-----------------------------------------------------------------------------
(* The theorems.                                                             *)

\* The table that init() sets up, with idle running, satisfies the invariant.
LEMMA InitIInv == Init => IInv
<1> SUFFICES ASSUME Init  PROVE IInv
  OBVIOUS
<1>1. TableOK(state, current, taskCount)
  BY MaxTasksAssumption DEF Init, TableOK, Slots, States
<1>2. sleepQueue = << >> /\ sleepQueue \in Seq(Entry) /\ Len(sleepQueue) = 0
  BY DEF Init
<1>3. QueueOK(sleepQueue, state) /\ Covers(sleepQueue, pitRemaining)
  BY <1>2 DEF QueueOK, Covers, Distinct, Sorted, Sleepers
<1>4. TimerOK(pitRemaining, quantumElapsed)
  BY QuantumAssumption, PitAssumption DEF Init, TimerOK
<1>. QED  BY <1>1, <1>3, <1>4 DEF IInv, Init, PriorityIdle

\* Every operation keeps the invariant.
LEMMA NextIInv == IInv /\ [Next]_vars => IInv'
<1> SUFFICES ASSUME IInv, [Next]_vars  PROVE IInv'
  OBVIOUS
<1>1. CASE Tick
  BY <1>1, TickStep
<1>2. ASSUME NEW w \in Slots \cup {-1}, ExitCurrentTask(w)
      PROVE  IInv'
  BY <1>2, ExitStep DEF ExitCurrentTask, IInv
<1>3. ASSUME NEW w \in Slots \cup {-1}, TickExit(w)
      PROVE  IInv'
  <2> DEFINE q == Shift(sleepQueue, pitRemaining)
  <2>1. pitRemaining \in Int
    BY PitAssumption DEF IInv, TimerOK
  <2>2. QueueOK(q, state)
    BY <2>1, ShiftProperties DEF IInv, QueueOK
  <2>. QED  BY <1>3, <2>2, ExitStep DEF TickExit
<1>4. ASSUME NEW id \in Slots, NEW w \in Slots \cup {-1}, KillTask(id, w)
      PROVE  IInv'
  BY <1>4, KillStep
<1>5. ASSUME NEW id \in Slots, UnblockTask(id) \/ SendSignalWake(id)
      PROVE  IInv'
  BY <1>5, UnblockStep
<1>6. ASSUME NEW s \in Slots, NEW p \in Priorities, AddTask(s, p) \/ AddTaskNoStack(s, p)
      PROVE  IInv'
  BY <1>6, AddTaskStep, PrioritiesAssumption
<1>7. ASSUME NEW s \in Slots, AddTaskAndBlock(s)
      PROVE  IInv'
  <2>1. 4 \in 0 .. 8
    OBVIOUS
  <2>. QED  BY <1>7, <2>1, AddTaskStep
<1>8. CASE BlockCurrentTask
  BY <1>8, BlockStep
<1>9. ASSUME NEW ms \in SleepMs, Sleep(ms)
      PROVE  IInv'
  BY <1>9, SleepStep
<1>10. CASE UNCHANGED vars
  BY <1>10 DEF vars, IInv
<1>. QED
  BY <1>1, <1>2, <1>3, <1>4, <1>5, <1>6, <1>7, <1>8, <1>9, <1>10 DEF Next

\* The inductive invariant holds in every reachable state.
THEOREM Invariance == Spec => []IInv
BY InitIInv, NextIInv, PTL DEF Spec

\* Every variable of the scheduler keeps its type: in particular the current
\* task is always a used slot and the timer always armed within its range.
THEOREM TypeCorrectness == Spec => []TypeOK
<1>1. IInv => TypeOK
  BY DEF IInv, TableOK, QueueOK, TimerOK, TypeOK, Entry
<1>. QED  BY <1>1, Invariance, PTL

\* At most the current task is RUNNING, and it is never a DEAD one.
THEOREM OneRunningTask == Spec => []OnlyCurrentRuns
<1>1. IInv => OnlyCurrentRuns
  BY DEF IInv, TableOK, OnlyCurrentRuns
<1>. QED  BY <1>1, Invariance, PTL

\* switchTo's panic "target task is not READY" cannot be reached: whatever
\* task findNext picks can be switched to.
THEOREM SwitchNeverPanics == Spec => []NextIsReady
<1>1. IInv => NextIsReady
  <2> SUFFICES ASSUME IInv, NEW n \in Slots, FindNext(n, state), n # current
               PROVE  state[n] = "READY"
    BY DEF NextIsReady
  <2>. QED  BY FindNextReady DEF IInv, TableOK
<1>. QED  BY <1>1, Invariance, PTL

\* The sleep queue holds BLOCKED tasks only, each of them once, and never
\* idle.
THEOREM SleepQueueConsistent == Spec => []SleepersBlocked
<1>1. IInv => SleepersBlocked
  BY DEF IInv, QueueOK, SleepersBlocked, Sleepers, Distinct
<1>. QED  BY <1>1, Invariance, PTL

\* The tickless timer is never armed too late for a sleeper or for the end of
\* the quantum.
THEOREM TimerNeverLate == Spec => []TimerCovers
<1>1. IInv => TimerCovers
  BY DEF IInv, Covers, TimerOK, TimerCovers
<1>. QED  BY <1>1, Invariance, PTL

\* A tick that reaches the sleep queue leaves no expired sleeper in it.
THEOREM TickWakesSleepers == Spec => TickWakesAllExpired
<1>1. ASSUME IInv, Tick
      PROVE  \A i \in 1 .. Len(sleepQueue') : sleepQueue'[i].due > 0
  <2> DEFINE q == Shift(sleepQueue, pitRemaining)
  <2>1. pitRemaining \in Int
    BY <1>1, PitAssumption DEF IInv, TimerOK
  <2>2. q \in Seq(Entry) /\ Sorted(q) /\ Len(q) \in Nat
    BY <1>1, <2>1, ShiftProperties DEF IInv, QueueOK
  <2>. HIDE DEF q
  <2>3. PICK n \in 0 .. Len(q) :
          PopsExpired(q, n) /\ (TickKeep(q, n) \/ TickRenew(q, n) \/ TickSwitch(q, n))
    BY <1>1 DEF Tick, q
  <2> DEFINE rest == SubSeq(q, n + 1, Len(q))
  <2>4. sleepQueue' = rest
    BY <2>3 DEF TickKeep, TickRenew, TickSwitch
  <2>5. Len(rest) = Len(q) - n /\ \A i \in 1 .. Len(rest) : rest[i] = q[i + n]
    BY <2>2, PopProperties
  <2>. HIDE DEF rest
  <2> SUFFICES ASSUME NEW i \in 1 .. Len(rest)  PROVE rest[i].due > 0
    BY <2>4
  <2>6. n + 1 \in 1 .. Len(q) /\ i + n \in 1 .. Len(q) /\ n + 1 <= i + n /\ n < Len(q)
    BY <2>2, <2>5
  <2>7. q[n + 1].due > 0 /\ q[n + 1].due <= q[i + n].due
    BY <2>2, <2>3, <2>6 DEF PopsExpired, Sorted
  <2>8. q[n + 1].due \in Int /\ q[i + n].due \in Int
    BY <2>2, <2>6, EntryFields
  <2>. QED  BY <2>5, <2>7, <2>8
<1>2. IInv /\ [Next]_vars =>
        [Tick => \A i \in 1 .. Len(sleepQueue') : sleepQueue'[i].due > 0]_vars
  BY <1>1
<1>. QED  BY <1>2, Invariance, PTL DEF Spec, TickWakesAllExpired

\* When the CPU passes from a task that lives on to another one, no READY task
\* had a better priority.
THEOREM HighestPriorityRuns == Spec => BestPriorityNext
<1> DEFINE A == current' # current /\ state'[current] # "DEAD" =>
                  \A t \in Slots \ {current} :
                    state'[t] = "READY" => priority[current'] <= priority[t]
<1>1. ASSUME IInv, NEW q, NEW n, TickSwitch(q, n)
      PROVE  A
  <2> DEFINE st == Woken(q, n)
  <2>1. PICK next \in Slots \ {current} :
          FindNext(next, st) /\ current' = next /\ state' = Switched(st, next)
    BY <1>1 DEF TickSwitch, SwitchTo
  <2> SUFFICES ASSUME NEW t \in Slots \ {current}, state'[t] = "READY"
               PROVE  priority[next] <= priority[t]
    BY <2>1
  <2>2. st[t] = "READY"
    BY <2>1 DEF Switched
  <2>3. t \in 0 .. taskCount - 1
    <3>1. state[t] # "DEAD"
      BY <2>2 DEF Woken
    <3>. QED  BY <1>1, <3>1, MaxTasksAssumption DEF IInv, TableOK, Slots
  <2>4. t \in Contenders(st)
    BY <2>2, <2>3 DEF Contenders
  <2>5. Wins(next, t)
    BY <2>1, <2>4 DEF FindNext
  <2>6. priority[next] \in Int /\ priority[t] \in Int
    BY <1>1 DEF IInv, PriorityIdle
  <2>. QED  BY <2>5, <2>6 DEF Wins
<1>2. ASSUME IInv, NEW q, NEW w, ExitTo(q, w)
      PROVE  A
  <2> DEFINE st == [state EXCEPT ![current] = "DEAD"]
  <2>1. current \in Slots /\ st[current] = "DEAD"
    BY <1>2, MaxTasksAssumption DEF IInv, TableOK, Slots
  <2>2. PICK next \in Slots :
          /\ FindNext(next, st)
          /\ \/ state' = Switched(st, next)
             \/ /\ Switched(st, next)[w] = "BLOCKED"
                /\ state' = [Switched(st, next) EXCEPT ![w] = "READY"]
    BY <1>2, Zenon DEF ExitTo, Unblocked
  <2>3. next # current
    BY <1>2, <2>2 DEF ExitTo, FindNext, Contenders
  <2>4. Switched(st, next)[current] = "DEAD"
    BY <2>1, <2>3 DEF Switched
  <2>5. state'[current] = "DEAD"
    BY <2>1, <2>2, <2>4 DEF Switched
  <2>. QED  BY <2>5
<1>3. ASSUME IInv, Next
      PROVE  A
  <2>1. CASE Tick
    <3>1. PICK n : LET q == Shift(sleepQueue, pitRemaining)
                   IN TickKeep(q, n) \/ TickRenew(q, n) \/ TickSwitch(q, n)
      BY <2>1 DEF Tick
    <3>. QED  BY <1>1, <1>3, <3>1, Zenon DEF TickKeep, TickRenew
  <2>2. CASE \E w \in Slots \cup {-1} : ExitCurrentTask(w) \/ TickExit(w)
    BY <1>2, <1>3, <2>2 DEF ExitCurrentTask, TickExit
  <2>3. CASE current' = current
    BY <2>3
  <2>. QED
    BY <1>3, <2>1, <2>2, <2>3, Zenon
       DEF Next, KillTask, UnblockTask, SendSignalWake, AddTask, AddTaskNoStack,
           AddTaskAndBlock, BlockCurrentTask, Sleep
<1>4. IInv /\ [Next]_vars => [A]_vars
  BY <1>3
<1>. QED  BY <1>4, Invariance, PTL DEF Spec, BestPriorityNext

-----------------------------------------------------------------------------
(* The loop of findNext.  FindNext says what it looks for; that the loop   *)
(* finds it is an induction over its rounds.                               *)

INSTANCE WellFoundedInduction

\* What holds of 0, and of i whenever it holds of i - 1, holds up to n: a set
\* of numbers without a least element is empty.
LEMMA UpTo ==
  ASSUME NEW n \in Nat, NEW S, 0 \in S,
         \A i \in 1 .. n : i - 1 \in S => i \in S
  PROVE  0 .. n \subseteq S
<1> DEFINE T == (0 .. n) \ S
<1>1. SUFFICES ASSUME T # {} PROVE FALSE
  BY Zenon
<1>2. T \subseteq Nat
  OBVIOUS
<1>3. PICK x \in T : \A y \in T : <<y, x>> \notin OpToRel(<, Nat)
  BY <1>1, <1>2, NatLessThanWellFounded, WFMin, Zenon
<1>4. x \in 1 .. n /\ x - 1 \in 0 .. n
  OBVIOUS
<1>5. x - 1 \notin T
  <2>1. <<x - 1, x>> \in {ss \in Nat \X Nat : ss[1] < ss[2]}
    BY <1>4
  <2>. QED  BY <1>3, <2>1, Zenon DEF OpToRel
<1>. QED  BY <1>4, <1>5, Zenon

\* One round of findNext's loop, from best.
Round(best, i) ==
  LET idx == (current + i) % taskCount
  IN IF best.prio # 0 /\ state[idx] = "READY" /\ priority[idx] < best.prio
       THEN [idx |-> idx, prio |-> priority[idx]] ELSE best

NoBest == [idx |-> -1, prio |-> PriorityIdle + 1]

\* The loop runs one round after the other.
LEMMA ScanRounds ==
  /\ Scan[0] = NoBest
  /\ \A i \in 1 .. MaxTasks - 1 : Scan[i] = Round(Scan[i - 1], i)
<1> DEFINE F(f, n) == f = [i \in 0 .. n |-> IF i = 0 THEN NoBest ELSE Round(f[i - 1], i)]
           S == {n \in Nat : \E f : F(f, n)}
<1>1. MaxTasks - 1 \in Nat
  BY MaxTasksAssumption
<1>2. 0 \in S
  <2>1. F([i \in 0 .. 0 |-> NoBest], 0)
    OBVIOUS
  <2>. QED  BY <2>1, Zenon
<1>3. ASSUME NEW n \in 1 .. MaxTasks - 1, n - 1 \in S PROVE n \in S
  <2>0. n \in Nat /\ n # 0
    BY <1>1
  <2>1. PICK f : F(f, n - 1)
    BY <1>3
  <2> DEFINE g == [i \in 0 .. n |-> IF i = n THEN Round(f[n - 1], n) ELSE f[i]]
  <2>2. ASSUME NEW i \in 0 .. n
        PROVE  g[i] = IF i = 0 THEN NoBest ELSE Round(g[i - 1], i)
    <3>1. CASE i = n
      <4>1. n - 1 \in 0 .. n /\ n \in 0 .. n /\ n - 1 # n /\ n # 0
        BY <2>0
      <4>2. g[n - 1] = f[n - 1] /\ g[n] = Round(f[n - 1], n)
        BY <4>1, Zenon
      <4>. QED  BY <3>1, <4>1, <4>2, Zenon
    <3>2. CASE i = 0
      <4>1. 0 \in 0 .. n /\ 0 # n /\ 0 \in 0 .. n - 1
        BY <2>0
      <4>. QED  BY <2>1, <3>2, <4>1, Zenon
    <3>3. CASE i # n /\ i # 0
      <4>1. i \in 0 .. n - 1 /\ i - 1 \in 0 .. n /\ i - 1 # n
        BY <2>0, <3>3
      <4>2. g[i] = f[i] /\ g[i - 1] = f[i - 1]
        BY <3>3, <4>1, Zenon
      <4>3. f[i] = Round(f[i - 1], i)
        BY <2>1, <3>3, <4>1, Zenon
      <4>. QED  BY <3>3, <4>2, <4>3, Zenon
    <3>. QED  BY <3>1, <3>2, <3>3, Zenon
  <2>3. F(g, n)
    <3>1. g = [i \in 0 .. n |-> g[i]]
      BY Zenon
    <3> HIDE DEF g
    <3>. QED  BY <2>2, <3>1, Zenon
  <2>. QED  BY <2>0, <2>3, Zenon
<1>4. 0 .. MaxTasks - 1 \subseteq S
  <2> HIDE DEF S
  <2>. QED  BY <1>1, <1>2, <1>3, UpTo, Zenon
<1>5. PICK f : F(f, MaxTasks - 1)
  BY <1>1, <1>4
<1>6. Scan = CHOOSE g : F(g, MaxTasks - 1)
  BY Zenon DEF Scan, NoBest, Round
<1>7. F(Scan, MaxTasks - 1)
  BY <1>5, <1>6, Zenon
<1>8. 0 \in 0 .. MaxTasks - 1 /\ \A i \in 1 .. MaxTasks - 1 : i \in 0 .. MaxTasks - 1 /\ i # 0
  BY <1>1
<1>. QED  BY <1>7, <1>8, Zenon

\* Slots, counted from the one behind c around a ring of k of them.
LEMMA RingPlace ==
  ASSUME NEW k \in Nat \ {0}, NEW x \in 0 .. k - 1
  PROVE  x % k = x /\ (x + k) % k = x /\ (x - k) % k = x
OBVIOUS

\* The i-th slot that the loop looks at, in a ring of k slots from c on.
Place(k, c, i, x) ==
  x = (c + i) % k /\ x \in (0 .. k - 1) \ {c} /\ (x - c - 1) % k = i - 1

LEMMA RingSlot ==
  ASSUME NEW k \in Nat \ {0}, NEW c \in 0 .. k - 1, NEW i \in 1 .. k - 1
  PROVE  Place(k, c, i, (c + i) % k)
<1>1. i - 1 \in 0 .. k - 1 /\ (i - 1) % k = i - 1 /\ (i - 1 - k) % k = i - 1
  <2>1. i - 1 \in 0 .. k - 1
    OBVIOUS
  <2>. QED  BY <2>1, RingPlace, Zenon
<1>2. CASE c + i < k
  <2>1. c + i \in 0 .. k - 1
    BY <1>2
  <2>2. (c + i) % k = c + i
    BY <2>1, RingPlace, Zenon
  <2>3. c + i - c - 1 = i - 1
    OBVIOUS
  <2>. QED  BY <1>1, <2>1, <2>2, <2>3 DEF Place
<1>3. CASE ~(c + i < k)
  <2>1. c + i - k \in 0 .. k - 1 /\ c + i - k + k = c + i
    BY <1>3
  <2>2. (c + i) % k = c + i - k
    BY <2>1, RingPlace
  <2>3. c + i - k - c - 1 = i - 1 - k
    OBVIOUS
  <2>. QED  BY <1>1, <2>1, <2>2, <2>3 DEF Place
<1>. QED  BY <1>2, <1>3

\* The loop looks at every slot but c, at each one once.
LEMMA RingIsOnto ==
  ASSUME NEW k \in Nat \ {0}, NEW c \in 0 .. k - 1, NEW t \in (0 .. k - 1) \ {c}
  PROVE  \E i \in 1 .. k - 1 : Place(k, c, i, t)
<1>1. CASE t > c
  <2>1. PICK i \in 1 .. k - 1 : c + i = t
    BY <1>1
  <2>2. t = (c + i) % k
    BY <2>1, RingPlace
  <2>3. Place(k, c, i, (c + i) % k)
    BY RingSlot, Zenon
  <2>. QED  BY <2>2, <2>3, Zenon
<1>2. CASE t < c
  <2>1. PICK i \in 1 .. k - 1 : c + i = t + k
    BY <1>2
  <2>2. t = (c + i) % k
    BY <2>1, RingPlace
  <2>3. Place(k, c, i, (c + i) % k)
    BY RingSlot, Zenon
  <2>. QED  BY <2>2, <2>3, Zenon
<1>. QED  BY <1>1, <1>2

\* The READY tasks among the first i slots that the loop looks at.
Seen(i) == {t \in Contenders(state) : Ring(t) < i}

\* What the loop knows after i rounds.
Best(best, i) ==
  \/ best = NoBest /\ Seen(i) = {}
  \/ /\ best.idx \in Seen(i) /\ best.prio = priority[best.idx]
     /\ \A u \in Seen(i) : Wins(best.idx, u)

LEMMA SeenNext ==
  ASSUME IInv, NEW i \in 1 .. taskCount - 1
  PROVE  LET idx == (current + i) % taskCount
         IN /\ idx \in Slots /\ idx \in 0 .. taskCount - 1 /\ Ring(idx) = i - 1
            /\ Seen(i) = IF state[idx] = "READY" THEN Seen(i - 1) \cup {idx} ELSE Seen(i - 1)
<1> DEFINE idx == (current + i) % taskCount
<1>1. /\ taskCount \in Nat \ {0} /\ current \in 0 .. taskCount - 1 /\ taskCount <= MaxTasks
      /\ MaxTasks \in Nat
  BY MaxTasksAssumption DEF IInv, TableOK
<1>2. idx \in (0 .. taskCount - 1) \ {current} /\ Ring(idx) = i - 1
  <2>1. Place(taskCount, current, i, idx)
    BY <1>1, RingSlot, Zenon
  <2>. QED  BY <2>1, Zenon DEF Place, Ring
<1>3. ASSUME NEW t \in Contenders(state)
      PROVE  Ring(t) \in Nat /\ (Ring(t) < i <=> Ring(t) < i - 1 \/ t = idx)
  <2>1. t \in (0 .. taskCount - 1) \ {current}
    BY DEF Contenders
  <2>2. PICK j \in 1 .. taskCount - 1 : t = (current + j) % taskCount /\ Ring(t) = j - 1
    <3>1. PICK j \in 1 .. taskCount - 1 : Place(taskCount, current, j, t)
      BY <1>1, <2>1, RingIsOnto, Zenon
    <3>. QED  BY <3>1, Zenon DEF Place, Ring
  <2> HIDE DEF idx
  <2>3. t = idx => j = i
    BY <1>2, <2>2
  <2>4. j = i => t = idx
    BY <2>2 DEF idx
  <2>. QED  BY <2>2, <2>3, <2>4
<1> HIDE DEF idx
<1>4. idx \in Slots
  BY <1>1, <1>2 DEF Slots
<1>5. state[idx] = "READY" <=> idx \in Contenders(state)
  BY <1>2, Zenon DEF Contenders
<1>6. Seen(i) = IF state[idx] = "READY" THEN Seen(i - 1) \cup {idx} ELSE Seen(i - 1)
  BY <1>3, <1>5, Zenon DEF Seen
<1>. QED  BY <1>2, <1>4, <1>6, Zenon DEF idx

\* A round keeps it.
LEMMA RoundKeeps ==
  ASSUME IInv, NEW i \in 1 .. taskCount - 1, NEW best, Best(best, i - 1)
  PROVE  Best(Round(best, i), i)
<1>1. PICK idx : /\ idx = (current + i) % taskCount
                 /\ idx \in Slots /\ Ring(idx) = i - 1
                 /\ Seen(i) = IF state[idx] = "READY" THEN Seen(i - 1) \cup {idx} ELSE Seen(i - 1)
  BY SeenNext, Zenon
<1>2. Round(best, i) = IF best.prio # 0 /\ state[idx] = "READY" /\ priority[idx] < best.prio
                         THEN [idx |-> idx, prio |-> priority[idx]] ELSE best
  BY <1>1, Zenon DEF Round
<1>3. \A t \in Slots : priority[t] \in 0 .. PriorityIdle
  BY DEF IInv
<1>4. Seen(i - 1) \subseteq Slots /\ \A t \in Seen(i - 1) : Ring(t) < i - 1
  BY MaxTasksAssumption DEF Seen, Contenders, IInv, TableOK, Slots
<1>5. \A t \in Seen(i - 1) \cup {idx} : Ring(t) \in Int
  BY <1>1 DEF Ring, IInv, TableOK, Seen, Contenders
<1>6. CASE state[idx] # "READY"
  BY <1>1, <1>2, <1>6, Zenon DEF Best
<1>7. CASE state[idx] = "READY"
  <2>1. Seen(i) = Seen(i - 1) \cup {idx}
    BY <1>1, <1>7, Zenon
  <2>2. Wins(idx, idx)
    BY <1>1, <1>5 DEF Wins
  <2>3. CASE best = NoBest /\ Seen(i - 1) = {}
    <3>1. best.prio # 0 /\ priority[idx] < best.prio
      BY <1>1, <1>3, <2>3 DEF NoBest, PriorityIdle
    <3>2. Round(best, i) = [idx |-> idx, prio |-> priority[idx]]
      BY <1>2, <1>7, <3>1, Zenon
    <3>. QED  BY <2>1, <2>2, <2>3, <3>2 DEF Best
  <2>4. CASE /\ best.idx \in Seen(i - 1) /\ best.prio = priority[best.idx]
             /\ \A u \in Seen(i - 1) : Wins(best.idx, u)
    <3>1. /\ priority[idx] \in 0 .. PriorityIdle /\ priority[best.idx] \in 0 .. PriorityIdle
          /\ Ring(best.idx) < Ring(idx) /\ Ring(idx) \in Int /\ Ring(best.idx) \in Int
      BY <1>1, <1>3, <1>4, <1>5, <2>4, Zenon
    <3>2. CASE priority[idx] < priority[best.idx]
      <4>1. Round(best, i) = [idx |-> idx, prio |-> priority[idx]]
        BY <1>2, <1>7, <2>4, <3>1, <3>2
      <4>2. ASSUME NEW u \in Seen(i - 1) PROVE Wins(idx, u)
        <5>1. Wins(best.idx, u) /\ priority[u] \in 0 .. PriorityIdle
          BY <1>3, <1>4, <2>4, Zenon
        <5>. QED  BY <3>1, <3>2, <5>1 DEF Wins
      <4>. QED  BY <2>1, <2>2, <4>1, <4>2 DEF Best
    <3>3. CASE ~(priority[idx] < priority[best.idx])
      <4>1. Round(best, i) = best
        BY <1>2, <2>4, <3>3, Zenon
      <4>2. Wins(best.idx, idx)
        BY <3>1, <3>3 DEF Wins
      <4>. QED  BY <2>1, <2>4, <4>1, <4>2, Zenon DEF Best
    <3>. QED  BY <3>2, <3>3, Zenon
  <2>. QED  BY <2>3, <2>4, Zenon DEF Best
<1>. QED  BY <1>6, <1>7, Zenon

\* The scan of findNext returns the task that FindNext describes: the loop's
\* invariant is Best, that bestIdx is the due one of the READY tasks seen.
LEMMA ScanFinds ==
  ASSUME IInv, taskCount > 1
  PROVE  \A n \in Slots : FindNext(n, state) <=> n = FindNextLoop
<1>1. /\ taskCount \in Nat \ {0, 1} /\ current \in 0 .. taskCount - 1
      /\ taskCount <= MaxTasks /\ MaxTasks \in Nat
  BY MaxTasksAssumption DEF IInv, TableOK
<1> DEFINE S == {i \in Nat : i < taskCount => Best(Scan[i], i)}
           last == taskCount - 1
           best == Scan[last]
<1>2. Best(Scan[0], 0)
  <2>1. \A t \in Contenders(state) : ~(Ring(t) < 0)
    BY <1>1 DEF Ring, Contenders
  <2>. QED  BY <2>1, ScanRounds, Zenon DEF Best, Seen
<1>3. ASSUME NEW i \in 1 .. last, i - 1 \in S PROVE i \in S
  <2>1. i \in Nat /\ i - 1 < taskCount /\ i \in 1 .. taskCount - 1 /\ i \in 1 .. MaxTasks - 1
    BY <1>1
  <2>2. Best(Scan[i - 1], i - 1)
    BY <1>3, <2>1, Zenon
  <2>3. Best(Round(Scan[i - 1], i), i)
    BY <2>1, <2>2, RoundKeeps, Zenon
  <2>. QED  BY <2>1, <2>3, ScanRounds, Zenon
<1>4. Best(best, last)
  <2>1. last \in Nat /\ last < taskCount /\ last \in 0 .. last
    BY <1>1
  <2>2. 0 \in S
    BY <1>2
  <2>3. 0 .. last \subseteq S
    <3> HIDE DEF S, last
    <3>. QED  BY <1>3, <2>1, <2>2, UpTo, Zenon
  <2>. QED  BY <2>1, <2>3, Zenon
<1>5. ASSUME NEW t \in Contenders(state)
      PROVE  /\ t \in Slots /\ t >= 0 /\ Ring(t) \in Int /\ Ring(t) < last
             /\ priority[t] \in Int /\ t = (current + Ring(t) + 1) % taskCount
  <2>1. t \in (0 .. taskCount - 1) \ {current}
    BY DEF Contenders
  <2>2. PICK j \in 1 .. taskCount - 1 : t = (current + j) % taskCount /\ Ring(t) = j - 1
    <3>1. PICK j \in 1 .. taskCount - 1 : Place(taskCount, current, j, t)
      BY <1>1, <2>1, RingIsOnto, Zenon
    <3>. QED  BY <3>1, Zenon DEF Place, Ring
  <2>3. current + Ring(t) + 1 = current + j /\ Ring(t) \in Int /\ Ring(t) < last
    BY <1>1, <2>2
  <2>4. t \in Slots /\ t >= 0
    BY <1>1, <2>1 DEF Slots
  <2>5. priority[t] \in Int
    BY <2>4 DEF IInv
  <2>. QED  BY <2>2, <2>3, <2>4, <2>5, Zenon
<1>6. Seen(last) = Contenders(state)
  BY <1>5, Zenon DEF Seen
<1>7. FindNextLoop = IF best.idx >= 0 THEN best.idx ELSE 0
  BY DEF FindNextLoop
<1> HIDE DEF best, last
<1>8. CASE Contenders(state) = {}
  <2>1. best.idx = -1
    BY <1>4, <1>6, <1>8 DEF Best, NoBest
  <2>2. FindNextLoop = 0
    BY <1>7, <2>1
  <2>. QED  BY <1>8, <2>2, Zenon DEF FindNext
<1>9. CASE Contenders(state) # {}
  <2>1. best.idx \in Contenders(state) /\ \A u \in Contenders(state) : Wins(best.idx, u)
    BY <1>4, <1>6, <1>9, Zenon DEF Best
  <2>2. FindNextLoop = best.idx
    BY <1>5, <1>7, <2>1
  <2>3. FindNext(best.idx, state)
    BY <1>9, <2>1, Zenon DEF FindNext
  <2>4. ASSUME NEW n \in Slots, FindNext(n, state) PROVE n = best.idx
    <3>1. n \in Contenders(state) /\ Wins(n, best.idx) /\ Wins(best.idx, n)
      BY <1>9, <2>1, <2>4, Zenon DEF FindNext
    <3>2. Ring(n) = Ring(best.idx)
      BY <1>5, <2>1, <3>1 DEF Wins
    <3>. QED  BY <1>5, <2>1, <3>1, <3>2, Zenon
  <2>. QED  BY <2>2, <2>3, <2>4, Zenon
<1>. QED  BY <1>8, <1>9, Zenon

\* findNext's scan, with its wrap-around, its strict comparison and its early
\* exit at PRIORITY_HIGH, returns the READY task that the round robin over the
\* best priority is due to run, and idle when there is none.
THEOREM ScanFindsDueTask == Spec => []ScanIsRoundRobin
<1>1. IInv => ScanIsRoundRobin
  BY ScanFinds, Zenon DEF ScanIsRoundRobin
<1>. QED  BY <1>1, Invariance, PTL

-----------------------------------------------------------------------------
(* The size of the sleep queue.                                            *)

INSTANCE FiniteSetTheorems

\* sleep() always finds room in the fixed array sleepQueue_: by the pigeonhole
\* principle, as the sleepers are different tasks and none of them is idle.
THEOREM SleepQueueNeverOverflows == Spec => []SleepQueueFits
<1>1. IInv => SleepQueueFits
  <2> SUFFICES ASSUME IInv, ~(Len(sleepQueue) < MaxTasks)
               PROVE  FALSE
    BY DEF SleepQueueFits
  <2> DEFINE f == [i \in 1 .. Len(sleepQueue) |-> sleepQueue[i].task]
  <2>1. sleepQueue \in Seq(Entry) /\ Len(sleepQueue) \in Nat
    BY DEF IInv, QueueOK
  <2>2. \A i \in 1 .. Len(sleepQueue) : sleepQueue[i].task \in 1 .. MaxTasks - 1
    <3> TAKE i \in 1 .. Len(sleepQueue)
    <3>1. sleepQueue[i].task \in Slots /\ sleepQueue[i].task # 0
      BY <2>1, EntryFields DEF IInv, QueueOK, Sleepers
    <3>. QED  BY <3>1, MaxTasksAssumption DEF Slots
  <2>3. f \in [1 .. Len(sleepQueue) -> 1 .. MaxTasks - 1]
    BY <2>2
  <2>4. /\ IsFiniteSet(1 .. Len(sleepQueue))
        /\ Cardinality(1 .. Len(sleepQueue)) = IF 1 > Len(sleepQueue) THEN 0
                                               ELSE Len(sleepQueue) - 1 + 1
    BY <2>1, FS_Interval
  <2>5. /\ IsFiniteSet(1 .. MaxTasks - 1)
        /\ Cardinality(1 .. MaxTasks - 1) = IF 1 > MaxTasks - 1 THEN 0
                                            ELSE (MaxTasks - 1) - 1 + 1
    BY MaxTasksAssumption, FS_Interval
  <2>6. Cardinality(1 .. MaxTasks - 1) < Cardinality(1 .. Len(sleepQueue))
    BY <2>1, <2>4, <2>5, MaxTasksAssumption
  <2> DEFINE S == 1 .. Len(sleepQueue)
             T == 1 .. MaxTasks - 1
  <2>7. /\ IsFiniteSet(S) /\ IsFiniteSet(T) /\ Cardinality(T) < Cardinality(S)
        /\ f \in [S -> T]
    BY <2>3, <2>4, <2>5, <2>6
  <2>. HIDE DEF S, T, f
  <2>8. \E x, y \in S : x # y /\ f[x] = f[y]
    BY <2>7, FS_PigeonHole
  <2>. QED  BY <2>8 DEF IInv, QueueOK, Distinct, S, f
<1>. QED  BY <1>1, Invariance, PTL
=============================================================================
