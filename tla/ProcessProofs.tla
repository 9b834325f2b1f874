---------------------------- MODULE ProcessProofs ----------------------------
(***************************************************************************)
(* Proofs about module Process for any number of slots, children, pids and *)
(* system calls.                                                           *)
(***************************************************************************)
EXTENDS Process, TLAPS

\* A leaf that names no prover goes to the SMT solver, with time to spare.
USE SMTT(30)

Pids == 0 .. PidMod - 1

Places == Creation \cup
  {"boot", "idle", "user", "exec_mark", "exec_block", "exec_halt", "wait_mark",
   "wait_block", "wait_halt", "kill_wake", "kill_mark"}

\* Where a task has yet to count the fresh slot it has read, and where it is
\* about to wipe its slot: the slot may be behind the table.
Counts == {"fork_count", "exec_count"}
Resets == {"fork_reset", "exec_reset"}

\* Where a task is going to write to tasks_[arg].
Holds == {"fork_ready", "fork_load", "fork_store", "fork_link", "exec_ready",
          "exec_load", "exec_store", "exec_mark", "kill_wake", "kill_mark"}

Stores == {"fork_store", "exec_store"}

\* A slot that a task works on is never its own, nor that of idle; and a task
\* that counts a slot counts more than its own.
ArgOK(t, at, s, p) ==
  /\ at \in Counts \cup Resets => s \in 1 .. MaxTasks /\ s # t
  /\ at \in Counts => t < s
  /\ at \in Holds => s \in Slots \ {Idle, t}
  /\ at \in Stores => p \in Pids

FamilyOK ==
  /\ pid \in [Slots -> Pids]
  /\ nextPid \in Pids
  /\ children \in [Slots -> Seq(Pids)]
  /\ \A t \in Slots : Len(children[t]) <= MaxChildren
  /\ unblockOnExit \in [Slots -> Slots \cup {-1}]
  /\ started \in 0 .. MaxCreated /\ sent \in 0 .. MaxSent

PlaceOK ==
  /\ pc \in [Slots -> Places]
  /\ arg \in [Slots -> -1 .. MaxTasks]
  /\ loaded \in [Slots -> -1 .. PidMod - 1]
  /\ pc[Idle] \in {"boot", "idle"}
  /\ pc[Idle] = "boot" => current = Idle
  /\ \A t \in Slots : ArgOK(t, pc[t], arg[t], loaded[t])

\* Idle is always there to run, and once taskCount_ has left its range the task
\* that did it is stuck before its first write behind the table.
StateOK ==
  /\ state \in [Slots -> {"DEAD", "READY", "RUNNING", "BLOCKED"}]
  /\ taskCount \in 1 .. MaxTasks + 1
  /\ current \in Slots /\ current < taskCount
  /\ \A t \in Slots : state[t] = "RUNNING" => t = current
  /\ state[current] # "DEAD"
  /\ state[Idle] \in {"READY", "RUNNING"}
  /\ taskCount > MaxTasks => pc[current] \in Resets /\ arg[current] = MaxTasks

\* The inductive invariant about the table.
TableInv == FamilyOK /\ PlaceOK /\ StateOK

-----------------------------------------------------------------------------
(* The operators.                                                          *)

\* What findNext returns can be switched to, from any states st in which idle
\* can run and nobody but the current task is RUNNING.
LEMMA FindNextProperties ==
  ASSUME TableInv, NEW st, st[Idle] \in {"READY", "RUNNING"},
         \A t \in Slots : st[t] = "RUNNING" => t = current,
         NEW n \in Slots, FindNext(n, st)
  PROVE  /\ taskCount <= MaxTasks
         /\ n < taskCount
         /\ n = current => n = Idle
         /\ n # current => st[n] = "READY"
<1>1. /\ taskCount \in 1 .. MaxTasks /\ MaxTasks \in Nat
      /\ current \in Slots /\ Idle \in Slots
  BY ProcessAssumption DEF FindNext, TableInv, StateOK, Slots, Idle
<1>2. CASE S!Contenders(st) = {}
  <2>1. n = 0
    BY <1>2 DEF FindNext, S!FindNext
  <2>2. 0 # current => st[0] # "READY"
    BY <1>1, <1>2 DEF S!Contenders
  <2>. QED  BY <1>1, <2>1, <2>2 DEF Idle
<1>3. CASE S!Contenders(st) # {}
  <2>1. n \in S!Contenders(st)
    BY <1>3 DEF FindNext, S!FindNext
  <2>. QED  BY <1>1, <2>1 DEF S!Contenders
<1>. QED  BY <1>1, <1>2, <1>3

\* switchTo makes the next task the only one that is RUNNING.
LEMMA SwitchedProperties ==
  ASSUME NEW st \in [Slots -> {"DEAD", "READY", "RUNNING", "BLOCKED"}],
         st[Idle] \in {"READY", "RUNNING"},
         \A t \in Slots : st[t] = "RUNNING" => t = current,
         NEW n \in Slots
  PROVE  LET after == S!Switched(st, n) IN
         /\ after \in [Slots -> {"DEAD", "READY", "RUNNING", "BLOCKED"}]
         /\ after[Idle] \in {"READY", "RUNNING"}
         /\ after[n] = "RUNNING"
         /\ \A t \in Slots : after[t] = "RUNNING" => t = n
<1>1. S!Slots = Slots
  BY DEF S!Slots, Slots
<1>2. Idle \in Slots
  BY ProcessAssumption DEF Slots, Idle
<1>. QED  BY <1>1, <1>2 DEF S!Switched

\* unblockTask makes a BLOCKED task READY and touches no other.
LEMMA UnblockProperties ==
  ASSUME NEW st \in [Slots -> {"DEAD", "READY", "RUNNING", "BLOCKED"}], NEW w,
         taskCount \in 1 .. MaxTasks
  PROVE  /\ Unblock(st, w) \in [Slots -> {"DEAD", "READY", "RUNNING", "BLOCKED"}]
         /\ \A t \in Slots : \/ Unblock(st, w)[t] = st[t]
                             \/ st[t] = "BLOCKED" /\ Unblock(st, w)[t] = "READY"
<1>1. 0 .. taskCount - 1 \subseteq Slots
  BY ProcessAssumption DEF Slots
<1>. QED  BY <1>1 DEF Unblock

\* Reaping takes one entry out of the list of the current task.
LEMMA ReapProperties ==
  ASSUME TableInv, Reap
  PROVE  \E i \in 1 .. Len(children[current]) :
           LET list == children[current]
               n == Len(list)
           IN /\ IsDeadChild(current, i)
              /\ reaped' = reaped \cup {list[i]}
              /\ children' \in [Slots -> Seq(Pids)]
              /\ \A t \in Slots \ {current} : children'[t] = children[t]
              /\ Len(children'[current]) = n - 1
              /\ \A j \in 1 .. n - 1 :
                   children'[current][j] = IF j = i THEN list[n] ELSE list[j]
<1> DEFINE list == children[current]
           n == Len(list)
<1>1. PICK i \in 1 .. n :
        /\ IsDeadChild(current, i)
        /\ children' = [children EXCEPT ![current] =
                          SubSeq([list EXCEPT ![i] = list[n]], 1, n - 1)]
        /\ reaped' = reaped \cup {list[i]}
  BY Zenon DEF Reap
<1>2. current \in Slots /\ list \in Seq(Pids) /\ children \in [Slots -> Seq(Pids)]
  BY DEF TableInv, FamilyOK, StateOK
<1> HIDE DEF list
<1>3. n \in Nat /\ \A j \in 1 .. n : list[j] \in Pids
  BY <1>2
<1> DEFINE swapped == [list EXCEPT ![i] = list[n]]
<1>4. \A j \in 1 .. n : swapped[j] = IF j = i THEN list[n] ELSE list[j]
  BY <1>2, <1>3
<1> HIDE DEF swapped
<1>5. \A j \in 1 .. n - 1 : swapped[j] \in Pids
  BY <1>3, <1>4
<1>6. /\ SubSeq(swapped, 1, n - 1) \in Seq(Pids)
      /\ Len(SubSeq(swapped, 1, n - 1)) = n - 1
      /\ \A j \in 1 .. n - 1 : SubSeq(swapped, 1, n - 1)[j] = swapped[j]
  <2>1. 1 \in Int /\ n - 1 \in Int /\ n >= 1
    BY <1>3
  <2> DEFINE m == n - 1
  <2>2. m \in Int /\ m >= 0 /\ \A j \in 1 .. m : swapped[j] \in Pids
    BY <1>5, <2>1
  <2> HIDE DEF m
  <2>3. /\ SubSeq(swapped, 1, m) \in Seq(Pids)
        /\ Len(SubSeq(swapped, 1, m)) = IF 1 <= m THEN m - 1 + 1 ELSE 0
        /\ \A j \in 1 .. m - 1 + 1 : SubSeq(swapped, 1, m)[j] = swapped[1 + j - 1]
    BY <2>1, <2>2
  <2>4. /\ Len(SubSeq(swapped, 1, m)) = m
        /\ \A j \in 1 .. m : SubSeq(swapped, 1, m)[j] = swapped[j]
    BY <2>2, <2>3
  <2>. QED  BY <2>3, <2>4 DEF m
<1>7. children' = [children EXCEPT ![current] = SubSeq(swapped, 1, n - 1)]
  BY <1>1 DEF swapped
<1>8. /\ children' \in [Slots -> Seq(Pids)]
      /\ \A t \in Slots \ {current} : children'[t] = children[t]
      /\ children'[current] = SubSeq(swapped, 1, n - 1)
  BY <1>2, <1>6, <1>7
<1>9. /\ Len(children'[current]) = n - 1
      /\ \A j \in 1 .. n - 1 :
           children'[current][j] = IF j = i THEN list[n] ELSE list[j]
  BY <1>3, <1>4, <1>6, <1>8
<1>. QED  BY <1>1, <1>8, <1>9 DEF list

-----------------------------------------------------------------------------
(* The table.                                                              *)

\* What a task holds as long as it is in one of these places.
LEMMA ArgHeld ==
  ASSUME NEW t, NEW at \in Holds \ Stores, NEW s \in Slots \ {Idle, t}, NEW p
  PROVE  ArgOK(t, at, s, p)
BY DEF ArgOK, Counts, Resets, Holds, Stores

LEMMA ArgCounted ==
  ASSUME NEW t \in Slots, NEW at \in Counts, NEW s \in 1 .. MaxTasks, t < s, NEW p
  PROVE  ArgOK(t, at, s, p)
BY DEF ArgOK, Counts, Resets, Holds, Stores, Slots

LEMMA ArgReset ==
  ASSUME NEW t, NEW at \in Resets, NEW s \in 1 .. MaxTasks, s # t, NEW p
  PROVE  ArgOK(t, at, s, p)
BY DEF ArgOK, Counts, Resets, Holds, Stores

\* Where it holds nothing.
Frees == {"user", "exec_block", "exec_halt", "wait_mark", "wait_block", "wait_halt"}

LEMMA ArgFree ==
  ASSUME NEW t, NEW at \in Frees, NEW s, NEW p
  PROVE  ArgOK(t, at, s, p)
BY DEF ArgOK, Counts, Resets, Holds, Stores, Frees

\* A step of task c that may also put others back to user code.
LEMMA PlaceFrame ==
  ASSUME PlaceOK, NEW c \in Slots \ {Idle},
         pc' \in [Slots -> Places], arg' \in [Slots -> -1 .. MaxTasks],
         loaded' \in [Slots -> -1 .. PidMod - 1],
         pc[Idle] # "boot", Idle \in Slots, ArgOK(c, pc'[c], arg'[c], loaded'[c]),
         \A u \in Slots \ {c} :
           \/ pc'[u] = pc[u] /\ arg'[u] = arg[u] /\ loaded'[u] = loaded[u]
           \/ u # Idle /\ pc'[u] = "user"
  PROVE  PlaceOK'
<1>1. ASSUME NEW u \in Slots  PROVE ArgOK(u, pc'[u], arg'[u], loaded'[u])
  <2>1. CASE u = c
    BY <2>1
  <2>2. CASE u # c /\ pc'[u] = "user"
    BY <2>2, ArgFree DEF Frees
  <2>3. CASE u # c /\ pc'[u] = pc[u] /\ arg'[u] = arg[u] /\ loaded'[u] = loaded[u]
    BY <2>3 DEF PlaceOK, ArgOK
  <2>. QED  BY <2>1, <2>2, <2>3
<1>2. pc'[Idle] = pc[Idle]
  BY DEF PlaceOK
<1>. QED  BY <1>1, <1>2 DEF PlaceOK

\* Going back to user code.
LEMMA LeavePlace ==
  ASSUME PlaceOK, pc[Idle] # "boot", Idle \in Slots, NEW done, Idle \notin done,
         MaxTasks \in Nat, PidMod \in Nat, Leave(done)
  PROVE  PlaceOK'
<1>1. /\ pc' \in [Slots -> Places] /\ arg' \in [Slots -> -1 .. MaxTasks]
      /\ loaded' \in [Slots -> -1 .. PidMod - 1]
      /\ pc'[Idle] = pc[Idle]
  BY DEF PlaceOK, Leave, Places
<1>2. ASSUME NEW u \in Slots  PROVE ArgOK(u, pc'[u], arg'[u], loaded'[u])
  <2>1. CASE u \in done
    BY <2>1, ArgFree DEF Leave, Frees
  <2>2. CASE u \notin done
    BY <2>2 DEF PlaceOK, Leave
  <2>. QED  BY <2>1, <2>2
<1>. QED  BY <1>1, <1>2 DEF PlaceOK

\* Going on to a place where nothing is held.
LEMMA GotoFree ==
  ASSUME PlaceOK, current \in Slots \ {Idle}, pc[Idle] # "boot", Idle \in Slots,
         NEW at \in Frees, Goto(at)
  PROVE  PlaceOK'
<1>1. /\ pc'[current] = at /\ arg' = arg /\ loaded' = loaded
      /\ \A u \in Slots \ {current} : pc'[u] = pc[u]
  BY DEF PlaceOK, Goto
<1>2. at \in Places
  BY DEF Frees, Places
<1>3. pc' \in [Slots -> Places]
  BY <1>2 DEF PlaceOK, Goto
<1>4. ArgOK(current, pc'[current], arg'[current], loaded'[current])
  BY <1>1, ArgFree
<1>. QED  BY <1>1, <1>3, <1>4, PlaceFrame DEF PlaceOK

\* Where the current task is when it makes a step of a system call.
LEMMA Caller ==
  ASSUME TableInv, current # Idle \/ \E at \in Places \ {"boot", "idle"} : At(at)
  PROVE  /\ current \in Slots \ {Idle}
         /\ pc[Idle] # "boot"
         /\ pc[current] \notin Resets => taskCount <= MaxTasks
<1>1. current \in Slots /\ Idle \in Slots /\ taskCount \in Int /\ MaxTasks \in Int
  BY ProcessAssumption DEF TableInv, StateOK, Slots, Idle
<1>2. current # Idle
  BY DEF At, TableInv, PlaceOK
<1>. QED  BY <1>1, <1>2 DEF TableInv, PlaceOK, StateOK

LEMMA TableInit == Init => TableInv
<1> SUFFICES ASSUME Init  PROVE TableInv
  OBVIOUS
<1>1. Idle \in Slots /\ 0 \in Pids /\ << >> \in Seq(Pids) /\ Len(<< >>) = 0
  BY ProcessAssumption DEF Slots, Idle, Pids
<1>2. FamilyOK
  BY <1>1, ProcessAssumption DEF Init, FamilyOK
<1>3. PlaceOK
  BY <1>1, ProcessAssumption
  DEF Init, PlaceOK, ArgOK, Places, Creation, Counts, Resets, Holds, Stores
<1>4. StateOK
  BY <1>1, ProcessAssumption DEF Init, StateOK, Idle
<1>. QED  BY <1>2, <1>3, <1>4 DEF TableInv

LEMMA TableStep == TableInv /\ [Next]_vars => TableInv'
<1> SUFFICES ASSUME TableInv, [Next]_vars  PROVE TableInv'
  OBVIOUS
<1>0. /\ Idle \in Slots /\ 1 \in Slots /\ 1 # Idle /\ FamilyOK /\ PlaceOK /\ StateOK
      /\ << >> \in Seq(Pids) /\ Len(<< >>) = 0 /\ 0 \in Pids
      /\ MaxTasks \in Nat
  BY ProcessAssumption DEF Slots, Idle, Pids, TableInv
<1> USE DEF table, family, place, log
<1>1. CASE Boot
  <2> USE <1>0, <1>1, ProcessAssumption DEF Boot, Goto, AssignPid
  <2>1. FamilyOK'
    BY DEF FamilyOK, Pids
  <2>2. PlaceOK'
    BY DEF PlaceOK, ArgOK, Places, Counts, Resets, Holds, Stores
  <2>3. StateOK'
    BY DEF StateOK, PlaceOK, Resets, Idle
  <2>. QED  BY <2>1, <2>2, <2>3 DEF TableInv
<1>3. CASE Fork \/ Execmod
  <2> USE <1>0, <1>3, ProcessAssumption DEF Fork, Execmod, Call, At
  <2>1. FamilyOK'
    BY DEF FamilyOK, FindSlot
  <2>2. /\ current \in Slots \ {Idle} /\ pc[Idle] # "boot" /\ taskCount <= MaxTasks
    BY Caller DEF Resets
  <2>3. PICK s \in Slots :
          /\ S!FindSlot(s)
          /\ \/ s = taskCount /\ UNCHANGED arg
                /\ \/ pc' = [pc EXCEPT ![current] = "fork_fresh"]
                   \/ pc' = [pc EXCEPT ![current] = "exec_fresh"]
             \/ s # taskCount /\ arg' = [arg EXCEPT ![current] = s]
                /\ \/ pc' = [pc EXCEPT ![current] = "fork_reset"]
                   \/ pc' = [pc EXCEPT ![current] = "exec_reset"]
          /\ UNCHANGED loaded
    BY DEF FindSlot
  <2>4. s # taskCount => s \in 1 .. MaxTasks /\ s # current
    BY <2>3 DEF S!FindSlot, StateOK, Slots, Idle
  <2>5. ArgOK(current, pc'[current], arg'[current], loaded'[current])
    BY <2>2, <2>3, <2>4 DEF ArgOK, PlaceOK, Counts, Resets, Holds, Stores, FindSlot
  <2>6. PlaceOK'
    <3>1. pc' \in [Slots -> Places] /\ arg' \in [Slots -> -1 .. MaxTasks]
      BY <2>2, <2>3, <2>4 DEF PlaceOK, Places, Creation
    <3>2. \A u \in Slots \ {current} :
            pc'[u] = pc[u] /\ arg'[u] = arg[u] /\ loaded'[u] = loaded[u]
      BY <2>2, <2>3 DEF PlaceOK
    <3>3. loaded' \in [Slots -> -1 .. PidMod - 1]
      BY <2>3 DEF PlaceOK
    <3>. QED  BY <2>2, <2>5, <3>1, <3>2, <3>3, PlaceFrame
  <2>7. StateOK'
    BY <2>2 DEF StateOK, FindSlot
  <2>. QED  BY <2>1, <2>6, <2>7 DEF TableInv
<1>5. CASE LoadCount
  <2> USE <1>0, <1>5, ProcessAssumption DEF LoadCount, At
  <2>1. FamilyOK'
    BY DEF FamilyOK
  <2>2. /\ current \in Slots \ {Idle} /\ pc[Idle] # "boot" /\ taskCount <= MaxTasks
    BY Caller DEF Resets, Places, Creation
  <2>3. ArgOK(current, pc'[current], arg'[current], loaded'[current])
    <3>1. pc'[current] \in Counts /\ arg'[current] = taskCount
      BY <2>2 DEF PlaceOK, Counts
    <3>2. taskCount \in 1 .. MaxTasks /\ current < taskCount
      BY <2>2 DEF StateOK
    <3>. QED  BY <2>2, <3>1, <3>2, ArgCounted, Zenon
  <2>4. PlaceOK'
    <3>1. pc' \in [Slots -> Places] /\ arg' \in [Slots -> -1 .. MaxTasks]
      BY <2>2 DEF PlaceOK, StateOK, Places, Creation
    <3>. QED  BY <2>2, <2>3, <3>1, PlaceFrame DEF PlaceOK
  <2>5. StateOK'
    BY <2>2 DEF StateOK
  <2>. QED  BY <2>1, <2>4, <2>5 DEF TableInv
<1>6. CASE StoreCount
  <2> USE <1>0, <1>6, ProcessAssumption DEF StoreCount, At, Goto
  <2>1. FamilyOK'
    BY DEF FamilyOK
  <2>2. /\ current \in Slots \ {Idle} /\ pc[Idle] # "boot"
        /\ pc[current] \in Counts /\ pc'[current] \in Resets
        /\ pc' = [pc EXCEPT ![current] = pc'[current]]
    BY Caller DEF Counts, Resets, Places, Creation, PlaceOK
  <2>3. arg[current] \in 1 .. MaxTasks /\ arg[current] # current /\ current < arg[current]
    BY <2>2 DEF PlaceOK, ArgOK
  <2>4. ArgOK(current, pc'[current], arg'[current], loaded'[current])
    BY <2>2, <2>3, ArgReset
  <2>5. PlaceOK'
    <3>1. pc' \in [Slots -> Places]
      BY <2>2 DEF PlaceOK, Places, Creation, Resets
    <3>. QED  BY <2>2, <2>4, <3>1, PlaceFrame DEF PlaceOK
  <2>6. StateOK'
    BY <2>2, <2>3 DEF StateOK, Slots
  <2>. QED  BY <2>1, <2>5, <2>6 DEF TableInv
<1>7. CASE Reset
  <2> USE <1>0, <1>7, ProcessAssumption DEF Reset, Wipe, At
  <2>1. FamilyOK'
    BY DEF FamilyOK
  <2>2. /\ current \in Slots \ {Idle} /\ pc[Idle] # "boot" /\ pc[current] \in Resets
        /\ arg[current] \in Slots /\ arg[current] # Idle /\ arg[current] # current
    BY Caller DEF Resets, Places, Creation, PlaceOK, ArgOK, Idle
  <2>3. /\ pc'[current] \in {"fork_ready", "exec_ready", "user"}
        /\ pc' \in [Slots -> Places]
        /\ arg' \in [Slots -> -1 .. MaxTasks] /\ loaded' \in [Slots -> -1 .. PidMod - 1]
        /\ \A u \in Slots \ {current} :
             pc'[u] = pc[u] /\ arg'[u] = arg[u] /\ loaded'[u] = loaded[u]
        /\ pc'[current] # "user" => arg'[current] = arg[current]
    <3>1. CASE Goto("fork_ready") \/ Goto("exec_ready")
      BY <2>2, <3>1, Zenon DEF Goto, PlaceOK, Places, Creation
    <3>2. CASE Return
      BY <2>2, <3>2 DEF Return, Leave, PlaceOK, Places
    <3>. QED  BY <3>1, <3>2
  <2>4. ArgOK(current, pc'[current], arg'[current], loaded'[current])
    <3>1. CASE pc'[current] = "user"
      BY <3>1, ArgFree DEF Frees
    <3>2. CASE pc'[current] # "user"
      <4>1. pc'[current] \in Holds \ Stores
        BY <2>3, <3>2 DEF Holds, Stores
      <4>. QED  BY <2>2, <2>3, <3>2, <4>1, ArgHeld, Zenon
    <3>. QED  BY <3>1, <3>2
  <2>5. PlaceOK'
    BY <2>2, <2>3, <2>4, PlaceFrame, Zenon
  <2>6. StateOK'
    BY <2>2 DEF StateOK, Slots
  <2>. QED  BY <2>1, <2>5, <2>6 DEF TableInv
<1>8. CASE Ready
  <2> USE <1>0, <1>8, ProcessAssumption DEF Ready, At
  <2>1. FamilyOK'
    BY DEF FamilyOK
  <2>2. PlaceOK'
    BY DEF PlaceOK, StateOK, ArgOK, Places, Creation, Counts, Resets, Holds, Stores
  <2>3. StateOK'
    BY DEF StateOK, PlaceOK, ArgOK, Resets, Holds
  <2>. QED  BY <2>1, <2>2, <2>3 DEF TableInv
<1>9. CASE LoadPid
  <2> USE <1>0, <1>9, ProcessAssumption DEF LoadPid, At
  <2>1. FamilyOK'
    BY DEF FamilyOK
  <2>2. /\ current \in Slots \ {Idle} /\ pc[Idle] # "boot" /\ taskCount <= MaxTasks
        /\ pc[current] \in Holds
    BY Caller DEF Resets, Places, Creation, Holds
  <2>3. PlaceOK'
    <3>0. nextPid \in Pids /\ nextPid \in -1 .. PidMod - 1
      BY DEF FamilyOK, Pids
    <3>1. /\ pc' \in [Slots -> Places] /\ arg' \in [Slots -> -1 .. MaxTasks]
          /\ loaded' \in [Slots -> -1 .. PidMod - 1]
      BY <2>2, <3>0 DEF PlaceOK, Places, Creation
    <3>2. /\ pc'[current] \in Holds \ (Counts \cup Resets)
          /\ arg'[current] = arg[current] /\ loaded'[current] = nextPid
      BY <2>2 DEF PlaceOK, Counts, Resets, Holds
    <3>3. ArgOK(current, pc[current], arg[current], loaded[current])
      BY <2>2 DEF PlaceOK
    <3>4. ArgOK(current, pc'[current], arg'[current], loaded'[current])
      BY <2>2, <3>0, <3>2, <3>3 DEF ArgOK
    <3>. QED  BY <2>2, <3>1, <3>4, PlaceFrame DEF PlaceOK
  <2>4. StateOK'
    BY <2>2 DEF StateOK
  <2>. QED  BY <2>1, <2>3, <2>4 DEF TableInv
<1>10. CASE StorePid
  <2> USE <1>0, <1>10, ProcessAssumption DEF StorePid, AssignPid, At
  <2>2. /\ current \in Slots \ {Idle} /\ pc[Idle] # "boot" /\ taskCount <= MaxTasks
        /\ pc[current] \in Holds /\ pc[current] \in Stores
    BY Caller DEF Resets, Places, Creation, Holds, Stores
  <2>3. arg[current] \in Slots \ {Idle, current} /\ loaded[current] \in Pids
    BY <2>2 DEF PlaceOK, ArgOK
  <2>1. FamilyOK'
    <3>1. (loaded[current] + 1) % PidMod \in Pids
      BY <2>3 DEF Pids
    <3>. QED  BY <2>3, <3>1 DEF FamilyOK
  <2>4. PlaceOK'
    <3>1. /\ pc' \in [Slots -> Places] /\ arg' \in [Slots -> -1 .. MaxTasks]
          /\ loaded' \in [Slots -> -1 .. PidMod - 1]
      <4>1. -1 \in -1 .. PidMod - 1
        OBVIOUS
      <4>. QED  BY <2>2, <4>1, Zenon DEF PlaceOK, Places, Creation
    <3>2. pc'[current] \in Holds \ Stores /\ arg'[current] = arg[current]
      BY <2>2 DEF PlaceOK, Holds, Stores
    <3>3. ArgOK(current, pc'[current], arg'[current], loaded'[current])
      BY <2>3, <3>2, ArgHeld, Zenon
    <3>4. /\ PlaceOK /\ Idle \in Slots
          /\ \A u \in Slots \ {current} :
               pc'[u] = pc[u] /\ arg'[u] = arg[u] /\ loaded'[u] = loaded[u]
      BY <2>2 DEF PlaceOK
    <3> HIDE <1>0, <1>10, ProcessAssumption DEF StorePid, AssignPid, At
    <3>. QED  BY <2>2, <3>1, <3>3, <3>4, PlaceFrame, Zenon
  <2>5. StateOK'
    BY <2>2 DEF StateOK
  <2>. QED  BY <2>1, <2>4, <2>5 DEF TableInv
<1>11. CASE ForkLink
  <2> USE <1>0, <1>11, ProcessAssumption DEF ForkLink, At
  <2>1. /\ current \in Slots \ {Idle} /\ pc[Idle] # "boot" /\ taskCount <= MaxTasks
        /\ pc[current] \in Holds
    BY Caller DEF Resets, Places, Creation, Holds
  <2>2. arg[current] \in Slots
    BY <2>1 DEF PlaceOK, ArgOK
  <2>3. FamilyOK'
    <3>1. /\ children[current] \in Seq(Pids) /\ pid[arg[current]] \in Pids
          /\ Len(children[current]) \in Nat
      BY <2>1, <2>2 DEF FamilyOK
    <3>2. /\ Append(children[current], pid[arg[current]]) \in Seq(Pids)
          /\ Len(Append(children[current], pid[arg[current]])) = Len(children[current]) + 1
      BY <3>1
    <3>. QED  BY <2>1, <3>1, <3>2 DEF FamilyOK
  <2>4. PlaceOK'
    BY <2>1, LeavePlace DEF Return
  <2>5. StateOK'
    BY <2>1 DEF StateOK
  <2>. QED  BY <2>3, <2>4, <2>5 DEF TableInv
<1>12. CASE ExecMark
  <2> USE <1>0, <1>12, ProcessAssumption DEF ExecMark, At
  <2>1. /\ current \in Slots \ {Idle} /\ pc[Idle] # "boot" /\ taskCount <= MaxTasks
        /\ pc[current] \in Holds
    BY Caller DEF Resets, Places, Creation, Holds
  <2>2. FamilyOK'
    BY <2>1, Zenon DEF FamilyOK
  <2>3. PlaceOK'
    BY <2>1, GotoFree DEF Frees
  <2>4. StateOK'
    BY <2>1 DEF StateOK
  <2>. QED  BY <2>2, <2>3, <2>4 DEF TableInv
<1>13. CASE Waitpid \/ WaitReturn
  <2> USE <1>0, <1>13, ProcessAssumption DEF Waitpid, WaitReturn, Call, At
  <2>1. /\ current \in Slots \ {Idle} /\ pc[Idle] # "boot" /\ taskCount <= MaxTasks
    BY Caller DEF Resets, Places
  <2>2. FamilyOK'
    <3>1. CASE Reap
      <4>1. /\ children' \in [Slots -> Seq(Pids)]
            /\ \A t \in Slots \ {current} : children'[t] = children[t]
            /\ Len(children'[current]) = Len(children[current]) - 1
        BY <3>1, ReapProperties
      <4>2. \A t \in Slots : Len(children'[t]) <= MaxChildren
        <5>1. \A t \in Slots : Len(children[t]) \in Nat /\ Len(children[t]) <= MaxChildren
          BY DEF FamilyOK
        <5>2. Len(children'[current]) <= MaxChildren
          BY <2>1, <4>1, <5>1
        <5>3. \A t \in Slots \ {current} : Len(children'[t]) <= MaxChildren
          BY <4>1, <5>1
        <5>. QED  BY <5>2, <5>3
      <4>3. UNCHANGED <<pid, nextPid, unblockOnExit, started, sent>>
        BY Zenon
      <4> HIDE <1>13, ProcessAssumption DEF Waitpid, WaitReturn, Call, At
      <4>. QED  BY <4>1, <4>2, <4>3 DEF FamilyOK
    <3>2. CASE UNCHANGED children
      BY <3>2 DEF FamilyOK
    <3>. QED  BY <3>1, <3>2
  <2>3. PlaceOK'
    <3>1. CASE UNCHANGED place
      BY <3>1 DEF PlaceOK, Waitpid, WaitReturn
    <3>2. CASE Goto("wait_mark")
      BY <2>1, <3>2, GotoFree DEF Frees
    <3>3. CASE Return
      BY <2>1, <3>3, LeavePlace DEF Return
    <3>. QED  BY <3>1, <3>2, <3>3
  <2>4. StateOK'
    BY <2>1 DEF StateOK
  <2>. QED  BY <2>2, <2>3, <2>4 DEF TableInv
<1>14. CASE WaitMark
  <2> USE <1>0, <1>14, ProcessAssumption DEF WaitMark, At
  <2>1. /\ current \in Slots \ {Idle} /\ pc[Idle] # "boot" /\ taskCount <= MaxTasks
    BY Caller DEF Resets, Places
  <2>2. FamilyOK'
    BY <2>1 DEF FamilyOK
  <2>3. PlaceOK'
    BY <2>1, GotoFree DEF Frees
  <2>4. StateOK'
    BY <2>1 DEF StateOK
  <2>. QED  BY <2>2, <2>3, <2>4 DEF TableInv
<1>15. CASE Block
  <2> USE <1>0, <1>15, ProcessAssumption DEF Block, At
  <2>1. /\ current \in Slots \ {Idle} /\ pc[Idle] # "boot" /\ taskCount <= MaxTasks
    BY Caller DEF Resets, Places
  <2>2. FamilyOK'
    BY DEF FamilyOK
  <2>3. PlaceOK'
    BY <2>1, GotoFree DEF Frees
  <2>4. StateOK'
    BY <2>1 DEF StateOK
  <2>. QED  BY <2>2, <2>3, <2>4 DEF TableInv
<1>17. CASE ExecReturn
  <2> USE <1>0, <1>17, ProcessAssumption DEF ExecReturn, At
  <2>1. /\ current \in Slots \ {Idle} /\ pc[Idle] # "boot" /\ taskCount <= MaxTasks
    BY Caller DEF Resets, Places
  <2>2. FamilyOK'
    BY DEF FamilyOK
  <2>3. PlaceOK'
    BY <2>1, LeavePlace DEF Return
  <2>4. StateOK'
    BY <2>1 DEF StateOK
  <2>. QED  BY <2>2, <2>3, <2>4 DEF TableInv
<1>2. CASE Tick
  <2> USE <1>0, <1>2, ProcessAssumption DEF Tick
  <2>1. PICK n \in Slots :
          /\ FindNext(n, state)
          /\ state' = IF n = current THEN state ELSE S!Switched(state, n)
          /\ current' = n
    OBVIOUS
  <2>2. /\ state[Idle] \in {"READY", "RUNNING"}
        /\ state \in [Slots -> {"DEAD", "READY", "RUNNING", "BLOCKED"}]
        /\ \A t \in Slots : state[t] = "RUNNING" => t = current
    BY DEF StateOK
  <2>3. taskCount <= MaxTasks /\ n < taskCount
    BY <2>1, <2>2, FindNextProperties
  <2>4. /\ S!Switched(state, n) \in [Slots -> {"DEAD", "READY", "RUNNING", "BLOCKED"}]
        /\ S!Switched(state, n)[Idle] \in {"READY", "RUNNING"}
        /\ S!Switched(state, n)[n] = "RUNNING"
        /\ \A t \in Slots : S!Switched(state, n)[t] = "RUNNING" => t = n
    <3> HIDE <1>0, <1>2, ProcessAssumption DEF Tick
    <3>. QED  BY <2>2, SwitchedProperties, Zenon
  <2>5. FamilyOK'
    BY DEF FamilyOK
  <2>6. PlaceOK'
    BY DEF PlaceOK
  <2>7. StateOK'
    BY <2>1, <2>2, <2>3, <2>4 DEF StateOK
  <2>. QED  BY <2>5, <2>6, <2>7 DEF TableInv
<1>18. CASE Exit \/ SignalExit
  <2> USE <1>0, <1>18, ProcessAssumption DEF Exit, SignalExit
  <2>0. ExitCurrentTask /\ current # Idle
    OBVIOUS
  <2>1. current \in Slots \ {Idle} /\ pc[Idle] # "boot"
    BY <2>0, Caller
  <2> DEFINE st == [state EXCEPT ![current] = "DEAD"]
  <2>2. PICK n \in Slots :
          /\ FindNext(n, st)
          /\ current' = n
          /\ state' = Unblock(S!Switched(st, n), unblockOnExit[current])
    BY <2>0 DEF ExitCurrentTask
  <2>3. /\ st[Idle] \in {"READY", "RUNNING"}
        /\ st \in [Slots -> {"DEAD", "READY", "RUNNING", "BLOCKED"}]
        /\ \A t \in Slots : st[t] = "RUNNING" => t = current
    BY <2>1 DEF StateOK
  <2> HIDE DEF st
  <2>4. taskCount <= MaxTasks /\ n < taskCount
    BY <2>2, <2>3, FindNextProperties
  <2>5. /\ S!Switched(st, n) \in [Slots -> {"DEAD", "READY", "RUNNING", "BLOCKED"}]
        /\ S!Switched(st, n)[Idle] \in {"READY", "RUNNING"}
        /\ S!Switched(st, n)[n] = "RUNNING"
        /\ \A t \in Slots : S!Switched(st, n)[t] = "RUNNING" => t = n
    <3> HIDE <1>0, <1>18, ProcessAssumption DEF Exit, SignalExit
    <3>. QED  BY <2>3, SwitchedProperties, Zenon
  <2>6. taskCount \in 1 .. MaxTasks
    BY <2>4 DEF StateOK
  <2>7. /\ state' \in [Slots -> {"DEAD", "READY", "RUNNING", "BLOCKED"}]
        /\ \A t \in Slots : \/ state'[t] = S!Switched(st, n)[t]
                            \/ S!Switched(st, n)[t] = "BLOCKED" /\ state'[t] = "READY"
    BY <2>2, <2>5, <2>6, UnblockProperties
  <2>8. FamilyOK'
    <3>1. /\ unblockOnExit' = [unblockOnExit EXCEPT ![current] = -1]
          /\ UNCHANGED <<pid, nextPid, children, started>>
      BY <2>0 DEF ExitCurrentTask
    <3>2. sent' \in 0 .. MaxSent
      BY DEF Send, FamilyOK
    <3>. QED  BY <2>1, <3>1, <3>2 DEF FamilyOK
  <2>9. PlaceOK'
    BY <2>0, <2>1, LeavePlace DEF ExitCurrentTask, Return
  <2>10. StateOK'
    <3>1. taskCount' = taskCount /\ ~(taskCount > MaxTasks)
      BY <2>0, <2>6 DEF ExitCurrentTask
    <3>2. state'[n] # "DEAD" /\ state'[Idle] \in {"READY", "RUNNING"}
      BY <2>5, <2>7
    <3>3. \A t \in Slots : state'[t] = "RUNNING" => t = n
      BY <2>5, <2>7
    <3>. QED  BY <2>2, <2>4, <2>6, <2>7, <3>1, <3>2, <3>3 DEF StateOK
  <2>. QED  BY <2>8, <2>9, <2>10 DEF TableInv
<1>20. CASE SignalWake
  <2> USE <1>0, <1>20, ProcessAssumption DEF SignalWake, Call, At
  <2>1. /\ current \in Slots \ {Idle} /\ pc[Idle] # "boot" /\ taskCount <= MaxTasks
    BY Caller DEF Resets
  <2>2. PICK t \in Slots : state' = Unblock(state, t)
    OBVIOUS
  <2>3. /\ state' \in [Slots -> {"DEAD", "READY", "RUNNING", "BLOCKED"}]
        /\ \A u \in Slots : \/ state'[u] = state[u]
                            \/ state[u] = "BLOCKED" /\ state'[u] = "READY"
    BY <2>1, <2>2, UnblockProperties DEF StateOK
  <2>4. FamilyOK'
    BY DEF FamilyOK, Send
  <2>5. PlaceOK'
    BY DEF PlaceOK
  <2>6. StateOK'
    BY <2>1, <2>3 DEF StateOK
  <2>. QED  BY <2>4, <2>5, <2>6 DEF TableInv
<1>21. CASE KillFind \/ TaskctlKill
  <2> USE <1>0, <1>21, ProcessAssumption DEF KillFind, TaskctlKill, Call, At
  <2>1. /\ current \in Slots \ {Idle} /\ pc[Idle] # "boot" /\ taskCount <= MaxTasks
    BY Caller DEF Resets
  <2>2. PICK t \in 1 .. taskCount - 1 : KillCall(t)
    OBVIOUS
  <2> HIDE <1>21 DEF KillFind, TaskctlKill
  <2>3. t \in Slots \ {Idle, current} /\ t \in -1 .. MaxTasks
    BY <2>1, <2>2 DEF KillCall, StateOK, Slots, Idle
  <2>4. FamilyOK'
    BY <2>2 DEF KillCall, FamilyOK, Send
  <2>5. PlaceOK'
    <3>1. /\ pc' \in [Slots -> Places] /\ arg' \in [Slots -> -1 .. MaxTasks]
      BY <2>1, <2>2, <2>3 DEF KillCall, PlaceOK, Places
    <3>2. ArgOK(current, pc'[current], arg'[current], loaded'[current])
      BY <2>1, <2>2, <2>3 DEF KillCall, PlaceOK, ArgOK, Counts, Resets, Holds, Stores
    <3>. QED  BY <2>1, <2>2, <3>1, <3>2, PlaceFrame DEF KillCall, PlaceOK
  <2>6. StateOK'
    BY <2>1, <2>2 DEF KillCall, StateOK
  <2>. QED  BY <2>4, <2>5, <2>6 DEF TableInv
<1>23. CASE KillWake
  <2> USE <1>0, <1>23, ProcessAssumption DEF KillWake, At
  <2>1. /\ current \in Slots \ {Idle} /\ pc[Idle] # "boot" /\ taskCount <= MaxTasks
        /\ pc[current] \in Holds
    BY Caller DEF Resets, Places, Holds
  <2>2. arg[current] \in Slots \ {Idle, current}
    BY <2>1 DEF PlaceOK, ArgOK
  <2>3. \/ Return /\ state' = state /\ unblockOnExit' = unblockOnExit
        \/ /\ unblockOnExit' = [unblockOnExit EXCEPT ![arg[current]] = -1]
           /\ state' = Unblock(state, unblockOnExit[arg[current]])
           /\ Goto("kill_mark")
    BY Zenon
  <2>4. UNCHANGED <<taskCount, current, pid, nextPid, children, started, sent>>
    BY Zenon DEF log
  <2>5. FamilyOK /\ PlaceOK /\ StateOK
    BY Zenon DEF TableInv
  <2> HIDE <1>23 DEF KillWake, At
  <2>6. FamilyOK'
    <3>1. \/ unblockOnExit' = unblockOnExit
          \/ unblockOnExit' = [unblockOnExit EXCEPT ![arg[current]] = -1]
      BY <2>3, Zenon
    <3>. QED  BY <2>4, <2>5, <3>1, Zenon DEF FamilyOK
  <2>7. PlaceOK'
    <3>1. CASE Return
      BY <2>1, <2>5, <3>1, LeavePlace DEF Return
    <3>2. CASE Goto("kill_mark")
      BY <2>1, <2>2, <2>4, <2>5, <3>2
      DEF Goto, PlaceOK, ArgOK, Places, Counts, Resets, Holds, Stores
    <3>. QED  BY <2>3, <3>1, <3>2, Zenon
  <2>8. /\ state' \in [Slots -> {"DEAD", "READY", "RUNNING", "BLOCKED"}]
        /\ \A u \in Slots : \/ state'[u] = state[u]
                            \/ state[u] = "BLOCKED" /\ state'[u] = "READY"
    BY <2>1, <2>3, <2>5, UnblockProperties DEF StateOK
  <2>9. StateOK'
    BY <2>1, <2>4, <2>5, <2>8 DEF StateOK
  <2>. QED  BY <2>6, <2>7, <2>9, Zenon DEF TableInv
<1>24. CASE KillMark
  <2> USE <1>0, <1>24, ProcessAssumption DEF KillMark, At
  <2>1. /\ current \in Slots \ {Idle} /\ pc[Idle] # "boot" /\ taskCount <= MaxTasks
        /\ pc[current] \in Holds
    BY Caller DEF Resets, Places, Holds
  <2>2. arg[current] \in Slots \ {Idle, current}
    BY <2>1 DEF PlaceOK, ArgOK
  <2>3. FamilyOK'
    BY Zenon DEF FamilyOK
  <2>4. PlaceOK'
    BY <2>1, <2>2, LeavePlace
  <2>5. StateOK'
    <3>1. /\ state' = [state EXCEPT ![arg[current]] = "DEAD"] /\ StateOK
          /\ UNCHANGED <<taskCount, current>>
      BY Zenon DEF TableInv
    <3> HIDE <1>0, <1>24 DEF KillMark, At
    <3>. QED  BY <2>1, <2>2, <3>1 DEF StateOK
  <2>. QED  BY <2>3, <2>4, <2>5, Zenon DEF TableInv
<1>25. CASE UNCHANGED vars
  <2>1. FamilyOK' /\ PlaceOK'
    BY <1>0, <1>25, Zenon DEF vars, TableInv, FamilyOK, PlaceOK, ArgOK
  <2>2. StateOK'
    BY <1>0, <1>25, Zenon DEF vars, TableInv, StateOK
  <2>. QED  BY <2>1, <2>2, Zenon DEF TableInv
<1>. QED
  BY <1>1, <1>2, <1>3, <1>5, <1>6, <1>7, <1>8, <1>9, <1>10, <1>11, <1>12, <1>13,
     <1>14, <1>15, <1>17, <1>18, <1>20, <1>21, <1>23, <1>24, <1>25
  DEF Next

LEMMA TableInvariant == Spec => []TableInv
BY TableInit, TableStep, PTL DEF Spec

\* However system calls, ticks, exits and kills interleave, and although a race
\* for a slot may wipe it, lose a store to taskCount_ or run past the table, one
\* task is RUNNING at most, it is the current one, which is never DEAD and
\* always counted, and every variable has its type.
THEOREM OneRunnerHolds == Spec => []OneRunner
<1>1. TableInv => OneRunner
  <2>1. S!Slots = Slots
    BY DEF S!Slots, Slots
  <2>. QED  BY <2>1, ProcessAssumption
        DEF TableInv, FamilyOK, PlaceOK, StateOK, OneRunner, TypeOK,
            S!OnlyCurrentRuns, Pids
<1>. QED  BY <1>1, TableInvariant, PTL

\* findNext never returns a task that is not READY, so switchTo never panics.
THEOREM NeverPanicsHolds == Spec => []NeverPanics
<1>1. TableInv => NeverPanics
  <2> SUFFICES ASSUME TableInv, taskCount <= MaxTasks, NEW n \in Slots,
                      S!FindNext(n, state), n # current
               PROVE  state[n] = "READY"
    BY DEF NeverPanics, S!NextIsReady, S!Slots, Slots
  <2>1. /\ state[Idle] \in {"READY", "RUNNING"}
        /\ \A t \in Slots : state[t] = "RUNNING" => t = current
        /\ FindNext(n, state)
    BY DEF TableInv, StateOK, FindNext
  <2>. QED  BY <2>1, FindNextProperties
<1>. QED  BY <1>1, TableInvariant, PTL
=============================================================================
