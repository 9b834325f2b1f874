------------------------------ MODULE PidProofs ------------------------------
(***************************************************************************)
(* Proofs about the pids and the children lists of module Process, for any *)
(* number of slots, children, pids and system calls.                       *)
(***************************************************************************)
EXTENDS ProcessProofs

\* A leaf that names no prover goes to the SMT solver, with time to spare.
USE SMTT(30)

\* The pids in lists ch, of which rp have been reaped, when n is the next pid: no
\* two entries are the same, and none is 0, the pid of idle, of the first task and
\* of wiped slots.
ListsOK(ch, rp, n) ==
  /\ rp \subseteq 1 .. n - 1
  /\ \A t \in Slots : \A i \in 1 .. Len(ch[t]) :
       ch[t][i] \in 1 .. n - 1 /\ ch[t][i] \notin rp
  /\ \A t, u \in Slots : \A i \in 1 .. Len(ch[t]) : \A j \in 1 .. Len(ch[u]) :
       ch[u][j] = ch[t][i] => u = t /\ i = j

\* What holds of pids as long as creations do not overlap: there is one creator
\* at most, and nextPid_ is still what it has read; no two slots have the same
\* pid other than 0; and a new pid is in no list.
Kin ==
  /\ \A t, u \in Slots : pc[t] \in Creation /\ pc[u] \in Creation => t = u
  /\ nextPid <= started + 1
  /\ \A t \in Slots : pc[t] \in Creation \ {"fork_link"} => nextPid <= started
  /\ pc[Idle] = "boot" => nextPid = 0 /\ \A t \in Slots : pc[t] \notin Creation
  /\ pc[Idle] # "boot" => nextPid >= 1
  /\ \A t \in Slots : pc[t] \in Stores => loaded[t] = nextPid
  /\ \A t \in Slots : pid[t] # 0 => pid[t] < nextPid
  /\ \A s, t \in Slots : pid[s] = pid[t] => s = t \/ pid[s] = 0
  /\ ListsOK(children, reaped, nextPid)
  /\ \A t \in Slots : pc[t] = "fork_link" =>
       /\ pid[arg[t]] # 0 /\ pid[arg[t]] \notin reaped
       /\ \A u \in Slots : \A i \in 1 .. Len(children[u]) : children[u][i] # pid[arg[t]]

KinInv == ~raced => Kin

\* The 8-bit pid counter does not come round.
NoWrap == MaxCreated + 1 < PidMod

-----------------------------------------------------------------------------
(* Pids and lists.                                                         *)

\* A list may be emptied.
LEMMA ListsEmptied ==
  ASSUME NEW ch \in [Slots -> Seq(Pids)], NEW chx \in [Slots -> Seq(Pids)], NEW rp,
         NEW n \in Nat, ListsOK(ch, rp, n),
         \A t \in Slots : chx[t] = ch[t] \/ Len(chx[t]) = 0
  PROVE  ListsOK(chx, rp, n)
<1>1. rp \subseteq 1 .. n - 1
  BY DEF ListsOK
<1>2. ASSUME NEW t \in Slots, NEW i \in 1 .. Len(chx[t])
      PROVE  chx[t] = ch[t] /\ chx[t][i] \in 1 .. n - 1 /\ chx[t][i] \notin rp
  <2>1. chx[t] = ch[t]
    OBVIOUS
  <2>. QED  BY <2>1 DEF ListsOK
<1>3. ASSUME NEW t \in Slots, NEW u \in Slots, NEW i \in 1 .. Len(chx[t]),
             NEW j \in 1 .. Len(chx[u]), chx[u][j] = chx[t][i]
      PROVE  u = t /\ i = j
  <2>1. chx[t] = ch[t] /\ chx[u] = ch[u]
    BY <1>2
  <2>. QED  BY <1>3, <2>1 DEF ListsOK
<1>. QED  BY <1>1, <1>2, <1>3 DEF ListsOK

\* A pid that is in no list may be appended to one.
LEMMA ListsAppended ==
  ASSUME NEW ch \in [Slots -> Seq(Pids)], NEW rp, NEW n \in Nat, ListsOK(ch, rp, n),
         NEW c \in Slots, NEW p \in Pids, p \in 1 .. n - 1, p \notin rp,
         \A u \in Slots : \A i \in 1 .. Len(ch[u]) : ch[u][i] # p
  PROVE  ListsOK([ch EXCEPT ![c] = Append(ch[c], p)], rp, n)
<1> DEFINE chx == [ch EXCEPT ![c] = Append(ch[c], p)]
<1>1. ch[c] \in Seq(Pids) /\ Len(ch[c]) \in Nat
  OBVIOUS
<1>2. /\ Len(Append(ch[c], p)) = Len(ch[c]) + 1
      /\ \A i \in 1 .. Len(ch[c]) : Append(ch[c], p)[i] = ch[c][i]
      /\ Append(ch[c], p)[Len(ch[c]) + 1] = p
  BY <1>1
<1>3. /\ chx[c] = Append(ch[c], p)
      /\ \A t \in Slots \ {c} : chx[t] = ch[t]
  OBVIOUS
<1> HIDE DEF chx
<1>4. ASSUME NEW t \in Slots, NEW i \in 1 .. Len(chx[t])
      PROVE  \/ i \in 1 .. Len(ch[t]) /\ chx[t][i] = ch[t][i]
             \/ t = c /\ i = Len(ch[c]) + 1 /\ chx[t][i] = p
  <2>1. CASE t = c
    BY <1>1, <1>2, <1>3, <2>1
  <2>2. CASE t # c
    BY <1>3, <2>2
  <2>. QED  BY <2>1, <2>2
<1>5. ASSUME NEW t \in Slots, NEW i \in 1 .. Len(chx[t])
      PROVE  chx[t][i] \in 1 .. n - 1 /\ chx[t][i] \notin rp
  BY <1>4 DEF ListsOK
<1>6. ASSUME NEW t \in Slots, NEW u \in Slots, NEW i \in 1 .. Len(chx[t]),
             NEW j \in 1 .. Len(chx[u]), chx[u][j] = chx[t][i]
      PROVE  u = t /\ i = j
  <2>1. CASE i \in 1 .. Len(ch[t]) /\ j \in 1 .. Len(ch[u])
             /\ chx[t][i] = ch[t][i] /\ chx[u][j] = ch[u][j]
    BY <1>6, <2>1 DEF ListsOK
  <2>2. CASE t = c /\ i = Len(ch[c]) + 1 /\ chx[t][i] = p
    <3>1. ~(j \in 1 .. Len(ch[u]) /\ chx[u][j] = ch[u][j])
      BY <1>6, <2>2, Zenon
    <3>2. u = c /\ j = Len(ch[c]) + 1
      BY <1>4, <3>1, Zenon
    <3>. QED  BY <2>2, <3>2, Zenon
  <2>3. CASE u = c /\ j = Len(ch[c]) + 1 /\ chx[u][j] = p
    <3>1. ~(i \in 1 .. Len(ch[t]) /\ chx[t][i] = ch[t][i])
      BY <1>6, <2>3, Zenon
    <3>2. t = c /\ i = Len(ch[c]) + 1
      BY <1>4, <3>1, Zenon
    <3>. QED  BY <2>3, <3>2, Zenon
  <2>. QED  BY <1>4, <2>1, <2>2, <2>3
<1>. QED  BY <1>5, <1>6 DEF ListsOK, chx

\* A reaped pid is out of its list.
LEMMA ListsReaped ==
  ASSUME NEW ch \in [Slots -> Seq(Pids)], NEW chx, NEW rp, NEW n \in Nat,
         ListsOK(ch, rp, n), NEW c \in Slots, NEW i \in 1 .. Len(ch[c]),
         \A t \in Slots \ {c} : chx[t] = ch[t],
         Len(chx[c]) = Len(ch[c]) - 1,
         \A j \in 1 .. Len(ch[c]) - 1 :
           chx[c][j] = IF j = i THEN ch[c][Len(ch[c])] ELSE ch[c][j]
  PROVE  ListsOK(chx, rp \cup {ch[c][i]}, n)
<1>1. ch[c] \in Seq(Pids) /\ Len(ch[c]) \in Nat
  OBVIOUS
<1>2. rp \subseteq 1 .. n - 1 /\ ch[c][i] \in 1 .. n - 1
  BY DEF ListsOK
\* Where entry j of a list was before.
<1> DEFINE old(t, j) == IF t = c /\ j = i THEN Len(ch[c]) ELSE j
<1>3. ASSUME NEW t \in Slots, NEW j \in 1 .. Len(chx[t])
      PROVE  /\ old(t, j) \in 1 .. Len(ch[t])
             /\ chx[t][j] = ch[t][old(t, j)]
             /\ t = c => old(t, j) # i
  <2>1. CASE t = c
    BY <1>1, <2>1
  <2>2. CASE t # c
    BY <2>2
  <2>. QED  BY <2>1, <2>2
<1>4. ASSUME NEW t \in Slots, NEW u \in Slots, NEW j \in 1 .. Len(chx[t]),
             NEW k \in 1 .. Len(chx[u]), u = t, old(t, j) = old(u, k)
      PROVE  j = k
  <2>1. CASE t = c
    <3>1. j \in 1 .. Len(ch[c]) - 1 /\ k \in 1 .. Len(ch[c]) - 1
      BY <1>4, <2>1
    <3>. QED  BY <1>1, <1>4, <2>1, <3>1
  <2>2. CASE t # c
    BY <1>4, <2>2
  <2>. QED  BY <2>1, <2>2
<1> HIDE DEF old
<1>5. ASSUME NEW t \in Slots, NEW j \in 1 .. Len(chx[t])
      PROVE  chx[t][j] \in 1 .. n - 1 /\ chx[t][j] \notin rp \cup {ch[c][i]}
  <2>1. old(t, j) \in 1 .. Len(ch[t]) /\ chx[t][j] = ch[t][old(t, j)]
    BY <1>3
  <2>2. ch[t][old(t, j)] \in 1 .. n - 1 /\ ch[t][old(t, j)] \notin rp
    BY <2>1 DEF ListsOK
  <2>3. ch[t][old(t, j)] # ch[c][i]
    BY <1>3, <2>1 DEF ListsOK
  <2>. QED  BY <2>1, <2>2, <2>3
<1>6. ASSUME NEW t \in Slots, NEW u \in Slots, NEW j \in 1 .. Len(chx[t]),
             NEW k \in 1 .. Len(chx[u]), chx[u][k] = chx[t][j]
      PROVE  u = t /\ j = k
  <2>1. /\ old(t, j) \in 1 .. Len(ch[t]) /\ chx[t][j] = ch[t][old(t, j)]
        /\ old(u, k) \in 1 .. Len(ch[u]) /\ chx[u][k] = ch[u][old(u, k)]
    BY <1>3
  <2>2. u = t /\ old(t, j) = old(u, k)
    BY <1>6, <2>1 DEF ListsOK
  <2>. QED  BY <1>4, <2>2
<1>. QED  BY <1>2, <1>5, <1>6, Zenon DEF ListsOK

\* A step that leaves pids, lists and counters alone, and starts no creation.
LEMMA KinFrame ==
  ASSUME Kin, UNCHANGED <<pid, nextPid, children, started, reaped>>,
         pc'[Idle] = "boot" <=> pc[Idle] = "boot",
         \A t \in Slots :
           /\ pc'[t] \in Creation => pc[t] \in Creation
           /\ pc[t] = "fork_link" => pc'[t] \notin Creation \ {"fork_link"}
           /\ pc'[t] = "fork_link" => pc[t] = "fork_link" /\ arg'[t] = arg[t]
           /\ pc'[t] \in Stores => loaded'[t] = nextPid
  PROVE  Kin'
<1>1. \A t \in Slots : pc'[t] \in Creation \ {"fork_link"} =>
                         pc[t] \in Creation \ {"fork_link"}
  OBVIOUS
<1>2. \A t, u \in Slots : pc'[t] \in Creation /\ pc'[u] \in Creation => t = u
  BY DEF Kin
<1>3. ListsOK(children, reaped, nextPid)'
  BY DEF Kin, ListsOK
<1>4. ASSUME NEW t \in Slots, pc'[t] = "fork_link"
      PROVE  /\ pid'[arg'[t]] # 0 /\ pid'[arg'[t]] \notin reaped'
             /\ \A u \in Slots : \A i \in 1 .. Len(children'[u]) :
                  children'[u][i] # pid'[arg'[t]]
  BY <1>4 DEF Kin
<1>. QED  BY <1>1, <1>2, <1>3, <1>4 DEF Kin

\* A step that leaves them alone and takes nobody further in a creation.
LEMMA KinQuiet ==
  ASSUME Kin, UNCHANGED <<pid, nextPid, children, started, reaped>>,
         pc'[Idle] = pc[Idle],
         \A t \in Slots :
           \/ pc'[t] \notin Creation
           \/ pc'[t] = pc[t] /\ arg'[t] = arg[t] /\ loaded'[t] = loaded[t]
  PROVE  Kin'
<1>1. Stores \subseteq Creation /\ "fork_link" \in Creation
  BY DEF Stores, Creation
<1>2. \A t \in Slots :
        /\ pc'[t] \in Creation => pc[t] \in Creation
        /\ pc[t] = "fork_link" => pc'[t] \notin Creation \ {"fork_link"}
        /\ pc'[t] = "fork_link" => pc[t] = "fork_link" /\ arg'[t] = arg[t]
        /\ pc'[t] \in Stores => loaded'[t] = nextPid
  BY <1>1 DEF Kin
<1>. QED  BY <1>2, KinFrame, Zenon

\* reapDeadChild.
LEMMA KinReap ==
  ASSUME TableInv, Kin, Reap, UNCHANGED <<pid, nextPid, started>>,
         \A t \in Slots :
           \/ pc'[t] \notin Creation
           \/ pc'[t] = pc[t] /\ arg'[t] = arg[t] /\ loaded'[t] = loaded[t],
         pc'[Idle] = "boot" <=> pc[Idle] = "boot",
         pc[current] \notin Creation
  PROVE  Kin'
<1> DEFINE list == children[current]
<1>1. PICK i \in 1 .. Len(list) :
        /\ reaped' = reaped \cup {list[i]}
        /\ \A t \in Slots \ {current} : children'[t] = children[t]
        /\ Len(children'[current]) = Len(list) - 1
        /\ \A j \in 1 .. Len(list) - 1 :
             children'[current][j] = IF j = i THEN list[Len(list)] ELSE list[j]
  BY ReapProperties, Zenon
<1>2. current \in Slots /\ children \in [Slots -> Seq(Pids)] /\ nextPid \in Nat
      /\ Len(list) \in Nat
  <2>1. current \in Slots
    BY Zenon DEF TableInv, StateOK
  <2>2. children \in [Slots -> Seq(Pids)] /\ nextPid \in Pids
    BY Zenon DEF TableInv, FamilyOK
  <2>3. nextPid \in Nat
    BY <2>2, ProcessAssumption DEF Pids
  <2>. QED  BY <2>1, <2>2, <2>3
<1>3. ListsOK(children', reaped', nextPid)
  BY <1>1, <1>2, ListsReaped, Zenon DEF Kin
<1>4. Stores \subseteq Creation /\ "fork_link" \in Creation
  BY DEF Stores, Creation
<1>5. ASSUME NEW t \in Slots, pc'[t] = "fork_link"
      PROVE  /\ pid[arg'[t]] # 0 /\ pid[arg'[t]] \notin reaped'
             /\ \A u \in Slots : \A j \in 1 .. Len(children'[u]) :
                  children'[u][j] # pid[arg'[t]]
  <2>1. /\ pid[arg'[t]] # 0 /\ pid[arg'[t]] \notin reaped
        /\ \A u \in Slots : \A j \in 1 .. Len(children[u]) :
             children[u][j] # pid[arg'[t]]
    BY <1>4, <1>5 DEF Kin
  <2>2. pid[arg'[t]] \notin reaped'
    BY <1>1, <1>2, <2>1
  <2>3. ASSUME NEW u \in Slots, NEW j \in 1 .. Len(children'[u])
        PROVE  children'[u][j] # pid[arg'[t]]
    <3>1. CASE u # current
      BY <1>1, <2>1, <3>1
    <3>2. CASE u = current
      <4>1. j \in 1 .. Len(list) - 1
        BY <1>1, <1>2, <3>2
      <4>2. j \in 1 .. Len(list) /\ Len(list) \in 1 .. Len(list)
        BY <1>2, <4>1
      <4>3. children'[current][j] \in {list[j], list[Len(list)]}
        BY <1>1, <4>1
      <4>. QED  BY <1>2, <2>1, <3>2, <4>2, <4>3
    <3>. QED  BY <3>1, <3>2
  <2>. QED  BY <2>1, <2>2, <2>3
<1>6. /\ \A t, u \in Slots : pc'[t] \in Creation /\ pc'[u] \in Creation => t = u
      /\ \A t \in Slots : pc'[t] \in Creation \ {"fork_link"} => nextPid <= started
      /\ \A t \in Slots : pc'[t] \in Stores => loaded'[t] = nextPid
  BY <1>4 DEF Kin
<1>. QED  BY <1>3, <1>5, <1>6 DEF Kin

LEMMA KinInit == Init => KinInv
<1> SUFFICES ASSUME Init  PROVE Kin
  BY DEF KinInv
<1>1. Idle \in Slots /\ Len(<< >>) = 0
  BY ProcessAssumption DEF Slots, Idle
<1>2. ListsOK(children, reaped, nextPid)
  BY <1>1 DEF Init, ListsOK
<1>. QED  BY <1>1, <1>2 DEF Init, Kin, Creation, Stores

\* Pids stay apart as long as creations do not overlap and pids do not wrap.
LEMMA KinStep ==
  ASSUME NoWrap, TableInv, KinInv, [Next]_vars
  PROVE  KinInv'
<1> SUFFICES ASSUME ~raced'  PROVE Kin'
  BY DEF KinInv
<1>0. /\ Idle \in Slots /\ 1 \in Slots /\ 1 # Idle /\ FamilyOK /\ PlaceOK /\ StateOK
      /\ current \in Slots /\ << >> \in Seq(Pids) /\ Len(<< >>) = 0 /\ 0 \in Pids
      /\ nextPid \in Nat /\ started \in Nat /\ started <= MaxCreated /\ MaxCreated \in Nat
  BY ProcessAssumption DEF Slots, Idle, Pids, TableInv, StateOK, FamilyOK
<1> USE DEF table, family, place, log
<1>1. CASE Boot
  <2> USE <1>0, <1>1 DEF Boot, Goto, AssignPid
  <2>1. Kin /\ UNCHANGED <<children, started, reaped>> /\ nextPid = 0
    BY Zenon DEF KinInv, Kin
  <2>2. nextPid' = 1
    BY <2>1, ProcessAssumption DEF NoWrap
  <2>3. \A t \in Slots : pid'[t] = 0
    BY <2>1 DEF Kin, FamilyOK, Pids
  <2>4. ListsOK(children, reaped, 1)
    BY <2>1 DEF Kin, ListsOK
  <2>5. pc'[Idle] = "idle" /\ \A t \in Slots \ {Idle} : pc'[t] = pc[t]
    BY DEF PlaceOK, StateOK
  <2>6. pc'[Idle] # "boot" /\ \A t \in Slots : pc'[t] \notin Creation
    BY <2>1, <2>5 DEF Kin, Creation
  <2>. QED  BY <2>1, <2>2, <2>3, <2>4, <2>6 DEF Kin, Creation, Stores
<1>2. CASE Tick
  <2> USE <1>0, <1>2 DEF Tick
  <2>1. Kin /\ UNCHANGED <<pid, nextPid, children, started, reaped>>
    BY DEF KinInv
  <2>3. /\ \A t \in Slots :
             \/ pc'[t] \notin Creation
             \/ pc'[t] = pc[t] /\ arg'[t] = arg[t] /\ loaded'[t] = loaded[t]
        /\ pc'[Idle] = pc[Idle]
    BY DEF PlaceOK, Creation
  <2>. QED  BY <2>1, <2>3, KinQuiet
<1>3. CASE Fork \/ Execmod
  <2> USE <1>0, <1>3 DEF Fork, Execmod, Call, At
  <2>1. /\ UNCHANGED <<pid, nextPid, children, reaped, loaded>> /\ started' = started + 1
        /\ ~raced /\ \A t \in Slots : pc[t] \notin Creation
    BY Zenon DEF FindSlot
  <2>2. Kin
    BY <2>1 DEF KinInv
  <2>3. current \in Slots \ {Idle} /\ pc[Idle] # "boot"
    BY Caller
  <2>4. \E at \in {"fork_fresh", "fork_reset", "exec_fresh", "exec_reset"} :
          pc' = [pc EXCEPT ![current] = at]
    BY DEF FindSlot
  <2>5. /\ pc'[current] \in {"fork_fresh", "fork_reset", "exec_fresh", "exec_reset"}
        /\ \A t \in Slots \ {current} : pc'[t] = pc[t]
        /\ pc'[Idle] # "boot"
    BY <2>3, <2>4 DEF PlaceOK
  <2>6. /\ \A t \in Slots : pc'[t] \in Creation => t = current
        /\ \A t \in Slots : pc'[t] \notin Stores /\ pc'[t] # "fork_link"
    BY <2>1, <2>5 DEF Creation, Stores
  <2>7. ListsOK(children', reaped', nextPid')
    BY <2>1, <2>2 DEF Kin
  <2>. QED  BY <2>1, <2>2, <2>3, <2>5, <2>6, <2>7 DEF Kin
<1>4. CASE LoadCount
  <2> USE <1>0, <1>4 DEF LoadCount, At
  <2>1. Kin /\ UNCHANGED <<pid, nextPid, children, started, reaped>>
    BY DEF KinInv
  <2>2. current \in Slots \ {Idle} /\ pc[Idle] # "boot"
    BY Caller DEF Places, Creation
  <2>3. pc'[Idle] = "boot" <=> pc[Idle] = "boot"
    BY <2>2 DEF PlaceOK
  <2>4. ASSUME NEW t \in Slots
        PROVE  /\ pc'[t] \in Creation => pc[t] \in Creation
               /\ pc[t] = "fork_link" => pc'[t] \notin Creation \ {"fork_link"}
               /\ pc'[t] = "fork_link" => pc[t] = "fork_link" /\ arg'[t] = arg[t]
               /\ pc'[t] \in Stores => loaded'[t] = nextPid
    BY <2>1, <2>2 DEF Kin, PlaceOK, Creation, Stores
  <2>. QED  BY <2>1, <2>3, <2>4, KinFrame
<1>5. CASE StoreCount
  <2> USE <1>0, <1>5 DEF StoreCount, At, Goto
  <2>1. Kin /\ UNCHANGED <<pid, nextPid, children, started, reaped>>
    BY DEF KinInv
  <2>2. current \in Slots \ {Idle} /\ pc[Idle] # "boot"
    BY Caller DEF Places, Creation
  <2>3. pc'[Idle] = "boot" <=> pc[Idle] = "boot"
    BY <2>2 DEF PlaceOK
  <2>4. ASSUME NEW t \in Slots
        PROVE  /\ pc'[t] \in Creation => pc[t] \in Creation
               /\ pc[t] = "fork_link" => pc'[t] \notin Creation \ {"fork_link"}
               /\ pc'[t] = "fork_link" => pc[t] = "fork_link" /\ arg'[t] = arg[t]
               /\ pc'[t] \in Stores => loaded'[t] = nextPid
    BY <2>1, <2>2 DEF Kin, PlaceOK, Creation, Stores
  <2>. QED  BY <2>1, <2>3, <2>4, KinFrame
<1>6. CASE Reset
  <2> USE <1>0, <1>6 DEF Reset, At, Goto, Return, Leave
  <2>1. Kin /\ UNCHANGED <<nextPid, started, reaped>>
    BY DEF KinInv
  <2>2. current \in Slots \ {Idle} /\ pc[Idle] # "boot"
    BY Caller DEF Places, Creation
  <2>3. /\ pc'[current] \in {"fork_ready", "exec_ready", "user"}
        /\ \A t \in Slots \ {current} : pc'[t] = pc[t]
        /\ pc'[Idle] # "boot"
    BY <2>2 DEF PlaceOK
  <2>4. /\ \A t \in Slots : pc'[t] \in Creation => t = current
        /\ \A t \in Slots : pc'[t] \notin Stores /\ pc'[t] # "fork_link"
        /\ nextPid <= started
    BY <2>1, <2>3 DEF Kin, Creation, Stores
  <2>5. \A t \in Slots : pid'[t] = pid[t] \/ pid'[t] = 0
    BY DEF Wipe, FamilyOK
  <2>6. /\ children \in [Slots -> Seq(Pids)]
        /\ children' = [children EXCEPT ![arg[current]] = << >>]
    BY DEF Wipe, FamilyOK
  <2>7. /\ children' \in [Slots -> Seq(Pids)]
        /\ \A t \in Slots : children'[t] = children[t] \/ Len(children'[t]) = 0
    BY <2>6, Zenon
  <2>8. ListsOK(children', reaped', nextPid')
    <3>1. ListsOK(children, reaped, nextPid)
      BY <2>1 DEF Kin
    <3>2. ListsOK(children', reaped, nextPid)
      BY <2>6, <2>7, <3>1, ListsEmptied, Zenon
    <3>. QED  BY <2>1, <3>2
  <2>. QED  BY <2>1, <2>2, <2>3, <2>4, <2>5, <2>8 DEF Kin
<1>7. CASE Ready
  <2> USE <1>0, <1>7 DEF Ready, At
  <2>1. Kin /\ UNCHANGED <<pid, nextPid, children, started, reaped>>
    BY DEF KinInv
  <2>2. current \in Slots \ {Idle} /\ pc[Idle] # "boot"
    BY Caller DEF Places, Creation
  <2>3. pc'[Idle] = "boot" <=> pc[Idle] = "boot"
    BY <2>2 DEF PlaceOK
  <2>4. ASSUME NEW t \in Slots
        PROVE  /\ pc'[t] \in Creation => pc[t] \in Creation
               /\ pc[t] = "fork_link" => pc'[t] \notin Creation \ {"fork_link"}
               /\ pc'[t] = "fork_link" => pc[t] = "fork_link" /\ arg'[t] = arg[t]
               /\ pc'[t] \in Stores => loaded'[t] = nextPid
    <3>1. CASE t = current
      BY <2>2, <3>1 DEF PlaceOK, Creation, Stores, ArgOK, Holds
    <3>2. CASE t # current /\ t = arg[current]
      BY <2>2, <3>2 DEF PlaceOK, Creation, Stores
    <3>3. CASE t # current /\ t # arg[current]
      <4>1. pc'[t] = pc[t] /\ arg'[t] = arg[t] /\ loaded'[t] = loaded[t]
        BY <2>2, <3>3 DEF PlaceOK
      <4>. QED  BY <2>1, <4>1 DEF Kin
    <3>. QED  BY <3>1, <3>2, <3>3
  <2>. QED  BY <2>1, <2>3, <2>4, KinFrame
<1>8. CASE LoadPid
  <2> USE <1>0, <1>8 DEF LoadPid, At
  <2>1. Kin /\ UNCHANGED <<pid, nextPid, children, started, reaped>>
    BY DEF KinInv
  <2>2. current \in Slots \ {Idle} /\ pc[Idle] # "boot"
    BY Caller DEF Places, Creation
  <2>3. pc'[Idle] = "boot" <=> pc[Idle] = "boot"
    BY <2>2 DEF PlaceOK
  <2>4. ASSUME NEW t \in Slots
        PROVE  /\ pc'[t] \in Creation => pc[t] \in Creation
               /\ pc[t] = "fork_link" => pc'[t] \notin Creation \ {"fork_link"}
               /\ pc'[t] = "fork_link" => pc[t] = "fork_link" /\ arg'[t] = arg[t]
               /\ pc'[t] \in Stores => loaded'[t] = nextPid
    <3>1. CASE t = current
      BY <2>2, <3>1 DEF PlaceOK, Creation
    <3>2. CASE t # current
      <4>1. pc'[t] = pc[t] /\ arg'[t] = arg[t] /\ loaded'[t] = loaded[t]
        BY <2>2, <3>2 DEF PlaceOK
      <4>. QED  BY <2>1, <4>1 DEF Kin
    <3>. QED  BY <3>1, <3>2
  <2>. QED  BY <2>1, <2>3, <2>4, KinFrame
<1>9. CASE StorePid
  <2> USE <1>0, <1>9 DEF StorePid, At, AssignPid
  <2> DEFINE s == arg[current]
  <2>1. Kin /\ UNCHANGED <<started, reaped, arg>>
    BY DEF KinInv
  <2>2. current \in Slots \ {Idle} /\ pc[Idle] # "boot" /\ s \in Slots
    BY Caller DEF Places, Creation, PlaceOK, ArgOK, Holds
  <2>3. loaded[current] = nextPid /\ nextPid <= started /\ nextPid >= 1
    BY <2>1, <2>2 DEF Kin, Stores, Creation
  <2>4. nextPid' = nextPid + 1
    <3>1. nextPid' = (nextPid + 1) % PidMod
      BY <2>3, Zenon
    <3>2. nextPid + 1 \in 0 .. PidMod - 1
      BY <2>3, ProcessAssumption DEF NoWrap, FamilyOK
    <3> HIDE <1>0, <1>9 DEF StorePid, At, AssignPid
    <3>. QED  BY <3>1, <3>2, ProcessAssumption
  <2>5. pid'[s] = nextPid /\ \A t \in Slots \ {s} : pid'[t] = pid[t]
    BY <2>2, <2>3 DEF FamilyOK
  <2>6. /\ pc'[current] \in {"fork_link", "exec_mark"}
        /\ \A t \in Slots \ {current} : pc'[t] = pc[t]
        /\ pc'[Idle] # "boot"
    BY <2>2 DEF PlaceOK
  <2>7. /\ \A t \in Slots : pc'[t] \in Creation => t = current
        /\ \A t \in Slots : pc'[t] \notin Stores /\ pc'[t] \notin Creation \ {"fork_link"}
    BY <2>1, <2>6 DEF Kin, Creation, Stores
  <2>8. /\ children' \in [Slots -> Seq(Pids)]
        /\ children \in [Slots -> Seq(Pids)]
        /\ \A t \in Slots : children'[t] = children[t] \/ Len(children'[t]) = 0
    BY <2>2 DEF FamilyOK
  <2>9. ListsOK(children', reaped', nextPid) /\ ListsOK(children', reaped', nextPid')
    <3>1. ListsOK(children, reaped, nextPid)
      BY <2>1 DEF Kin
    <3>2. ListsOK(children', reaped, nextPid)
      BY <2>8, <3>1, ListsEmptied, Zenon
    <3>3. ListsOK(children', reaped, nextPid + 1)
      BY <3>2 DEF ListsOK
    <3>. QED  BY <2>1, <2>4, <3>2, <3>3
  <2>10. nextPid \notin reaped'
         /\ \A u \in Slots : \A i \in 1 .. Len(children'[u]) : children'[u][i] # nextPid
    BY <2>9 DEF ListsOK
  <2>11. \A t \in Slots : pid'[t] # 0 => pid'[t] < nextPid'
    BY <2>1, <2>4, <2>5 DEF Kin, FamilyOK, Pids
  <2>12. \A u, t \in Slots : pid'[u] = pid'[t] => u = t \/ pid'[u] = 0
    BY <2>1, <2>3, <2>5 DEF Kin
  <2>13. ASSUME NEW t \in Slots, pc'[t] = "fork_link"
         PROVE  /\ pid'[arg'[t]] # 0 /\ pid'[arg'[t]] \notin reaped'
                /\ \A u \in Slots : \A i \in 1 .. Len(children'[u]) :
                     children'[u][i] # pid'[arg'[t]]
    <3>1. t = current
      BY <2>7, <2>13 DEF Creation
    <3>2. pid'[arg'[t]] = nextPid
      BY <2>1, <2>5, <3>1
    <3>. QED  BY <2>3, <2>10, <3>2
  <2>14. nextPid' <= started' + 1 /\ nextPid' >= 1
    BY <2>1, <2>3, <2>4
  <2>. QED  BY <2>6, <2>7, <2>9, <2>11, <2>12, <2>13, <2>14 DEF Kin
<1>10. CASE ForkLink
  <2> USE <1>0, <1>10 DEF ForkLink, At, Return, Leave
  <2> DEFINE p == pid[arg[current]]
  <2>1. Kin /\ UNCHANGED <<pid, nextPid, started, reaped>>
    BY DEF KinInv
  <2>2. current \in Slots \ {Idle} /\ pc[Idle] # "boot" /\ arg[current] \in Slots
    BY Caller DEF Places, Creation, PlaceOK, ArgOK, Holds
  <2>3. /\ pc'[current] = "user"
        /\ \A t \in Slots \ {current} : pc'[t] = pc[t]
        /\ pc'[Idle] # "boot"
    BY <2>2 DEF PlaceOK
  <2>4. \A t \in Slots : pc'[t] \notin Creation
    BY <2>1, <2>3 DEF Kin, Creation
  <2>5. /\ p \in Pids /\ p \notin reaped /\ p # 0 /\ p < nextPid
        /\ \A u \in Slots : \A i \in 1 .. Len(children[u]) : children[u][i] # p
    BY <2>1, <2>2 DEF Kin, FamilyOK
  <2>6. p \in 1 .. nextPid - 1
    BY <2>5 DEF Pids
  <2>7. children \in [Slots -> Seq(Pids)] /\ ListsOK(children, reaped, nextPid)
    BY <2>1 DEF Kin, FamilyOK
  <2> HIDE DEF p
  <2>8. \/ children' = children
        \/ children' = [children EXCEPT ![current] = Append(children[current], p)]
    BY DEF p
  <2>9. ListsOK(children', reaped', nextPid')
    <3>1. CASE children' = children
      BY <2>1, <2>7, <3>1
    <3>2. CASE children' = [children EXCEPT ![current] = Append(children[current], p)]
      <4>1. ListsOK([children EXCEPT ![current] = Append(children[current], p)],
                    reaped, nextPid)
        BY <2>5, <2>6, <2>7, ListsAppended, Zenon
      <4>. QED  BY <2>1, <3>2, <4>1, Zenon
    <3>. QED  BY <2>8, <3>1, <3>2
  <2>. QED  BY <2>1, <2>2, <2>3, <2>4, <2>9 DEF Kin, Creation, Stores
<1>11. CASE ExecMark
  <2> USE <1>0, <1>11 DEF ExecMark, At, Goto
  <2>1. Kin /\ UNCHANGED <<pid, nextPid, children, started, reaped>>
    BY DEF KinInv
  <2>2. current \in Slots \ {Idle} /\ pc[Idle] # "boot"
    BY Caller DEF Places, Creation
  <2>3. /\ \A t \in Slots :
             \/ pc'[t] \notin Creation
             \/ pc'[t] = pc[t] /\ arg'[t] = arg[t] /\ loaded'[t] = loaded[t]
        /\ pc'[Idle] = pc[Idle]
    BY <2>2 DEF PlaceOK, Creation
  <2>. QED  BY <2>1, <2>3, KinQuiet
<1>12. CASE Waitpid
  <2> USE <1>0, <1>12 DEF Waitpid, Call, At, Goto
  <2>1. Kin /\ UNCHANGED <<pid, nextPid, started>> /\ pc[current] \notin Creation
    BY DEF KinInv, Creation
  <2>2. current \in Slots \ {Idle} /\ pc[Idle] # "boot"
    BY Caller DEF Places, Creation
  <2>3. /\ \A t \in Slots :
             \/ pc'[t] \notin Creation
             \/ pc'[t] = pc[t] /\ arg'[t] = arg[t] /\ loaded'[t] = loaded[t]
        /\ pc'[Idle] = pc[Idle]
    BY <2>2 DEF PlaceOK, Creation
  <2>4. CASE Reap
    BY <2>1, <2>3, <2>4, KinReap, Zenon
  <2>5. CASE UNCHANGED <<children, reaped>>
    BY <2>1, <2>3, <2>5, KinQuiet
  <2>. QED  BY <2>4, <2>5
<1>13. CASE WaitReturn
  <2> USE <1>0, <1>13 DEF WaitReturn, At, Return, Leave
  <2>1. Kin /\ UNCHANGED <<pid, nextPid, started>> /\ pc[current] \notin Creation
    BY DEF KinInv, Creation
  <2>2. current \in Slots \ {Idle} /\ pc[Idle] # "boot"
    BY Caller DEF Places, Creation
  <2>3. /\ \A t \in Slots :
             \/ pc'[t] \notin Creation
             \/ pc'[t] = pc[t] /\ arg'[t] = arg[t] /\ loaded'[t] = loaded[t]
        /\ pc'[Idle] = pc[Idle]
    BY <2>2 DEF PlaceOK, Creation
  <2>4. CASE Reap
    BY <2>1, <2>3, <2>4, KinReap
  <2>5. CASE UNCHANGED <<children, reaped>>
    BY <2>1, <2>3, <2>5, KinQuiet
  <2>. QED  BY <2>4, <2>5
<1>14. CASE WaitMark
  <2> USE <1>0, <1>14 DEF WaitMark, At, Goto
  <2>1. Kin /\ UNCHANGED <<pid, nextPid, children, started, reaped>>
    BY DEF KinInv
  <2>2. current \in Slots \ {Idle} /\ pc[Idle] # "boot"
    BY Caller DEF Places, Creation
  <2>3. /\ \A t \in Slots :
             \/ pc'[t] \notin Creation
             \/ pc'[t] = pc[t] /\ arg'[t] = arg[t] /\ loaded'[t] = loaded[t]
        /\ pc'[Idle] = pc[Idle]
    BY <2>2 DEF PlaceOK, Creation
  <2>. QED  BY <2>1, <2>3, KinQuiet
<1>15. CASE Block
  <2> USE <1>0, <1>15 DEF Block, At, Goto
  <2>1. Kin /\ UNCHANGED <<pid, nextPid, children, started, reaped>>
    BY DEF KinInv
  <2>2. current \in Slots \ {Idle} /\ pc[Idle] # "boot"
    BY Caller DEF Places, Creation
  <2>3. /\ \A t \in Slots :
             \/ pc'[t] \notin Creation
             \/ pc'[t] = pc[t] /\ arg'[t] = arg[t] /\ loaded'[t] = loaded[t]
        /\ pc'[Idle] = pc[Idle]
    BY <2>2 DEF PlaceOK, Creation
  <2>. QED  BY <2>1, <2>3, KinQuiet
<1>16. CASE ExecReturn
  <2> USE <1>0, <1>16 DEF ExecReturn, At, Return, Leave
  <2>1. Kin /\ UNCHANGED <<pid, nextPid, children, started, reaped>>
    BY DEF KinInv
  <2>2. current \in Slots \ {Idle} /\ pc[Idle] # "boot"
    BY Caller DEF Places, Creation
  <2>3. /\ \A t \in Slots :
             \/ pc'[t] \notin Creation
             \/ pc'[t] = pc[t] /\ arg'[t] = arg[t] /\ loaded'[t] = loaded[t]
        /\ pc'[Idle] = pc[Idle]
    BY <2>2 DEF PlaceOK, Creation
  <2>. QED  BY <2>1, <2>3, KinQuiet
<1>17. CASE Exit \/ SignalExit
  <2> USE <1>0, <1>17 DEF Exit, SignalExit, Send, ExitCurrentTask, Return, Leave
  <2>1. Kin /\ UNCHANGED <<pid, nextPid, children, started, reaped>>
    BY DEF KinInv
  <2>2. current \in Slots \ {Idle} /\ pc[Idle] # "boot"
    BY Caller DEF Places, Creation
  <2>3. /\ \A t \in Slots :
             \/ pc'[t] \notin Creation
             \/ pc'[t] = pc[t] /\ arg'[t] = arg[t] /\ loaded'[t] = loaded[t]
        /\ pc'[Idle] = pc[Idle]
    BY <2>2 DEF PlaceOK, Creation
  <2>. QED  BY <2>1, <2>3, KinQuiet
<1>18. CASE SignalWake
  <2> USE <1>0, <1>18 DEF SignalWake, Call, At, Send
  <2>1. Kin /\ UNCHANGED <<pid, nextPid, children, started, reaped>>
    BY DEF KinInv
  <2>3. /\ \A t \in Slots :
             \/ pc'[t] \notin Creation
             \/ pc'[t] = pc[t] /\ arg'[t] = arg[t] /\ loaded'[t] = loaded[t]
        /\ pc'[Idle] = pc[Idle]
    BY DEF PlaceOK, Creation
  <2>. QED  BY <2>1, <2>3, KinQuiet
<1>19. CASE KillFind \/ TaskctlKill
  <2> USE <1>0, <1>19 DEF KillFind, TaskctlKill, KillCall, Call, At, Send
  <2>1. Kin /\ UNCHANGED <<pid, nextPid, children, started, reaped>>
    BY DEF KinInv
  <2>2. current \in Slots \ {Idle} /\ pc[Idle] # "boot"
    BY Caller DEF Places, Creation
  <2>3. /\ \A t \in Slots :
             \/ pc'[t] \notin Creation
             \/ pc'[t] = pc[t] /\ arg'[t] = arg[t] /\ loaded'[t] = loaded[t]
        /\ pc'[Idle] = pc[Idle]
    BY <2>2 DEF PlaceOK, Creation
  <2>. QED  BY <2>1, <2>3, KinQuiet
<1>20. CASE KillWake
  <2> USE <1>0, <1>20 DEF KillWake, At, Goto, Return, Leave
  <2>1. Kin /\ UNCHANGED <<pid, nextPid, children, started, reaped>>
    BY DEF KinInv
  <2>2. current \in Slots \ {Idle} /\ pc[Idle] # "boot"
    BY Caller DEF Places, Creation
  <2>3. /\ \A t \in Slots :
             \/ pc'[t] \notin Creation
             \/ pc'[t] = pc[t] /\ arg'[t] = arg[t] /\ loaded'[t] = loaded[t]
        /\ pc'[Idle] = pc[Idle]
    BY <2>2 DEF PlaceOK, Creation
  <2>. QED  BY <2>1, <2>3, KinQuiet
<1>21. CASE KillMark
  <2> USE <1>0, <1>21 DEF KillMark, At, Leave
  <2>1. Kin /\ UNCHANGED <<pid, nextPid, children, started, reaped>>
    BY DEF KinInv
  <2>2. current \in Slots \ {Idle} /\ pc[Idle] # "boot" /\ arg[current] # Idle
    BY Caller DEF Places, Creation, PlaceOK, ArgOK, Holds
  <2>3. /\ \A t \in Slots :
             \/ pc'[t] \notin Creation
             \/ pc'[t] = pc[t] /\ arg'[t] = arg[t] /\ loaded'[t] = loaded[t]
        /\ pc'[Idle] = pc[Idle]
    BY <2>2 DEF PlaceOK, Creation
  <2>. QED  BY <2>1, <2>3, KinQuiet
<1>22. CASE UNCHANGED vars
  <2>1. Kin /\ UNCHANGED <<pid, nextPid, children, started, reaped, pc, arg, loaded>>
    BY <1>22 DEF vars, KinInv
  <2>. QED  BY <2>1, KinQuiet
<1>. QED
  BY <1>1, <1>2, <1>3, <1>4, <1>5, <1>6, <1>7, <1>8, <1>9, <1>10, <1>11, <1>12, <1>13,
     <1>14, <1>15, <1>16, <1>17, <1>18, <1>19, <1>20, <1>21, <1>22 DEF Next

LEMMA KinInvariant == ASSUME NoWrap PROVE Spec => []KinInv
<1>1. TableInv /\ KinInv /\ [Next]_vars => KinInv'
  BY KinStep
<1>. QED  BY <1>1, KinInit, TableInvariant, PTL DEF Spec

\* As long as no two creations have overlapped and pids do not come round, no pid
\* is in two lists, nor in one once waitpid has returned it, for any number of
\* slots, children and system calls.
THEOREM ReapedOnceHolds == ASSUME NoWrap PROVE Spec => []ReapedOnce
<1>1. KinInv => ReapedOnce
  BY DEF KinInv, Kin, ListsOK, ReapedOnce
<1>. QED  BY <1>1, KinInvariant, PTL

LEMMA OnlyWaitpidReaps ==
  ASSUME [Next]_vars, reaped' # reaped
  PROVE  Waitpid \/ WaitReturn
BY Zenon
DEF Next, Boot, Tick, Fork, Execmod, FindSlot, LoadCount, StoreCount, Reset, Ready,
    LoadPid, StorePid, ForkLink, ExecMark, WaitMark, Block, ExecReturn, Exit,
    SignalExit, ExitCurrentTask, SignalWake, KillFind, TaskctlKill, KillCall, KillWake,
    KillMark, log, vars

\* Under the same conditions waitpid never returns the pid of a live task.
THEOREM ReapedIsOverHolds == ASSUME NoWrap PROVE Spec => ReapedIsOver
<1> DEFINE Over == ~raced => \A c \in reaped' \ reaped : \A t \in Slots : Live(t) => pid[t] # c
<1>1. ASSUME TableInv, KinInv, [Next]_vars  PROVE [Over]_vars
  <2> SUFFICES ASSUME ~raced, NEW c \in reaped' \ reaped, NEW t \in Slots, Live(t),
                      pid[t] = c
               PROVE  FALSE
    OBVIOUS
  <2>1. Kin
    BY <1>1 DEF KinInv
  \* Only waitpid reaps.
  <2>2. Reap /\ pc[current] \in {"user", "wait_halt"} /\ current # Idle
    <3>1. reaped' # reaped
      OBVIOUS
    <3>2. Waitpid \/ WaitReturn
      BY <1>1, <3>1, OnlyWaitpidReaps
    <3>. QED  BY <1>1, <3>1, <3>2, Zenon DEF Waitpid, WaitReturn, Call, At, TableInv, PlaceOK
  <2>3. PICK i \in 1 .. Len(children[current]) :
          IsDeadChild(current, i) /\ reaped' = reaped \cup {children[current][i]}
    BY <2>2 DEF Reap
  <2>4. c = children[current][i] /\ current \in Slots
    <3>1. current \in Slots
      BY <1>1, Zenon DEF TableInv, StateOK
    <3>. QED  BY <2>3, <3>1
  <2>5. c # 0
    BY <2>1, <2>3, <2>4 DEF Kin, ListsOK
  \* The DEAD slot that has the pid is the only one that does.
  <2>6. PICK s \in 0 .. taskCount - 1 : pid[s] = c /\ state[s] = "DEAD"
    BY <2>3, <2>4 DEF IsDeadChild
  <2>7. s \in Slots
    <3>1. taskCount <= MaxTasks
      BY <1>1, <2>2, Caller DEF Resets
    <3>. QED  BY <1>1, <3>1, ProcessAssumption DEF TableInv, StateOK, Slots
  <2>8. s = t
    BY <2>1, <2>5, <2>6, <2>7 DEF Kin
  <2>. QED  BY <2>6, <2>8 DEF Live
<1>2. TableInv /\ KinInv /\ [Next]_vars => [Over]_vars
  BY <1>1
<1>. QED  BY <1>2, KinInvariant, TableInvariant, PTL DEF Spec, ReapedIsOver
=============================================================================
