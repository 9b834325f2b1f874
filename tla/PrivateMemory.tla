--------------------------- MODULE PrivateMemory ---------------------------
(***************************************************************************)
(* What virtual memory promises to processes, with no frames, references   *)
(* or copy-on-write: each process has a memory of its own, fork copies it, *)
(* and nobody else ever changes it.                                        *)
(***************************************************************************)

CONSTANTS
  Tasks,     \* the slots of user processes
  Pages,     \* the pages a process can have
  Images,    \* the programs: functions from their pages to what is there
  Values,    \* what a process may store in a page
  Unmapped   \* "contents" of a page that is not mapped

VARIABLE mem   \* mem[t]: the memory of process t, all Unmapped without one

NoMemory == [v \in Pages |-> Unmapped]

Fresh(image) == [v \in Pages |-> IF v \in DOMAIN image THEN image[v] ELSE Unmapped]

Init == mem = [t \in Tasks |-> NoMemory]

\* A process starts, or execs, with exactly the contents of a program.
Load(t) == \E image \in Images : mem' = [mem EXCEPT ![t] = Fresh(image)]

Fork(p, c) == mem[c] = NoMemory /\ mem' = [mem EXCEPT ![c] = mem[p]]

Write(t, v, x) ==
  /\ mem[t][v] # Unmapped
  /\ mem' = [mem EXCEPT ![t][v] = x]

End(t) == mem' = [mem EXCEPT ![t] = NoMemory]

Next ==
  \E t \in Tasks :
    \/ Load(t) \/ End(t)
    \/ \E c \in Tasks : Fork(t, c)
    \/ \E v \in Pages, x \in Values : Write(t, v, x)

Spec == Init /\ [][Next]_mem
=============================================================================
