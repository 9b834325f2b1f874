--------------------------- MODULE ContextProofs ---------------------------
(***************************************************************************)
(* User contexts, for any number of tasks, signals and calls: they go      *)
(* wrong by the five causes only, and the context of the program is saved  *)
(* while a handler runs.                                                   *)
(***************************************************************************)
EXTENDS Context, TLAPS

\* A leaf that names no prover goes to the SMT solver, with time to spare.
USE SMTT(30)

Eips == Mains \cup {"handler", "null"}

Records ==
  [state : {"dead", "ready", "blocked"}, eip : Eips,
   call : Calls \cup {"none", "return", "deliver", "iret"}, esp : {"user", "kernel"},
   pending : SUBSET Signals, handlers : SUBSET Signals, saved : Eips,
   under : Seq(Eips), wrong : BOOLEAN, cause : BOOLEAN]

\* A task that has met no cause runs at most one handler, and what the handler
\* interrupted is saved.  Unless it is wrong, a task in a handler has something
\* to return to, in the end a place that is not in a handler.
Sound(r) ==
  /\ r \in Records
  /\ r.wrong => r.cause
  /\ ~r.cause => r.under = << >> \/ r.under = <<r.saved>>
  /\ ~r.wrong /\ r.eip = "handler" => r.under # << >>
  /\ ~r.wrong /\ r.under # << >> => r.under[Len(r.under)] # "handler"
  /\ ~r.wrong /\ r.call = "sigreturn" => r.eip = "handler"

\* syscallFrameEsp is the frame of a task on its way to fork or exec, unless the
\* task has met a cause.
Framed(t, r, f) ==
  /\ r.call # "none" => f \in Tasks
  /\ r.call \in {"fork", "exec"} /\ f # t => r.cause

IInv ==
  /\ DOMAIN task = Tasks /\ task = [t \in Tasks |-> task[t]]
  /\ current \in Tasks \cup {0}
  /\ current # 0 => task[current].state # "dead"
  /\ \A t \in Tasks : Sound(task[t]) /\ Framed(t, task[t], frameOf)

\* Redirecting a frame to a handler keeps a task sound.
LEMMA RedirectedSound ==
  ASSUME NEW r, Sound(r), ~r.wrong, r.call # "sigreturn"
  PROVE  Sound(Redirected(r)) /\ ~Redirected(r).wrong
<1>. DEFINE u == <<r.eip>> \o r.under
            d == Redirected(r)
<1>1. <<r.eip>> \in Seq(Eips) /\ r.under \in Seq(Eips)
  BY DEF Sound, Records
<1>2. /\ u \in Seq(Eips) /\ Len(u) = Len(r.under) + 1
      /\ u[1] = r.eip /\ \A i \in 1 .. Len(r.under) : u[i + 1] = r.under[i]
  BY <1>1
<1>3. Len(r.under) \in Nat /\ (Len(r.under) = 0 <=> r.under = << >>) /\ u # << >>
  BY <1>1, <1>2
<1>4. u[Len(u)] # "handler"
  <2>1. CASE r.under = << >>
    BY <1>2, <1>3, <2>1 DEF Sound
  <2>2. CASE r.under # << >>
    BY <1>2, <1>3, <2>2 DEF Sound
  <2>. QED  BY <2>1, <2>2
<1>5. r.under = << >> => u = <<r.eip>>
  BY <1>1
<1>6. (r.cause \/ r.under # << >>) \in BOOLEAN
  BY Zenon
<1>7. d \in Records
  BY <1>2, <1>6, Zenon DEF Sound, Redirected, Records, Eips
<1>8. d.eip = "handler" /\ d.saved = r.eip /\ d.under = u /\ d.call = r.call
  BY DEF Sound, Redirected, Records
<1>9. d.wrong = r.wrong /\ d.cause = (r.cause \/ r.under # << >>)
  BY DEF Sound, Redirected, Records
<1>. HIDE DEF d, u
<1>10. ~d.wrong /\ (~d.cause => d.under = <<d.saved>>)
  BY <1>5, <1>8, <1>9, Zenon
<1>. QED  BY <1>3, <1>4, <1>7, <1>8, <1>10 DEF Sound, d

\* A signal is delivered to a ring-3 frame only, which sigreturn is not using.
LEMMA DeliveredSound ==
  ASSUME NEW r, Sound(r), ~r.wrong, r.call = "sigreturn" => r.esp = "kernel"
  PROVE  /\ Sound(DeliverPendingSignals(r))
         /\ DeliverPendingSignals(r).state = r.state
         /\ DeliverPendingSignals(r).call = r.call
         /\ r.cause => DeliverPendingSignals(r).cause
<1>1. CASE Deferred(r)
  BY <1>1 DEF DeliverPendingSignals
<1>2. CASE ~Deferred(r)
  <2>. DEFINE d == Redirected(r)
  <2>1. r.esp # "kernel" /\ r.call # "sigreturn"
    BY <1>2 DEF Deferred
  <2>2. Sound(d) /\ ~d.wrong
    BY <2>1, RedirectedSound
  <2>3. /\ d.state = r.state /\ d.call = r.call
        /\ r.cause => d.cause
    BY DEF Redirected, Sound, Records
  <2>4. DeliverPendingSignals(r) =
          [d EXCEPT !.pending = @ \ {Lowest(r)}, !.wrong = (r.esp = "kernel")]
    BY <1>2 DEF DeliverPendingSignals
  <2>5. (r.esp = "kernel") = FALSE
    BY <2>1
  <2>. DEFINE x == [d EXCEPT !.pending = @ \ {Lowest(r)}, !.wrong = FALSE]
  <2>. HIDE DEF d
  <2>6. x \in Records
    BY <2>2, Zenon DEF Sound, Records
  <2>7. /\ x.state = d.state /\ x.call = d.call /\ x.eip = d.eip
        /\ x.saved = d.saved /\ x.under = d.under
    BY <2>2 DEF Sound, Records
  <2>8. x.cause = d.cause /\ x.wrong = FALSE
    BY <2>2 DEF Sound, Records
  <2>. HIDE DEF x
  <2>9. Sound(x)
    BY <2>2, <2>6, <2>7, <2>8, Zenon DEF Sound
  <2>. QED  BY <2>3, <2>4, <2>5, <2>7, <2>8, <2>9, Zenon DEF x
<1>. QED  BY <1>1, <1>2

\* A dead slot and a new task are sound.
LEMMA FreshSound == Sound(Fresh) /\ Sound(Dead)
<1>1. Fresh \in Records
  BY DEF Records, Fresh, Eips, Mains, Calls
<1>2. Dead \in Records
  BY <1>1, Zenon DEF Records, Fresh, Dead, Eips, Mains, Calls
<1>3. Fresh.wrong = FALSE /\ Fresh.under = << >> /\ Fresh.eip # "handler" /\ Fresh.call # "sigreturn"
  BY DEF Fresh
<1>4. Dead.wrong = FALSE /\ Dead.under = << >> /\ Dead.eip # "handler" /\ Dead.call # "sigreturn"
  BY DEF Fresh, Dead
<1>. QED  BY <1>1, <1>2, <1>3, <1>4, Zenon DEF Sound

\* A change of anything but the places and the history keeps a task sound.
LEMMA MinorSound ==
  ASSUME NEW r, NEW x, Sound(r), x \in Records,
         x.eip = r.eip, x.saved = r.saved, x.under = r.under,
         x.wrong = r.wrong, x.cause = r.cause,
         x.call = "sigreturn" => r.eip = "handler" \/ r.call = "sigreturn"
  PROVE  Sound(x)
BY Zenon DEF Sound

\* A step of one task that leaves it alive and sound keeps the invariant.
LEMMA StepKeeps ==
  ASSUME IInv, NEW t \in Tasks, NEW r, Sound(r), Framed(t, r, frameOf),
         r.state # "dead", task' = [task EXCEPT ![t] = r],
         current' = current, frameOf' = frameOf
  PROVE  IInv'
<1>1. task'[t] = r /\ \A u \in Tasks \ {t} : task'[u] = task[u]
  BY DEF IInv
<1>2. DOMAIN task' = Tasks /\ task' = [u \in Tasks |-> task'[u]]
  BY DEF IInv
<1>3. current' # 0 => task'[current'].state # "dead"
  BY <1>1 DEF IInv
<1>4. ASSUME NEW u \in Tasks PROVE Sound(task'[u]) /\ Framed(u, task'[u], frameOf')
  <2>1. CASE u = t  BY <1>1, <2>1, Zenon
  <2>2. CASE u # t  BY <1>1, <2>2, Zenon DEF IInv
  <2>. QED  BY <2>1, <2>2
<1>. QED  BY <1>2, <1>3, <1>4, Zenon DEF IInv

\* The end of a task keeps the invariant: the next task to run is not dead.
LEMMA ExitKeeps ==
  ASSUME IInv, NEW t \in Tasks, ExitCurrentTask(t), frameOf' = frameOf
  PROVE  IInv'
<1>1. task'[t] = Dead /\ \A u \in Tasks \ {t} : task'[u] = task[u]
  BY DEF IInv, ExitCurrentTask
<1>2. DOMAIN task' = Tasks /\ task' = [u \in Tasks |-> task'[u]]
  BY DEF IInv, ExitCurrentTask
<1>3. current' \in (Tasks \ {t}) \cup {0}
  BY DEF ExitCurrentTask, FindNext, Ready
<1>4. ASSUME current' # 0 PROVE task'[current'].state # "dead"
  <2>1. current' \in Tasks \ {t} /\ task[current'].state = "ready"
    BY <1>4, ContextAssumption DEF ExitCurrentTask, FindNext, Ready
  <2>. QED  BY <1>1, <2>1
<1>5. Framed(t, Dead, frameOf)
  BY DEF Framed, Dead, Fresh
<1>6. ASSUME NEW u \in Tasks PROVE Sound(task'[u]) /\ Framed(u, task'[u], frameOf')
  <2>1. CASE u = t  BY <1>1, <1>5, <2>1, FreshSound, Zenon
  <2>2. CASE u # t  BY <1>1, <2>2, Zenon DEF IInv
  <2>. QED  BY <2>1, <2>2
<1>. QED  BY <1>2, <1>3, <1>4, <1>6, Zenon DEF IInv

\* The tasks and their records, as the leaves below need them.
LEMMA IInvFacts ==
  ASSUME IInv, NEW t \in Tasks
  PROVE  /\ Sound(task[t]) /\ Framed(t, task[t], frameOf)
         /\ task[t] \in Records
BY DEF IInv, Sound

\* tick keeps the invariant.
LEMMA TickStep ==
  ASSUME IInv, NEW t \in Tasks, ~task[t].wrong, Tick(t)
  PROVE  IInv'
<1>. DEFINE e == IF task[t].call = "none" THEN "user" ELSE "kernel"
            r == [task[t] EXCEPT !.esp = e]
            d == DeliverPendingSignals(r)
<1>1. /\ current = t /\ frameOf' = frameOf
      /\ \/ ExitCurrentTask(t)
         \/ /\ task' = [task EXCEPT ![t] = d]
            /\ current' \in FindNext(t) \cup {u \in {t} : r.state = "ready"}
  BY DEF Tick
<1>2. CASE ExitCurrentTask(t)
  BY <1>1, <1>2, ExitKeeps
<1>3. CASE /\ task' = [task EXCEPT ![t] = d]
           /\ current' \in FindNext(t) \cup {u \in {t} : r.state = "ready"}
  <2>1. r \in Records /\ r.esp = e
    BY IInvFacts DEF Records
  <2>2. /\ r.eip = task[t].eip /\ r.saved = task[t].saved /\ r.under = task[t].under
        /\ r.wrong = task[t].wrong /\ r.cause = task[t].cause
        /\ r.call = task[t].call /\ r.state = task[t].state
    BY IInvFacts DEF Records
  <2>3. r.call = "sigreturn" => r.esp = "kernel"
    BY <2>1, <2>2
  <2>. HIDE DEF r
  <2>4. Sound(r)
    BY <2>1, <2>2, IInvFacts, MinorSound
  <2>5. /\ Sound(d) /\ d.state = r.state /\ d.call = r.call
        /\ r.cause => d.cause
    BY <2>2, <2>3, <2>4, DeliveredSound
  <2>. HIDE DEF d
  <2>6. Framed(t, d, frameOf)
    BY <2>2, <2>5, IInvFacts, Zenon DEF Framed
  <2>7. task'[t] = d /\ \A u \in Tasks \ {t} : task'[u] = task[u]
    BY <1>3 DEF IInv
  <2>8. DOMAIN task' = Tasks /\ task' = [u \in Tasks |-> task'[u]]
    BY <1>3 DEF IInv
  <2>9. ASSUME NEW u \in Tasks PROVE Sound(task'[u]) /\ Framed(u, task'[u], frameOf')
    <3>1. CASE u = t  BY <1>1, <2>5, <2>6, <2>7, <3>1, Zenon
    <3>2. CASE u # t  BY <1>1, <2>7, <3>2, Zenon DEF IInv
    <3>. QED  BY <3>1, <3>2
  <2>10. current' \in Tasks \cup {0}
    BY <1>3 DEF FindNext, Ready
  <2>11. ASSUME current' # 0 PROVE task'[current'].state # "dead"
    <3>1. CASE current' = t
      <4>1. r.state = "ready"
        BY <1>3, <2>11, <3>1, ContextAssumption DEF FindNext, Ready
      <4>. QED  BY <2>5, <2>7, <3>1, <4>1
    <3>2. CASE current' # t
      <4>1. current' \in Tasks /\ task[current'].state = "ready"
        BY <1>3, <2>11, <3>2, ContextAssumption DEF FindNext, Ready
      <4>. QED  BY <2>7, <3>2, <4>1
    <3>. QED  BY <3>1, <3>2
  <2>. QED  BY <2>8, <2>9, <2>10, <2>11, Zenon DEF IInv
<1>. QED  BY <1>1, <1>2, <1>3

\* A step that changes no place and no history of one task keeps the invariant.
LEMMA MinorStep ==
  ASSUME IInv, NEW t \in Tasks, NEW x \in Records,
         x.eip = task[t].eip, x.saved = task[t].saved, x.under = task[t].under,
         x.wrong = task[t].wrong, x.cause = task[t].cause,
         x.call \in {"none", "return", "deliver", "iret"} \/ x.call = task[t].call,
         x.call # "none" => task[t].call # "none", x.state # "dead",
         task' = [task EXCEPT ![t] = x], current' = current, frameOf' = frameOf
  PROVE  IInv'
<1>1. Sound(task[t]) /\ Framed(t, task[t], frameOf)
  BY IInvFacts
<1>2. x.call = "sigreturn" => task[t].call = "sigreturn"
  OBVIOUS
<1>3. Sound(x)
  BY <1>1, <1>2, MinorSound
<1>4. x.call \in {"fork", "exec"} => x.call = task[t].call
  OBVIOUS
<1>5. Framed(t, x, frameOf)
  BY <1>1, <1>4, Zenon DEF Framed
<1>. QED  BY <1>3, <1>5, StepKeeps, Zenon

\* What a system call does to its own task only keeps the invariant.
LEMMA MinorCalls ==
  ASSUME IInv, NEW t \in Tasks,
         \/ Return(t) \/ Iret(t) \/ Wait(t) \/ Wake(t) \/ Refused(t)
         \/ \E s \in Signals : Sigaction(t, s)
  PROVE  IInv'
<1>. DEFINE R == task[t]
<1>1. R \in Records
  BY IInvFacts
<1>2. CASE Return(t)
  <2>. DEFINE x == [R EXCEPT !.call = "deliver", !.esp = "user"]
  <2>1. /\ x \in Records /\ x.eip = R.eip /\ x.saved = R.saved /\ x.under = R.under
        /\ x.wrong = R.wrong /\ x.cause = R.cause
        /\ x.call = "deliver" /\ x.state = R.state
    BY <1>1, Zenon DEF Records
  <2>2. R.call = "return" /\ R.state # "dead"
    BY <1>2 DEF Return, At
  <2>3. task' = [task EXCEPT ![t] = x] /\ current' = current /\ frameOf' = frameOf
    BY <1>2 DEF Return, Step
  <2>. HIDE DEF x
  <2>. QED  BY <2>1, <2>2, <2>3, MinorStep, Zenon
<1>3. CASE Iret(t)
  <2>. DEFINE x == [R EXCEPT !.call = "none"]
  <2>1. /\ x \in Records /\ x.eip = R.eip /\ x.saved = R.saved /\ x.under = R.under
        /\ x.wrong = R.wrong /\ x.cause = R.cause
        /\ x.call = "none" /\ x.state = R.state
    BY <1>1 DEF Records
  <2>2. R.state # "dead"
    BY <1>3 DEF Iret, At
  <2>3. task' = [task EXCEPT ![t] = x] /\ current' = current /\ frameOf' = frameOf
    BY <1>3 DEF Iret, Step
  <2>. HIDE DEF x
  <2>. QED  BY <2>1, <2>2, <2>3, MinorStep, Zenon
<1>4. CASE Wait(t)
  <2>. DEFINE x == [R EXCEPT !.state = "blocked", !.call = "return"]
  <2>1. /\ x \in Records /\ x.eip = R.eip /\ x.saved = R.saved /\ x.under = R.under
        /\ x.wrong = R.wrong /\ x.cause = R.cause
        /\ x.call = "return" /\ x.state = "blocked"
    BY <1>1, Zenon DEF Records
  <2>2. R.call = "wait"
    BY <1>4 DEF Wait, At
  <2>3. task' = [task EXCEPT ![t] = x] /\ current' = current /\ frameOf' = frameOf
    BY <1>4 DEF Wait, Step
  <2>. HIDE DEF x
  <2>. QED  BY <2>1, <2>2, <2>3, MinorStep, Zenon
<1>5. CASE Wake(t)
  <2>. DEFINE x == [R EXCEPT !.state = "ready"]
  <2>1. /\ x \in Records /\ x.eip = R.eip /\ x.saved = R.saved /\ x.under = R.under
        /\ x.wrong = R.wrong /\ x.cause = R.cause
        /\ x.call = R.call /\ x.state = "ready"
    BY <1>1 DEF Records
  <2>2. task' = [task EXCEPT ![t] = x] /\ current' = current /\ frameOf' = frameOf
    BY <1>5 DEF Wake, Step
  <2>. HIDE DEF x
  <2>. QED  BY <2>1, <2>2, MinorStep, Zenon
<1>6. CASE Refused(t)
  <2>. DEFINE x == [R EXCEPT !.call = "return"]
  <2>1. /\ x \in Records /\ x.eip = R.eip /\ x.saved = R.saved /\ x.under = R.under
        /\ x.wrong = R.wrong /\ x.cause = R.cause
        /\ x.call = "return" /\ x.state = R.state
    BY <1>1 DEF Records
  <2>2. R.call # "none" /\ R.state # "dead"
    BY <1>6 DEF Refused, At
  <2>3. task' = [task EXCEPT ![t] = x] /\ current' = current /\ frameOf' = frameOf
    BY <1>6 DEF Refused, Step
  <2>. HIDE DEF x
  <2>. QED  BY <2>1, <2>2, <2>3, MinorStep, Zenon
<1>7. ASSUME NEW s \in Signals, Sigaction(t, s) PROVE IInv'
  <2>1. PICK h \in {R.handlers \cup {s}, R.handlers \ {s}} :
          task' = [task EXCEPT ![t] = [R EXCEPT !.handlers = h, !.call = "return"]]
    BY <1>7, Zenon DEF Sigaction, IInv
  <2>2. h \subseteq Signals
    BY <1>1 DEF Records
  <2>. DEFINE x == [R EXCEPT !.handlers = h, !.call = "return"]
  <2>3. /\ x \in Records /\ x.eip = R.eip /\ x.saved = R.saved /\ x.under = R.under
        /\ x.wrong = R.wrong /\ x.cause = R.cause
        /\ x.call = "return" /\ x.state = R.state
    BY <1>1, <2>2, Zenon DEF Records
  <2>4. R.call # "none" /\ R.state # "dead" /\ current' = current /\ frameOf' = frameOf
    BY <1>7, Zenon DEF Sigaction, At
  <2>5. task' = [task EXCEPT ![t] = x]
    BY <2>1
  <2>. HIDE DEF x
  <2>. QED  BY <2>3, <2>4, <2>5, MinorStep, Zenon
<1>. QED  BY <1>2, <1>3, <1>4, <1>5, <1>6, <1>7

\* The program's own steps keep the invariant.
LEMMA UserStepStep ==
  ASSUME IInv, NEW t \in Tasks, ~task[t].wrong, UserStep(t)
  PROVE  IInv'
<1>. DEFINE R == task[t]
<1>1. R \in Records /\ Sound(R) /\ Framed(t, R, frameOf)
  BY IInvFacts
<1>2. PICK p \in Mains : /\ task' = [task EXCEPT ![t] = [R EXCEPT !.eip = p]]
                         /\ current' = current /\ frameOf' = frameOf
  BY Zenon DEF UserStep, Step
<1>3. R.call = "none" /\ R.state # "dead" /\ R.eip \in Mains
  BY DEF UserStep, At
<1>. DEFINE x == [R EXCEPT !.eip = p]
<1>4. /\ x \in Records /\ x.eip = p /\ x.saved = R.saved /\ x.under = R.under
      /\ x.wrong = R.wrong /\ x.cause = R.cause
      /\ x.call = R.call /\ x.state = R.state
  BY <1>1 DEF Records, Eips
<1>5. task' = [task EXCEPT ![t] = x]
  BY <1>2
<1>6. p # "handler"
  BY DEF Mains
<1>. HIDE DEF x
<1>7. Sound(x)
  BY <1>1, <1>3, <1>4, <1>6 DEF Sound
<1>8. Framed(t, x, frameOf)
  BY <1>3, <1>4 DEF Framed
<1>. QED  BY <1>2, <1>3, <1>4, <1>5, <1>7, <1>8, StepKeeps, Zenon

\* A page fault keeps the invariant.
LEMMA PageFaultStep ==
  ASSUME IInv, NEW t \in Tasks, ~task[t].wrong, PageFault(t)
  PROVE  IInv'
<1>. DEFINE R == task[t]
            d == Redirected(R)
            x == [d EXCEPT !.handlers = @ \ {SIGSEGV}]
<1>1. R \in Records /\ Sound(R) /\ Framed(t, R, frameOf)
  BY IInvFacts
<1>2. R.call = "none" /\ R.state # "dead"
  BY DEF PageFault, At
<1>3. CASE ExitCurrentTask(t) /\ frameOf' = frameOf
  BY <1>3, ExitKeeps
<1>4. CASE Step(t, x)
  <2>1. Sound(d) /\ d.state = R.state /\ d.call = R.call
    BY <1>1, <1>2, RedirectedSound, Zenon DEF Redirected, Records
  <2>2. task' = [task EXCEPT ![t] = x] /\ current' = current /\ frameOf' = frameOf
    BY <1>4 DEF Step
  <2>. HIDE DEF d
  <2>3. /\ x \in Records /\ x.eip = d.eip /\ x.saved = d.saved /\ x.under = d.under
        /\ x.wrong = d.wrong /\ x.cause = d.cause
        /\ x.call = d.call /\ x.state = d.state
    BY <2>1 DEF Records, Sound
  <2>. HIDE DEF x
  <2>4. Sound(x)
    BY <1>2, <2>1, <2>3, MinorSound
  <2>5. Framed(t, x, frameOf)
    BY <1>2, <2>1, <2>3 DEF Framed
  <2>. QED  BY <1>2, <2>1, <2>2, <2>3, <2>4, <2>5, StepKeeps, Zenon
<1>. QED  BY <1>3, <1>4 DEF PageFault

\* Delivery at the end of a system call keeps the invariant.
LEMMA DeliverStep ==
  ASSUME IInv, NEW t \in Tasks, ~task[t].wrong, Deliver(t)
  PROVE  IInv'
<1>. DEFINE R == task[t]
            d == DeliverPendingSignals(R)
            x == [d EXCEPT !.call = "iret"]
<1>1. R \in Records /\ Sound(R) /\ Framed(t, R, frameOf)
  BY IInvFacts
<1>2. R.call = "deliver" /\ R.state # "dead"
  BY DEF Deliver, At
<1>3. CASE ExitCurrentTask(t) /\ frameOf' = frameOf
  BY <1>3, ExitKeeps
<1>4. CASE Step(t, x)
  <2>1. Sound(d) /\ d.state = R.state /\ d.call = R.call
    BY <1>1, <1>2, DeliveredSound
  <2>2. task' = [task EXCEPT ![t] = x] /\ current' = current /\ frameOf' = frameOf
    BY <1>4 DEF Step
  <2>. HIDE DEF d
  <2>3. /\ x \in Records /\ x.eip = d.eip /\ x.saved = d.saved /\ x.under = d.under
        /\ x.wrong = d.wrong /\ x.cause = d.cause
        /\ x.call = "iret" /\ x.state = d.state
    BY <2>1 DEF Records, Sound
  <2>. HIDE DEF x
  <2>4. Sound(x)
    BY <2>1, <2>3, MinorSound
  <2>5. Framed(t, x, frameOf)
    BY <1>1, <1>2, <2>3 DEF Framed
  <2>. QED  BY <1>2, <2>1, <2>2, <2>3, <2>4, <2>5, StepKeeps, Zenon
<1>. QED  BY <1>3, <1>4 DEF Deliver

\* SYS_SIGRETURN goes back to the interrupted place if no cause was met.
LEMMA SigreturnStep ==
  ASSUME IInv, NEW t \in Tasks, ~task[t].wrong, Sigreturn(t)
  PROVE  IInv'
<1>. DEFINE R == task[t]
            eip == IF R.esp = "user" THEN R.saved ELSE R.eip
            c == R.cause \/ R.esp = "kernel"
            w == eip # Head(R.under) \/ R.esp = "kernel"
            x == [R EXCEPT !.eip = eip, !.under = Tail(@), !.call = "return",
                           !.cause = c, !.wrong = w]
<1>1. R \in Records /\ Sound(R) /\ Framed(t, R, frameOf)
  BY IInvFacts
<1>2. R.call = "sigreturn" /\ R.state # "dead"
  BY DEF Sigreturn, At
<1>3. task' = [task EXCEPT ![t] = x] /\ current' = current /\ frameOf' = frameOf
  BY DEF Sigreturn, Step
<1>4. eip \in Eips /\ R.under \in Seq(Eips) /\ R.esp \in {"user", "kernel"}
  BY <1>1 DEF Records
<1>5. c \in BOOLEAN /\ w \in BOOLEAN
  BY Zenon
<1>6. R.under # << >>
  BY <1>1, <1>2 DEF Sound
<1>7. /\ Tail(R.under) \in Seq(Eips) /\ Len(Tail(R.under)) = Len(R.under) - 1
      /\ Len(R.under) \in Nat \ {0} /\ Head(R.under) = R.under[1]
      /\ \A i \in 1 .. Len(R.under) - 1 : Tail(R.under)[i] = R.under[i + 1]
      /\ Tail(R.under) = << >> <=> Len(R.under) = 1
  <2>1. Tail(R.under) \in Seq(Eips) /\ Len(Tail(R.under)) = Len(R.under) - 1
    BY <1>4, <1>6
  <2>2. Len(R.under) \in Nat \ {0}
    BY <1>4, <1>6
  <2>3. Head(R.under) = R.under[1]
    BY <1>4, <1>6
  <2>4. \A i \in 1 .. Len(R.under) - 1 : Tail(R.under)[i] = R.under[i + 1]
    BY <1>4, <1>6
  <2>5. Tail(R.under) = << >> <=> Len(Tail(R.under)) = 0
    <3>1. \A u \in Seq(Eips) : u = << >> <=> Len(u) = 0
      OBVIOUS
    <3>. QED  BY <2>1, <3>1, Zenon
  <2>. QED  BY <2>1, <2>2, <2>3, <2>4, <2>5
<1>8. /\ x \in Records /\ x.eip = eip /\ x.under = Tail(R.under)
      /\ x.saved = R.saved /\ x.call = "return" /\ x.state = R.state
  BY <1>1, <1>4, <1>5, <1>7, Zenon DEF Records
<1>9. x.wrong = w /\ x.cause = c
  BY <1>1 DEF Records
<1>10. x.wrong => x.cause
  <2>1. ASSUME ~c PROVE ~w
    <3>1. ~R.cause /\ R.esp = "user" /\ R.under = <<R.saved>>
      BY <1>1, <1>4, <1>6, <2>1 DEF Sound
    <3>2. Head(R.under) = R.saved
      BY <3>1
    <3>. QED  BY <3>1, <3>2
  <2>. QED  BY <1>9, <2>1, Zenon
<1>11. ASSUME ~x.cause PROVE x.under = << >>
  <2>1. ~R.cause
    BY <1>9, <1>11, Zenon
  <2>2. R.under = <<R.saved>>
    BY <1>1, <1>6, <2>1 DEF Sound
  <2>3. Len(R.under) = 1
    BY <2>2
  <2>. QED  BY <1>7, <1>8, <2>3
<1>12. ASSUME x.under # << >> PROVE x.under[Len(x.under)] # "handler"
  BY <1>1, <1>6, <1>7, <1>8, <1>12 DEF Sound
<1>13. ASSUME ~x.wrong, x.eip = "handler" PROVE x.under # << >>
  <2>1. R.under[1] = "handler"
    BY <1>7, <1>8, <1>9, <1>13, Zenon
  <2>2. Len(R.under) # 1
    BY <1>1, <1>6, <2>1 DEF Sound
  <2>. QED  BY <1>7, <1>8, <2>2
<1>. HIDE DEF x
<1>14. Sound(x)
  BY <1>8, <1>10, <1>11, <1>12, <1>13 DEF Sound
<1>15. Framed(t, x, frameOf)
  BY <1>1, <1>2, <1>8 DEF Framed
<1>. QED  BY <1>2, <1>3, <1>8, <1>14, <1>15, StepKeeps, Zenon

\* A step of several tasks that leaves the living alive and all of them sound.
LEMMA StepsKeep ==
  ASSUME IInv, DOMAIN task' = Tasks, task' = [u \in Tasks |-> task'[u]],
         current' = current,
         \A u \in Tasks : task[u].state # "dead" => task'[u].state # "dead",
         \A u \in Tasks : Sound(task'[u]) /\ Framed(u, task'[u], frameOf')
  PROVE  IInv'
<1>1. current' # 0 => task'[current'].state # "dead"
  BY DEF IInv
<1>. QED  BY <1>1, Zenon DEF IInv

\* INT 0x80 keeps the invariant: who loses syscallFrameEsp meets a cause.
LEMMA Int80Step ==
  ASSUME IInv, NEW t \in Tasks, NEW k \in Calls, Int80(t, k)
  PROVE  IInv'
<1>. DEFINE R == task[t]
            x == [R EXCEPT !.call = k]
<1>1. R \in Records /\ Sound(R)
  BY IInvFacts
<1>2. /\ x \in Records /\ x.eip = R.eip /\ x.saved = R.saved /\ x.under = R.under
      /\ x.wrong = R.wrong /\ x.cause = R.cause /\ x.call = k /\ x.state = R.state
  BY <1>1 DEF Records
<1>3. /\ frameOf' = t /\ current' = current /\ (k = "sigreturn" => R.eip = "handler")
      /\ DOMAIN task' = Tasks /\ task' = [u \in Tasks |-> task'[u]]
  BY DEF Int80
<1>4. /\ task'[t] = x
      /\ \A u \in Tasks \ {t} : task'[u] =
           [task[u] EXCEPT !.cause = @ \/ task[u].call \in {"fork", "exec"}]
  BY DEF Int80
<1>. HIDE DEF x
<1>5. Sound(x)
  BY <1>1, <1>2, <1>3, MinorSound
<1>6. Framed(t, x, t)
  BY DEF Framed
<1>7. ASSUME NEW u \in Tasks \ {t}
      PROVE  Sound(task'[u]) /\ Framed(u, task'[u], t) /\ task'[u].state = task[u].state
  <2>. DEFINE U == task[u]
              c == U.cause \/ U.call \in {"fork", "exec"}
              y == [U EXCEPT !.cause = c]
  <2>1. U \in Records /\ Sound(U)
    BY IInvFacts
  <2>2. c \in BOOLEAN
    BY Zenon
  <2>3. /\ y \in Records /\ y.eip = U.eip /\ y.saved = U.saved /\ y.under = U.under
        /\ y.wrong = U.wrong /\ y.call = U.call /\ y.state = U.state
    BY <2>1, <2>2, Zenon DEF Records
  <2>4. y.cause = c
    BY <2>1 DEF Records
  <2>5. task'[u] = y
    BY <1>4
  <2>. HIDE DEF y
  <2>6. Sound(y)
    BY <2>1, <2>3, <2>4, Zenon DEF Sound
  <2>7. Framed(u, y, t)
    BY <2>3, <2>4, Zenon DEF Framed
  <2>. QED  BY <2>3, <2>5, <2>6, <2>7
<1>8. ASSUME NEW u \in Tasks
      PROVE  /\ Sound(task'[u]) /\ Framed(u, task'[u], frameOf')
             /\ task'[u].state = task[u].state
  <2>1. CASE u = t  BY <1>2, <1>3, <1>4, <1>5, <1>6, <2>1, Zenon
  <2>2. CASE u # t  BY <1>3, <1>7, <2>2, Zenon
  <2>. QED  BY <2>1, <2>2
<1>. QED  BY <1>3, <1>8, StepsKeep

\* SYS_KILL keeps the invariant.
LEMMA KillStep ==
  ASSUME IInv, NEW t \in Tasks, NEW v \in Tasks, NEW s \in Signals, Kill(t, v, s)
  PROVE  IInv'
<1>. DEFINE called == [task EXCEPT ![t] = [@ EXCEPT !.call = "return"]]
            y == SendSignal(called[v], s)
<1>1. /\ task' = [called EXCEPT ![v] = y] /\ current' = current /\ frameOf' = frameOf
      /\ task[t].call = "kill" /\ task[t].state = "ready" /\ task[v].state # "dead"
  BY DEF Kill, At
<1>2. ASSUME NEW u \in Tasks
      PROVE  /\ Sound(called[u]) /\ Framed(u, called[u], frameOf)
             /\ called[u].state = task[u].state
  <2>. DEFINE U == task[u]
              x == [U EXCEPT !.call = "return"]
  <2>1. U \in Records /\ Sound(U) /\ Framed(u, U, frameOf)
    BY IInvFacts
  <2>2. CASE u = t
    <3>1. called[u] = x
      BY <2>2 DEF IInv
    <3>2. /\ x \in Records /\ x.eip = U.eip /\ x.saved = U.saved /\ x.under = U.under
          /\ x.wrong = U.wrong /\ x.cause = U.cause
          /\ x.call = "return" /\ x.state = U.state
      BY <2>1 DEF Records
    <3>. HIDE DEF x
    <3>3. Sound(x)
      BY <2>1, <3>2, MinorSound
    <3>4. Framed(u, x, frameOf)
      BY <1>1, <2>1, <2>2, <3>2 DEF Framed
    <3>. QED  BY <3>1, <3>2, <3>3, <3>4
  <2>3. CASE u # t
    <3>1. called[u] = U
      BY <2>3 DEF IInv
    <3>. QED  BY <2>1, <3>1
  <2>. QED  BY <2>2, <2>3
<1>3. DOMAIN called = Tasks /\ called = [u \in Tasks |-> called[u]]
  BY DEF IInv
<1>. HIDE DEF called
<1>4. /\ task'[v] = y /\ \A u \in Tasks \ {v} : task'[u] = called[u]
      /\ DOMAIN task' = Tasks /\ task' = [u \in Tasks |-> task'[u]]
  BY <1>1, <1>3
<1>5. Sound(y) /\ Framed(v, y, frameOf) /\ y.state # "dead"
  <2>. DEFINE V == called[v]
  <2>1. V \in Records /\ Sound(V) /\ Framed(v, V, frameOf) /\ V.state # "dead"
    BY <1>1, <1>2 DEF Sound
  <2>2. /\ y \in Records /\ y.eip = V.eip /\ y.saved = V.saved /\ y.under = V.under
        /\ y.wrong = V.wrong /\ y.cause = V.cause
        /\ y.call = V.call /\ y.state # "dead"
    BY <2>1, Zenon DEF Records, SendSignal
  <2>. HIDE DEF y
  <2>3. Sound(y)
    BY <2>1, <2>2, MinorSound
  <2>4. Framed(v, y, frameOf)
    BY <2>1, <2>2, Zenon DEF Framed
  <2>. QED  BY <2>2, <2>3, <2>4
<1>. HIDE DEF y
<1>6. ASSUME NEW u \in Tasks
      PROVE  /\ Sound(task'[u]) /\ Framed(u, task'[u], frameOf')
             /\ task[u].state # "dead" => task'[u].state # "dead"
  <2>1. CASE u = v  BY <1>1, <1>4, <1>5, <2>1, Zenon
  <2>2. CASE u # v  BY <1>1, <1>2, <1>4, <2>2, Zenon
  <2>. QED  BY <2>1, <2>2
<1>. QED  BY <1>1, <1>4, <1>6, StepsKeep

\* The caller's record once a call that may not go on has returned.
LEMMA ReturnSound ==
  ASSUME NEW t \in Tasks, NEW r, Sound(r), Framed(t, r, frameOf), r.call # "none"
  PROVE  LET x == [r EXCEPT !.call = "return"]
         IN Sound(x) /\ Framed(t, x, frameOf) /\ x.state = r.state
<1>. DEFINE x == [r EXCEPT !.call = "return"]
<1>1. r \in Records
  BY DEF Sound
<1>2. /\ x \in Records /\ x.eip = r.eip /\ x.saved = r.saved /\ x.under = r.under
      /\ x.wrong = r.wrong /\ x.cause = r.cause
      /\ x.call = "return" /\ x.state = r.state
  BY <1>1 DEF Records
<1>. HIDE DEF x
<1>3. Sound(x)
  BY <1>2, MinorSound
<1>4. Framed(t, x, frameOf)
  BY <1>2 DEF Framed
<1>. QED  BY <1>2, <1>3, <1>4 DEF x

\* fork keeps the invariant: the child starts in the caller's place, or the
\* caller has met a cause; and a child of a handler has met one.
LEMMA ForkStep ==
  ASSUME IInv, NEW t \in Tasks, NEW v \in Tasks, ~task[t].wrong, Fork(t, v)
  PROVE  IInv'
<1>. DEFINE R == task[t]
            c == R.cause \/ R.under # << >>
            w == frameOf # t
            x == [R EXCEPT !.call = "return"]
            y == [Fresh EXCEPT !.eip = task[frameOf].eip, !.under = R.under,
                               !.wrong = w, !.cause = c]
<1>1. R \in Records /\ Sound(R) /\ Framed(t, R, frameOf)
  BY IInvFacts
<1>2. /\ R.call = "fork" /\ R.state = "ready" /\ task[v].state = "dead"
      /\ current' = current /\ frameOf' = frameOf
      /\ task' = [task EXCEPT ![t] = x, ![v] = y]
  BY DEF Fork, At, IInv
<1>3. t # v
  BY <1>2
<1>4. /\ task'[t] = x /\ task'[v] = y
      /\ \A u \in Tasks \ {t, v} : task'[u] = task[u]
      /\ DOMAIN task' = Tasks /\ task' = [u \in Tasks |-> task'[u]]
  BY <1>2, <1>3, Zenon DEF IInv
<1>5. Sound(x) /\ Framed(t, x, frameOf) /\ x.state = R.state
  BY <1>1, <1>2, ReturnSound, Zenon
<1>6. frameOf \in Tasks /\ (w => R.cause)
  BY <1>1, <1>2 DEF Framed
<1>7. task[frameOf].eip \in Eips /\ R.under \in Seq(Eips)
  BY <1>1, <1>6, IInvFacts DEF Records
<1>8. c \in BOOLEAN /\ w \in BOOLEAN
  BY Zenon
<1>9. /\ y \in Records /\ y.eip = task[frameOf].eip /\ y.under = R.under
      /\ y.call = "none" /\ y.state = "ready"
  BY <1>7, <1>8, Zenon DEF Records, Fresh, Eips
<1>10. y.wrong = w /\ y.cause = c
  BY DEF Fresh
<1>. HIDE DEF x, y
<1>11. ~y.wrong => y.eip = R.eip
  BY <1>9, <1>10, Zenon
<1>12. Sound(y)
  BY <1>1, <1>6, <1>9, <1>10, <1>11, Zenon DEF Sound
<1>13. Framed(v, y, frameOf)
  BY <1>9 DEF Framed
<1>14. ASSUME NEW u \in Tasks
       PROVE  /\ Sound(task'[u]) /\ Framed(u, task'[u], frameOf')
              /\ task[u].state # "dead" => task'[u].state # "dead"
  <2>1. CASE u = t  BY <1>2, <1>4, <1>5, <2>1, Zenon
  <2>2. CASE u = v  BY <1>2, <1>4, <1>12, <1>13, <2>2, Zenon
  <2>3. CASE u \notin {t, v}  BY <1>2, <1>4, <2>3, IInvFacts, Zenon
  <2>. QED  BY <2>1, <2>2, <2>3
<1>. QED  BY <1>2, <1>4, <1>14, StepsKeep

\* An exec that fails keeps the invariant: in a handler it is a cause.
LEMMA ExecFailsStep ==
  ASSUME IInv, NEW t \in Tasks, ExecFails(t)
  PROVE  IInv'
<1>. DEFINE R == task[t]
            c == R.cause \/ R.under # << >>
            x == [R EXCEPT !.handlers = {}, !.saved = "null", !.call = "return",
                           !.cause = c]
<1>1. R \in Records /\ Sound(R) /\ Framed(t, R, frameOf)
  BY IInvFacts
<1>2. /\ R.call = "exec" /\ R.state = "ready"
      /\ current' = current /\ frameOf' = frameOf
  BY DEF ExecFails, At
<1>3. task' = [task EXCEPT ![t] = x]
  BY Zenon DEF ExecFails
<1>4. c \in BOOLEAN
  BY Zenon
<1>5. /\ x \in Records /\ x.eip = R.eip /\ x.under = R.under /\ x.wrong = R.wrong
      /\ x.call = "return" /\ x.state = R.state
  BY <1>1, <1>4, Zenon DEF Records, Eips
<1>6. x.cause = c
  BY <1>1 DEF Records
<1>. HIDE DEF x
<1>7. Sound(x)
  BY <1>1, <1>5, <1>6, Zenon DEF Sound
<1>8. Framed(t, x, frameOf)
  BY <1>1, <1>2, <1>5 DEF Framed
<1>. QED  BY <1>2, <1>3, <1>5, <1>7, <1>8, StepKeeps, Zenon

\* exec keeps the invariant: it writes its caller's frame, or the caller has met
\* a cause.
LEMMA ExecStep ==
  ASSUME IInv, NEW t \in Tasks, Exec(t)
  PROVE  IInv'
<1>. DEFINE R == task[t]
            w == frameOf # t
            x == [R EXCEPT !.handlers = {}, !.saved = "null", !.call = "return",
                           !.under = << >>, !.wrong = w]
            run == [task EXCEPT ![t] = x]
            F == run[frameOf]
            c == F.cause \/ w
            y == [F EXCEPT !.eip = "main1", !.wrong = w, !.cause = c]
<1>1. R \in Records /\ Sound(R) /\ Framed(t, R, frameOf)
  BY IInvFacts
<1>2. R.call = "exec" /\ R.state = "ready" /\ current' = current /\ frameOf' = frameOf
  BY DEF Exec, At
<1>3. task' = [run EXCEPT ![frameOf] = y]
  BY Zenon DEF Exec
<1>4. frameOf \in Tasks /\ (w => R.cause)
  BY <1>1, <1>2 DEF Framed
<1>5. w \in BOOLEAN /\ c \in BOOLEAN
  BY Zenon
<1>6. /\ x \in Records /\ x.under = << >> /\ x.call = "return" /\ x.state = R.state
      /\ x.eip = R.eip
  <2>1. << >> \in Seq(Eips) /\ "null" \in Eips
    BY DEF Eips
  <2>. QED  BY <1>1, <1>5, <2>1, Zenon DEF Records
<1>7. x.wrong = w /\ x.cause = R.cause
  BY <1>1 DEF Records
<1>8. /\ run[t] = x /\ \A u \in Tasks \ {t} : run[u] = task[u]
      /\ DOMAIN run = Tasks /\ run = [u \in Tasks |-> run[u]]
  BY DEF IInv
<1>. HIDE DEF x, run
<1>9. F \in Records /\ F.state = task[frameOf].state
  <2>1. CASE frameOf = t
    BY <1>6, <1>8, <2>1
  <2>2. CASE frameOf # t
    BY <1>4, <1>8, <2>2, IInvFacts
  <2>. QED  BY <2>1, <2>2
<1>10. /\ y \in Records /\ y.eip = "main1" /\ y.under = F.under /\ y.saved = F.saved
       /\ y.call = F.call /\ y.state = F.state
  BY <1>5, <1>9, Zenon DEF Records, Eips, Mains
<1>11. y.wrong = w /\ y.cause = c
  BY <1>9 DEF Records
<1>. HIDE DEF y
<1>12. /\ task'[frameOf] = y
       /\ \A u \in Tasks \ {frameOf} : task'[u] = run[u]
       /\ DOMAIN task' = Tasks /\ task' = [u \in Tasks |-> task'[u]]
  BY <1>3, <1>4, <1>8
<1>13. Sound(y) /\ Framed(frameOf, y, frameOf) /\ y.state = task[frameOf].state
  <2>1. CASE frameOf = t
    <3>1. F = x
      BY <1>8, <2>1
    <3>2. ~y.wrong /\ y.under = << >> /\ y.call = "return"
      BY <1>6, <1>10, <1>11, <2>1, <3>1, Zenon
    <3>. QED  BY <1>4, <1>9, <1>10, <3>2 DEF Sound, Framed
  <2>2. CASE frameOf # t
    <3>1. y.wrong /\ y.cause
      BY <1>11, <2>2, Zenon
    <3>. QED  BY <1>4, <1>9, <1>10, <3>1 DEF Sound, Framed
  <2>. QED  BY <2>1, <2>2
<1>14. frameOf # t => Sound(x) /\ Framed(t, x, frameOf)
  BY <1>4, <1>6, <1>7, Zenon DEF Sound, Framed
<1>15. ASSUME NEW u \in Tasks
       PROVE  /\ Sound(task'[u]) /\ Framed(u, task'[u], frameOf')
              /\ task'[u].state = task[u].state
  <2>1. CASE u = frameOf  BY <1>2, <1>12, <1>13, <2>1, Zenon
  <2>2. CASE u # frameOf /\ u = t  BY <1>2, <1>6, <1>8, <1>12, <1>14, <2>2, Zenon
  <2>3. CASE u # frameOf /\ u # t  BY <1>2, <1>8, <1>12, <2>3, IInvFacts, Zenon
  <2>. QED  BY <2>1, <2>2, <2>3
<1>. QED  BY <1>2, <1>12, <1>15, StepsKeep

LEMMA InitIInv == Init => IInv
<1>. SUFFICES ASSUME Init PROVE IInv
  OBVIOUS
<1>. DEFINE m == Min(Tasks)
            x == [Fresh EXCEPT !.handlers = Signals]
<1>1. PICK loaded \in SUBSET Tasks :
        /\ m \in loaded
        /\ task = [[t \in Tasks |-> IF t \in loaded THEN Fresh ELSE Dead]
                    EXCEPT ![m].handlers = Signals]
  BY Zenon DEF Init
<1>2. current = 0 /\ m \in Tasks
  BY <1>1 DEF Init
<1>. HIDE DEF m
<1>3. /\ task[m] = x /\ \A t \in Tasks \ {m} : task[t] \in {Fresh, Dead}
      /\ DOMAIN task = Tasks /\ task = [t \in Tasks |-> task[t]]
  BY <1>1, <1>2, Zenon
<1>4. /\ x \in Records /\ x.eip = Fresh.eip /\ x.saved = Fresh.saved
      /\ x.under = Fresh.under /\ x.wrong = Fresh.wrong /\ x.cause = Fresh.cause
      /\ x.call = "none"
  <2>1. Fresh \in Records
    BY FreshSound DEF Sound
  <2>. QED  BY <2>1, Zenon DEF Records, Fresh
<1>. HIDE DEF x
<1>5. Sound(x)
  BY <1>4, FreshSound, MinorSound
<1>6. x.call = "none" /\ Fresh.call = "none" /\ Dead.call = "none"
  BY <1>4 DEF Fresh, Dead
<1>7. ASSUME NEW t \in Tasks PROVE Sound(task[t]) /\ Framed(t, task[t], frameOf)
  <2>1. task[t] \in {x, Fresh, Dead}
    BY <1>3
  <2>. QED  BY <1>5, <1>6, <2>1, FreshSound DEF Framed
<1>. QED  BY <1>2, <1>3, <1>7 DEF IInv

LEMMA NextIInv == IInv /\ [Next]_vars => IInv'
<1>. SUFFICES ASSUME IInv, [Next]_vars PROVE IInv'
  OBVIOUS
<1>1. CASE UNCHANGED vars
  BY <1>1 DEF IInv, vars
<1>2. CASE Next
  <2>1. \A t \in Tasks : ~task[t].wrong
    BY <1>2 DEF Next
  <2>2. CASE TickIdle
    <3>1. task' = task /\ frameOf' = frameOf /\ current' \in Tasks \cup {0}
      BY <2>2 DEF TickIdle, FindNext, Ready
    <3>2. current' # 0 => task[current'].state # "dead"
      BY <2>2 DEF TickIdle, FindNext, Ready
    <3>. QED  BY <3>1, <3>2 DEF IInv
  <2>3. ASSUME NEW t \in Tasks, Tick(t) \/ UserStep(t) \/ PageFault(t) \/ Wake(t)
        PROVE  IInv'
    BY <2>1, <2>3, TickStep, UserStepStep, PageFaultStep, MinorCalls
  <2>4. ASSUME NEW t \in Tasks, Kernel(t)
        PROVE  IInv'
    <3>1. CASE \/ Return(t) \/ Iret(t) \/ Wait(t) \/ Refused(t)
               \/ \E s \in Signals : Sigaction(t, s)
      BY <3>1, MinorCalls
    <3>2. CASE Deliver(t) \/ Sigreturn(t)
      BY <2>1, <3>2, DeliverStep, SigreturnStep
    <3>3. CASE Exec(t) \/ ExecFails(t)
      BY <3>3, ExecStep, ExecFailsStep
    <3>4. CASE Exit(t)
      <4>1. ExitCurrentTask(t) /\ frameOf' = frameOf
        BY <3>4 DEF Exit
      <4>. QED  BY <4>1, ExitKeeps
    <3>5. CASE \E u \in Tasks, s \in Signals : Kill(t, u, s)
      BY <3>5, KillStep
    <3>6. CASE \E c \in Tasks : Fork(t, c)
      BY <2>1, <3>6, ForkStep
    <3>. QED  BY <2>4, <3>1, <3>2, <3>3, <3>4, <3>5, <3>6 DEF Kernel
  <2>5. ASSUME NEW t \in Tasks, NEW c \in Calls, Int80(t, c)
        PROVE  IInv'
    BY <2>5, Int80Step
  <2>. QED  BY <1>2, <2>2, <2>3, <2>4, <2>5 DEF Next
<1>. QED  BY <1>1, <1>2

-----------------------------------------------------------------------------

\* The inductive invariant holds in every reachable state, with any number of
\* tasks, signals and system calls.
THEOREM ContextInvariant == Spec => []IInv
BY InitIInv, NextIInv, PTL DEF Spec

\* Types of the task records; and a task that has ended does not run.
THEOREM ContextTypes == Spec => []TypeOK
<1>1. IInv => TypeOK
  BY DEF IInv, TypeOK, Sound, Records, Eips
<1>. QED  BY <1>1, ContextInvariant, PTL

\* sigreturn goes back to the place that the signal interrupted, and fork and exec
\* write the caller's frame, for any number of tasks: but for the five causes.
THEOREM ContextsGoWrongByCause == Spec => []WrongHasCause
<1>1. IInv => WrongHasCause
  BY DEF IInv, WrongHasCause, Sound
<1>. QED  BY <1>1, ContextInvariant, PTL

\* While one handler runs, savedSignalEip is the place it has interrupted.
THEOREM SavedContextKept == Spec => []SavedIsUnder
<1>1. ASSUME IInv PROVE SavedIsUnder
  <2>. SUFFICES ASSUME NEW t \in Tasks, Len(task[t].under) = 1, ~task[t].cause
                PROVE  task[t].saved = Head(task[t].under)
    BY DEF SavedIsUnder
  <2>1. task[t].under = <<task[t].saved>>
    <3>1. task[t].under = << >> \/ task[t].under = <<task[t].saved>>
      BY <1>1 DEF IInv, Sound
    <3>2. task[t].under # << >>
      OBVIOUS
    <3>. QED  BY <3>1, <3>2
  <2>. QED  BY <2>1
<1>. QED  BY <1>1, ContextInvariant, PTL
=============================================================================
