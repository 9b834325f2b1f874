------------------------------ MODULE Context ------------------------------
(***************************************************************************)
(* User contexts across system calls, ticks and signals: asmInt80 and      *)
(* asmIntTick (arch/i386/Isr.s), SchedulerSignals.cc, and the parts of     *)
(* fork, exec and SYS_SIGRETURN that write the frame of a task.            *)
(*                                                                         *)
(* A task that enters the kernel from ring 3 leaves its frame at the top   *)
(* of its kernel stack, so the ring-3 frame of a task is in one place, and *)
(* task[t].eip is the EIP in it: where the task goes on.  A tick inside of *)
(* a system call pushes a ring-0 frame below it.  System calls run with    *)
(* interrupts on: a tick may come before, between and after their steps.   *)
(* Two pointers name frames: esp of the task, which tick and the end of a  *)
(* system call set, and the global syscallFrameEsp.  A store into a ring-0 *)
(* frame as if it were a ring-3 frame breaks the kernel stack.  Once a     *)
(* task is to go on in a wrong place it can do anything: the model ends.   *)
(*                                                                         *)
(* Slots and waiting are those of Process; here a dead slot, fork into it  *)
(* and one call that blocks are enough.                                    *)
(***************************************************************************)
EXTENDS Integers, Sequences, FiniteSetsExt

CONSTANTS
  Tasks,    \* the slots of user tasks; 0 is idle
  Signals,  \* the signals besides SIGKILL
  SIGSEGV,  \* the one that a page fault delivers
  MaxSent,  \* bound: signals sent
  MaxCalls  \* bound: fork, exec and sigaction together

ASSUME ContextAssumption ==
  /\ Tasks \subseteq Nat \ {0}
  /\ Signals \subseteq Nat \ {0} /\ SIGSEGV \in Signals

VARIABLES
  current,  \* currentIdx_
  task,     \* tasks_ and the frames on the kernel stacks; see Fresh
  frameOf,  \* the task whose frame syscallFrameEsp points to
  used      \* [sent, calls], for the bounds

vars == <<current, task, frameOf, used>>

Mains == {"main1", "main2"}
Calls == {"wait", "kill", "sigaction", "fork", "exec", "exit", "sigreturn"}

\* A task at the start of its program.  call is where in the kernel the task is,
\* "none" in ring 3; esp is the frame that task.esp points to.  History: the
\* places that running handlers have interrupted, whether the user context
\* went wrong, and whether one of the causes below was met.
Fresh ==
  [state |-> "ready", eip |-> "main1", call |-> "none", esp |-> "user",
   pending |-> {}, handlers |-> {}, saved |-> "null",
   under |-> << >>, wrong |-> FALSE, cause |-> FALSE]

\* What a dead slot holds is never looked at.
Dead == [Fresh EXCEPT !.state = "dead"]

\* Programs have been loaded, and the first has set up all handlers.
Init ==
  /\ current = 0
  /\ \E loaded \in SUBSET Tasks :
       /\ Min(Tasks) \in loaded
       /\ task = [[t \in Tasks |-> IF t \in loaded THEN Fresh ELSE Dead]
                   EXCEPT ![Min(Tasks)].handlers = Signals]
  /\ frameOf = 0
  /\ used = [sent |-> 0, calls |-> 0]

\* The current task is at step c of its way through the kernel.
At(t, c) == current = t /\ task[t].call = c /\ task[t].state = "ready"

Ready == {t \in Tasks : task[t].state = "ready"}

-----------------------------------------------------------------------------
(* Delivery of signals.                                                    *)

Lowest(r) == Min(r.pending)

Dies(r) == r.pending # {} /\ Lowest(r) \notin r.handlers

\* Mutant: the place is saved after it has been overwritten.
Redirected_Late(r) ==
  [r EXCEPT !.eip = "handler", !.saved = "handler",
            !.under = <<r.eip>> \o @, !.cause = @ \/ r.under # << >>]

\* The ring-3 frame is redirected to a handler; what it held is saved in the one
\* slot there is.  A cause: a handler was running, and its own return is lost.
Redirected(r) ==
  [r EXCEPT !.eip = "handler", !.saved = r.eip,
            !.under = <<r.eip>> \o @, !.cause = @ \/ r.under # << >>]

\* Mutant: the ring of the frame is not looked at.
Deferred_Never(r) == r.pending = {}

\* There is nothing to deliver, or the frame at esp is one of ring 0.
Deferred(r) == r.pending # {} => r.esp = "kernel"

\* deliverPendingSignals, for a task that goes on: the lowest pending signal.
DeliverPendingSignals(r) ==
  IF Deferred(r) THEN r
  ELSE [Redirected(r) EXCEPT !.pending = @ \ {Lowest(r)},
                             !.wrong = r.esp = "kernel"]

\* sendSignal: the bit is set, and a BLOCKED task becomes READY.
SendSignal(r, s) ==
  [r EXCEPT !.pending = @ \cup {s}, !.state = IF @ = "blocked" THEN "ready" ELSE @]

-----------------------------------------------------------------------------
(* The timer.                                                              *)

\* findNext: a READY task other than the current one, or idle.
FindNext(t) == IF Ready \ {t} = {} THEN {0} ELSE Ready \ {t}

\* exitCurrentTask: the next task is switched to at once.
ExitCurrentTask(t) ==
  /\ task' = [task EXCEPT ![t] = Dead]
  /\ current' \in FindNext(t)

\* A tick in ring 3 or inside of a system call: the frame it pushes is esp from
\* now on, signals are delivered, and the quantum may be over.
Tick(t) ==
  LET r == [task[t] EXCEPT !.esp =
              IF task[t].call = "none" THEN "user" ELSE "kernel"]
  IN /\ current = t
     /\ \/ Dies(r) /\ ExitCurrentTask(t)
        \/ /\ ~Dies(r)
           /\ task' = [task EXCEPT ![t] = DeliverPendingSignals(r)]
           /\ current' \in FindNext(t) \cup {u \in {t} : r.state = "ready"}
     /\ UNCHANGED <<frameOf, used>>

TickIdle ==
  /\ current = 0
  /\ current' \in FindNext(0)
  /\ UNCHANGED <<task, frameOf, used>>

-----------------------------------------------------------------------------
(* Ring 3, and the way into and out of the kernel.                         *)

\* The task takes a step of its own, after which its record is r.
Step(t, r) ==
  /\ task' = [task EXCEPT ![t] = r]
  /\ UNCHANGED <<current, frameOf, used>>

\* The program goes on, unless it is in a handler.
UserStep(t) ==
  /\ At(t, "none") /\ task[t].eip \in Mains
  /\ \E p \in Mains \ {task[t].eip} : Step(t, [task[t] EXCEPT !.eip = p])

\* INT 0x80.  A handler returns into the trampoline, which calls SIGRETURN.
\* A cause: another task is on its way to fork or exec and loses syscallFrameEsp.
Int80(t, c) ==
  /\ At(t, "none")
  /\ c = "sigreturn" => task[t].eip = "handler"
  /\ c = "kill" => used.sent < MaxSent
  /\ c \in {"fork", "exec", "sigaction"} => used.calls < MaxCalls
  /\ frameOf' = t
  /\ task' = [u \in Tasks |->
                IF u = t THEN [task[t] EXCEPT !.call = c]
                ELSE [task[u] EXCEPT !.cause = @ \/ task[u].call \in {"fork", "exec"}]]
  /\ UNCHANGED <<current, used>>

\* intDeliverSignals: esp is the ring-3 frame again ...
Return(t) ==
  /\ At(t, "return")
  /\ Step(t, [task[t] EXCEPT !.call = "deliver", !.esp = "user"])

\* ... unless a tick has come in between; signals are delivered to it.
Deliver(t) ==
  /\ At(t, "deliver")
  /\ \/ Dies(task[t]) /\ ExitCurrentTask(t) /\ UNCHANGED <<frameOf, used>>
     \/ /\ ~Dies(task[t])
        /\ Step(t, [DeliverPendingSignals(task[t]) EXCEPT !.call = "iret"])

\* popal and iret.
Iret(t) ==
  /\ At(t, "iret")
  /\ Step(t, [task[t] EXCEPT !.call = "none"])

\* A page fault in ring 3 (excPf): deliverSigsegvFromException redirects the
\* exception frame and clears the handler; without one the task ends.
PageFault(t) ==
  /\ At(t, "none")
  /\ \/ /\ SIGSEGV \in task[t].handlers
        /\ Step(t, [Redirected(task[t]) EXCEPT !.handlers = @ \ {SIGSEGV}])
     \/ /\ SIGSEGV \notin task[t].handlers
        /\ ExitCurrentTask(t) /\ UNCHANGED <<frameOf, used>>

-----------------------------------------------------------------------------
(* System calls.                                                           *)

Count == used.calls < MaxCalls /\ used' = [used EXCEPT !.calls = @ + 1]

\* A call that blocks, and goes on once it is READY.
Wait(t) ==
  /\ At(t, "wait")
  /\ Step(t, [task[t] EXCEPT !.state = "blocked", !.call = "return"])

\* What it waits for happens: unblockTask.
Wake(t) ==
  /\ task[t].state = "blocked"
  /\ Step(t, [task[t] EXCEPT !.state = "ready"])

Kill(t, u, s) ==
  /\ At(t, "kill") /\ used.sent < MaxSent
  /\ used' = [used EXCEPT !.sent = @ + 1]
  /\ task[u].state # "dead"
  /\ LET called == [task EXCEPT ![t] = [@ EXCEPT !.call = "return"]]
     IN task' = [called EXCEPT ![u] = SendSignal(@, s)]
  /\ UNCHANGED <<current, frameOf>>

\* A handler is set, or cleared with a null address.
Sigaction(t, s) ==
  /\ At(t, "sigaction") /\ Count
  /\ \E h \in {task[t].handlers \cup {s}, task[t].handlers \ {s}} :
       task' = [task EXCEPT ![t] = [@ EXCEPT !.handlers = h, !.call = "return"]]
  /\ UNCHANGED <<current, frameOf>>

\* fork: the child starts from the frame at syscallFrameEsp, without signals.
\* A cause: the parent is in a handler, from which the child cannot return.
Fork(t, c) ==
  /\ At(t, "fork") /\ Count
  /\ task[c].state = "dead"
  /\ LET child == [Fresh EXCEPT !.eip = task[frameOf].eip, !.under = task[t].under,
                                !.wrong = frameOf # t,
                                !.cause = task[t].cause \/ task[t].under # << >>]
     IN task' = [task EXCEPT ![t] = [@ EXCEPT !.call = "return"], ![c] = child]
  /\ UNCHANGED <<current, frameOf>>

\* exec: handlers and saved context are gone, also if the image is not valid.
\* A cause, then: the caller is a handler that will return.
ExecFails(t) ==
  /\ At(t, "exec") /\ Count
  /\ LET r == task[t]
     IN task' = [task EXCEPT ![t] = [r EXCEPT !.handlers = {}, !.saved = "null",
                                              !.call = "return",
                                              !.cause = @ \/ r.under # << >>]]
  /\ UNCHANGED <<current, frameOf>>

\* The entry point is stored into the frame at syscallFrameEsp.
Exec(t) ==
  /\ At(t, "exec") /\ Count
  /\ LET run == [task EXCEPT ![t] = [@ EXCEPT !.handlers = {}, !.saved = "null",
                                              !.call = "return", !.under = << >>,
                                              !.wrong = frameOf # t]]
         stored == [run[frameOf] EXCEPT !.eip = "main1", !.wrong = frameOf # t,
                                        !.cause = @ \/ frameOf # t]
     IN task' = [run EXCEPT ![frameOf] = stored]
  /\ UNCHANGED <<current, frameOf>>

\* SYS_EXIT, and an exec that fails once the old program is unmapped.
Exit(t) ==
  /\ At(t, "exit") \/ At(t, "exec")
  /\ ExitCurrentTask(t)
  /\ UNCHANGED <<frameOf, used>>

\* SYS_SIGRETURN stores what was saved into the frame at task.esp.  A cause:
\* the last tick came in ring 0, and that frame is not the system call's.
Sigreturn(t) ==
  LET r == task[t]
      eip == IF r.esp = "user" THEN r.saved ELSE r.eip
  IN /\ At(t, "sigreturn")
     /\ Step(t, [r EXCEPT !.eip = eip, !.under = Tail(@), !.call = "return",
                          !.cause = @ \/ r.esp = "kernel",
                          !.wrong = eip # Head(r.under) \/ r.esp = "kernel"])

\* Another task has used up the bound, or fork finds no slot.
Refused(t) ==
  /\ \/ At(t, "kill") /\ used.sent = MaxSent
     \/ \E c \in {"fork", "exec", "sigaction"} : At(t, c) /\ used.calls = MaxCalls
     \/ At(t, "fork") /\ \A c \in Tasks : task[c].state # "dead"
  /\ Step(t, [task[t] EXCEPT !.call = "return"])

Kernel(t) ==
  \/ Return(t) \/ Deliver(t) \/ Iret(t)
  \/ Wait(t) \/ Exec(t) \/ ExecFails(t) \/ Exit(t) \/ Sigreturn(t) \/ Refused(t)
  \/ \E u \in Tasks, s \in Signals : Kill(t, u, s)
  \/ \E s \in Signals : Sigaction(t, s)
  \/ \E c \in Tasks : Fork(t, c)

Next ==
  /\ \A t \in Tasks : ~task[t].wrong
  /\ \/ TickIdle
     \/ \E t \in Tasks : Tick(t) \/ UserStep(t) \/ PageFault(t) \/ Wake(t) \/ Kernel(t)
     \/ \E t \in Tasks, c \in Calls : Int80(t, c)

Spec == Init /\ [][Next]_vars

-----------------------------------------------------------------------------
(* What the kernel promises to user programs.                              *)

\* Types; and a task that has ended does not run.
TypeOK ==
  /\ current \in Tasks \cup {0}
  /\ current # 0 => task[current].state # "dead"
  /\ \A t \in Tasks :
       /\ task[t].state \in {"dead", "ready", "blocked"}
       /\ task[t].eip \in Mains \cup {"handler", "null"}
       /\ task[t].call \in Calls \cup {"none", "return", "deliver", "iret"}
       /\ task[t].pending \cup task[t].handlers \subseteq Signals

\* While one handler runs, whatever else the task, its children and the other
\* tasks do, savedSignalEip is the place that the handler has interrupted.
SavedIsUnder ==
  \A t \in Tasks :
    Len(task[t].under) = 1 /\ ~task[t].cause => task[t].saved = Head(task[t].under)

\* Ticks and signals are transparent: sigreturn goes back to the interrupted
\* place, and fork and exec write the caller's frame, but for five causes: a
\* second signal in a handler, a fork or a failed exec in a handler, a tick in
\* ring 0 as the last one before sigreturn, and another INT 0x80 between a
\* caller's own and its fork or exec.
WrongHasCause == \A t \in Tasks : task[t].wrong => task[t].cause
=============================================================================
