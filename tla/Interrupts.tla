------------------------------ MODULE Interrupts ------------------------------
(***************************************************************************)
(* Interrupts on one CPU: the stubs of arch/x86/idt_handlers.asm, which     *)
(* save and restore registers on the stack of the task that runs,           *)
(* irq_handler() and isr_handler() (arch/x86/idtx86.cpp), the switch of     *)
(* tasks inside the timer's interrupt (arch/x86/timerx86.cpp, process.asm)  *)
(* and Timer::wait() (src/timer.cpp).  The interrupt controllers are        *)
(* external.                                                                *)
(*                                                                          *)
(* A task that the timer switched away stays in schedule(), with the frame  *)
(* of that timer interrupt on its stack.  When it comes back interrupts are *)
(* on before the frame is gone, so that another interrupt can be nested in  *)
(* it.  Which task is next is the scheduler's choice (module Scheduler).    *)
(***************************************************************************)
EXTENDS Integers, Sequences, FiniteSets, FiniteSetsExt

CONSTANTS
  Tasks,     \* tasks of the scheduler
  Irqs,      \* interrupt lines that are connected; 0 is the timer, 1 the keyboard
  TickWrap,  \* values of the tick counter
  Waits,     \* arguments of Timer::wait()
  MaxDepth   \* bound: frames on one stack

ASSUME InterruptsAssumption ==
  /\ Tasks # {} /\ {0, 1} \subseteq Irqs /\ Irqs \subseteq 0..15
  /\ TickWrap \in Nat \ {0, 1} /\ Waits \subseteq 1..TickWrap - 1
  /\ MaxDepth \in Nat /\ MaxDepth >= 2

VARIABLES
  pending,  \* lines raised, not delivered yet
  service,  \* interrupts in service, line 2 of the first controller included
  ifl,      \* the interrupt flag
  cur,      \* the task whose stack the CPU uses
  regs,     \* the registers
  stack,    \* what the stubs pushed, per task
  frames,   \* the interrupts a task is in, the newest last
  halted,   \* an exception stopped the machine
  ticks,    \* Timer::m_ticks
  wait      \* Timer::wait() of a task, and how many ticks it has lasted

pic  == <<pending, service>>
cpu  == <<ifl, cur, regs, stack, frames>>
vars == <<pic, cpu, halted, ticks, wait>>

NoWait == [at |-> "no", now |-> 0, n |-> 0, lasted |-> 0]

-----------------------------------------------------------------------------
(* Vectors, stubs and the registers they save                                *)

\* remapIRQ()
Vector(i) == IF i < 8 THEN 32 + i ELSE 40 + i - 8

TIMER_ISR_NUMBER == 32
KB_IRQ_NUMBER    == 33
SYSTEM_CALL_INTERRUPT == 153

\* initISR() and initIRQ()
Gates == (0..31) \cup {32 + i : i \in (0..15) \cup {121}}

General  == {"eax", "ecx", "edx", "ebx", "ebp", "esi", "edi"}
Segments == {"ds", "es", "fs", "gs", "ss"}
Regs     == General \cup Segments \cup {"eip", "cs", "eflags"}

\* The registers of the code at a depth of a task's frames: values of its own.  No stub
\* loads ss before the handler runs.
Own(t, depth) == [r \in Regs |-> <<r, t, IF r = "ss" THEN 0 ELSE depth>>]

Word(n) == <<"number", n, 0>>

\* Pushed by the CPU, by the stub of vector n and by __irq_timer or __irq_common, the
\* address of Regs last.
Pushed(n) ==
  <<regs["eflags"], regs["cs"], regs["eip"]>>
    \o <<Word(0), Word(0), Word(0), Word(0), Word(0), Word(n)>>
    \o <<regs["eax"], regs["ecx"], regs["edx"], regs["ebx"], Word(0), regs["ebp"],
         regs["esi"], regs["edi"]>>
    \o <<regs["ds"], regs["es"], regs["fs"], regs["gs"], regs["ss"]>> \o <<Word(0)>>

\* What is popped into what, up to the iret; "-" is skipped.
Popa == <<"edi", "esi", "ebp", "-", "ebx", "edx", "ecx", "eax">>
Iret == [k \in 1..6 |-> "-"] \o <<"eip", "cs", "eflags">>
IrqTimer  == <<"-", "ss", "gs", "fs", "es", "ds">> \o Popa \o Iret
\* Mutant: only the address is skipped.
IrqCommonShort == <<"-", "gs", "fs", "es", "ds">> \o Popa \o Iret
IrqCommon == <<"-", "-", "gs", "fs", "es", "ds">> \o Popa \o Iret

Depth(t) == Len(frames[t])

\* Regs::int_no as the handlers find it: below the address, the five segment
\* registers and what pusha pushed.
IntNo == stack[cur][Len(stack[cur]) - 14][2]

Enter(n) ==
  /\ n \in Gates
  /\ stack' = [stack EXCEPT ![cur] = @ \o Pushed(n)]
  /\ frames' = [frames EXCEPT ![cur] = Append(@, "routine")]
  /\ regs' = Own(cur, Depth(cur) + 1)
  /\ ifl' = FALSE

Popped(tail) ==
  LET s == stack[cur]
      Of(r) == {k \in DOMAIN tail : tail[k] = r}
  IN  /\ regs' = [r \in Regs |-> IF Of(r) = {} THEN regs[r]
                                 ELSE s[Len(s) + 1 - (CHOOSE k \in Of(r) : TRUE)]]
      /\ stack' = [stack EXCEPT ![cur] = SubSeq(@, 1, Len(@) - Len(tail))]

-----------------------------------------------------------------------------
(* The interrupt controllers, external                                       *)

Line(i) == IF i < 8 THEN i ELSE 2

Raise(i) ==
  /\ i \notin pending /\ ~halted
  /\ pending' = pending \cup {i}
  /\ UNCHANGED <<service, cpu, halted, ticks, wait>>

\* The most urgent line, unless one as urgent is in service.
Deliver(i) ==
  /\ ifl /\ ~halted /\ Depth(cur) < MaxDepth
  /\ i \in pending /\ \A j \in pending : Line(i) < Line(j) \/ (Line(i) = Line(j) /\ i <= j)
  /\ \A s \in service : Line(i) < Line(s)
  /\ pending' = pending \ {i}
  /\ service' = service \cup {i, Line(i)}
  /\ Enter(Vector(i))
  /\ UNCHANGED <<cur, halted, ticks, wait>>

\* The end of the most urgent interrupt that a controller has in service.
First(S) == IF S = {} THEN {} ELSE {Min(S)}
Ended(s, slave) == s \ ((IF slave THEN First(s \cap 8..15) ELSE {}) \cup First(s \cap 0..7))

-----------------------------------------------------------------------------
(* irq_handler()                                                             *)

At(where) == ~halted /\ Depth(cur) > 0 /\ frames[cur][Depth(cur)] = where

Goto(where) == frames' = [frames EXCEPT ![cur][Depth(cur)] = where]

\* TimerX86::run() counts; a wait lasts one tick longer.
Counted ==
  /\ ticks' = (ticks + 1) % TickWrap
  /\ wait' = [t \in Tasks |-> IF wait[t].at = "no" THEN NoWait
                              ELSE [wait[t] EXCEPT !.lasted = Min({@ + 1, wait[t].n})]]

\* The slice is not over, or the scheduler does not run yet.
InSlice ==
  /\ At("routine") /\ IntNo = TIMER_ISR_NUMBER
  /\ Counted
  /\ Goto("eoi")
  /\ UNCHANGED <<pic, ifl, cur, regs, stack, halted>>

\* schedule() goes on with the same task: interrupts are on from here.
Stay ==
  /\ At("routine") /\ IntNo = TIMER_ISR_NUMBER
  /\ Counted
  /\ Goto("ack") /\ ifl' = TRUE
  /\ UNCHANGED <<pic, cur, regs, stack, halted>>

\* schedule() switches to another task: saveProcess() here, restoreProcess() there with
\* an end of interrupt and interrupts on.
SwitchTo(t) ==
  /\ At("routine") /\ IntNo = TIMER_ISR_NUMBER /\ t # cur
  /\ Counted
  /\ frames' = [frames EXCEPT ![cur][Depth(cur)] = "away", ![t][Depth(t)] = "ack"]
  /\ cur' = t /\ regs' = Own(t, Depth(t)) /\ ifl' = TRUE
  /\ service' = Ended(service, FALSE)
  /\ UNCHANGED <<pending, stack, halted>>

\* Back from schedule(), TimerX86::run() sends an end of interrupt of its own.
Acknowledge ==
  /\ At("ack")
  /\ service' = Ended(service, FALSE)
  /\ Goto("eoi")
  /\ UNCHANGED <<pending, ifl, cur, regs, stack, halted, ticks, wait>>

\* A routine that does not touch the interrupt flag, or none at all.
Routine ==
  /\ At("routine") /\ IntNo # TIMER_ISR_NUMBER
  /\ Goto("eoi")
  /\ UNCHANGED <<pic, ifl, cur, regs, stack, halted, ticks, wait>>

\* The keyboard's routine finds its lock taken: yield() in the loop turns interrupts on.
Spin ==
  /\ At("routine") /\ IntNo = KB_IRQ_NUMBER
  /\ Goto("spin") /\ ifl' = TRUE
  /\ UNCHANGED <<pic, cur, regs, stack, halted, ticks, wait>>

Spun ==
  /\ At("spin")
  /\ Goto("eoi")
  /\ UNCHANGED <<pic, ifl, cur, regs, stack, halted, ticks, wait>>

\* Mutant: the second controller is not told.
EndOfInterruptFirstOnly ==
  /\ At("eoi")
  /\ service' = Ended(service, FALSE)
  /\ Goto("leave")
  /\ UNCHANGED <<pending, ifl, cur, regs, stack, halted, ticks, wait>>

\* The handlers after the routine print, none is installed for these vectors.
EndOfInterrupt ==
  /\ At("eoi")
  /\ service' = Ended(service, IntNo >= 40)
  /\ Goto("leave")
  /\ UNCHANGED <<pending, ifl, cur, regs, stack, halted, ticks, wait>>

\* The end of the stub: interrupts were on where it came from.
Leave ==
  /\ At("leave")
  /\ Popped(IF IntNo = TIMER_ISR_NUMBER THEN IrqTimer ELSE IrqCommon)
  /\ frames' = [frames EXCEPT ![cur] = SubSeq(@, 1, Len(@) - 1)]
  /\ ifl' = TRUE
  /\ UNCHANGED <<pic, cur, halted, ticks, wait>>

-----------------------------------------------------------------------------
(* What the code outside of interrupts does                                  *)

Outside(t) == ~halted /\ cur = t /\ Depth(t) = 0

SystemCall ==
  /\ Outside(cur)
  /\ Enter(SYSTEM_CALL_INTERRUPT)
  /\ UNCHANGED <<pic, cur, halted, ticks, wait>>

\* isr_handler() of any of the first 32 vectors: interrupts off, and the machine stops.
Exception ==
  /\ ~halted /\ halted' = TRUE /\ ifl' = FALSE
  /\ UNCHANGED <<pic, cur, regs, stack, frames, ticks, wait>>

Halted == halted /\ UNCHANGED vars

Target(w) == (w.now + w.n) % TickWrap

\* Timer::wait(): if the sum overflows, first until the counter does.
Wait(n) ==
  /\ Outside(cur) /\ wait[cur].at = "no"
  /\ LET w == [at |-> "target", now |-> ticks, n |-> n, lasted |-> 0]
     IN  wait' = [wait EXCEPT ![cur] = IF Target(w) < ticks THEN [w EXCEPT !.at = "flip"] ELSE w]
  /\ UNCHANGED <<pic, cpu, halted, ticks>>

WaitFlipped ==
  /\ Outside(cur) /\ wait[cur].at = "flip" /\ ~(wait[cur].now < ticks)
  /\ wait' = [wait EXCEPT ![cur].at = "target"]
  /\ UNCHANGED <<pic, cpu, halted, ticks>>

\* Mutant: one tick less.
WaitEndsEarly ==
  /\ Outside(cur) /\ wait[cur].at = "target" /\ ~(ticks + 1 < Target(wait[cur]))
  /\ wait' = [wait EXCEPT ![cur] = NoWait]
  /\ UNCHANGED <<pic, cpu, halted, ticks>>

WaitEnds ==
  /\ Outside(cur) /\ wait[cur].at = "target" /\ ~(ticks < Target(wait[cur]))
  /\ wait' = [wait EXCEPT ![cur] = NoWait]
  /\ UNCHANGED <<pic, cpu, halted, ticks>>

-----------------------------------------------------------------------------
\* One task runs, the others were switched away in a timer interrupt.
Init ==
  /\ pending = {} /\ service = {} /\ ifl = TRUE /\ halted = FALSE
  /\ cur \in Tasks /\ regs = Own(cur, 0)
  /\ frames = [t \in Tasks |-> IF t = cur THEN <<>> ELSE <<"away">>]
  /\ stack = [t \in Tasks |->
       IF t = cur THEN <<>>
       ELSE LET o == Own(t, 0)
            IN  <<o["eflags"], o["cs"], o["eip"], Word(0), Word(0), Word(0), Word(0), Word(0),
                  Word(TIMER_ISR_NUMBER), o["eax"], o["ecx"], o["edx"], o["ebx"], Word(0),
                  o["ebp"], o["esi"], o["edi"], o["ds"], o["es"], o["fs"], o["gs"], o["ss"],
                  Word(0)>>]
  /\ ticks = 0 /\ wait = [t \in Tasks |-> NoWait]

Next ==
  \/ \E i \in Irqs : Raise(i) \/ Deliver(i)
  \/ InSlice \/ Stay \/ (\E t \in Tasks : SwitchTo(t)) \/ Acknowledge
  \/ Routine \/ Spin \/ Spun \/ EndOfInterrupt \/ Leave
  \/ SystemCall \/ Exception \/ Halted
  \/ (\E n \in Waits : Wait(n)) \/ WaitFlipped \/ WaitEnds

Spec == Init /\ [][Next]_vars

-----------------------------------------------------------------------------
(* What the interrupts promise                                               *)

\* After the stubs of any nesting of interrupts, on whatever stack the switches of
\* tasks have left the CPU, the code that goes on has its own registers again, and
\* what the handlers read as int_no is the number of an interrupt.
RegistersKept ==
  /\ regs = Own(cur, Depth(cur))
  /\ Depth(cur) > 0 => IntNo \in Gates \ (0..31)
  /\ \A t \in Tasks : Len(stack[t]) = 23 * Depth(t)

\* No line goes dead: the timer sends up to three ends of interrupt for one interrupt
\* and so may end the keyboard's, but once no handler is active nothing is in service.
NoDeadLine ==
  ifl /\ (\A t \in Tasks : \A k \in 1..Depth(t) : frames[t][k] \in {"away", "leave"})
    => service = {}

\* Timer::wait() returns only after the ticks it was asked to wait for, unless the
\* counter overflows in the meantime.
WaitsLongEnough ==
  [][\A t \in Tasks :
       wait[t].at # "no" /\ wait'[t].at = "no" =>
         wait[t].lasted >= wait[t].n \/ wait[t].now + wait[t].n >= TickWrap]_vars
=============================================================================
