--------------------------- MODULE InterruptsProofs ---------------------------
(***************************************************************************)
(* Proofs about module Interrupts, for every set of tasks and lines, every  *)
(* width of the tick counter and every depth of nesting: the stubs give     *)
(* the code that was stopped its registers back (StubsKeepRegisters), no    *)
(* line goes dead (LinesStayAlive), and Timer::wait() does not return early *)
(* (WaitsAreLongEnough).                                                    *)
(*                                                                          *)
(* A stack is a sequence of frames of 23 words.  The inductive invariant    *)
(* StubInv says what each of them holds: the words that the stub pushed for *)
(* the code of that task at that depth.  LineInv adds where the handlers    *)
(* are and which lines they have in service, WaitInv that a wait has lasted *)
(* as long as the counter says.                                             *)
(***************************************************************************)
EXTENDS Interrupts, TLAPS, SequenceTheorems

-----------------------------------------------------------------------------
(* Frames                                                                    *)

\* The 23 words that the stub of vector n pushes for a task's code at depth d.

Segment(t, d, n) ==
  LET o == Own(t, d)
  IN  <<o["eflags"], o["cs"], o["eip"], Word(0), Word(0), Word(0), Word(0), Word(0),
        Word(n), o["eax"], o["ecx"], o["edx"], o["ebx"], Word(0),
        o["ebp"], o["esi"], o["edi"], o["ds"], o["es"], o["fs"], o["gs"], o["ss"],
        Word(0)>>

\* What the two stubs pop, written out.
TimerTail == <<"-", "ss", "gs", "fs", "es", "ds", "edi", "esi", "ebp", "-", "ebx", "edx", "ecx",
  "eax", "-", "-", "-", "-", "-", "-", "eip", "cs", "eflags">>
CommonTail == <<"-", "-", "gs", "fs", "es", "ds", "edi", "esi", "ebp", "-", "ebx", "edx", "ecx",
  "eax", "-", "-", "-", "-", "-", "-", "eip", "cs", "eflags">>

\* The tails of __irq_timer and __irq_common pop 23 words, these.
LEMMA Tails ==
  /\ Len(IrqTimer) = 23 /\ \A k \in 1..23 : IrqTimer[k] = TimerTail[k]
  /\ Len(IrqCommon) = 23 /\ \A k \in 1..23 : IrqCommon[k] = CommonTail[k]
<1>1. Len(Iret) = 9 /\ \A k \in 1..9 : Iret[k] = <<"-", "-", "-", "-", "-", "-", "eip", "cs", "eflags">>[k]
  BY DEF Iret
<1>2. Len(IrqTimer) = 23
  BY DEF IrqTimer, Popa, Iret
<1>3. Len(IrqCommon) = 23
  BY DEF IrqCommon, Popa, Iret
<1>4. \A k \in 1..23 : IrqTimer[k] = TimerTail[k]
  BY <1>1 DEF IrqTimer, Popa, TimerTail, Iret
<1>5. \A k \in 1..23 : IrqCommon[k] = CommonTail[k]
  BY <1>1 DEF IrqCommon, Popa, CommonTail, Iret
<1> QED BY <1>2, <1>3, <1>4, <1>5

-----------------------------------------------------------------------------
(* RegistersKept: what the stacks hold                                       *)

\* Where a handler can be, and what a stack is made of.
Places == {"routine", "ack", "spin", "eoi", "leave", "away"}
Values == (Regs \cup {"number"}) \X (Tasks \cup Nat) \X Nat

\* The d-th frame on a stack is what the stub of vector n pushed for a task's code at depth d.
Holds(s, t, d, n) == \A k \in 1..23 : s[23 * d + k] = Segment(t, d, n)[k]

\* p is the frame that the stub of vector n pushes.
IsSegment(p, t, d, n) ==
  p \in Seq(Values) /\ Len(p) = 23 /\ \A k \in 1..23 : p[k] = Segment(t, d, n)[k]

\* q is the stack s with p pushed on it.
IsJoin(q, s, p) == q = s \o p

\* A stack holds the frames of d nested interrupts of a task, and nothing else.
Framed(s, t, d) ==
  /\ s \in Seq(Values) /\ Len(s) = 23 * d
  /\ \A e \in 0..d - 1 : \E n \in Gates \ (0..31) : Holds(s, t, e, n)

Typed == cur \in Tasks /\ frames \in [Tasks -> Seq(Places)] /\ stack \in [Tasks -> Seq(Values)]

\* Every stack holds one frame for each interrupt its task is in.
StackInv == \A t \in Tasks : Framed(stack[t], t, Depth(t))

\* A task that does not run was switched away in an interrupt.
AwayInv == \A t \in Tasks \ {cur} : Depth(t) > 0

\* The inductive invariant behind RegistersKept.
StubInv == Typed /\ StackInv /\ AwayInv /\ regs = Own(cur, Depth(cur))

\* A frame is 23 words.
LEMMA SegmentType ==
  ASSUME NEW t \in Tasks, NEW d \in Nat, NEW n \in Nat
  PROVE  Segment(t, d, n) \in Seq(Values) /\ Len(Segment(t, d, n)) = 23
<1>1. \A m \in Nat : Word(m) \in Values
  BY DEF Word, Values
<1>2. \A r \in Regs : Own(t, d)[r] \in Values
  BY DEF Own, Values
<1>3. /\ "eflags" \in Regs /\ "cs" \in Regs /\ "eip" \in Regs /\ "eax" \in Regs /\ "ecx" \in Regs
      /\ "edx" \in Regs /\ "ebx" \in Regs /\ "ebp" \in Regs /\ "esi" \in Regs /\ "edi" \in Regs
      /\ "ds" \in Regs /\ "es" \in Regs /\ "fs" \in Regs /\ "gs" \in Regs /\ "ss" \in Regs
  BY DEF Regs, General, Segments
<1> HIDE DEF Values
<1> QED BY <1>1, <1>2, <1>3 DEF Segment

\* A step of a handler moves the newest frame only.
LEMMA GotoFrames ==
  ASSUME Typed, Depth(cur) > 0, NEW where \in Places, Goto(where)
  PROVE  /\ frames' \in [Tasks -> Seq(Places)]
         /\ \A t \in Tasks : Len(frames'[t]) = Len(frames[t])
         /\ frames'[cur][Depth(cur)] = where
         /\ \A t \in Tasks : \A k \in 1..Depth(t) :
              (t # cur \/ k # Depth(cur)) => frames'[t][k] = frames[t][k]
<1>1. frames[cur] \in Seq(Places) /\ Depth(cur) \in 1..Len(frames[cur])
  BY DEF Typed, Depth
<1> DEFINE f == [frames[cur] EXCEPT ![Depth(cur)] = where]
<1>2. f \in Seq(Places) /\ Len(f) = Len(frames[cur]) /\ f[Depth(cur)] = where
      /\ \A k \in 1..Depth(cur) : k # Depth(cur) => f[k] = frames[cur][k]
  BY <1>1 DEF Depth
<1>3. frames' = [frames EXCEPT ![cur] = f]
  BY DEF Goto
<1>4. frames'[cur] = f /\ \A t \in Tasks : t # cur => frames'[t] = frames[t]
  BY <1>3 DEF Typed
<1> HIDE DEF f
<1> QED BY <1>2, <1>3, <1>4 DEF Typed, Depth

\* The stub pushes the registers of the code it stops.
LEMMA PushedSegment ==
  ASSUME NEW t \in Tasks, NEW d \in Nat, NEW n \in Nat, regs = Own(t, d)
  PROVE  IsSegment(Pushed(n), t, d, n)
<1>1. \A m \in Nat : Word(m) \in Values
  BY DEF Word, Values
<1>2. \A r \in Regs : regs[r] \in Values
  BY DEF Own, Values
<1>3. /\ "eflags" \in Regs /\ "cs" \in Regs /\ "eip" \in Regs /\ "eax" \in Regs /\ "ecx" \in Regs
      /\ "edx" \in Regs /\ "ebx" \in Regs /\ "ebp" \in Regs /\ "esi" \in Regs /\ "edi" \in Regs
      /\ "ds" \in Regs /\ "es" \in Regs /\ "fs" \in Regs /\ "gs" \in Regs /\ "ss" \in Regs
  BY DEF Regs, General, Segments
<1> HIDE DEF Values
<1>4. /\ <<regs["eflags"], regs["cs"], regs["eip"]>> \in Seq(Values)
      /\ <<Word(0), Word(0), Word(0), Word(0), Word(0), Word(n)>> \in Seq(Values)
      /\ <<regs["eax"], regs["ecx"], regs["edx"], regs["ebx"], Word(0), regs["ebp"],
         regs["esi"], regs["edi"]>> \in Seq(Values)
      /\ <<regs["ds"], regs["es"], regs["fs"], regs["gs"], regs["ss"]>> \in Seq(Values)
      /\ <<Word(0)>> \in Seq(Values)
  BY <1>1, <1>2, <1>3
<1>5. Pushed(n) \in Seq(Values)
  BY <1>4, ConcatProperties DEF Pushed
<1>6. Len(Pushed(n)) = 23
  BY DEF Pushed
<1>7. \A k \in 1..23 : Pushed(n)[k] = Segment(t, d, n)[k]
  BY DEF Pushed, Segment
<1> QED BY <1>5, <1>6, <1>7 DEF IsSegment

\* A word of an older frame lies below the newer ones.
LEMMA Below ==
  ASSUME NEW d \in Nat, NEW e \in 0..d - 1
  PROVE  \A k \in 1..23 : 23 * e + k \in 1..(23 * d)
OBVIOUS

\* What a concatenation holds.
LEMMA Joined ==
  ASSUME NEW S, NEW s \in Seq(S), NEW p \in Seq(S)
  PROVE  /\ s \o p \in Seq(S) /\ Len(s \o p) = Len(s) + Len(p)
         /\ \A k \in 1..Len(s) : (s \o p)[k] = s[k]
         /\ \A k \in 1..Len(p) : (s \o p)[Len(s) + k] = p[k]
OBVIOUS

\* A stack without its newest frame.
LEMMA OneLess ==
  ASSUME NEW S, NEW s \in Seq(S), NEW d \in Nat, Len(s) = 23 * (d + 1)
  PROVE  /\ SubSeq(s, 1, Len(s) - 23) \in Seq(S) /\ Len(SubSeq(s, 1, Len(s) - 23)) = 23 * d
         /\ \A k \in 1..(23 * d) : SubSeq(s, 1, Len(s) - 23)[k] = s[k]
BY SubSeqProperties

\* Vectors are numbers.
LEMMA GateNumbers == Gates \subseteq Nat
BY DEF Gates

\* The number the handlers read is that of the newest frame.
LEMMA NewestNumber ==
  ASSUME NEW s, NEW t, NEW d \in Nat, NEW n, Len(s) = 23 * (d + 1), Holds(s, t, d, n)
  PROVE  s[Len(s) - 14][2] = n
<1>1. Len(s) - 14 = 23 * d + 9
  OBVIOUS
<1>2. s[23 * d + 9] = Segment(t, d, n)[9]
  BY DEF Holds
<1>3. Segment(t, d, n)[9] = Word(n)
  BY DEF Segment
<1> QED BY <1>1, <1>2, <1>3 DEF Word

\* A word of a frame does not move when the stack grows or shrinks above it.
LEMMA Kept ==
  ASSUME NEW s, NEW q, NEW t, NEW n, NEW d \in Nat, NEW e \in 0..d - 1,
         \A k \in 1..(23 * d) : q[k] = s[k], Holds(s, t, e, n)
  PROVE  Holds(q, t, e, n)
<1>1. \A k \in 1..23 : 23 * e + k \in 1..(23 * d)
  BY Below
<1> QED BY <1>1 DEF Holds

\* A push adds one frame, whose number the handlers then read.
LEMMA PushFrame ==
  ASSUME NEW t, NEW d \in Nat, NEW n \in Gates \ (0..31), NEW s, NEW p, NEW q,
         Framed(s, t, d), IsSegment(p, t, d, n), IsJoin(q, s, p)
  PROVE  Framed(q, t, d + 1) /\ q[Len(q) - 14][2] = n
<1>1. s \in Seq(Values) /\ Len(s) = 23 * d /\ p \in Seq(Values) /\ Len(p) = 23
  BY DEF Framed, IsSegment
<1>2. /\ q \in Seq(Values) /\ Len(q) = Len(s) + Len(p)
      /\ \A k \in 1..Len(s) : q[k] = s[k]
      /\ \A k \in 1..Len(p) : q[Len(s) + k] = p[k]
  <2> HIDE DEF Values
  <2>1. /\ s \o p \in Seq(Values) /\ Len(s \o p) = Len(s) + Len(p)
        /\ \A k \in 1..Len(s) : (s \o p)[k] = s[k]
        /\ \A k \in 1..Len(p) : (s \o p)[Len(s) + k] = p[k]
    <3>1. s \in Seq(Values) /\ p \in Seq(Values)
      BY <1>1
    <3> QED BY ONLY <3>1, Joined
  <2> QED BY ONLY <2>1, IsJoin(q, s, p) DEF IsJoin
<1>a. Len(q) = 23 * (d + 1)
  BY ONLY <1>1, <1>2, d \in Nat
<1>b. \A k \in 1..(23 * d) : q[k] = s[k]
  BY ONLY <1>1, <1>2, d \in Nat
<1>c. \A k \in 1..23 : q[23 * d + k] = p[k]
  BY ONLY <1>1, <1>2, d \in Nat
<1>3. Holds(q, t, d, n)
  BY ONLY <1>c, IsSegment(p, t, d, n) DEF Holds, IsSegment
<1>4. ASSUME NEW e \in 0..d - 1 PROVE \E m \in Gates \ (0..31) : Holds(q, t, e, m)
  <2>1. PICK m \in Gates \ (0..31) : Holds(s, t, e, m)
    BY DEF Framed
  <2> QED BY ONLY <1>b, <2>1, d \in Nat, e \in 0..d - 1, Kept
<1>5. \A e \in 0..(d + 1) - 1 : e = d \/ e \in 0..d - 1
  BY ONLY d \in Nat
<1>6. Framed(q, t, d + 1)
  BY ONLY <1>2, <1>a, <1>3, <1>4, <1>5, n \in Gates \ (0..31) DEF Framed
<1>7. q[Len(q) - 14][2] = n
  BY ONLY <1>a, <1>3, d \in Nat, NewestNumber
<1> QED BY <1>6, <1>7

\* A pop takes one frame and leaves the older ones.
LEMMA PopFrame ==
  ASSUME NEW t, NEW d \in Nat, NEW s, Framed(s, t, d + 1)
  PROVE  Framed(SubSeq(s, 1, Len(s) - 23), t, d)
<1> DEFINE q == SubSeq(s, 1, Len(s) - 23)
<1>1. s \in Seq(Values) /\ Len(s) = 23 * (d + 1)
  BY DEF Framed
<1>2. /\ q \in Seq(Values) /\ Len(q) = 23 * d
      /\ \A k \in 1..(23 * d) : q[k] = s[k]
  <2> HIDE DEF Values
  <2> QED BY <1>1, OneLess
<1> HIDE DEF q
<1>3. ASSUME NEW e \in 0..d - 1 PROVE \E m \in Gates \ (0..31) : Holds(q, t, e, m)
  <2>0. e \in 0..(d + 1) - 1
    BY ONLY d \in Nat, e \in 0..d - 1
  <2>1. PICK m \in Gates \ (0..31) : Holds(s, t, e, m)
    BY <2>0 DEF Framed
  <2> QED BY <1>2, <2>1, Kept
<1>4. Framed(q, t, d)
  BY <1>2, <1>3 DEF Framed
<1> QED BY <1>4 DEF q

\* What the handlers find on a stack that is not empty.
LEMMA Newest ==
  ASSUME NEW t, NEW d \in Nat, NEW s, Framed(s, t, d + 1)
  PROVE  \E n \in Gates \ (0..31) : Holds(s, t, d, n) /\ s[Len(s) - 14][2] = n
<1>1. d \in 0..(d + 1) - 1
  OBVIOUS
<1>2. PICK n \in Gates \ (0..31) : Holds(s, t, d, n)
  BY <1>1 DEF Framed
<1>3. Len(s) = 23 * (d + 1)
  BY DEF Framed
<1> QED BY <1>2, <1>3, NewestNumber

\* An interrupt or a system call pushes a frame with the registers of the code it stops.
LEMMA EnterStep ==
  ASSUME StubInv, NEW n \in Gates \ (0..31), Enter(n), cur' = cur
  PROVE  /\ StubInv' /\ IntNo' = n /\ Depth(cur)' = Depth(cur) + 1
         /\ frames'[cur] = Append(frames[cur], "routine")
         /\ \A t \in Tasks : t # cur => frames'[t] = frames[t]
<1>1. cur \in Tasks /\ frames[cur] \in Seq(Places) /\ Depth(cur) \in Nat
      /\ Framed(stack[cur], cur, Depth(cur)) /\ regs = Own(cur, Depth(cur)) /\ n \in Nat
  BY GateNumbers, LenProperties DEF StubInv, Typed, StackInv, Depth
<1>2. /\ frames'[cur] = Append(frames[cur], "routine")
      /\ \A t \in Tasks : t # cur => frames'[t] = frames[t]
      /\ frames' \in [Tasks -> Seq(Places)]
      /\ Depth(cur)' = Depth(cur) + 1
  <2>1. /\ Append(frames[cur], "routine") \in Seq(Places)
        /\ Len(Append(frames[cur], "routine")) = Depth(cur) + 1
    BY <1>1 DEF Places, Depth
  <2>2. frames' = [frames EXCEPT ![cur] = Append(@, "routine")]
    BY DEF Enter
  <2> QED BY <1>1, <2>1, <2>2 DEF StubInv, Typed, Depth
<1>3. IsSegment(Pushed(n), cur, Depth(cur), n)
  BY <1>1, PushedSegment
<1> DEFINE s == stack[cur] \o Pushed(n)
<1>4. stack' = [stack EXCEPT ![cur] = s]
  BY DEF Enter
<1>s. IsJoin(s, stack[cur], Pushed(n))
  BY DEF IsJoin
<1> HIDE DEF s
<1>a. Framed(s, cur, Depth(cur) + 1) /\ s[Len(s) - 14][2] = n
  BY ONLY <1>1, <1>3, <1>s, n \in Gates \ (0..31), PushFrame
<1>5. /\ stack'[cur] = s
      /\ \A t \in Tasks : t # cur => stack'[t] = stack[t]
      /\ stack' \in [Tasks -> Seq(Values)]
  BY <1>1, <1>4, <1>a DEF StubInv, Typed, Framed
<1>6. Typed'
  BY <1>1, <1>2, <1>5 DEF Typed
<1>7. StackInv'
  <2> SUFFICES ASSUME NEW t \in Tasks PROVE Framed(stack'[t], t, Depth(t)')
    BY DEF StackInv
  <2>1. CASE t # cur
    <3>1. Depth(t)' = Depth(t) /\ stack'[t] = stack[t]
      BY <1>2, <1>5, <2>1 DEF Depth
    <3> QED BY <3>1 DEF StubInv, StackInv
  <2>2. CASE t = cur
    BY <1>2, <1>a, <1>5, <2>2
  <2> QED BY <2>1, <2>2
<1>8. AwayInv'
  BY <1>2 DEF StubInv, AwayInv, Depth
<1>9. regs' = Own(cur, Depth(cur))'
  BY <1>2 DEF Enter, Own, Depth
<1>10. IntNo' = n
  BY <1>a, <1>5 DEF IntNo
<1> QED BY <1>2, <1>6, <1>7, <1>8, <1>9, <1>10 DEF StubInv

\* What a stub pops into a register is what was pushed from it.
LEMMA Unwound ==
  ASSUME NEW t, NEW d, NEW n, NEW k \in 1..23
  PROVE  /\ TimerTail[k] # "-" => Segment(t, d, n)[24 - k] = Own(t, d)[TimerTail[k]]
         /\ CommonTail[k] # "-" => Segment(t, d, n)[24 - k] = Own(t, d)[CommonTail[k]]
<1>1. k \in {1, 2, 3, 4, 5, 6, 7, 8, 9, 10, 11, 12, 13, 14, 15, 16, 17, 18, 19, 20, 21, 22, 23}
  OBVIOUS
<1>2. TimerTail[k] # "-" => Segment(t, d, n)[24 - k] = Own(t, d)[TimerTail[k]]
  BY <1>1 DEF TimerTail, Segment
<1>3. CommonTail[k] # "-" => Segment(t, d, n)[24 - k] = Own(t, d)[CommonTail[k]]
  BY <1>1 DEF CommonTail, Segment
<1> QED BY <1>2, <1>3

\* The k-th word popped is the k-th last of the newest frame.
LEMMA Mirrored ==
  ASSUME NEW d \in Nat, NEW k \in 1..23, NEW l, l = 23 * (d + 1)
  PROVE  l + 1 - k = 23 * d + (24 - k) /\ 24 - k \in 1..23
OBVIOUS

\* Every register has a place in the stub's tail; __irq_common has none for ss.
LEMMA Covered ==
  ASSUME NEW r \in Regs
  PROVE  /\ \E k \in 1..23 : TimerTail[k] = r
         /\ r # "ss" => \E k \in 1..23 : CommonTail[k] = r
         /\ r # "-"
<1>1. r \in {"eax", "ecx", "edx", "ebx", "ebp", "esi", "edi", "ds", "es", "fs", "gs", "ss",
             "eip", "cs", "eflags"}
  BY DEF Regs, General, Segments
<1>2. /\ TimerTail[2] = "ss" /\ TimerTail[3] = "gs" /\ TimerTail[4] = "fs" /\ TimerTail[5] = "es"
      /\ TimerTail[6] = "ds" /\ TimerTail[7] = "edi" /\ TimerTail[8] = "esi"
      /\ TimerTail[9] = "ebp" /\ TimerTail[11] = "ebx" /\ TimerTail[12] = "edx"
      /\ TimerTail[13] = "ecx" /\ TimerTail[14] = "eax" /\ TimerTail[21] = "eip"
      /\ TimerTail[22] = "cs" /\ TimerTail[23] = "eflags"
  BY DEF TimerTail
<1>3. /\ CommonTail[3] = "gs" /\ CommonTail[4] = "fs" /\ CommonTail[5] = "es"
      /\ CommonTail[6] = "ds" /\ CommonTail[7] = "edi" /\ CommonTail[8] = "esi"
      /\ CommonTail[9] = "ebp" /\ CommonTail[11] = "ebx" /\ CommonTail[12] = "edx"
      /\ CommonTail[13] = "ecx" /\ CommonTail[14] = "eax" /\ CommonTail[21] = "eip"
      /\ CommonTail[22] = "cs" /\ CommonTail[23] = "eflags"
  BY DEF CommonTail
<1>4. \E k \in 1..23 : TimerTail[k] = r
  BY <1>1, <1>2
<1>5. r # "ss" => \E k \in 1..23 : CommonTail[k] = r
  BY <1>1, <1>3
<1> QED BY <1>1, <1>4, <1>5

\* The end of a stub gives the registers back to the code that was stopped.
LEMMA LeaveStep ==
  ASSUME StubInv, Leave
  PROVE  /\ StubInv' /\ Depth(cur)' = Depth(cur) - 1 /\ Depth(cur) \in Nat \ {0}
         /\ frames'[cur] = SubSeq(frames[cur], 1, Len(frames[cur]) - 1)
         /\ \A t \in Tasks : t # cur => frames'[t] = frames[t]
<1> DEFINE d == Depth(cur) - 1
           tail == IF IntNo = TIMER_ISR_NUMBER THEN IrqTimer ELSE IrqCommon
           s == stack[cur]
           q == SubSeq(s, 1, Len(s) - 23)
<1>1. cur \in Tasks /\ frames[cur] \in Seq(Places) /\ Depth(cur) \in Nat \ {0}
      /\ Framed(s, cur, Depth(cur)) /\ regs = Own(cur, Depth(cur)) /\ cur' = cur
  BY LenProperties DEF StubInv, Typed, StackInv, Depth, Leave, At
<1>2. d \in Nat /\ Depth(cur) = d + 1 /\ Framed(s, cur, d + 1)
  BY <1>1
<1>3. /\ frames'[cur] = SubSeq(frames[cur], 1, Len(frames[cur]) - 1)
      /\ \A t \in Tasks : t # cur => frames'[t] = frames[t]
      /\ frames' \in [Tasks -> Seq(Places)]
      /\ Depth(cur)' = d
  <2>1. /\ SubSeq(frames[cur], 1, Len(frames[cur]) - 1) \in Seq(Places)
        /\ Len(SubSeq(frames[cur], 1, Len(frames[cur]) - 1)) = d
    BY <1>1, SubSeqProperties DEF Depth
  <2>2. frames' = [frames EXCEPT ![cur] = SubSeq(@, 1, Len(@) - 1)]
    BY DEF Leave
  <2> QED BY <1>1, <2>1, <2>2 DEF StubInv, Typed, Depth
<1>4. Len(tail) = 23 /\ DOMAIN tail = 1..23
      /\ \/ \A k \in 1..23 : tail[k] = TimerTail[k]
         \/ \A k \in 1..23 : tail[k] = CommonTail[k]
  <2>1. DOMAIN IrqTimer = 1..23
    BY DEF IrqTimer, Popa, Iret
  <2>2. DOMAIN IrqCommon = 1..23
    BY DEF IrqCommon, Popa, Iret
  <2> QED BY Tails, <2>1, <2>2
<1>5. Popped(tail)
  BY DEF Leave
<1> HIDE DEF tail
<1>6. stack' = [stack EXCEPT ![cur] = q]
  BY <1>4, <1>5 DEF Popped
<1>q. q = SubSeq(s, 1, Len(s) - 23)
  OBVIOUS
<1> HIDE DEF q
<1>7. Framed(q, cur, d)
  BY <1>2, <1>q, PopFrame
<1>8. /\ stack'[cur] = q /\ (\A t \in Tasks : t # cur => stack'[t] = stack[t])
      /\ stack' \in [Tasks -> Seq(Values)]
  BY <1>1, <1>6, <1>7 DEF StubInv, Typed, Framed
<1>9. Typed'
  BY <1>1, <1>3, <1>8 DEF Typed
<1>10. StackInv'
  <2> SUFFICES ASSUME NEW t \in Tasks PROVE Framed(stack'[t], t, Depth(t)')
    BY DEF StackInv
  <2>1. CASE t # cur
    <3>1. Depth(t)' = Depth(t) /\ stack'[t] = stack[t]
      BY <1>3, <1>8, <2>1 DEF Depth
    <3> QED BY <3>1 DEF StubInv, StackInv
  <2>2. CASE t = cur
    BY <1>1, <1>3, <1>7, <1>8, <2>2 DEF Depth
  <2> QED BY <2>1, <2>2
<1>11. AwayInv'
  BY <1>1, <1>3 DEF StubInv, AwayInv, Depth
<1>12. regs' = Own(cur, d)
  <2>1. PICK n \in Gates \ (0..31) : Holds(s, cur, d, n)
    BY <1>2, Newest
  <2>2. Len(s) = 23 * (d + 1)
    BY <1>2 DEF Framed
  <2>3. ASSUME NEW k \in 1..23 PROVE s[Len(s) + 1 - k] = Segment(cur, d, n)[24 - k]
    <3>1. Len(s) + 1 - k = 23 * d + (24 - k) /\ 24 - k \in 1..23
      BY <1>2, <2>2, Mirrored
    <3> QED BY <2>1, <3>1 DEF Holds
  <2> DEFINE Of(r) == {k \in DOMAIN tail : tail[k] = r}
  <2>4. regs' = [r \in Regs |-> IF Of(r) = {} THEN regs[r]
                                ELSE s[Len(s) + 1 - (CHOOSE k \in Of(r) : TRUE)]]
    BY <1>5 DEF Popped
  <2>5. ASSUME NEW r \in Regs PROVE regs'[r] = Own(cur, d)[r]
    <3>1. CASE Of(r) = {}
      <4>1. r = "ss"
        BY <1>4, <3>1, Covered
      <4>2. regs'[r] = regs[r]
        BY <2>4, <3>1
      <4> QED BY <1>1, <4>1, <4>2 DEF Own
    <3>2. CASE Of(r) # {}
      <4> DEFINE k == CHOOSE j \in Of(r) : TRUE
      <4>1. k \in 1..23 /\ tail[k] = r
        BY <1>4, <3>2
      <4>2. regs'[r] = s[Len(s) + 1 - k]
        BY <2>4, <3>2
      <4> HIDE DEF k
      <4>3. regs'[r] = Segment(cur, d, n)[24 - k]
        BY <2>3, <4>1, <4>2
      <4>4. r # "-"
        BY Covered
      <4> QED BY <1>4, <4>1, <4>3, <4>4, Unwound
    <3> QED BY <3>1, <3>2
  <2>6. regs' = [r \in Regs |-> regs'[r]]
    BY <2>4
  <2> QED BY <2>5, <2>6 DEF Own
<1> QED BY <1>1, <1>3, <1>9, <1>10, <1>11, <1>12 DEF StubInv

\* A step that leaves stacks, registers and depths alone.
LEMMA SameStacks ==
  ASSUME StubInv, UNCHANGED stack, frames' \in [Tasks -> Seq(Places)], cur' \in Tasks,
         \A t \in Tasks : Len(frames'[t]) = Len(frames[t]),
         cur' # cur => Depth(cur) > 0, regs' = Own(cur', Depth(cur'))
  PROVE  StubInv'
<1>1. \A t \in Tasks : Depth(t)' = Depth(t)
  BY DEF Depth
<1>2. Typed'
  BY DEF StubInv, Typed
<1>3. StackInv'
  BY <1>1 DEF StubInv, StackInv
<1>4. AwayInv'
  BY <1>1 DEF StubInv, AwayInv
<1>5. regs' = Own(cur, Depth(cur))'
  BY <1>1 DEF Own, Depth
<1> QED BY <1>2, <1>3, <1>4, <1>5 DEF StubInv

\* A step inside a handler keeps the stacks.
LEMMA GotoStep ==
  ASSUME StubInv, Depth(cur) > 0, NEW where \in Places, Goto(where),
         UNCHANGED <<cur, regs, stack>>
  PROVE  StubInv'
<1>1. Typed /\ cur \in Tasks /\ regs = Own(cur, Depth(cur))
  BY DEF StubInv, Typed
<1>2. /\ frames' \in [Tasks -> Seq(Places)]
      /\ \A t \in Tasks : Len(frames'[t]) = Len(frames[t])
  BY <1>1, GotoFrames
<1>3. regs' = Own(cur', Depth(cur')) /\ cur' \in Tasks
  BY <1>1 DEF Own, Depth
<1> QED BY <1>2, <1>3, SameStacks

\* A switch of tasks marks the newest frame of the old and of the new task.
LEMMA SwitchFrames ==
  ASSUME StubInv, NEW t \in Tasks, SwitchTo(t)
  PROVE  /\ frames' \in [Tasks -> Seq(Places)]
         /\ \A u \in Tasks : Len(frames'[u]) = Len(frames[u])
         /\ Depth(cur) > 0 /\ Depth(t) > 0
         /\ frames'[cur][Depth(cur)] = "away" /\ frames'[t][Depth(t)] = "ack"
         /\ \A u \in Tasks : \A k \in 1..Depth(u) :
              (u # cur /\ u # t) \/ k # Depth(u) => frames'[u][k] = frames[u][k]
<1>1. /\ cur \in Tasks /\ t # cur /\ Depth(cur) > 0 /\ Depth(t) > 0
      /\ frames \in [Tasks -> Seq(Places)]
  BY DEF StubInv, Typed, AwayInv, SwitchTo, At
<1> DEFINE f == [frames[cur] EXCEPT ![Depth(cur)] = "away"]
           g == [frames[t] EXCEPT ![Depth(t)] = "ack"]
<1>2. /\ f \in Seq(Places) /\ Len(f) = Len(frames[cur]) /\ f[Depth(cur)] = "away"
      /\ \A k \in 1..Depth(cur) : k # Depth(cur) => f[k] = frames[cur][k]
  BY <1>1 DEF Depth, Places
<1>3. /\ g \in Seq(Places) /\ Len(g) = Len(frames[t]) /\ g[Depth(t)] = "ack"
      /\ \A k \in 1..Depth(t) : k # Depth(t) => g[k] = frames[t][k]
  BY <1>1 DEF Depth, Places
<1>4. frames' = [frames EXCEPT ![cur] = f, ![t] = g]
  BY <1>1 DEF SwitchTo, Depth
<1> HIDE DEF f, g
<1>5. frames'[cur] = f /\ frames'[t] = g /\ \A u \in Tasks : u # cur /\ u # t => frames'[u] = frames[u]
  BY <1>1, <1>4
<1> QED BY <1>1, <1>2, <1>3, <1>4, <1>5 DEF Depth

\* A switch of tasks keeps the stacks and loads the registers of the new task.
LEMMA SwitchStep ==
  ASSUME StubInv, NEW t \in Tasks, SwitchTo(t)
  PROVE  StubInv'
<1>1. /\ frames' \in [Tasks -> Seq(Places)]
      /\ \A u \in Tasks : Len(frames'[u]) = Len(frames[u])
      /\ Depth(cur) > 0
  BY SwitchFrames
<1>2. UNCHANGED stack /\ cur' = t /\ regs' = Own(cur', Depth(cur'))
  BY DEF SwitchTo
<1> QED BY <1>1, <1>2, SameStacks

\* The tasks that were switched away start with one frame.
LEMMA InitStub == Init => StubInv
<1> SUFFICES ASSUME Init PROVE StubInv
  OBVIOUS
<1>1. cur \in Tasks /\ regs = Own(cur, 0)
  BY DEF Init
<1>2. \A t \in Tasks : frames[t] = IF t = cur THEN <<>> ELSE <<"away">>
  BY DEF Init
<1>3. frames \in [Tasks -> Seq(Places)] /\ \A t \in Tasks : Depth(t) = IF t = cur THEN 0 ELSE 1
  <2>1. <<>> \in Seq(Places) /\ <<"away">> \in Seq(Places) /\ Len(<<>>) = 0 /\ Len(<<"away">>) = 1
    BY DEF Places
  <2> QED BY <2>1, <1>2 DEF Init, Depth
<1>4. \A t \in Tasks : stack[t] = IF t = cur THEN <<>> ELSE Segment(t, 0, TIMER_ISR_NUMBER)
  BY DEF Init, Segment
<1>5. ASSUME NEW t \in Tasks PROVE Framed(stack[t], t, Depth(t))
  <2>1. CASE t = cur
    <3>1. stack[t] = <<>> /\ Depth(t) = 0
      BY <1>3, <1>4, <2>1
    <3> QED BY <3>1 DEF Framed
  <2>2. CASE t # cur
    <3> DEFINE q == Segment(t, 0, 32)
    <3>1. stack[t] = q /\ Depth(t) = 1
      BY <1>3, <1>4, <2>2 DEF TIMER_ISR_NUMBER
    <3>2. q \in Seq(Values) /\ Len(q) = 23
      BY SegmentType
    <3>3. 32 \in Gates \ (0..31)
      BY DEF Gates
    <3>4. Holds(q, t, 0, 32)
      BY DEF Holds
    <3> HIDE DEF q
    <3>5. ASSUME NEW e \in 0..1 - 1 PROVE \E n \in Gates \ (0..31) : Holds(q, t, e, n)
      <4>1. e = 0
        OBVIOUS
      <4> QED BY <3>3, <3>4, <4>1
    <3>6. Len(q) = 23 * 1
      BY <3>2
    <3>7. Framed(q, t, 1)
      BY ONLY <3>2, <3>5, <3>6 DEF Framed
    <3> QED BY <3>1, <3>7
  <2> QED BY <2>1, <2>2
<1>6. stack \in [Tasks -> Seq(Values)]
  <2>1. \A t \in Tasks : stack[t] \in Seq(Values)
    BY <1>5 DEF Framed
  <2>2. stack = [t \in Tasks |-> stack[t]]
    BY DEF Init
  <2> QED BY <2>1, <2>2
<1>7. Typed /\ StackInv
  BY <1>1, <1>3, <1>5, <1>6 DEF Typed, StackInv
<1>8. AwayInv
  BY <1>3 DEF AwayInv
<1>9. regs = Own(cur, Depth(cur))
  BY <1>1, <1>3
<1> QED BY <1>7, <1>8, <1>9 DEF StubInv

\* initIRQ() set a gate for every line and for system calls, none of them an exception's.
LEMMA VectorGates ==
  /\ \A i \in Irqs : Vector(i) \in Gates \ (0..31)
  /\ SYSTEM_CALL_INTERRUPT \in Gates \ (0..31)
BY InterruptsAssumption DEF Vector, Gates, SYSTEM_CALL_INTERRUPT

\* Every step keeps StubInv.
LEMMA NextStub == StubInv /\ [Next]_vars => StubInv'
<1> SUFFICES ASSUME StubInv, [Next]_vars PROVE StubInv'
  OBVIOUS
<1>1. ASSUME UNCHANGED cpu PROVE StubInv'
  <2>1. UNCHANGED <<cur, regs, stack, frames>>
    BY <1>1 DEF cpu
  <2> QED BY <2>1 DEF StubInv, Typed, StackInv, AwayInv, Depth, Framed, Holds, Own
<1>2. ASSUME NEW i \in Irqs, Deliver(i) PROVE StubInv'
  BY <1>2, VectorGates, EnterStep DEF Deliver
<1>3. CASE SystemCall
  BY <1>3, VectorGates, EnterStep DEF SystemCall
<1>4. ASSUME NEW where \in Places, At(where), NEW there \in Places, Goto(there),
             UNCHANGED <<cur, regs, stack>>
      PROVE  StubInv'
  BY <1>4, GotoStep DEF At
<1>5. CASE InSlice
  BY <1>4, <1>5 DEF InSlice, Places
<1>6. CASE Stay
  BY <1>4, <1>6 DEF Stay, Places
<1>7. ASSUME NEW t \in Tasks, SwitchTo(t) PROVE StubInv'
  BY <1>7, SwitchStep
<1>8. CASE Acknowledge
  BY <1>4, <1>8 DEF Acknowledge, Places
<1>9. CASE Routine
  BY <1>4, <1>9 DEF Routine, Places
<1>10. CASE Spin
  BY <1>4, <1>10 DEF Spin, Places
<1>11. CASE Spun
  BY <1>4, <1>11 DEF Spun, Places
<1>12. CASE EndOfInterrupt
  BY <1>4, <1>12 DEF EndOfInterrupt, Places
<1>13. CASE Leave
  BY <1>13, LeaveStep
<1>14. CASE Exception
  <2>1. UNCHANGED <<cur, regs, stack, frames>>
    BY <1>14 DEF Exception
  <2> QED BY <2>1 DEF StubInv, Typed, StackInv, AwayInv, Depth, Framed, Holds, Own
<1>15. ASSUME NEW i \in Irqs, Raise(i) PROVE StubInv'
  BY <1>1, <1>15 DEF Raise
<1>16. CASE Halted
  BY <1>1, <1>16 DEF Halted, vars
<1>17. ASSUME NEW n \in Waits, Wait(n) PROVE StubInv'
  BY <1>1, <1>17 DEF Wait
<1>18. CASE WaitFlipped \/ WaitEnds
  BY <1>1, <1>18 DEF WaitFlipped, WaitEnds
<1>19. CASE UNCHANGED vars
  BY <1>1, <1>19 DEF vars
<1> QED BY <1>2, <1>3, <1>5, <1>6, <1>7, <1>8, <1>9, <1>10, <1>11, <1>12, <1>13, <1>14, <1>15,
          <1>16, <1>17, <1>18, <1>19 DEF Next

\* After any nesting of interrupts and any switches of tasks, the code that goes on has
\* its own registers, int_no is the number of an interrupt, and the stack holds exactly
\* the frames of the interrupts that its task is in.
THEOREM StubsKeepRegisters == Spec => []RegistersKept
<1>1. StubInv => RegistersKept
  <2> SUFFICES ASSUME StubInv PROVE RegistersKept
    OBVIOUS
  <2>1. cur \in Tasks /\ \A t \in Tasks : Depth(t) \in Nat /\ Framed(stack[t], t, Depth(t))
    BY LenProperties DEF StubInv, StackInv, Typed, Depth
  <2>2. \A t \in Tasks : Len(stack[t]) = 23 * Depth(t)
    BY <2>1 DEF Framed
  <2>3. ASSUME Depth(cur) > 0 PROVE IntNo \in Gates \ (0..31)
    <3>1. PICK d \in Nat : Depth(cur) = d + 1
      <4>1. Depth(cur) - 1 \in Nat /\ Depth(cur) = (Depth(cur) - 1) + 1
        BY <2>1, <2>3
      <4> QED BY <4>1
    <3>2. Framed(stack[cur], cur, d + 1)
      BY <2>1, <3>1
    <3>3. PICK n \in Gates \ (0..31) : Holds(stack[cur], cur, d, n)
      BY <3>2, Newest
    <3>4. Len(stack[cur]) = 23 * (d + 1)
      BY <3>2 DEF Framed
    <3>5. stack[cur][Len(stack[cur]) - 14][2] = n
      BY <3>3, <3>4, NewestNumber
    <3> QED BY <3>5 DEF IntNo
  <2> QED BY <2>2, <2>3 DEF RegistersKept, StubInv
<1> QED BY <1>1, InitStub, NextStub, PTL DEF Spec

-----------------------------------------------------------------------------
(* NoDeadLine: where the handlers are, and what is in service                *)

\* A handler that has not sent its last end of interrupt; one in which interrupts are on
\* or were on; the newest handler of the task that runs.
Live  == {"routine", "ack", "spin", "eoi"}
Under == {"ack", "spin", "eoi", "leave"}
Top   == frames[cur][Depth(cur)]

\* Other tasks were switched away in their newest interrupt; an interrupt is nested only
\* where interrupts are on.
OldPlaces ==
  /\ \A t \in Tasks \ {cur} : frames[t][Depth(t)] = "away"
  /\ \A t \in Tasks : \A k \in 1..Depth(t) - 1 : frames[t][k] \in Under

\* Interrupts are off only in a handler that has not turned them on.
FlagPlaces ==
  /\ ifl /\ Depth(cur) > 0 => Top \in Under
  /\ ~ifl /\ ~halted => Depth(cur) > 0 /\ Top \in {"routine", "eoi", "leave"}
  /\ halted => ~ifl

\* Some handler is active; some handler other than the newest one.
Some  == \E t \in Tasks : \E k \in 1..Depth(t) : frames[t][k] \in Live
Other == \E t \in Tasks : \E k \in 1..Depth(t) :
           (t # cur \/ k # Depth(t)) /\ frames[t][k] \in Live

\* With interrupts on, only the timer and the keyboard can be in service, the timer only
\* until the first of its ends of interrupt.
OnInv ==
  /\ service \subseteq {0, 1} /\ (service # {} => Some)
  /\ 0 \in service => Depth(cur) > 0 /\ Top = "ack"
  /\ {0, 1} \subseteq service => Other

\* In a handler that has not sent its end of interrupt: lines 0 and 1, or its own line.
LowInv ==
  /\ service \subseteq {0, 1} /\ (0 \in service => IntNo = TIMER_ISR_NUMBER)
  /\ {0, 1} \subseteq service => Other
HighInv == \E i \in 2..15 : IntNo = Vector(i) /\ service = {i, Line(i)}
HandlerInv == LowInv \/ HighInv

\* After the end of interrupt: at most the keyboard, which another handler ends.
LeaveInv == service \subseteq {1} /\ (1 \in service => Other)

ServiceInv ==
  /\ ifl => OnInv
  /\ ~ifl /\ ~halted /\ Top \in {"routine", "eoi"} => HandlerInv
  /\ ~ifl /\ ~halted /\ Top = "leave" => LeaveInv

\* The inductive invariant behind NoDeadLine.
LineInv == StubInv /\ OldPlaces /\ FlagPlaces /\ ServiceInv

\* The most urgent of one or two lines.
LEMMA MinOf ==
  /\ Min({0}) = 0 /\ Min({1}) = 1 /\ Min({0, 1}) = 0
  /\ \A i \in Int : Min({i}) = i
BY DEF Min

\* One end of interrupt ends the timer before the keyboard.
LEMMA EndedLow ==
  ASSUME NEW S, S \subseteq {0, 1}, NEW b
  PROVE  Ended(S, b) \subseteq {1} /\ (1 \in Ended(S, b) => {0, 1} \subseteq S)
<1>0. \A x \in {0, 1} : x \notin 8..15 /\ x \in 0..7
  OBVIOUS
<1>1. S \cap 8..15 = {} /\ S \cap 0..7 = S
  BY <1>0, Zenon
<1>2. First(S \cap 8..15) = {} /\ First(S \cap 0..7) = First(S)
  BY <1>1 DEF First
<1>3. Ended(S, b) = S \ First(S)
  BY <1>2 DEF Ended
<1>4. S = {} \/ S = {0} \/ S = {1} \/ S = {0, 1}
  OBVIOUS
<1> QED BY <1>3, <1>4, MinOf DEF First

\* The handler of another line ends it at both controllers.
LEMMA EndedHigh ==
  ASSUME NEW i \in 2..15
  PROVE  Ended({i, Line(i)}, Vector(i) >= 40) = {}
<1>1. CASE i < 8
  <2>0. Line(i) = i /\ ~(Vector(i) >= 40) /\ i \in 0..7
    BY <1>1 DEF Line, Vector
  <2>1. {i, Line(i)} = {i} /\ {i} \cap 0..7 = {i}
    BY <2>0, Zenon
  <2>2. First({i}) = {i}
    BY MinOf DEF First
  <2> QED BY <2>0, <2>1, <2>2 DEF Ended
<1>2. CASE ~(i < 8)
  <2>0. Line(i) = 2 /\ Vector(i) >= 40 /\ i \in 8..15 /\ i \notin 0..7 /\ 2 \in 0..7 /\ 2 \notin 8..15
    BY <1>2 DEF Line, Vector
  <2>1. {i, 2} \cap 8..15 = {i} /\ {i, 2} \cap 0..7 = {2}
    BY <2>0, Zenon
  <2>2. First({i}) = {i} /\ First({2}) = {2}
    BY MinOf DEF First
  <2> QED BY <2>0, <2>1, <2>2 DEF Ended
<1> QED BY <1>1, <1>2

\* A step inside the newest handler of the task that runs.
LEMMA GotoPlaces ==
  ASSUME StubInv, OldPlaces, Depth(cur) > 0, NEW where \in Places, Goto(where), cur' = cur
  PROVE  /\ Depth(cur)' = Depth(cur) /\ Top' = where /\ OldPlaces'
         /\ (Other => Other') /\ (where \in Live => Some')
<1>1. /\ Typed /\ cur \in Tasks /\ Depth(cur) \in 1..Depth(cur)
      /\ \A t \in Tasks : Depth(t) \in Nat
  BY LenProperties DEF StubInv, Typed, Depth
<1>2. /\ \A t \in Tasks : Depth(t)' = Depth(t)
      /\ frames'[cur][Depth(cur)] = where
      /\ \A t \in Tasks : \A k \in 1..Depth(t) :
           (t # cur \/ k # Depth(cur)) => frames'[t][k] = frames[t][k]
  BY <1>1, GotoFrames DEF Depth
<1>3. Depth(cur)' = Depth(cur)
  BY <1>1, <1>2 DEF Depth
<1>4. Top' = where
  BY <1>2, <1>3 DEF Top
<1>5. OldPlaces'
  <2>1. ASSUME NEW t \in Tasks \ {cur} PROVE frames'[t][Depth(t)'] = "away"
    <3>1. Depth(t) \in 1..Depth(t)
      BY <1>1, <2>1 DEF StubInv, AwayInv
    <3> QED BY <1>2, <2>1, <3>1 DEF OldPlaces
  <2>2. ASSUME NEW t \in Tasks, NEW k \in 1..Depth(t) - 1 PROVE frames'[t][k] \in Under
    <3>1. k \in 1..Depth(t) /\ k # Depth(t)
      BY <1>1, <2>2
    <3>2. frames[t][k] \in Under
      BY DEF OldPlaces
    <3> QED BY <1>2, <3>1, <3>2
  <2> QED BY <1>2, <2>1, <2>2 DEF OldPlaces
<1>6. ASSUME Other PROVE Other'
  <2>0. PICK t \in Tasks : \E k \in 1..Depth(t) :
          (t # cur \/ k # Depth(t)) /\ frames[t][k] \in Live
    BY <1>6 DEF Other
  <2>1. PICK k \in 1..Depth(t) : (t # cur \/ k # Depth(t)) /\ frames[t][k] \in Live
    BY <2>0
  <2>2. frames'[t][k] = frames[t][k]
    BY <1>2, <2>1
  <2> QED BY <1>2, <2>1, <2>2 DEF Other
<1>7. ASSUME where \in Live PROVE Some'
  BY <1>1, <1>2, <1>3, <1>7 DEF Some
<1> QED BY <1>3, <1>4, <1>5, <1>6, <1>7

\* What a sequence with one more element holds.
LEMMA Appended ==
  ASSUME NEW S, NEW s \in Seq(S), NEW x \in S
  PROVE  Append(s, x)[Len(s) + 1] = x /\ \A k \in 1..Len(s) : Append(s, x)[k] = s[k]
OBVIOUS

\* The indices of one more frame.
LEMMA OneDeeper ==
  ASSUME NEW d \in Nat, NEW e, e = d + 1
  PROVE  /\ e > 0 /\ \A k \in 1..e - 1 : k \in 1..d /\ (k = d \/ k \in 1..d - 1)
         /\ \A k \in 1..d : k \in 1..e /\ k # e /\ d > 0
OBVIOUS

\* An interrupt is nested in a handler in which interrupts are on.
LEMMA EnterPlaces ==
  ASSUME StubInv, OldPlaces, Depth(cur) > 0 => Top \in Under,
         NEW n \in Gates \ (0..31), Enter(n), cur' = cur
  PROVE  /\ Depth(cur)' > 0 /\ Top' = "routine" /\ OldPlaces' /\ IntNo' = n
         /\ (Some => Other')
<1>1. cur \in Tasks /\ frames[cur] \in Seq(Places) /\ \A t \in Tasks : Depth(t) \in Nat
  BY LenProperties DEF StubInv, Typed, Depth
<1>2. /\ IntNo' = n /\ Depth(cur)' = Depth(cur) + 1
      /\ frames'[cur] = Append(frames[cur], "routine")
      /\ \A t \in Tasks : t # cur => frames'[t] = frames[t]
  BY EnterStep
<1>3. /\ frames'[cur][Depth(cur) + 1] = "routine"
      /\ \A k \in 1..Depth(cur) : frames'[cur][k] = frames[cur][k]
  <2>1. "routine" \in Places
    BY DEF Places
  <2>2. /\ frames'[cur][Len(frames[cur]) + 1] = "routine"
        /\ \A k \in 1..Len(frames[cur]) : frames'[cur][k] = frames[cur][k]
    <3> DEFINE f == frames[cur]
    <3>1. f \in Seq(Places)
      BY <1>1
    <3> HIDE DEF f
    <3>2. /\ Append(f, "routine")[Len(f) + 1] = "routine"
          /\ \A k \in 1..Len(f) : Append(f, "routine")[k] = f[k]
      BY ONLY <2>1, <3>1, Appended
    <3> QED BY <1>2, <3>2 DEF f
  <2> QED BY <2>2 DEF Depth
<1>d. /\ Depth(cur)' > 0
      /\ \A k \in 1..Depth(cur)' - 1 : k \in 1..Depth(cur) /\ (k = Depth(cur) \/ k \in 1..Depth(cur) - 1)
      /\ \A k \in 1..Depth(cur) : k \in 1..Depth(cur)' /\ k # Depth(cur)' /\ Depth(cur) > 0
  BY ONLY <1>1, <1>2, OneDeeper
<1>4. Depth(cur)' > 0 /\ Top' = "routine"
  <2>1. frames'[cur][Depth(cur)'] = "routine"
    BY <1>2, <1>3
  <2> QED BY <1>d, <2>1 DEF Top
<1>5. \A t \in Tasks : t # cur => Depth(t)' = Depth(t)
  BY <1>2 DEF Depth
<1>6. OldPlaces'
  <2>1. ASSUME NEW t \in Tasks \ {cur} PROVE frames'[t][Depth(t)'] = "away"
    BY <1>2, <1>5 DEF OldPlaces
  <2>2. ASSUME NEW t \in Tasks, NEW k \in 1..Depth(t)' - 1 PROVE frames'[t][k] \in Under
    <3>1. CASE t # cur
      BY <1>2, <1>5, <2>2, <3>1 DEF OldPlaces
    <3>2. CASE t = cur
      <4>1. Depth(t)' = Depth(cur)'
        BY <3>2 DEF Depth
      <4>2. k \in 1..Depth(cur) /\ (k = Depth(cur) \/ k \in 1..Depth(cur) - 1) /\ Depth(cur) > 0
        BY <1>d, <2>2, <4>1
      <4>4. frames[cur][k] \in Under
        BY <1>1, <4>2 DEF OldPlaces, Top
      <4> QED BY <1>3, <3>2, <4>2, <4>4
    <3> QED BY <3>1, <3>2
  <2> QED BY <2>1, <2>2 DEF OldPlaces
<1>7. ASSUME Some PROVE Other'
  <2>0. PICK t \in Tasks : \E k \in 1..Depth(t) : frames[t][k] \in Live
    BY <1>7 DEF Some
  <2>1. PICK k \in 1..Depth(t) : frames[t][k] \in Live
    BY <2>0
  <2>2. CASE t # cur
    <3>1. k \in 1..Depth(t)' /\ frames'[t][k] \in Live
      BY <1>2, <1>5, <2>1, <2>2
    <3> QED BY <2>2, <3>1 DEF Other
  <2>3. CASE t = cur
    <3>0. Depth(t)' = Depth(cur)'
      BY <2>3 DEF Depth
    <3>1. k \in 1..Depth(t)' /\ k # Depth(t)' /\ frames'[t][k] \in Live
      BY <1>d, <1>3, <2>1, <2>3, <3>0
    <3> QED BY <3>1 DEF Other
  <2> QED BY <2>2, <2>3
<1> QED BY <1>2, <1>4, <1>6, <1>7

\* A handler that ends goes back to one in which interrupts were on.
LEMMA LeavePlaces ==
  ASSUME StubInv, OldPlaces, Leave
  PROVE  /\ OldPlaces' /\ (Depth(cur)' > 0 => Top' \in Under)
         /\ (Other => Some')
<1>1. cur \in Tasks /\ frames[cur] \in Seq(Places) /\ cur' = cur /\ \A t \in Tasks : Depth(t) \in Nat
  BY LenProperties DEF StubInv, Typed, Depth, Leave
<1>2. /\ Depth(cur)' = Depth(cur) - 1 /\ Depth(cur) \in Nat \ {0}
      /\ frames'[cur] = SubSeq(frames[cur], 1, Len(frames[cur]) - 1)
      /\ \A t \in Tasks : t # cur => frames'[t] = frames[t]
  BY LeaveStep
<1>3. \A k \in 1..Depth(cur) - 1 : frames'[cur][k] = frames[cur][k]
  BY <1>1, <1>2, SubSeqProperties DEF Depth
<1>4. \A t \in Tasks : t # cur => Depth(t)' = Depth(t)
  BY <1>2 DEF Depth
<1>5. \A k \in 1..Depth(cur) - 1 : frames'[cur][k] \in Under
  BY <1>1, <1>3 DEF OldPlaces
<1>6. Depth(cur)' > 0 => Top' \in Under
  <2>1. ASSUME Depth(cur)' > 0 PROVE Top' \in Under
    <3>1. Depth(cur) - 1 \in 1..Depth(cur) - 1
      BY <1>2, <2>1
    <3> QED BY <1>1, <1>2, <1>5, <3>1 DEF Top
  <2> QED BY <2>1
<1>7. OldPlaces'
  <2>1. ASSUME NEW t \in Tasks \ {cur} PROVE frames'[t][Depth(t)'] = "away"
    BY <1>2, <1>4 DEF OldPlaces
  <2>2. ASSUME NEW t \in Tasks, NEW k \in 1..Depth(t)' - 1 PROVE frames'[t][k] \in Under
    <3>1. CASE t # cur
      BY <1>2, <1>4, <2>2, <3>1 DEF OldPlaces
    <3>2. CASE t = cur
      <4>1. Depth(t)' = Depth(cur) - 1
        BY <1>1, <1>2, <3>2 DEF Depth
      <4>2. k \in 1..Depth(cur) - 1
        BY <1>2, <2>2, <4>1
      <4> QED BY <1>5, <3>2, <4>2
    <3> QED BY <3>1, <3>2
  <2> QED BY <1>1, <2>1, <2>2 DEF OldPlaces
<1>8. ASSUME Other PROVE Some'
  <2>0. PICK t \in Tasks : \E k \in 1..Depth(t) :
          (t # cur \/ k # Depth(t)) /\ frames[t][k] \in Live
    BY <1>8 DEF Other
  <2>1. PICK k \in 1..Depth(t) : (t # cur \/ k # Depth(t)) /\ frames[t][k] \in Live
    BY <2>0
  <2>2. CASE t # cur
    <3>1. k \in 1..Depth(t)' /\ frames'[t][k] \in Live
      BY <1>2, <1>4, <2>1, <2>2
    <3> QED BY <3>1 DEF Some
  <2>3. CASE t = cur
    <3>0. Depth(t)' = Depth(t) - 1
      BY <1>1, <1>2, <2>3 DEF Depth
    <3>1. k \in 1..Depth(cur) - 1 /\ frames'[cur][k] = frames[cur][k]
      <4>1. k \in 1..Depth(cur) /\ k # Depth(cur) /\ Depth(cur) \in Nat
        BY <1>2, <2>1, <2>3
      <4>2. k \in 1..Depth(cur) - 1
        BY ONLY <4>1
      <4> QED BY <1>3, <4>2
    <3>2. k \in 1..Depth(t)' /\ frames'[t][k] \in Live
      BY <2>1, <2>3, <3>0, <3>1
    <3> QED BY <3>2 DEF Some
  <2> QED BY <2>2, <2>3
<1> QED BY <1>6, <1>7, <1>8

\* A switch leaves one handler in schedule() and goes on in another.
LEMMA SwitchPlaces ==
  ASSUME StubInv, OldPlaces, NEW t \in Tasks, SwitchTo(t)
  PROVE  OldPlaces' /\ Depth(cur)' > 0 /\ Top' = "ack" /\ Some'
<1>1. cur \in Tasks /\ cur' = t /\ t # cur /\ \A u \in Tasks : Depth(u) \in Nat
  BY LenProperties DEF StubInv, Typed, Depth, SwitchTo
<1>2. /\ \A u \in Tasks : Depth(u)' = Depth(u)
      /\ Depth(cur) > 0 /\ Depth(t) > 0
      /\ frames'[cur][Depth(cur)] = "away" /\ frames'[t][Depth(t)] = "ack"
      /\ \A u \in Tasks : \A k \in 1..Depth(u) :
           (u # cur /\ u # t) \/ k # Depth(u) => frames'[u][k] = frames[u][k]
  BY SwitchFrames DEF Depth
<1>3. Depth(cur)' = Depth(t) /\ Depth(t) \in 1..Depth(t)
  BY <1>1, <1>2 DEF Depth
<1>4. Depth(cur)' > 0 /\ Top' = "ack"
  BY <1>1, <1>2, <1>3 DEF Top
<1>5. Some'
  BY <1>2, <1>3 DEF Some, Live
<1>6. OldPlaces'
  <2>1. ASSUME NEW u \in Tasks \ {t} PROVE frames'[u][Depth(u)'] = "away"
    <3>1. CASE u = cur
      BY <1>2, <3>1
    <3>2. CASE u # cur
      <4>1. Depth(u) \in 1..Depth(u)
        BY <1>1, <3>2 DEF StubInv, AwayInv
      <4> QED BY <1>2, <3>2, <4>1 DEF OldPlaces
    <3> QED BY <3>1, <3>2
  <2>2. ASSUME NEW u \in Tasks, NEW k \in 1..Depth(u) - 1 PROVE frames'[u][k] \in Under
    <3>1. k \in 1..Depth(u) /\ k # Depth(u)
      BY <1>1, <2>2
    <3>2. frames[u][k] \in Under
      BY DEF OldPlaces
    <3> QED BY <1>2, <3>1, <3>2
  <2> QED BY <1>1, <1>2, <2>1, <2>2 DEF OldPlaces
<1> QED BY <1>4, <1>5, <1>6

\* Nothing is in service at first.
LEMMA InitLines == Init => LineInv
<1> SUFFICES ASSUME Init PROVE LineInv
  OBVIOUS
<1>1. StubInv
  BY InitStub
<1>2. cur \in Tasks /\ \A t \in Tasks : frames[t] = IF t = cur THEN <<>> ELSE <<"away">>
  BY DEF Init
<1>3. \A t \in Tasks : Depth(t) = IF t = cur THEN 0 ELSE 1
  <2>1. Len(<<>>) = 0 /\ Len(<<"away">>) = 1
    OBVIOUS
  <2> QED BY <1>2, <2>1 DEF Depth
<1>4. OldPlaces
  <2>1. ASSUME NEW t \in Tasks \ {cur} PROVE frames[t][Depth(t)] = "away"
    BY <1>2, <1>3
  <2>2. ASSUME NEW t \in Tasks, NEW k \in 1..Depth(t) - 1 PROVE FALSE
    BY <1>3
  <2> QED BY <2>1, <2>2 DEF OldPlaces
<1>5. ~(Depth(cur) > 0) /\ service = {} /\ ifl /\ ~halted
  BY <1>2, <1>3 DEF Init
<1> QED BY <1>1, <1>4, <1>5 DEF LineInv, FlagPlaces, ServiceInv, OnInv

\* With interrupts on, no handler has the timer in service but the one that is about to end it.
LEMMA DeliverLines ==
  ASSUME LineInv, NEW i \in Irqs, Deliver(i)
  PROVE  OldPlaces' /\ FlagPlaces' /\ ServiceInv'
<1>1. StubInv /\ OldPlaces /\ ifl /\ ~halted /\ OnInv /\ (Depth(cur) > 0 => Top \in Under)
  BY DEF LineInv, Deliver, FlagPlaces, ServiceInv
<1>2. /\ Enter(Vector(i)) /\ cur' = cur /\ halted' = halted /\ ~ifl'
      /\ service' = service \cup {i, Line(i)} /\ \A x \in service : Line(i) < Line(x)
  BY DEF Deliver, Enter
<1>3. /\ Depth(cur)' > 0 /\ Top' = "routine" /\ OldPlaces' /\ IntNo' = Vector(i)
      /\ (Some => Other')
  BY <1>1, <1>2, VectorGates, EnterPlaces
<1>4. FlagPlaces'
  BY <1>1, <1>2, <1>3 DEF FlagPlaces
<1>i. i \in 0..15
  BY InterruptsAssumption
<1>5. HandlerInv'
  <2>1. CASE i = 0
    <3>1. 0 \notin service
      BY <1>2, <2>1 DEF Line
    <3>2. service \subseteq {0, 1} /\ (1 \in service => Other')
      BY <1>1, <1>3 DEF OnInv
    <3>3. service' = service \cup {0} /\ IntNo' = TIMER_ISR_NUMBER
      BY <1>2, <1>3, <2>1 DEF Line, Vector, TIMER_ISR_NUMBER
    <3> QED BY <3>1, <3>2, <3>3 DEF HandlerInv, LowInv
  <2>2. CASE i # 0
    <3>1. service = {}
      <4>1. Line(0) = 0 /\ Line(1) = 1 /\ Line(i) \in Nat /\ Line(i) >= 1
        BY <1>i, <2>2 DEF Line
      <4>2. 0 \notin service /\ 1 \notin service
        BY <1>2, <4>1
      <4> QED BY <1>1, <4>2 DEF OnInv
    <3>2. service' = {i, Line(i)}
      BY <1>2, <3>1
    <3>3. CASE i = 1
      BY <3>2, <3>3 DEF HandlerInv, LowInv, Line
    <3>4. CASE i # 1
      <4>1. i \in 2..15
        BY <1>i, <2>2, <3>4
      <4> QED BY <1>3, <3>2, <4>1 DEF HandlerInv, HighInv, Line, Vector
    <3> QED BY <3>3, <3>4
  <2> QED BY <2>1, <2>2
<1>6. ServiceInv'
  BY <1>2, <1>3, <1>5 DEF ServiceInv
<1> QED BY <1>3, <1>4, <1>6

\* A system call puts nothing in service.
LEMMA SystemCallLines ==
  ASSUME LineInv, SystemCall
  PROVE  OldPlaces' /\ FlagPlaces' /\ ServiceInv'
<1>1. ~(Depth(cur) > 0) /\ ~halted
  BY DEF SystemCall, Outside
<1>2. StubInv /\ OldPlaces /\ ifl /\ OnInv
  BY <1>1 DEF LineInv, FlagPlaces, ServiceInv
<1>3. Enter(SYSTEM_CALL_INTERRUPT) /\ cur' = cur /\ halted' = halted /\ ~ifl' /\ service' = service
  BY DEF SystemCall, Enter, pic
<1>4. Depth(cur)' > 0 /\ Top' = "routine" /\ OldPlaces'
  BY <1>1, <1>2, <1>3, VectorGates, EnterPlaces
<1>5. LowInv'
  BY <1>1, <1>2, <1>3 DEF OnInv, LowInv
<1> QED BY <1>1, <1>3, <1>4, <1>5 DEF FlagPlaces, ServiceInv, HandlerInv

\* Once its stub ends, a handler has left nothing of its own in service.
LEMMA LeaveLines ==
  ASSUME LineInv, Leave
  PROVE  OldPlaces' /\ FlagPlaces' /\ ServiceInv'
<1>1. StubInv /\ OldPlaces /\ ~halted /\ Top = "leave" /\ Depth(cur) > 0
  BY DEF LineInv, Leave, At, Top
<1>2. ifl' /\ service' = service /\ halted' = halted
  BY DEF Leave, pic
<1>3. OldPlaces' /\ (Depth(cur)' > 0 => Top' \in Under) /\ (Other => Some')
  BY <1>1, LeavePlaces
<1>4. service \subseteq {1} /\ (1 \in service => Other)
  <2>1. CASE ~ifl
    BY <1>1, <2>1 DEF LineInv, ServiceInv, LeaveInv
  <2>2. CASE ifl
    <3>1. service \subseteq {0, 1} /\ (service # {} => Some) /\ 0 \notin service
      BY <1>1, <2>2 DEF LineInv, ServiceInv, OnInv
    <3>2. Some => Other
      BY <1>1 DEF Some, Other, Live, Top
    <3> QED BY <3>1, <3>2
  <2> QED BY <2>1, <2>2
<1>5. OnInv'
  <2>1. service' \subseteq {0, 1} /\ 0 \notin service' /\ ~({0, 1} \subseteq service')
    BY <1>2, <1>4
  <2>2. service' # {} => Some'
    BY <1>2, <1>3, <1>4
  <2> QED BY <2>1, <2>2 DEF OnInv
<1> QED BY <1>1, <1>2, <1>3, <1>5 DEF FlagPlaces, ServiceInv

\* The routine of a handler changes no controller.
LEMMA HandlerLines ==
  ASSUME LineInv, InSlice \/ Stay \/ Routine \/ Spin
  PROVE  OldPlaces' /\ FlagPlaces' /\ ServiceInv'
<1>1. StubInv /\ OldPlaces /\ ~halted /\ Top = "routine" /\ Depth(cur) > 0
  BY DEF LineInv, InSlice, Stay, Routine, Spin, At, Top
<1>2. ~ifl /\ HandlerInv
  BY <1>1 DEF LineInv, FlagPlaces, ServiceInv, Under
<1>3. cur' = cur /\ stack' = stack /\ service' = service /\ halted' = halted
  BY DEF InSlice, Stay, Routine, Spin, pic
<1>4. IntNo' = IntNo
  BY <1>3 DEF IntNo
<1>5. CASE InSlice \/ Routine
  <2>1. Goto("eoi") /\ ifl' = ifl /\ "eoi" \in Places
    BY <1>5 DEF InSlice, Routine, Places
  <2>2. Depth(cur)' = Depth(cur) /\ Top' = "eoi" /\ OldPlaces' /\ (Other => Other')
    BY <1>1, <1>3, <2>1, GotoPlaces
  <2>3. HandlerInv'
    <3>1. CASE LowInv
      BY <1>3, <1>4, <2>2, <3>1 DEF HandlerInv, LowInv
    <3>2. CASE HighInv
      BY <1>3, <1>4, <3>2 DEF HandlerInv, HighInv, Vector, Line
    <3> QED BY <1>2, <3>1, <3>2 DEF HandlerInv
  <2> QED BY <1>1, <1>2, <1>3, <2>1, <2>2, <2>3 DEF FlagPlaces, ServiceInv
<1>6. CASE Stay
  <2>1. Goto("ack") /\ ifl' /\ "ack" \in Places /\ IntNo = TIMER_ISR_NUMBER
    BY <1>6 DEF Stay, Places
  <2>2. Depth(cur)' = Depth(cur) /\ Top' = "ack" /\ OldPlaces' /\ (Other => Other') /\ Some'
    BY <1>1, <1>3, <2>1, GotoPlaces DEF Live
  <2>3. LowInv
    BY <1>2, <2>1 DEF HandlerInv, HighInv, Vector, TIMER_ISR_NUMBER
  <2>4. OnInv'
    BY <1>1, <1>3, <2>2, <2>3 DEF OnInv, LowInv
  <2> QED BY <1>1, <1>3, <2>1, <2>2, <2>4 DEF FlagPlaces, ServiceInv, Under
<1>7. CASE Spin
  <2>1. Goto("spin") /\ ifl' /\ "spin" \in Places /\ IntNo = KB_IRQ_NUMBER
    BY <1>7 DEF Spin, Places
  <2>2. Depth(cur)' = Depth(cur) /\ Top' = "spin" /\ OldPlaces' /\ Some'
    BY <1>1, <1>3, <2>1, GotoPlaces DEF Live
  <2>3. LowInv /\ 0 \notin service
    <3>1. LowInv
      BY <1>2, <2>1 DEF HandlerInv, HighInv, Vector, KB_IRQ_NUMBER
    <3> QED BY <2>1, <3>1 DEF LowInv, KB_IRQ_NUMBER, TIMER_ISR_NUMBER
  <2>4. OnInv'
    BY <1>1, <1>3, <2>2, <2>3 DEF OnInv, LowInv
  <2> QED BY <1>1, <1>3, <2>1, <2>2, <2>4 DEF FlagPlaces, ServiceInv, Under
<1> QED BY <1>5, <1>6, <1>7

\* restoreProcess() ends the timer's interrupt.
LEMMA SwitchLines ==
  ASSUME LineInv, NEW t \in Tasks, SwitchTo(t)
  PROVE  OldPlaces' /\ FlagPlaces' /\ ServiceInv'
<1>1. /\ StubInv /\ OldPlaces /\ ~halted /\ Top = "routine" /\ Depth(cur) > 0
      /\ IntNo = TIMER_ISR_NUMBER
  BY DEF LineInv, SwitchTo, At, Top
<1>2. ~ifl /\ HandlerInv
  BY <1>1 DEF LineInv, FlagPlaces, ServiceInv, Under
<1>3. ifl' /\ service' = Ended(service, FALSE) /\ halted' = halted
  BY DEF SwitchTo
<1>4. OldPlaces' /\ Depth(cur)' > 0 /\ Top' = "ack" /\ Some'
  BY <1>1, SwitchPlaces
<1>5. service \subseteq {0, 1}
  BY <1>1, <1>2 DEF HandlerInv, LowInv, HighInv, Vector, TIMER_ISR_NUMBER
<1>6. service' \subseteq {1}
  BY <1>3, <1>5, EndedLow
<1>7. OnInv'
  BY <1>4, <1>6 DEF OnInv
<1> QED BY <1>1, <1>3, <1>4, <1>7 DEF FlagPlaces, ServiceInv, Under

\* The ends of interrupt of TimerX86::run() and of irq_handler().
LEMMA EndLines ==
  ASSUME LineInv, Acknowledge \/ Spun \/ EndOfInterrupt
  PROVE  OldPlaces' /\ FlagPlaces' /\ ServiceInv'
<1>1. StubInv /\ OldPlaces /\ ~halted /\ Depth(cur) > 0
  BY DEF LineInv, Acknowledge, Spun, EndOfInterrupt, At, Top
<1>2. cur' = cur /\ stack' = stack /\ ifl' = ifl /\ halted' = halted
  BY DEF Acknowledge, Spun, EndOfInterrupt
<1>3. CASE Acknowledge
  <2>1. Goto("eoi") /\ "eoi" \in Places /\ Top = "ack" /\ service' = Ended(service, FALSE)
    BY <1>3 DEF Acknowledge, Places, At, Top
  <2>2. ifl /\ OnInv
    BY <1>1, <2>1 DEF LineInv, FlagPlaces, ServiceInv
  <2>3. Depth(cur)' = Depth(cur) /\ Top' = "eoi" /\ OldPlaces' /\ (Other => Other') /\ Some'
    BY <1>1, <1>2, <2>1, GotoPlaces DEF Live
  <2>4. service' \subseteq {1}
    BY <2>1, <2>2, EndedLow DEF OnInv
  <2>5. OnInv'
    BY <2>3, <2>4 DEF OnInv
  <2> QED BY <1>1, <1>2, <2>2, <2>3, <2>5 DEF FlagPlaces, ServiceInv, Under
<1>4. CASE Spun
  <2>1. Goto("eoi") /\ "eoi" \in Places /\ Top = "spin" /\ service' = service
    BY <1>4 DEF Spun, Places, At, Top, pic
  <2>2. ifl /\ OnInv
    BY <1>1, <2>1 DEF LineInv, FlagPlaces, ServiceInv
  <2>3. Depth(cur)' = Depth(cur) /\ Top' = "eoi" /\ OldPlaces' /\ Some'
    BY <1>1, <1>2, <2>1, GotoPlaces DEF Live
  <2>4. service' \subseteq {1}
    BY <2>1, <2>2 DEF OnInv
  <2>5. OnInv'
    BY <2>3, <2>4 DEF OnInv
  <2> QED BY <1>1, <1>2, <2>2, <2>3, <2>5 DEF FlagPlaces, ServiceInv, Under
<1>5. CASE EndOfInterrupt
  <2>1. Goto("leave") /\ "leave" \in Places /\ Top = "eoi" /\ service' = Ended(service, IntNo >= 40)
    BY <1>5 DEF EndOfInterrupt, Places, At, Top
  <2>3. Depth(cur)' = Depth(cur) /\ Top' = "leave" /\ OldPlaces' /\ (Other => Other')
    BY <1>1, <1>2, <2>1, GotoPlaces
  <2>4. CASE ifl
    <3>1. service \subseteq {1}
      BY <2>1, <2>4 DEF LineInv, ServiceInv, OnInv
    <3>2. service' = {}
      <4>1. service \subseteq {0, 1} /\ 0 \notin service
        BY <3>1
      <4>2. /\ Ended(service, IntNo >= 40) \subseteq {1}
            /\ (1 \in Ended(service, IntNo >= 40) => {0, 1} \subseteq service)
        BY <4>1, EndedLow
      <4> QED BY <2>1, <4>1, <4>2
    <3>3. OnInv'
      BY <3>2 DEF OnInv
    <3> QED BY <1>1, <1>2, <2>3, <2>4, <3>3 DEF FlagPlaces, ServiceInv, Under
  <2>5. CASE ~ifl
    <3>1. HandlerInv
      BY <1>1, <2>1, <2>5 DEF LineInv, ServiceInv
    <3>2. LeaveInv'
      <4>1. CASE LowInv
        <5>1. service' \subseteq {1} /\ (1 \in service' => {0, 1} \subseteq service)
          BY <2>1, <4>1, EndedLow DEF LowInv
        <5> QED BY <2>3, <4>1, <5>1 DEF LowInv, LeaveInv
      <4>2. CASE HighInv
        <5>1. service' = {}
          BY <2>1, <4>2, EndedHigh DEF HighInv
        <5> QED BY <5>1 DEF LeaveInv
      <4> QED BY <3>1, <4>1, <4>2 DEF HandlerInv
    <3> QED BY <1>1, <1>2, <2>3, <2>5, <3>2 DEF FlagPlaces, ServiceInv
  <2> QED BY <2>4, <2>5
<1> QED BY <1>3, <1>4, <1>5

\* Every step keeps LineInv.
LEMMA NextLines == LineInv /\ [Next]_vars => LineInv'
<1> SUFFICES ASSUME LineInv, [Next]_vars PROVE LineInv'
  OBVIOUS
<1>0. StubInv'
  BY NextStub DEF LineInv
<1>1. ASSUME UNCHANGED <<service, cpu, halted>> PROVE OldPlaces' /\ FlagPlaces' /\ ServiceInv'
  <2>1. UNCHANGED <<service, cur, stack, frames, ifl, halted>>
    BY <1>1 DEF cpu
  <2>2. OldPlaces' /\ FlagPlaces'
    BY <2>1 DEF LineInv, OldPlaces, FlagPlaces, Top, Depth
  <2>3. /\ Top' = Top /\ IntNo' = IntNo /\ Depth(cur)' = Depth(cur)
        /\ (Some => Some') /\ (Other => Other')
    BY <2>1 DEF Top, IntNo, Depth, Some, Other
  <2>4. (OnInv => OnInv') /\ (LowInv => LowInv') /\ (LeaveInv => LeaveInv')
    BY <2>1, <2>3 DEF OnInv, LowInv, LeaveInv
  <2>5. HighInv => HighInv'
    BY <2>1, <2>3 DEF HighInv, Vector, Line
  <2>6. ServiceInv'
    BY <2>1, <2>3, <2>4, <2>5 DEF LineInv, ServiceInv, HandlerInv
  <2> QED BY <2>2, <2>6
<1>2. ASSUME NEW i \in Irqs, Raise(i) PROVE OldPlaces' /\ FlagPlaces' /\ ServiceInv'
  BY <1>1, <1>2 DEF Raise
<1>3. ASSUME Exception PROVE OldPlaces' /\ FlagPlaces' /\ ServiceInv'
  <2>1. UNCHANGED <<cur, frames>> /\ halted' = TRUE /\ ifl' = FALSE
    BY <1>3 DEF Exception
  <2>2. OldPlaces'
    BY <2>1 DEF LineInv, OldPlaces, Depth
  <2>3. FlagPlaces'
    BY <2>1 DEF FlagPlaces
  <2>4. ServiceInv'
    BY <2>1 DEF ServiceInv
  <2> QED BY <2>2, <2>3, <2>4
<1>4. ASSUME Halted \/ UNCHANGED vars PROVE OldPlaces' /\ FlagPlaces' /\ ServiceInv'
  <2>1. UNCHANGED vars
    BY <1>4 DEF Halted
  <2>2. UNCHANGED <<service, cpu, halted>>
    BY <2>1 DEF vars, pic
  <2> QED BY <1>1, <2>2
<1>5. ASSUME NEW n \in Waits, Wait(n) PROVE OldPlaces' /\ FlagPlaces' /\ ServiceInv'
  BY <1>1, <1>5 DEF Wait, pic
<1>6. ASSUME WaitFlipped \/ WaitEnds PROVE OldPlaces' /\ FlagPlaces' /\ ServiceInv'
  <2>1. UNCHANGED <<service, cpu, halted>>
    BY <1>6 DEF WaitFlipped, WaitEnds, pic
  <2> QED BY <1>1, <2>1
<1>7. OldPlaces' /\ FlagPlaces' /\ ServiceInv'
  BY <1>2, <1>3, <1>4, <1>5, <1>6, DeliverLines, SystemCallLines, LeaveLines, HandlerLines,
     SwitchLines, EndLines DEF Next
<1> QED BY <1>0, <1>7 DEF LineInv

\* The timer's extra ends of interrupt never leave a line in service: with interrupts on
\* and no handler active, no line is in service.
THEOREM LinesStayAlive == Spec => []NoDeadLine
<1>1. LineInv => NoDeadLine
  <2> SUFFICES ASSUME LineInv, ifl,
                      \A t \in Tasks : \A k \in 1..Depth(t) : frames[t][k] \in {"away", "leave"}
               PROVE  service = {}
    BY DEF NoDeadLine
  <2>1. service # {} => Some
    BY DEF LineInv, ServiceInv, OnInv
  <2>2. ~Some
    BY DEF Some, Live
  <2> QED BY <2>1, <2>2
<1> QED BY <1>1, InitLines, NextLines, PTL DEF Spec

-----------------------------------------------------------------------------
(* WaitsLongEnough: the counter, and how long a wait has lasted              *)

\* A task in Timer::wait(), or not.
Waiting == [at : {"no", "flip", "target"}, now : 0..TickWrap - 1, n : 0..TickWrap - 1, lasted : Nat]

\* A wait whose target does not overflow has lasted as long as the counter says.
InTime(w) ==
  w.at # "no" /\ w.now + w.n < TickWrap =>
    w.at = "target" /\ (w.lasted = w.n \/ (w.lasted < w.n /\ ticks = w.now + w.lasted))

\* The inductive invariant behind WaitsLongEnough.
WaitInv ==
  /\ ticks \in 0..TickWrap - 1 /\ cur \in Tasks /\ wait \in [Tasks -> Waiting]
  /\ \A t \in Tasks : InTime(wait[t])

\* The counter does not overflow below its width.
LEMMA SmallMod ==
  ASSUME NEW m \in Nat, m < TickWrap
  PROVE  m % TickWrap = m
BY InterruptsAssumption

\* The counter stays below its width.
LEMMA ModRange ==
  ASSUME NEW m \in Nat
  PROVE  m % TickWrap \in 0..TickWrap - 1
BY InterruptsAssumption

\* The smaller of two numbers.
LEMMA MinPair ==
  ASSUME NEW a \in Nat, NEW b \in Nat
  PROVE  Min({a, b}) = IF a <= b THEN a ELSE b
<1>1. \E x \in {a, b} : \A y \in {a, b} : x =< y
  OBVIOUS
<1>2. Min({a, b}) \in {a, b} /\ \A y \in {a, b} : Min({a, b}) =< y
  BY <1>1 DEF Min
<1> QED BY <1>2

\* A tick makes every wait one tick longer and ends none.
LEMMA CountedWaits ==
  ASSUME WaitInv, Counted, cur' \in Tasks
  PROVE  WaitInv' /\ \A t \in Tasks : wait[t].at # "no" => wait'[t].at # "no"
<1>1. ticks \in Nat /\ ticks < TickWrap /\ TickWrap \in Nat
  BY InterruptsAssumption DEF WaitInv
<1>2. ticks' = (ticks + 1) % TickWrap /\ ticks' \in 0..TickWrap - 1
  BY <1>1, ModRange DEF Counted
<1>3. ASSUME NEW t \in Tasks
      PROVE  /\ wait'[t] \in Waiting /\ InTime(wait[t])'
             /\ wait[t].at # "no" => wait'[t].at # "no"
  <2>1. wait[t] \in Waiting /\ InTime(wait[t])
    BY DEF WaitInv
  <2>2. wait'[t] = IF wait[t].at = "no" THEN NoWait
                   ELSE [wait[t] EXCEPT !.lasted = Min({@ + 1, wait[t].n})]
    BY DEF Counted
  <2>3. CASE wait[t].at = "no"
    <3>1. wait'[t] = NoWait
      BY <2>2, <2>3
    <3>2. NoWait \in Waiting /\ NoWait.at = "no"
      BY InterruptsAssumption DEF NoWait, Waiting
    <3> QED BY <2>3, <3>1, <3>2 DEF InTime
  <2>4. CASE wait[t].at # "no"
    <3> DEFINE l == wait[t].lasted
               n == wait[t].n
    <3>1. l \in Nat /\ n \in Nat /\ n < TickWrap /\ wait[t].now \in Nat
      BY <1>1, <2>1 DEF Waiting
    <3>2. Min({l + 1, n}) = IF l + 1 <= n THEN l + 1 ELSE n
      BY <3>1, MinPair
    <3>3. /\ wait'[t].at = wait[t].at /\ wait'[t].now = wait[t].now /\ wait'[t].n = n
          /\ wait'[t].lasted = Min({l + 1, n}) /\ wait'[t] \in Waiting
      BY <2>1, <2>2, <2>4, <3>1, <3>2 DEF Waiting
    <3>4. ASSUME wait[t].now + n < TickWrap
          PROVE  /\ wait[t].at = "target"
                 /\ \/ wait'[t].lasted = n
                    \/ wait'[t].lasted < n /\ ticks' = wait[t].now + wait'[t].lasted
      <4>1. wait[t].at = "target" /\ (l = n \/ (l < n /\ ticks = wait[t].now + l))
        BY <2>1, <2>4, <3>4 DEF InTime
      <4>2. CASE l = n
        BY <3>1, <3>2, <3>3, <4>1, <4>2
      <4>3. CASE l < n /\ ticks = wait[t].now + l
        <5>1. wait'[t].lasted = l + 1
          BY <3>1, <3>2, <3>3, <4>3
        <5>2. ticks + 1 < TickWrap /\ ticks + 1 \in Nat
          BY <1>1, <3>1, <3>4, <4>3
        <5>3. ticks' = ticks + 1
          BY <1>2, <5>2, SmallMod
        <5> QED BY <3>1, <4>1, <4>3, <5>1, <5>3
      <4> QED BY <4>1, <4>2, <4>3
    <3> HIDE DEF l, n
    <3>5. InTime(wait[t])'
      BY <3>3, <3>4 DEF InTime, n
    <3> QED BY <2>4, <3>3, <3>5
  <2> QED BY <2>3, <2>4
<1>4. wait' \in [Tasks -> Waiting]
  <2>1. wait' = [t \in Tasks |-> wait'[t]]
    BY DEF Counted
  <2> QED BY <1>3, <2>1
<1> QED BY <1>2, <1>3, <1>4 DEF WaitInv

\* A wait begins in time.
LEMMA WaitStep ==
  ASSUME WaitInv, NEW n \in Waits, Wait(n)
  PROVE  WaitInv' /\ \A t \in Tasks : wait[t].at # "no" => wait'[t].at # "no"
<1> DEFINE w == [at |-> "target", now |-> ticks, n |-> n, lasted |-> 0]
           v == IF Target(w) < ticks THEN [w EXCEPT !.at = "flip"] ELSE w
<1>1. /\ ticks \in 0..TickWrap - 1 /\ cur \in Tasks /\ wait \in [Tasks -> Waiting]
      /\ n \in 1..TickWrap - 1 /\ TickWrap \in Nat
  BY InterruptsAssumption DEF WaitInv
<1>2. UNCHANGED <<cur, ticks>> /\ wait' = [wait EXCEPT ![cur] = v] /\ wait[cur].at = "no"
  BY DEF Wait, cpu
<1>3. v \in Waiting /\ v.now = ticks /\ v.n = n /\ v.lasted = 0 /\ v.at # "no"
  BY <1>1 DEF Waiting
<1>4. ticks + n < TickWrap => v.at = "target"
  <2>1. ASSUME ticks + n < TickWrap PROVE ~(Target(w) < ticks)
    <3>1. Target(w) = (ticks + n) % TickWrap /\ ticks + n \in Nat
      BY <1>1 DEF Target
    <3>2. Target(w) = ticks + n
      BY <2>1, <3>1, SmallMod
    <3> QED BY <1>1, <3>2
  <2> QED BY <2>1
<1> HIDE DEF w, v
<1>5. \A t \in Tasks : t # cur => wait'[t] = wait[t]
  BY <1>1, <1>2
<1>6. wait'[cur] = v /\ wait' \in [Tasks -> Waiting]
  BY <1>1, <1>2, <1>3
<1>7. ASSUME NEW t \in Tasks PROVE InTime(wait[t])'
  <2>1. CASE t = cur
    BY <1>1, <1>2, <1>3, <1>4, <1>6, <2>1 DEF InTime
  <2>2. CASE t # cur
    BY <1>2, <1>5, <2>2 DEF InTime, WaitInv
  <2> QED BY <2>1, <2>2
<1> QED BY <1>1, <1>2, <1>5, <1>6, <1>7 DEF WaitInv

\* The end of a wait, with the counter where it must be.
LEMMA WaitEndsStep ==
  ASSUME WaitInv, WaitEnds
  PROVE  /\ WaitInv' /\ \A t \in Tasks : t # cur => wait'[t] = wait[t]
         /\ wait[cur].lasted >= wait[cur].n \/ wait[cur].now + wait[cur].n >= TickWrap
<1> DEFINE w == wait[cur]
<1>1. /\ ticks \in 0..TickWrap - 1 /\ cur \in Tasks /\ wait \in [Tasks -> Waiting]
      /\ w \in Waiting /\ InTime(w) /\ TickWrap \in Nat
  BY InterruptsAssumption DEF WaitInv
<1>2. /\ UNCHANGED <<cur, ticks>> /\ wait' = [wait EXCEPT ![cur] = NoWait]
      /\ w.at = "target" /\ ~(ticks < Target(w))
  BY DEF WaitEnds, cpu
<1>3. w.now \in Nat /\ w.n \in Nat /\ w.lasted \in Nat
  BY <1>1 DEF Waiting
<1>4. ASSUME ~(w.now + w.n >= TickWrap) PROVE w.lasted >= w.n
  <2>1. w.now + w.n < TickWrap /\ w.now + w.n \in Nat
    BY <1>1, <1>3, <1>4
  <2>2. Target(w) = w.now + w.n
    BY <2>1, SmallMod DEF Target
  <2>3. w.lasted = w.n \/ (w.lasted < w.n /\ ticks = w.now + w.lasted)
    BY <1>1, <1>2, <2>1 DEF InTime
  <2> QED BY <1>1, <1>2, <1>3, <2>2, <2>3
<1>5. NoWait \in Waiting /\ NoWait.at = "no"
  BY InterruptsAssumption DEF NoWait, Waiting
<1>6. \A t \in Tasks : t # cur => wait'[t] = wait[t]
  BY <1>1, <1>2
<1>7. wait'[cur] = NoWait /\ wait' \in [Tasks -> Waiting]
  BY <1>1, <1>2, <1>5
<1>8. ASSUME NEW t \in Tasks PROVE InTime(wait[t])'
  <2>1. CASE t = cur
    BY <1>2, <1>5, <1>7, <2>1 DEF InTime
  <2>2. CASE t # cur
    BY <1>2, <1>6, <2>2 DEF InTime, WaitInv
  <2> QED BY <2>1, <2>2
<1> QED BY <1>1, <1>2, <1>4, <1>6, <1>7, <1>8 DEF WaitInv

\* Only a wait whose target overflows waits for the counter to do so.
LEMMA WaitFlippedStep ==
  ASSUME WaitInv, WaitFlipped
  PROVE  WaitInv' /\ \A t \in Tasks : wait[t].at # "no" => wait'[t].at # "no"
<1> DEFINE v == [wait[cur] EXCEPT !.at = "target"]
<1>1. /\ ticks \in 0..TickWrap - 1 /\ cur \in Tasks /\ wait \in [Tasks -> Waiting]
      /\ wait[cur] \in Waiting /\ InTime(wait[cur])
  BY DEF WaitInv
<1>2. UNCHANGED <<cur, ticks>> /\ wait' = [wait EXCEPT ![cur] = v] /\ wait[cur].at = "flip"
  BY DEF WaitFlipped, cpu
<1>3. v \in Waiting /\ v.now = wait[cur].now /\ v.n = wait[cur].n /\ v.at = "target"
  BY <1>1 DEF Waiting
<1>4. ~(v.now + v.n < TickWrap)
  BY <1>1, <1>2, <1>3 DEF InTime
<1> HIDE DEF v
<1>5. \A t \in Tasks : t # cur => wait'[t] = wait[t]
  BY <1>1, <1>2
<1>6. wait'[cur] = v /\ wait' \in [Tasks -> Waiting]
  BY <1>1, <1>2, <1>3
<1>7. ASSUME NEW t \in Tasks PROVE InTime(wait[t])'
  <2>1. CASE t = cur
    BY <1>2, <1>4, <1>6, <2>1 DEF InTime
  <2>2. CASE t # cur
    BY <1>2, <1>5, <2>2 DEF InTime, WaitInv
  <2> QED BY <2>1, <2>2
<1> QED BY <1>1, <1>2, <1>3, <1>5, <1>6, <1>7 DEF WaitInv

\* Every step keeps WaitInv, and a wait that ends has lasted long enough.
LEMMA NextWaits ==
  ASSUME WaitInv, cur' \in Tasks, [Next]_vars
  PROVE  /\ WaitInv'
         /\ \A t \in Tasks : wait[t].at # "no" /\ wait'[t].at = "no" =>
              wait[t].lasted >= wait[t].n \/ wait[t].now + wait[t].n >= TickWrap
<1>1. CASE UNCHANGED <<ticks, wait>>
  BY <1>1 DEF WaitInv, InTime
<1>2. CASE Counted
  BY <1>2, CountedWaits
<1>3. ASSUME NEW n \in Waits, Wait(n)
      PROVE  WaitInv' /\ \A t \in Tasks : wait[t].at # "no" => wait'[t].at # "no"
  BY <1>3, WaitStep
<1>4. CASE WaitFlipped
  BY <1>4, WaitFlippedStep
<1>5. CASE WaitEnds
  BY <1>5, WaitEndsStep
<1>6. \/ UNCHANGED <<ticks, wait>> \/ Counted \/ (\E n \in Waits : Wait(n)) \/ WaitFlipped \/ WaitEnds
  BY DEF Next, vars, Raise, Deliver, InSlice, Stay, SwitchTo, Acknowledge, Routine, Spin, Spun,
         EndOfInterrupt, Leave, SystemCall, Exception, Halted
<1> QED BY <1>1, <1>2, <1>3, <1>4, <1>5, <1>6

\* No task waits at first.
LEMMA InitWaits == Init => WaitInv
<1> SUFFICES ASSUME Init PROVE WaitInv
  OBVIOUS
<1>1. NoWait \in Waiting /\ NoWait.at = "no"
  BY InterruptsAssumption DEF NoWait, Waiting
<1>2. ticks \in 0..TickWrap - 1 /\ cur \in Tasks /\ wait = [t \in Tasks |-> NoWait]
  BY InterruptsAssumption DEF Init
<1> QED BY <1>1, <1>2 DEF WaitInv, InTime

\* Timer::wait() returns only after the ticks it was asked to wait for, unless its target
\* overflows the counter.
THEOREM WaitsAreLongEnough == Spec => WaitsLongEnough
<1>1. Init => StubInv /\ WaitInv
  BY InitStub, InitWaits
<1>2. StubInv /\ WaitInv /\ [Next]_vars => (StubInv /\ WaitInv)'
  <2> SUFFICES ASSUME StubInv, WaitInv, [Next]_vars PROVE StubInv' /\ WaitInv'
    OBVIOUS
  <2>1. StubInv' /\ cur' \in Tasks
    BY NextStub DEF StubInv, Typed
  <2> QED BY <2>1, NextWaits
<1>3. StubInv /\ WaitInv /\ [Next]_vars =>
        [\A t \in Tasks : wait[t].at # "no" /\ wait'[t].at = "no" =>
           wait[t].lasted >= wait[t].n \/ wait[t].now + wait[t].n >= TickWrap]_vars
  <2> SUFFICES ASSUME StubInv, WaitInv, [Next]_vars
               PROVE  \A t \in Tasks : wait[t].at # "no" /\ wait'[t].at = "no" =>
                        wait[t].lasted >= wait[t].n \/ wait[t].now + wait[t].n >= TickWrap
    OBVIOUS
  <2>1. StubInv' /\ cur' \in Tasks
    BY NextStub DEF StubInv, Typed
  <2> QED BY <2>1, NextWaits
<1> QED BY <1>1, <1>2, <1>3, PTL DEF Spec, WaitsLongEnough
===============================================================================
