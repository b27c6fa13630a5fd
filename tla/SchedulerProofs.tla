--------------------------- MODULE SchedulerProofs ---------------------------
(***************************************************************************)
(* Proofs about Scheduler, for any tasks, mutexes and time slices: type    *)
(* correctness, that the scheduling lock is never left behind, and, when   *)
(* kernel_loop() locks none of Mutexes, that the run list rotates, that no *)
(* wakeup is lost and that mutexes exclude.                                *)
(***************************************************************************)
EXTENDS Scheduler, TLAPS, WellFoundedInduction, SequenceTheorems

(* A nonempty set of natural numbers has a least element. *)
LEMMA LeastNatural ==
  ASSUME NEW S \in SUBSET Nat, S # {}
  PROVE  \E i \in S : \A j \in S : i <= j
<1>1. IsWellFoundedOn(OpToRel(<, Nat), Nat)
  BY NatLessThanWellFounded
<1>2. PICK i \in S : \A j \in S : ~(<<j, i>> \in OpToRel(<, Nat))
  BY <1>1, WFMin
<1>3. \A j \in S : ~(j < i)
  BY <1>2 DEF OpToRel
<1> QED BY <1>3

-----------------------------------------------------------------------------
(* rotateFirstLast() keeps every element once; k calls bring the k-th to the end. *)
LEMMA RotateType ==
  ASSUME NEW S, NEW s \in Seq(S), NEW k \in 0..Len(s)
  PROVE  /\ Rotate(s, k) \in Seq(S)
         /\ Len(Rotate(s, k)) = Len(s)
         /\ Elems(Rotate(s, k)) = Elems(s)
<1>1. \A i \in 1..Len(s) :
         (IF i + k <= Len(s) THEN s[i + k] ELSE s[i + k - Len(s)]) \in S
  OBVIOUS
<1>2. /\ Rotate(s, k) \in Seq(S)
      /\ Len(Rotate(s, k)) = Len(s)
      /\ DOMAIN Rotate(s, k) = 1..Len(s)
  BY <1>1 DEF Rotate
<1>3. ASSUME NEW x \in Elems(Rotate(s, k)) PROVE x \in Elems(s)
  <2>1. PICK i \in 1..Len(s) : x = Rotate(s, k)[i]
    BY <1>2, <1>3 DEF Elems
  <2>2. x = IF i + k <= Len(s) THEN s[i + k] ELSE s[i + k - Len(s)]
    BY <2>1 DEF Rotate
  <2> QED BY <2>2 DEF Elems
<1>4. ASSUME NEW x \in Elems(s) PROVE x \in Elems(Rotate(s, k))
  <2>1. PICK j \in 1..Len(s) : x = s[j]
    BY <1>4 DEF Elems
  <2>2. CASE j > k
    <3>1. j - k \in 1..Len(s) /\ Rotate(s, k)[j - k] = s[j]
      BY <2>2 DEF Rotate
    <3> QED BY <3>1, <2>1, <1>2 DEF Elems
  <2>3. CASE j <= k
    <3>1. j - k + Len(s) \in 1..Len(s) /\ Rotate(s, k)[j - k + Len(s)] = s[j]
      BY <2>3 DEF Rotate
    <3> QED BY <3>1, <2>1, <1>2 DEF Elems
  <2> QED BY <2>2, <2>3
<1> QED BY <1>2, <1>3, <1>4

LEMMA RotateDistinct ==
  ASSUME NEW S, NEW s \in Seq(S), NEW k \in 1..Len(s),
         \A i, j \in DOMAIN s : s[i] = s[j] => i = j
  PROVE  /\ \A i, j \in DOMAIN Rotate(s, k) : Rotate(s, k)[i] = Rotate(s, k)[j] => i = j
         /\ Rotate(s, k)[Len(Rotate(s, k))] = s[k]
<1>1. DOMAIN Rotate(s, k) = 1..Len(s) /\ Len(Rotate(s, k)) = Len(s)
  BY RotateType DEF Rotate
<1>2. ASSUME NEW i \in 1..Len(s), NEW j \in 1..Len(s),
             Rotate(s, k)[i] = Rotate(s, k)[j]
      PROVE  i = j
  BY <1>2 DEF Rotate
<1>3. Rotate(s, k)[Len(s)] = s[k]
  BY DEF Rotate
<1> QED BY <1>1, <1>2, <1>3

(* Elements of a list after append() and of a wait queue after dequeue(). *)
LEMMA ElemsAppend ==
  ASSUME NEW S, NEW s \in Seq(S), NEW x \in S
  PROVE  /\ Append(s, x) \in Seq(S)
         /\ Append(s, x) # <<>>
         /\ Len(Append(s, x)) = Len(s) + 1
         /\ Append(s, x)[Len(s) + 1] = x
         /\ \A i \in 1..Len(s) : Append(s, x)[i] = s[i]
         /\ Elems(Append(s, x)) = Elems(s) \cup {x}
<1>1. /\ Append(s, x) \in Seq(S)
      /\ Len(Append(s, x)) = Len(s) + 1
      /\ Append(s, x)[Len(s) + 1] = x
      /\ \A i \in 1..Len(s) : Append(s, x)[i] = s[i]
  OBVIOUS
<1>2. DOMAIN s = 1..Len(s) /\ DOMAIN Append(s, x) = 1..(Len(s) + 1)
  BY <1>1
<1>3. ASSUME NEW y \in Elems(Append(s, x)) PROVE y \in Elems(s) \cup {x}
  <2>1. PICK i \in 1..(Len(s) + 1) : y = Append(s, x)[i]
    BY <1>2, <1>3 DEF Elems
  <2>2. CASE i = Len(s) + 1
    BY <2>1, <2>2, <1>1
  <2>3. CASE i \in 1..Len(s)
    BY <2>1, <2>3, <1>1, <1>2 DEF Elems
  <2> QED BY <2>2, <2>3
<1>4. ASSUME NEW y \in Elems(s) PROVE y \in Elems(Append(s, x))
  <2>1. PICK i \in 1..Len(s) : y = s[i]
    BY <1>2, <1>4 DEF Elems
  <2>2. i \in DOMAIN Append(s, x) /\ y = Append(s, x)[i]
    BY <1>1, <1>2, <2>1
  <2> QED BY <2>2 DEF Elems
<1>5. x \in Elems(Append(s, x))
  <2>1. Len(s) + 1 \in DOMAIN Append(s, x)
    BY <1>2
  <2> QED BY <1>1, <2>1 DEF Elems
<1> QED BY <1>1, <1>3, <1>4, <1>5

LEMMA AppendDistinct ==
  ASSUME NEW S, NEW s \in Seq(S), NEW x \in S, x \notin Elems(s),
         \A i, j \in DOMAIN s : s[i] = s[j] => i = j
  PROVE  \A i, j \in DOMAIN Append(s, x) : Append(s, x)[i] = Append(s, x)[j] => i = j
<1>1. DOMAIN s = 1..Len(s) /\ Len(s) \in Nat /\ \A i \in 1..Len(s) : s[i] # x
  BY DEF Elems
<1>2. /\ DOMAIN Append(s, x) = 1..(Len(s) + 1) /\ Append(s, x)[Len(s) + 1] = x
      /\ \A i \in 1..Len(s) : Append(s, x)[i] = s[i]
  BY ElemsAppend, LenProperties
<1>3. ASSUME NEW i \in 1..(Len(s) + 1), NEW j \in 1..(Len(s) + 1),
             Append(s, x)[i] = Append(s, x)[j]
      PROVE  i = j
  BY <1>1, <1>2, <1>3
<1> QED BY <1>2, <1>3

LEMMA ElemsTail ==
  ASSUME NEW S, NEW s \in Seq(S), s # <<>>,
         \A i, j \in DOMAIN s : s[i] = s[j] => i = j
  PROVE  /\ Head(s) \in S /\ Head(s) \in Elems(s)
         /\ Tail(s) \in Seq(S)
         /\ Elems(Tail(s)) = Elems(s) \ {Head(s)}
         /\ \A i, j \in DOMAIN Tail(s) : Tail(s)[i] = Tail(s)[j] => i = j
<1>1. /\ Head(s) \in S /\ Head(s) = s[1] /\ 1 \in DOMAIN s
      /\ Tail(s) \in Seq(S) /\ Len(Tail(s)) = Len(s) - 1
      /\ DOMAIN Tail(s) = 1..(Len(s) - 1)
      /\ \A i \in 1..(Len(s) - 1) : Tail(s)[i] = s[i + 1]
      /\ DOMAIN s = 1..Len(s) /\ Len(s) \in Nat \ {0}
  BY HeadTailProperties, LenProperties, EmptySeq
<1>2. Head(s) \in Elems(s)
  BY <1>1 DEF Elems
<1>3. ASSUME NEW y \in Elems(Tail(s)) PROVE y \in Elems(s) \ {Head(s)}
  <2>1. PICK i \in 1..(Len(s) - 1) : y = s[i + 1]
    BY <1>1, <1>3 DEF Elems
  <2>2. i + 1 \in DOMAIN s /\ i + 1 # 1
    BY <1>1
  <2>3. y # s[1]
    BY <1>1, <2>1, <2>2
  <2> QED BY <1>1, <2>1, <2>2, <2>3 DEF Elems
<1>4. ASSUME NEW y \in Elems(s) \ {Head(s)} PROVE y \in Elems(Tail(s))
  <2>1. PICK i \in 1..Len(s) : y = s[i]
    BY <1>1, <1>4 DEF Elems
  <2>2. i # 1
    BY <1>1, <1>4, <2>1
  <2>3. i - 1 \in 1..(Len(s) - 1) /\ (i - 1) + 1 = i
    BY <1>1, <2>2
  <2>4. Tail(s)[i - 1] = y
    BY <1>1, <2>1, <2>3
  <2> QED BY <1>1, <2>3, <2>4 DEF Elems
<1>5. ASSUME NEW i \in 1..(Len(s) - 1), NEW j \in 1..(Len(s) - 1), Tail(s)[i] = Tail(s)[j]
      PROVE  i = j
  <2>1. s[i + 1] = s[j + 1] /\ i + 1 \in DOMAIN s /\ j + 1 \in DOMAIN s
    BY <1>1, <1>5
  <2>2. i + 1 = j + 1
    BY <2>1
  <2> QED BY <2>2
<1> QED BY <1>1, <1>2, <1>3, <1>4, <1>5

(* The search of schedule() ends: at the current task at the latest, and every
   task passed over is blocked. *)
LEMMA SearchStops ==
  ASSUME tasks \in Seq(Tasks), current \in Elems(tasks)
  PROVE  /\ FirstStop \in 1..Len(tasks)
         /\ tasks[FirstStop] = current \/ status[tasks[FirstStop]] # "BLOCKED"
         /\ \A j \in 1..Len(tasks) : j < FirstStop =>
               tasks[j] # current /\ status[tasks[j]] = "BLOCKED"
<1>1. Stops \in SUBSET Nat /\ Stops # {}
  BY DEF Stops, Elems
<1>2. FirstStop \in Stops /\ \A j \in Stops : FirstStop <= j
  BY <1>1, LeastNatural DEF FirstStop
<1> QED BY <1>2 DEF Stops

-----------------------------------------------------------------------------
(* Type correctness.  Rotating is typed only because the search stops, which
   needs the current task to be in the run list. *)
(* Frames on a task's stack keep their type. *)
LEMMA MoveFrameType ==
  ASSUME TypeOK, NEW t \in Tasks, frames[t] # <<>>, NEW p \in Points, MoveFrame(t, p)
  PROVE  frames' \in [Tasks -> Seq(Frame)]
<1>1. frames[t] \in Seq(Frame) /\ 1 \in 1..Len(frames[t])
  BY DEF TypeOK
<1>2. frames[t][1] \in Frame
  BY <1>1
<1>3. [frames[t][1] EXCEPT !.at = p] \in Frame
  BY <1>2 DEF Frame
<1>4. [frames[t] EXCEPT ![1] = [frames[t][1] EXCEPT !.at = p]] \in Seq(Frame)
  BY <1>1, <1>3
<1>5. frames' = [frames EXCEPT ![t] = [frames[t] EXCEPT ![1] = [frames[t][1] EXCEPT !.at = p]]]
  BY DEF MoveFrame
<1> QED BY <1>4, <1>5 DEF TypeOK

(* schedule() as a whole. *)
LEMMA ScheduleType ==
  ASSUME TypeOK, CurrentListed, ScheduleReturns,
         pc' \in [Tasks -> Labels], mtx' = mtx
  PROVE  TypeOK' /\ CurrentListed'
<1>1. tasks # <<>> /\ current \in Elems(tasks) /\ current \in Tasks
  BY DEF ScheduleReturns, CanSearch, CurrentListed, TypeOK, Elems
<1>2. FirstStop \in 1..Len(tasks)
  BY <1>1, SearchStops DEF TypeOK
<1>3. tasks[FirstStop] \in Tasks /\ tasks[FirstStop] \in Elems(tasks)
  BY <1>2 DEF TypeOK, Elems
<1>4. CASE Stay
  <2>1. tasks' \in Seq(Tasks) /\ Len(tasks') = Len(tasks) /\ Elems(tasks') = Elems(tasks)
    BY <1>2, <1>4, RotateType DEF Stay, TypeOK
  <2>2. UNCHANGED <<boot, current, schedLock, hung, taskVars, mutexVars>>
    BY <1>4 DEF Stay
  <2>3. TypeOK'
    BY <2>1, <2>2 DEF TypeOK, taskVars, mutexVars
  <2>4. tasks' # <<>> /\ current' \in Elems(tasks')
    BY <1>1, <2>1, <2>2
  <2> QED BY <2>3, <2>4 DEF CurrentListed
<1>5. ASSUME NEW s \in 1..MaxSlice, SwitchTo(tasks[FirstStop], s)
      PROVE  TypeOK' /\ CurrentListed'
  <2>1. tasks' \in Seq(Tasks) /\ Len(tasks') = Len(tasks) /\ Elems(tasks') = Elems(tasks)
    BY <1>2, <1>5, RotateType DEF SwitchTo, TypeOK
  <2>2. status' \in [Tasks -> Statuses]
    BY <1>5 DEF SwitchTo, TypeOK, Statuses
  <2>3. frames' \in [Tasks -> Seq(Frame)]
    <3>1. [at |-> "next", next |-> tasks[FirstStop]] \in Frame
      BY <1>3 DEF Frame, Points
    <3>2. <<[at |-> "next", next |-> tasks[FirstStop]]>> \o frames[current] \in Seq(Frame)
      <4>1. <<[at |-> "next", next |-> tasks[FirstStop]]>> \in Seq(Frame)
        BY <3>1
      <4>2. frames[current] \in Seq(Frame)
        BY <1>1 DEF TypeOK
      <4> QED BY <4>1, <4>2, ConcatProperties
    <3> QED BY <3>2, <1>5 DEF SwitchTo, TypeOK
  <2>4. slice' \in [Tasks -> Nat] /\ taskValue' \in [Tasks -> {0, 1}]
    <3>1. s \in Nat
      BY ConstAssumption
    <3>2. slice' \in [Tasks -> Nat]
      BY <3>1, <1>5 DEF SwitchTo, TypeOK
    <3>3. taskValue' \in [Tasks -> {0, 1}]
      BY <1>5 DEF SwitchTo, TypeOK
    <3> QED BY <3>2, <3>3
  <2>5. /\ boot' = boot /\ schedLock' = schedLock /\ hung' = hung
        /\ taskLocker' = taskLocker /\ locker' = locker /\ value' = value /\ queue' = queue
        /\ current' = tasks[FirstStop]
    BY <1>5 DEF SwitchTo, mutexVars
  <2>6. TypeOK'
    BY <1>3, <2>1, <2>2, <2>3, <2>4, <2>5 DEF TypeOK
  <2>7. tasks' # <<>>
    BY <1>2, <2>1
  <2> QED BY <1>3, <2>1, <2>5, <2>6, <2>7 DEF CurrentListed
<1> QED BY <1>4, <1>5 DEF ScheduleReturns

LEMMA HangType ==
  ASSUME TypeOK, CurrentListed, NEW why \in HangCause, Hang(why)
  PROVE  TypeOK' /\ CurrentListed'
BY DEF Hang, TypeOK, CurrentListed, taskVars, mutexVars

LEMMA ScheduleHangsType ==
  ASSUME TypeOK, CurrentListed, ScheduleHangs
  PROVE  TypeOK' /\ CurrentListed'
<1>1. \E why \in HangCause : Hang(why)
  BY DEF ScheduleHangs, HangCause
<1> QED BY <1>1, HangType

LEMMA TypeStep ==
  ASSUME TypeOK, CurrentListed, [Next]_vars
  PROVE  TypeOK' /\ CurrentListed'
<1> USE ConstAssumption
<1> USE DEF procVars, taskVars, mutexVars
<1>1. CASE SetRunning
  BY <1>1 DEF SetRunning, TypeOK, CurrentListed
<1>2. CASE BootLock
  BY <1>2 DEF BootLock, TypeOK, CurrentListed
<1>3. CASE BootSwitch
  <2>1. tasks' \in Seq(Tasks) /\ tasks' # <<>> /\ current' = Kernel
    BY <1>3, ElemsAppend DEF BootSwitch, TypeOK
  <2>2. Kernel \in Elems(tasks')
    BY <1>3, ElemsAppend DEF BootSwitch, TypeOK
  <2> QED BY <1>3, <2>1, <2>2 DEF BootSwitch, TypeOK, CurrentListed
<1>4. CASE TickInSlice
  <2>1. CASE Hang("task lock")
    BY <2>1, HangType DEF HangCause
  <2>2. CASE ~Hang("task lock")
    <3>1. current \in Tasks /\ slice[current] \in Nat /\ slice[current] > 0
      BY <1>4 DEF TickInSlice, InSlice, TypeOK
    <3>2. slice[current] - 1 \in Nat
      BY <3>1
    <3>3. slice' = [slice EXCEPT ![current] = slice[current] - 1]
      BY <1>4, <2>2 DEF TickInSlice
    <3>4. slice' \in [Tasks -> Nat]
      BY <3>1, <3>2, <3>3 DEF TypeOK
    <3> QED BY <1>4, <2>2, <3>4 DEF TickInSlice, TypeOK, CurrentListed
  <2> QED BY <2>1, <2>2
<1>5. CASE TickSchedule
  BY <1>5, ScheduleHangsType, ScheduleType DEF TickSchedule, TypeOK
<1>6. CASE SpinForever
  BY <1>6 DEF SpinForever, vars, TypeOK, CurrentListed
<1>7. CASE AddLock
  BY <1>7 DEF AddLock, Goto, TypeOK, CurrentListed, Labels
<1>8. ASSUME NEW t \in Tasks, AddSwitch(t) PROVE TypeOK' /\ CurrentListed'
  <2>1. tasks' \in Seq(Tasks) /\ tasks' # <<>> /\ t \in Elems(tasks')
    <3>1. tasks \in Seq(Tasks) /\ tasks' = Append(tasks, t)
      BY <1>8 DEF AddSwitch, TypeOK
    <3> QED BY <3>1, ElemsAppend
  <2>2. [at |-> "sched", next |-> t] \in Frame
    BY DEF Frame, Points
  <2>3. <<[at |-> "sched", next |-> t]>> \in Seq(Frame)
    BY <2>2
  <2>4. frames' \in [Tasks -> Seq(Frame)]
    BY <1>8, <2>3 DEF AddSwitch, TypeOK
  <2> QED
    BY <1>8, <2>1, <2>4 DEF AddSwitch, Goto, TypeOK, CurrentListed, Labels
<1>9. ASSUME NEW t \in Tasks, Resume(t) PROVE TypeOK' /\ CurrentListed'
  <2>1. frames[t] # <<>> /\ Head(frames[t]) \in Frame /\ Tail(frames[t]) \in Seq(Frame)
    BY <1>9 DEF Resume, AcquireTaskLocker, SpinTaskLocker, UnlockTask, LeaveSchedule,
                Resuming, TypeOK
  <2>2. CASE AcquireTaskLocker(t)
    <3>1. frames' \in [Tasks -> Seq(Frame)]
      BY <2>1, <2>2, MoveFrameType DEF AcquireTaskLocker, Points
    <3>2. taskLocker' \in [Tasks -> {0, 1}]
      BY <2>2 DEF AcquireTaskLocker, TypeOK
    <3> QED BY <2>2, <3>1, <3>2 DEF AcquireTaskLocker, TypeOK, CurrentListed
  <2>3. CASE SpinTaskLocker(t)
    BY <2>3 DEF SpinTaskLocker, TypeOK, CurrentListed
  <2>4. CASE UnlockTask(t)
    <3>1. frames' \in [Tasks -> Seq(Frame)]
      BY <2>1, <2>4, MoveFrameType DEF UnlockTask, Points
    <3>2. taskLocker' \in [Tasks -> {0, 1}] /\ taskValue' \in [Tasks -> {0, 1}]
      BY <2>4 DEF UnlockTask, TypeOK
    <3> QED BY <2>4, <3>1, <3>2 DEF UnlockTask, TypeOK, CurrentListed
  <2>5. CASE LeaveSchedule(t)
    BY <2>1, <2>5 DEF LeaveSchedule, TypeOK, CurrentListed
  <2> QED BY <1>9, <2>2, <2>3, <2>4, <2>5 DEF Resume
<1>10. ASSUME NEW t \in Tasks, Code(t) PROVE TypeOK' /\ CurrentListed'
  <2>1. ASSUME NEW m \in Mutexes, CallLock(t, m) PROVE TypeOK' /\ CurrentListed'
    BY <2>1 DEF CallLock, Goto, TypeOK, CurrentListed, Labels
  <2>2. CASE AcquireLocker(t)
    BY <2>2 DEF AcquireLocker, Goto, TypeOK, CurrentListed, Labels
  <2>3. CASE SpinLocker(t)
    BY <2>3 DEF SpinLocker, TypeOK, CurrentListed
  <2>4. CASE TestValue(t) \/ TestQueue(t) \/ ReturnFromLock(t) \/ LeaveSection(t)
    BY <2>4 DEF TestValue, TestQueue, ReturnFromLock, LeaveSection, Goto, TypeOK,
                CurrentListed, Labels
  <2>5. CASE TakeMutex(t) \/ FreeMutex(t)
    BY <2>5 DEF TakeMutex, FreeMutex, Goto, TypeOK, CurrentListed, Labels
  <2>6. CASE Link(t)
    <3>1. Append(queue[mtx[t]], t) \in Seq(Tasks)
      BY DEF TypeOK
    <3>2. queue' \in [Mutexes -> Seq(Tasks)]
      BY <2>6, <3>1 DEF Link, TypeOK
    <3> QED BY <2>6, <3>2 DEF Link, Goto, TypeOK, CurrentListed, Labels
  <2>7. CASE Block(t)
    BY <2>7 DEF Block, Goto, TypeOK, CurrentListed, Labels, Statuses
  <2>8. CASE ReleaseLocker(t)
    BY <2>8 DEF ReleaseLocker, At, Goto, TypeOK, CurrentListed, Labels
  <2>9. CASE Reschedule(t)
    <3>1. CASE ScheduleHangs
      BY <3>1, ScheduleHangsType
    <3>2. CASE ~ScheduleHangs
      <4>1. pc' \in [Tasks -> Labels]
        BY <2>9, <3>2 DEF Reschedule, Goto, TypeOK, Labels
      <4> QED BY <2>9, <3>2, <4>1, ScheduleType DEF Reschedule
    <3> QED BY <3>1, <3>2
  <2>10. CASE HandOff(t)
    <3>1. queue' \in [Mutexes -> Seq(Tasks)]
      <4>1. Tail(queue[mtx[t]]) \in Seq(Tasks)
        BY <2>10, HeadTailProperties DEF HandOff, TypeOK
      <4> QED BY <2>10, <4>1 DEF HandOff, TypeOK
    <3>2. status' \in [Tasks -> Statuses]
      BY <2>10 DEF HandOff, TypeOK, Statuses
    <3>3. pc' \in [Tasks -> Labels]
      BY <2>10 DEF HandOff, Goto, TypeOK, Labels
    <3> QED BY <2>10, <3>1, <3>2, <3>3 DEF HandOff, TypeOK, CurrentListed
  <2> QED BY <1>10, <2>1, <2>2, <2>3, <2>4, <2>5, <2>6, <2>7, <2>8, <2>9, <2>10 DEF Code
<1>11. CASE UNCHANGED vars
  BY <1>11 DEF vars, TypeOK, CurrentListed
<1> QED
  BY <1>1, <1>2, <1>3, <1>4, <1>5, <1>6, <1>7, <1>8, <1>9, <1>10, <1>11 DEF Next, Tick

(* The scheduler's state keeps its type: in particular the search in schedule()
   always ends inside the run list and rotating never loses a task. *)
THEOREM TypeCorrect == Spec => []TypeOK
<1>1. Init => TypeOK /\ CurrentListed
  BY ConstAssumption DEF Init, TypeOK, CurrentListed, HangCause, Statuses, Labels, Frame
<1>2. TypeOK /\ CurrentListed /\ [Next]_vars => (TypeOK /\ CurrentListed)'
  BY TypeStep
<1> QED BY <1>1, <1>2, PTL DEF Spec

-----------------------------------------------------------------------------
(* Safety of the mutex when kernel_loop() takes none.                        *)

(* A step that leaves the run list, the tasks' code and the mutexes alone. *)
Quiet ==
  /\ UNCHANGED <<tasks, current, status, pc, mtx, locker, value, queue>>
  /\ boot' = "done" <=> boot = "done"

LEMMA QuietStep ==
  ASSUME IInv, TypeOK', CurrentListed', Quiet
  PROVE  IInv'
BY DEF Quiet, IInv, CurrentListed, ListInv, KernelInv, QueueInv, LockerInv, BranchInv,
       AwakeInv, MutualExclusion, NoLostWakeup, RunListRotates, Owns

(* The task that owns a mutex with waiters is not blocked itself, so the search
   in schedule() meets the current task only if it is alone. *)
LEMMA OwnerRuns ==
  ASSUME IInv, NEW t \in Tasks, status[t] = "BLOCKED"
  PROVE  \E u \in Elems(tasks) : u # Kernel /\ status[u] # "BLOCKED"
<1>1. PICK m \in Mutexes : t \in Elems(queue[m])
  BY DEF IInv, NoLostWakeup
<1>2. queue[m] # <<>>
  BY <1>1 DEF Elems
<1>3. PICK u \in Tasks : Owns(u, m)
  BY <1>2 DEF IInv, NoLostWakeup
<1>4. pc[u] # "run" /\ pc[u] # "adding"
  BY <1>3 DEF Owns, Inside, Sleeping
<1>5. u \in Elems(tasks) /\ u # Kernel
  BY <1>4 DEF IInv, ListInv, KernelInv
<1>6. status[u] # "BLOCKED"
  <2> SUFFICES ASSUME status[u] = "BLOCKED" PROVE FALSE
    OBVIOUS
  <2>1. PICK n \in Mutexes : u \in Elems(queue[n])
    BY DEF IInv, NoLostWakeup
  <2>2. mtx[u] = n /\ pc[u] \in Sleeping
    BY <2>1 DEF IInv, QueueInv
  <2> QED BY <1>3, <2>1, <2>2 DEF Owns, Inside, Sleeping
<1> QED BY <1>5, <1>6

LEMMA StayAlone ==
  ASSUME IInv, tasks # <<>>, tasks[FirstStop] = current
  PROVE  FirstStop = Len(tasks) /\ Len(tasks) = 1
<1>1. /\ tasks \in Seq(Tasks) /\ current \in Elems(tasks)
      /\ tasks[Len(tasks)] = current /\ Len(tasks) \in 1..Len(tasks)
      /\ DOMAIN tasks = 1..Len(tasks)
  BY DEF IInv, TypeOK, CurrentListed, ListInv, RunListRotates
<1>2. FirstStop \in 1..Len(tasks) /\ \A j \in 1..Len(tasks) : j < FirstStop =>
               tasks[j] # current /\ status[tasks[j]] = "BLOCKED"
  BY <1>1, SearchStops
<1>3. FirstStop = Len(tasks)
  BY <1>1, <1>2 DEF IInv, ListInv, RunListRotates
<1>4. Len(tasks) = 1
  <2> SUFFICES ASSUME Len(tasks) # 1 PROVE FALSE
    OBVIOUS
  <2>1. tasks[1] \in Tasks /\ status[tasks[1]] = "BLOCKED"
    BY <1>1, <1>2, <1>3
  <2>2. PICK u \in Elems(tasks) : u # Kernel /\ status[u] # "BLOCKED"
    BY <2>1, OwnerRuns
  <2>3. \A x \in Elems(tasks) : x = current \/ status[x] = "BLOCKED"
    BY <1>1, <1>2, <1>3 DEF Elems
  <2>4. Kernel \in Elems(tasks) /\ status[Kernel] # "BLOCKED"
    <3>1. Kernel \in Elems(tasks)
      BY DEF IInv, ListInv
    <3>2. status[Kernel] # "BLOCKED"
      BY ConstAssumption DEF IInv, NoLostWakeup, QueueInv, KernelInv, Sleeping
    <3> QED BY <3>1, <3>2
  <2> QED BY <2>2, <2>3, <2>4
<1> QED BY <1>3, <1>4

(* schedule(), called from the timer interrupt or at the end of lock(). *)
LEMMA ScheduleSafe ==
  ASSUME IInv, ScheduleReturns, TypeOK', CurrentListed', mtx' = mtx,
         \/ pc' = pc
         \/ pc[current] = "resched" /\ pc' = [pc EXCEPT ![current] = "slept"]
  PROVE  IInv'
<1>1. /\ tasks # <<>> /\ tasks \in Seq(Tasks) /\ current \in Elems(tasks)
      /\ current \in Tasks
  BY DEF ScheduleReturns, CanSearch, IInv, TypeOK, CurrentListed, Elems
<1>2. /\ FirstStop \in 1..Len(tasks)
      /\ tasks[FirstStop] = current \/ status[tasks[FirstStop]] # "BLOCKED"
  BY <1>1, SearchStops
<1>3. CASE tasks[FirstStop] = current /\ Stay
  <2>1. FirstStop = 1 /\ Len(tasks) = 1
    BY <1>1, <1>3, StayAlone
  <2>2. tasks' = tasks
    <3>1. tasks' \in Seq(Tasks) /\ Len(tasks') = Len(tasks)
      BY <1>1, <1>3, <2>1, RotateType DEF Stay
    <3>2. \A i \in 1..Len(tasks) : tasks'[i] = tasks[i]
      BY <1>1, <1>3, <2>1 DEF Stay, Rotate
    <3> QED BY <1>1, <3>1, <3>2, SeqEqual
  <2>3. Kernel = current
    <3>1. Kernel \in Elems(tasks)
      BY <1>1 DEF IInv, ListInv
    <3> QED BY <1>1, <2>1, <3>1 DEF Elems
  <2>4. pc' = pc
    BY <2>3 DEF IInv, KernelInv
  <2>5. Quiet
    BY <1>3, <2>2, <2>4 DEF Stay, Quiet, taskVars, mutexVars
  <2> QED BY <2>5, QuietStep
<1>4. ASSUME NEW s \in 1..MaxSlice, tasks[FirstStop] # current,
             SwitchTo(tasks[FirstStop], s)
      PROVE  IInv'
  <2>1. /\ tasks' = Rotate(tasks, FirstStop) /\ current' = tasks[FirstStop]
        /\ boot' = boot /\ locker' = locker /\ value' = value /\ queue' = queue
    BY <1>4 DEF SwitchTo, mutexVars
  <2>2. \A t \in Tasks : status'[t] = "BLOCKED" <=> status[t] = "BLOCKED"
    BY <1>2, <1>4 DEF SwitchTo, IInv, TypeOK
  <2>3. /\ Elems(tasks') = Elems(tasks) /\ tasks' # <<>>
        /\ \A i, j \in DOMAIN tasks' : tasks'[i] = tasks'[j] => i = j
        /\ tasks'[Len(tasks')] = current'
    <3>1. \A i, j \in DOMAIN tasks : tasks[i] = tasks[j] => i = j
      BY DEF IInv, ListInv, RunListRotates
    <3>2. Elems(tasks') = Elems(tasks) /\ Len(tasks') = Len(tasks) /\ tasks' \in Seq(Tasks)
      BY <1>1, <1>2, <2>1, RotateType
    <3>3. tasks' # <<>>
      BY <1>2, <3>2
    <3> QED BY <1>1, <1>2, <2>1, <3>1, <3>2, <3>3, RotateDistinct
  <2>4. /\ \A t \in Tasks : pc'[t] = pc[t] \/ (pc[t] = "resched" /\ pc'[t] = "slept")
    BY <1>1 DEF IInv, TypeOK
  <2>5. ListInv'
    <3>1. \A t \in Tasks \ Elems(tasks') : pc'[t] = "run"
      BY <2>3, <2>4 DEF IInv, ListInv
    <3> QED BY <1>1, <2>1, <2>3, <3>1 DEF IInv, ListInv, RunListRotates
  <2>6. KernelInv'
    BY <2>4, ConstAssumption DEF IInv, KernelInv
  <2>7. QueueInv'
    <3>1. \A m \in Mutexes : \A t \in Elems(queue[m]) : t \in Tasks
      BY DEF IInv, TypeOK, Elems
    <3> QED BY <2>1, <2>4, <3>1 DEF IInv, QueueInv, Sleeping
  <2>8. LockerInv' /\ BranchInv'
    BY <2>1, <2>4 DEF IInv, LockerInv, BranchInv, Guarded
  <2>9. AwakeInv'
    BY <1>4 DEF AwakeInv, SwitchTo, IInv, TypeOK
  <2>10. \A t \in Tasks, m \in Mutexes : Owns(t, m)' <=> Owns(t, m)
    BY <2>1, <2>4 DEF Owns, Inside, Sleeping
  <2>11. MutualExclusion'
    BY <2>10 DEF IInv, MutualExclusion
  <2>12. NoLostWakeup'
    BY <2>1, <2>2, <2>4, <2>10 DEF IInv, NoLostWakeup
  <2> QED BY <2>5, <2>6, <2>7, <2>8, <2>9, <2>11, <2>12 DEF IInv
<1> QED BY <1>3, <1>4 DEF ScheduleReturns

(* addTask(): a new task is appended and becomes the current one. *)
LEMMA AppendSafe ==
  ASSUME IInv, TypeOK', CurrentListed', NEW t \in Tasks, t \notin Elems(tasks),
         tasks' = Append(tasks, t), current' = t, boot' = "done",
         tasks = <<>> => t = Kernel,
         UNCHANGED <<status, mtx, locker, value, queue>>,
         pc' = pc \/ (pc[Kernel] = "adding" /\ pc' = [pc EXCEPT ![Kernel] = "run"])
  PROVE  IInv'
<1>1. tasks \in Seq(Tasks) /\ DOMAIN tasks = 1..Len(tasks)
  BY DEF IInv, TypeOK
<1>2. /\ tasks' \in Seq(Tasks) /\ tasks' # <<>> /\ Len(tasks') = Len(tasks) + 1
      /\ tasks'[Len(tasks) + 1] = t /\ \A i \in 1..Len(tasks) : tasks'[i] = tasks[i]
      /\ Elems(tasks') = Elems(tasks) \cup {t}
  BY <1>1, ElemsAppend
<1>3. RunListRotates'
  <2>1. \A i, j \in DOMAIN tasks : tasks[i] = tasks[j] => i = j
    BY DEF IInv, ListInv, RunListRotates
  <2>2. \A i, j \in DOMAIN tasks' : tasks'[i] = tasks'[j] => i = j
    BY <1>1, <2>1, AppendDistinct
  <2> QED BY <1>2, <2>2 DEF RunListRotates
<1>4. \A x \in Tasks : pc'[x] = pc[x] \/ (pc[x] = "adding" /\ pc'[x] = "run")
  BY DEF IInv, TypeOK
<1>5. ListInv'
  <2>1. \A x \in Tasks \ Elems(tasks') : pc'[x] = "run"
    BY <1>2, <1>4 DEF IInv, ListInv
  <2> QED BY <1>2, <1>3, <2>1 DEF IInv, ListInv
<1>6. KernelInv'
  BY <1>4, ConstAssumption DEF IInv, KernelInv
<1>7. QueueInv'
  <2>1. \A m \in Mutexes : \A x \in Elems(queue[m]) : x \in Tasks
    BY DEF IInv, TypeOK, Elems
  <2> QED BY <1>4, <2>1 DEF IInv, QueueInv, Sleeping
<1>8. LockerInv' /\ BranchInv'
  BY <1>4 DEF IInv, LockerInv, BranchInv, Guarded
<1>9. AwakeInv'
  <2>1. pc[t] = "run"
    BY DEF IInv, ListInv
  <2> QED BY <1>4, <2>1 DEF AwakeInv
<1>10. \A x \in Tasks, m \in Mutexes : Owns(x, m)' <=> Owns(x, m)
  BY <1>4 DEF Owns, Inside, Sleeping
<1>11. MutualExclusion' /\ NoLostWakeup'
  BY <1>4, <1>10 DEF IInv, MutualExclusion, NoLostWakeup
<1> QED BY <1>5, <1>6, <1>7, <1>8, <1>9, <1>11 DEF IInv

(* A task's own step changes no other task's label, nor the run list. *)
LEMMA CodeFrame ==
  ASSUME IInv, NEW t \in Tasks, NEW l \in Labels, t # Kernel,
         Goto(t, l), OnCpu(t), UNCHANGED <<boot, tasks, current>>
  PROVE  /\ ListInv' /\ KernelInv'
         /\ pc'[t] = l /\ \A u \in Tasks \ {t} : pc'[u] = pc[u]
<1>1. pc'[t] = l /\ \A u \in Tasks \ {t} : pc'[u] = pc[u]
  BY DEF Goto, IInv, TypeOK
<1>2. t \in Elems(tasks)
  BY ConstAssumption DEF OnCpu, IInv, TypeOK, CurrentListed
<1>3. ListInv'
  BY <1>1, <1>2 DEF IInv, ListInv, RunListRotates
<1>4. KernelInv'
  BY <1>1, ConstAssumption DEF IInv, KernelInv
<1> QED BY <1>1, <1>3, <1>4

(* lock() and unlock(): one step of the current task's code. *)
LEMMA CodeSafe ==
  ASSUME Kernel \in Idle, IInv, TypeOK', CurrentListed', NEW t \in Tasks, Code(t)
  PROVE  IInv'
<1> USE DEF procVars, taskVars, mutexVars
<1>a. t # Kernel /\ OnCpu(t)
  BY DEF IInv, KernelInv, Code, CallLock, AcquireLocker, SpinLocker, TestValue, TakeMutex,
         Link, Block, ReleaseLocker, Reschedule, ReturnFromLock, LeaveSection, TestQueue,
         FreeMutex, HandOff, At
<1>b. \A m \in Mutexes : \A x \in Elems(queue[m]) : x \in Tasks
  BY DEF IInv, TypeOK, Elems
<1>c. (\A u \in Tasks : mtx[u] \in Mutexes) /\ (\A m \in Mutexes : value[m] \in {0, 1})
  BY DEF IInv, TypeOK
<1>d. \A u \in Tasks : pc[u] \in Guarded => locker[mtx[u]] = 1
                     /\ \A v \in Tasks : pc[v] \in Guarded /\ mtx[v] = mtx[u] => v = u
  BY DEF IInv, LockerInv
<1>1. ASSUME NEW m \in Mutexes, CallLock(t, m) PROVE IInv'
  <2>1. /\ Goto(t, "lock") /\ pc[t] = "run" /\ mtx' = [mtx EXCEPT ![t] = m]
        /\ UNCHANGED <<boot, tasks, current, status, locker, value, queue>>
    BY <1>1 DEF CallLock, At
  <2>2. ListInv' /\ KernelInv' /\ pc'[t] = "lock" /\ \A u \in Tasks \ {t} : pc'[u] = pc[u]
    BY <1>a, <2>1, CodeFrame DEF Labels
  <2>3. \A u \in Tasks \ {t} : mtx'[u] = mtx[u]
    BY <2>1 DEF IInv, TypeOK
  <2>4. \A n \in Mutexes : t \notin Elems(queue[n])
    BY <2>1 DEF IInv, QueueInv, Sleeping
  <2>5. QueueInv'
    BY <1>b, <2>1, <2>2, <2>3, <2>4 DEF IInv, QueueInv, Sleeping
  <2>6. LockerInv' /\ BranchInv' /\ AwakeInv'
    BY <2>1, <2>2, <2>3 DEF IInv, LockerInv, BranchInv, AwakeInv, Guarded
  <2>7. \A u \in Tasks, n \in Mutexes : Owns(u, n)' <=> Owns(u, n)
    BY <2>1, <2>2, <2>3 DEF Owns, Inside, Sleeping
  <2>8. MutualExclusion' /\ NoLostWakeup'
    BY <2>1, <2>2, <2>4, <2>7 DEF IInv, MutualExclusion, NoLostWakeup
  <2> QED BY <2>2, <2>5, <2>6, <2>8 DEF IInv
<1>2. CASE AcquireLocker(t)
  <2>1. PICK l \in {"test", "wake"} :
        /\ Goto(t, l)
        /\ \/ pc[t] = "lock" /\ l = "test"
           \/ pc[t] = "unlock" /\ l = "wake"
        /\ locker[mtx[t]] = 0 /\ locker' = [locker EXCEPT ![mtx[t]] = 1]
        /\ UNCHANGED <<boot, tasks, current, status, mtx, value, queue>>
    BY <1>2 DEF AcquireLocker, At
  <2>2. ListInv' /\ KernelInv' /\ pc'[t] = l /\ \A u \in Tasks \ {t} : pc'[u] = pc[u]
    BY <1>a, <2>1, CodeFrame DEF Labels
  <2>3. QueueInv'
    BY <1>b, <2>1, <2>2 DEF IInv, QueueInv, Sleeping
  <2>4. LockerInv'
    <3>1. \A u \in Tasks : pc[u] \in Guarded => mtx[u] # mtx[t]
      BY <2>1 DEF IInv, LockerInv
    <3>2. \A m \in Mutexes : locker'[m] = IF m = mtx[t] THEN 1 ELSE locker[m]
      BY <2>1 DEF IInv, TypeOK
    <3> QED BY <1>c, <1>d, <2>1, <2>2, <3>1, <3>2 DEF LockerInv
  <2>5. BranchInv' /\ AwakeInv'
    BY <2>1, <2>2 DEF IInv, BranchInv, AwakeInv
  <2>6. \A u \in Tasks, n \in Mutexes : Owns(u, n)' <=> Owns(u, n)
    BY <2>1, <2>2 DEF Owns, Inside, Sleeping
  <2>7. MutualExclusion' /\ NoLostWakeup'
    BY <2>1, <2>2, <2>6 DEF IInv, MutualExclusion, NoLostWakeup, QueueInv, Sleeping
  <2> QED BY <2>2, <2>3, <2>4, <2>5, <2>7 DEF IInv
<1>3. CASE SpinLocker(t)
  BY <1>3, QuietStep DEF SpinLocker, Quiet
<1>4. CASE TestValue(t) \/ TestQueue(t)
  <2>1. PICK l \in {"take", "enqueue", "free", "handoff"} :
        /\ Goto(t, l)
        /\ \/ pc[t] = "test" /\ l = "take" /\ value[mtx[t]] = 0
           \/ pc[t] = "test" /\ l = "enqueue" /\ value[mtx[t]] # 0
           \/ pc[t] = "wake" /\ l = "free" /\ queue[mtx[t]] = <<>>
           \/ pc[t] = "wake" /\ l = "handoff"
        /\ UNCHANGED <<boot, tasks, current, status, mtx, locker, value, queue>>
    BY <1>4 DEF TestValue, TestQueue, At
  <2>2. ListInv' /\ KernelInv' /\ pc'[t] = l /\ \A u \in Tasks \ {t} : pc'[u] = pc[u]
    BY <1>a, <2>1, CodeFrame DEF Labels
  <2>3. QueueInv'
    BY <1>b, <2>1, <2>2 DEF IInv, QueueInv, Sleeping
  <2>4. LockerInv'
    BY <2>1, <2>2 DEF IInv, LockerInv, Guarded
  <2>5. BranchInv' /\ AwakeInv'
    BY <1>c, <2>1, <2>2 DEF IInv, BranchInv, AwakeInv
  <2>6. \A u \in Tasks, n \in Mutexes : Owns(u, n)' <=> Owns(u, n)
    BY <2>1, <2>2 DEF Owns, Inside, Sleeping
  <2>7. MutualExclusion' /\ NoLostWakeup'
    BY <2>1, <2>2, <2>6 DEF IInv, MutualExclusion, NoLostWakeup, QueueInv, Sleeping
  <2> QED BY <2>2, <2>3, <2>4, <2>5, <2>7 DEF IInv
<1>5. CASE TakeMutex(t)
  <2>1. /\ Goto(t, "took") /\ pc[t] = "take" /\ value' = [value EXCEPT ![mtx[t]] = 1]
        /\ UNCHANGED <<boot, tasks, current, status, mtx, locker, queue>>
    BY <1>5 DEF TakeMutex, At
  <2>2. ListInv' /\ KernelInv' /\ pc'[t] = "took" /\ \A u \in Tasks \ {t} : pc'[u] = pc[u]
    BY <1>a, <2>1, CodeFrame DEF Labels
  <2>3. QueueInv'
    BY <1>b, <2>1, <2>2 DEF IInv, QueueInv, Sleeping
  <2>4. LockerInv' /\ AwakeInv'
    BY <2>1, <2>2 DEF IInv, LockerInv, AwakeInv, Guarded
  <2>5. mtx[t] \in Mutexes /\ value[mtx[t]] = 0
        /\ \A m \in Mutexes : value'[m] = IF m = mtx[t] THEN 1 ELSE value[m]
    BY <2>1 DEF IInv, BranchInv, TypeOK
  <2>6. BranchInv'
    <3>1. \A u \in Tasks \ {t} : pc[u] \in Guarded => mtx[u] # mtx[t]
      BY <1>d, <2>1 DEF Guarded
    <3> QED BY <1>c, <2>1, <2>2, <2>5, <3>1 DEF IInv, BranchInv, Guarded
  <2>7. \A u \in Tasks : ~Owns(u, mtx[t])
    BY <2>5 DEF IInv, NoLostWakeup
  <2>8. \A u \in Tasks, n \in Mutexes : Owns(u, n)' <=> (Owns(u, n) \/ (u = t /\ n = mtx[t]))
    BY <2>1, <2>2 DEF Owns, Inside, Sleeping
  <2>9. MutualExclusion'
    BY <2>7, <2>8 DEF IInv, MutualExclusion
  <2>10. NoLostWakeup'
    BY <2>1, <2>2, <2>5, <2>8 DEF IInv, NoLostWakeup, QueueInv, Sleeping
  <2> QED BY <2>2, <2>3, <2>4, <2>6, <2>9, <2>10 DEF IInv
<1>6. CASE Link(t)
  <2>1. /\ Goto(t, "linked") /\ pc[t] = "enqueue" /\ mtx[t] \in Mutexes
        /\ queue' = [queue EXCEPT ![mtx[t]] = Append(queue[mtx[t]], t)]
        /\ UNCHANGED <<boot, tasks, current, status, mtx, locker, value>>
    BY <1>6 DEF Link, At, IInv, TypeOK
  <2>2. ListInv' /\ KernelInv' /\ pc'[t] = "linked" /\ \A u \in Tasks \ {t} : pc'[u] = pc[u]
    BY <1>a, <2>1, CodeFrame DEF Labels
  <2>3. \A n \in Mutexes : t \notin Elems(queue[n])
    BY <2>1 DEF IInv, QueueInv, Sleeping
  <2>4. /\ queue[mtx[t]] \in Seq(Tasks)
        /\ queue'[mtx[t]] = Append(queue[mtx[t]], t)
        /\ \A n \in Mutexes \ {mtx[t]} : queue'[n] = queue[n]
    <3>1. queue \in [Mutexes -> Seq(Tasks)]
      BY DEF IInv, TypeOK
    <3> QED BY <2>1, <3>1
  <2>5. Elems(queue'[mtx[t]]) = Elems(queue[mtx[t]]) \cup {t}
    BY <2>4, ElemsAppend
  <2>6. \A i, j \in DOMAIN queue'[mtx[t]] : queue'[mtx[t]][i] = queue'[mtx[t]][j] => i = j
    <3>1. t \notin Elems(queue[mtx[t]])
      BY <2>1, <2>3
    <3>2. \A i, j \in DOMAIN queue[mtx[t]] : queue[mtx[t]][i] = queue[mtx[t]][j] => i = j
      BY <2>1 DEF IInv, QueueInv
    <3>3. \A s \in Seq(Tasks) :
            t \notin Elems(s) /\ (\A i, j \in DOMAIN s : s[i] = s[j] => i = j)
              => \A i, j \in DOMAIN Append(s, t) : Append(s, t)[i] = Append(s, t)[j] => i = j
      BY AppendDistinct
    <3>4. \A i, j \in DOMAIN Append(queue[mtx[t]], t) :
            Append(queue[mtx[t]], t)[i] = Append(queue[mtx[t]], t)[j] => i = j
      <4> HIDE DEF Elems
      <4> QED BY <2>4, <3>1, <3>2, <3>3, Zenon
    <3> QED BY <2>4, <3>4, Zenon
  <2>7. QueueInv'
    <3>1. \A n \in Mutexes : \A x \in Elems(queue'[n]) : mtx'[x] = n /\ pc'[x] \in Sleeping
      <4>1. \A n \in Mutexes : \A x \in Elems(queue[n]) :
               x \in Tasks \ {t} /\ mtx[x] = n /\ pc[x] \in Sleeping
        BY <1>b, <2>3 DEF IInv, QueueInv
      <4>2. \A n \in Mutexes : \A x \in Elems(queue'[n]) : (x = t /\ n = mtx[t]) \/ x \in Elems(queue[n])
        BY <2>4, <2>5
      <4> SUFFICES ASSUME NEW n \in Mutexes, NEW x \in Elems(queue'[n])
                   PROVE  mtx'[x] = n /\ pc'[x] \in Sleeping
        OBVIOUS
      <4>3. CASE x = t /\ n = mtx[t]
        BY <2>1, <2>2, <4>3 DEF Sleeping
      <4>4. CASE x \in Elems(queue[n])
        <5>1. x \in Tasks \ {t} /\ mtx[x] = n /\ pc[x] \in Sleeping
          BY <4>1, <4>4
        <5> QED BY <2>1, <2>2, <5>1
      <4> QED BY <4>2, <4>3, <4>4
    <3>2. \A x \in Tasks : pc'[x] = "linked" => x \in Elems(queue'[mtx'[x]])
      <4>1. \A n \in Mutexes : Elems(queue[n]) \subseteq Elems(queue'[n])
        BY <2>4, <2>5
      <4>2. \A x \in Tasks : pc[x] = "linked" => x \in Elems(queue[mtx[x]])
        BY DEF IInv, QueueInv
      <4> QED BY <1>c, <2>1, <2>2, <2>5, <4>1, <4>2
    <3>3. \A n \in Mutexes : \A i, j \in DOMAIN queue'[n] : queue'[n][i] = queue'[n][j] => i = j
      BY <2>4, <2>6 DEF IInv, QueueInv
    <3> QED BY <3>1, <3>2, <3>3 DEF QueueInv
  <2>8. LockerInv' /\ AwakeInv'
    BY <2>1, <2>2 DEF IInv, LockerInv, AwakeInv, Guarded
  <2>9. BranchInv'
    <3>1. \A u \in Tasks \ {t} : pc[u] \in Guarded => mtx[u] # mtx[t]
      BY <1>d, <2>1 DEF Guarded
    <3> QED BY <1>c, <2>1, <2>2, <2>4, <3>1 DEF IInv, BranchInv, Guarded
  <2>10. \A u \in Tasks, n \in Mutexes : Owns(u, n)' <=> Owns(u, n)
    <3>1. \A n \in Mutexes : \A u \in Tasks \ {t} : u \in Elems(queue'[n]) <=> u \in Elems(queue[n])
      BY <2>4, <2>5
    <3> QED BY <2>1, <2>2, <2>5, <3>1 DEF Owns, Inside, Sleeping
  <2>11. MutualExclusion'
    BY <2>10 DEF IInv, MutualExclusion
  <2>12. NoLostWakeup'
    <3>1. status[t] # "BLOCKED"
      BY <2>3 DEF IInv, NoLostWakeup
    <3>2. value[mtx[t]] = 1
      BY <2>1 DEF IInv, BranchInv
    <3>3. \A n \in Mutexes : queue'[n] # <<>> => value'[n] = 1
      BY <2>1, <2>4, <3>2 DEF IInv, NoLostWakeup
    <3>4. \A u \in Tasks : status'[u] = "BLOCKED" <=>
             pc'[u] # "linked" /\ \E n \in Mutexes : u \in Elems(queue'[n])
      <4>1. \A n \in Mutexes : \A u \in Tasks \ {t} : u \in Elems(queue'[n]) <=> u \in Elems(queue[n])
        BY <2>4, <2>5
      <4> QED BY <2>1, <2>2, <3>1, <4>1 DEF IInv, NoLostWakeup
    <3> QED BY <2>1, <2>10, <3>3, <3>4 DEF IInv, NoLostWakeup
  <2> QED BY <2>2, <2>7, <2>8, <2>9, <2>11, <2>12 DEF IInv
<1>7. CASE Block(t)
  <2>1. /\ Goto(t, "enqueued") /\ pc[t] = "linked" /\ status' = [status EXCEPT ![t] = "BLOCKED"]
        /\ UNCHANGED <<boot, tasks, current, mtx, locker, value, queue>>
    BY <1>7 DEF Block, At
  <2>2. ListInv' /\ KernelInv' /\ pc'[t] = "enqueued" /\ \A u \in Tasks \ {t} : pc'[u] = pc[u]
    BY <1>a, <2>1, CodeFrame DEF Labels
  <2>3. status'[t] = "BLOCKED" /\ \A u \in Tasks \ {t} : status'[u] = status[u]
    BY <2>1 DEF IInv, TypeOK
  <2>4. mtx[t] \in Mutexes /\ t \in Elems(queue[mtx[t]])
    BY <2>1 DEF IInv, QueueInv, TypeOK
  <2>5. QueueInv'
    BY <1>b, <2>1, <2>2 DEF IInv, QueueInv, Sleeping
  <2>6. LockerInv' /\ BranchInv' /\ AwakeInv'
    BY <2>1, <2>2, <2>3 DEF IInv, LockerInv, BranchInv, AwakeInv, Guarded
  <2>7. \A u \in Tasks, n \in Mutexes : Owns(u, n)' <=> Owns(u, n)
    BY <2>1, <2>2 DEF Owns, Inside, Sleeping
  <2>8. MutualExclusion' /\ NoLostWakeup'
    BY <2>1, <2>2, <2>3, <2>4, <2>7 DEF IInv, MutualExclusion, NoLostWakeup
  <2> QED BY <2>2, <2>5, <2>6, <2>8 DEF IInv
<1>8. CASE ReleaseLocker(t)
  <2>1. PICK l \in {"cs", "resched", "run"} :
        /\ Goto(t, l) /\ pc[t] \in Guarded
        /\ \/ pc[t] = "took" /\ l = "cs"
           \/ pc[t] = "enqueued" /\ l = "resched"
           \/ pc[t] = "woke" /\ l = "run"
        /\ mtx[t] \in Mutexes /\ locker' = [locker EXCEPT ![mtx[t]] = 0]
        /\ UNCHANGED <<boot, tasks, current, status, mtx, value, queue>>
    BY <1>8 DEF ReleaseLocker, At, Guarded, IInv, TypeOK
  <2>2. ListInv' /\ KernelInv' /\ pc'[t] = l /\ \A u \in Tasks \ {t} : pc'[u] = pc[u]
    BY <1>a, <2>1, CodeFrame DEF Labels
  <2>3. QueueInv'
    BY <1>b, <2>1, <2>2 DEF IInv, QueueInv, Sleeping
  <2>4. LockerInv'
    <3>1. \A u \in Tasks \ {t} : pc[u] \in Guarded => mtx[u] # mtx[t]
      BY <2>1 DEF IInv, LockerInv
    <3>2. \A m \in Mutexes : locker'[m] = IF m = mtx[t] THEN 0 ELSE locker[m]
      BY <2>1 DEF IInv, TypeOK
    <3>3. pc'[t] \notin Guarded
      BY <2>2 DEF Guarded
    <3> QED BY <1>c, <1>d, <2>1, <2>2, <3>1, <3>2, <3>3 DEF LockerInv
  <2>5. BranchInv' /\ AwakeInv'
    BY <2>1, <2>2 DEF IInv, BranchInv, AwakeInv
  <2>6. \A u \in Tasks, n \in Mutexes : Owns(u, n)' <=> Owns(u, n)
    BY <2>1, <2>2 DEF Owns, Inside, Sleeping
  <2>7. MutualExclusion' /\ NoLostWakeup'
    BY <2>1, <2>2, <2>6 DEF IInv, MutualExclusion, NoLostWakeup, QueueInv, Sleeping
  <2> QED BY <2>2, <2>3, <2>4, <2>5, <2>7 DEF IInv
<1>9. CASE Reschedule(t)
  <2>1. CASE ScheduleHangs
    BY <2>1, QuietStep DEF ScheduleHangs, Hang, Quiet
  <2>2. CASE ~ScheduleHangs
    BY <1>9, <2>2, ScheduleSafe DEF Reschedule, At, OnCpu, Goto
  <2> QED BY <2>1, <2>2
<1>10. CASE ReturnFromLock(t) \/ LeaveSection(t)
  <2>1. PICK l \in {"cs", "unlock", "run"} :
        /\ Goto(t, l)
        /\ \/ pc[t] = "slept" /\ l = "cs"
           \/ pc[t] = "cs" /\ l = "unlock"
           \/ pc[t] = "cs" /\ l = "run" /\ value[mtx[t]] # 1
        /\ UNCHANGED <<boot, tasks, current, status, mtx, locker, value, queue>>
    BY <1>10 DEF ReturnFromLock, LeaveSection, At
  <2>2. l # "run"
    <3>1. pc[t] = "cs" => Owns(t, mtx[t])
      BY DEF Owns, Inside
    <3> QED BY <1>c, <2>1, <3>1 DEF IInv, NoLostWakeup
  <2>3. ListInv' /\ KernelInv' /\ pc'[t] = l /\ \A u \in Tasks \ {t} : pc'[u] = pc[u]
    BY <1>a, <2>1, CodeFrame DEF Labels
  <2>4. \A n \in Mutexes : t \notin Elems(queue[n])
    <3>1. pc[t] = "slept" => status[t] # "BLOCKED"
      BY <1>a DEF IInv, AwakeInv, OnCpu
    <3>2. pc[t] # "slept" => \A n \in Mutexes : t \notin Elems(queue[n])
      BY <2>1 DEF IInv, QueueInv, Sleeping
    <3> QED BY <3>1, <3>2 DEF IInv, NoLostWakeup
  <2>5. QueueInv'
    BY <1>b, <2>1, <2>3, <2>4 DEF IInv, QueueInv, Sleeping
  <2>6. LockerInv' /\ BranchInv' /\ AwakeInv'
    BY <2>1, <2>2, <2>3 DEF IInv, LockerInv, BranchInv, AwakeInv, Guarded
  <2>7. \A u \in Tasks, n \in Mutexes : Owns(u, n)' <=> Owns(u, n)
    BY <2>1, <2>2, <2>3, <2>4 DEF Owns, Inside, Sleeping
  <2>8. MutualExclusion' /\ NoLostWakeup'
    BY <2>1, <2>3, <2>4, <2>7 DEF IInv, MutualExclusion, NoLostWakeup
  <2> QED BY <2>3, <2>5, <2>6, <2>8 DEF IInv
<1>11. CASE FreeMutex(t)
  <2>1. /\ Goto(t, "woke") /\ pc[t] = "free" /\ value' = [value EXCEPT ![mtx[t]] = 0]
        /\ UNCHANGED <<boot, tasks, current, status, mtx, locker, queue>>
    BY <1>11 DEF FreeMutex, At
  <2>2. ListInv' /\ KernelInv' /\ pc'[t] = "woke" /\ \A u \in Tasks \ {t} : pc'[u] = pc[u]
    BY <1>a, <2>1, CodeFrame DEF Labels
  <2>3. QueueInv'
    BY <1>b, <2>1, <2>2 DEF IInv, QueueInv, Sleeping
  <2>4. LockerInv' /\ AwakeInv'
    BY <2>1, <2>2 DEF IInv, LockerInv, AwakeInv, Guarded
  <2>5. \A m \in Mutexes : value'[m] = IF m = mtx[t] THEN 0 ELSE value[m]
    BY <2>1 DEF IInv, TypeOK
  <2>6. BranchInv'
    <3>1. \A u \in Tasks \ {t} : pc[u] \in Guarded => mtx[u] # mtx[t]
      BY <1>d, <2>1 DEF Guarded
    <3> QED BY <1>c, <2>1, <2>2, <2>5, <3>1 DEF IInv, BranchInv, Guarded
  <2>7. Owns(t, mtx[t]) /\ queue[mtx[t]] = <<>>
    BY <2>1 DEF Owns, Inside, IInv, BranchInv
  <2>8. \A u \in Tasks, n \in Mutexes : Owns(u, n)' <=> (Owns(u, n) /\ u # t)
    BY <2>1, <2>2 DEF Owns, Inside, Sleeping
  <2>9. MutualExclusion'
    BY <2>8 DEF IInv, MutualExclusion
  <2>10. \A n \in Mutexes : value'[n] = 1 <=> \E u \in Tasks : Owns(u, n)'
    <3>1. \A n \in Mutexes : Owns(t, n) => n = mtx[t]
      BY DEF Owns
    <3>2. \A u \in Tasks : Owns(u, mtx[t]) => u = t
      BY <1>c, <2>7 DEF IInv, MutualExclusion
    <3> QED BY <1>c, <2>5, <2>8, <3>1, <3>2 DEF IInv, NoLostWakeup
  <2>11. NoLostWakeup'
    BY <2>1, <2>2, <2>5, <2>7, <2>10 DEF IInv, NoLostWakeup, QueueInv, Sleeping
  <2> QED BY <2>2, <2>3, <2>4, <2>6, <2>9, <2>11 DEF IInv
<1>12. CASE HandOff(t)
  <2> DEFINE h == Head(queue[mtx[t]])
  <2>1. /\ Goto(t, "woke") /\ pc[t] = "handoff" /\ mtx[t] \in Mutexes
        /\ queue[mtx[t]] # <<>> /\ queue[mtx[t]] \in Seq(Tasks)
        /\ queue' = [queue EXCEPT ![mtx[t]] = Tail(queue[mtx[t]])]
        /\ status' = [status EXCEPT ![h] = "WAITING"]
        /\ UNCHANGED <<boot, tasks, current, mtx, locker, value>>
    BY <1>12 DEF HandOff, At, IInv, TypeOK
  <2>2. ListInv' /\ KernelInv' /\ pc'[t] = "woke" /\ \A u \in Tasks \ {t} : pc'[u] = pc[u]
    BY <1>a, <2>1, CodeFrame DEF Labels
  <2>3. \A i, j \in DOMAIN queue[mtx[t]] : queue[mtx[t]][i] = queue[mtx[t]][j] => i = j
    BY <2>1 DEF IInv, QueueInv
  <2>4. /\ h \in Tasks /\ h \in Elems(queue[mtx[t]])
        /\ Elems(Tail(queue[mtx[t]])) = Elems(queue[mtx[t]]) \ {h}
        /\ \A i, j \in DOMAIN Tail(queue[mtx[t]]) :
              Tail(queue[mtx[t]])[i] = Tail(queue[mtx[t]])[j] => i = j
    BY <2>1, <2>3, ElemsTail
  <2>5. queue'[mtx[t]] = Tail(queue[mtx[t]]) /\ \A n \in Mutexes \ {mtx[t]} : queue'[n] = queue[n]
    <3>1. queue \in [Mutexes -> Seq(Tasks)]
      BY DEF IInv, TypeOK
    <3> QED BY <2>1, <3>1
  <2>6. mtx[h] = mtx[t] /\ pc[h] \in Sleeping /\ h # t
    BY <2>1, <2>4 DEF IInv, QueueInv, Sleeping
  <2>7. \A n \in Mutexes : \A u \in Tasks : u \in Elems(queue'[n]) <=> (u # h /\ u \in Elems(queue[n]))
    BY <2>4, <2>5, <2>6 DEF IInv, QueueInv
  <2>8. \A n \in Mutexes : \A x \in Elems(queue'[n]) : x \in Tasks /\ x # t
    <3>1. \A n \in Mutexes : \A x \in Elems(queue'[n]) : x \in Elems(queue[n])
      BY <2>4, <2>5
    <3> QED BY <1>b, <2>1, <3>1 DEF IInv, QueueInv, Sleeping
  <2>9. pc[h] # "linked"
    <3>1. pc[t] \in Guarded /\ (pc[h] = "linked" => pc[h] \in Guarded)
      BY <2>1 DEF Guarded
    <3> QED BY <1>d, <2>4, <2>6, <3>1
  <2>10. QueueInv'
    <3>1. \A n \in Mutexes : \A x \in Elems(queue'[n]) : mtx'[x] = n /\ pc'[x] \in Sleeping
      BY <2>1, <2>2, <2>7, <2>8 DEF IInv, QueueInv
    <3>2. \A x \in Tasks : pc'[x] = "linked" => x \in Elems(queue'[mtx'[x]])
      BY <1>c, <2>1, <2>2, <2>7, <2>9 DEF IInv, QueueInv
    <3>3. \A n \in Mutexes : \A i, j \in DOMAIN queue'[n] : queue'[n][i] = queue'[n][j] => i = j
      BY <2>4, <2>5 DEF IInv, QueueInv
    <3> QED BY <3>1, <3>2, <3>3 DEF QueueInv
  <2>11. LockerInv'
    BY <2>1, <2>2 DEF IInv, LockerInv, Guarded
  <2>12. status'[h] = "WAITING" /\ \A u \in Tasks \ {h} : status'[u] = status[u]
    BY <2>1, <2>4 DEF IInv, TypeOK
  <2>13. AwakeInv'
    BY <1>a, <2>1, <2>2, <2>12 DEF AwakeInv, IInv, OnCpu
  <2>14. BranchInv'
    <3>1. \A u \in Tasks \ {t} : pc[u] \in Guarded => mtx[u] # mtx[t]
      BY <1>d, <2>1 DEF Guarded
    <3> QED BY <1>c, <2>1, <2>2, <2>5, <3>1 DEF IInv, BranchInv, Guarded
  <2>15. \A u \in Tasks, n \in Mutexes :
            Owns(u, n)' <=> (Owns(u, n) /\ u # t) \/ (u = h /\ n = mtx[t])
    BY <2>1, <2>2, <2>6, <2>7 DEF Owns, Inside, Sleeping
  <2>16. Owns(t, mtx[t]) /\ \A u \in Tasks : Owns(u, mtx[t]) => u = t
    <3>1. Owns(t, mtx[t])
      BY <2>1 DEF Owns, Inside
    <3> QED BY <1>c, <3>1 DEF IInv, MutualExclusion
  <2>17. \A n \in Mutexes : Owns(t, n) => n = mtx[t]
    BY DEF Owns
  <2>18. MutualExclusion'
    <3> SUFFICES ASSUME NEW n \in Mutexes, NEW u \in Tasks, NEW v \in Tasks,
                        Owns(u, n)', Owns(v, n)'
                 PROVE  u = v
      BY DEF MutualExclusion
    <3> QED BY <2>15, <2>16 DEF IInv, MutualExclusion
  <2>19. \A n \in Mutexes : value'[n] = 1 <=> \E u \in Tasks : Owns(u, n)'
    <3>1. value[mtx[t]] = 1
      BY <2>1, <2>16 DEF IInv, NoLostWakeup
    <3> QED BY <2>1, <2>4, <2>15, <2>17, <3>1 DEF IInv, NoLostWakeup
  <2>20. \A u \in Tasks : status'[u] = "BLOCKED" <=>
            pc'[u] # "linked" /\ \E n \in Mutexes : u \in Elems(queue'[n])
    <3>1. \A n \in Mutexes : t \notin Elems(queue'[n]) /\ t \notin Elems(queue[n])
      BY <2>1, <2>8 DEF IInv, QueueInv, Sleeping
    <3> QED BY <2>2, <2>7, <2>12, <3>1 DEF IInv, NoLostWakeup
  <2>21. \A n \in Mutexes : queue'[n] # <<>> => value'[n] = 1
    BY <2>1, <2>5 DEF IInv, NoLostWakeup
  <2>22. NoLostWakeup'
    BY <2>19, <2>20, <2>21 DEF NoLostWakeup
  <2> QED BY <2>2, <2>10, <2>11, <2>13, <2>14, <2>18, <2>22 DEF IInv
<1> QED
  BY <1>1, <1>2, <1>3, <1>4, <1>5, <1>6, <1>7, <1>8, <1>9, <1>10, <1>11, <1>12 DEF Code

LEMMA SafeStep ==
  ASSUME Kernel \in Idle, IInv, [Next]_vars
  PROVE  IInv'
<1> USE DEF procVars, taskVars, mutexVars
<1>1. TypeOK' /\ CurrentListed'
  BY TypeStep DEF IInv
<1>2. CASE SetRunning \/ BootLock \/ SpinForever \/ TickInSlice \/ UNCHANGED vars
  <2>1. Quiet
    BY <1>2 DEF SetRunning, BootLock, SpinForever, TickInSlice, Hang, vars, Quiet
  <2> QED BY <1>1, <2>1, QuietStep
<1>3. CASE BootSwitch
  <2>1. tasks = <<>>
    BY <1>3 DEF BootSwitch, IInv, ListInv
  <2>2. Kernel \notin Elems(tasks)
    BY <2>1 DEF Elems
  <2> QED BY <1>1, <1>3, <2>1, <2>2, AppendSafe, ConstAssumption DEF BootSwitch
<1>4. CASE TickSchedule
  <2>1. CASE ScheduleHangs
    BY <1>1, <2>1, QuietStep DEF ScheduleHangs, Hang, Quiet
  <2>2. CASE ~ScheduleHangs
    BY <1>1, <1>4, <2>2, ScheduleSafe DEF TickSchedule
  <2> QED BY <2>1, <2>2
<1>5. CASE AddLock
  <2>1. /\ \A u \in Tasks : pc'[u] = pc[u] \/ (pc[u] = "run" /\ pc'[u] = "adding")
        /\ pc'[Kernel] = "adding" /\ \A u \in Tasks \ {Kernel} : pc'[u] = pc[u]
        /\ Kernel \in Elems(tasks)
        /\ UNCHANGED <<boot, tasks, current, status, mtx, locker, value, queue>>
    BY <1>5, ConstAssumption DEF AddLock, At, OnCpu, Goto, IInv, TypeOK, CurrentListed
  <2>2. \A m \in Mutexes : \A x \in Elems(queue[m]) : x \in Tasks
    BY DEF IInv, TypeOK, Elems
  <2>3. ListInv' /\ KernelInv'
    BY <2>1 DEF IInv, ListInv, KernelInv, RunListRotates
  <2>4. QueueInv' /\ LockerInv' /\ BranchInv' /\ AwakeInv'
    BY <2>1, <2>2 DEF IInv, QueueInv, LockerInv, BranchInv, AwakeInv, Sleeping, Guarded
  <2>5. \A x \in Tasks, m \in Mutexes : Owns(x, m)' <=> Owns(x, m)
    BY <2>1 DEF Owns, Inside, Sleeping
  <2>6. MutualExclusion' /\ NoLostWakeup'
    BY <2>1, <2>5 DEF IInv, MutualExclusion, NoLostWakeup
  <2> QED BY <1>1, <2>3, <2>4, <2>6 DEF IInv
<1>6. ASSUME NEW t \in Tasks, AddSwitch(t) PROVE IInv'
  <2>1. tasks # <<>> /\ boot = "done"
    BY <1>6, ConstAssumption DEF AddSwitch, At, OnCpu, IInv, CurrentListed, ListInv
  <2> QED BY <1>1, <1>6, <2>1, AppendSafe DEF AddSwitch, At, Goto
<1>7. ASSUME NEW t \in Tasks, Resume(t) PROVE IInv'
  <2>1. Quiet
    BY <1>7 DEF Resume, AcquireTaskLocker, SpinTaskLocker, UnlockTask, LeaveSchedule, Quiet
  <2> QED BY <1>1, <2>1, QuietStep
<1>8. ASSUME NEW t \in Tasks, Code(t) PROVE IInv'
  BY <1>1, <1>8, CodeSafe
<1> QED BY <1>2, <1>3, <1>4, <1>5, <1>6, <1>7, <1>8 DEF Next, Tick

LEMMA InitSafe == Init => IInv
<1> SUFFICES ASSUME Init PROVE IInv
  OBVIOUS
<1>1. TypeOK /\ CurrentListed
  BY ConstAssumption DEF Init, TypeOK, CurrentListed, HangCause, Statuses, Labels, Frame
<1>2. \A m \in Mutexes : Elems(queue[m]) = {}
  BY DEF Init, Elems
<1>3. ListInv /\ KernelInv
  BY ConstAssumption DEF Init, ListInv, KernelInv, RunListRotates
<1>4. QueueInv /\ LockerInv /\ BranchInv /\ AwakeInv
  BY <1>2 DEF Init, QueueInv, LockerInv, BranchInv, AwakeInv, Guarded
<1>5. \A t \in Tasks, m \in Mutexes : ~Owns(t, m)
  BY DEF Init, Owns, Inside, Sleeping
<1>6. MutualExclusion /\ NoLostWakeup
  BY <1>2, <1>5 DEF Init, MutualExclusion, NoLostWakeup
<1> QED BY <1>1, <1>3, <1>4, <1>6 DEF IInv

(* Mutual exclusion of BaseMutex under preemption: if kernel_loop() locks none of
   Mutexes, lock() never lets two tasks own the same mutex. *)
THEOREM MutexExcludes == ASSUME Kernel \in Idle PROVE Spec => []MutualExclusion
<1>1. IInv /\ [Next]_vars => IInv'
  BY SafeStep
<1>2. IInv => MutualExclusion
  BY DEF IInv
<1> QED BY <1>1, <1>2, InitSafe, PTL DEF Spec

(* Under the same condition no task sleeps forever unnoticed: a blocked task is
   queued on a mutex that some other task owns. *)
THEOREM WakeupsKept == ASSUME Kernel \in Idle PROVE Spec => []NoLostWakeup
<1>1. IInv /\ [Next]_vars => IInv'
  BY SafeStep
<1>2. IInv => NoLostWakeup
  BY DEF IInv
<1> QED BY <1>1, <1>2, InitSafe, PTL DEF Spec

(* And the run list stays a rotation with the current task at its end. *)
THEOREM ListRotates == ASSUME Kernel \in Idle PROVE Spec => []RunListRotates
<1>1. IInv /\ [Next]_vars => IInv'
  BY SafeStep
<1>2. IInv => RunListRotates
  BY DEF IInv, ListInv
<1> QED BY <1>1, <1>2, InitSafe, PTL DEF Spec

-----------------------------------------------------------------------------
(* The scheduling lock, whatever kernel_loop() does.  The discipline is not   *)
(* inductive: it needs that schedule() leaves no task locked behind it, and   *)
(* that addTask() at start-up holds the lock until there is a task to run.    *)

NoTaskLocked == \A t \in Tasks : taskValue[t] = 0

StartInv ==
  /\ tasks = <<>> <=> boot # "done"
  /\ boot = "locked" => schedLock = 1

LockInv == CurrentListed /\ NoTaskLocked /\ StartInv /\ SchedulingLockDiscipline

(* A step that leaves the locks, the run list and addTask() alone. *)
LEMMA LockKept ==
  ASSUME LockInv, TypeOK', CurrentListed',
         UNCHANGED <<boot, tasks, schedLock, hung, taskValue>>,
         pc[Kernel] = "adding" => pc'[Kernel] = "adding"
  PROVE  LockInv'
BY DEF LockInv, NoTaskLocked, StartInv, SchedulingLockDiscipline

(* schedule() spins only on a lock that the interrupted code holds; the task it
   found is never locked by value, and without any task it is start-up. *)
LEMMA HangsRight ==
  ASSUME LockInv, TypeOK', CurrentListed', boot # "off", ScheduleHangs
  PROVE  LockInv'
<1> USE DEF taskVars
<1>1. UNCHANGED <<boot, tasks, current, schedLock, taskValue, pc>>
  BY DEF ScheduleHangs, Hang
<1>2. CASE schedLock = 1 /\ Hang("scheduling lock")
  BY <1>1, <1>2 DEF Hang, LockInv, NoTaskLocked, StartInv, SchedulingLockDiscipline
<1>3. CASE schedLock = 0 /\ tasks = <<>> /\ Hang("null task")
  <2>1. boot = "running"
    <3>1. boot \in {"off", "running", "locked", "done"}
      BY DEF LockInv, SchedulingLockDiscipline, TypeOK
    <3>2. boot # "done"
      BY <1>3 DEF LockInv, StartInv
    <3>3. boot # "locked"
      <4>1. schedLock = 0
        BY <1>3
      <4> QED BY <4>1 DEF LockInv, StartInv
    <3> QED BY <3>1, <3>2, <3>3
  <2> QED BY <1>1, <1>3, <2>1 DEF Hang, LockInv, NoTaskLocked, StartInv, SchedulingLockDiscipline
<1>4. CASE Hang("task lock")
  BY <1>1, <1>4 DEF Hang, LockInv, NoTaskLocked, StartInv, SchedulingLockDiscipline
<1>5. CASE CanSearch /\ Hang(IF taskValue[tasks[FirstStop]] = 1 THEN "next already locked"
                                                              ELSE "task lock")
  <2>1. tasks \in Seq(Tasks) /\ current \in Elems(tasks)
    BY <1>5 DEF CanSearch, LockInv, CurrentListed, SchedulingLockDiscipline, TypeOK
  <2>2. tasks[FirstStop] \in Tasks
    BY <2>1, SearchStops
  <2>3. Hang("task lock")
    <3>1. taskValue[tasks[FirstStop]] # 1
      BY <2>2 DEF LockInv, NoTaskLocked
    <3> QED BY <1>5, <3>1
  <2> QED BY <1>4, <2>3
<1> QED BY <1>2, <1>3, <1>4, <1>5 DEF ScheduleHangs

(* schedule() comes back with the scheduling lock free and both tasks unlocked. *)
LEMMA ReturnsRight ==
  ASSUME LockInv, TypeOK', CurrentListed', ScheduleReturns,
         pc[Kernel] = "adding" => pc'[Kernel] = "adding"
  PROVE  LockInv'
<1> USE DEF taskVars
<1>0. tasks \in Seq(Tasks) /\ current \in Elems(tasks) /\ tasks # <<>>
  BY DEF ScheduleReturns, CanSearch, LockInv, CurrentListed, SchedulingLockDiscipline, TypeOK
<1>1. tasks # <<>> /\ current \in Tasks
  BY <1>0 DEF Elems
<1>2. tasks[FirstStop] \in Tasks
  BY <1>0, SearchStops
<1>3. UNCHANGED <<boot, schedLock, hung>>
  BY DEF ScheduleReturns, Stay, SwitchTo
<1>4. current' \in Tasks
  BY <1>1, <1>2 DEF ScheduleReturns, Stay, SwitchTo
<1>5. tasks' # <<>>
  BY <1>4, ConstAssumption DEF CurrentListed
<1>6. NoTaskLocked'
  BY DEF ScheduleReturns, Stay, SwitchTo, LockInv, NoTaskLocked
<1> QED BY <1>1, <1>3, <1>5, <1>6 DEF LockInv, StartInv, SchedulingLockDiscipline

LEMMA LockStep ==
  ASSUME LockInv, [Next]_vars
  PROVE  LockInv'
<1> USE ConstAssumption
<1> USE DEF procVars, taskVars
<1>1. TypeOK' /\ CurrentListed'
  BY TypeStep DEF LockInv, SchedulingLockDiscipline
<1>2. CASE SetRunning
  BY <1>1, <1>2 DEF SetRunning, LockInv, NoTaskLocked, StartInv, SchedulingLockDiscipline
<1>3. CASE BootLock
  BY <1>1, <1>3 DEF BootLock, LockInv, NoTaskLocked, StartInv, SchedulingLockDiscipline
<1>4. CASE BootSwitch
  <2>1. tasks' # <<>>
    BY <1>1, <1>4 DEF BootSwitch, CurrentListed
  <2> QED BY <1>1, <1>4, <2>1 DEF BootSwitch, LockInv, NoTaskLocked, StartInv, SchedulingLockDiscipline
<1>5. CASE TickInSlice
  <2>1. CASE Hang("task lock")
    BY <1>1, <2>1 DEF Hang, LockInv, NoTaskLocked, StartInv, SchedulingLockDiscipline
  <2>2. CASE ~Hang("task lock")
    BY <1>1, <1>5, <2>2, LockKept DEF TickInSlice
  <2> QED BY <2>1, <2>2
<1>6. CASE TickSchedule
  BY <1>1, <1>6, HangsRight, ReturnsRight DEF TickSchedule
<1>7. CASE SpinForever \/ UNCHANGED vars
  BY <1>1, <1>7, LockKept DEF SpinForever, vars
<1>8. CASE AddLock
  <2>1. tasks # <<>>
    BY <1>8 DEF AddLock, At, OnCpu, LockInv, CurrentListed
  <2>2. pc'[Kernel] = "adding"
    BY <1>8 DEF AddLock, Goto, LockInv, SchedulingLockDiscipline, TypeOK
  <2> QED BY <1>1, <1>8, <2>1, <2>2 DEF AddLock, At, OnCpu, LockInv, NoTaskLocked, StartInv,
                                       SchedulingLockDiscipline
<1>9. ASSUME NEW t \in Tasks, AddSwitch(t) PROVE LockInv'
  <2>1. tasks # <<>> /\ tasks' # <<>>
    BY <1>1, <1>9 DEF AddSwitch, At, OnCpu, LockInv, CurrentListed
  <2>2. NoTaskLocked'
    BY <1>9 DEF AddSwitch, LockInv, NoTaskLocked, SchedulingLockDiscipline, TypeOK
  <2> QED BY <1>1, <1>9, <2>1, <2>2 DEF AddSwitch, At, OnCpu, LockInv, StartInv, SchedulingLockDiscipline
<1>10. ASSUME NEW t \in Tasks, Resume(t) PROVE LockInv'
  <2>1. CASE AcquireTaskLocker(t) \/ SpinTaskLocker(t)
    BY <1>1, <2>1, LockKept DEF AcquireTaskLocker, SpinTaskLocker
  <2>2. CASE UnlockTask(t)
    <3>1. NoTaskLocked'
      BY <2>2 DEF UnlockTask, LockInv, NoTaskLocked, SchedulingLockDiscipline, TypeOK
    <3> QED BY <1>1, <2>2, <3>1 DEF UnlockTask, LockInv, StartInv, SchedulingLockDiscipline
  <2>3. CASE LeaveSchedule(t)
    <3>1. tasks # <<>> /\ hung = "no" /\ boot = "done"
      BY <2>3 DEF LeaveSchedule, Resuming, OnCpu, LockInv, CurrentListed, StartInv
    <3> QED BY <1>1, <2>3, <3>1 DEF LeaveSchedule, LockInv, NoTaskLocked, StartInv,
                                   SchedulingLockDiscipline
  <2> QED BY <1>10, <2>1, <2>2, <2>3 DEF Resume
<1>11. ASSUME NEW t \in Tasks, Code(t) PROVE LockInv'
  <2>1. boot = "done" /\ pc[t] # "adding"
    <3>1. hung = "no" /\ current = t /\ pc[t] # "adding"
      BY <1>11 DEF Code, CallLock, AcquireLocker, SpinLocker, TestValue, TakeMutex, Link,
           Block, ReleaseLocker, Reschedule, ReturnFromLock, LeaveSection, TestQueue,
           FreeMutex, HandOff, At, OnCpu
    <3> QED BY <3>1 DEF LockInv, CurrentListed, StartInv
  <2>2. CASE Reschedule(t)
    <3>1. CASE ScheduleHangs
      BY <1>1, <2>1, <3>1, HangsRight
    <3>2. CASE ScheduleReturns /\ Goto(t, "slept")
      <4>1. pc[Kernel] = "adding" => pc'[Kernel] = "adding"
        BY <2>1, <3>2 DEF Goto, LockInv, SchedulingLockDiscipline, TypeOK
      <4> QED BY <1>1, <3>2, <4>1, ReturnsRight
    <3> QED BY <2>2, <3>1, <3>2 DEF Reschedule
  <2>3. CASE ~Reschedule(t)
    <3>1. UNCHANGED <<boot, tasks, schedLock, hung, taskValue>>
      BY <1>11, <2>3 DEF Code, CallLock, AcquireLocker, SpinLocker, TestValue, TakeMutex, Link,
           Block, ReleaseLocker, ReturnFromLock, LeaveSection, TestQueue, FreeMutex, HandOff
    <3>2. pc' = pc \/ \E l : Goto(t, l)
      BY <1>11, <2>3 DEF Code, CallLock, AcquireLocker, SpinLocker, TestValue, TakeMutex, Link,
           Block, ReleaseLocker, ReturnFromLock, LeaveSection, TestQueue, FreeMutex, HandOff
    <3>3. pc[Kernel] = "adding" => pc'[Kernel] = "adding"
      BY <2>1, <3>2 DEF Goto, LockInv, SchedulingLockDiscipline, TypeOK
    <3> QED BY <1>1, <3>1, <3>3, LockKept
  <2> QED BY <2>2, <2>3
<1> QED
  BY <1>2, <1>3, <1>4, <1>5, <1>6, <1>7, <1>8, <1>9, <1>10, <1>11 DEF Next, Tick

(* Whatever the tasks do, kernel_loop() included, the timer finds the scheduling
   lock taken only inside addTask(), schedule() never meets a next task that is
   locked, and it is called without a task only before the first addTask(). *)
THEOREM LockDiscipline == Spec => []SchedulingLockDiscipline
<1>1. Init => LockInv
  BY ConstAssumption DEF Init, LockInv, CurrentListed, NoTaskLocked, StartInv,
     SchedulingLockDiscipline, TypeOK, HangCause, Statuses, Labels, Frame
<1>2. LockInv /\ [Next]_vars => LockInv'
  BY LockStep
<1>3. LockInv => SchedulingLockDiscipline
  BY DEF LockInv
<1> QED BY <1>1, <1>2, <1>3, PTL DEF Spec
=============================================================================
