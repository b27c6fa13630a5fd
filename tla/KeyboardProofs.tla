---------------------------- MODULE KeyboardProofs ----------------------------
(***************************************************************************)
(* Proofs about module Keyboard, for every set of tasks, every power of    *)
(* two as the size of the ring and any number of keys typed.               *)
(*                                                                         *)
(* KeysSound is not inductive.  KeyInv adds to it                          *)
(*   - that the holder of the lock exists (LockInv), so that the lock is   *)
(*     freed by its holder only;                                           *)
(*   - that keys have numbers of their own, in the ring and in the frames  *)
(*     of the handlers that wait (NumberInv);                              *)
(*   - the ring seen as a window on the history of the keys stored, with   *)
(*     everything taken before the window (RingInv);                       *)
(*   - that a reader about to move the index has the first key of the      *)
(*     ring (GotInv).                                                      *)
(***************************************************************************)
EXTENDS Keyboard, TLAPS, SequenceTheorems

-----------------------------------------------------------------------------
(* Modifiers                                                                 *)

\* Modifiers and keys held down.
ModInv == mods \subseteq Modifiers /\ down \subseteq Codes /\ NoStuckModifier

\* A key that has a character is no modifier's.
LEMMA PressedKeeps ==
  ASSUME NEW m \in SUBSET Modifiers, NEW code \in 0..127
  PROVE  /\ Pressed(m, code) \subseteq Modifiers
         /\ ("SHIFT" \in Pressed(m, code) => "SHIFT" \in m \/ code \in {KEY_LSHIFT, KEY_RSHIFT})
         /\ Mapped(code) => code \notin {KEY_LSHIFT, KEY_RSHIFT}
<1>1. Pressed(m, code) \subseteq Modifiers
  BY DEF Pressed, Modifiers
<1>2. "SHIFT" \in Pressed(m, code) => "SHIFT" \in m \/ code \in {KEY_LSHIFT, KEY_RSHIFT}
  BY DEF Pressed
<1>3. Mapped(code) => code \notin {KEY_LSHIFT, KEY_RSHIFT}
  BY DEF Mapped, KEY_LSHIFT, KEY_RSHIFT
<1> QED BY <1>1, <1>2, <1>3

\* A release turns SHIFT off when it is one of its keys.
LEMMA ReleasedKeeps ==
  ASSUME NEW m \in SUBSET Modifiers, NEW code
  PROVE  /\ Released(m, code) \subseteq m
         /\ ("SHIFT" \in Released(m, code) => code \notin {KEY_LSHIFT, KEY_RSHIFT})
<1>1. Released(m, code) \subseteq m
  BY DEF Released
<1>2. ASSUME code \in {KEY_LSHIFT, KEY_RSHIFT} PROVE "SHIFT" \notin Released(m, code)
  <2>1. code \in {42, 54} /\ code # 29 /\ code # 56
    BY <1>2 DEF KEY_LSHIFT, KEY_RSHIFT
  <2> QED BY <2>1 DEF Released, KEY_LSHIFT, KEY_RSHIFT, KEY_CTRL, KEY_ALT
<1> QED BY <1>1, <1>2

\* Every step keeps SHIFT off, or one of its keys down.
LEMMA NextMods ==
  ASSUME ModInv, [Next]_vars
  PROVE  ModInv'
<1>1. mods \subseteq Modifiers /\ down \subseteq Codes /\ Codes \subseteq 0..127
  BY KeyboardAssumption DEF ModInv
<1>2. ASSUME NEW code, KeyUp(code) PROVE ModInv'
  <2>1. down' = down \ {code} /\ mods' = Released(mods, code)
    BY <1>2 DEF KeyUp
  <2>2. mods' \subseteq mods /\ ("SHIFT" \in mods' => code \notin {KEY_LSHIFT, KEY_RSHIFT})
    BY <1>1, <2>1, ReleasedKeeps
  <2> QED BY <1>1, <2>1, <2>2 DEF ModInv, NoStuckModifier
<1>3. ASSUME NEW code \in Codes, KeySilent(code) PROVE ModInv'
  <2>1. down' = down \cup {code} /\ mods' = Pressed(mods, code)
    BY <1>3 DEF KeySilent
  <2>2. /\ mods' \subseteq Modifiers
        /\ ("SHIFT" \in mods' => "SHIFT" \in mods \/ code \in {KEY_LSHIFT, KEY_RSHIFT})
    BY <1>1, <2>1, PressedKeeps
  <2> QED BY <1>1, <2>1, <2>2 DEF ModInv, NoStuckModifier
<1>4. ASSUME NEW code \in Codes, KeyDown(code) PROVE ModInv'
  <2>1. down' = down /\ mods' = Pressed(mods, code) /\ Mapped(code)
    BY <1>4 DEF KeyDown
  <2>2. /\ mods' \subseteq Modifiers /\ ("SHIFT" \in mods' => "SHIFT" \in mods)
    BY <1>1, <2>1, PressedKeeps
  <2> QED BY <1>1, <2>1, <2>2 DEF ModInv, NoStuckModifier
<1>5. CASE UNCHANGED <<mods, down>>
  BY <1>5 DEF ModInv, NoStuckModifier
<1>6. ASSUME NEW t \in Tasks,
             IrqAcquire(t) \/ IrqStore(t) \/ Tick(t) \/ StartRead(t) \/ Reading(t)
      PROVE  ModInv'
  <2>1. UNCHANGED <<mods, down>>
    BY <1>6 DEF IrqAcquire, IrqStore, Tick, StartRead, Reading, HasKey, GetLock, GetTest,
                GetAdvance, GetEmpty, GetDone, Env
  <2> QED BY <1>5, <2>1
<1>7. CASE KeyIrq
  BY <1>2, <1>3, <1>4, <1>7 DEF KeyIrq, KeyStored, KeyHangs, KeySpins
<1>8. CASE KeyPrefix
  BY <1>2, <1>8 DEF KeyPrefix
<1>9. CASE Halted \/ UNCHANGED vars
  <2>1. UNCHANGED <<mods, down>>
    BY <1>9 DEF Halted, vars
  <2> QED BY <1>5, <2>1
<1> QED BY <1>6, <1>7, <1>8, <1>9 DEF Next

-----------------------------------------------------------------------------
(* Tasks, handler frames and the lock                                        *)

\* The lock, held by task t at depth d of its stack.
Held(t, d) == [task |-> t, depth |-> d]

\* Types of the tasks; a stack has no more handlers than keys were typed.
TaskInv ==
  /\ typed \in 0..MaxKeys /\ cpu \in Tasks /\ irq \in [Tasks -> Seq(Frame)]
  /\ pc \in [Tasks -> Labels] /\ left \in [Tasks -> 0..MaxRead]
  /\ \A t \in Tasks : Len(irq[t]) <= typed /\ (pc[t] # "idle" => left[t] > 0)

\* A holder of the lock exists.
LockInv ==
  /\ lock \in {NoOne} \cup [task: Tasks, depth: Nat]
  /\ \A t \in Tasks : \A d \in Nat : lock = Held(t, d) => d <= Len(irq[t])
  /\ LockExclusive

\* A frame is pushed on a stack.
LEMMA Prepended ==
  ASSUME NEW S, NEW s \in Seq(S), NEW x \in S
  PROVE  /\ <<x>> \o s \in Seq(S) /\ Len(<<x>> \o s) = Len(s) + 1 /\ (<<x>> \o s)[1] = x
         /\ \A i \in 2..Len(s) + 1 : (<<x>> \o s)[i] = s[i - 1]
OBVIOUS

\* The newest frame leaves a stack.
LEMMA Popped ==
  ASSUME NEW S, NEW s \in Seq(S), s # <<>>
  PROVE  /\ Tail(s) \in Seq(S) /\ Len(Tail(s)) = Len(s) - 1 /\ Len(s) > 0 /\ Head(s) = s[1]
         /\ s[1] \in S /\ \A i \in 1..Len(s) - 1 : Tail(s)[i] = s[i + 1]
OBVIOUS

\* Two holders differ in the task or the depth, and nobody is no holder.
LEMMA Holders ==
  /\ \A t, u, d, e : Held(t, d) = Held(u, e) <=> t = u /\ d = e
  /\ \A t \in Tasks : \A d \in Nat : Held(t, d) # NoOne /\ Held(t, d) \in [task: Tasks, depth: Nat]
BY KeyboardAssumption DEF Held

\* A step that leaves lock, frames and the place of every task alone.
LEMMA SameLock ==
  ASSUME LockInv, UNCHANGED <<lock, irq>>,
         \A t \in Tasks : pc'[t] \in InGetKey <=> pc[t] \in InGetKey
  PROVE  LockInv'
BY DEF LockInv, LockExclusive

\* A handler that finds the lock taken does not disturb its holder, not even one below it
\* on the same stack.
LEMMA SpinStep ==
  ASSUME TaskInv, LockInv, NEW code \in Codes, KeySpins(code)
  PROVE  TaskInv' /\ LockInv'
<1> DEFINE f == [key |-> NewKey(code), at |-> "spin"]
           s == irq[cpu]
           q == <<f>> \o s
<1>1. /\ cpu \in Tasks /\ s \in Seq(Frame) /\ Len(s) \in Nat /\ Len(s) <= typed /\ typed \in Nat
      /\ MaxKeys \in Nat /\ typed < MaxKeys
  BY LenProperties, KeyboardAssumption DEF TaskInv, KeySpins, KeyDown
<1>2. f \in Frame /\ f.at = "spin"
  BY <1>1 DEF Frame, Key, NewKey
<1> HIDE DEF f
<1>3. /\ q \in Seq(Frame) /\ Len(q) = Len(s) + 1 /\ q[1] = f
      /\ \A i \in 2..Len(s) + 1 : q[i] = s[i - 1]
  <2> HIDE DEF s
  <2> QED BY <1>1, <1>2, Prepended
<1>4. /\ irq' = [irq EXCEPT ![cpu] = q] /\ typed' = typed + 1
      /\ UNCHANGED <<lock, cpu, pc, left>>
  BY DEF KeySpins, KeyDown, f, readerVars
<1> HIDE DEF q
<1>5. /\ irq'[cpu] = q /\ irq' \in [Tasks -> Seq(Frame)]
      /\ \A t \in Tasks : t # cpu => irq'[t] = irq[t]
  BY <1>1, <1>3, <1>4 DEF TaskInv
<1>6. TaskInv'
  <2>1. \A t \in Tasks : Len(irq'[t]) <= typed'
    BY <1>1, <1>3, <1>4, <1>5, LenProperties DEF TaskInv
  <2>2. typed' \in 0..MaxKeys
    BY <1>1, <1>4
  <2> QED BY <1>4, <1>5, <2>1, <2>2 DEF TaskInv
<1>7. \A t \in Tasks : \A d \in Nat : lock' = Held(t, d) => d <= Len(irq'[t])
  BY <1>1, <1>3, <1>4, <1>5 DEF LockInv
<1>8. LockExclusive'
  <2>1. ASSUME NEW t \in Tasks, NEW i \in 1..Len(irq'[t])
        PROVE  irq'[t][i].at = "store" <=> lock' = [task |-> t, depth |-> Len(irq'[t]) - i + 1]
    <3>1. CASE t # cpu
      BY <1>4, <1>5, <2>1, <3>1 DEF LockInv, LockExclusive
    <3>2. CASE t = cpu /\ i = 1
      <4>1. irq'[t][i].at # "store"
        BY <1>2, <1>3, <1>5, <3>2
      <4>2. Len(irq'[t]) - i + 1 = Len(s) + 1 /\ Len(s) + 1 \in Nat /\ ~(Len(s) + 1 <= Len(s))
        BY <1>1, <1>3, <1>5, <3>2
      <4>3. lock # Held(cpu, Len(s) + 1)
        BY <1>1, <4>2 DEF LockInv
      <4> QED BY <1>4, <3>2, <4>1, <4>2, <4>3 DEF Held
    <3>3. CASE t = cpu /\ i # 1
      <4>1. i - 1 \in 1..Len(s) /\ i \in 2..Len(s) + 1 /\ Len(irq'[t]) - i + 1 = Len(s) - (i - 1) + 1
        <5>1. Len(irq'[t]) = Len(s) + 1 /\ i \in 1..Len(irq'[t]) /\ i # 1
          BY <1>3, <1>5, <2>1, <3>3
        <5> DEFINE n == Len(s)
                   k == Len(irq'[t])
        <5>2. n \in Nat /\ k = n + 1 /\ i \in 1..k /\ i # 1
          BY <1>1, <5>1
        <5> HIDE DEF n, k
        <5>3. i - 1 \in 1..n /\ i \in 2..n + 1 /\ k - i + 1 = n - (i - 1) + 1
          BY ONLY <5>2
        <5> QED BY <5>3 DEF n, k
      <4>2. s[i - 1].at = "store" <=> lock = [task |-> cpu, depth |-> Len(s) - (i - 1) + 1]
        BY <1>1, <4>1 DEF LockInv, LockExclusive
      <4>3. irq'[t][i] = s[i - 1]
        BY <1>3, <1>5, <3>3, <4>1
      <4> QED BY <1>4, <3>3, <4>1, <4>2, <4>3
    <3> QED BY <3>1, <3>2, <3>3
  <2>2. \A t \in Tasks : pc'[t] \in InGetKey <=> lock' = [task |-> t, depth |-> 0]
    BY <1>4 DEF LockInv, LockExclusive
  <2> QED BY <2>1, <2>2 DEF LockExclusive
<1> QED BY <1>4, <1>6, <1>7, <1>8 DEF LockInv

\* A handler that waited takes the lock.
LEMMA AcquireStep ==
  ASSUME TaskInv, LockInv, NEW t \in Tasks, IrqAcquire(t)
  PROVE  TaskInv' /\ LockInv'
<1> DEFINE s == irq[t]
           q == [s EXCEPT ![1] = [@ EXCEPT !.at = "store"]]
<1>1. s \in Seq(Frame) /\ s # <<>> /\ lock = NoOne /\ lock' = Held(t, Len(s))
  BY DEF TaskInv, IrqAcquire, TopIs, Holder, Held
<1>2. Len(s) \in Nat /\ 1 \in 1..Len(s) /\ s[1] \in Frame
  BY <1>1
<1>3. irq' = [irq EXCEPT ![t] = q] /\ UNCHANGED <<typed, cpu, pc, left>>
  BY DEF IrqAcquire, readerVars
<1>4. /\ q \in Seq(Frame) /\ Len(q) = Len(s) /\ q[1].at = "store"
      /\ \A i \in 1..Len(s) : i # 1 => q[i] = s[i]
  <2>1. [s[1] EXCEPT !.at = "store"] \in Frame /\ [s[1] EXCEPT !.at = "store"].at = "store"
    BY <1>2 DEF Frame
  <2> HIDE DEF s
  <2> QED BY <1>1, <1>2, <2>1
<1> HIDE DEF q
<1>5. /\ irq'[t] = q /\ irq' \in [Tasks -> Seq(Frame)]
      /\ \A u \in Tasks : u # t => irq'[u] = irq[u]
  BY <1>3, <1>4 DEF TaskInv
<1>6. \A u \in Tasks : Len(irq'[u]) = Len(irq[u])
  BY <1>4, <1>5
<1>7. TaskInv'
  BY <1>3, <1>5, <1>6 DEF TaskInv
<1>8. \A u \in Tasks : \A d \in Nat : lock' = Held(u, d) => d <= Len(irq'[u])
  BY <1>1, <1>2, <1>6 DEF Held
<1>9. lock' \in {NoOne} \cup [task: Tasks, depth: Nat]
  BY <1>1, <1>2, Holders
<1>10. LockExclusive'
  <2>1. ASSUME NEW u \in Tasks PROVE ~(pc[u] \in InGetKey) /\ lock' # [task |-> u, depth |-> 0]
    <3>1. ~(pc[u] \in InGetKey)
      BY <1>1, Holders DEF LockInv, LockExclusive, Held
    <3>2. lock' # Held(u, 0)
      BY <1>1, <1>2 DEF Held
    <3> QED BY <3>1, <3>2 DEF Held
  <2>2. ASSUME NEW u \in Tasks, NEW i \in 1..Len(irq'[u])
        PROVE  irq'[u][i].at = "store" <=> lock' = [task |-> u, depth |-> Len(irq'[u]) - i + 1]
    <3>0. i \in 1..Len(irq[u]) /\ Len(irq[u]) - i + 1 \in Nat
      BY <1>6, LenProperties DEF TaskInv
    <3>1. CASE u = t /\ i = 1
      <4>1. irq'[u][i].at = "store"
        BY <1>4, <1>5, <3>1
      <4>2. Len(irq'[u]) - i + 1 = Len(s)
        BY <1>2, <1>6, <3>1
      <4> QED BY <1>1, <3>1, <4>1, <4>2 DEF Held
    <3>2. CASE ~(u = t /\ i = 1)
      <4>1. irq'[u][i] = irq[u][i]
        BY <1>4, <1>5, <3>0, <3>2
      <4>2. irq[u][i].at # "store"
        <5>1. lock # Held(u, Len(irq[u]) - i + 1)
          BY <1>1, <3>0, Holders
        <5> QED BY <3>0, <5>1 DEF LockInv, LockExclusive, Held
      <4>3. lock' # Held(u, Len(irq'[u]) - i + 1)
        <5>1. u = t => Len(irq'[u]) - i + 1 # Len(s)
          BY <1>2, <1>6, <3>0, <3>2
        <5> QED BY <1>1, <5>1, Holders
      <4> QED BY <4>1, <4>2, <4>3 DEF Held
    <3> QED BY <3>1, <3>2
  <2> QED BY <1>3, <2>1, <2>2 DEF LockExclusive
<1> QED BY <1>7, <1>8, <1>9, <1>10 DEF LockInv

\* Whoever holds the lock holds it alone.
LEMMA OneHolder ==
  ASSUME LockInv, TaskInv, NEW t \in Tasks, NEW d \in Nat, lock = Held(t, d)
  PROVE  /\ \A u \in Tasks : (u # t \/ d # 0) => ~(pc[u] \in InGetKey)
         /\ \A u \in Tasks : \A i \in 1..Len(irq[u]) :
              (u # t \/ Len(irq[u]) - i + 1 # d) => irq[u][i].at # "store"
<1>1. ASSUME NEW u \in Tasks, u # t \/ d # 0 PROVE ~(pc[u] \in InGetKey)
  <2>1. lock # Held(u, 0)
    BY <1>1, Holders
  <2> QED BY <2>1 DEF LockInv, LockExclusive, Held
<1>2. ASSUME NEW u \in Tasks, NEW i \in 1..Len(irq[u]), u # t \/ Len(irq[u]) - i + 1 # d
      PROVE  irq[u][i].at # "store"
  <2>1. lock # Held(u, Len(irq[u]) - i + 1)
    BY <1>2 DEF Held
  <2> QED BY <2>1 DEF LockInv, LockExclusive, Held
<1> QED BY <1>1, <1>2

\* While the lock is free nobody is between lock() and unlock().
LEMMA NoHolder ==
  ASSUME LockInv, TaskInv, lock = NoOne
  PROVE  /\ \A u \in Tasks : ~(pc[u] \in InGetKey)
         /\ \A u \in Tasks : \A i \in 1..Len(irq[u]) : irq[u][i].at # "store"
<1>1. ASSUME NEW u \in Tasks PROVE ~(pc[u] \in InGetKey)
  BY Holders DEF LockInv, LockExclusive, Held
<1>2. ASSUME NEW u \in Tasks, NEW i \in 1..Len(irq[u]) PROVE irq[u][i].at # "store"
  <2>0. Len(irq[u]) - i + 1 \in Nat
    BY LenProperties DEF TaskInv
  <2>1. lock # Held(u, Len(irq[u]) - i + 1)
    BY <2>0, Holders
  <2> QED BY <2>1 DEF LockInv, LockExclusive, Held
<1> QED BY <1>1, <1>2

\* A step after which nobody holds the lock.
LEMMA FreeLock ==
  ASSUME lock' = NoOne, irq' \in [Tasks -> Seq(Frame)],
         \A u \in Tasks : ~(pc'[u] \in InGetKey),
         \A u \in Tasks : \A i \in 1..Len(irq'[u]) : irq'[u][i].at # "store"
  PROVE  LockInv'
<1>1. \A u \in Tasks : \A d \in Nat : lock' # Held(u, d)
  BY Holders
<1>2. ASSUME NEW u \in Tasks, NEW i \in 1..Len(irq'[u])
      PROVE  lock' # [task |-> u, depth |-> Len(irq'[u]) - i + 1]
  <2>1. Len(irq'[u]) - i + 1 \in Nat
    BY <1>2, LenProperties
  <2> QED BY <1>1, <2>1 DEF Held
<1>3. \A u \in Tasks : lock' # [task |-> u, depth |-> 0]
  BY <1>1 DEF Held
<1> QED BY <1>1, <1>2, <1>3 DEF LockInv, LockExclusive

\* A handler that waited stores its key and frees the lock.
LEMMA IrqStoreStep ==
  ASSUME TaskInv, LockInv, NEW t \in Tasks, IrqStore(t)
  PROVE  TaskInv' /\ LockInv' /\ lock = Held(t, Len(irq[t])) /\ irq[t][1].key \in Key
<1> DEFINE s == irq[t]
           q == Tail(s)
<1>1. s \in Seq(Frame) /\ s # <<>> /\ lock' = NoOne /\ Head(s).at = "store"
  BY DEF TaskInv, IrqStore, TopIs
<1>2. /\ q \in Seq(Frame) /\ Len(q) = Len(s) - 1 /\ Len(s) > 0 /\ Head(s) = s[1] /\ s[1] \in Frame
      /\ \A i \in 1..Len(s) - 1 : q[i] = s[i + 1]
  <2> HIDE DEF s
  <2> QED BY <1>1, Popped
<1>3. irq' = [irq EXCEPT ![t] = q] /\ UNCHANGED <<typed, cpu, pc, left>>
  BY DEF IrqStore, readerVars
<1> HIDE DEF q
<1>4. Len(s) \in Nat /\ 1 \in 1..Len(s)
  BY <1>1, <1>2, LenProperties
<1>5. lock = Held(t, Len(s))
  <2>1. Len(s) - 1 + 1 = Len(s)
    BY <1>4
  <2>2. s[1].at = "store"
    BY <1>1, <1>2
  <2> QED BY <1>4, <2>1, <2>2 DEF LockInv, LockExclusive, Held
<1>6. /\ irq'[t] = q /\ irq' \in [Tasks -> Seq(Frame)]
      /\ \A u \in Tasks : u # t => irq'[u] = irq[u]
  BY <1>2, <1>3 DEF TaskInv
<1>7. \A u \in Tasks : Len(irq'[u]) <= Len(irq[u]) /\ Len(irq'[u]) \in Nat /\ Len(irq[u]) \in Nat
  <2>1. \A u \in Tasks : Len(irq'[u]) \in Nat /\ Len(irq[u]) \in Nat
    BY <1>6, LenProperties DEF TaskInv
  <2>2. Len(q) <= Len(s)
    BY <1>2, <1>4
  <2> QED BY <1>6, <2>1, <2>2
<1>8. TaskInv'
  <2>1. \A u \in Tasks : Len(irq'[u]) <= typed
    BY <1>7 DEF TaskInv
  <2> QED BY <1>3, <1>6, <2>1 DEF TaskInv
<1>9. /\ \A u \in Tasks : ~(pc[u] \in InGetKey)
      /\ \A u \in Tasks : \A i \in 1..Len(irq[u]) :
           (u # t \/ Len(irq[u]) - i + 1 # Len(s)) => irq[u][i].at # "store"
  BY <1>4, <1>5, OneHolder
<1>10. ASSUME NEW u \in Tasks, NEW i \in 1..Len(irq'[u]) PROVE irq'[u][i].at # "store"
  <2>1. CASE u # t
    BY <1>6, <1>9, <2>1
  <2>2. CASE u = t
    <3>1. i + 1 \in 1..Len(s) /\ Len(s) - (i + 1) + 1 # Len(s) /\ i \in 1..Len(s) - 1
      BY <1>2, <1>4, <1>6, <1>10, <2>2
    <3>2. s[i + 1].at # "store"
      BY <1>9, <3>1
    <3> QED BY <1>2, <1>6, <2>2, <3>1, <3>2
  <2> QED BY <2>1, <2>2
<1>11. LockInv'
  BY <1>1, <1>3, <1>6, <1>9, <1>10, FreeLock
<1>12. irq[t][1].key \in Key
  BY <1>2 DEF Frame
<1> QED BY <1>5, <1>8, <1>11, <1>12

\* The steps of read() and readv() keep the discipline of the lock.
LEMMA ReadStep ==
  ASSUME TaskInv, LockInv, NEW t \in Tasks, StartRead(t) \/ Reading(t)
  PROVE  TaskInv' /\ LockInv'
<1>1. /\ UNCHANGED <<irq, cpu, typed>> /\ irq[t] = <<>> /\ irq \in [Tasks -> Seq(Frame)]
      /\ pc \in [Tasks -> Labels] /\ left \in [Tasks -> 0..MaxRead] /\ MaxRead \in Nat
  BY KeyboardAssumption DEF TaskInv, StartRead, Reading, HasKey, GetLock, GetTest, GetAdvance,
     GetEmpty, GetDone, Env, At
<1>2. Entry(t) \in Labels /\ Entry(t) \notin InGetKey /\ Entry(t) # "idle"
  BY DEF Entry, Labels, InGetKey
<1>3. ASSUME NEW label \in Labels, pc' = [pc EXCEPT ![t] = label], UNCHANGED left,
             pc[t] # "idle"
      PROVE  TaskInv'
  BY <1>1, <1>3 DEF TaskInv
<1>4. ASSUME NEW label \in Labels, pc' = [pc EXCEPT ![t] = label], UNCHANGED lock,
             pc[t] \in InGetKey <=> label \in InGetKey
      PROVE  LockInv'
  <2>1. \A u \in Tasks : pc'[u] \in InGetKey <=> pc[u] \in InGetKey
    BY <1>1, <1>4
  <2> QED BY <1>1, <1>4, <2>1, SameLock
<1>5. ASSUME NEW label \in Labels, pc' = [pc EXCEPT ![t] = label], lock' = NoOne,
             pc[t] \in InGetKey, label \notin InGetKey
      PROVE  LockInv'
  <2>1. lock = Held(t, 0) /\ 0 \in Nat /\ Len(irq[t]) = 0
    BY <1>1, <1>5 DEF LockInv, LockExclusive, Held
  <2>2. /\ \A u \in Tasks : u # t => ~(pc[u] \in InGetKey)
        /\ \A u \in Tasks : \A i \in 1..Len(irq[u]) :
             (u # t \/ Len(irq[u]) - i + 1 # 0) => irq[u][i].at # "store"
    BY <2>1, OneHolder
  <2>3. \A u \in Tasks : ~(pc'[u] \in InGetKey)
    BY <1>1, <1>5, <2>2
  <2>4. \A u \in Tasks : \A i \in 1..Len(irq[u]) : irq[u][i].at # "store"
    BY <2>1, <2>2
  <2> QED BY <1>1, <1>5, <2>3, <2>4, FreeLock
<1>6. CASE StartRead(t)
  <2>1. PICK n \in 1..MaxRead : left' = [left EXCEPT ![t] = n]
    BY <1>6 DEF StartRead
  <2>2. pc' = [pc EXCEPT ![t] = Entry(t)] /\ UNCHANGED lock /\ pc[t] = "idle"
    BY <1>6 DEF StartRead, Goto, At
  <2>3. TaskInv'
    BY <1>1, <1>2, <2>1, <2>2 DEF TaskInv
  <2>4. LockInv'
    BY <1>2, <1>4, <2>2 DEF InGetKey
  <2> QED BY <2>3, <2>4
<1>7. CASE HasKey(t)
  <2>1. pc' = [pc EXCEPT ![t] = "try"] /\ UNCHANGED <<lock, left>> /\ pc[t] = "poll"
    BY <1>7 DEF HasKey, Goto, At
  <2> QED BY <1>3, <1>4, <2>1 DEF InGetKey, Labels
<1>8. CASE GetLock(t)
  <2>1. /\ pc' = [pc EXCEPT ![t] = "test"] /\ UNCHANGED left /\ pc[t] = "try" /\ lock = NoOne
        /\ lock' = Held(t, 0)
    BY <1>1, <1>8 DEF GetLock, Goto, At, Holder, Held
  <2>2. TaskInv'
    BY <1>3, <2>1 DEF Labels
  <2>3. /\ \A u \in Tasks : ~(pc[u] \in InGetKey)
        /\ \A u \in Tasks : \A i \in 1..Len(irq[u]) : irq[u][i].at # "store"
    BY <2>1, NoHolder
  <2>4. ASSUME NEW u \in Tasks PROVE pc'[u] \in InGetKey <=> lock' = [task |-> u, depth |-> 0]
    <3>1. pc'[u] \in InGetKey <=> u = t
      BY <1>1, <2>1, <2>3 DEF InGetKey
    <3>2. lock' = Held(u, 0) <=> u = t
      BY <2>1 DEF Held
    <3> QED BY <3>1, <3>2 DEF Held
  <2>5. ASSUME NEW u \in Tasks, NEW i \in 1..Len(irq[u])
        PROVE  lock' # [task |-> u, depth |-> Len(irq[u]) - i + 1]
    <3>1. Len(irq[u]) - i + 1 # 0
      BY <1>1, <2>5, LenProperties
    <3>2. lock' # Held(u, Len(irq[u]) - i + 1)
      BY <2>1, <3>1 DEF Held
    <3> QED BY <3>2 DEF Held
  <2>6. LockExclusive'
    BY <1>1, <2>3, <2>4, <2>5 DEF LockExclusive
  <2>7. lock' \in [task: Tasks, depth: Nat] /\ \A u \in Tasks : \A d \in Nat :
          lock' = Held(u, d) => d <= Len(irq'[u])
    <3>1. 0 <= Len(irq[t])
      BY <1>1
    <3> QED BY <1>1, <2>1, <3>1, Holders
  <2> QED BY <2>2, <2>6, <2>7 DEF LockInv
<1>9. CASE GetTest(t)
  <2>1. /\ pc' = [pc EXCEPT ![t] = "empty"] \/ pc' = [pc EXCEPT ![t] = "advance"]
        /\ UNCHANGED <<lock, left>> /\ pc[t] = "test"
    BY <1>9 DEF GetTest, Goto, At
  <2> QED BY <1>3, <1>4, <2>1 DEF InGetKey, Labels
<1>10. CASE GetAdvance(t)
  <2>1. pc' = [pc EXCEPT ![t] = "release"] /\ UNCHANGED <<lock, left>> /\ pc[t] = "advance"
    BY <1>10 DEF GetAdvance, Goto, At
  <2> QED BY <1>3, <1>4, <2>1 DEF InGetKey, Labels
<1>11. CASE GetEmpty(t)
  <2>1. pc' = [pc EXCEPT ![t] = Entry(t)] /\ UNCHANGED left /\ lock' = NoOne /\ pc[t] = "empty"
    BY <1>11 DEF GetEmpty, Goto, At
  <2> QED BY <1>2, <1>3, <1>5, <2>1 DEF InGetKey
<1>12. CASE GetDone(t)
  <2> DEFINE label == IF got[t].code = KEY_ENTER \/ left[t] = 1 THEN "idle" ELSE Entry(t)
  <2>1. /\ pc' = [pc EXCEPT ![t] = label] /\ left' = [left EXCEPT ![t] = @ - 1] /\ lock' = NoOne
        /\ pc[t] = "release"
    BY <1>12 DEF GetDone, Goto, At
  <2>2. label \in Labels /\ label \notin InGetKey /\ (label # "idle" => left[t] # 1)
    BY <1>2 DEF Labels, InGetKey
  <2> HIDE DEF label
  <2>3. left[t] \in 1..MaxRead
    <3>1. left[t] \in 0..MaxRead /\ left[t] > 0
      BY <1>1, <2>1 DEF TaskInv
    <3> QED BY <1>1, <3>1
  <2>4. left[t] - 1 \in 0..MaxRead /\ (left[t] # 1 => left[t] - 1 > 0)
    BY <1>1, <2>3
  <2>5. TaskInv'
    BY <1>1, <2>1, <2>2, <2>4 DEF TaskInv
  <2>6. LockInv'
    BY <1>5, <2>1, <2>2 DEF InGetKey
  <2> QED BY <2>5, <2>6
<1> QED BY <1>6, <1>7, <1>8, <1>9, <1>10, <1>11, <1>12 DEF Reading

-----------------------------------------------------------------------------
(* Indices of the ring                                                       *)

\* Division with a remainder.
LEMMA Divided ==
  ASSUME NEW x \in Nat
  PROVE  /\ x = KEY_BUFFER_SIZE * (x \div KEY_BUFFER_SIZE) + (x % KEY_BUFFER_SIZE)
         /\ x % KEY_BUFFER_SIZE \in 0..KEY_BUFFER_SIZE - 1 /\ x \div KEY_BUFFER_SIZE \in Nat
BY KeyboardAssumption

\* The remainder is unique.
LEMMA OneRemainder ==
  ASSUME NEW a \in Nat, NEW b \in Nat,
         NEW r \in 0..KEY_BUFFER_SIZE - 1, NEW s \in 0..KEY_BUFFER_SIZE - 1,
         KEY_BUFFER_SIZE * a + r = KEY_BUFFER_SIZE * b + s
  PROVE  r = s
<1>1. CASE a < b
  <2>1. a + 1 <= b
    BY <1>1
  <2>2. KEY_BUFFER_SIZE * a + KEY_BUFFER_SIZE <= KEY_BUFFER_SIZE * b
    BY <2>1, KeyboardAssumption
  <2> QED BY <2>2, KeyboardAssumption
<1>2. CASE b < a
  <2>1. b + 1 <= a
    BY <1>2
  <2>2. KEY_BUFFER_SIZE * b + KEY_BUFFER_SIZE <= KEY_BUFFER_SIZE * a
    BY <2>1, KeyboardAssumption
  <2> QED BY <2>2, KeyboardAssumption
<1>3. CASE a = b
  BY <1>3, KeyboardAssumption
<1> QED BY <1>1, <1>2, <1>3

\* A whole round of the ring changes no index.
LEMMA WholeRound ==
  ASSUME NEW x \in Nat
  PROVE  (x + KEY_BUFFER_SIZE) % KEY_BUFFER_SIZE = x % KEY_BUFFER_SIZE
<1> DEFINE K == KEY_BUFFER_SIZE
           y == x + K
<1>k. K \in Nat \ {0}
  BY KeyboardAssumption
<1>1. y \in Nat /\ y = K * (y \div K) + (y % K) /\ y % K \in 0..K - 1 /\ y \div K \in Nat
  BY <1>k, Divided
<1>2. x = K * (x \div K) + (x % K) /\ x % K \in 0..K - 1 /\ x \div K \in Nat
  BY <1>k, Divided
<1> DEFINE q == x \div K
           r == x % K
           qq == y \div K
           rr == y % K
<1>3. K * qq + rr = K * (q + 1) + r
  <2>1. y = x + K
    OBVIOUS
  <2> HIDE DEF y, K
  <2>2. K * qq + rr = K * q + r + K
    BY <1>1, <1>2, <2>1
  <2> HIDE DEF q, r, qq, rr
  <2>3. q \in Nat
    BY <1>2 DEF q
  <2>4. K * q + K = K * (q + 1)
    BY <2>3, <1>k
  <2>5. K * q \in Int /\ r \in Int
    BY <1>2, <2>3, <1>k DEF r
  <2> QED BY <2>2, <2>4, <2>5, <1>k
<1> HIDE DEF y, q, r, qq, rr
<1>4. qq \in Nat /\ q + 1 \in Nat /\ rr \in 0..K - 1 /\ r \in 0..K - 1
  BY <1>1, <1>2 DEF q, r, qq, rr
<1>5. rr = r
  BY <1>3, <1>4, OneRemainder
<1> QED BY <1>5 DEF rr, r, y

\* The mask takes one round off.
LEMMA MaskedOnce ==
  ASSUME NEW x \in Nat, x < 2 * KEY_BUFFER_SIZE
  PROVE  Masked(x) = IF x < KEY_BUFFER_SIZE THEN x ELSE x - KEY_BUFFER_SIZE
BY KeyboardAssumption DEF Masked

\* How many keys wait between two indices.
Count(w, r) == Masked(w + KEY_BUFFER_SIZE - r)

\* That number without the mask; it is never a whole round.
LEMMA CountIs ==
  ASSUME NEW w \in Slots, NEW r \in Slots
  PROVE  /\ Count(w, r) = IF r <= w THEN w - r ELSE w + KEY_BUFFER_SIZE - r
         /\ Count(w, r) \in 0..KEY_BUFFER_SIZE - 1 /\ (w # r => Count(w, r) > 0)
<1>1. w + KEY_BUFFER_SIZE - r \in Nat /\ w + KEY_BUFFER_SIZE - r < 2 * KEY_BUFFER_SIZE
  BY KeyboardAssumption DEF Slots
<1>2. Count(w, r) = IF w + KEY_BUFFER_SIZE - r < KEY_BUFFER_SIZE THEN w + KEY_BUFFER_SIZE - r
                    ELSE (w + KEY_BUFFER_SIZE - r) - KEY_BUFFER_SIZE
  BY <1>1, MaskedOnce DEF Count
<1> QED BY <1>2, KeyboardAssumption DEF Slots

\* The index after the last one is the first.
LEMMA NextSlot ==
  ASSUME NEW w \in Slots
  PROVE  /\ Masked(w + 1) = IF w + 1 < KEY_BUFFER_SIZE THEN w + 1 ELSE 0
         /\ Masked(w + 1) \in Slots
<1>1. w + 1 \in Nat /\ w + 1 < 2 * KEY_BUFFER_SIZE
  BY KeyboardAssumption DEF Slots
<1>2. Masked(w + 1) = IF w + 1 < KEY_BUFFER_SIZE THEN w + 1 ELSE (w + 1) - KEY_BUFFER_SIZE
  BY <1>1, MaskedOnce
<1> QED BY <1>2, KeyboardAssumption DEF Slots

\* The i-th key that waits.
LEMMA SlotOf ==
  ASSUME NEW r \in Slots, NEW i \in 1..KEY_BUFFER_SIZE
  PROVE  /\ Masked(r + i - 1) = IF r + i - 1 < KEY_BUFFER_SIZE THEN r + i - 1
                                ELSE (r + i - 1) - KEY_BUFFER_SIZE
         /\ Masked(r + i - 1) \in Slots
<1>1. r + i - 1 \in Nat /\ r + i - 1 < 2 * KEY_BUFFER_SIZE
  BY KeyboardAssumption DEF Slots
<1>2. Masked(r + i - 1) = IF r + i - 1 < KEY_BUFFER_SIZE THEN r + i - 1
                          ELSE (r + i - 1) - KEY_BUFFER_SIZE
  BY <1>1, MaskedOnce
<1> QED BY <1>2, KeyboardAssumption DEF Slots

\* After a key is stored one more waits, or none if the ring was full.
LEMMA StoreCount ==
  ASSUME NEW w \in Slots, NEW r \in Slots
  PROVE  /\ Count(Masked(w + 1), r) = IF Count(w, r) + 1 < KEY_BUFFER_SIZE THEN Count(w, r) + 1 ELSE 0
         /\ Masked(r + (Count(w, r) + 1) - 1) = w
         /\ \A i \in 1..Count(w, r) : Masked(r + i - 1) \in Slots /\ Masked(r + i - 1) # w
<1>k. KEY_BUFFER_SIZE \in Nat \ {0}
  BY KeyboardAssumption
<1> DEFINE v == Masked(w + 1)
           c == Count(w, r)
<1>1. v \in Slots /\ v = IF w + 1 < KEY_BUFFER_SIZE THEN w + 1 ELSE 0
  BY NextSlot
<1>2. c = (IF r <= w THEN w - r ELSE w + KEY_BUFFER_SIZE - r) /\ c \in 0..KEY_BUFFER_SIZE - 1
  BY CountIs
<1> HIDE DEF v, c
<1>3. Count(v, r) = IF r <= v THEN v - r ELSE v + KEY_BUFFER_SIZE - r
  BY <1>1, CountIs
<1>4. Count(v, r) = IF c + 1 < KEY_BUFFER_SIZE THEN c + 1 ELSE 0
  BY <1>k, <1>1, <1>2, <1>3 DEF Slots
<1>5. c + 1 \in 1..KEY_BUFFER_SIZE
  BY <1>2, <1>k
<1>6. Masked(r + (c + 1) - 1) = w
  <2>1. Masked(r + (c + 1) - 1) = IF r + (c + 1) - 1 < KEY_BUFFER_SIZE THEN r + (c + 1) - 1
                                  ELSE (r + (c + 1) - 1) - KEY_BUFFER_SIZE
    BY <1>5, SlotOf
  <2> QED BY <1>k, <1>2, <2>1 DEF Slots
<1>7. ASSUME NEW i \in 1..c PROVE Masked(r + i - 1) \in Slots /\ Masked(r + i - 1) # w
  <2>1. i \in 1..KEY_BUFFER_SIZE
    BY <1>2, <1>k
  <2>2. /\ Masked(r + i - 1) \in Slots
        /\ Masked(r + i - 1) = IF r + i - 1 < KEY_BUFFER_SIZE THEN r + i - 1
                               ELSE (r + i - 1) - KEY_BUFFER_SIZE
    BY <2>1, SlotOf
  <2> QED BY <1>k, <1>2, <2>2 DEF Slots
<1> QED BY <1>4, <1>6, <1>7 DEF v, c

\* After a key is taken the next one is first.
LEMMA AdvanceCount ==
  ASSUME NEW w \in Slots, NEW r \in Slots, w # r
  PROVE  /\ Masked(r + 1) \in Slots /\ Count(w, Masked(r + 1)) = Count(w, r) - 1
         /\ Masked(r + 1 - 1) = r
         /\ \A i \in 1..Count(w, r) - 1 : Masked(Masked(r + 1) + i - 1) = Masked(r + (i + 1) - 1)
<1>k. KEY_BUFFER_SIZE \in Nat \ {0}
  BY KeyboardAssumption
<1> DEFINE v == Masked(r + 1)
           c == Count(w, r)
<1>1. v \in Slots /\ v = IF r + 1 < KEY_BUFFER_SIZE THEN r + 1 ELSE 0
  BY NextSlot
<1>2. c = (IF r <= w THEN w - r ELSE w + KEY_BUFFER_SIZE - r) /\ c \in 1..KEY_BUFFER_SIZE - 1
  BY CountIs
<1> HIDE DEF v, c
<1>3. Count(w, v) = IF v <= w THEN w - v ELSE w + KEY_BUFFER_SIZE - v
  BY <1>1, CountIs
<1>4. Count(w, v) = c - 1
  BY <1>k, <1>1, <1>2, <1>3 DEF Slots
<1>5. Masked(r + 1 - 1) = r
  <2>1. 1 \in 1..KEY_BUFFER_SIZE
    BY <1>k
  <2>2. Masked(r + 1 - 1) = IF r + 1 - 1 < KEY_BUFFER_SIZE THEN r + 1 - 1
                            ELSE (r + 1 - 1) - KEY_BUFFER_SIZE
    BY <2>1, SlotOf
  <2> QED BY <1>k, <2>2 DEF Slots
<1>6. ASSUME NEW i \in 1..c - 1 PROVE Masked(v + i - 1) = Masked(r + (i + 1) - 1)
  <2>1. i \in 1..KEY_BUFFER_SIZE /\ i + 1 \in 1..KEY_BUFFER_SIZE
    BY <1>2, <1>k
  <2>2. Masked(v + i - 1) = IF v + i - 1 < KEY_BUFFER_SIZE THEN v + i - 1
                            ELSE (v + i - 1) - KEY_BUFFER_SIZE
    BY <1>1, <2>1, SlotOf
  <2>3. Masked(r + (i + 1) - 1) = IF r + (i + 1) - 1 < KEY_BUFFER_SIZE THEN r + (i + 1) - 1
                                  ELSE (r + (i + 1) - 1) - KEY_BUFFER_SIZE
    BY <2>1, SlotOf
  <2> QED BY <1>k, <1>1, <1>2, <2>2, <2>3 DEF Slots
<1> QED BY <1>1, <1>4, <1>5, <1>6 DEF v, c

-----------------------------------------------------------------------------
(* What the ring holds                                                       *)

\* The u places of the ring g from index r on are the newest keys of those stored.
Window(g, r, u, s) ==
  u \in Nat /\ u <= Len(s) /\ \A i \in 1..u : g[Masked(r + i - 1)] = s[Len(s) - u + i]

\* The contents a ring can have.
Rings == [Slots -> Key \cup {NoKey}]

\* A key is added to a history.
LEMMA Appended ==
  ASSUME NEW S, NEW s \in Seq(S), NEW x \in S
  PROVE  /\ Append(s, x) \in Seq(S) /\ Len(Append(s, x)) = Len(s) + 1 /\ Len(s) \in Nat
         /\ Append(s, x)[Len(s) + 1] = x /\ \A k \in 1..Len(s) : Append(s, x)[k] = s[k]
OBVIOUS

\* A store moves the end of the window, or empties it when the ring was full.
LEMMA WindowStore ==
  ASSUME NEW g \in Rings, NEW w \in Slots, NEW r \in Slots, NEW s \in Seq(Key), NEW key \in Key,
         Window(g, r, Count(w, r), s)
  PROVE  /\ [g EXCEPT ![w] = key] \in Rings
         /\ Window([g EXCEPT ![w] = key], r, Count(Masked(w + 1), r), Append(s, key))
<1> DEFINE u == Count(w, r)
           v == Count(Masked(w + 1), r)
           h == [g EXCEPT ![w] = key]
           a == Append(s, key)
<1>1. u \in Nat /\ u <= Len(s) /\ \A i \in 1..u : g[Masked(r + i - 1)] = s[Len(s) - u + i]
  BY DEF Window
<1>2. /\ v = (IF u + 1 < KEY_BUFFER_SIZE THEN u + 1 ELSE 0) /\ Masked(r + (u + 1) - 1) = w
      /\ \A i \in 1..u : Masked(r + i - 1) \in Slots /\ Masked(r + i - 1) # w
  BY StoreCount
<1>3. h \in Rings /\ h[w] = key /\ \A i \in Slots : i # w => h[i] = g[i]
  BY DEF Rings
<1>4. Len(a) = Len(s) + 1 /\ Len(s) \in Nat /\ a[Len(s) + 1] = key /\ \A k \in 1..Len(s) : a[k] = s[k]
  BY Appended
<1> HIDE DEF u, v, h, a
<1>5. CASE v = u + 1
  <2>1. v \in Nat /\ v <= Len(a)
    BY <1>1, <1>4, <1>5
  <2>2. ASSUME NEW i \in 1..v PROVE h[Masked(r + i - 1)] = a[Len(a) - v + i]
    <3>1. CASE i = u + 1
      <4>1. Len(a) - v + i = Len(s) + 1
        BY <1>1, <1>4, <1>5, <3>1
      <4> QED BY <1>2, <1>3, <1>4, <3>1, <4>1
    <3>2. CASE i # u + 1
      <4>1. i \in 1..u /\ Len(a) - v + i = Len(s) - u + i /\ Len(s) - u + i \in 1..Len(s)
        BY <1>1, <1>4, <1>5, <2>2, <3>2
      <4>2. h[Masked(r + i - 1)] = g[Masked(r + i - 1)]
        BY <1>2, <1>3, <4>1
      <4> QED BY <1>1, <1>4, <4>1, <4>2
    <3> QED BY <3>1, <3>2
  <2> QED BY <1>3, <2>1, <2>2 DEF Window, v, h, a
<1>6. CASE v = 0
  <2>1. v \in Nat /\ v <= Len(a) /\ \A i \in 1..v : FALSE
    BY <1>4, <1>6
  <2>2. Window(h, r, v, a)
    BY <2>1 DEF Window
  <2> QED BY <1>3, <2>2 DEF v, h, a
<1> QED BY <1>2, <1>5, <1>6

\* getKey() moves the start of the window.
LEMMA WindowAdvance ==
  ASSUME NEW g \in Rings, NEW w \in Slots, NEW r \in Slots, w # r, NEW s \in Seq(Key),
         Window(g, r, Count(w, r), s)
  PROVE  /\ Window(g, Masked(r + 1), Count(w, Masked(r + 1)), s)
         /\ g[r] = s[Len(s) - Count(w, r) + 1] /\ Len(s) - Count(w, r) + 1 \in 1..Len(s)
<1> DEFINE u == Count(w, r)
           x == Masked(r + 1)
           v == Count(w, x)
<1>1. u \in Nat /\ u <= Len(s) /\ \A i \in 1..u : g[Masked(r + i - 1)] = s[Len(s) - u + i]
  BY DEF Window
<1>2. u > 0 /\ Len(s) \in Nat
  BY CountIs, LenProperties
<1>3. /\ x \in Slots /\ v = u - 1 /\ Masked(r + 1 - 1) = r
      /\ \A i \in 1..u - 1 : Masked(x + i - 1) = Masked(r + (i + 1) - 1)
  BY AdvanceCount
<1> HIDE DEF u, x, v
<1>4. 1 \in 1..u /\ Len(s) - u + 1 \in 1..Len(s)
  BY <1>1, <1>2
<1>5. g[r] = s[Len(s) - u + 1]
  BY <1>1, <1>3, <1>4
<1>6. v \in Nat /\ v <= Len(s)
  BY <1>1, <1>2, <1>3
<1>7. ASSUME NEW i \in 1..v PROVE g[Masked(x + i - 1)] = s[Len(s) - v + i]
  <2>1. i + 1 \in 1..u /\ i \in 1..u - 1 /\ Len(s) - u + (i + 1) = Len(s) - v + i
    BY <1>1, <1>2, <1>3, <1>7
  <2>2. g[Masked(r + (i + 1) - 1)] = s[Len(s) - u + (i + 1)]
    BY <1>1, <2>1
  <2> QED BY <1>3, <2>1, <2>2
<1>8. Window(g, x, v, s)
  BY <1>6, <1>7 DEF Window
<1> QED BY <1>4, <1>5, <1>8 DEF u, x, v

-----------------------------------------------------------------------------
(* The order of the keys                                                     *)

\* No key is stored twice.
Distinct(s) == \A i, j \in 1..Len(s) : s[i].n = s[j].n => i = j

\* The keys taken are among the first m stored.
TakenIn(tk, s, m) == m \in 0..Len(s) /\ \A i \in 1..Len(tk) : \E j \in 1..m : s[j] = tk[i]

\* They were taken in the order in which they were stored.
InOrder(tk, s) ==
  \A i, k \in 1..Len(tk) : \A j, l \in 1..Len(s) :
    i < k /\ s[j] = tk[i] /\ s[l] = tk[k] => j < l

\* A key that has not been stored yet.
Fresh(key, s) == \A i \in 1..Len(s) : s[i].n # key.n

\* A new key does not disturb the order of those taken.
LEMMA OrderStore ==
  ASSUME NEW s \in Seq(Key), NEW key \in Key, NEW tk \in Seq(Key), NEW m, NEW mm \in Nat,
         Fresh(key, s), Distinct(s), TakenIn(tk, s, m), InOrder(tk, s),
         m <= mm, mm <= Len(s) + 1
  PROVE  Distinct(Append(s, key)) /\ TakenIn(tk, Append(s, key), mm) /\ InOrder(tk, Append(s, key))
<1> DEFINE a == Append(s, key)
<1>1. Len(a) = Len(s) + 1 /\ Len(s) \in Nat /\ a[Len(s) + 1] = key /\ \A k \in 1..Len(s) : a[k] = s[k]
  BY Appended
<1>2. m \in 0..Len(s) /\ \A i \in 1..Len(tk) : \E j \in 1..m : s[j] = tk[i]
  BY DEF TakenIn
<1> HIDE DEF a
<1>3. Distinct(a)
  <2> SUFFICES ASSUME NEW i \in 1..Len(a), NEW j \in 1..Len(a), a[i].n = a[j].n PROVE i = j
    BY DEF Distinct
  <2>1. (i \in 1..Len(s) \/ i = Len(s) + 1) /\ (j \in 1..Len(s) \/ j = Len(s) + 1)
    BY <1>1
  <2>2. CASE i \in 1..Len(s) /\ j \in 1..Len(s)
    BY <1>1, <2>2 DEF Distinct
  <2>3. CASE i \in 1..Len(s) /\ j = Len(s) + 1
    BY <1>1, <2>3 DEF Fresh
  <2>4. CASE i = Len(s) + 1 /\ j \in 1..Len(s)
    BY <1>1, <2>4 DEF Fresh
  <2> QED BY <2>1, <2>2, <2>3, <2>4
<1>4. TakenIn(tk, a, mm)
  <2>1. ASSUME NEW i \in 1..Len(tk) PROVE \E j \in 1..mm : a[j] = tk[i]
    <3>1. PICK j \in 1..m : s[j] = tk[i]
      BY <1>2
    <3>2. j \in 1..Len(s) /\ j \in 1..mm
      BY <1>1, <1>2
    <3> QED BY <1>1, <3>1, <3>2
  <2> QED BY <1>1, <2>1 DEF TakenIn
<1>5. ASSUME NEW i \in 1..Len(tk), NEW j \in 1..Len(a), a[j] = tk[i]
      PROVE  j \in 1..Len(s) /\ s[j] = tk[i]
  <2>1. PICK p \in 1..m : s[p] = tk[i]
    BY <1>2
  <2>2. p \in 1..Len(s)
    BY <1>1, <1>2
  <2>3. j # Len(s) + 1
    BY <1>1, <1>5, <2>1, <2>2 DEF Fresh
  <2>4. j \in 1..Len(s)
    BY <1>1, <2>3
  <2> QED BY <1>1, <1>5, <2>4
<1>6. InOrder(tk, a)
  BY <1>5 DEF InOrder
<1> QED BY <1>3, <1>4, <1>6 DEF a

\* The first key of the window comes after all keys taken.
LEMMA OrderAdvance ==
  ASSUME NEW s \in Seq(Key), NEW tk \in Seq(Key), NEW m \in Nat, m + 1 <= Len(s),
         Distinct(s), TakenIn(tk, s, m), InOrder(tk, s)
  PROVE  TakenIn(Append(tk, s[m + 1]), s, m + 1) /\ InOrder(Append(tk, s[m + 1]), s)
<1> DEFINE key == s[m + 1]
           a == Append(tk, key)
<1>0. m + 1 \in 1..Len(s) /\ Len(s) \in Nat /\ key \in Key
  BY LenProperties
<1>1. /\ Len(a) = Len(tk) + 1 /\ Len(tk) \in Nat /\ a[Len(tk) + 1] = key
      /\ \A k \in 1..Len(tk) : a[k] = tk[k]
  BY <1>0, Appended
<1>2. \A i \in 1..Len(tk) : \E j \in 1..m : s[j] = tk[i]
  BY DEF TakenIn
<1>3. key = s[m + 1]
  OBVIOUS
<1> HIDE DEF a, key
<1>4. TakenIn(a, s, m + 1)
  <2>1. ASSUME NEW i \in 1..Len(a) PROVE \E j \in 1..m + 1 : s[j] = a[i]
    <3>1. CASE i = Len(tk) + 1
      BY <1>0, <1>1, <1>3, <3>1
    <3>2. CASE i # Len(tk) + 1
      <4>1. i \in 1..Len(tk)
        BY <1>1, <2>1, <3>2
      <4>2. PICK j \in 1..m : s[j] = tk[i]
        BY <1>2, <4>1
      <4>3. j \in 1..m + 1
        OBVIOUS
      <4> QED BY <1>1, <4>1, <4>2, <4>3
    <3> QED BY <3>1, <3>2
  <2> QED BY <1>0, <2>1 DEF TakenIn
<1>5. InOrder(a, s)
  <2> SUFFICES ASSUME NEW i \in 1..Len(a), NEW k \in 1..Len(a), NEW j \in 1..Len(s),
                      NEW l \in 1..Len(s), i < k, s[j] = a[i], s[l] = a[k]
               PROVE  j < l
    BY DEF InOrder
  <2>1. i \in 1..Len(tk)
    BY <1>1
  <2>2. CASE k \in 1..Len(tk)
    BY <1>1, <2>1, <2>2 DEF InOrder
  <2>3. CASE k = Len(tk) + 1
    <3>1. l = m + 1
      BY <1>0, <1>1, <1>3, <2>3 DEF Distinct
    <3>2. PICK p \in 1..m : s[p] = tk[i]
      BY <1>2, <2>1
    <3>3. p \in 1..Len(s)
      BY <1>0
    <3>4. j = p
      BY <1>1, <2>1, <3>2, <3>3 DEF Distinct
    <3> QED BY <3>1, <3>4
  <2> QED BY <1>1, <2>2, <2>3
<1> QED BY <1>3, <1>4, <1>5 DEF a, key

-----------------------------------------------------------------------------
(* Keys are numbered as they are typed                                       *)

\* Keys in the order in which they were typed.
Rising(s) == \A i, j \in 1..Len(s) : i < j => s[i].n < s[j].n

\* A handler that waits has a key that is not stored yet, and no two have the same one.
NumberInv ==
  /\ \A i \in 1..Len(stored) : stored[i].n <= typed
  /\ \A t \in Tasks : \A i \in 1..Len(irq[t]) :
       irq[t][i].key.n <= typed /\ Fresh(irq[t][i].key, stored)
  /\ \A t, u \in Tasks : \A i \in 1..Len(irq[t]), j \in 1..Len(irq[u]) :
       irq[t][i].key.n = irq[u][j].key.n => t = u /\ i = j
  /\ ~spun => (\A t \in Tasks : irq[t] = <<>>) /\ Rising(stored)

\* A key typed now has a number of its own.
LEMMA NewKeyIs ==
  ASSUME TaskInv, NEW code \in Codes, KeyDown(code)
  PROVE  NewKey(code) \in Key /\ NewKey(code).n = typed + 1 /\ typed' = typed + 1 /\ typed \in Nat
BY KeyboardAssumption DEF TaskInv, KeyDown, NewKey, Key

\* The handler that found the lock free stores the newest key.
LEMMA StoredNumbers ==
  ASSUME TaskInv, NumberInv, stored \in Seq(Key), NEW code \in Codes, KeyStored(code)
  PROVE  NumberInv' /\ Fresh(NewKey(code), stored)
<1> DEFINE key == NewKey(code)
<1>1. key \in Key /\ key.n = typed + 1 /\ typed' = typed + 1 /\ typed \in Nat
  BY NewKeyIs DEF KeyStored
<1>2. stored' = Append(stored, key) /\ UNCHANGED <<irq, spun>>
  BY DEF KeyStored, Store
<1> HIDE DEF key
<1>3. /\ Len(stored') = Len(stored) + 1 /\ Len(stored) \in Nat /\ stored'[Len(stored) + 1] = key
      /\ \A k \in 1..Len(stored) : stored'[k] = stored[k]
  BY <1>1, <1>2, Appended
<1>4. ASSUME NEW i \in 1..Len(stored)
      PROVE  stored[i].n \in Nat /\ stored[i].n <= typed /\ stored[i].n # key.n
  <2>1. stored[i] \in Key
    BY <1>4
  <2>2. stored[i].n \in Nat
    BY <2>1 DEF Key
  <2> QED BY <1>1, <2>2 DEF NumberInv
<1>5. Fresh(key, stored)
  BY <1>4 DEF Fresh
<1>6. ASSUME NEW i \in 1..Len(stored') PROVE stored'[i].n <= typed'
  <2>1. CASE i \in 1..Len(stored)
    BY <1>1, <1>3, <1>4, <2>1
  <2>2. CASE i = Len(stored) + 1
    BY <1>1, <1>3, <2>2
  <2> QED BY <1>3, <2>1, <2>2
<1>7. ASSUME NEW t \in Tasks, NEW i \in 1..Len(irq[t])
      PROVE  irq[t][i].key.n <= typed' /\ Fresh(irq[t][i].key, stored')
  <2>1. irq[t][i] \in Frame
    BY DEF TaskInv
  <2>2. irq[t][i].key.n \in Nat
    BY <2>1 DEF Frame, Key
  <2>3. irq[t][i].key.n <= typed /\ Fresh(irq[t][i].key, stored)
    BY DEF NumberInv
  <2>4. irq[t][i].key.n # key.n /\ irq[t][i].key.n <= typed'
    BY <1>1, <2>2, <2>3
  <2>5. ASSUME NEW k \in 1..Len(stored') PROVE stored'[k].n # irq[t][i].key.n
    <3>1. CASE k \in 1..Len(stored)
      BY <1>3, <2>3, <3>1 DEF Fresh
    <3>2. CASE k = Len(stored) + 1
      BY <1>3, <2>4, <3>2
    <3> QED BY <1>3, <3>1, <3>2
  <2> QED BY <2>4, <2>5 DEF Fresh
<1>8. ASSUME Rising(stored) PROVE Rising(stored')
  <2> SUFFICES ASSUME NEW i \in 1..Len(stored'), NEW j \in 1..Len(stored'), i < j
               PROVE  stored'[i].n < stored'[j].n
    BY DEF Rising
  <2>1. i \in 1..Len(stored)
    BY <1>3
  <2>2. CASE j \in 1..Len(stored)
    BY <1>3, <1>8, <2>1, <2>2 DEF Rising
  <2>3. CASE j = Len(stored) + 1
    BY <1>1, <1>3, <1>4, <2>1, <2>3
  <2> QED BY <1>3, <2>2, <2>3
<1> QED BY <1>2, <1>5, <1>6, <1>7, <1>8 DEF NumberInv, key

\* A handler that waits has the newest key.
LEMMA SpinNumbers ==
  ASSUME TaskInv, NumberInv, stored \in Seq(Key), NEW code \in Codes, KeySpins(code)
  PROVE  NumberInv'
<1> DEFINE f == [key |-> NewKey(code), at |-> "spin"]
           s == irq[cpu]
           q == <<f>> \o s
<1>1. /\ NewKey(code) \in Key /\ NewKey(code).n = typed + 1 /\ typed' = typed + 1 /\ typed \in Nat
      /\ cpu \in Tasks /\ s \in Seq(Frame) /\ Len(s) \in Nat
  BY NewKeyIs, LenProperties DEF KeySpins, TaskInv
<1>2. f \in Frame /\ f.key.n = typed + 1
  BY <1>1 DEF Frame
<1>3. irq' = [irq EXCEPT ![cpu] = q] /\ stored' = stored /\ spun' = TRUE
  BY DEF KeySpins
<1> HIDE DEF f
<1>4. Len(q) = Len(s) + 1 /\ q[1] = f /\ \A i \in 2..Len(s) + 1 : q[i] = s[i - 1]
  <2> HIDE DEF s
  <2> QED BY <1>1, <1>2, Prepended
<1>5. irq'[cpu] = q /\ \A t \in Tasks : t # cpu => irq'[t] = irq[t]
  BY <1>1, <1>3 DEF TaskInv
<1> HIDE DEF q
\* Where a frame was before the step, if it is not the new one.
<1> DEFINE Old(t, i) == IF t = cpu THEN i - 1 ELSE i
<1>6. ASSUME NEW t \in Tasks, NEW i \in 1..Len(irq'[t])
      PROVE  \/ t = cpu /\ i = 1 /\ irq'[t][i] = f
             \/ Old(t, i) \in 1..Len(irq[t]) /\ irq'[t][i] = irq[t][Old(t, i)]
  <2>1. CASE t = cpu /\ i = 1
    BY <1>4, <1>5, <2>1
  <2>2. CASE t = cpu /\ i # 1
    <3>1. i \in 2..Len(s) + 1 /\ i - 1 \in 1..Len(s)
      BY <1>1, <1>4, <1>5, <1>6, <2>2
    <3> QED BY <1>4, <1>5, <2>2, <3>1
  <2>3. CASE t # cpu
    BY <1>5, <1>6, <2>3
  <2> QED BY <2>1, <2>2, <2>3
<1>7. ASSUME NEW t \in Tasks, NEW i \in 1..Len(irq[t])
      PROVE  irq[t][i].key.n \in Nat /\ irq[t][i].key.n <= typed /\ Fresh(irq[t][i].key, stored)
  <2>1. irq[t][i] \in Frame
    BY DEF TaskInv
  <2>2. irq[t][i].key.n \in Nat
    BY <2>1 DEF Frame, Key
  <2> QED BY <2>2 DEF NumberInv
<1>8. ASSUME NEW i \in 1..Len(stored) PROVE stored[i].n \in Nat /\ stored[i].n <= typed
  <2>1. stored[i] \in Key
    BY <1>8
  <2>2. stored[i].n \in Nat
    BY <2>1 DEF Key
  <2> QED BY <2>2 DEF NumberInv
<1>9. Fresh(f.key, stored)
  BY <1>1, <1>2, <1>8 DEF Fresh
<1>10. ASSUME NEW t \in Tasks, NEW i \in 1..Len(irq'[t])
       PROVE  irq'[t][i].key.n <= typed' /\ Fresh(irq'[t][i].key, stored)
  <2>1. CASE irq'[t][i] = f
    BY <1>1, <1>2, <1>9, <2>1
  <2>2. CASE Old(t, i) \in 1..Len(irq[t]) /\ irq'[t][i] = irq[t][Old(t, i)]
    <3> HIDE DEF Old
    <3>1. /\ irq[t][Old(t, i)].key.n \in Nat /\ irq[t][Old(t, i)].key.n <= typed
          /\ Fresh(irq[t][Old(t, i)].key, stored)
      BY <1>7, <2>2
    <3> QED BY <1>1, <2>2, <3>1
  <2> QED BY <1>6, <1>10, <2>1, <2>2
<1>11. ASSUME NEW t \in Tasks, NEW u \in Tasks, NEW i \in 1..Len(irq'[t]), NEW j \in 1..Len(irq'[u]),
              irq'[t][i].key.n = irq'[u][j].key.n
       PROVE  t = u /\ i = j
  <2>1. ASSUME NEW v \in Tasks, NEW k \in 1..Len(irq'[v]), irq'[v][k].key.n = typed + 1
        PROVE  v = cpu /\ k = 1
    <3>1. CASE v = cpu /\ k = 1 /\ irq'[v][k] = f
      BY <3>1
    <3>2. CASE Old(v, k) \in 1..Len(irq[v]) /\ irq'[v][k] = irq[v][Old(v, k)]
      <4> HIDE DEF Old
      <4>1. irq[v][Old(v, k)].key.n \in Nat /\ irq[v][Old(v, k)].key.n <= typed
        BY <1>7, <3>2
      <4>2. FALSE
        BY <1>1, <2>1, <3>2, <4>1
      <4> QED BY <4>2
    <3> QED BY <1>6, <2>1, <3>1, <3>2
  <2>2. CASE irq'[t][i] = f \/ irq'[u][j] = f
    <3>1. irq'[t][i].key.n = typed + 1 /\ irq'[u][j].key.n = typed + 1
      BY <1>2, <1>11, <2>2
    <3> QED BY <2>1, <3>1
  <2>3. CASE /\ Old(t, i) \in 1..Len(irq[t]) /\ irq'[t][i] = irq[t][Old(t, i)]
             /\ Old(u, j) \in 1..Len(irq[u]) /\ irq'[u][j] = irq[u][Old(u, j)]
    <3>1. t = u /\ Old(t, i) = Old(u, j)
      <4> HIDE DEF Old
      <4>1. irq[t][Old(t, i)].key.n = irq[u][Old(u, j)].key.n
        BY <1>11, <2>3
      <4>2. \A k \in 1..Len(irq[t]), l \in 1..Len(irq[u]) :
              irq[t][k].key.n = irq[u][l].key.n => t = u /\ k = l
        BY ONLY NumberInv DEF NumberInv
      <4> QED BY ONLY <2>3, <4>1, <4>2
    <3>2. i = j
      BY <3>1
    <3> QED BY <3>1, <3>2
  <2> QED BY <1>6, <1>11, <2>2, <2>3
<1>12. \A i \in 1..Len(stored) : stored[i].n <= typed'
  BY <1>1, <1>8
<1> QED BY <1>3, <1>10, <1>11, <1>12 DEF NumberInv

\* Taking the lock changes no key of a frame.
LEMMA AcquireNumbers ==
  ASSUME TaskInv, NumberInv, NEW t \in Tasks, IrqAcquire(t)
  PROVE  NumberInv'
<1> DEFINE s == irq[t]
           q == [s EXCEPT ![1] = [@ EXCEPT !.at = "store"]]
<1>1. s \in Seq(Frame) /\ s # <<>> /\ UNCHANGED <<stored, spun, typed>> /\ irq' = [irq EXCEPT ![t] = q]
  BY DEF TaskInv, IrqAcquire, TopIs, history
<1>2. 1 \in 1..Len(s) /\ s[1] \in Frame
  BY <1>1
<1>3. Len(q) = Len(s) /\ q[1].key = s[1].key /\ \A i \in 1..Len(s) : i # 1 => q[i] = s[i]
  <2>1. [s[1] EXCEPT !.at = "store"].key = s[1].key
    BY <1>2 DEF Frame
  <2> HIDE DEF s
  <2> QED BY <1>1, <1>2, <2>1
<1> HIDE DEF q
<1>4. irq'[t] = q /\ \A u \in Tasks : u # t => irq'[u] = irq[u]
  BY <1>1 DEF TaskInv
<1>5. \A u \in Tasks : /\ Len(irq'[u]) = Len(irq[u])
                       /\ \A i \in 1..Len(irq[u]) : irq'[u][i].key = irq[u][i].key
  BY <1>3, <1>4
<1>6. spun
  BY <1>1 DEF NumberInv
<1>7. ASSUME NEW u \in Tasks, NEW i \in 1..Len(irq'[u])
      PROVE  irq'[u][i].key.n <= typed /\ Fresh(irq'[u][i].key, stored)
  <2>1. i \in 1..Len(irq[u]) /\ irq'[u][i].key = irq[u][i].key
    BY <1>5, <1>7
  <2> QED BY <2>1 DEF NumberInv
<1>8. ASSUME NEW u \in Tasks, NEW v \in Tasks, NEW i \in 1..Len(irq'[u]), NEW j \in 1..Len(irq'[v]),
             irq'[u][i].key.n = irq'[v][j].key.n
      PROVE  u = v /\ i = j
  <2>1. /\ i \in 1..Len(irq[u]) /\ irq'[u][i].key = irq[u][i].key
        /\ j \in 1..Len(irq[v]) /\ irq'[v][j].key = irq[v][j].key
    BY <1>5, <1>8
  <2>2. irq[u][i].key.n = irq[v][j].key.n
    BY <1>8, <2>1
  <2> QED BY <2>1, <2>2 DEF NumberInv
<1> QED BY <1>1, <1>6, <1>7, <1>8 DEF NumberInv

\* A key moves from its frame to the ring.
LEMMA IrqStoreNumbers ==
  ASSUME TaskInv, LockInv, NumberInv, stored \in Seq(Key), NEW t \in Tasks, IrqStore(t)
  PROVE  NumberInv' /\ Fresh(irq[t][1].key, stored)
<1> DEFINE s == irq[t]
           q == Tail(s)
           key == s[1].key
<1>1. s \in Seq(Frame) /\ s # <<>> /\ UNCHANGED <<spun, typed>> /\ irq' = [irq EXCEPT ![t] = q]
  BY DEF TaskInv, IrqStore, TopIs
<1>2. /\ Len(q) = Len(s) - 1 /\ Len(s) > 0 /\ Head(s) = s[1] /\ s[1] \in Frame /\ Len(s) \in Nat
      /\ \A i \in 1..Len(s) - 1 : q[i] = s[i + 1]
  <2> HIDE DEF s
  <2> QED BY <1>1, Popped, LenProperties
<1>3. stored' = Append(stored, key) /\ key \in Key /\ 1 \in 1..Len(s)
  BY <1>2 DEF IrqStore, Store, Frame
<1>4. key.n <= typed /\ Fresh(key, stored)
  BY <1>3 DEF NumberInv
<1> HIDE DEF q, key
<1>5. /\ Len(stored') = Len(stored) + 1 /\ Len(stored) \in Nat /\ stored'[Len(stored) + 1] = key
      /\ \A k \in 1..Len(stored) : stored'[k] = stored[k]
  BY <1>3, Appended
<1>6. irq'[t] = q /\ \A u \in Tasks : u # t => irq'[u] = irq[u]
  BY <1>1 DEF TaskInv
<1> DEFINE Old(u, i) == IF u = t THEN i + 1 ELSE i
<1>7. ASSUME NEW u \in Tasks, NEW i \in 1..Len(irq'[u])
      PROVE  /\ Old(u, i) \in 1..Len(irq[u]) /\ irq'[u][i] = irq[u][Old(u, i)]
             /\ irq'[u][i].key.n # key.n
  <2>1. Old(u, i) \in 1..Len(irq[u]) /\ irq'[u][i] = irq[u][Old(u, i)] /\ (u # t \/ Old(u, i) # 1)
    <3>1. CASE u # t
      BY <1>6, <1>7, <3>1
    <3>2. CASE u = t
      <4>1. i \in 1..Len(s) - 1 /\ i + 1 \in 1..Len(s) /\ i + 1 # 1
        BY <1>2, <1>6, <1>7, <3>2
      <4> QED BY <1>2, <1>6, <3>2, <4>1
    <3> QED BY <3>1, <3>2
  <2> HIDE DEF Old
  <2>2. irq[u][Old(u, i)].key.n # irq[t][1].key.n
    BY <1>3, <2>1 DEF NumberInv
  <2> QED BY <2>1, <2>2 DEF key
<1>8. ASSUME NEW u \in Tasks, NEW i \in 1..Len(irq'[u])
      PROVE  irq'[u][i].key.n <= typed /\ Fresh(irq'[u][i].key, stored')
  <2> HIDE DEF Old
  <2>1. irq'[u][i].key.n <= typed /\ Fresh(irq'[u][i].key, stored)
    BY <1>7, <1>8 DEF NumberInv
  <2>2. ASSUME NEW k \in 1..Len(stored') PROVE stored'[k].n # irq'[u][i].key.n
    <3>1. CASE k \in 1..Len(stored)
      BY <1>5, <2>1, <3>1 DEF Fresh
    <3>2. CASE k = Len(stored) + 1
      BY <1>5, <1>7, <1>8, <3>2
    <3> QED BY <1>5, <3>1, <3>2
  <2> QED BY <2>1, <2>2 DEF Fresh
<1>9. ASSUME NEW u \in Tasks, NEW v \in Tasks, NEW i \in 1..Len(irq'[u]), NEW j \in 1..Len(irq'[v]),
             irq'[u][i].key.n = irq'[v][j].key.n
      PROVE  u = v /\ i = j
  <2>1. u = v /\ Old(u, i) = Old(v, j)
    <3> HIDE DEF Old
    <3>1. /\ Old(u, i) \in 1..Len(irq[u]) /\ Old(v, j) \in 1..Len(irq[v])
          /\ irq[u][Old(u, i)].key.n = irq[v][Old(v, j)].key.n
      BY <1>7, <1>9
    <3> QED BY <3>1 DEF NumberInv
  <2> QED BY <2>1
<1>10. ASSUME NEW i \in 1..Len(stored') PROVE stored'[i].n <= typed
  <2>1. CASE i \in 1..Len(stored)
    BY <1>5, <2>1 DEF NumberInv
  <2>2. CASE i = Len(stored) + 1
    BY <1>4, <1>5, <2>2
  <2> QED BY <1>5, <2>1, <2>2
<1>11. spun
  BY <1>1 DEF NumberInv
<1> QED BY <1>1, <1>4, <1>8, <1>9, <1>10, <1>11 DEF NumberInv, key

-----------------------------------------------------------------------------
(* The ring                                                                  *)

\* What was lost is a number of whole rounds.
Lost(stn, tkn, u) == stn - tkn - u \in Nat /\ (stn - tkn - u) % KEY_BUFFER_SIZE = 0

\* The ring is a window on the keys stored, after all the keys taken.
RingInv ==
  /\ ring \in Rings /\ wr \in Slots /\ rd \in Slots /\ stored \in Seq(Key) /\ taken \in Seq(Key)
  /\ Window(ring, rd, Count(wr, rd), stored)
  /\ Distinct(stored) /\ InOrder(taken, stored)
  /\ TakenIn(taken, stored, Len(stored) - Count(wr, rd))
  /\ Lost(Len(stored), Len(taken), Count(wr, rd))

\* A reader about to move the index has the first key of the ring.
GotInv ==
  /\ got \in [Tasks -> Key \cup {NoKey}]
  /\ \A t \in Tasks : pc[t] = "advance" => wr # rd /\ got[t] = ring[rd]

\* The handler stores a key.
LEMMA StoreStep ==
  ASSUME RingInv, NEW key \in Key, Fresh(key, stored), Store(key)
  PROVE  RingInv'
<1> DEFINE u == Count(wr, rd)
           v == Count(Masked(wr + 1), rd)
           m == Len(stored) - u
           mm == Len(stored) + 1 - v
<1>1. /\ ring' = [ring EXCEPT ![wr] = key] /\ wr' = Masked(wr + 1) /\ stored' = Append(stored, key)
      /\ UNCHANGED <<rd, taken>>
  BY DEF Store
<1>2. /\ ring \in Rings /\ wr \in Slots /\ rd \in Slots /\ stored \in Seq(Key) /\ taken \in Seq(Key)
      /\ Window(ring, rd, Count(wr, rd), stored) /\ Distinct(stored) /\ InOrder(taken, stored)
      /\ TakenIn(taken, stored, m) /\ Lost(Len(stored), Len(taken), u)
  BY DEF RingInv
<1>3. ring' \in Rings /\ Window(ring', rd', Count(wr', rd'), stored')
  BY <1>1, <1>2, WindowStore
<1>4. wr' \in Slots
  BY <1>1, <1>2, NextSlot
<1>5. /\ stored' \in Seq(Key) /\ Len(stored') = Len(stored) + 1 /\ Len(stored) \in Nat
      /\ Len(taken) \in Nat
  BY <1>1, <1>2, Appended, LenProperties
<1>6. u \in 0..KEY_BUFFER_SIZE - 1 /\ KEY_BUFFER_SIZE \in Nat \ {0}
  BY <1>2, CountIs, KeyboardAssumption
<1>7. v = IF u + 1 < KEY_BUFFER_SIZE THEN u + 1 ELSE 0
  BY <1>2, StoreCount
<1>8. u <= Len(stored)
  BY <1>2 DEF Window
<1> HIDE DEF u, v
<1>9. m <= mm /\ mm <= Len(stored) + 1 /\ mm \in Nat
  BY <1>5, <1>6, <1>7, <1>8
<1>10. Distinct(stored') /\ TakenIn(taken, stored', mm) /\ InOrder(taken, stored')
  <2> HIDE DEF m, mm
  <2> QED BY <1>1, <1>2, <1>9, OrderStore
<1>11. Lost(Len(stored'), Len(taken), v)
  <2> DEFINE x == Len(stored) - Len(taken) - u
             y == Len(stored') - Len(taken) - v
  <2>1. x \in Nat /\ x % KEY_BUFFER_SIZE = 0
    BY <1>2 DEF Lost
  <2>2. y = x \/ y = x + KEY_BUFFER_SIZE
    BY <1>5, <1>6, <1>7
  <2> HIDE DEF x, y
  <2>3. y \in Nat /\ y % KEY_BUFFER_SIZE = 0
    <3>1. (x + KEY_BUFFER_SIZE) % KEY_BUFFER_SIZE = 0
      BY <2>1, WholeRound
    <3> QED BY <1>6, <2>1, <2>2, <3>1
  <2> QED BY <2>3 DEF Lost, y
<1>12. Len(stored') - Count(wr', rd') = mm /\ Count(wr', rd') = v
  <2>1. Count(wr', rd') = v
    BY <1>1 DEF v
  <2>2. Len(stored') - v = mm
    BY <1>5, <1>6, <1>7
  <2> QED BY <2>1, <2>2
<1> QED BY <1>1, <1>2, <1>3, <1>4, <1>5, <1>10, <1>11, <1>12 DEF RingInv

\* getKey() takes the first key of the ring.
LEMMA AdvanceStep ==
  ASSUME RingInv, wr # rd, taken' = Append(taken, ring[rd]), rd' = Masked(rd + 1),
         UNCHANGED <<ring, wr, stored>>
  PROVE  RingInv'
<1> DEFINE u == Count(wr, rd)
           v == Count(wr, Masked(rd + 1))
           m == Len(stored) - u
<1>1. /\ ring \in Rings /\ wr \in Slots /\ rd \in Slots /\ stored \in Seq(Key) /\ taken \in Seq(Key)
      /\ Window(ring, rd, Count(wr, rd), stored) /\ Distinct(stored) /\ InOrder(taken, stored)
      /\ TakenIn(taken, stored, m) /\ Lost(Len(stored), Len(taken), u)
  BY DEF RingInv
<1>2. /\ Window(ring, rd', Count(wr, rd'), stored)
      /\ ring[rd] = stored[Len(stored) - u + 1] /\ Len(stored) - u + 1 \in 1..Len(stored)
  BY <1>1, WindowAdvance
<1>3. rd' \in Slots /\ v = u - 1
  BY <1>1, AdvanceCount
<1>4. u \in Nat /\ u > 0 /\ Len(stored) \in Nat /\ Len(taken) \in Nat
  BY <1>1, CountIs, LenProperties
<1>5. m \in Nat /\ m + 1 <= Len(stored)
  <2> HIDE DEF u
  <2> QED BY <1>2, <1>4
<1>6. ring[rd] = stored[m + 1] /\ ring[rd] \in Key
  BY <1>1, <1>2
<1>7. taken' \in Seq(Key) /\ Len(taken') = Len(taken) + 1
  BY <1>1, <1>6, Appended
<1>8. TakenIn(taken', stored, m + 1) /\ InOrder(taken', stored)
  <2> HIDE DEF m
  <2> QED BY <1>1, <1>5, <1>6, OrderAdvance
<1> HIDE DEF u
<1>9. Lost(Len(stored), Len(taken'), v)
  <2>1. Len(stored) - Len(taken') - v = Len(stored) - Len(taken) - u
    BY <1>3, <1>4, <1>7
  <2> QED BY <1>1, <2>1 DEF Lost
<1>10. Len(stored) - v = m + 1
  BY <1>3, <1>4
<1>11. Count(wr', rd') = v
  OBVIOUS
<1> HIDE DEF v, m
<1> QED BY <1>1, <1>2, <1>3, <1>7, <1>8, <1>9, <1>10, <1>11 DEF RingInv

-----------------------------------------------------------------------------
(* Every step keeps the inductive invariant                                  *)

\* Types of the flags.
Flags == inService \in BOOLEAN /\ hung \in BOOLEAN /\ spun \in BOOLEAN

\* The inductive invariant.
KeyInv == ModInv /\ TaskInv /\ LockInv /\ NumberInv /\ RingInv /\ GotInv /\ Flags

\* While nobody is in getKey() no reader is about to move the index.
LEMMA NoReader ==
  ASSUME GotInv, UNCHANGED <<got, pc>>, \A t \in Tasks : ~(pc[t] \in InGetKey)
  PROVE  GotInv'
BY DEF GotInv, InGetKey

\* A key with a character goes down.
LEMMA KeyIrqStep ==
  ASSUME KeyInv, NEW code \in Codes, KeyStored(code) \/ KeyHangs(code) \/ KeySpins(code)
  PROVE  TaskInv' /\ LockInv' /\ NumberInv' /\ RingInv' /\ GotInv' /\ Flags'
<1>1. TaskInv /\ LockInv /\ NumberInv /\ RingInv /\ GotInv /\ Flags /\ stored \in Seq(Key)
  BY DEF KeyInv, RingInv
<1>2. CASE KeyStored(code)
  <2>1. /\ UNCHANGED <<lock, cpu, irq, inService, hung, pc, left, got, spun>> /\ lock = NoOne
        /\ Store(NewKey(code)) /\ KeyDown(code)
    BY <1>2 DEF KeyStored, readerVars
  <2>2. NewKey(code) \in Key /\ typed' = typed + 1 /\ typed < MaxKeys /\ MaxKeys \in Nat
    BY <1>1, <2>1, NewKeyIs, KeyboardAssumption DEF KeyDown
  <2>3. NumberInv' /\ Fresh(NewKey(code), stored)
    BY <1>1, <1>2, StoredNumbers
  <2>4. RingInv'
    BY <1>1, <2>1, <2>2, <2>3, StoreStep
  <2>5. typed \in Nat /\ \A t \in Tasks : Len(irq[t]) \in Nat
    BY <1>1, LenProperties DEF TaskInv
  <2>6. TaskInv'
    BY <1>1, <2>1, <2>2, <2>5 DEF TaskInv
  <2>7. LockInv'
    BY <1>1, <2>1, SameLock
  <2>8. GotInv'
    BY <1>1, <2>1, NoHolder, NoReader
  <2> QED BY <1>1, <2>1, <2>3, <2>4, <2>6, <2>7, <2>8 DEF Flags
<1>3. CASE KeyHangs(code)
  <2>1. /\ UNCHANGED <<ring, wr, rd, lock, cpu, irq, inService, pc, left, got, stored, taken, spun>>
        /\ hung' = TRUE /\ KeyDown(code)
    BY <1>3 DEF KeyHangs, readerVars, ringVars, history
  <2>2. typed' = typed + 1 /\ typed < MaxKeys /\ MaxKeys \in Nat
    BY <2>1, KeyboardAssumption DEF KeyDown
  <2>3. typed \in Nat /\ \A t \in Tasks : Len(irq[t]) \in Nat
    BY <1>1, LenProperties DEF TaskInv
  <2>4. TaskInv'
    BY <1>1, <2>1, <2>2, <2>3 DEF TaskInv
  <2>5. LockInv'
    BY <1>1, <2>1, SameLock
  <2>6. NumberInv'
    <3>1. ASSUME NEW i \in 1..Len(stored) PROVE stored[i].n <= typed'
      <4>1. stored[i] \in Key
        BY <1>1
      <4>2. stored[i].n \in Nat /\ stored[i].n <= typed
        BY <1>1, <4>1 DEF Key, NumberInv
      <4> QED BY <2>2, <2>3, <4>2
    <3>2. ASSUME NEW t \in Tasks, NEW i \in 1..Len(irq[t]) PROVE irq[t][i].key.n <= typed'
      <4>1. irq[t][i] \in Frame
        BY <1>1 DEF TaskInv
      <4>2. irq[t][i].key.n \in Nat
        BY <4>1 DEF Frame, Key
      <4>3. irq[t][i].key.n <= typed
        BY <1>1 DEF NumberInv
      <4> QED BY <2>2, <2>3, <4>2, <4>3
    <3> QED BY <1>1, <2>1, <3>1, <3>2 DEF NumberInv
  <2>7. RingInv'
    BY <1>1, <2>1 DEF RingInv
  <2>8. GotInv'
    BY <1>1, <2>1 DEF GotInv
  <2> QED BY <1>1, <2>1, <2>4, <2>5, <2>6, <2>7, <2>8 DEF Flags
<1>4. CASE KeySpins(code)
  <2>1. /\ UNCHANGED <<ring, wr, rd, hung, pc, got, stored, taken>>
        /\ inService' = TRUE /\ spun' = TRUE
    BY <1>4 DEF KeySpins, readerVars, ringVars
  <2>2. TaskInv' /\ LockInv'
    BY <1>1, <1>4, SpinStep
  <2>3. NumberInv'
    BY <1>1, <1>4, SpinNumbers
  <2>4. RingInv'
    BY <1>1, <2>1 DEF RingInv
  <2>5. GotInv'
    BY <1>1, <2>1 DEF GotInv
  <2> QED BY <1>1, <2>1, <2>2, <2>3, <2>4, <2>5 DEF Flags
<1> QED BY <1>2, <1>3, <1>4

\* What a step leaves alone keeps its invariants.
LEMMA SameKeys ==
  ASSUME KeyInv, UNCHANGED <<ring, wr, rd, lock, irq, hung, pc, left, got, stored, taken, spun, typed>>,
         cpu' \in Tasks, inService' \in BOOLEAN
  PROVE  TaskInv' /\ LockInv' /\ NumberInv' /\ RingInv' /\ GotInv' /\ Flags'
<1>1. TaskInv /\ LockInv /\ NumberInv /\ RingInv /\ GotInv /\ Flags
  BY DEF KeyInv
<1>2. TaskInv'
  BY <1>1 DEF TaskInv
<1>3. LockInv'
  BY <1>1, SameLock
<1>4. NumberInv'
  BY <1>1 DEF NumberInv
<1>5. RingInv'
  BY <1>1 DEF RingInv
<1>6. GotInv'
  BY <1>1 DEF GotInv
<1> QED BY <1>1, <1>2, <1>3, <1>4, <1>5, <1>6 DEF Flags

\* A handler that waited goes on.
LEMMA HandlerStep ==
  ASSUME KeyInv, NEW t \in Tasks, IrqAcquire(t) \/ IrqStore(t)
  PROVE  TaskInv' /\ LockInv' /\ NumberInv' /\ RingInv' /\ GotInv' /\ Flags'
<1>1. TaskInv /\ LockInv /\ NumberInv /\ RingInv /\ GotInv /\ Flags /\ stored \in Seq(Key)
  BY DEF KeyInv, RingInv
<1>2. CASE IrqAcquire(t)
  <2>1. UNCHANGED <<ring, wr, rd, hung, inService, pc, got, stored, taken, spun>>
    BY <1>2 DEF IrqAcquire, readerVars, ringVars, history
  <2>2. TaskInv' /\ LockInv'
    BY <1>1, <1>2, AcquireStep
  <2>3. NumberInv'
    BY <1>1, <1>2, AcquireNumbers
  <2>4. RingInv'
    BY <1>1, <2>1 DEF RingInv
  <2>5. GotInv'
    BY <1>1, <2>1 DEF GotInv
  <2> QED BY <1>1, <2>1, <2>2, <2>3, <2>4, <2>5 DEF Flags
<1>3. CASE IrqStore(t)
  <2>1. /\ UNCHANGED <<hung, pc, got, spun>> /\ inService' = FALSE
        /\ Store(Head(irq[t]).key) /\ irq[t] # <<>> /\ irq[t] \in Seq(Frame)
    BY <1>1, <1>3 DEF IrqStore, readerVars, TopIs, TaskInv
  <2>2. TaskInv' /\ LockInv' /\ lock = Held(t, Len(irq[t])) /\ irq[t][1].key \in Key
    BY <1>1, <1>3, IrqStoreStep
  <2>3. NumberInv' /\ Fresh(irq[t][1].key, stored)
    BY <1>1, <1>3, IrqStoreNumbers
  <2>4. Store(irq[t][1].key)
    BY <2>1
  <2>5. RingInv'
    BY <1>1, <2>2, <2>3, <2>4, StoreStep
  <2>6. Len(irq[t]) \in Nat /\ Len(irq[t]) # 0
    BY <2>1
  <2>7. GotInv'
    <3>1. \A u \in Tasks : ~(pc[u] \in InGetKey)
      BY <1>1, <2>2, <2>6, OneHolder
    <3> QED BY <1>1, <2>1, <3>1, NoReader
  <2> QED BY <1>1, <2>1, <2>2, <2>3, <2>5, <2>7 DEF Flags
<1> QED BY <1>2, <1>3

\* A step of a task that reads.
LEMMA ReaderStep ==
  ASSUME KeyInv, NEW t \in Tasks, StartRead(t) \/ Reading(t)
  PROVE  TaskInv' /\ LockInv' /\ NumberInv' /\ RingInv' /\ GotInv' /\ Flags'
<1>1. TaskInv /\ LockInv /\ NumberInv /\ RingInv /\ GotInv /\ Flags
  BY DEF KeyInv
<1>2. TaskInv' /\ LockInv'
  BY <1>1, ReadStep
<1>3. UNCHANGED <<irq, inService, hung, typed, spun, stored>>
  BY DEF StartRead, Reading, HasKey, GetLock, GetTest, GetAdvance, GetEmpty, GetDone, Env
<1>4. NumberInv' /\ Flags'
  BY <1>1, <1>3 DEF NumberInv, Flags
<1>5. pc \in [Tasks -> Labels] /\ got \in [Tasks -> Key \cup {NoKey}]
  BY <1>1 DEF TaskInv, GotInv
<1>6. Entry(t) # "advance"
  BY DEF Entry
<1>7. ASSUME UNCHANGED <<ring, wr, rd, taken>> PROVE RingInv'
  BY <1>1, <1>3, <1>7 DEF RingInv
<1>8. ASSUME NEW label, pc' = [pc EXCEPT ![t] = label], label # "advance",
             UNCHANGED <<got, ring, wr, rd>>
      PROVE  GotInv'
  BY <1>1, <1>5, <1>8 DEF GotInv
<1>9. CASE StartRead(t) \/ HasKey(t) \/ GetLock(t) \/ GetEmpty(t)
  <2>1. /\ UNCHANGED <<ring, wr, rd, taken, got>>
        /\ \/ pc' = [pc EXCEPT ![t] = Entry(t)] \/ pc' = [pc EXCEPT ![t] = "try"]
           \/ pc' = [pc EXCEPT ![t] = "test"]
    BY <1>9 DEF StartRead, HasKey, GetLock, GetEmpty, Goto, ringVars
  <2> QED BY <1>2, <1>4, <1>6, <1>7, <1>8, <2>1
<1>10. CASE GetTest(t)
  <2>1. UNCHANGED <<ring, wr, rd, taken>>
    BY <1>10 DEF GetTest, ringVars
  <2>2. CASE wr = rd /\ Goto(t, "empty") /\ UNCHANGED got
    BY <1>2, <1>4, <1>7, <1>8, <2>1, <2>2 DEF Goto
  <2>3. CASE wr # rd /\ Goto(t, "advance") /\ got' = [got EXCEPT ![t] = ring[rd]]
    <3>1. ring[rd] \in Key \cup {NoKey}
      BY <1>1 DEF RingInv, Rings
    <3>2. got' \in [Tasks -> Key \cup {NoKey}]
      BY <1>5, <2>3, <3>1
    <3>3. GotInv'
      BY <1>1, <1>5, <2>1, <2>3, <3>2 DEF GotInv, Goto
    <3> QED BY <1>2, <1>4, <1>7, <2>1, <3>3
  <2> QED BY <1>10, <2>2, <2>3 DEF GetTest
<1>11. CASE GetAdvance(t)
  <2>1. /\ UNCHANGED <<ring, wr, got>> /\ rd' = Masked(rd + 1) /\ taken' = Append(taken, got[t])
        /\ pc' = [pc EXCEPT ![t] = "release"] /\ pc[t] = "advance"
    BY <1>11 DEF GetAdvance, Goto, At
  <2>2. wr # rd /\ got[t] = ring[rd]
    BY <1>1, <2>1 DEF GotInv
  <2>3. RingInv'
    BY <1>1, <1>3, <2>1, <2>2, AdvanceStep
  <2>4. \A u \in Tasks : u # t => ~(pc[u] \in InGetKey)
    <3>1. lock = Held(t, 0)
      BY <1>1, <2>1 DEF LockInv, LockExclusive, InGetKey, Held
    <3> QED BY <1>1, <3>1, OneHolder
  <2>5. \A u \in Tasks : pc'[u] # "advance"
    BY <1>5, <2>1, <2>4 DEF InGetKey
  <2>6. GotInv'
    BY <1>5, <2>1, <2>5 DEF GotInv
  <2> QED BY <1>2, <1>4, <2>3, <2>6
<1>12. CASE GetDone(t)
  <2>1. UNCHANGED <<ring, wr, rd, taken>> /\ got' = [got EXCEPT ![t] = NoKey]
    BY <1>12 DEF GetDone, ringVars
  <2> DEFINE label == IF got[t].code = KEY_ENTER \/ left[t] = 1 THEN "idle" ELSE Entry(t)
  <2>2. pc' = [pc EXCEPT ![t] = label]
    BY <1>12 DEF GetDone, Goto
  <2>3. label # "advance"
    BY <1>6
  <2> HIDE DEF label
  <2>4. got' \in [Tasks -> Key \cup {NoKey}]
    BY <1>5, <2>1
  <2>5. GotInv'
    BY <1>1, <1>5, <2>1, <2>2, <2>3, <2>4 DEF GotInv
  <2> QED BY <1>2, <1>4, <1>7, <2>1, <2>5
<1> QED BY <1>9, <1>10, <1>11, <1>12 DEF Reading

\* Every step keeps the invariant.
LEMMA NextKeys == KeyInv /\ [Next]_vars => KeyInv'
<1> SUFFICES ASSUME KeyInv, [Next]_vars PROVE KeyInv'
  OBVIOUS
<1> DEFINE Rest == TaskInv /\ LockInv /\ NumberInv /\ RingInv /\ GotInv /\ Flags
<1>1. ModInv'
  BY NextMods DEF KeyInv
<1>2. cpu \in Tasks /\ inService \in BOOLEAN
  BY DEF KeyInv, TaskInv, Flags
<1>3. ASSUME NEW code, KeyUp(code) \/ KeySilent(code) PROVE Rest'
  <2>1. UNCHANGED <<ring, wr, rd, lock, irq, hung, pc, left, got, stored, taken, spun, typed, cpu,
                    inService>>
    BY <1>3 DEF KeyUp, KeySilent, readerVars, ringVars, history
  <2> QED BY <1>2, <2>1, SameKeys
<1>4. ASSUME NEW t \in Tasks, Tick(t) PROVE Rest'
  <2>1. UNCHANGED <<ring, wr, rd, lock, irq, hung, pc, left, got, stored, taken, spun, typed>>
        /\ cpu' = t /\ inService' = FALSE
    BY <1>4 DEF Tick, readerVars, ringVars, history
  <2> QED BY <2>1, SameKeys
<1>5. ASSUME Halted \/ UNCHANGED vars PROVE Rest'
  <2>0. UNCHANGED vars
    BY <1>5 DEF Halted
  <2>1. UNCHANGED <<ring, wr, rd, lock, irq, hung, pc, left, got, stored, taken, spun, typed, cpu,
                    inService>>
    BY <2>0 DEF vars, readerVars, ringVars, history
  <2> QED BY <1>2, <2>1, SameKeys
<1>6. ASSUME KeyIrq \/ KeyPrefix PROVE Rest'
  <2> HIDE DEF Rest
  <2>1. ASSUME NEW code \in Codes, KeyStored(code) \/ KeyHangs(code) \/ KeySpins(code) PROVE Rest'
    BY <2>1, KeyIrqStep DEF Rest
  <2> QED BY <1>3, <1>6, <2>1 DEF KeyIrq, KeyPrefix
<1>7. ASSUME NEW t \in Tasks, IrqAcquire(t) \/ IrqStore(t) \/ StartRead(t) \/ Reading(t)
      PROVE  Rest'
  BY <1>7, HandlerStep, ReaderStep
<1> HIDE DEF Rest
<1>8. Rest'
  BY <1>4, <1>5, <1>6, <1>7 DEF Next
<1> QED BY <1>1, <1>8 DEF KeyInv, Rest

\* It holds at the start.
LEMMA InitKeys == Init => KeyInv
<1> SUFFICES ASSUME Init PROVE KeyInv
  OBVIOUS
<1>k. KEY_BUFFER_SIZE \in Nat \ {0} /\ MaxKeys \in Nat /\ MaxRead \in Nat
  BY KeyboardAssumption
<1>1. ModInv
  BY DEF Init, ModInv, NoStuckModifier
<1>2. /\ \A t \in Tasks : irq[t] = <<>> /\ pc[t] = "idle" /\ left[t] = 0 /\ got[t] = NoKey
      /\ <<>> \in Seq(Frame) /\ Len(<<>>) = 0
  BY DEF Init
<1>3. TaskInv
  BY <1>k, <1>2 DEF Init, TaskInv, Labels
<1>4. LockInv
  <2>1. \A t \in Tasks : \A d \in Nat : lock # Held(t, d)
    BY Holders DEF Init
  <2>2. \A t \in Tasks : ~(pc[t] \in InGetKey) /\ lock # [task |-> t, depth |-> 0]
    BY <1>2, <2>1 DEF InGetKey, Held
  <2>3. \A t \in Tasks : \A i \in 1..Len(irq[t]) : FALSE
    BY <1>2
  <2>4. LockExclusive
    BY <2>2, <2>3 DEF LockExclusive
  <2> QED BY <2>1, <2>4 DEF LockInv, Init
<1>5. stored = <<>> /\ taken = <<>> /\ Len(stored) = 0 /\ Len(taken) = 0 /\ <<>> \in Seq(Key)
  BY DEF Init
<1>6. NumberInv
  BY <1>2, <1>5 DEF NumberInv, Rising
<1>7. 0 \in Slots /\ wr = 0 /\ rd = 0
  BY <1>k DEF Init, Slots
<1>8. Count(wr, rd) = 0
  BY <1>7, CountIs
<1>9. RingInv
  <2>1. ring \in Rings
    BY DEF Init, Rings
  <2>2. Window(ring, rd, 0, stored)
    BY <1>5 DEF Window
  <2>3. Distinct(stored) /\ InOrder(taken, stored) /\ TakenIn(taken, stored, 0)
    BY <1>5 DEF Distinct, InOrder, TakenIn
  <2>4. Lost(Len(stored), Len(taken), 0)
    BY <1>k, <1>5 DEF Lost
  <2>5. Len(stored) - Count(wr, rd) = 0
    BY <1>5, <1>8
  <2> QED BY <1>5, <1>7, <1>8, <2>1, <2>2, <2>3, <2>4, <2>5 DEF RingInv
<1>10. GotInv
  BY <1>2 DEF GotInv, Init
<1>11. Flags
  BY DEF Init, Flags
<1> QED BY <1>1, <1>3, <1>4, <1>6, <1>9, <1>10, <1>11 DEF KeyInv

-----------------------------------------------------------------------------
(* What the invariant says of the keys read and the keys still to be read    *)

\* A function on 1..n is a sequence of length n.
LEMMA Tuple ==
  ASSUME NEW S, NEW n \in Nat, NEW f \in [1..n -> S]
  PROVE  f \in Seq(S) /\ Len(f) = n
OBVIOUS

\* An element of the sequence of the keys taken and the keys still to be read.
LEMMA JoinedAt ==
  ASSUME NEW p \in Seq(Key), NEW q \in Seq(Key)
  PROVE  /\ p \o q \in Seq(Key) /\ Len(p \o q) = Len(p) + Len(q) /\ Len(p) \in Nat /\ Len(q) \in Nat
         /\ \A i \in 1..Len(p) : (p \o q)[i] = p[i]
         /\ \A i \in Len(p) + 1..Len(p) + Len(q) : (p \o q)[i] = q[i - Len(p)]
OBVIOUS

\* The keys still to be read are the newest ones stored.
Newest(un, s) == Len(un) <= Len(s) /\ \A i \in 1..Len(un) : un[i] = s[Len(s) - Len(un) + i]

\* Any two neighbours of a sequence were stored in this order.
Chain(a, s) ==
  \A i \in 1..Len(a) - 1 : \E j, l \in 1..Len(s) : s[j] = a[i] /\ s[l] = a[i + 1] /\ j < l

\* So it is with the keys taken, followed by those still to be read.
LEMMA Neighbours ==
  ASSUME NEW s \in Seq(Key), NEW tk \in Seq(Key), NEW un \in Seq(Key), Newest(un, s),
         InOrder(tk, s), TakenIn(tk, s, Len(s) - Len(un))
  PROVE  Chain(tk \o un, s)
<1> DEFINE a == tk \o un
<1>0. Len(a) = Len(tk) + Len(un)
  BY JoinedAt
<1> HIDE DEF a
<1> SUFFICES ASSUME NEW i \in 1..Len(tk) + Len(un) - 1
             PROVE  \E j, l \in 1..Len(s) : s[j] = a[i] /\ s[l] = a[i + 1] /\ j < l
  <2> SUFFICES Chain(a, s)
    BY DEF a
  <2> QED BY <1>0 DEF Chain
<1> USE DEF a
<1> DEFINE n == Len(s)
           p == Len(tk)
           u == Len(un)
<1>1. /\ p \in Nat /\ u \in Nat /\ n \in Nat /\ u <= n /\ i \in 1..p + u - 1
      /\ \A k \in 1..p : a[k] = tk[k]
      /\ \A k \in p + 1..p + u : a[k] = un[k - p]
  BY JoinedAt, LenProperties DEF Newest
<1>2. /\ \A k \in 1..p : \E j \in 1..n - u : s[j] = tk[k]
      /\ \A k, o \in 1..p : \A j, l \in 1..n : k < o /\ s[j] = tk[k] /\ s[l] = tk[o] => j < l
      /\ \A k \in 1..u : un[k] = s[n - u + k]
  BY DEF TakenIn, InOrder, Newest
<1> SUFFICES \E j, l \in 1..n : s[j] = a[i] /\ s[l] = a[i + 1] /\ j < l
  OBVIOUS
<1> HIDE DEF a, n, p, u
<1>3. i + 1 <= p \/ i = p \/ i > p
  BY ONLY <1>1
<1>4. CASE i + 1 <= p
  <2>1. i \in 1..p /\ i + 1 \in 1..p /\ i < i + 1
    BY ONLY <1>1, <1>4
  <2>2. PICK j \in 1..n - u : s[j] = tk[i]
    BY ONLY <1>2, <2>1
  <2>3. PICK l \in 1..n - u : s[l] = tk[i + 1]
    BY ONLY <1>2, <2>1
  <2>4. j \in 1..n /\ l \in 1..n
    BY ONLY <1>1, j \in 1..n - u, l \in 1..n - u
  <2>5. j < l
    BY ONLY <1>2, <2>1, <2>2, <2>3, <2>4
  <2> QED BY ONLY <1>1, <2>1, <2>2, <2>3, <2>4, <2>5
<1>5. CASE i = p
  <2>1. i \in 1..p /\ 1 \in 1..u /\ i + 1 \in p + 1..p + u /\ i + 1 - p = 1
    BY ONLY <1>1, <1>5
  <2>2. PICK j \in 1..n - u : s[j] = tk[i]
    BY ONLY <1>2, <2>1
  <2>3. j \in 1..n /\ n - u + 1 \in 1..n /\ j < n - u + 1
    BY ONLY <1>1, <2>1, j \in 1..n - u
  <2>4. a[i + 1] = s[n - u + 1] /\ a[i] = s[j]
    <3>1. a[i + 1] = un[i + 1 - p] /\ un[1] = s[n - u + 1] /\ a[i] = tk[i]
      BY ONLY <1>1, <1>2, <2>1
    <3> QED BY ONLY <2>1, <2>2, <3>1
  <2> QED BY ONLY <2>3, <2>4
<1>6. CASE i > p
  <2> DEFINE k == i - p
  <2>1. k \in 1..u /\ k + 1 \in 1..u /\ i + 1 - p = k + 1
    BY ONLY <1>1, <1>6
  <2>2. i \in p + 1..p + u /\ i + 1 \in p + 1..p + u
    BY ONLY <1>1, <1>6
  <2>3. n - u + k \in 1..n /\ n - u + (k + 1) \in 1..n /\ n - u + k < n - u + (k + 1)
    <3> HIDE DEF k
    <3> QED BY ONLY <1>1, <2>1
  <2>4. a[i] = un[k] /\ a[i + 1] = un[i + 1 - p]
    BY ONLY <1>1, <2>2
  <2> HIDE DEF k
  <2>5. un[k] = s[n - u + k] /\ un[k + 1] = s[n - u + (k + 1)]
    BY ONLY <1>2, <2>1
  <2>6. a[i] = s[n - u + k] /\ a[i + 1] = s[n - u + (k + 1)]
    BY ONLY <2>1, <2>4, <2>5
  <2> QED BY ONLY <2>3, <2>6
<1> QED BY <1>3, <1>4, <1>5, <1>6

\* The ring holds the newest keys, in their order.
LEMMA UnreadIs ==
  ASSUME RingInv
  PROVE  /\ Unread \in Seq(Key) /\ Len(Unread) = Count(wr, rd) /\ Len(Unread) <= Len(stored)
         /\ \A i \in 1..Len(Unread) : Unread[i] = stored[Len(stored) - Len(Unread) + i]
<1> DEFINE u == Count(wr, rd)
<1>1. /\ wr \in Slots /\ rd \in Slots /\ stored \in Seq(Key)
      /\ u \in Nat /\ u <= Len(stored) /\ Len(stored) \in Nat
      /\ \A i \in 1..u : ring[Masked(rd + i - 1)] = stored[Len(stored) - u + i]
  BY LenProperties DEF RingInv, Window
<1>2. Unread = [i \in 1..u |-> ring[Masked(rd + i - 1)]]
  BY DEF Unread, Count
<1> HIDE DEF u
<1>3. \A i \in 1..u : Len(stored) - u + i \in 1..Len(stored)
  BY <1>1
<1>4. \A i \in 1..u : stored[Len(stored) - u + i] \in Key
  BY <1>1, <1>3
<1>5. Unread \in [1..u -> Key] /\ \A i \in 1..u : Unread[i] = stored[Len(stored) - u + i]
  BY <1>1, <1>2, <1>4
<1>6. Unread \in Seq(Key) /\ Len(Unread) = u
  BY <1>1, <1>5, Tuple
<1> QED BY <1>1, <1>5, <1>6 DEF u

\* The inductive invariant contains the type invariant.
LEMMA KeyTypes ==
  ASSUME KeyInv
  PROVE  TypeOK
<1>1. lock \in {NoOne} \cup [task: Tasks, depth: 0..MaxKeys]
  <2>1. CASE lock = NoOne
    BY <2>1
  <2>2. CASE lock \in [task: Tasks, depth: Nat]
    <3>1. lock.task \in Tasks /\ lock.depth \in Nat /\ lock = Held(lock.task, lock.depth)
      BY <2>2 DEF Held
    <3>2. lock.depth <= Len(irq[lock.task])
      BY <3>1 DEF KeyInv, LockInv
    <3>3. /\ Len(irq[lock.task]) <= typed /\ typed \in 0..MaxKeys /\ irq[lock.task] \in Seq(Frame)
          /\ MaxKeys \in Nat
      BY <3>1, KeyboardAssumption DEF KeyInv, TaskInv
    <3>4. Len(irq[lock.task]) \in Nat
      BY <3>3, LenProperties
    <3>5. lock.depth \in 0..MaxKeys
      BY <3>1, <3>2, <3>3, <3>4
    <3> QED BY <3>1, <3>5 DEF Held
  <2> QED BY <2>1, <2>2 DEF KeyInv, LockInv
<1>2. /\ ring \in [Slots -> Key \cup {NoKey}] /\ wr \in Slots /\ rd \in Slots
      /\ stored \in Seq(Key) /\ taken \in Seq(Key) /\ got \in [Tasks -> Key \cup {NoKey}]
  BY DEF KeyInv, RingInv, GotInv, Rings
<1>3. /\ mods \subseteq Modifiers /\ down \subseteq Codes /\ typed \in 0..MaxKeys
      /\ cpu \in Tasks /\ irq \in [Tasks -> Seq(Frame)]
      /\ pc \in [Tasks -> Labels] /\ left \in [Tasks -> 0..MaxRead]
      /\ inService \in BOOLEAN /\ hung \in BOOLEAN /\ spun \in BOOLEAN
  BY DEF KeyInv, ModInv, TaskInv, Flags
<1> QED BY <1>1, <1>2, <1>3 DEF TypeOK

\* The conjuncts of RingSound follow.
LEMMA KeysInRing ==
  ASSUME KeyInv
  PROVE  RingSound
<1> DEFINE all == taken \o Unread
           N == Len(all)
           places == [i \in 1..N |-> Position(all[i])]
           numbers == [i \in 1..N |-> all[i].n]
<1>1. /\ stored \in Seq(Key) /\ taken \in Seq(Key) /\ Distinct(stored) /\ InOrder(taken, stored)
      /\ TakenIn(taken, stored, Len(stored) - Count(wr, rd))
      /\ Lost(Len(stored), Len(taken), Count(wr, rd)) /\ RingInv
  BY DEF KeyInv, RingInv
<1>2. /\ Unread \in Seq(Key) /\ Len(Unread) = Count(wr, rd) /\ Len(Unread) <= Len(stored)
      /\ \A i \in 1..Len(Unread) : Unread[i] = stored[Len(stored) - Len(Unread) + i]
  BY <1>1, UnreadIs
<1>3. /\ all \in Seq(Key) /\ N = Len(taken) + Len(Unread) /\ N \in Nat /\ Len(stored) \in Nat
      /\ Len(taken) \in Nat /\ Len(Unread) \in Nat
  <2>1. Len(stored) \in Nat
    BY <1>1, LenProperties
  <2> QED BY <1>1, <1>2, <2>1, JoinedAt
<1>4. TakenIn(taken, stored, Len(stored) - Len(Unread))
  BY <1>1, <1>2
<1>5. ASSUME NEW i \in 1..N - 1
      PROVE  \E j, l \in 1..Len(stored) : stored[j] = all[i] /\ stored[l] = all[i + 1] /\ j < l
  <2>1. Newest(Unread, stored)
    BY <1>2 DEF Newest
  <2>2. Chain(taken \o Unread, stored)
    BY <1>1, <1>2, <1>4, <2>1, Neighbours
  <2> QED BY <2>2 DEF Chain
<1>6. \A j \in 1..Len(stored) : stored[j] \in Key /\ Position(stored[j]) = j
  <2> SUFFICES ASSUME NEW j \in 1..Len(stored) PROVE stored[j] \in Key /\ Position(stored[j]) = j
    OBVIOUS
  <2>1. \A k \in 1..Len(stored) : stored[k] = stored[j] => k = j
    BY <1>1 DEF Distinct
  <2> QED BY <1>1, <2>1 DEF Position
<1> HIDE DEF all
<1>7. Ascending(places)
  <2>1. Len(places) = N
    <3>1. places \in [1..N -> {Position(all[i]) : i \in 1..N}]
      OBVIOUS
    <3> HIDE DEF places
    <3> QED BY <1>3, <3>1, Tuple
  <2> SUFFICES ASSUME NEW i \in 1..N - 1 PROVE places[i] < places[i + 1]
    BY <2>1 DEF Ascending
  <2>2. PICK j \in 1..Len(stored), l \in 1..Len(stored) :
               stored[j] = all[i] /\ stored[l] = all[i + 1] /\ j < l
    BY <1>5
  <2>3. i \in 1..N /\ i + 1 \in 1..N
    BY <1>3
  <2>4. places[i] = Position(all[i]) /\ places[i + 1] = Position(all[i + 1])
    BY <2>3
  <2> QED BY <1>6, <2>2, <2>4
<1>8. ASSUME ~spun PROVE Ascending(numbers)
  <2>1. Len(numbers) = N
    <3>1. numbers \in [1..N -> {all[i].n : i \in 1..N}]
      OBVIOUS
    <3> HIDE DEF numbers
    <3> QED BY <1>3, <3>1, Tuple
  <2>2. Rising(stored)
    BY <1>8 DEF KeyInv, NumberInv
  <2> SUFFICES ASSUME NEW i \in 1..N - 1 PROVE numbers[i] < numbers[i + 1]
    BY <2>1 DEF Ascending
  <2>3. PICK j \in 1..Len(stored), l \in 1..Len(stored) :
               stored[j] = all[i] /\ stored[l] = all[i + 1] /\ j < l
    BY <1>5
  <2>4. i \in 1..N /\ i + 1 \in 1..N
    BY <1>3
  <2>5. numbers[i] = all[i].n /\ numbers[i + 1] = all[i + 1].n
    BY <2>4
  <2> QED BY <2>2, <2>3, <2>5 DEF Rising
<1>9. Unread = SubSeq(stored, Len(stored) - Len(Unread) + 1, Len(stored))
  <2> DEFINE u == Len(Unread)
             part == SubSeq(stored, Len(stored) - u + 1, Len(stored))
  <2>1. Len(stored) - u + 1 \in 1..Len(stored) + 1 /\ u \in Nat /\ u = Len(stored) - (Len(stored) - u + 1) + 1
    BY <1>2, <1>3
  <2>2. /\ part \in Seq(Key) /\ Len(part) = u
        /\ \A i \in 1..u : part[i] = stored[Len(stored) - u + 1 + i - 1]
    BY <1>1, <1>3, <2>1, SubSeqProperties
  <2>3. ASSUME NEW i \in 1..u PROVE part[i] = Unread[i]
    <3>1. part[i] = stored[Len(stored) - u + 1 + i - 1] /\ Unread[i] = stored[Len(stored) - u + i]
      BY <1>2, <2>2
    <3>2. Len(stored) - u + 1 + i - 1 = Len(stored) - u + i
      BY ONLY <1>3, i \in 1..u
    <3> QED BY ONLY <3>1, <3>2
  <2> HIDE DEF part
  <2>4. part = Unread
    BY <1>2, <2>2, <2>3, SeqEqual
  <2> QED BY <2>4 DEF part
<1>10. Len(stored) - N >= 0 /\ (Len(stored) - N) % KEY_BUFFER_SIZE = 0
  <2>1. Len(stored) - N = Len(stored) - Len(taken) - Count(wr, rd)
    BY <1>2, <1>3
  <2> QED BY <1>1, <2>1 DEF Lost
<1>11. TypeOK
  BY KeyTypes
<1> QED BY <1>7, <1>8, <1>9, <1>10, <1>11 DEF RingSound, all

\* However handlers, readers and ticks interleave, at every state the lock of the ring is held
\* by exactly the code between lock() and unlock(), the ring holds the newest keys stored, no
\* key is read twice or before an earlier one, keys are lost in whole rounds of the ring only,
\* and SHIFT is on only while one of its keys is held down (KBX86::run(), getKey()).
THEOREM KeysAreSound == Spec => []KeysSound
<1>1. Init => KeyInv
  BY InitKeys
<1>2. KeyInv /\ [Next]_vars => KeyInv'
  BY NextKeys
<1>3. KeyInv => KeysSound
  BY KeysInRing DEF KeysSound, KeyInv, LockInv, ModInv
<1> QED BY <1>1, <1>2, <1>3, PTL DEF Spec
===============================================================================
