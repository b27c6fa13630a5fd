------------------------------- MODULE Keyboard -------------------------------
(***************************************************************************)
(* The keyboard: the interrupt handler KBX86::run() (arch/x86/kbx86.cpp)   *)
(* fills a ring of keys, tasks that read file descriptor 0                 *)
(* (libc/syscall_fileio.cpp) take keys out of it with getKey().  Both      *)
(* sides hold the spinlock keybuffer_read_lock.                            *)
(*                                                                         *)
(* The handler starts with interrupts off.  If the lock is free it runs to *)
(* its end in one step.  If not, Spinlock::lock() calls yield(), which     *)
(* enables interrupts: from then on the handler is one more frame on the   *)
(* stack of the task it interrupted, and can itself be interrupted.        *)
(***************************************************************************)
EXTENDS Integers, Sequences

CONSTANTS
  Tasks,            \* tasks that read from the keyboard
  Vectored,         \* the ones among them that call readv(), the others call read()
  KEY_BUFFER_SIZE,  \* keys in the ring
  Codes,            \* scan codes of the keys of the keyboard
  NoOne,            \* nobody holds the lock
  UartBusy,         \* whether the serial port can be busy when a key is echoed
  MaxRead,          \* bound: most keys asked for in one read()
  MaxKeys           \* bound: characters that are typed

\* "Have to be power of 2", for the index is masked.
ASSUME KeyboardAssumption ==
  /\ KEY_BUFFER_SIZE \in Nat \ {0}
  /\ \E e \in 0..KEY_BUFFER_SIZE : KEY_BUFFER_SIZE = 2^e
  /\ Vectored \subseteq Tasks
  /\ Codes \subseteq 0..127
  /\ NoOne \notin Tasks /\ NoOne \notin [task: Tasks, depth: Nat]
  /\ UartBusy \in BOOLEAN
  /\ MaxRead \in Nat \ {0}
  /\ MaxKeys \in Nat

VARIABLES
  ring,       \* keybuffer
  wr,         \* keybuffer_write
  rd,         \* keybuffer_read
  lock,       \* who holds keybuffer_read_lock: a task and the depth of its frame
  mods,       \* mods
  cpu,        \* the task whose stack the CPU uses
  irq,        \* handler frames on a task's stack that wait for the lock, newest first
  inService,  \* the interrupt controller holds back further keyboard interrupts
  hung,       \* the CPU waits for a tick with interrupts off
  pc,         \* where a task's read() stands
  left,       \* keys it still asks for
  got,        \* what getKey() is about to return
  down,       \* keys without a character that are held down
  typed,      \* characters typed so far
  stored,     \* history: the keys put into the ring
  taken,      \* history: the keys taken out of it
  spun        \* history: a handler found the lock taken

ringVars   == <<ring, wr, rd>>
readerVars == <<pc, left, got>>
history    == <<stored, taken, spun>>
vars == <<ringVars, lock, mods, cpu, irq, inService, hung, readerVars, down, typed,
          history>>

KEY_ENTER  == 28
KEY_CTRL   == 29
KEY_LSHIFT == 42
KEY_RSHIFT == 54
KEY_ALT    == 56
KEY_E0     == 96    \* the prefix byte 0xE0 looks like the release of key 0x60
Modifiers  == {"SHIFT", "CTRL", "ALT", "ALTGR", "RIGHT"}

\* A character as it is put into the ring; n counts the characters.
Key    == [n: 1..MaxKeys, code: Codes]
NoKey  == [n |-> 0, code |-> 0]
Frame  == [key: Key, at: {"spin", "store"}]
Slots  == 0..KEY_BUFFER_SIZE - 1
Labels == {"idle", "poll", "try", "test", "advance", "empty", "release"}

Init ==
  /\ ring = [i \in Slots |-> NoKey] /\ wr = 0 /\ rd = 0
  /\ lock = NoOne /\ mods = {} /\ down = {} /\ typed = 0
  /\ cpu \in Tasks /\ irq = [t \in Tasks |-> <<>>]
  /\ inService = FALSE /\ hung = FALSE
  /\ pc = [t \in Tasks |-> "idle"]
  /\ left = [t \in Tasks |-> 0]
  /\ got = [t \in Tasks |-> NoKey]
  /\ stored = <<>> /\ taken = <<>> /\ spun = FALSE

\* & KEY_BUFFER_MASK
Masked(i) == i % KEY_BUFFER_SIZE

-----------------------------------------------------------------------------
(* The interrupt handler                                                     *)

\* bcode & KEY_RIGHT_MODIFIER: two bits of the code, which many keys have.
RightBit(code) == (code \div 32) % 4 # 0

\* The default layout has a character for a key.
Mapped(code) ==
  /\ code < 96
  /\ code \notin {0, 1, 29, 42, 43, 54, 56} \cup (58..70) \cup (82..95)

Released(m, code) ==
  LET off == CASE code \in {KEY_LSHIFT, KEY_RSHIFT} -> {"SHIFT"}
               [] code = KEY_CTRL -> {"CTRL"}
               [] code = KEY_ALT -> IF "RIGHT" \in m THEN {"ALTGR"} ELSE {"ALT"}
               [] OTHER -> {}
  IN  (m \ off) \ (IF RightBit(code) THEN {"RIGHT"} ELSE {})

Pressed(m, code) ==
  LET right == IF RightBit(code) THEN m \cup {"RIGHT"} ELSE m
      on == CASE code \in {KEY_LSHIFT, KEY_RSHIFT} -> {"SHIFT"}
              [] code = KEY_CTRL -> {"CTRL"}
              [] code = KEY_ALT -> IF "RIGHT" \in right THEN {"ALTGR"} ELSE {"ALT"}
              [] OTHER -> {}
  IN  right \cup on

\* keybuffer[keybuffer_write] = mapped, and on to the next place.  A full ring is
\* not noticed: it looks empty afterwards.
Store(key) ==
  /\ ring' = [ring EXCEPT ![wr] = key]
  /\ wr' = Masked(wr + 1)
  /\ stored' = Append(stored, key)
  /\ UNCHANGED <<rd, taken>>

\* A scan code can be read: interrupts are enabled wherever the model has a state.
Interrupt == ~hung /\ ~inService

\* A key goes up, or the prefix byte comes.
KeyUp(code) ==
  /\ Interrupt
  /\ code \in down \/ Mapped(code) \/ code = KEY_E0
  /\ down' = down \ {code}
  /\ mods' = Released(mods, code)
  /\ UNCHANGED <<ringVars, lock, cpu, irq, inService, hung, readerVars, typed, history>>

\* A key without a character goes down, or repeats.
KeySilent(code) ==
  /\ Interrupt /\ ~Mapped(code)
  /\ down' = down \cup {code}
  /\ mods' = Pressed(mods, code)
  /\ UNCHANGED <<ringVars, lock, cpu, irq, inService, hung, readerVars, typed, history>>

\* A key with a character goes down; the rest of the handler depends on the lock.
KeyDown(code) ==
  /\ Interrupt /\ Mapped(code) /\ typed < MaxKeys
  /\ typed' = typed + 1
  /\ mods' = Pressed(mods, code)
  /\ UNCHANGED down

NewKey(code) == [n |-> typed + 1, code |-> code]

\* The lock is free: the handler takes it, echoes and stores the key, lets it go.
KeyStored(code) ==
  /\ KeyDown(code) /\ lock = NoOne
  /\ Store(NewKey(code))
  /\ UNCHANGED <<lock, cpu, irq, inService, hung, readerVars, spun>>

\* The echo goes to the serial port too.  If that is busy uart_putc() calls
\* Timer::wait(1), and with interrupts off no tick ever comes.
KeyHangs(code) ==
  /\ KeyDown(code) /\ lock = NoOne /\ UartBusy
  /\ hung' = TRUE
  /\ UNCHANGED <<ringVars, lock, cpu, irq, inService, readerVars, history>>

\* The lock is taken: yield() enables interrupts and the handler stays.
KeySpins(code) ==
  /\ KeyDown(code) /\ lock # NoOne
  /\ irq' = [irq EXCEPT ![cpu] = <<[key |-> NewKey(code), at |-> "spin"]>> \o @]
  /\ inService' = TRUE
  /\ spun' = TRUE
  /\ UNCHANGED <<ringVars, lock, cpu, hung, readerVars, stored, taken>>

KeyIrq == \E code \in Codes : KeySilent(code) \/ KeyStored(code) \/ KeyHangs(code)
                              \/ KeySpins(code) \/ KeyUp(code)
KeyPrefix == KeyUp(KEY_E0)

\* The newest handler frame on the CPU's stack.
TopIs(t, at) == ~hung /\ cpu = t /\ irq[t] # <<>> /\ Head(irq[t]).at = at

Holder(t) == [task |-> t, depth |-> Len(irq[t])]

\* The spinning handler gets the lock.
IrqAcquire(t) ==
  /\ TopIs(t, "spin") /\ lock = NoOne
  /\ lock' = Holder(t)
  /\ irq' = [irq EXCEPT ![t][1].at = "store"]
  /\ UNCHANGED <<ringVars, mods, cpu, inService, hung, readerVars, down, typed, history>>

\* Mutant: after the wait the key is stored, the index forgotten.
IrqStoreInPlace(t) ==
  /\ TopIs(t, "store")
  /\ ring' = [ring EXCEPT ![wr] = Head(irq[t]).key]
  /\ stored' = Append(stored, Head(irq[t]).key)
  /\ lock' = NoOne
  /\ irq' = [irq EXCEPT ![t] = Tail(@)]
  /\ inService' = FALSE
  /\ UNCHANGED <<wr, rd, taken, mods, cpu, hung, readerVars, down, typed, spun>>

\* It echoes and stores, with interrupts enabled, and returns; irq_handler() tells
\* the controller that the interrupt is over.
IrqStore(t) ==
  /\ TopIs(t, "store")
  /\ Store(Head(irq[t]).key)
  /\ lock' = NoOne
  /\ irq' = [irq EXCEPT ![t] = Tail(@)]
  /\ inService' = FALSE
  /\ UNCHANGED <<mods, cpu, hung, readerVars, down, typed, spun>>

-----------------------------------------------------------------------------
(* The timer interrupt reschedules.  TimerX86::run() sends an end of         *)
(* interrupt of its own and irq_handler() another: together with the one of  *)
(* restoreProcess() they also end a keyboard interrupt that is in service.   *)

Tick(t) ==
  /\ ~hung
  /\ cpu' = t
  /\ inService' = FALSE
  /\ UNCHANGED <<ringVars, lock, mods, irq, hung, readerVars, down, typed, history>>

-----------------------------------------------------------------------------
(* Reading: syscall_read() calls getKey() until it has enough, syscall_readv() *)
(* asks hasKey() first.  Both end at a newline, readv() for each of its        *)
(* vectors, which are calls of their own here.                                 *)

At(t, label) == ~hung /\ cpu = t /\ irq[t] = <<>> /\ pc[t] = label
Goto(t, label) == pc' = [pc EXCEPT ![t] = label]
Env == <<mods, cpu, irq, inService, hung, down, typed, spun>>

Entry(t) == IF t \in Vectored THEN "poll" ELSE "try"

StartRead(t) ==
  /\ At(t, "idle")
  /\ \E n \in 1..MaxRead : left' = [left EXCEPT ![t] = n]
  /\ Goto(t, Entry(t))
  /\ UNCHANGED <<ringVars, lock, got, stored, taken, Env>>

\* Mutant: the newest key is left for later.
HasKeyButLast(t) ==
  /\ At(t, "poll") /\ wr # rd /\ wr # Masked(rd + 1)
  /\ Goto(t, "try")
  /\ UNCHANGED <<ringVars, lock, left, got, stored, taken, Env>>

\* hasKey(), without the lock.  If it says no the task sleeps and asks again.
HasKey(t) ==
  /\ At(t, "poll") /\ wr # rd
  /\ Goto(t, "try")
  /\ UNCHANGED <<ringVars, lock, left, got, stored, taken, Env>>

\* getKey(): keybuffer_read_lock.lock()
GetLock(t) ==
  /\ At(t, "try") /\ lock = NoOne
  /\ lock' = Holder(t)
  /\ Goto(t, "test")
  /\ UNCHANGED <<ringVars, left, got, stored, taken, Env>>

\* The test for an empty ring, and the fetch of the key.
GetTest(t) ==
  /\ At(t, "test")
  /\ \/ wr = rd /\ Goto(t, "empty") /\ UNCHANGED got
     \/ wr # rd /\ Goto(t, "advance") /\ got' = [got EXCEPT ![t] = ring[rd]]
  /\ UNCHANGED <<ringVars, lock, left, stored, taken, Env>>

GetAdvance(t) ==
  /\ At(t, "advance")
  /\ rd' = Masked(rd + 1)
  /\ taken' = Append(taken, got[t])
  /\ Goto(t, "release")
  /\ UNCHANGED <<ring, wr, lock, left, got, stored, Env>>

\* keybuffer_read_lock.unlock(); nullptr was returned: msleep() and again.
GetEmpty(t) ==
  /\ At(t, "empty")
  /\ lock' = NoOne
  /\ Goto(t, Entry(t))
  /\ UNCHANGED <<ringVars, left, got, stored, taken, Env>>

\* The same with a key, which is copied to the buffer.
GetDone(t) ==
  /\ At(t, "release")
  /\ lock' = NoOne
  /\ left' = [left EXCEPT ![t] = @ - 1]
  /\ got' = [got EXCEPT ![t] = NoKey]
  /\ Goto(t, IF got[t].code = KEY_ENTER \/ left[t] = 1 THEN "idle" ELSE Entry(t))
  /\ UNCHANGED <<ringVars, stored, taken, Env>>

Reading(t) == HasKey(t) \/ GetLock(t) \/ GetTest(t) \/ GetAdvance(t) \/ GetEmpty(t)
              \/ GetDone(t)

-----------------------------------------------------------------------------
\* The CPU waits for ever.
Halted ==
  /\ hung
  /\ UNCHANGED vars

Next ==
  \/ KeyIrq \/ KeyPrefix \/ Halted
  \/ \E t \in Tasks : IrqAcquire(t) \/ IrqStore(t) \/ Tick(t) \/ StartRead(t) \/ Reading(t)

Spec == Init /\ [][Next]_vars

\* Every task gets the CPU again and again (see module Scheduler), for long enough
\* to reach its next instruction; and not every tick finds the lock taken, for it is
\* held for some instructions between two msleep(10).
Fairness ==
  \A t \in Tasks :
    /\ WF_vars(Tick(t))
    /\ SF_vars(Tick(t) /\ lock = NoOne)
    /\ SF_vars(IrqAcquire(t) \/ IrqStore(t) \/ Reading(t))

FairSpec == Spec /\ Fairness

-----------------------------------------------------------------------------
(* What the keyboard promises                                                *)

\* Every variable keeps its type; indices stay inside the ring.
TypeOK ==
  /\ ring \in [Slots -> Key \cup {NoKey}] /\ wr \in Slots /\ rd \in Slots
  /\ lock \in {NoOne} \cup [task: Tasks, depth: 0..MaxKeys]
  /\ mods \subseteq Modifiers /\ down \subseteq Codes /\ typed \in 0..MaxKeys
  /\ cpu \in Tasks /\ irq \in [Tasks -> Seq(Frame)]
  /\ inService \in BOOLEAN /\ hung \in BOOLEAN /\ spun \in BOOLEAN
  /\ pc \in [Tasks -> Labels]
  /\ left \in [Tasks -> 0..MaxRead] /\ got \in [Tasks -> Key \cup {NoKey}]
  /\ stored \in Seq(Key) /\ taken \in Seq(Key)

\* keybuffer_read_lock is held by exactly the code that is between lock() and
\* unlock(): a task in getKey() or one frame of the interrupt handler, however the
\* frames are stacked.
InGetKey == {"test", "advance", "empty", "release"}

LockExclusive ==
  \A t \in Tasks :
    /\ pc[t] \in InGetKey <=> lock = [task |-> t, depth |-> 0]
    /\ \A i \in 1..Len(irq[t]) :
         irq[t][i].at = "store"
           <=> lock = [task |-> t, depth |-> Len(irq[t]) - i + 1]

\* The keys that getKey() has still to return.
Unread ==
  [i \in 1..Masked(wr + KEY_BUFFER_SIZE - rd) |-> ring[Masked(rd + i - 1)]]

Position(key) == CHOOSE i \in 1..Len(stored) : stored[i] = key

Ascending(s) == \A i \in 1..Len(s) - 1 : s[i] < s[i + 1]

\* The ring holds the newest of the keys stored, in their order; no key is read
\* twice, by one task or by two, and none after a later one.  The ring may lose
\* keys, whole rounds of it at a time, when nobody reads them.  As long as no handler
\* had to wait for the lock, the order is the one in which the keys were typed.
RingSound ==
  LET all == taken \o Unread
      lost == Len(stored) - Len(all)
  IN  /\ TypeOK
      /\ ~spun => Ascending([i \in 1..Len(all) |-> all[i].n])
      /\ Unread = SubSeq(stored, Len(stored) - Len(Unread) + 1, Len(stored))
      /\ Ascending([i \in 1..Len(all) |-> Position(all[i])])
      /\ lost >= 0 /\ lost % KEY_BUFFER_SIZE = 0

\* SHIFT is never stuck: while it is on, one of the two keys is held down, whatever
\* other keys and prefix bytes came in between and wherever the handlers wait.
NoStuckModifier == "SHIFT" \in mods => down \cap {KEY_LSHIFT, KEY_RSHIFT} # {}

\* The lock is held by code below a handler that waits for it, on the same stack.
Stuck == lock # NoOne /\ Len(irq[lock.task]) > lock.depth

\* What the handler and the readers share stays sound however they interrupt each other:
\* the lock has one holder, the ring its keys in order, and no modifier is stuck.
KeysSound == LockExclusive /\ RingSound /\ NoStuckModifier

\* When typing stops and somebody reads, no key stays in a handler or in the ring,
\* unless the handler waits for the code it interrupted or for a tick that cannot come.
KeysDrain ==
  (typed = MaxKeys)
    ~> \/ \A t \in Tasks : irq[t] = <<>> /\ (wr = rd \/ pc[t] = "idle")
       \/ Stuck \/ hung

=============================================================================
