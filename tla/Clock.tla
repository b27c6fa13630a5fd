--------------------------------- MODULE Clock ---------------------------------
(***************************************************************************)
(* The clock_gettime() system call (libc/syscall_time.cpp): it reads the    *)
(* battery clock register by register (arch/x86/realtimex86.cpp) and turns  *)
(* the reading into seconds since 1970.  The clock runs on meanwhile, and   *)
(* the task may lose the processor between two registers.                   *)
(*                                                                          *)
(* A tick of the clock is one step.  In a real one the registers are        *)
(* undefined while it updates them (bit 7 of register A), which getTime()   *)
(* does not look at: what a read in that moment returns is left out.        *)
(***************************************************************************)
EXTENDS Integers, Sequences

CONSTANTS
  Starts,    \* times at which a behaviour may begin
  MaxTicks,  \* bound: seconds that pass
  MaxCalls   \* bound: calls made

ClockAssumption ==
  /\ MaxTicks \in Nat /\ MaxCalls \in Nat
  /\ Starts \subseteq [seconds : 0..59, minutes : 0..59, hours : 0..23,
                      day : 1..31, month : 1..12, year : 1970..2037]

VARIABLES
  now,      \* the time that the battery clock holds
  ticks,    \* seconds that have passed
  calls,    \* calls made
  pc,       \* registers read by the call, or Idle
  info,     \* TimeInfo: what the call has read
  entered,  \* the time at which the call began
  tv_sec    \* the result of the last call

vars == <<now, ticks, calls, pc, info, entered, tv_sec>>

Idle == -1

-----------------------------------------------------------------------------
(* The battery clock                                                         *)

IsLeap(year) == year % 4 = 0 /\ (year % 100 # 0 \/ year % 400 = 0)

DaysIn(month, year) ==
  CASE month = 2 -> IF IsLeap(year) THEN 29 ELSE 28
    [] month \in {4, 6, 9, 11} -> 30
    [] OTHER -> 31

\* The time one second later.
After(t) ==
  CASE t.seconds < 59 -> [t EXCEPT !.seconds = @ + 1]
    [] t.seconds = 59 /\ t.minutes < 59 -> [t EXCEPT !.seconds = 0, !.minutes = @ + 1]
    [] t.seconds = 59 /\ t.minutes = 59 /\ t.hours < 23 ->
         [t EXCEPT !.seconds = 0, !.minutes = 0, !.hours = @ + 1]
    [] OTHER ->
         LET midnight == [t EXCEPT !.seconds = 0, !.minutes = 0, !.hours = 0]
         IN  CASE t.day < DaysIn(t.month, t.year) -> [midnight EXCEPT !.day = @ + 1]
               [] t.day = DaysIn(t.month, t.year) /\ t.month < 12 ->
                    [midnight EXCEPT !.day = 1, !.month = @ + 1]
               [] OTHER -> [midnight EXCEPT !.day = 1, !.month = 1, !.year = @ + 1]

\* The registers hold two decimal digits each.
Digits(n) == (n \div 10) * 16 + (n % 10)

Register(r) ==
  CASE r = "year" -> Digits(now.year % 100)
    [] r = "century" -> Digits(now.year \div 100)
    [] OTHER -> Digits(now[r])

Tick ==
  /\ ticks < MaxTicks
  /\ ticks' = ticks + 1
  /\ now' = After(now)
  /\ UNCHANGED <<calls, pc, info, entered, tv_sec>>

-----------------------------------------------------------------------------
(* RealtimeX86::getTime()                                                    *)

bcd(val) == (val % 16) + (val \div 16) * 10

\* Mutant: the largest unit is read first.
RegistersDown == <<"century", "year", "month", "day", "hours", "minutes", "seconds">>

\* The order of the reads.
Registers == <<"seconds", "minutes", "hours", "day", "month", "year", "century">>

NoInfo == [r \in {"seconds", "minutes", "hours", "day", "month", "year"} |-> 0]

\* The year is the sum of two registers.
Put(i, r, v) ==
  IF r \in {"year", "century"}
  THEN [i EXCEPT !.year = @ + (IF r = "century" THEN v * 100 ELSE v)]
  ELSE [i EXCEPT ![r] = v]

ReadRegister ==
  /\ pc # Idle /\ pc < Len(Registers)
  /\ LET r == Registers[pc + 1]
     IN  info' = Put(info, r, bcd(Register(r)))
  /\ pc' = pc + 1
  /\ UNCHANGED <<now, ticks, calls, entered, tv_sec>>

-----------------------------------------------------------------------------
(* syscall_clock_gettime()                                                   *)

\* Days from 1 January 1970 to the first of a month; months count from 0.
DaysBefore(month, year) ==
  LET d[m \in 0..11] == IF m = 0 THEN 0 ELSE d[m - 1] + DaysIn(m, year)
      leaps == (year - 1) \div 4 - (year - 1) \div 100 + (year - 1) \div 400 - 477
  IN  365 * (year - 1970) + leaps + d[month]

\* __tm_to_secs() of the C library: tm_mon counts from 0, and 12 is a January.
\* The seconds are 86400 * days + rest.
TmToSecs(tm) ==
  LET year == 1900 + tm.tm_year + tm.tm_mon \div 12
  IN  [days |-> DaysBefore(tm.tm_mon % 12, year) + tm.tm_mday - 1,
       rest |-> 3600 * tm.tm_hour + 60 * tm.tm_min + tm.tm_sec]

\* What the call hands to it.
Tm(i) == [tm_sec |-> i.seconds, tm_min |-> i.minutes, tm_hour |-> i.hours,
          tm_mday |-> i.day, tm_mon |-> i.month, tm_year |-> i.year - 1900]

Call ==
  /\ pc = Idle /\ calls < MaxCalls
  /\ calls' = calls + 1
  /\ pc' = 0 /\ info' = NoInfo /\ entered' = now
  /\ UNCHANGED <<now, ticks, tv_sec>>

Return ==
  /\ pc = Len(Registers)
  /\ tv_sec' = TmToSecs(Tm(info))
  /\ pc' = Idle
  /\ UNCHANGED <<now, ticks, calls, info, entered>>

\* Any other clock: EINVAL, and nothing is read.
OtherClock == pc = Idle /\ UNCHANGED vars

Init ==
  /\ now \in Starts
  /\ ticks = 0 /\ calls = 0
  /\ pc = Idle /\ info = NoInfo /\ entered = now /\ tv_sec = [days |-> 0, rest |-> 0]

Next == Tick \/ Call \/ ReadRegister \/ Return \/ OtherClock

Spec == Init /\ [][Next]_vars

-----------------------------------------------------------------------------
(* Properties                                                                *)

Whole == pc = Len(Registers)

\* Seconds since 1970 of a time: what __tm_to_secs() makes of it when the months count
\* from 0.
Seconds(t) == TmToSecs([Tm(t) EXCEPT !.tm_mon = @ - 1])

\* The reading as a number whose digits are its fields: two readings compare as
\* their times do, whether or not there is such a day.
Order(i) == <<i.year * 372 + i.month * 31 + i.day, i.hours * 3600 + i.minutes * 60 + i.seconds>>
NotLater(a, b) == Order(a)[1] < Order(b)[1] \/ (Order(a)[1] = Order(b)[1] /\ Order(a)[2] <= Order(b)[2])

\* However the clock moves on between two reads of getTime(), the reading is never
\* behind the time of the call: a unit is read after every smaller one, so what a
\* carry adds is seen, if anything, twice.  (It may be ahead by a minute, a month
\* or a century.)
NotBehind == Whole => NotLater(entered, info)

\* As long as no minute ends during the call, what it reads is a time between its
\* beginning and its end.
Minute(t) == [t EXCEPT !.seconds = 0]
ReadInside ==
  Whole /\ Minute(entered) = Minute(now)
    => NotLater(entered, info) /\ NotLater(info, now)

\* What clock_gettime() makes of a clock that goes on while it is read.
ClockRight == NotBehind /\ ReadInside

\* The result is the Unix timestamp of the time that was read.  libc/syscall_time.cpp:22 says
\* of the conversion "Hack to convert time to unix timestamp." and, at :24, "Just make sure the
\* date/time is in right format."
TimestampRight == pc = Idle /\ calls > 0 => tv_sec = Seconds(info)
================================================================================
