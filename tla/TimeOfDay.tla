----------------------------- MODULE TimeOfDay -----------------------------
(***************************************************************************)
(* The calls that tell the time from the tick counter (alt_gettod.c,       *)
(* alt_settod.c, alt_times.c) and the wait that counts loops instead       *)
(* (alt_busy_sleep.c, usleep).                                             *)
(*                                                                         *)
(* The counter ticks between any two steps.  Setting the time takes two    *)
(* stores, and the time may be asked for between them.                     *)
(***************************************************************************)
EXTENDS Integers

CONSTANTS Word,           \* 2^32
          ALT_US,         \* microseconds in a second
          Rates,          \* clock rates a driver may set
          Time,           \* times the program sets
          Zone,           \* time zones
          MaxElapsed,     \* bound: ticks counted after the time was set
          INT_MAX, LoopsPerMicrosecond,   \* ALT_CPU_FREQ / (cycles_per_loop * 1000000)
          Sleep           \* microseconds the program sleeps

ENOSYS == 88
ENOTSUP == 134

VARIABLES nticks, tick_rate,
          alt_resettime, alt_timezone,
          setting,        \* settimeofday is between its stores: what is still to store
          answer,         \* result of the last call
          slept,          \* of the last usleep: its argument and the loops counted
          set,            \* history: the time and zone last set, exactly?
          elapsed         \* history: ticks since

result == <<answer, slept>>
vars   == <<nticks, tick_rate, alt_resettime, alt_timezone, setting, answer, slept, set, elapsed>>

Zero == [sec |-> 0, usec |-> 0]
Awake == [us |-> 0, loops |-> 1]

Init == /\ nticks = 0 /\ tick_rate = 0
        /\ alt_resettime = Zero /\ alt_timezone = 0
        /\ setting = {} /\ answer = 0 /\ slept = Awake
        /\ set = [time |-> Zero, zone |-> 0, at |-> 0, exact |-> TRUE] /\ elapsed = 0

alt_sysclk_init == /\ tick_rate = 0 /\ tick_rate' \in Rates
                   /\ UNCHANGED <<nticks, alt_resettime, alt_timezone, setting, result, set, elapsed>>

alt_tick == /\ tick_rate > 0 /\ elapsed < MaxElapsed
            /\ nticks' = (nticks + 1) % Word /\ elapsed' = elapsed + 1
            /\ answer' = 0 /\ slept' = Awake
            /\ UNCHANGED <<tick_rate, alt_resettime, alt_timezone, setting, set>>

-----------------------------------------------------------------------------
Seconds == nticks \div tick_rate
Micros  == nticks * (ALT_US \div tick_rate)

Normal_NoBorrow(sec, usec) ==      \* mutant: only a full second is carried
  [sec |-> sec + (usec \div ALT_US), usec |-> IF usec < 0 THEN 0 ELSE usec % ALT_US]

(* The sum as a normal time.                                               *)
Normal(sec, usec) ==
  IF sec <= 0 /\ usec < 0 THEN Zero
  ELSE [sec |-> sec + (usec \div ALT_US), usec |-> usec % ALT_US]

(* The product is a 64-bit one here and a 32-bit one in settimeofday.      *)
Now == Normal(alt_resettime.sec + Seconds, alt_resettime.usec + (Micros % ALT_US))

ALT_GETTIMEOFDAY ==
  /\ answer' = IF tick_rate = 0 THEN -ENOTSUP ELSE 0      \* and Now, alt_timezone
  /\ UNCHANGED <<nticks, tick_rate, alt_resettime, alt_timezone, setting, slept, set, elapsed>>

ALT_SETTIMEOFDAY(t, z) ==
  /\ setting = {}
  /\ IF tick_rate = 0
     THEN /\ answer' = -ENOSYS
          /\ UNCHANGED <<alt_resettime, setting, set, elapsed>>
     ELSE /\ alt_resettime' = [alt_resettime EXCEPT !.sec = t.sec - Seconds]
          /\ setting' = {[usec |-> t.usec - ((Micros % Word) % ALT_US), zone |-> z]}
          /\ answer' = 0
          /\ set' = [time |-> t, zone |-> z, at |-> nticks, exact |-> Micros < Word]
          /\ elapsed' = 0
  /\ UNCHANGED <<nticks, tick_rate, alt_timezone, slept>>

Set_rest == /\ setting # {} /\ setting' = {}
            /\ \E s \in setting : /\ alt_resettime' = [alt_resettime EXCEPT !.usec = s.usec]
                                  /\ alt_timezone' = s.zone
            /\ UNCHANGED <<nticks, tick_rate, result, set, elapsed>>

(* Without a clock the answer is 0, as it is at the first tick.            *)
ALT_TIMES == /\ answer' = IF tick_rate = 0 THEN 0 ELSE nticks
             /\ UNCHANGED <<nticks, tick_rate, alt_resettime, alt_timezone, setting, slept, set,
                            elapsed>>

-----------------------------------------------------------------------------
(* A chunk is what INT_MAX loops last.  The loop of the rest counts down   *)
(* to zero after whole chunks: nothing left means every value of a word.   *)

Chunk == INT_MAX \div LoopsPerMicrosecond

alt_busy_sleep(us) ==
  LET big_loops == us \div Chunk
      rest      == (us % Chunk) * LoopsPerMicrosecond
  IN  big_loops * INT_MAX + (IF rest > 0 THEN rest ELSE IF big_loops > 0 THEN Word ELSE 1)

ALT_USLEEP(us) == /\ slept' = [us |-> us, loops |-> alt_busy_sleep(us)]
                  /\ UNCHANGED <<nticks, tick_rate, alt_resettime, alt_timezone, setting, answer,
                                 set, elapsed>>

-----------------------------------------------------------------------------
Next == \/ alt_sysclk_init \/ alt_tick \/ ALT_GETTIMEOFDAY \/ Set_rest \/ ALT_TIMES
        \/ \E t \in Time, z \in Zone : ALT_SETTIMEOFDAY(t, z)
        \/ \E us \in Sleep : ALT_USLEEP(us)

Spec == Init /\ [][Next]_vars

-----------------------------------------------------------------------------
TypeOK == /\ nticks \in 0 .. Word - 1 /\ tick_rate \in Rates \union {0}
          /\ alt_resettime.sec \in Int /\ alt_resettime.usec \in 1 - ALT_US .. ALT_US - 1
          /\ alt_timezone \in Zone \union {0} /\ elapsed \in 0 .. MaxElapsed

(* The time that was set, and the ticks since, in microseconds.            *)
Expected == set.time.sec * ALT_US + set.time.usec + elapsed * (ALT_US \div tick_rate)

(* The time told is the time set plus the ticks since, a normal time, and  *)
(* comes with the zone set: if the rate divides a second evenly            *)
(* (alt_gettod.c:92), the product in settimeofday has not wrapped          *)
(* (alt_settod.c:84), the counter has not wrapped since, and not between   *)
(* the two stores.                                                         *)
TellsTime ==
  /\ tick_rate > 0 /\ setting = {} /\ set.exact /\ set.at + elapsed < Word
  /\ ALT_US % tick_rate = 0
  => /\ Now.sec * ALT_US + Now.usec = Expected /\ Now.usec \in 0 .. ALT_US - 1
     /\ alt_timezone = set.zone

(* A sleep is never short and at most a loop per microsecond and chunk too *)
(* long, but for a whole number of chunks (alt_busy_sleep.c:104).          *)
SleepsLongEnough ==
  LET wanted == slept.us * LoopsPerMicrosecond
  IN  /\ slept.loops >= wanted
      /\ slept.us < Chunk \/ slept.us % Chunk # 0 =>
           slept.loops <= wanted + 1 + (slept.us \div Chunk) * LoopsPerMicrosecond

TimeRight == TypeOK /\ TellsTime /\ SleepsLongEnough

(* What alt_settod.c:60-62 says: an immediate call to gettimeofday()       *)
(* returns the time that was set.                                          *)
GetReturnsSet ==
  tick_rate > 0 /\ ALT_US % tick_rate = 0 /\ setting = {} /\ elapsed = 0 => Now = set.time
=============================================================================
