---------------------------- MODULE SystemClock ----------------------------
(***************************************************************************)
(* What runs on the system clock: the alarms, the time of day with the     *)
(* calls that sleep, and the profiler with the heap it takes its memory    *)
(* from.  The part that runs is chosen once and for all; the others keep   *)
(* one initial state.                                                      *)
(***************************************************************************)
EXTENDS Alarms

CONSTANTS
  TickWord, ALT_US, Rates, Time, Zone, MaxElapsed,                   \* see TimeOfDay
  INT_MAX, LoopsPerMicrosecond, Sleep,
  Arc, HeapStart, HeapLimit, SlabIncrement, TextBytes, Request, MaxCalls  \* see CallGraph

VARIABLES
  part,
  nticks, tick_rate, alt_resettime, alt_timezone, setting, answer, slept, set, elapsed,  \* time of day
  heap_end, slab, list, ticking, pcsample_need_init, s_pcsamples, pc, regs, left,        \* profiler
  blocks, refused, starts, stray, calls, raced

Day == INSTANCE TimeOfDay WITH Word <- TickWord

Profiler == INSTANCE CallGraph

\* A clock ticks at a positive rate, a time is set in its normal form, and a
\* microsecond is no longer than the longest loop.
ASSUME TimeAssumption ==
  /\ TickWord \in Nat \ {0} /\ ALT_US \in Nat \ {0} /\ Rates \subseteq Nat \ {0}
  /\ Time \subseteq [sec : Nat, usec : 0 .. ALT_US - 1] /\ MaxElapsed \in Nat
  /\ LoopsPerMicrosecond \in Nat \ {0} /\ INT_MAX \in Nat /\ LoopsPerMicrosecond <= INT_MAX
  /\ Sleep \subseteq Nat

\* The heap ends on a word (linker.x), a slab holds a record, and the program
\* gives no memory back.
ASSUME ProfilerAssumption ==
  /\ \A a \in Arc : a = <<a[1], a[2]>>
  /\ HeapStart \in Nat \ {0} /\ HeapLimit \in Nat /\ HeapStart <= HeapLimit /\ HeapLimit % 4 = 0
  /\ SlabIncrement \in Nat /\ SlabIncrement >= Profiler!RecordSize
  /\ TextBytes \in Nat /\ Request \subseteq Nat /\ MaxCalls \in Nat

times == <<nticks, tick_rate, alt_resettime, alt_timezone, setting, answer, slept, set, elapsed>>
profile == <<heap_end, slab, list, ticking, pcsample_need_init, s_pcsamples, pc, regs, left,
             blocks, refused, starts, stray, calls, raced>>
all == <<vars, times, profile, part>>

ClockInit == Init /\ Day!Init /\ Profiler!Init /\ part \in {"alarms", "time", "profiler"}

ClockNext == \/ part = "alarms" /\ Next /\ UNCHANGED <<times, profile, part>>
             \/ part = "time" /\ Day!Next /\ UNCHANGED <<vars, profile, part>>
             \/ part = "profiler" /\ Profiler!Next /\ UNCHANGED <<vars, times, part>>

ClockSpec == /\ ClockInit /\ [][ClockNext]_all
             /\ WF_vars(part = "alarms" /\ Visit)
             /\ WF_vars(part = "alarms" /\ \E period \in Word : Callback_returns(period))

-----------------------------------------------------------------------------
(* The clock and the sleeping calls answer within the precision they have. *)
TimeRight == part = "time" => Day!TimeRight

(* The profiler's records and the program's memory never overlap, and      *)
(* every call recorded is counted.                                         *)
CallGraphOK == part = "profiler" => Profiler!CallGraphOK

(* Every sample of the program's text is counted in the histogram          *)
(* (alt_gmon.c:260), unless sbrk has refused the profiler its memory.      *)
SamplesCounted == Profiler!SamplesCounted

(* The sampling alarm is started once.                                     *)
StartedOnce == Profiler!StartedOnce
=============================================================================
