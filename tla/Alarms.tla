------------------------------- MODULE Alarms -------------------------------
(***************************************************************************)
(* The alarms of the HAL: a doubly linked list of alarms, started and      *)
(* stopped with interrupts off by the program or from a callback, and      *)
(* alt_tick, which walks the list at interrupt level.  Times are unsigned  *)
(* words: arithmetic is modulo Wrap.                                       *)
(*                                                                         *)
(* The program starts an alarm only while it is not in the list, and a     *)
(* callback does not start its own.                                        *)
(***************************************************************************)
EXTENDS Integers

CONSTANTS Alarm,
          Root,        \* alt_alarm_list
          NULL,
          Wrap,        \* 2^32
          Rate,        \* what the clock driver passes to alt_sysclk_init
          StopsNext    \* may a callback stop the alarm the loop visits next?

ASSUME AlarmAssumption == /\ Wrap \in Nat /\ Wrap > 2
                          /\ Rate \in Nat \ {0}
                          /\ Root \notin Alarm /\ NULL \notin Alarm \union {Root}
                          /\ NULL \notin Int
                          /\ StopsNext \in BOOLEAN

Node == Alarm \union {Root}
Word == 0 .. Wrap - 1

VARIABLES _alt_tick_rate, _alt_nticks,
          next, previous,        \* alt_llist of every node
          time, rollover,        \* alt_alarm
          alarm, saved, calling  \* alt_tick: its locals alarm and next, inside a callback

links  == <<next, previous>>
fields == <<time, rollover>>
tick   == <<alarm, saved, calling>>
vars   == <<_alt_tick_rate, _alt_nticks, next, previous, time, rollover, alarm, saved, calling>>

Init == /\ _alt_tick_rate = 0 /\ _alt_nticks = 0
        /\ next     = [x \in Node |-> IF x = Root THEN Root ELSE NULL]
        /\ previous = [x \in Node |-> IF x = Root THEN Root ELSE NULL]
        /\ time = [a \in Alarm |-> 0] /\ rollover = [a \in Alarm |-> FALSE]
        /\ alarm = Root /\ saved = Root /\ calling = FALSE

(* In the list: neither never started nor unlinked.                        *)
Linked(a) == next[a] # NULL /\ next[a] # a

-----------------------------------------------------------------------------
(* The list.                                                               *)

alt_llist_insert_LinkFirst(list, entry) ==
  /\ next' = [next EXCEPT ![list] = entry, ![entry] = entry]
  /\ previous' = [previous EXCEPT ![entry] = list, ![next[list]] = entry]

alt_llist_insert(list, entry) ==
  /\ next' = [next EXCEPT ![entry] = next[list], ![list] = entry]
  /\ previous' = [previous EXCEPT ![entry] = list, ![next[list]] = entry]

alt_llist_remove_OneWay(entry) ==
  /\ next' = [next EXCEPT ![previous[entry]] = next[entry], ![entry] = entry]
  /\ previous' = [previous EXCEPT ![entry] = entry]

(* The entry is left pointing to itself.                                   *)
alt_llist_remove(entry) ==
  /\ next' = [next EXCEPT ![previous[entry]] = next[entry], ![entry] = entry]
  /\ previous' = [previous EXCEPT ![next[entry]] = previous[entry], ![entry] = entry]

-----------------------------------------------------------------------------
(* The clock driver.                                                       *)

alt_sysclk_init == /\ _alt_tick_rate = 0 /\ _alt_tick_rate' = Rate
                   /\ UNCHANGED <<_alt_nticks, links, fields, tick>>

-----------------------------------------------------------------------------
(* Calls, by the program between ticks or by a callback.                   *)

Between == alarm = Root \/ calling

alt_alarm_start(a, nticks) ==
  /\ Between /\ ~Linked(a) /\ alarm # a
  /\ _alt_tick_rate # 0
  /\ LET due == (nticks + _alt_nticks + 1) % Wrap
     IN  /\ time' = [time EXCEPT ![a] = due]
         /\ rollover' = [rollover EXCEPT ![a] = due < _alt_nticks]
  /\ alt_llist_insert(Root, a)
  /\ UNCHANGED <<_alt_tick_rate, _alt_nticks, tick>>

(* Without a system clock there are no alarms: -ENOTSUP.                   *)
alt_alarm_refused == _alt_tick_rate = 0 /\ UNCHANGED vars

alt_alarm_stop(a) ==
  /\ Between /\ next[a] # NULL
  /\ calling /\ a = saved => StopsNext
  /\ alt_llist_remove(a)
  /\ UNCHANGED <<_alt_tick_rate, _alt_nticks, fields, tick>>

-----------------------------------------------------------------------------
(* The interrupt of the system clock.  alarm = Root: alt_tick is not       *)
(* running.                                                                *)

alt_tick == /\ alarm = Root /\ _alt_tick_rate # 0
            /\ _alt_nticks' = (_alt_nticks + 1) % Wrap
            /\ alarm' = next[Root]
            /\ UNCHANGED <<_alt_tick_rate, links, fields, saved, calling>>

(* The flag is cleared by the tick that wraps the counter.                 *)
Rolled_Never(a) == rollover[a]

Rolled(a) == rollover[a] /\ _alt_nticks # 0

Expired(a) == time[a] <= _alt_nticks /\ ~Rolled(a)

Visit == /\ alarm # Root /\ ~calling
         /\ rollover' = [rollover EXCEPT ![alarm] = Rolled(alarm)]
         /\ IF Expired(alarm)
            THEN calling' = TRUE /\ saved' = next[alarm] /\ UNCHANGED alarm
            ELSE alarm' = next[alarm] /\ UNCHANGED <<saved, calling>>
         /\ UNCHANGED <<_alt_tick_rate, _alt_nticks, links, time>>

Rearm(a, period) ==
  LET due == (time[a] + period) % Wrap
  IN  /\ time' = [time EXCEPT ![a] = due]
      /\ rollover' = [rollover EXCEPT ![a] = due < _alt_nticks \/ @]
      /\ UNCHANGED links

Callback_returns(period) ==
  /\ calling
  /\ IF period = 0 THEN alt_llist_remove(alarm) /\ UNCHANGED fields ELSE Rearm(alarm, period)
  /\ calling' = FALSE /\ alarm' = saved /\ saved' = Root
  /\ UNCHANGED <<_alt_tick_rate, _alt_nticks>>

-----------------------------------------------------------------------------
MaxDelay == Wrap - 2     \* nticks = Wrap - 1 would come due at once

Next == \/ alt_sysclk_init \/ alt_alarm_refused \/ alt_tick \/ Visit
        \/ \E a \in Alarm : \/ \E nticks \in 0 .. MaxDelay : alt_alarm_start(a, nticks)
                            \/ alt_alarm_stop(a)
        \/ \E period \in Word : Callback_returns(period)

(* alt_tick is straight-line code but for the callbacks, which return.     *)
Fairness == WF_vars(Visit) /\ WF_vars(\E period \in Word : Callback_returns(period))

Spec == Init /\ [][Next]_vars /\ Fairness

-----------------------------------------------------------------------------
(* Every variable keeps its type.                                          *)
TypeOK == /\ _alt_tick_rate \in {0, Rate} /\ _alt_nticks \in Word
          /\ next \in [Node -> Node \union {NULL}] /\ previous \in [Node -> Node \union {NULL}]
          /\ time \in [Alarm -> Word] /\ rollover \in [Alarm -> BOOLEAN]
          /\ alarm \in Node /\ saved \in Node /\ calling \in BOOLEAN

(* The links stay a ring through Root: whoever is in the list is his       *)
(* neighbours' neighbour, and the walk of alt_tick (alt_tick.c:100) stands *)
(* on a listed alarm unless its callback has just unlinked it.             *)
InRing(x) == x = Root \/ Linked(x)

RingSound == /\ \A x \in Node : InRing(x) =>
                  /\ InRing(next[x]) /\ InRing(previous[x])
                  /\ previous[next[x]] = x /\ next[previous[x]] = x
             /\ InRing(saved) /\ (~calling => InRing(alarm))

SafeList == TypeOK /\ RingSound

(* The ticks left before a listed alarm rings.                             *)
Left(a) == IF ~Linked(a) THEN NULL
           ELSE time[a] - _alt_nticks + (IF Rolled(a) THEN Wrap ELSE 0)

AC == INSTANCE AlarmClock WITH Off <- NULL, MaxWait <- Wrap - 1,
                               left <- [a \in Alarm |-> Left(a)]

(* Through every wrap of the tick counter an alarm rings on its tick,      *)
(* neither early nor late, whatever other alarms and callbacks do.         *)
ImplementsAlarmClock == AC!Spec

(* alt_tick returns.                                                       *)
TickReturns == alarm # Root ~> alarm = Root
=============================================================================
