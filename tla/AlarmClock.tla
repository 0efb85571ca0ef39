----------------------------- MODULE AlarmClock -----------------------------
(***************************************************************************)
(* What the alarm service promises: an alarm started with nticks rings     *)
(* nticks + 1 ticks later, then again after as many ticks as its callback  *)
(* asks for, until the callback asks for none or the alarm is stopped; no  *)
(* tick passes over an alarm that is due.                                  *)
(***************************************************************************)
EXTENDS Integers

CONSTANTS Alarm, Off, MaxWait

VARIABLE left          \* ticks until the alarm rings, Off when it is not set

Init == left = [a \in Alarm |-> Off]

Set(a, n) == left' = [left EXCEPT ![a] = n]

Start(a) == left[a] = Off /\ \E n \in 0 .. MaxWait - 1 : Set(a, n + 1)
Stop(a)  == left[a] # Off /\ Set(a, Off)
Ring(a)  == left[a] = 0 /\ \E n \in {Off} \union 1 .. MaxWait : Set(a, n)

Tick == /\ \A a \in Alarm : left[a] # 0
        /\ left' = [a \in Alarm |-> IF left[a] = Off THEN Off ELSE left[a] - 1]

Next == Tick \/ \E a \in Alarm : Start(a) \/ Stop(a) \/ Ring(a)

Spec == Init /\ [][Next]_left
=============================================================================
