------------------------------ MODULE FrameSink ------------------------------
(***************************************************************************)
(* What the capture write channel promises, without bursts, watermarks or  *)
(* clock domains: pixels queue up in arrival order, and each one taken     *)
(* from the queue is stored at the next consecutive word of the frame      *)
(* buffer, until the programmed number of words has been stored.           *)
(***************************************************************************)
EXTENDS Naturals, Sequences

CONSTANTS
  Pixel,      \* the pixel values
  Base        \* the buffer addresses the CPU may program, in words

VARIABLES
  queue,      \* pixels accepted and not yet stored
  next,       \* the word the next pixel is stored at
  left,       \* words of the frame still to be stored
  stored      \* the latest word stored: <<address, pixel>>, or <<>>

vars == <<queue, next, left, stored>>

Init ==
  /\ queue = <<>>
  /\ next = 0
  /\ left = 0
  /\ stored = <<>>

Arrive ==
  /\ \E p \in Pixel : queue' = Append(queue, p)
  /\ UNCHANGED <<next, left, stored>>

TakeHead ==
  /\ left > 0
  /\ queue # <<>>
  /\ stored' = <<next, Head(queue)>>
  /\ queue' = Tail(queue)

Store ==
  /\ TakeHead
  /\ next' = next + 1
  /\ left' = left - 1

\* A new frame starts; the last word of the old one may be stored with it.
StartFrame ==
  /\ next' \in Base
  /\ left' \in Nat
  /\ TakeHead \/ UNCHANGED <<queue, stored>>

Clear ==
  /\ queue' = <<>>
  /\ next' = 0
  /\ left' = 0
  /\ UNCHANGED stored

Next == Arrive \/ Store \/ StartFrame \/ Clear

Spec == Init /\ [][Next]_vars
==============================================================================
