------------------------------- MODULE Raster -------------------------------
(***************************************************************************)
(* What the LCD side relies on: a frame is a vertical sync pulse followed  *)
(* by exactly Pixels pixel clocks with data enable, none during the pulse. *)
(***************************************************************************)
EXTENDS Naturals

CONSTANT Pixels     \* H_DISP * V_DISP

VARIABLES
  sync,   \* the vertical sync pulse is on
  due     \* pixels of the current frame not displayed yet

vars == <<sync, due>>

Init == sync = FALSE /\ due = 0

StartPulse == ~sync /\ due = 0 /\ sync' = TRUE /\ due' = Pixels

EndPulse == sync /\ sync' = FALSE /\ UNCHANGED due

DisplayPixel == ~sync /\ due > 0 /\ due' = due - 1 /\ UNCHANGED sync

Reset == sync' = FALSE /\ due' = 0

Next == StartPulse \/ EndPulse \/ DisplayPixel \/ Reset

Spec == Init /\ [][Next]_vars
=============================================================================
