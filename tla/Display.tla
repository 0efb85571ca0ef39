------------------------------ MODULE Display ------------------------------
(***************************************************************************)
(* The LCD controller as two halves: the read channel, which follows a     *)
(* raster, and the timing generator, which implements one.  Only the half  *)
(* chosen once and for all runs, so that each can be checked at the size   *)
(* it needs: the read channel with short frames, the generator with the    *)
(* panel of the design.                                                    *)
(***************************************************************************)
EXTENDS LcdReader

CONSTANTS
  H_FRONT, H_PULSE, H_BACK, H_DISP,
  V_FRONT, V_PULSE, V_BACK, V_DISP

VARIABLES half, reset, pix_cnt, line_cnt, lcd_de, lcd_hs, timing_vs

Timing == INSTANCE LcdTiming WITH lcd_vs <- timing_vs

\* No porch, pulse or displayed span of the panel is empty.
ASSUME TimingAssumption ==
  /\ {H_FRONT, H_PULSE, H_BACK, H_DISP} \subseteq Nat \ {0}
  /\ {V_FRONT, V_PULSE, V_BACK, V_DISP} \subseteq Nat \ {0}

timing == <<reset, pix_cnt, line_cnt, lcd_de, lcd_hs, timing_vs>>
all == <<vars, timing, half>>

DisplayInit == Init /\ Timing!Init /\ half \in {"reader", "timing"}

DisplayNext ==
  \/ half = "reader" /\ Next /\ UNCHANGED <<half, timing>>
  \/ half = "timing" /\ Timing!Next /\ UNCHANGED <<half, vars>>

(* The half that is not chosen stays in reset, where nothing is due.       *)
DisplaySpec ==
  DisplayInit /\ [][DisplayNext]_all /\ Fairness /\ WF_timing(Timing!PclkEdge)

-----------------------------------------------------------------------------
(* Types of both halves' registers, the counts of the read channel, the    *)
(* legality of its bursts, and that the panel samples outside both pulses. *)
SafeDisplay == /\ TypeOK /\ PendingExact /\ LegalBurst
               /\ Timing!TypeOK /\ Timing!DisplayOutsideSync

(* The timing generator implements the raster the read channel follows.    *)
ImplementsRaster == Timing!ImplementsRaster

(* Frame after frame starts, and every frame that starts is displayed      *)
(* whole.                                                                  *)
FramesGoOn == FrameCompletes /\ Timing!FramesGoOn
=============================================================================
