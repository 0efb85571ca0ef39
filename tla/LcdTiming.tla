------------------------------ MODULE LcdTiming ------------------------------
(***************************************************************************)
(* The LCD timing generator lcd_rgb_timing_colorbar: pixel and line        *)
(* counters on the pixel clock and the registered sync and data enable.    *)
(* Syncs are modelled as "pulse on", whatever their polarity; the colour   *)
(* bars are unconnected in this design and are left out.                   *)
(***************************************************************************)
EXTENDS Integers

CONSTANTS
  H_FRONT, H_PULSE, H_BACK, H_DISP,
  V_FRONT, V_PULSE, V_BACK, V_DISP

H_TOTAL == H_FRONT + H_PULSE + H_BACK + H_DISP
V_TOTAL == V_FRONT + V_PULSE + V_BACK + V_DISP

VARIABLES
  reset,              \* timing_reset of the LCD controller
  pix_cnt, line_cnt,
  lcd_de, lcd_hs, lcd_vs

vars == <<reset, pix_cnt, line_cnt, lcd_de, lcd_hs, lcd_vs>>

Init ==
  /\ reset = TRUE
  /\ pix_cnt = 0 /\ line_cnt = 0
  /\ lcd_de = FALSE /\ lcd_hs = FALSE /\ lcd_vs = FALSE

AssertReset ==
  /\ reset' = TRUE
  /\ pix_cnt' = 0 /\ line_cnt' = 0
  /\ lcd_de' = FALSE /\ lcd_hs' = FALSE /\ lcd_vs' = FALSE

ReleaseReset ==
  /\ reset' = FALSE
  /\ UNCHANGED <<pix_cnt, line_cnt, lcd_de, lcd_hs, lcd_vs>>

\* Slip: the line changes with the pixel counter, not at the sync pulse.
next_line_AtWrap ==
  IF pix_cnt # H_TOTAL - 1 THEN line_cnt
  ELSE IF line_cnt < V_TOTAL - 1 THEN line_cnt + 1 ELSE 0
\* The line changes where the horizontal sync pulse starts.
next_line ==
  IF pix_cnt # H_FRONT - 1 THEN line_cnt
  ELSE IF line_cnt < V_TOTAL - 1 THEN line_cnt + 1 ELSE 0

display_area ==
  pix_cnt >= H_FRONT + H_PULSE + H_BACK /\ line_cnt >= V_FRONT + V_PULSE + V_BACK

PclkEdge ==
  /\ ~reset
  /\ pix_cnt' = IF pix_cnt < H_TOTAL - 1 THEN pix_cnt + 1 ELSE 0
  /\ line_cnt' = next_line
  /\ lcd_de' = display_area
  /\ lcd_hs' = (pix_cnt \in H_FRONT .. H_FRONT + H_PULSE - 1)
  /\ lcd_vs' = (line_cnt \in V_FRONT .. V_FRONT + V_PULSE - 1)
  /\ UNCHANGED reset

Next == AssertReset \/ ReleaseReset \/ PclkEdge

Spec == Init /\ [][Next]_vars
FairSpec == Spec /\ WF_vars(PclkEdge)

-----------------------------------------------------------------------------
(* Properties.                                                             *)

(* Types of the counters and the generator's registers.                    *)
TypeOK ==
  /\ reset \in BOOLEAN
  /\ pix_cnt \in 0 .. H_TOTAL - 1
  /\ line_cnt \in 0 .. V_TOTAL - 1
  /\ {lcd_de, lcd_hs, lcd_vs} \subseteq BOOLEAN

\* The beam counted from the start of a horizontal pulse, where lines change.
column == IF pix_cnt >= H_FRONT THEN pix_cnt - H_FRONT
          ELSE pix_cnt + H_TOTAL - H_FRONT

first_line == V_FRONT + V_PULSE + V_BACK

\* Displayed positions of line line_cnt from the beam on.
rest_of_line ==
  IF line_cnt < first_line THEN 0
  ELSE IF column <= H_PULSE + H_BACK THEN H_DISP
  ELSE IF column < H_TOTAL - H_FRONT THEN H_TOTAL - H_FRONT - column
  ELSE 0

lines_below == IF line_cnt < first_line THEN V_DISP ELSE V_TOTAL - 1 - line_cnt

\* The frame has started: the beam has passed the first position of the pulse.
started == line_cnt > V_FRONT \/ (line_cnt = V_FRONT /\ column > 0)

(* The generator implements the raster: every vertical pulse is followed by *)
(* exactly H_DISP * V_DISP clocks with lcd_de, each of them after the       *)
(* pulse, although the outputs are registered and the line counter steps in *)
(* the middle of the pixel counter's period.                                *)
Panel == INSTANCE Raster WITH
  Pixels <- H_DISP * V_DISP,
  sync <- lcd_vs,
  due <- (IF lcd_de THEN 1 ELSE 0)
         + (IF started THEN rest_of_line + lines_below * H_DISP ELSE 0)

(* The generator implements the raster, under the mapping above.           *)
ImplementsRaster == Panel!Spec

(* Data enable and the sync pulses never overlap: the panel samples pixels  *)
(* only outside both.                                                       *)
DisplayOutsideSync == lcd_de => ~lcd_hs /\ ~lcd_vs

(* Unless it is put in reset, the generator starts frame after frame: the   *)
(* burst reader is triggered again and again.                               *)
FramesGoOn == []<>(lcd_vs \/ reset) /\ []<>(~lcd_vs)
=============================================================================
