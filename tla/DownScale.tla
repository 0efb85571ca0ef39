----------------------------- MODULE DownScale -----------------------------
(***************************************************************************)
(* vip_dscale (src/prj_qsys/avalon_vip/vip/vip_dscale.v): of dscale + 1    *)
(* pixels it lets one pass, and of dscale + 1 lines, by gating the clock   *)
(* and href of what comes next, avalon_dvp_wch.  One Clock step is one     *)
(* posedge of pclk; the pulse of out_pclk that may follow it, in the low   *)
(* half of pclk, is the state after the step.                              *)
(*                                                                         *)
(* The pixel stream has lines of Width pixels that begin every Period      *)
(* clocks, Lines of them in a frame, then a line of vsync and a porch.     *)
(* A pixel's value is its place, so the properties can tell pixels apart.  *)
(***************************************************************************)
EXTENDS Integers, FiniteSets

CONSTANTS
  Width, Period, Lines,   \* the stream
  Scales,                 \* what dscale may be
  Blank                   \* in_data outside the lines: the stages drive zero

VARIABLES
  x, y,         \* the stream: clock within the line, and line
  dscale,
  prev_href, pix_cnt, prev_vsync, line_cnt, data_r,
  passed,       \* history: pulses of out_pclk with out_href in this line
  settled       \* history: a vsync and a line have gone by since the reset

scaler == <<prev_href, pix_cnt, prev_vsync, line_cnt, data_r>>
vars == <<x, y, dscale, scaler, passed, settled>>

in_href  == y < Lines /\ x < Width
in_vsync == y = Lines
in_data  == IF in_href THEN <<x, y>> ELSE Blank

line_start  == in_href /\ ~prev_href
line_end    == prev_href /\ ~in_href
frame_start == prev_vsync /\ ~in_vsync

out_pclk == pix_cnt = 0
out_href == in_href /\ line_cnt = 0

Init == x \in 0 .. Period - 1 /\ y \in 0 .. Lines + 1 /\ dscale \in Scales
        /\ prev_href = FALSE /\ pix_cnt = 0 /\ prev_vsync = FALSE /\ line_cnt = 0
        /\ data_r = Blank /\ passed = 0 /\ settled = 0

Stream ==
  /\ x' = (x + 1) % Period
  /\ y' = IF x' = 0 THEN (y + 1) % (Lines + 2) ELSE y

(* The counter of pixels runs on through the porches.                      *)
Pixels ==
  /\ prev_href' = in_href
  /\ pix_cnt' = IF line_start \/ pix_cnt = dscale THEN 0 ELSE (pix_cnt + 1) % 16

Rows_NoClear ==            \* mutant: vsync does not restart the counter
  /\ prev_vsync' = in_vsync
  /\ line_cnt' = IF line_end THEN IF line_cnt = dscale THEN 0 ELSE (line_cnt + 1) % 16
                 ELSE line_cnt

Rows ==
  /\ prev_vsync' = in_vsync
  /\ line_cnt' = IF frame_start THEN 0
                 ELSE IF line_end THEN IF line_cnt = dscale THEN 0 ELSE (line_cnt + 1) % 16
                 ELSE line_cnt

Data == data_r' = IF pix_cnt = 0 /\ line_cnt = 0 THEN in_data ELSE data_r

(* What the next stage has clocked in, counted from the line's first pixel.*)
History ==
  /\ passed' = (IF x' = 0 THEN 0 ELSE passed) + (IF out_pclk' /\ out_href' THEN 1 ELSE 0)
  /\ settled' = IF settled = 0 /\ frame_start THEN 1
                ELSE IF settled = 1 /\ line_end THEN 2 ELSE settled

Clock == Stream /\ Pixels /\ Rows /\ Data /\ History /\ UNCHANGED dscale

Reset ==
  /\ prev_href' = FALSE /\ pix_cnt' = 0 /\ prev_vsync' = FALSE /\ line_cnt' = 0
  /\ data_r' = Blank
  /\ passed' = 0 /\ settled' = 0 /\ UNCHANGED <<x, y, dscale>>

Next == Clock \/ Reset

-----------------------------------------------------------------------------
(* What remains of a line: the pixels one after each multiple of the scale.*)
Kept == Cardinality({k \in 0 .. Width - 1 : (k - 1) % (dscale + 1) = 0})

(* vip_dscale.v:34-93: with a line period that is a multiple of dscale + 1 *)
(* the lines 0, dscale + 1, 2 (dscale + 1), ... of a frame pass and no     *)
(* others, each with the same number of pixels whatever the phase of the   *)
(* counter was, and each pixel but a line's first is one of the line, at   *)
(* even distances.  (The first is what was stored last: see README.)       *)
Decimates ==
  settled = 2 /\ Period % (dscale + 1) = 0 =>
    /\ in_href => (out_href <=> y % (dscale + 1) = 0)
    /\ out_href /\ out_pclk /\ x > 1 => data_r = <<x - dscale - 1, y>>
    /\ y < Lines /\ x = Width => passed = IF y % (dscale + 1) = 0 THEN Kept ELSE 0
=============================================================================
