----------------------------- MODULE FrameStats -----------------------------
(***************************************************************************)
(* The sums of isp_stat_ae and isp_stat_awb (src/prj_qsys/avalon_isp_lite/ *)
(* isp_lite): while a frame runs, the pixels and their values are added    *)
(* up; the rising vsync hands both totals to the bus and announces them    *)
(* with a pulse, the falling one clears them.  isp_stat_ae counts every    *)
(* pixel, isp_stat_awb those between its registers min and max.  One of    *)
(* the three equal sums of isp_stat_awb is modelled.                       *)
(*                                                                         *)
(* in_href, in_vsync and in_raw are the ports, driven by another module    *)
(* that shares the clock.                                                  *)
(***************************************************************************)
EXTENDS Integers

CONSTANTS
  OUT_BITS,
  Windows       \* the sets of values that count: all, or min .. max

VARIABLES
  in_href, in_vsync, in_raw,
  window,       \* the values this block counts, fixed by its parameters
  prev_vsync, tmp_cnt, tmp_sum, done, pix_cnt, pix_sum

sums == <<tmp_cnt, tmp_sum>>
results == <<done, pix_cnt, pix_sum>>

Init ==
  /\ window \in Windows
  /\ prev_vsync = FALSE /\ tmp_cnt = 0 /\ tmp_sum = 0
  /\ done = FALSE /\ pix_cnt = 0 /\ pix_sum = 0

frame_start == prev_vsync /\ ~in_vsync
frame_end   == in_vsync /\ ~prev_vsync

Sum_KeepTotals ==          \* mutant: the totals run on from frame to frame
  IF in_href /\ in_raw \in window
  THEN /\ tmp_cnt' = (tmp_cnt + 1) % 2^OUT_BITS
       /\ tmp_sum' = (tmp_sum + in_raw) % 2^OUT_BITS
  ELSE UNCHANGED sums

(* tmp_cnt and tmp_sum: cleared by the falling vsync, before anything else.*)
Sum ==
  IF frame_start THEN tmp_cnt' = 0 /\ tmp_sum' = 0
  ELSE IF in_href /\ in_raw \in window
  THEN /\ tmp_cnt' = (tmp_cnt + 1) % 2^OUT_BITS
       /\ tmp_sum' = (tmp_sum + in_raw) % 2^OUT_BITS
  ELSE UNCHANGED sums

(* done, pix_cnt and pix_sum: taken at the rising vsync.                   *)
Publish ==
  /\ done' = frame_end
  /\ IF frame_end THEN pix_cnt' = tmp_cnt /\ pix_sum' = tmp_sum
                  ELSE UNCHANGED <<pix_cnt, pix_sum>>

(* One posedge of pclk, save for what drives the ports.                    *)
Clock == prev_vsync' = in_vsync /\ Sum /\ Publish /\ UNCHANGED window

(* rst_n clears all of it; when vsync is high just then, the next edge     *)
(* takes it for the end of a frame without pixels.                         *)
Reset ==
  /\ prev_vsync' = FALSE /\ tmp_cnt' = 0 /\ tmp_sum' = 0
  /\ done' = FALSE /\ pix_cnt' = 0 /\ pix_sum' = 0
  /\ UNCHANGED window
=============================================================================
