----------------------------- MODULE VideoPath -----------------------------
(***************************************************************************)
(* The parts of the image path that look at the pixel stream: vip_hist_equ *)
(* with its histogram and, on the same stream, the sums of the statistics; *)
(* the input's frame meter; the stages of the ISP that look at the         *)
(* neighbours of a pixel; the down scaler.  They share no state: the part  *)
(* that runs is chosen once and for all and the others keep one initial    *)
(* state.                                                                  *)
(***************************************************************************)
EXTENDS HistEqu

CONSTANTS
  OUT_BITS, Windows,                            \* statistics
  SensorPixels, SensorLines, FrameBits, MaxWrites,
  H_FRONT, H_PULSE, H_BACK, H_DISP,             \* the generator's raster
  V_FRONT, V_PULSE, V_BACK, V_DISP,
  Width, Blank,                                 \* the stream of scaler and windows
  Period, ScalerLines, Scales,                  \* ... into the scaler
  Lines, Gaps                                   \* ... into the windows

VARIABLES
  part,
  window, stat_vsync, tmp_cnt, tmp_sum, done, pix_cnt, pix_sum,          \* statistics
  module_reset, colorbar_en, cmos_href, cmos_vsync, cmos_frame,          \* input
  gen_pix_cnt, gen_line_cnt, gen_href, gen_vsync,
  out_href, out_vsync, prev_href, prev_vsync, vi_pix_cnt, vi_line_cnt,
  dvp_width, dvp_height, dvp_frame_cnt, entered, ended, writes,
  x, y, dscale, ds_href, ds_pix_cnt, ds_vsync, ds_line_cnt, data_r,      \* scaler
  passed, settled,
  stage, gap, lw_x, lw_y, frame, pos_r, in_r, line, line_out,            \* windows
  in_raw_r, p, odd_pix, lw_href, odd_line, result, in_dly, aligned, lw_resets

Stats == INSTANCE FrameStats WITH
  in_href <- in_valid, in_vsync <- in_flip_trigger, in_raw <- in_addr, prev_vsync <- stat_vsync

Vi == INSTANCE DvpVi WITH
  MaxPixels <- SensorPixels, MaxLines <- SensorLines,
  pix_cnt <- vi_pix_cnt, line_cnt <- vi_line_cnt

Scaler == INSTANCE DownScale WITH
  Lines <- ScalerLines,
  prev_href <- ds_href, pix_cnt <- ds_pix_cnt, prev_vsync <- ds_vsync, line_cnt <- ds_line_cnt

Window == INSTANCE LineWindow WITH
  x <- lw_x, y <- lw_y, ram <- line, prev_href <- lw_href, resets <- lw_resets

(* A raster with a clock of blanking between its lines and between its     *)
(* vsync and the lines.                                                    *)
ASSUME RasterAssumption ==
  /\ H_FRONT \in Nat /\ H_PULSE \in Nat /\ H_BACK \in Nat /\ H_DISP \in Nat
  /\ V_FRONT \in Nat \ {0} /\ V_PULSE \in Nat /\ V_BACK \in Nat /\ V_DISP \in Nat
  /\ H_FRONT + H_PULSE + H_BACK > 0

(* The sums of a frame fit their registers.  A value the bus idles at is   *)
(* one that adds nothing: its bin may be too large.                        *)
ASSUME StatsAssumption ==
  /\ 2^OUT_BITS \in Nat \ {0}
  /\ MaxPixels < 2^OUT_BITS /\ MaxPixels * Max_value < 2^OUT_BITS
  /\ \A w \in Windows : w \subseteq Addr /\ w \cap Idle \subseteq {0}

(* dscale is an argument of four bits.                                     *)
ASSUME ScalerAssumption ==
  /\ Width \in Nat \ {0} /\ Period \in Nat /\ Width < Period /\ ScalerLines \in Nat \ {0}
  /\ Scales \subseteq 0 .. 15

(* Lines of a Bayer image, longer than the delay of a stage; a stage       *)
(* drives no pixel between them.                                           *)
ASSUME WindowAssumption ==
  /\ Width \in Nat /\ Width >= 6 /\ Width % 2 = 0 /\ Lines \in Nat \ {0}
  /\ Gaps \subseteq Nat \ {0}
  /\ Blank \notin (0 .. 1) \X (0 .. Lines - 1) \X (0 .. Width - 1)

statistics == <<window, stat_vsync, tmp_cnt, tmp_sum, done, pix_cnt, pix_sum>>
input == <<module_reset, colorbar_en, cmos_href, cmos_vsync, cmos_frame,
           gen_pix_cnt, gen_line_cnt, gen_href, gen_vsync,
           out_href, out_vsync, prev_href, prev_vsync, vi_pix_cnt, vi_line_cnt,
           dvp_width, dvp_height, dvp_frame_cnt, entered, ended, writes>>
scaler == <<x, y, dscale, ds_href, ds_pix_cnt, ds_vsync, ds_line_cnt, data_r, passed, settled>>
windows == <<stage, gap, lw_x, lw_y, frame, pos_r, in_r, line, line_out,
             in_raw_r, p, odd_pix, lw_href, odd_line, result, in_dly, aligned, lw_resets>>
video == <<part, allVars, statistics, input, scaler, windows>>

VideoInit ==
  /\ EquInit /\ Stats!Init /\ Vi!Init /\ Scaler!Init /\ Window!Init
  /\ part \in {"stream", "input", "windows", "scaler"}
  /\ part # "input" => ~prev_href /\ ~prev_vsync /\ ~cmos_vsync
  /\ part # "scaler" => x = 0 /\ y = 0 /\ dscale = 0
  /\ part # "windows" => stage.name = "isp_bnr" /\ gap = 1 /\ pos_r = 0

VideoNext ==
  \/ part = "stream" /\ UNCHANGED <<part, input, scaler, windows>>
     /\ ((EquClock /\ Stats!Clock) \/ (EquReset /\ Stats!Reset))
  \/ part = "input" /\ Vi!Next /\ UNCHANGED <<part, allVars, statistics, scaler, windows>>
  \/ part = "scaler" /\ Scaler!Next /\ UNCHANGED <<part, allVars, statistics, input, windows>>
  \/ part = "windows" /\ Window!Next /\ UNCHANGED <<part, allVars, statistics, input, scaler>>

VideoSpec == VideoInit /\ [][VideoNext]_video

-----------------------------------------------------------------------------
(* isp_stat_ae.v:51-92, isp_stat_awb.v:55-113: the sums the CPU reads are  *)
(* those of the frame whose histogram it reads: each value times its bin,  *)
(* over the values that count, and as many pixels (a bin of an idle value  *)
(* may show more, see SumIsPixels).                                        *)
SumsOfTheFrame ==
  bak_whole =>
    /\ pix_sum = SumFunctionOnSet([a \in window |-> a * mem[bak_ram][a]], window)
    /\ pix_cnt - SumFunctionOnSet(mem[bak_ram], window \ Idle)
         \in IF window \cap Idle = {} THEN {0} ELSE 0 .. MaxPixels

(* The equaliser's table fits its width and every pixel is mapped by the   *)
(* complete table of the frame before; the statistics belong to it, too.   *)
SafeEqualisation == part = "stream" => EquTypeOK /\ PixelsEqualised /\ SumsOfTheFrame

(* The size of every whole frame is measured right; what a stage of the    *)
(* ISP computes from the pixels around one is computed from just those,    *)
(* with the kernel of its colour; and the scaler passes every              *)
(* (dscale + 1)th pixel of every (dscale + 1)th line.                      *)
SafeStream ==
  /\ part = "input" => Vi!FrameMeasured
  /\ part = "windows" => Window!WindowsFit /\ Window!ColoursFit
  /\ part = "scaler" => Scaler!Decimates
=============================================================================
