---------------------------- MODULE WhiteBalance ----------------------------
(***************************************************************************)
(* The white balance loop: isp_stat_awb adds up the white pixels of a      *)
(* frame, isp_awb_handler of avalon_isp_algo_2a.c reads the sums one       *)
(* register at a time and writes three gains, and isp_wb multiplies the    *)
(* pixels with them.  Statistics are taken before the gains, so the loop   *)
(* is open.  A frame is of one colour here: the sums are that of its       *)
(* pixels when they count as white, and zero when not.                     *)
(***************************************************************************)
EXTENDS Integers

CONSTANTS
  Colour,        \* the colours of frames: records r, g, b
  PixCnt,        \* pixels of a frame
  StatMin, StatMax,     \* stat_awb_min, stat_awb_max
  ZeroQuotient   \* what n / 0 may yield

(* PixCnt is below 1052688, so that 32-bit arithmetic does not wrap:       *)
(* sum_g << 4 stays below 2^32.                                            *)

VARIABLES
  sum,          \* REG_STAT_AWB_SUM_R, _G, _B
  read,         \* the handler's sum_r, sum_g, sum_b
  gain,         \* wb_rgain, wb_ggain, wb_bgain
  pc,           \* the handler's next access, or "idle"
  latest,       \* colour of the frame the sums are of
  torn          \* history: a frame has ended since the handler began

vars == <<sum, read, gain, pc, latest, torn>>

Channel == {"r", "g", "b"}

White(c) == \A x \in Channel : StatMin <= c[x] /\ c[x] <= StatMax
SumOf(c) == [x \in Channel |-> IF White(c) THEN PixCnt * c[x] ELSE 0]

(* (sum_g << 4) / sum_c, and the 8 bits of it that the register takes.     *)
gain0_Late(g, c) ==            \* mutant: the shift comes after the division
  IF c = 0 THEN ZeroQuotient ELSE {(g \div c) * 16}
gain0(g, c) == IF c = 0 THEN ZeroQuotient ELSE {(g * 16) \div c}
as_writedata(v) == v % 256

(* isp_wb: a pixel of channel value v.                                     *)
Balance(v, k) == IF (v * k) \div 16 > 255 THEN 255 ELSE (v * k) \div 16

Init ==
  /\ latest \in Colour
  /\ sum = [x \in Channel |-> 0] /\ read = sum
  /\ gain = [x \in Channel |-> 16]
  /\ pc = "idle" /\ torn = TRUE

FrameEnd ==
  /\ latest' \in Colour /\ sum' = SumOf(latest')
  /\ torn' = TRUE
  /\ UNCHANGED <<read, gain, pc>>

Call == pc = "idle" /\ pc' = "read_r" /\ torn' = FALSE
        /\ UNCHANGED <<sum, read, gain, latest>>

(* Three of the four reads; pix_cnt is read and not used.                  *)
Read(x, here, next) ==
  /\ pc = here /\ pc' = next
  /\ read' = [read EXCEPT ![x] = sum[x]]
  /\ UNCHANGED <<sum, gain, latest, torn>>

WriteGreen ==
  /\ pc = "write_g" /\ pc' = "write_r"
  /\ gain' = [gain EXCEPT !.g = 16]
  /\ UNCHANGED <<sum, read, latest, torn>>

WriteGain(x, here, next) ==
  /\ pc = here /\ pc' = next
  /\ \E k \in gain0(read.g, read[x]) :
       gain' = [gain EXCEPT ![x] = as_writedata(k)]
  /\ UNCHANGED <<sum, read, latest, torn>>

Next ==
  \/ FrameEnd \/ Call
  \/ Read("r", "read_r", "read_g") \/ Read("g", "read_g", "read_b")
  \/ Read("b", "read_b", "write_g")
  \/ WriteGreen
  \/ WriteGain("r", "write_r", "write_b") \/ WriteGain("b", "write_b", "idle")

Spec == Init /\ [][Next]_vars

-----------------------------------------------------------------------------
(* Gains are one register wide.                                            *)
TypeOK ==
  /\ sum \in [Channel -> 0 .. 255 * PixCnt] /\ read \in [Channel -> 0 .. 255 * PixCnt]
  /\ gain \in [Channel -> 0..255]
  /\ pc \in {"idle", "read_r", "read_g", "read_b", "write_g", "write_r", "write_b"}
  /\ latest \in Colour /\ torn \in BOOLEAN

Handled == pc = "idle" /\ ~torn /\ White(latest) /\ sum = SumOf(latest)
Quotient(x) == (latest.g * 16) \div latest[x]

(* avalon_isp_algo_2a.c:63-76: when no frame ended while the handler ran   *)
(* and a gain fits its register, the balanced red and blue of the frame    *)
(* come within one step of the gain, and below, of its green.              *)
GreyBecomesGrey ==
  Handled => \A x \in {"r", "b"} :
    Quotient(x) <= 255 =>
      LET v == Balance(latest[x], gain[x])
      IN  v <= latest.g /\ latest.g - v <= latest[x] \div 16 + 1
=============================================================================
