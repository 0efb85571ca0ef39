------------------------------ MODULE HistEqu ------------------------------
(***************************************************************************)
(* vip_hist_equ (src/prj_qsys/avalon_vip/vip/vip_hist_equ.v), which the    *)
(* build compiles only with USE_HIST_EQU.  At every rising vsync it sweeps *)
(* the histogram of the frame just ended (HistRam, its in_ and out_ ports  *)
(* on one clock), accumulates it, scales the sums in a three-stage         *)
(* pipeline and stores them in a table, which maps the pixels of the next  *)
(* frame.  The pixel stream's out_href is HistRam's cur_rden_r and the     *)
(* pixel it belongs to is cur_rdaddr_r.                                    *)
(***************************************************************************)
EXTENDS HistRam

CONSTANT PIX_TOTAL      \* WIDTH * HEIGHT

Max_value == 2^AddrBits - 1

(* HIST_BITS is clogb2(PIX_TOTAL); the sweep and the three stages behind   *)
(* it end before the first pixel of the frame.                             *)
ASSUME HistEquAssumption ==
  /\ PIX_TOTAL \in Nat \ {0}
  /\ 2^(DataBits - 1) <= PIX_TOTAL /\ PIX_TOTAL < 2^DataBits
  /\ MaxPixels <= PIX_TOTAL
  /\ Porch >= 2^AddrBits + 4

VARIABLES
  hist_sum_done, hist_addr,
  hist_sum_runn,      \* hist_sum_runn_0 .. _3
  hist_sum_addr,      \* hist_sum_addr_0 .. _3
  hist_sum_data_1, hist_sum_data_2, hist_sum_data_3,
  hist_map_ram, hist_q

equ_vars == <<hist_sum_done, hist_addr, hist_sum_runn, hist_sum_addr,
              hist_sum_data_1, hist_sum_data_2, hist_sum_data_3>>
allVars == <<vars, equ_vars, hist_map_ram, hist_q>>

hist_data == q[bak_ram]

EquInit ==
  /\ Init
  /\ hist_sum_done = FALSE /\ hist_addr = 0
  /\ hist_sum_runn = [i \in 0..3 |-> FALSE]
  /\ hist_sum_addr = [i \in 0..3 |-> 0]
  /\ hist_sum_data_1 = 0 /\ hist_sum_data_2 = 0 /\ hist_sum_data_3 = 0
  /\ hist_map_ram = [a \in Addr |-> 0] /\ hist_q = 0

(* The sweep over the backup RAM, restarted by the rising vsync.           *)
Sweep ==
  /\ hist_sum_done' = (~flip /\ (hist_sum_done \/ hist_addr = Max_value))
  /\ hist_addr' = IF flip THEN 0
                  ELSE IF hist_sum_done THEN hist_addr
                  ELSE (hist_addr + 1) % 2^AddrBits

Scale_KeepSum ==           \* mutant: the sum is not cleared between sweeps
  /\ hist_sum_runn' = [i \in 0..3 |-> IF i = 0 THEN ~hist_sum_done
                                               ELSE hist_sum_runn[i - 1]]
  /\ hist_sum_addr' = [i \in 0..3 |->
                         IF i > 0 THEN hist_sum_addr[i - 1]
                         ELSE IF hist_sum_done THEN 0 ELSE hist_addr]
  /\ hist_sum_data_1' = IF hist_sum_runn[0]
                        THEN (hist_sum_data_1 + hist_data) % 2^DataBits
                        ELSE hist_sum_data_1
  /\ hist_sum_data_2' = hist_sum_data_1 * Max_value
  /\ hist_sum_data_3' = hist_sum_data_2 \div PIX_TOTAL

(* The sum of the counts up to hist_sum_addr[1], times 2^BITS - 1, divided *)
(* by the pixels of a frame: the table entry of that value.                *)
Scale ==
  /\ hist_sum_runn' = [i \in 0..3 |-> IF i = 0 THEN ~hist_sum_done
                                               ELSE hist_sum_runn[i - 1]]
  /\ hist_sum_addr' = [i \in 0..3 |->
                         IF i > 0 THEN hist_sum_addr[i - 1]
                         ELSE IF hist_sum_done THEN 0 ELSE hist_addr]
  /\ hist_sum_data_1' = IF hist_sum_runn[0]
                        THEN (hist_sum_data_1 + hist_data) % 2^DataBits
                        ELSE 0
  /\ hist_sum_data_2' = hist_sum_data_1 * Max_value
  /\ hist_sum_data_3' = hist_sum_data_2 \div PIX_TOTAL

(* hist_map_ram: written by the sweep, read by the pixels.                 *)
MapRam ==
  /\ hist_map_ram' = IF hist_sum_runn[3]
                     THEN [hist_map_ram EXCEPT ![hist_sum_addr[3]] =
                             hist_sum_data_3 % 2^AddrBits]
                     ELSE hist_map_ram
  /\ hist_q' = IF in_valid THEN hist_map_ram[in_addr] ELSE hist_q

EquClock == Clock(~hist_sum_done, hist_addr) /\ Sweep /\ Scale /\ MapRam

EquReset ==
  /\ Reset
  /\ hist_sum_done' = FALSE /\ hist_addr' = 0
  /\ hist_sum_runn' = [i \in 0..3 |-> FALSE]
  /\ hist_sum_addr' = [i \in 0..3 |-> 0]
  /\ hist_sum_data_1' = 0 /\ hist_sum_data_2' = 0 /\ hist_sum_data_3' = 0
  /\ UNCHANGED <<hist_map_ram, hist_q>>

EquNext == EquClock \/ EquReset

-----------------------------------------------------------------------------
(* The registers this module adds stay within their widths.                *)
EquTypeOK ==
  /\ TypeOK
  /\ hist_sum_done \in BOOLEAN /\ hist_addr \in Addr
  /\ hist_sum_runn \in [0..3 -> BOOLEAN] /\ hist_sum_addr \in [0..3 -> Addr]
  /\ hist_sum_data_1 \in Data
  /\ hist_sum_data_2 \in 0 .. 2^DataBits * 2^AddrBits - 1
  /\ hist_sum_data_3 \in 0 .. 2^DataBits * 2^AddrBits - 1
  /\ hist_map_ram \in [Addr -> Addr] /\ hist_q \in Addr

(* Histogram equalisation of a pixel of value v by the histogram h.        *)
Equalised(h, v) ==
  (SumFunctionOnSet(h, 0..v) * Max_value) \div PIX_TOTAL

(* vip_hist_equ.v:9-167: each pixel that leaves the module is equalised by *)
(* the COMPLETE histogram of the frame before its own: the sweep, its      *)
(* pipeline and the exchange of the RAMs never let a half-built table or   *)
(* the table of an older frame show.  (Bins that SumIsPixels shows too     *)
(* large may push the sum past a frame: then the table wraps.)             *)
PixelsEqualised ==
  cur_rden_r /\ bak_whole
    /\ Total(mem[bak_ram]) <= PIX_TOTAL
  => hist_q = Equalised(mem[bak_ram], cur_rdaddr_r)
=============================================================================
