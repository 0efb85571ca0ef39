------------------------------- MODULE MCWch -------------------------------
(***************************************************************************)
(* Two small instances of the capture channel in one run, chosen once and  *)
(* for all: one whose bursts nothing cuts short, with bursts of four, and  *)
(* one whose bursts vsync and the CPU cut short wherever they stand, with  *)
(* bursts of two.                                                          *)
(***************************************************************************)
EXTENDS DvpWch

VARIABLES
  instance,
  cut_wch_reset, cut_buff_addr, cut_buff_size, cut_prev_vsync,
  cut_control_go, cut_vsync_edge, cut_first_transfer, cut_master_address,
  cut_length, cut_master_burstcount, cut_burst_counter, cut_fifo,
  cut_visible, cut_unseen_pop, cut_vsync, cut_column, cut_slave_addr,
  cut_slave_left, cut_stored, cut_frame_base, cut_frame_size, cut_clean

\* Two words past a burst boundary, and one short of it; from the second burst
\* on, both are aligned.
MCBase == {6, 7}
\* Shorter than a burst, and not a multiple of one.
MCSize == {3, 6}

Cut == INSTANCE DvpWch WITH
  MaxBurst <- 2, Base <- {3}, Size <- {3}, FramePixels <- 3, FifoDepth <- 3,
  UsedLatency <- 1, Graceful <- FALSE,
  wch_reset <- cut_wch_reset, buff_addr <- cut_buff_addr,
  buff_size <- cut_buff_size, prev_vsync <- cut_prev_vsync,
  control_go <- cut_control_go, vsync_edge <- cut_vsync_edge,
  first_transfer <- cut_first_transfer,
  master_address <- cut_master_address, length <- cut_length,
  master_burstcount <- cut_master_burstcount,
  burst_counter <- cut_burst_counter, fifo <- cut_fifo,
  visible <- cut_visible, unseen_pop <- cut_unseen_pop, vsync <- cut_vsync,
  column <- cut_column, slave_addr <- cut_slave_addr,
  slave_left <- cut_slave_left, stored <- cut_stored,
  frame_base <- cut_frame_base, frame_size <- cut_frame_size,
  clean <- cut_clean

cut == <<cut_wch_reset, cut_buff_addr, cut_buff_size, cut_prev_vsync,
  cut_control_go, cut_vsync_edge, cut_first_transfer, cut_master_address,
  cut_length, cut_master_burstcount, cut_burst_counter, cut_fifo,
  cut_visible, cut_unseen_pop, cut_vsync, cut_column, cut_slave_addr,
  cut_slave_left, cut_stored, cut_frame_base, cut_frame_size, cut_clean>>
all == <<vars, cut, instance>>

MCInit == /\ Init /\ Cut!Init /\ instance \in {"whole", "cut"}
          /\ instance = "whole" \/ prev_vsync = FALSE
          /\ instance = "cut" \/ cut_prev_vsync = FALSE

MCNext == \/ instance = "whole" /\ Next /\ UNCHANGED <<cut, instance>>
          \/ instance = "cut" /\ Cut!Next /\ UNCHANGED <<vars, instance>>

(* The instance that is not chosen stays in reset, where nothing is due.   *)
MCSpec == MCInit /\ [][MCNext]_all /\ Cut!Fairness

-----------------------------------------------------------------------------
(* Where bursts are cut short, too, what is on the bus is backed by words  *)
(* in the FIFO and lies within the transfer; and so it does elsewhere.     *)
SafeWhenCut == /\ BurstWithinTransfer
               /\ Cut!TypeOK /\ Cut!BurstIsBacked

(* Once its words are in the FIFO, a transfer is finished, although        *)
(* earlier bursts were cut short.                                          *)
TransferCompletes_Cut == Cut!TransferCompletes
=============================================================================
