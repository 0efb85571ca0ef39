------------------------------ MODULE HistRam ------------------------------
(***************************************************************************)
(* hist_ram of src/prj_qsys/avalon_isp_lite/isp_lite/isp_utils.v: two RAMs *)
(* that exchange their roles at every rising edge of vsync.  The current   *)
(* one is first cleared, one address a clock, and then counts the pixels:  *)
(* a pixel is read from the RAM on one edge and written back, plus one, on *)
(* the next, and a pixel of the same value that follows immediately takes  *)
(* the count from cur_data_r because the RAM does not hold it yet.  The    *)
(* backup one is read through the out port.                                *)
(*                                                                         *)
(* One Clock step is one posedge of in_clk, and the wires in_valid,        *)
(* in_flip_trigger and in_addr hold what the pixel stream drives before    *)
(* it.  The stream is a DVP stream: valid and vsync are never high         *)
(* together and a porch separates them.  While valid is low in_addr is in  *)
(* Idle: the stages drive zero there, and isp_stat_ae puts the Bayer       *)
(* position, odd_line and 0, in front of it.                               *)
(***************************************************************************)
EXTENDS Integers, FiniteSetsExt, Functions

CONSTANTS
  AddrBits,     \* ADDR_BITS
  DataBits,     \* DATA_BITS
  Idle,         \* what in_addr may be while in_valid is low
  Porch,        \* clocks from the end of vsync to the first pixel, at least
  MaxPixels,    \* pixels of a frame, at most
  Reads,        \* the addresses the reader asks for
  MaxResets     \* bound: warm resets in a behaviour

Addr == 0 .. (2^AddrBits - 1)
Data == 0 .. (2^DataBits - 1)

(* Clearing takes 2^AddrBits clocks from the edge that starts it, and a    *)
(* frame is counted without wrapping.  (That the powers are numbers is     *)
(* said for the provers, which know no exponents.)                         *)
ASSUME HistRamAssumption ==
  /\ 2^AddrBits \in Nat \ {0} /\ 2^DataBits \in Nat \ {0}
  /\ AddrBits \in Nat \ {0}
  /\ DataBits \in Nat \ {0}
  /\ Idle \in (SUBSET Addr) \ {{}}
  /\ Porch \in Nat /\ Porch >= 2^AddrBits - 1
  /\ MaxPixels \in Nat /\ MaxPixels < 2^DataBits
  /\ Reads \subseteq Addr
  /\ MaxResets \in Nat

VARIABLES
  in_valid, in_flip_trigger, in_addr,       \* the pixel stream
  since,        \* ... clocks since its vsync was last high, at most Porch
  pixels,       \* ... pixels of each value clocked in since the latest flip
  sent,         \* ... and of all values
  prev_flip_trigger, cur_ram, cur_clr_done, cur_clr_addr,
  cur_rden_r, cur_rdaddr_r, cur_wraddr_r, cur_data_r,
  mem, q,       \* the two RAMs and their output registers
  whole,        \* history: the current frame is counted from its beginning
  bak_whole,    \* history: ... and so was the frame the backup RAM holds
  resets

stream_vars == <<in_valid, in_flip_trigger, in_addr, since, pixels, sent>>
bank_vars   == <<prev_flip_trigger, cur_ram, cur_clr_done, cur_clr_addr>>
pipe_vars   == <<cur_rden_r, cur_rdaddr_r, cur_wraddr_r, cur_data_r>>
whole_vars  == <<whole, bak_whole>>
vars == <<stream_vars, bank_vars, pipe_vars, mem, q, whole_vars, resets>>

bak_ram == 1 - cur_ram

-----------------------------------------------------------------------------
(* The write port of the current RAM.                                      *)
cur_wren   == ~cur_clr_done \/ cur_rden_r
cur_wraddr == IF cur_clr_done THEN cur_rdaddr_r ELSE cur_clr_addr
cur_data_NoForward ==      \* mutant: a repeated value is read too early
  IF cur_clr_done THEN (q[cur_ram] + 1) % 2^DataBits ELSE 0
cur_data   == IF ~cur_clr_done THEN 0
              ELSE IF cur_wraddr = cur_wraddr_r
                   THEN (cur_data_r + 1) % 2^DataBits
                   ELSE (q[cur_ram] + 1) % 2^DataBits

flip == in_flip_trigger /\ ~prev_flip_trigger

Init ==
  /\ in_valid = FALSE /\ in_flip_trigger = FALSE /\ in_addr \in Idle
  /\ since = 0 /\ pixels = [a \in Addr |-> 0] /\ sent = 0
  /\ prev_flip_trigger = FALSE /\ cur_ram = 0
  /\ cur_clr_done = FALSE /\ cur_clr_addr = 0
  /\ cur_rden_r = FALSE /\ cur_rdaddr_r = 0
  /\ cur_wraddr_r = 0 /\ cur_data_r = 0
  /\ mem = [r \in 0..1 |-> [a \in Addr |-> 0]]
  /\ q = [r \in 0..1 |-> 0]
  /\ whole = FALSE /\ bak_whole = FALSE /\ resets = 0

(* The stream after this edge: a pixel, a gap or a porch, or vsync.        *)
Stream ==
  /\ since' = IF in_flip_trigger THEN 0
              ELSE IF since < Porch THEN since + 1 ELSE since
  /\ pixels' = IF flip THEN [a \in Addr |-> 0]
               ELSE IF in_valid THEN [pixels EXCEPT ![in_addr] = @ + 1]
               ELSE pixels
  /\ sent' = IF flip THEN 0 ELSE IF in_valid THEN sent + 1 ELSE sent
  /\ \/ /\ in_valid' = TRUE /\ in_flip_trigger' = FALSE
        /\ since' >= Porch /\ sent' < MaxPixels
        /\ in_addr' \in Addr
     \/ /\ in_valid' = FALSE /\ in_flip_trigger' \in BOOLEAN
        /\ in_flip_trigger' => in_flip_trigger \/ since' >= Porch
        /\ in_addr' \in Idle

(* Exchange the RAMs at the rising vsync; then clear the current one.      *)
Banks ==
  /\ prev_flip_trigger' = in_flip_trigger
  /\ cur_ram' = IF flip THEN 1 - cur_ram ELSE cur_ram
  /\ cur_clr_addr' = IF flip THEN 0
                     ELSE IF cur_clr_done THEN cur_clr_addr
                     ELSE (cur_clr_addr + 1) % 2^AddrBits
  /\ cur_clr_done' = (~flip /\ (cur_clr_done \/ cur_clr_addr = 2^AddrBits - 1))

(* The registers between the read and the write of a pixel: not reset.     *)
Pipe ==
  /\ cur_rden_r' = in_valid
  /\ cur_rdaddr_r' = in_addr
  /\ cur_wraddr_r' = cur_wraddr
  /\ cur_data_r' = cur_data

(* Both ports of both RAMs; a read returns what the RAM held before the    *)
(* edge.  out_en and out_addr belong to the reader.                        *)
Rams(out_en, out_addr) ==
  /\ mem' = IF cur_wren THEN [mem EXCEPT ![cur_ram][cur_wraddr] = cur_data]
                        ELSE mem
  /\ q' = [r \in 0..1 |->
             IF r = cur_ram
             THEN IF in_valid THEN mem[r][in_addr] ELSE q[r]
             ELSE IF out_en THEN mem[r][out_addr] ELSE q[r]]

History ==
  /\ whole' = (whole \/ flip)
  /\ bak_whole' = IF flip THEN whole ELSE bak_whole

Clock(out_en, out_addr) ==
  /\ Stream /\ Banks /\ Pipe /\ Rams(out_en, out_addr) /\ History
  /\ UNCHANGED resets

(* in_rst_n is asynchronous and clears only the bank registers.  It is     *)
(* released before the next edge: a longer one only repeats this state.    *)
Reset ==
  /\ resets < MaxResets /\ resets' = resets + 1
  /\ prev_flip_trigger' = FALSE /\ cur_ram' = 0
  /\ cur_clr_done' = FALSE /\ cur_clr_addr' = 0
  /\ whole' = FALSE /\ bak_whole' = FALSE
  /\ UNCHANGED <<stream_vars, pipe_vars, mem, q>>

Next == Clock(FALSE, 0) \/ (\E a \in Reads : Clock(TRUE, a)) \/ Reset

Spec == Init /\ [][Next]_vars /\ WF_vars(Next)

-----------------------------------------------------------------------------
Total(p) == SumFunctionOnSet(p, Addr)

(* Every register within its width, and the stream a legal one.            *)
TypeOK ==
  /\ in_valid \in BOOLEAN /\ in_flip_trigger \in BOOLEAN /\ in_addr \in Addr
  /\ ~(in_valid /\ in_flip_trigger)
  /\ since \in 0..Porch
  /\ pixels \in [Addr -> Nat] /\ sent = Total(pixels) /\ sent <= MaxPixels
  /\ prev_flip_trigger \in BOOLEAN /\ cur_ram \in 0..1
  /\ cur_clr_done \in BOOLEAN /\ cur_clr_addr \in Addr
  /\ cur_rden_r \in BOOLEAN /\ cur_rdaddr_r \in Addr
  /\ cur_wraddr_r \in Addr /\ cur_data_r \in Data
  /\ mem \in [0..1 -> [Addr -> Data]] /\ q \in [0..1 -> Data]
  /\ whole \in BOOLEAN /\ bak_whole \in BOOLEAN /\ resets \in 0..MaxResets

(* The count of a value as the next edge leaves it: a pixel that has been  *)
(* read and not yet written back is included.                              *)
Count(a) == IF ~cur_clr_done THEN 0
            ELSE IF cur_rden_r /\ cur_rdaddr_r = a THEN cur_data
            ELSE mem[cur_ram][a]

Exact == Addr \ Idle
Hist == INSTANCE Histogram WITH
  Bins      <- Exact,
  given     <- [a \in Exact |-> IF whole THEN pixels[a] ELSE 0],
  counting  <- [a \in Exact |-> IF whole THEN Count(a) ELSE 0],
  published <- [a \in Exact |-> IF bak_whole THEN mem[bak_ram][a] ELSE -1]

(* isp_utils.v:250-361: every pixel adds one to the count of its value and *)
(* to no other, no matter which pixels and gaps surround it in the         *)
(* read-modify-write pipeline, and from the flip on, the backup RAM holds  *)
(* exactly the frame before.  Only the idle values of the bus are excepted *)
(* (see SumIsPixels).                                                      *)
CountsFrames == Hist!Spec

(* hello_world.c:165-174 adds up the bins and expects the frame's pixels,  *)
(* save for a read that vsync disturbs: the counts of all bins add up to   *)
(* the pixels of the frame.                                                *)
SumIsPixels ==
  whole /\ cur_clr_done => MapThenSumSet(Count, Addr) = sent
=============================================================================
