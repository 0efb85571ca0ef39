------------------------------ MODULE LcdReader ------------------------------
(***************************************************************************)
(* The display read channel: avalon_lcd_rgb_controller with its            *)
(* burst_read_master.  Every vertical pulse of the raster starts a         *)
(* transfer of one frame; the master posts burst reads as long as its FIFO *)
(* has room for all words on their way, and the panel takes one word per   *)
(* displayed pixel, without asking whether the FIFO has one.               *)
(*                                                                         *)
(* Addresses, lengths and counts are in words of BYTEENABLEWIDTH bytes,    *)
(* and a word stands for its address.  FIFO, bus slave and the panel's     *)
(* pace are external; the raster is the one LcdTiming implements.          *)
(***************************************************************************)
EXTENDS Integers, Sequences

CONSTANTS
  MaxBurst,       \* MAXBURSTCOUNT
  FifoDepth,      \* FIFODEPTH
  Pixels,         \* H_DISP * V_DISP, the words of a frame
  Base,           \* values the CPU writes to fb_addr
  WriteLatency    \* at most so many words written lately are not in fifo_used

ASSUME LcdReaderAssumption ==
  /\ MaxBurst \in Nat \ {0}
  /\ FifoDepth \in Nat
  /\ FifoDepth > MaxBurst + 4
  /\ Pixels \in Nat \ {0}
  /\ Base \subseteq Nat
  /\ WriteLatency \in 0 .. 4

VARIABLES
  timing_reset, fb_addr,                \* CPU registers
  prev_vs, control_go,                  \* edge detector of the vertical sync
  address, length, reads_pending,       \* burst_read_master
  fifo,       \* the words in the FIFO, oldest first
  fresh,      \* how many of the youngest neither side has been told of
  popped,     \* how many popped words the write side still counts
  inflight,   \* bus slave: the words it has been asked for, oldest first
  lcd_vs, due,  \* raster: vertical pulse on; pixels of this frame to display
  shown       \* panel: the latest pixel, <<its number, its word>>, or <<>>

cpu_vars    == <<timing_reset, fb_addr>>
edge_vars   == <<prev_vs, control_go>>
master_vars == <<address, length, reads_pending>>
fifo_vars   == <<fifo, fresh, popped>>
panel_vars  == <<lcd_vs, due, shown>>
vars == <<cpu_vars, edge_vars, master_vars, fifo_vars, inflight, panel_vars>>

-----------------------------------------------------------------------------
(* The combinational signals of burst_read_master.                         *)

fifo_used == Len(fifo) - fresh + popped

burst_boundary == address % MaxBurst

first_short_burst_enable == burst_boundary # 0

first_short_burst_count ==
  IF burst_boundary % 2 = 1 THEN 1
  ELSE IF MaxBurst - burst_boundary < length THEN MaxBurst - burst_boundary
  ELSE length

burst_count ==
  IF first_short_burst_enable THEN first_short_burst_count
  ELSE IF length < MaxBurst THEN length
  ELSE MaxBurst

\* Slip: words on their way are not counted.
too_many_reads_pending_FifoOnly == fifo_used >= FifoDepth - MaxBurst - 4

too_many_reads_pending == reads_pending + fifo_used >= FifoDepth - MaxBurst - 4

master_read == ~too_many_reads_pending /\ length # 0

increment_address(waitrequest) == master_read /\ ~waitrequest

\* Slip: a word that returns as a burst is posted is not counted off.
pending_after_Leak(posted, returned) ==
  (IF posted > 0 THEN reads_pending + posted
   ELSE reads_pending - returned) % FifoDepth
\* Slip: only the bursts posted are counted.
pending_after_Posted(posted, returned) == (reads_pending + posted) % FifoDepth
\* reads_pending has FIFODEPTH_LOG2 bits.
pending_after(posted, returned) == (reads_pending + posted - returned) % FifoDepth

\* The panel's side of the controller follows the raster of the generator.
Panel == INSTANCE Raster WITH sync <- lcd_vs

-----------------------------------------------------------------------------
Init ==
  /\ timing_reset = TRUE /\ fb_addr = 0
  /\ prev_vs = FALSE /\ control_go = FALSE
  /\ address = 0 /\ length = 0 /\ reads_pending = 0
  /\ fifo = <<>> /\ fresh = 0 /\ popped = 0
  /\ inflight = <<>>
  /\ Panel!Init /\ shown = <<>>

(* The CPU's register writes.  timing_reset resets master, FIFO and raster. *)
SetFbAddr ==
  /\ fb_addr' \in Base
  /\ UNCHANGED <<timing_reset, edge_vars, master_vars, fifo_vars, inflight,
                 panel_vars>>

\* Slip: the FIFO is left out of the reset.
AssertReset_KeepFifo ==
  /\ timing_reset' = TRUE
  /\ control_go' = FALSE
  /\ address' = 0 /\ length' = 0 /\ reads_pending' = 0
  /\ Panel!Reset
  /\ UNCHANGED <<fb_addr, prev_vs, fifo_vars, inflight, shown>>
AssertReset ==
  /\ timing_reset' = TRUE
  /\ control_go' = FALSE
  /\ address' = 0 /\ length' = 0 /\ reads_pending' = 0
  /\ fifo' = <<>> /\ fresh' = 0 /\ popped' = 0
  /\ Panel!Reset
  /\ UNCHANGED <<fb_addr, prev_vs, inflight, shown>>

\* main leaves the controller in reset for a tenth of a second and more: all
\* reads have returned by then.
ReleaseReset ==
  /\ inflight = <<>> /\ ~prev_vs
  /\ timing_reset' = FALSE
  /\ UNCHANGED <<fb_addr, edge_vars, master_vars, fifo_vars, inflight,
                 panel_vars>>

-----------------------------------------------------------------------------
(* The pixel clock.  A pulse, and the gap before the next, outlast the few  *)
(* system clocks that detect it.                                            *)

StartPulse ==
  /\ ~timing_reset /\ ~prev_vs
  /\ Panel!StartPulse
  /\ UNCHANGED <<cpu_vars, edge_vars, master_vars, fifo_vars, inflight, shown>>

EndPulse ==
  /\ prev_vs /\ ~control_go
  /\ Panel!EndPulse
  /\ UNCHANGED <<cpu_vars, edge_vars, master_vars, fifo_vars, inflight, shown>>

\* lcd_de takes the word the FIFO shows ahead.  SDRAM keeps up: there is one.
DisplayPixel ==
  /\ Panel!DisplayPixel
  /\ Len(fifo) > fresh
  /\ shown' = <<Pixels - due, Head(fifo)>>
  /\ fifo' = Tail(fifo)
  /\ popped' = popped + 1
  /\ UNCHANGED <<cpu_vars, edge_vars, master_vars, fresh, inflight>>

\* The FIFO's read pointer crosses to the write side, late by any amount.
PointerSync ==
  /\ popped' \in 0 .. popped - 1
  /\ UNCHANGED <<cpu_vars, edge_vars, master_vars, fifo, fresh, inflight,
                 panel_vars>>

-----------------------------------------------------------------------------
(* The system clock.                                                       *)

\* The slave returns the oldest word asked for, or none; the FIFO takes it.
Return(readdatavalid) ==
  /\ readdatavalid => inflight # <<>>
  /\ fifo' = IF readdatavalid THEN Append(fifo, Head(inflight)) ELSE fifo
  /\ fresh' \in 0 .. (IF readdatavalid THEN fresh + 1 ELSE fresh)
  /\ fresh' <= WriteLatency

\* The slave accepts a burst of count words, none if count is 0.
Accept(count, readdatavalid) ==
  inflight' = (IF readdatavalid THEN Tail(inflight) ELSE inflight)
              \o [i \in 1 .. count |-> address + i - 1]

Clk(waitrequest, readdatavalid) ==
  LET posted   == IF increment_address(waitrequest) THEN burst_count ELSE 0
      returned == IF readdatavalid THEN 1 ELSE 0
  IN  /\ ~timing_reset
      /\ prev_vs' = lcd_vs
      /\ control_go' = (~prev_vs /\ lcd_vs)
      /\ Return(readdatavalid)
      /\ Accept(posted, readdatavalid)
      /\ reads_pending' = pending_after(posted, returned)
      /\ UNCHANGED <<cpu_vars, popped, panel_vars>>

Go(waitrequest, readdatavalid) ==
  /\ control_go
  /\ Clk(waitrequest, readdatavalid)
  /\ address' = fb_addr
  /\ length' = Pixels

\* Slip: the address moves by whole bursts.
PostBurst_FullStep(waitrequest, readdatavalid) ==
  /\ ~control_go
  /\ increment_address(waitrequest)
  /\ Clk(waitrequest, readdatavalid)
  /\ address' = address + MaxBurst
  /\ length' = length - burst_count
PostBurst(waitrequest, readdatavalid) ==
  /\ ~control_go
  /\ increment_address(waitrequest)
  /\ Clk(waitrequest, readdatavalid)
  /\ address' = address + burst_count
  /\ length' = length - burst_count

Hold(waitrequest, readdatavalid) ==
  /\ ~control_go
  /\ ~increment_address(waitrequest)
  /\ Clk(waitrequest, readdatavalid)
  /\ UNCHANGED <<address, length>>

\* In reset only prev_vs follows the raster, and late words are dropped.
ClkInReset(readdatavalid) ==
  /\ timing_reset
  /\ prev_vs' = lcd_vs
  /\ readdatavalid => inflight # <<>>
  /\ inflight' = IF readdatavalid THEN Tail(inflight) ELSE inflight
  /\ UNCHANGED <<cpu_vars, control_go, master_vars, fifo_vars, panel_vars>>

ClkEdge(waitrequest, readdatavalid) ==
  \/ Go(waitrequest, readdatavalid)
  \/ PostBurst(waitrequest, readdatavalid)
  \/ Hold(waitrequest, readdatavalid)

Next ==
  \/ SetFbAddr \/ AssertReset \/ ReleaseReset
  \/ StartPulse \/ EndPulse \/ DisplayPixel \/ PointerSync
  \/ \E readdatavalid \in BOOLEAN : ClkInReset(readdatavalid)
  \/ \E waitrequest, readdatavalid \in BOOLEAN : ClkEdge(waitrequest, readdatavalid)

Spec == Init /\ [][Next]_vars

-----------------------------------------------------------------------------
(* Fairness: both clocks tick, the slave accepts and returns in the end,    *)
(* and pointers that moved are synchronised.                                *)

Accepted == \E readdatavalid \in BOOLEAN :
              Go(FALSE, readdatavalid) \/ PostBurst(FALSE, readdatavalid)
Returned == \E waitrequest \in BOOLEAN : ClkEdge(waitrequest, TRUE)
Counted  == \E waitrequest, readdatavalid \in BOOLEAN :
              ClkEdge(waitrequest, readdatavalid) /\ fresh' < fresh

Fairness ==
  /\ WF_vars(Accepted) /\ WF_vars(Returned) /\ WF_vars(Counted)
  /\ WF_vars(\E readdatavalid \in BOOLEAN : Hold(TRUE, readdatavalid))
  /\ WF_vars(EndPulse) /\ WF_vars(DisplayPixel)
  /\ WF_vars(PointerSync /\ popped' = 0)

FairSpec == Spec /\ Fairness

-----------------------------------------------------------------------------
(* Properties.                                                             *)

FlagsOK ==
  /\ timing_reset \in BOOLEAN
  /\ prev_vs \in BOOLEAN /\ control_go \in BOOLEAN
  /\ lcd_vs \in BOOLEAN

RegistersOK ==
  /\ fb_addr \in Base \union {0}
  /\ address \in Nat /\ length \in Nat
  /\ reads_pending \in 0 .. FifoDepth - 1
  /\ fifo \in Seq(Nat) /\ inflight \in Seq(Nat)
  /\ fresh \in 0 .. WriteLatency /\ popped \in Nat
  /\ due \in 0 .. Pixels
  /\ shown \in (Nat \X Nat) \union {<<>>}

(* Types; reads_pending fits its bits and the fill level lag its bound.    *)
TypeOK == FlagsOK /\ RegistersOK

(* The words in the FIFO and the words on their way fit the FIFO, whose     *)
(* overflow checking is off, although the decision to read is taken from a  *)
(* fill level that is late in both directions ("make sure there are fewer   *)
(* reads posted than room in the FIFO", burst_read_master.v:200); and       *)
(* neither of the 10-bit counts wraps.                                      *)
NoOverflow ==
  /\ Len(fifo) + Len(inflight) < FifoDepth
  /\ fifo_used \in 0 .. FifoDepth - 1

(* reads_pending counts exactly the words on their way.                     *)
PendingExact == ~timing_reset => reads_pending = Len(inflight)

(* A burst on the bus is never empty, never longer than the frame's rest    *)
(* and never crosses a burst boundary.                                      *)
LegalBurst ==
  master_read => /\ burst_count \in 1 .. length
                 /\ burst_boundary + burst_count <= MaxBurst

\* A frame has been announced that the master has not started yet.
awaiting == control_go \/ (lcd_vs /\ ~prev_vs)

(* A frame's words are read exactly once: what is not displayed yet is in   *)
(* the FIFO, on its way or still to be read, and when a new frame starts    *)
(* nothing of the old one is left.  The FIFO is never cleared between       *)
(* frames, so one word too many or too few would shift the picture for good.*)
Balanced ==
  ~timing_reset =>
    Len(fifo) + Len(inflight) + length = (IF awaiting THEN 0 ELSE due)

(* Pixel k comes from word k of the buffer: the first from the base of a    *)
(* programmed buffer, each other from the word after its predecessor's, so  *)
(* no frame mixes two buffers when the CPU changes fb_addr half-way.        *)
PictureInPlace ==
  [][shown' # shown
       => IF shown'[1] = 0 THEN shown'[2] \in Base \union {0}
          ELSE shown' = <<shown[1] + 1, shown[2] + 1>>]_vars

(* The throttle never wedges: every frame that starts is displayed whole.   *)
FrameCompletes == (due > 0) ~> (due = 0)
=============================================================================
