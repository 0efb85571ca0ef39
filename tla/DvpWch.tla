------------------------------- MODULE DvpWch -------------------------------
(***************************************************************************)
(* The capture write channel: avalon_dvp_wch with its burst_write_master.  *)
(* Pixels enter a dual-clock FIFO on the pixel clock; on the system clock  *)
(* a burst engine drains the FIFO to SDRAM over an Avalon-MM bus.  Every   *)
(* rising vsync reloads the engine with the buffer the CPU programmed.     *)
(*                                                                         *)
(* Addresses, lengths and burst counts are in words of BYTEENABLEWIDTH     *)
(* bytes: the driver programs word-aligned buffers of whole words.         *)
(* One action per kind of system-clock edge, per pixel-clock event and per *)
(* register write.  The FIFO, the bus slave and the camera are external.   *)
(***************************************************************************)
EXTENDS Integers, Sequences

CONSTANTS
  MaxBurst,     \* MAXBURSTCOUNT
  Base,         \* values the CPU writes to buff_addr
  Size,         \* values the CPU writes to buff_size
  FramePixels,  \* at most so many pixels between two vsync pulses
  FifoDepth,    \* FIFODEPTH; SDRAM keeps up well enough not to exceed it
  UsedLatency,  \* edges from a pop to fifo_used showing it: 1, or 2
  Graceful      \* TRUE: neither vsync nor the CPU cuts a burst short, and
                \*       the whole edge detector sees vsync rise at one edge

ASSUME DvpWchAssumption ==
  /\ MaxBurst \in Nat \ {0}
  /\ Base \subseteq Nat
  /\ Size \subseteq Nat
  /\ FramePixels \in Nat
  /\ FifoDepth \in Nat
  /\ UsedLatency \in {1, 2}
  /\ Graceful \in BOOLEAN

VARIABLES
  wch_reset, buff_addr, buff_size,          \* CPU registers
  prev_vsync, control_go, vsync_edge,       \* vsync edge detector
  first_transfer, master_address, length,   \* burst_write_master
  master_burstcount, burst_counter,
  fifo,         \* the words in the FIFO, oldest first
  visible,      \* how many of them the read side has been told of
  unseen_pop,   \* 1: fifo_used does not show the latest pop yet
  vsync, column,            \* camera: the vsync pin, pixels sent this frame
  slave_addr, slave_left,   \* bus slave: next word and words left of its burst
  stored,       \* the latest word the slave took: <<address, pixel>>, or <<>>
  frame_base, frame_size,   \* history: what the current frame was started with
  clean                     \* history: ... and that the FIFO was empty then

cpu_vars    == <<wch_reset, buff_addr, buff_size>>
edge_vars   == <<prev_vsync, control_go, vsync_edge>>
master_vars == <<first_transfer, master_address, length,
                 master_burstcount, burst_counter>>
fifo_vars   == <<fifo, visible, unseen_pop>>
camera_vars == <<vsync, column>>
slave_vars  == <<slave_addr, slave_left, stored>>
frame_vars  == <<frame_base, frame_size, clean>>
vars == <<cpu_vars, edge_vars, master_vars, fifo_vars, camera_vars, slave_vars,
          frame_vars>>

Pixel == 0 .. FramePixels
Word == (Nat \X Pixel) \union {<<>>}

-----------------------------------------------------------------------------
(* The combinational signals of burst_write_master.                        *)

fifo_used == visible + unseen_pop

\* Slip: no stall when the fill level equals the burst.
EnoughFor_NoStall(n) == fifo_used >= n
\* Slip: the last words, exactly enough, are never enough.
EnoughFor_Strict(n) == fifo_used > n
EnoughFor(n) == fifo_used > n \/ (fifo_used = n /\ burst_counter = 0)

burst_boundary == master_address % MaxBurst

first_short_burst_enable == burst_boundary # 0 /\ first_transfer

final_short_burst_enable == length < MaxBurst

first_short_burst_count ==
  IF burst_boundary % 2 = 1 THEN 1
  ELSE IF MaxBurst - burst_boundary < length THEN MaxBurst - burst_boundary
  ELSE length

burst_count ==
  IF first_short_burst_enable THEN first_short_burst_count
  ELSE IF final_short_burst_enable THEN length
  ELSE MaxBurst

data_ready ==
  \/ first_short_burst_enable /\ EnoughFor(first_short_burst_count)
  \/ final_short_burst_enable /\ EnoughFor(length)
  \/ EnoughFor(MaxBurst)

master_write == length # 0 /\ burst_counter # 0

\* Slip: a burst may follow the last word of any burst.
burst_begin_AnyLength(waitrequest) ==
  /\ data_ready
  /\ length # 0
  /\ burst_counter = 0 \/ (burst_counter = 1 /\ ~waitrequest)
\* A new burst may follow the last word of the old one without a gap.
burst_begin(waitrequest) ==
  /\ data_ready
  /\ length # 0
  /\ \/ burst_counter = 0
     \/ burst_counter = 1 /\ ~waitrequest /\ length > MaxBurst

beat(waitrequest) == master_write /\ ~waitrequest

\* Nothing is left that the engine could write.
Quiet == burst_counter = 0 /\ ~burst_begin(TRUE) /\ visible = Len(fifo)

-----------------------------------------------------------------------------
Init ==
  /\ wch_reset = TRUE /\ buff_addr = 0 /\ buff_size = 0
  /\ prev_vsync \in BOOLEAN /\ control_go = FALSE /\ vsync_edge = FALSE
  /\ first_transfer = FALSE /\ master_address = 0 /\ length = 0
  /\ master_burstcount = 0 /\ burst_counter = 0
  /\ fifo = <<>> /\ visible = 0 /\ unseen_pop = 0
  /\ vsync = FALSE /\ column = 0
  /\ slave_addr = 0 /\ slave_left = 0 /\ stored = <<>>
  /\ frame_base = 0 /\ frame_size = 0 /\ clean = FALSE

(* The CPU's register writes.  wch_reset resets the engine and the FIFO     *)
(* asynchronously and holds them there.                                     *)
SetBuffer ==
  /\ \/ buff_addr' \in Base /\ UNCHANGED buff_size
     \/ buff_size' \in Size /\ UNCHANGED buff_addr
  /\ UNCHANGED <<wch_reset, edge_vars, master_vars, fifo_vars, camera_vars,
                 slave_vars, frame_vars>>

AssertReset ==
  /\ Graceful => burst_counter = 0
  /\ wch_reset' = TRUE
  /\ control_go' = FALSE /\ vsync_edge' = FALSE
  /\ first_transfer' = FALSE /\ master_address' = 0 /\ length' = 0
  /\ master_burstcount' = 0 /\ burst_counter' = 0
  /\ fifo' = <<>> /\ visible' = 0 /\ unseen_pop' = 0
  /\ frame_base' = 0 /\ frame_size' = 0 /\ clean' = FALSE
  /\ UNCHANGED <<buff_addr, buff_size, prev_vsync, camera_vars, slave_vars>>

ReleaseReset ==
  /\ wch_reset' = FALSE
  /\ UNCHANGED <<buff_addr, buff_size, edge_vars, master_vars, fifo_vars,
                 camera_vars, slave_vars, frame_vars>>

-----------------------------------------------------------------------------
(* The camera.  A vsync level outlasts the few clk edges that detect it.    *)

VsyncRise ==
  /\ ~vsync /\ ~prev_vsync
  /\ Graceful => Quiet
  /\ vsync' = TRUE
  /\ UNCHANGED <<cpu_vars, edge_vars, master_vars, fifo_vars, column,
                 slave_vars, frame_vars>>

VsyncFall ==
  /\ vsync /\ prev_vsync /\ ~control_go
  /\ vsync' = FALSE
  /\ column' = 0
  /\ UNCHANGED <<cpu_vars, edge_vars, master_vars, fifo_vars, slave_vars,
                 frame_vars>>

\* href is high: the pixel is written to the FIFO once a frame has started.
PixelIn ==
  /\ ~vsync
  /\ column < FramePixels
  /\ column' = column + 1
  /\ IF vsync_edge
       THEN Len(fifo) < FifoDepth /\ fifo' = Append(fifo, column)
       ELSE UNCHANGED fifo
  /\ UNCHANGED <<cpu_vars, edge_vars, master_vars, visible, unseen_pop, vsync,
                 slave_vars, frame_vars>>

\* The FIFO's write pointer crosses to the read side, late by any amount.
PointerSync ==
  /\ visible < Len(fifo)
  /\ visible' \in (visible + 1) .. Len(fifo)
  /\ UNCHANGED <<cpu_vars, edge_vars, master_vars, fifo, unseen_pop,
                 camera_vars, slave_vars, frame_vars>>

-----------------------------------------------------------------------------
(* The system clock, outside reset.                                        *)

\* What a flip-flop of the edge detector may read from the vsync pin: the pin
\* has no synchroniser and its clock is asynchronous to clk, so at the edge
\* after a change each flip-flop may still see the old level.
Sample == IF Graceful THEN {vsync} ELSE {prev_vsync, vsync}

DetectEdge ==
  \E s1 \in Sample, s2 \in Sample, s3 \in Sample :
    /\ prev_vsync' = s1
    /\ control_go' = (~prev_vsync /\ s2)
    /\ vsync_edge' = (vsync_edge \/ (~prev_vsync /\ s3))

\* The slave takes one word: the first of a burst comes with its address.
Beat ==
  LET address == IF slave_left = 0 THEN master_address ELSE slave_addr
      left    == IF slave_left = 0 THEN master_burstcount ELSE slave_left
  IN  /\ fifo # <<>>
      /\ fifo' = Tail(fifo)
      /\ visible' = visible - 1
      /\ unseen_pop' = UsedLatency - 1
      /\ slave_addr' = address + 1
      /\ slave_left' = left - 1
      /\ stored' = <<address, Head(fifo)>>

NoBeat == unseen_pop' = 0 /\ UNCHANGED <<fifo, visible, slave_vars>>

\* Slip: the first burst of a frame moves the address too.
LoadBurst_AddOnFirst ==
  /\ master_burstcount' = burst_count
  /\ burst_counter' = burst_count
  /\ first_transfer' = FALSE
  /\ master_address' = master_address + master_burstcount
\* Slip: the address moves by the new burst instead of the finished one.
LoadBurst_NewCount ==
  /\ master_burstcount' = burst_count
  /\ burst_counter' = burst_count
  /\ first_transfer' = FALSE
  /\ master_address' = IF first_transfer THEN master_address
                       ELSE master_address + burst_count
\* Slip: the first-burst mark is not taken back.
LoadBurst_KeepFirst ==
  /\ master_burstcount' = burst_count
  /\ burst_counter' = burst_count
  /\ UNCHANGED first_transfer
  /\ master_address' = IF first_transfer THEN master_address
                       ELSE master_address + master_burstcount
\* burst_begin registers the new burst; a first burst keeps the base address.
LoadBurst ==
  /\ master_burstcount' = burst_count
  /\ burst_counter' = burst_count
  /\ first_transfer' = FALSE
  /\ master_address' = IF first_transfer THEN master_address
                       ELSE master_address + master_burstcount

Clk(waitrequest) ==
  /\ ~wch_reset
  /\ DetectEdge
  /\ IF beat(waitrequest) THEN Beat ELSE NoBeat
  /\ UNCHANGED <<cpu_vars, camera_vars>>

\* control_go wins over everything but the pop and the burst count register.
Go(waitrequest) ==
  /\ control_go
  /\ Clk(waitrequest)
  /\ first_transfer' = TRUE
  /\ master_address' = buff_addr
  /\ length' = buff_size
  /\ burst_counter' = 0
  /\ master_burstcount' = IF burst_begin(waitrequest) THEN burst_count
                          ELSE master_burstcount
  /\ frame_base' = buff_addr /\ frame_size' = buff_size
  /\ clean' = (fifo' = <<>>)

StartBurst(waitrequest) ==
  /\ ~control_go
  /\ burst_counter = 0
  /\ burst_begin(waitrequest)
  /\ Clk(waitrequest)
  /\ LoadBurst
  /\ UNCHANGED <<length, frame_vars>>

ChainBurst(waitrequest) ==
  /\ ~control_go
  /\ burst_counter = 1
  /\ burst_begin(waitrequest)
  /\ Clk(waitrequest)
  /\ LoadBurst
  /\ length' = length - 1
  /\ UNCHANGED frame_vars

WriteWord(waitrequest) ==
  /\ ~control_go
  /\ beat(waitrequest)
  /\ ~burst_begin(waitrequest)
  /\ Clk(waitrequest)
  /\ length' = length - 1
  /\ burst_counter' = burst_counter - 1
  /\ UNCHANGED <<first_transfer, master_address, master_burstcount,
                 frame_vars>>

Idle(waitrequest) ==
  /\ ~control_go
  /\ ~beat(waitrequest)
  /\ ~burst_begin(waitrequest)
  /\ Clk(waitrequest)
  /\ UNCHANGED <<master_vars, frame_vars>>

\* In reset only prev_vsync follows the pin.
ClkInReset ==
  /\ wch_reset
  /\ prev_vsync' \in Sample
  /\ UNCHANGED <<cpu_vars, control_go, vsync_edge, master_vars, fifo_vars,
                 camera_vars, slave_vars, frame_vars>>

ClkEdge(waitrequest) ==
  \/ Go(waitrequest)
  \/ StartBurst(waitrequest)
  \/ ChainBurst(waitrequest)
  \/ WriteWord(waitrequest)
  \/ Idle(waitrequest)

Next ==
  \/ SetBuffer \/ AssertReset \/ ReleaseReset
  \/ VsyncRise \/ VsyncFall \/ PixelIn \/ PointerSync
  \/ ClkInReset
  \/ \E waitrequest \in BOOLEAN : ClkEdge(waitrequest)

Spec == Init /\ [][Next]_vars

(* Fairness: the clock ticks, the slave does not stall for ever, and a      *)
(* pointer that moved is eventually synchronised.                           *)
Fairness ==
  /\ WF_vars(PointerSync)
  /\ WF_vars(\E waitrequest \in BOOLEAN : Go(waitrequest) \/ StartBurst(waitrequest))
  /\ WF_vars(ChainBurst(FALSE) \/ WriteWord(FALSE))

FairSpec == Spec /\ Fairness

-----------------------------------------------------------------------------
(* Properties.                                                             *)

Burst == 0 .. MaxBurst

FlagsOK ==
  /\ wch_reset \in BOOLEAN
  /\ prev_vsync \in BOOLEAN /\ control_go \in BOOLEAN /\ vsync_edge \in BOOLEAN
  /\ first_transfer \in BOOLEAN
  /\ vsync \in BOOLEAN
  /\ clean \in BOOLEAN

RegistersOK ==
  /\ buff_addr \in Base \union {0}
  /\ buff_size \in Size \union {0}
  /\ master_address \in Nat
  /\ length \in Nat
  /\ master_burstcount \in Burst /\ burst_counter \in Burst
  /\ fifo \in Seq(Pixel)
  /\ visible \in Nat /\ unseen_pop \in {0, 1}
  /\ column \in Pixel
  /\ slave_addr \in Nat /\ slave_left \in Burst
  /\ stored \in Word
  /\ frame_base \in Base \union {0}
  /\ frame_size \in Size \union {0}

(* Types; bursts never exceed MaxBurst, FIFO words are pixels.             *)
TypeOK == FlagsOK /\ RegistersOK

(* A burst on the bus is backed by words in the FIFO: the engine never pops *)
(* an empty FIFO, whose underflow checking is off, although it sees the     *)
(* fill level late ("make sure that when a burst begins there really is     *)
(* enough data present in the FIFO", burst_write_master.v:267).             *)
BurstIsBacked == burst_counter <= Len(fifo)

(* The words of an open burst are words of the programmed transfer, so the  *)
(* last burst never runs past the end of the buffer.                        *)
BurstWithinTransfer == burst_counter <= length

(* A burst's address and count stay on the bus until its last word, as the  *)
(* headings at burst_write_master.v:158 and :201 say.                       *)
HeldDuringBurst ==
  [][slave_left # 0 /\ slave_left' # 0 /\ ~wch_reset'
       => UNCHANGED <<master_address, master_burstcount>>]_vars

\* The word the engine means to write next.
NextWord ==
  IF first_transfer THEN master_address
  ELSE master_address + master_burstcount - burst_counter

(* Engine and slave agree where a burst stands, including the address of    *)
(* its next word, unless something cut a burst short.                       *)
SlaveAgrees ==
  Graceful =>
    \/ slave_left = burst_counter
       /\ (slave_left > 0 => slave_addr = NextWord)
    \/ slave_left = 0 /\ burst_counter = master_burstcount
       /\ master_address = NextWord

(* The address counts bursts and the length counts words, in separate       *)
(* registers: together they stay at the end of the buffer for a whole frame.*)
PlaceKept == NextWord + length = frame_base + frame_size

(* Pixel k of a frame is stored at word k of the buffer, if the frame found *)
(* the FIFO empty: nothing is lost, repeated or moved by burst boundaries,  *)
(* watermark latency or bus stalls.                                         *)
FrameInPlace ==
  [][Graceful /\ clean /\ stored' # stored
       => stored'[1] = frame_base + stored'[2]]_vars

(* Once the FIFO holds the whole rest of the transfer, the engine finishes  *)
(* it, whatever is left over for the last, short burst.                     *)
TransferCompletes ==
  (Len(fifo) >= length /\ ~wch_reset) ~> (length = 0 \/ control_go \/ wch_reset)

Sink == INSTANCE FrameSink WITH
  Base <- Base \union {0}, queue <- fifo, next <- NextWord, left <- length

(* Bursts, watermark and clock crossing implement the plain frame sink,     *)
(* given Graceful.                                                          *)
ImplementsFrameSink == Sink!Spec
=============================================================================
