---------------------------- MODULE DvpWchProofs ----------------------------
(***************************************************************************)
(* Theorems about the capture write channel, for every burst length,       *)
(* buffer, frame and FIFO size, where fifo_used shows a pop one edge later *)
(* (UsedLatency = 1).                                                      *)
(***************************************************************************)
EXTENDS DvpWch, TLAPS

(* The inductive invariant.  BurstIsBacked alone is not inductive: a burst  *)
(* starts on what the read side sees, so the words it needs must be among   *)
(* the visible ones; and a burst may chain only because the first burst of  *)
(* a frame starts from an idle engine.                                      *)
Fill == burst_counter <= visible /\ visible <= Len(fifo) /\ unseen_pop = 0

Counts ==
  /\ burst_counter <= length
  /\ burst_counter <= master_burstcount
  /\ first_transfer => burst_counter = 0

IInv == RegistersOK /\ Fill /\ Counts /\ PlaceKept

-----------------------------------------------------------------------------
(* burst_count is at least 1, at most MaxBurst, and at most what is left of *)
(* the transfer.                                                            *)
LEMMA BurstCountBounds ==
  ASSUME RegistersOK, length # 0
  PROVE  /\ burst_count \in 1 .. MaxBurst
         /\ burst_count <= length
<1>1. burst_boundary \in 0 .. MaxBurst - 1
  BY DvpWchAssumption DEF RegistersOK, burst_boundary
<1>2. CASE first_short_burst_enable
  <2>1. first_short_burst_count \in 1 .. MaxBurst /\ first_short_burst_count <= length
    BY <1>1, <1>2, DvpWchAssumption
       DEF RegistersOK, first_short_burst_enable, first_short_burst_count
  <2> QED BY <1>2, <2>1 DEF burst_count
<1>3. CASE ~first_short_burst_enable
  BY <1>3, DvpWchAssumption DEF RegistersOK, burst_count, final_short_burst_enable
<1> QED BY <1>2, <1>3

(* A burst that starts on an idle engine is backed by visible words.        *)
LEMMA StartIsBacked ==
  ASSUME RegistersOK, unseen_pop = 0, length # 0, data_ready
  PROVE  burst_count <= visible
<1>1. burst_count <= MaxBurst /\ burst_count <= length /\ burst_count \in Nat
  BY BurstCountBounds, DvpWchAssumption
<1>2. CASE first_short_burst_enable /\ EnoughFor(first_short_burst_count)
  BY <1>1, <1>2 DEF RegistersOK, EnoughFor, fifo_used, burst_count
<1>3. CASE final_short_burst_enable /\ EnoughFor(length)
  BY <1>1, <1>3 DEF RegistersOK, EnoughFor, fifo_used
<1>4. CASE EnoughFor(MaxBurst)
  BY <1>1, <1>4, DvpWchAssumption DEF RegistersOK, EnoughFor, fifo_used
<1> QED BY <1>2, <1>3, <1>4 DEF data_ready

-----------------------------------------------------------------------------
(* Init and every step keep the inductive invariant.                        *)
LEMMA InitIInv == Init => IInv
<1> SUFFICES ASSUME Init PROVE IInv
  OBVIOUS
<1>1. stored \in Word /\ fifo \in Seq(Pixel) /\ Len(fifo) = 0
  BY DEF Init, Word
<1>2. RegistersOK
  BY <1>1, DvpWchAssumption DEF Init, RegistersOK, Burst, Pixel
<1>3. Fill /\ Counts /\ PlaceKept
  BY <1>1 DEF Init, Fill, Counts, PlaceKept, NextWord
<1> QED BY <1>2, <1>3 DEF IInv

(* A word on the bus comes from the FIFO, and the engine's registers allow  *)
(* for one less of it.                                                      *)
LEMMA BeatStep ==
  ASSUME IInv, NEW waitrequest \in BOOLEAN, beat(waitrequest), Beat,
         UsedLatency = 1
  PROVE  /\ fifo' \in Seq(Pixel) /\ Len(fifo') = Len(fifo) - 1
         /\ visible' = visible - 1 /\ visible' \in Nat /\ unseen_pop' = 0
         /\ slave_addr' \in Nat /\ slave_left' \in Burst
         /\ stored' \in Word
         /\ burst_counter - 1 \in Burst /\ length - 1 \in Nat
<1>1. burst_counter # 0 /\ length # 0 /\ fifo # <<>>
  BY DEF beat, master_write, Beat
<1>2. /\ master_burstcount \in 1 .. MaxBurst /\ burst_counter \in 1 .. MaxBurst
      /\ visible \in Nat /\ visible > 0 /\ length \in Nat \ {0}
      /\ slave_left \in 0 .. MaxBurst /\ slave_addr \in Nat /\ master_address \in Nat
      /\ fifo \in Seq(Pixel) /\ UsedLatency - 1 = 0
  BY <1>1, DvpWchAssumption DEF IInv, RegistersOK, Fill, Counts, Burst
<1>3. Head(fifo) \in Pixel /\ Tail(fifo) \in Seq(Pixel) /\ Len(Tail(fifo)) = Len(fifo) - 1
  BY <1>1, <1>2
<1> QED BY <1>1, <1>2, <1>3, DvpWchAssumption DEF Beat, Burst, Word

(* What every edge of the running clock does to the FIFO and the slave.     *)
LEMMA ClkStep ==
  ASSUME IInv, NEW waitrequest \in BOOLEAN, Clk(waitrequest), UsedLatency = 1
  PROVE  /\ buff_addr' \in Base \union {0} /\ buff_size' \in Size \union {0}
         /\ fifo' \in Seq(Pixel) /\ visible' \in Nat /\ unseen_pop' = 0
         /\ column' \in Pixel
         /\ slave_addr' \in Nat /\ slave_left' \in Burst
         /\ stored' \in Word
         /\ visible' <= Len(fifo')
         /\ visible' = IF beat(waitrequest) THEN visible - 1 ELSE visible
<1>1. /\ buff_addr' \in Base \union {0} /\ buff_size' \in Size \union {0}
      /\ column' \in Pixel
  BY DEF Clk, IInv, RegistersOK, cpu_vars, camera_vars
<1>2. CASE beat(waitrequest)
  <2>1. Beat
    BY <1>2 DEF Clk
  <2>2. visible <= Len(fifo) /\ visible \in Nat /\ Len(fifo) \in Nat
    BY DEF IInv, Fill, RegistersOK
  <2> QED BY <1>1, <1>2, <2>1, <2>2, BeatStep
<1>3. CASE ~beat(waitrequest)
  BY <1>1, <1>3 DEF Clk, NoBeat, slave_vars, IInv, RegistersOK, Fill
<1> QED BY <1>2, <1>3

(* The edge that loads a new frame keeps the invariant.                    *)
LEMMA GoStep ==
  ASSUME IInv, NEW waitrequest \in BOOLEAN, Go(waitrequest), UsedLatency = 1
  PROVE  IInv'
<1>1. Clk(waitrequest)
  BY DEF Go
<1>2. master_burstcount' \in Burst
  BY BurstCountBounds, DvpWchAssumption DEF Go, burst_begin, IInv, RegistersOK, Burst
<1>3. /\ buff_addr \in Nat /\ buff_size \in Nat
      /\ first_transfer' = TRUE /\ master_address' = buff_addr
      /\ length' = buff_size /\ burst_counter' = 0
      /\ frame_base' = buff_addr /\ frame_size' = buff_size
      /\ frame_base' \in Base \union {0} /\ frame_size' \in Size \union {0}
  BY DvpWchAssumption DEF Go, IInv, RegistersOK
<1>4. RegistersOK'
  BY <1>1, <1>2, <1>3, ClkStep, DvpWchAssumption DEF RegistersOK, Burst
<1>5. Fill' /\ Counts' /\ PlaceKept'
  BY <1>1, <1>2, <1>3, ClkStep, DvpWchAssumption
     DEF Fill, Counts, PlaceKept, NextWord, Burst
<1> QED BY <1>4, <1>5 DEF IInv

(* The edge that opens a burst from idle keeps it.                         *)
LEMMA StartStep ==
  ASSUME IInv, NEW waitrequest \in BOOLEAN, StartBurst(waitrequest),
         UsedLatency = 1
  PROVE  IInv'
<1>1. /\ Clk(waitrequest) /\ ~beat(waitrequest) /\ length # 0 /\ data_ready
      /\ burst_counter = 0 /\ unseen_pop = 0
  BY DEF StartBurst, burst_begin, beat, master_write, IInv, Fill
<1>2. burst_count \in 1 .. MaxBurst /\ burst_count <= length /\ burst_count <= visible
  BY <1>1, BurstCountBounds, StartIsBacked DEF IInv
<1>3. /\ master_burstcount' = burst_count /\ burst_counter' = burst_count
      /\ first_transfer' = FALSE /\ length' = length
      /\ master_address' = IF first_transfer THEN master_address
                           ELSE master_address + master_burstcount
      /\ frame_base' = frame_base /\ frame_size' = frame_size /\ clean' = clean
  BY DEF StartBurst, LoadBurst, frame_vars
<1>4. /\ master_address \in Nat /\ master_burstcount \in Nat /\ length \in Nat
      /\ frame_base \in Nat /\ frame_size \in Nat
  BY DvpWchAssumption DEF IInv, RegistersOK, Burst
<1>5. RegistersOK'
  <2>1. master_burstcount' \in Burst /\ burst_counter' \in Burst
    BY <1>2, <1>3, DvpWchAssumption DEF Burst
  <2>2. length' \in Nat /\ master_address' \in Nat
    BY <1>3, <1>4
  <2> QED BY <1>1, <1>3, <2>1, <2>2, ClkStep DEF IInv, RegistersOK
<1>6. Fill' /\ Counts'
  BY <1>1, <1>2, <1>3, ClkStep DEF IInv, Fill, Counts
<1>7. PlaceKept'
  BY <1>1, <1>2, <1>3, <1>4 DEF IInv, PlaceKept, NextWord
<1> QED BY <1>5, <1>6, <1>7 DEF IInv

(* The edge that ends one burst and opens the next keeps it.               *)
LEMMA ChainStep ==
  ASSUME IInv, NEW waitrequest \in BOOLEAN, ChainBurst(waitrequest),
         UsedLatency = 1
  PROVE  IInv'
<1>1. /\ Clk(waitrequest) /\ beat(waitrequest) /\ data_ready
      /\ burst_counter = 1 /\ length > MaxBurst /\ ~first_transfer
      /\ unseen_pop = 0
  BY DvpWchAssumption
     DEF ChainBurst, burst_begin, beat, master_write, IInv, Fill, Counts
<1>2. burst_count = MaxBurst /\ visible > MaxBurst
  BY <1>1, DvpWchAssumption
     DEF burst_count, first_short_burst_enable, final_short_burst_enable,
         data_ready, EnoughFor, fifo_used, IInv, RegistersOK
<1>3. /\ master_burstcount' = MaxBurst /\ burst_counter' = MaxBurst
      /\ first_transfer' = FALSE /\ length' = length - 1
      /\ master_address' = master_address + master_burstcount
      /\ frame_base' = frame_base /\ frame_size' = frame_size /\ clean' = clean
  BY <1>1, <1>2 DEF ChainBurst, LoadBurst, frame_vars
<1>4. /\ master_address \in Nat /\ master_burstcount \in Nat /\ length \in Nat
      /\ frame_base \in Nat /\ frame_size \in Nat /\ visible \in Nat
      /\ MaxBurst \in Nat \ {0}
  BY DvpWchAssumption DEF IInv, RegistersOK, Burst
<1>5. visible' = visible - 1 /\ visible' <= Len(fifo') /\ unseen_pop' = 0
  BY <1>1, ClkStep
<1>6. RegistersOK'
  <2>1. master_burstcount' \in Burst /\ burst_counter' \in Burst
    BY <1>3, <1>4 DEF Burst
  <2>2. length' \in Nat /\ master_address' \in Nat
    BY <1>1, <1>3, <1>4
  <2> QED BY <1>1, <1>3, <2>1, <2>2, ClkStep DEF IInv, RegistersOK
<1>7. Fill' /\ Counts'
  BY <1>1, <1>2, <1>3, <1>4, <1>5 DEF Fill, Counts
<1>8. PlaceKept'
  BY <1>1, <1>3, <1>4 DEF IInv, PlaceKept, NextWord
<1> QED BY <1>6, <1>7, <1>8 DEF IInv

(* The edge that moves a word inside a burst keeps it.                     *)
LEMMA WriteWordStep ==
  ASSUME IInv, NEW waitrequest \in BOOLEAN, WriteWord(waitrequest),
         UsedLatency = 1
  PROVE  IInv'
<1>1. Clk(waitrequest) /\ beat(waitrequest) /\ Beat /\ burst_counter # 0
  BY DEF WriteWord, Clk, beat, master_write
<1>2. /\ burst_counter' = burst_counter - 1 /\ length' = length - 1
      /\ first_transfer' = first_transfer /\ master_address' = master_address
      /\ master_burstcount' = master_burstcount
      /\ frame_base' = frame_base /\ frame_size' = frame_size /\ clean' = clean
  BY DEF WriteWord, frame_vars
<1>3. burst_counter' \in Burst /\ length' \in Nat
  BY <1>1, <1>2, BeatStep
<1>4. /\ master_address \in Nat /\ master_burstcount \in Nat /\ length \in Nat
      /\ burst_counter \in Nat /\ visible \in Nat
      /\ frame_base \in Nat /\ frame_size \in Nat
  BY DvpWchAssumption DEF IInv, RegistersOK, Burst
<1>5. RegistersOK'
  BY <1>1, <1>2, <1>3, ClkStep DEF IInv, RegistersOK
<1>6. Fill' /\ Counts'
  BY <1>1, <1>2, <1>4, ClkStep DEF IInv, Fill, Counts
<1>7. PlaceKept'
  BY <1>1, <1>2, <1>4 DEF IInv, Counts, PlaceKept, NextWord
<1> QED BY <1>5, <1>6, <1>7 DEF IInv

(* An edge with the bus idle or stalled keeps it.                          *)
LEMMA IdleStep ==
  ASSUME IInv, NEW waitrequest \in BOOLEAN, Idle(waitrequest), UsedLatency = 1
  PROVE  IInv'
<1>1. Clk(waitrequest) /\ ~beat(waitrequest) /\ UNCHANGED <<master_vars, frame_vars>>
  BY DEF Idle
<1>2. RegistersOK'
  BY <1>1, ClkStep DEF IInv, RegistersOK, master_vars, frame_vars
<1>3. Fill' /\ Counts' /\ PlaceKept'
  BY <1>1, ClkStep
     DEF IInv, Fill, Counts, PlaceKept, NextWord, master_vars, frame_vars
<1> QED BY <1>2, <1>3 DEF IInv

(* The CPU, the camera and the FIFO's pointer synchroniser.                 *)
LEMMA EnvironmentStep ==
  ASSUME IInv,
         \/ SetBuffer \/ AssertReset \/ ReleaseReset
         \/ VsyncRise \/ VsyncFall \/ PixelIn \/ PointerSync \/ ClkInReset
  PROVE  IInv'
<1> USE DvpWchAssumption
<1> USE DEF IInv, cpu_vars, edge_vars, master_vars, fifo_vars, camera_vars,
            slave_vars, frame_vars
<1>1. CASE SetBuffer
  BY <1>1 DEF SetBuffer, RegistersOK, Fill, Counts, PlaceKept, NextWord
<1>2. CASE AssertReset
  <2>1. fifo' \in Seq(Pixel) /\ Len(fifo') = 0 /\ 0 \in Burst
    BY <1>2 DEF AssertReset, Burst
  <2>2. RegistersOK'
    BY <1>2, <2>1 DEF AssertReset, RegistersOK
  <2> QED BY <1>2, <2>1, <2>2 DEF AssertReset, Fill, Counts, PlaceKept, NextWord
<1>3. CASE ReleaseReset \/ VsyncRise \/ VsyncFall \/ ClkInReset
  <2>0. column' \in {column, 0}
        /\ UNCHANGED <<buff_addr, buff_size, master_vars, fifo_vars, slave_vars,
                       frame_vars>>
    BY <1>3 DEF ReleaseReset, VsyncRise, VsyncFall, ClkInReset
  <2>1. RegistersOK'
    BY <2>0 DEF RegistersOK, Pixel
  <2>2. Fill' /\ Counts' /\ PlaceKept'
    BY <1>3 DEF ReleaseReset, VsyncRise, VsyncFall, ClkInReset,
                Fill, Counts, PlaceKept, NextWord
  <2> QED BY <2>1, <2>2
<1>4. CASE PixelIn
  <2>0. /\ column < FramePixels /\ column' = column + 1
        /\ fifo' \in {fifo, Append(fifo, column)}
    BY <1>4 DEF PixelIn
  <2>1. fifo' \in Seq(Pixel) /\ Len(fifo') >= Len(fifo) /\ column' \in Pixel
    BY <2>0 DEF RegistersOK, Pixel
  <2>2. RegistersOK'
    BY <1>4, <2>1 DEF PixelIn, RegistersOK
  <2>3. Fill' /\ Counts' /\ PlaceKept'
    BY <1>4, <2>1 DEF PixelIn, RegistersOK, Fill, Counts, PlaceKept, NextWord
  <2> QED BY <2>2, <2>3
<1>5. CASE PointerSync
  <2>1. visible' \in Nat /\ visible <= visible' /\ visible' <= Len(fifo)
    BY <1>5 DEF PointerSync, RegistersOK
  <2>2. RegistersOK'
    BY <1>5, <2>1 DEF PointerSync, RegistersOK
  <2>3. Fill' /\ Counts' /\ PlaceKept'
    BY <1>5, <2>1
       DEF PointerSync, RegistersOK, Burst, Fill, Counts, PlaceKept, NextWord
  <2> QED BY <2>2, <2>3
<1> QED BY <1>1, <1>2, <1>3, <1>4, <1>5

(* Every step keeps the invariant, if fifo_used is one edge late.          *)
LEMMA NextIInv == IInv /\ [Next]_vars /\ UsedLatency = 1 => IInv'
<1> SUFFICES ASSUME IInv, [Next]_vars, UsedLatency = 1
             PROVE  IInv'
  OBVIOUS
<1>1. ASSUME NEW waitrequest \in BOOLEAN, ClkEdge(waitrequest)
      PROVE  IInv'
  BY <1>1, GoStep, StartStep, ChainStep, WriteWordStep, IdleStep DEF ClkEdge
<1>2. CASE UNCHANGED vars
  BY <1>2 DEF vars, cpu_vars, edge_vars, master_vars, fifo_vars, camera_vars,
              slave_vars, frame_vars, IInv, RegistersOK, Fill, Counts, PlaceKept, NextWord
<1> QED BY <1>1, <1>2, EnvironmentStep DEF Next

(* Spec implies the inductive invariant.                                    *)
THEOREM Invariance == ASSUME UsedLatency = 1 PROVE Spec => []IInv
<1>1. Init => IInv
  BY InitIInv
<1>2. IInv /\ [Next]_vars => IInv'
  BY NextIInv
<1> QED BY <1>1, <1>2, PTL DEF Spec

(* The one-bit registers and pins stay Boolean.                             *)
LEMMA FlagsStep == FlagsOK /\ [Next]_vars => FlagsOK'
<1> SUFFICES ASSUME FlagsOK, [Next]_vars
             PROVE  FlagsOK'
  OBVIOUS
<1> USE DEF FlagsOK, cpu_vars, edge_vars, master_vars, camera_vars, frame_vars
<1>1. CASE \/ SetBuffer \/ AssertReset \/ ReleaseReset
           \/ VsyncRise \/ VsyncFall \/ PixelIn \/ PointerSync \/ ClkInReset
  BY <1>1 DEF SetBuffer, AssertReset, ReleaseReset, VsyncRise, VsyncFall,
              PixelIn, PointerSync, ClkInReset, Sample
<1>2. ASSUME NEW waitrequest \in BOOLEAN, ClkEdge(waitrequest)
      PROVE  FlagsOK'
  <2>1. Clk(waitrequest)
    BY <1>2 DEF ClkEdge, Go, StartBurst, ChainBurst, WriteWord, Idle
  <2>2. /\ wch_reset' \in BOOLEAN /\ vsync' \in BOOLEAN
        /\ prev_vsync' \in BOOLEAN /\ control_go' \in BOOLEAN
        /\ vsync_edge' \in BOOLEAN
    BY <2>1 DEF Clk, DetectEdge, Sample
  <2>3. first_transfer' \in BOOLEAN /\ clean' \in BOOLEAN
    BY <1>2 DEF ClkEdge, Go, StartBurst, ChainBurst, WriteWord, Idle, LoadBurst
  <2> QED BY <2>2, <2>3
<1>3. CASE UNCHANGED vars
  BY <1>3 DEF vars
<1> QED BY <1>1, <1>2, <1>3 DEF Next

(* Type correctness of the capture channel.                                 *)
THEOREM TypeCorrect == ASSUME UsedLatency = 1 PROVE Spec => []TypeOK
<1>1. Init => FlagsOK
  BY DEF Init, FlagsOK
<1>2. IInv /\ FlagsOK => TypeOK
  BY DEF IInv, TypeOK
<1> QED BY <1>1, <1>2, FlagsStep, Invariance, PTL DEF Spec

(* The burst engine never takes a word from an empty FIFO, for any pixel    *)
(* timing, bus stall, buffer, vsync or reset, graceful or not.              *)
THEOREM NeverUnderflows == ASSUME UsedLatency = 1 PROVE Spec => []BurstIsBacked
<1>1. IInv => BurstIsBacked
  BY DEF IInv, RegistersOK, Burst, Fill, BurstIsBacked
<1> QED BY <1>1, Invariance, PTL

(* The engine never writes past the end of the buffer it was started with,  *)
(* and address and length stay in step for the whole frame.                 *)
THEOREM StaysInBuffer ==
  ASSUME UsedLatency = 1 PROVE Spec => [](BurstWithinTransfer /\ PlaceKept)
<1>1. IInv => BurstWithinTransfer /\ PlaceKept
  BY DEF IInv, Counts, BurstWithinTransfer
<1> QED BY <1>1, Invariance, PTL

-----------------------------------------------------------------------------
(* While nothing cuts a burst short (Graceful), the capture channel        *)
(* implements FrameSink, and a frame that finds the FIFO empty is stored   *)
(* in place.                                                               *)

(* What the argument needs beyond IInv.  A vsync pulse finds the engine     *)
(* quiet and keeps it so until control_go, so no burst is ever abandoned.   *)
ResetState ==
  wch_reset => /\ length = 0 /\ burst_counter = 0 /\ fifo = <<>> /\ visible = 0
               /\ ~control_go /\ ~vsync_edge /\ ~clean

PulseOrder ==
  /\ control_go => vsync /\ prev_vsync /\ vsync_edge
  /\ clean => vsync_edge

QuietAtGo == control_go \/ (vsync /\ ~prev_vsync) => Quiet

\* Between control_go and the end of the pulse nothing of the frame is there.
AwaitsFrame == vsync /\ prev_vsync /\ ~control_go

\* The FIFO holds the pixels of this frame from the next one to be stored on.
FifoIsFrame ==
  /\ column + length = frame_size + Len(fifo)
  /\ \A i \in 1 .. Len(fifo) : fifo[i] = frame_size - length + (i - 1)

Placement ==
  clean => IF AwaitsFrame THEN fifo = <<>> /\ length = frame_size ELSE FifoIsFrame

GInv ==
  /\ IInv /\ FlagsOK
  /\ ResetState /\ PulseOrder /\ QuietAtGo /\ SlaveAgrees

-----------------------------------------------------------------------------
(* The word on the bus is the one the engine means to write.                *)
LEMMA BeatStores ==
  ASSUME GInv, Graceful, NEW waitrequest \in BOOLEAN, beat(waitrequest), Beat
  PROVE  stored' = <<NextWord, Head(fifo)>> /\ fifo' = Tail(fifo) /\ fifo # <<>>
<1>1. burst_counter # 0 /\ ~first_transfer
  BY DEF beat, master_write, GInv, IInv, Counts
<1>2. (IF slave_left = 0 THEN master_address ELSE slave_addr) = NextWord
  BY <1>1 DEF GInv, SlaveAgrees, IInv, RegistersOK, Burst
<1> QED BY <1>2 DEF Beat

(* A quiet engine takes no word and starts no burst.                        *)
LEMMA QuietHolds ==
  ASSUME Quiet, NEW waitrequest \in BOOLEAN
  PROVE  ~beat(waitrequest) /\ ~burst_begin(waitrequest)
BY DEF Quiet, beat, master_write, burst_begin

-----------------------------------------------------------------------------
(* Each kind of clock edge, as a step of the frame sink.                    *)
LEMMA GoRefines ==
  ASSUME GInv, Graceful, NEW waitrequest \in BOOLEAN, Go(waitrequest)
  PROVE  Sink!StartFrame
<1>1. ~beat(waitrequest)
  BY QuietHolds DEF Go, GInv, QuietAtGo
<1>2. UNCHANGED <<fifo, stored>>
  BY <1>1 DEF Go, Clk, NoBeat, slave_vars
<1>3. NextWord' = buff_addr /\ length' = buff_size
  BY DEF Go, NextWord
<1> QED BY <1>2, <1>3, DvpWchAssumption
        DEF Sink!StartFrame, GInv, IInv, RegistersOK

(* Opening a burst from idle moves nothing the frame sink sees.            *)
LEMMA StartRefines ==
  ASSUME GInv, NEW waitrequest \in BOOLEAN, StartBurst(waitrequest)
  PROVE  UNCHANGED <<fifo, NextWord, length, stored>>
<1>1. ~beat(waitrequest) /\ burst_counter = 0 /\ length' = length
  BY DEF StartBurst, beat, master_write
<1>2. UNCHANGED <<fifo, stored>>
  BY <1>1 DEF StartBurst, Clk, NoBeat, slave_vars
<1>3. master_address \in Nat /\ master_burstcount \in Nat /\ length \in Nat
  BY DvpWchAssumption DEF GInv, IInv, RegistersOK, Burst
<1>4. length # 0 /\ burst_count \in Nat
  BY BurstCountBounds, DvpWchAssumption DEF StartBurst, burst_begin, GInv, IInv
<1>5. NextWord' = NextWord
  BY <1>1, <1>3, <1>4 DEF StartBurst, LoadBurst, NextWord
<1> QED BY <1>1, <1>2, <1>5

(* Ending one burst and opening the next stores one word of the sink.      *)
LEMMA ChainRefines ==
  ASSUME GInv, Graceful, NEW waitrequest \in BOOLEAN, ChainBurst(waitrequest)
  PROVE  Sink!Store
<1>1. /\ Clk(waitrequest) /\ beat(waitrequest) /\ ~first_transfer
      /\ burst_counter = 1 /\ length' = length - 1 /\ length # 0
  BY DvpWchAssumption
     DEF ChainBurst, burst_begin, beat, master_write, GInv, IInv, Counts
<1>2. /\ stored' = <<NextWord, Head(fifo)>> /\ fifo' = Tail(fifo)
      /\ fifo # <<>>
  BY <1>1, BeatStores DEF Clk
<1>3. /\ master_address \in Nat /\ master_burstcount \in Nat /\ length \in Nat
      /\ burst_count \in Nat
  BY <1>1, BurstCountBounds, DvpWchAssumption DEF GInv, IInv, RegistersOK, Burst
<1>4. NextWord' = NextWord + 1
  BY <1>1, <1>3 DEF ChainBurst, LoadBurst, NextWord
<1> QED BY <1>1, <1>2, <1>3, <1>4 DEF Sink!Store, Sink!TakeHead

(* A word inside a burst is one word stored by the sink.                   *)
LEMMA WriteWordRefines ==
  ASSUME GInv, Graceful, NEW waitrequest \in BOOLEAN, WriteWord(waitrequest)
  PROVE  Sink!Store
<1>1. /\ Clk(waitrequest) /\ beat(waitrequest) /\ ~first_transfer
      /\ burst_counter # 0 /\ length # 0
  BY DEF WriteWord, beat, master_write, GInv, IInv, Counts
<1>2. /\ stored' = <<NextWord, Head(fifo)>> /\ fifo' = Tail(fifo)
      /\ fifo # <<>>
  BY <1>1, BeatStores DEF Clk
<1>3. /\ master_address \in Nat /\ master_burstcount \in Nat /\ length \in Nat
      /\ burst_counter \in Nat
  BY DvpWchAssumption DEF GInv, IInv, RegistersOK, Burst
<1>4. NextWord' = NextWord + 1
  BY <1>1, <1>3 DEF WriteWord, NextWord
<1> QED BY <1>1, <1>2, <1>3, <1>4 DEF WriteWord, Sink!Store, Sink!TakeHead

(* An edge with the bus idle or stalled is a stutter of the sink.          *)
LEMMA IdleRefines ==
  ASSUME NEW waitrequest \in BOOLEAN, Idle(waitrequest)
  PROVE  UNCHANGED <<fifo, NextWord, length, stored>>
BY DEF Idle, Clk, NoBeat, slave_vars, master_vars, NextWord

(* Every step of the channel is a step of the frame sink, or stutters.      *)
LEMMA StepRefines ==
  ASSUME GInv, Graceful, [Next]_vars
  PROVE  [Sink!Next]_(Sink!vars)
<1> USE DEF cpu_vars, edge_vars, master_vars, fifo_vars, camera_vars,
            slave_vars, frame_vars
<1>1. CASE \/ SetBuffer \/ ReleaseReset \/ VsyncRise \/ VsyncFall
           \/ PointerSync \/ ClkInReset \/ UNCHANGED vars
  BY <1>1 DEF SetBuffer, ReleaseReset, VsyncRise, VsyncFall, PointerSync,
              ClkInReset, vars, NextWord, Sink!vars
<1>2. CASE AssertReset
  <2>1. NextWord' = 0
    BY <1>2 DEF AssertReset, NextWord
  <2> QED BY <1>2, <2>1 DEF AssertReset, Sink!Clear, Sink!Next
<1>3. CASE PixelIn
  <2>1. NextWord' = NextWord /\ length' = length /\ stored' = stored
    BY <1>3 DEF PixelIn, NextWord
  <2>2. CASE vsync_edge
    <3>1. fifo' = Append(fifo, column) /\ column \in Pixel
      BY <1>3, <2>2 DEF PixelIn, GInv, IInv, RegistersOK
    <3> QED BY <2>1, <3>1 DEF Sink!Arrive, Sink!Next
  <2>3. CASE ~vsync_edge
    BY <1>3, <2>1, <2>3 DEF PixelIn, Sink!vars
  <2> QED BY <2>2, <2>3
<1>4. ASSUME NEW waitrequest \in BOOLEAN, ClkEdge(waitrequest)
      PROVE  [Sink!Next]_(Sink!vars)
  BY <1>4, GoRefines, StartRefines, ChainRefines, WriteWordRefines, IdleRefines
     DEF ClkEdge, Sink!Next, Sink!vars
<1> QED BY <1>1, <1>2, <1>3, <1>4 DEF Next

-----------------------------------------------------------------------------
(* The strengthened invariant is kept.                                      *)
LEMMA InitGInv == Init => GInv
<1> SUFFICES ASSUME Init PROVE GInv
  OBVIOUS
<1>1. IInv /\ FlagsOK
  BY InitIInv DEF Init, FlagsOK
<1>2. ResetState /\ PulseOrder /\ QuietAtGo /\ SlaveAgrees
  BY DEF Init, ResetState, PulseOrder, QuietAtGo, SlaveAgrees, NextWord
<1> QED BY <1>1, <1>2 DEF GInv

(* The bus slave stays in step with the engine.                             *)
LEMMA SlaveStep ==
  ASSUME GInv, IInv', Graceful, [Next]_vars
  PROVE  SlaveAgrees'
<1> USE DEF cpu_vars, edge_vars, master_vars, fifo_vars, camera_vars,
            slave_vars, frame_vars
<1>0. /\ slave_left \in Nat /\ burst_counter \in Nat /\ master_burstcount \in Nat
      /\ master_address \in Nat /\ slave_addr \in Nat
      /\ burst_counter = 0 => slave_left = 0
  BY DvpWchAssumption DEF GInv, IInv, RegistersOK, Burst, SlaveAgrees
<1>1. CASE \/ SetBuffer \/ ReleaseReset \/ VsyncRise \/ VsyncFall \/ PixelIn
           \/ PointerSync \/ ClkInReset \/ UNCHANGED vars
  <2>1. UNCHANGED <<slave_left, slave_addr, first_transfer, master_address,
                    master_burstcount, burst_counter>>
    BY <1>1 DEF SetBuffer, ReleaseReset, VsyncRise, VsyncFall, PixelIn,
                PointerSync, ClkInReset, vars
  <2> QED BY <2>1 DEF GInv, SlaveAgrees, NextWord
<1>2. CASE AssertReset
  BY <1>0, <1>2 DEF AssertReset, SlaveAgrees
<1>3. ASSUME NEW waitrequest \in BOOLEAN, Go(waitrequest)
      PROVE  SlaveAgrees'
  <2>1. ~beat(waitrequest) /\ burst_counter = 0
    BY <1>3, QuietHolds DEF Go, GInv, QuietAtGo, Quiet
  <2> QED BY <1>0, <1>3, <2>1 DEF Go, Clk, NoBeat, SlaveAgrees
<1>4. ASSUME NEW waitrequest \in BOOLEAN, StartBurst(waitrequest)
      PROVE  SlaveAgrees'
  <2>1. burst_counter = 0 /\ ~beat(waitrequest)
    BY <1>4 DEF StartBurst, beat, master_write
  <2>2. slave_left' = 0 /\ burst_counter' = master_burstcount' /\ ~first_transfer'
    BY <1>0, <1>4, <2>1 DEF StartBurst, Clk, NoBeat, LoadBurst
  <2>3. master_address' \in Nat /\ master_burstcount' \in Nat
    BY DvpWchAssumption DEF IInv, RegistersOK, Burst
  <2>4. NextWord' = master_address' + master_burstcount' - burst_counter'
    BY <2>2 DEF NextWord
  <2>5. \A a, b \in Nat : a + b - b = a
    OBVIOUS
  <2>6. NextWord' = master_address'
    BY <2>2, <2>3, <2>4, <2>5
  <2> QED BY <2>2, <2>6 DEF SlaveAgrees
<1>5. ASSUME NEW waitrequest \in BOOLEAN, ChainBurst(waitrequest)
      PROVE  SlaveAgrees'
  <2>1. burst_counter = 1 /\ beat(waitrequest) /\ Beat
    BY <1>5, DvpWchAssumption DEF ChainBurst, Clk, burst_begin, beat, master_write
  <2>2. slave_left' = 0
    BY <1>0, <2>1 DEF Beat, GInv, SlaveAgrees
  <2>3. burst_counter' = master_burstcount' /\ ~first_transfer'
    BY <1>5 DEF ChainBurst, LoadBurst
  <2>4. master_address' \in Nat /\ master_burstcount' \in Nat
    BY DvpWchAssumption DEF IInv, RegistersOK, Burst
  <2>5. NextWord' = master_address' + master_burstcount' - burst_counter'
    BY <2>3 DEF NextWord
  <2>6. \A a, b \in Nat : a + b - b = a
    OBVIOUS
  <2>7. NextWord' = master_address'
    BY <2>3, <2>4, <2>5, <2>6
  <2> QED BY <2>2, <2>3, <2>7 DEF SlaveAgrees
<1>6. ASSUME NEW waitrequest \in BOOLEAN, WriteWord(waitrequest)
      PROVE  SlaveAgrees'
  <2>1. Beat /\ burst_counter # 0 /\ ~first_transfer
    BY <1>6 DEF WriteWord, Clk, beat, master_write, GInv, IInv, Counts
  <2>2. slave_left' = burst_counter - 1 /\ slave_addr' = NextWord + 1
    BY <1>0, <2>1 DEF Beat, GInv, SlaveAgrees
  <2>3. NextWord' = NextWord + 1 /\ burst_counter' = burst_counter - 1
    BY <1>0, <1>6, <2>1 DEF WriteWord, NextWord
  <2> QED BY <2>2, <2>3 DEF SlaveAgrees
<1>7. ASSUME NEW waitrequest \in BOOLEAN, Idle(waitrequest)
      PROVE  SlaveAgrees'
  BY <1>7 DEF Idle, Clk, NoBeat, GInv, SlaveAgrees, NextWord
<1> QED BY <1>1, <1>2, <1>3, <1>4, <1>5, <1>6, <1>7 DEF Next, ClkEdge

(* Given Graceful, the edge detector's flip-flops see vsync alike.          *)
LEMMA SameSample ==
  ASSUME Graceful, DetectEdge
  PROVE  /\ prev_vsync' = vsync
         /\ control_go' = (~prev_vsync /\ vsync)
         /\ vsync_edge' = (vsync_edge \/ (~prev_vsync /\ vsync))
BY DEF DetectEdge, Sample

(* A pulse finds the engine quiet, and it stays quiet until control_go.     *)
LEMMA QuietStep ==
  ASSUME GInv, Graceful, UsedLatency = 1, [Next]_vars
  PROVE  QuietAtGo'
<1> USE DEF cpu_vars, edge_vars, master_vars, fifo_vars, camera_vars,
            slave_vars, frame_vars
<1> DEFINE SameEngine == UNCHANGED <<master_vars, fifo_vars>>
<1>0. ASSUME SameEngine, Quiet PROVE Quiet'
  BY <1>0 DEF Quiet, burst_begin, data_ready, EnoughFor, fifo_used,
              first_short_burst_enable, first_short_burst_count,
              final_short_burst_enable, burst_boundary
<1>1. CASE SetBuffer \/ ReleaseReset \/ UNCHANGED vars
  <2>1. SameEngine /\ UNCHANGED <<control_go, vsync, prev_vsync>>
    BY <1>1 DEF SetBuffer, ReleaseReset, vars
  <2> QED BY <1>0, <2>1 DEF GInv, QuietAtGo
<1>2. CASE AssertReset
  BY <1>2 DEF AssertReset, QuietAtGo, Quiet, burst_begin
<1>3. CASE VsyncRise
  <2>1. SameEngine /\ Quiet
    BY <1>3 DEF VsyncRise
  <2> QED BY <1>0, <2>1 DEF QuietAtGo
<1>4. CASE VsyncFall
  BY <1>4 DEF VsyncFall, QuietAtGo
<1>5. CASE PixelIn
  BY <1>5 DEF PixelIn, GInv, PulseOrder, QuietAtGo
<1>6. CASE PointerSync
  <2>1. ~Quiet
    <3>1. visible # Len(fifo)
      BY <1>6 DEF PointerSync, GInv, IInv, RegistersOK
    <3> QED BY <3>1 DEF Quiet
  <2> QED BY <1>6, <2>1 DEF PointerSync, GInv, QuietAtGo
<1>7. CASE ClkInReset
  BY <1>7 DEF ClkInReset, Sample, GInv, ResetState, QuietAtGo
<1>8. ASSUME NEW waitrequest \in BOOLEAN, ClkEdge(waitrequest)
      PROVE  QuietAtGo'
  <2>1. Clk(waitrequest)
    BY <1>8 DEF ClkEdge, Go, StartBurst, ChainBurst, WriteWord, Idle
  <2>2. CASE vsync /\ ~prev_vsync
    <3>1. Quiet /\ ~control_go /\ ~beat(waitrequest) /\ ~burst_begin(waitrequest)
      BY <2>2, QuietHolds DEF GInv, PulseOrder, QuietAtGo
    <3>2. Idle(waitrequest) /\ unseen_pop = 0
      BY <1>8, <3>1 DEF ClkEdge, Go, StartBurst, ChainBurst, WriteWord, GInv, IInv, Fill
    <3>3. SameEngine
      BY <3>1, <3>2 DEF Idle, Clk, NoBeat
    <3> QED BY <1>0, <3>1, <3>3 DEF QuietAtGo
  <2>3. CASE ~(vsync /\ ~prev_vsync)
    <3>1. ~control_go' /\ prev_vsync' = vsync /\ vsync' = vsync
      BY <2>1, <2>3, SameSample DEF Clk
    <3> QED BY <2>3, <3>1 DEF QuietAtGo
  <2> QED BY <2>2, <2>3
<1> QED BY <1>1, <1>2, <1>3, <1>4, <1>5, <1>6, <1>7, <1>8 DEF Next

(* Reset clears the engine, and a start of frame comes within its pulse.    *)
LEMMA OrderStep ==
  ASSUME GInv, Graceful, [Next]_vars
  PROVE  ResetState' /\ PulseOrder'
<1> USE DEF cpu_vars, edge_vars, master_vars, fifo_vars, camera_vars,
            slave_vars, frame_vars, GInv, ResetState, PulseOrder
<1>1. CASE SetBuffer \/ ReleaseReset \/ ClkInReset \/ UNCHANGED vars
  BY <1>1 DEF SetBuffer, ReleaseReset, ClkInReset, Sample, vars
<1>2. CASE AssertReset
  BY <1>2 DEF AssertReset
<1>3. CASE VsyncRise \/ VsyncFall
  BY <1>3 DEF VsyncRise, VsyncFall
<1>4. CASE PixelIn
  BY <1>4 DEF PixelIn
<1>5. CASE PointerSync
  <2>1. ~wch_reset
    BY <1>5 DEF PointerSync
  <2> QED BY <1>5, <2>1 DEF PointerSync
<1>6. ASSUME NEW waitrequest \in BOOLEAN, ClkEdge(waitrequest)
      PROVE  ResetState' /\ PulseOrder'
  <2>1. Clk(waitrequest)
    BY <1>6 DEF ClkEdge, Go, StartBurst, ChainBurst, WriteWord, Idle
  <2>2. clean' => clean \/ control_go
    BY <1>6 DEF ClkEdge, Go, StartBurst, ChainBurst, WriteWord, Idle
  <2>3. /\ prev_vsync' = vsync /\ vsync' = vsync /\ ~wch_reset /\ ~wch_reset'
        /\ control_go' = (~prev_vsync /\ vsync)
        /\ vsync_edge' = (vsync_edge \/ (~prev_vsync /\ vsync))
    BY <2>1, SameSample DEF Clk
  <2> QED BY <2>2, <2>3
<1> QED BY <1>1, <1>2, <1>3, <1>4, <1>5, <1>6 DEF Next

(* Every step of a graceful system keeps the stronger invariant.           *)
LEMMA NextGInv == GInv /\ [Next]_vars /\ Graceful /\ UsedLatency = 1 => GInv'
BY NextIInv, FlagsStep, SlaveStep, QuietStep, OrderStep DEF GInv

(* In a graceful system engine and bus slave stay in step, every vsync     *)
(* pulse starts one frame, and that start finds the engine quiet.          *)
THEOREM GInvariance ==
  ASSUME Graceful, UsedLatency = 1 PROVE Spec => []GInv
<1> QED BY InitGInv, NextGInv, PTL DEF Spec

(* Engine and bus slave always agree where the open burst stands.           *)
THEOREM SlaveInStep ==
  ASSUME Graceful, UsedLatency = 1 PROVE Spec => []SlaveAgrees
<1>1. GInv => SlaveAgrees
  BY DEF GInv
<1> QED BY <1>1, GInvariance, PTL

(* The capture channel implements the frame sink: every word taken from the *)
(* FIFO is the oldest pixel and goes to the next consecutive address.       *)
THEOREM Refinement ==
  ASSUME Graceful, UsedLatency = 1 PROVE Spec => ImplementsFrameSink
<1>1. Init => Sink!Init
  BY DEF Init, Sink!Init, NextWord
<1>2. GInv /\ [Next]_vars => [Sink!Next]_(Sink!vars)
  BY StepRefines
<1> QED BY <1>1, <1>2, GInvariance, PTL DEF Spec, Sink!Spec, ImplementsFrameSink

-----------------------------------------------------------------------------
(* Taking a word leaves the rest of the frame behind it in place.           *)
LEMMA TakeKeepsFrame ==
  ASSUME IInv, FifoIsFrame, fifo # <<>>, fifo' = Tail(fifo),
         length' = length - 1, UNCHANGED <<column, frame_size>>
  PROVE  FifoIsFrame' /\ Head(fifo) = frame_size - length
<1>1. /\ fifo \in Seq(Pixel) /\ length \in Nat /\ frame_size \in Nat /\ column \in Nat
      /\ Len(fifo) \in Nat
  BY DvpWchAssumption DEF IInv, RegistersOK, Pixel
<1>2. /\ Len(fifo) > 0 /\ Head(fifo) = fifo[1]
      /\ Len(fifo') = Len(fifo) - 1
      /\ \A i \in 1 .. Len(fifo) - 1 : fifo'[i] = fifo[i + 1]
  BY <1>1
<1>3. Head(fifo) = frame_size - length
  BY <1>1, <1>2 DEF FifoIsFrame
<1>4. column' + length' = frame_size' + Len(fifo')
  BY <1>1, <1>2 DEF FifoIsFrame
<1>5. ASSUME NEW i \in 1 .. Len(fifo')
      PROVE  fifo'[i] = frame_size' - length' + (i - 1)
  <2>1. i \in 1 .. Len(fifo) - 1 /\ i + 1 \in 1 .. Len(fifo)
    BY <1>1, <1>2
  <2>2. fifo[i + 1] = frame_size - length + ((i + 1) - 1)
    BY <2>1 DEF FifoIsFrame
  <2> QED BY <1>1, <1>2, <2>1, <2>2
<1> QED BY <1>3, <1>4, <1>5 DEF FifoIsFrame

(* A pixel that arrives takes its place behind the others.                  *)
LEMMA PixelKeepsFrame ==
  ASSUME IInv, FifoIsFrame, fifo' = Append(fifo, column),
         column' = column + 1, UNCHANGED <<length, frame_size>>
  PROVE  FifoIsFrame'
<1>1. /\ fifo \in Seq(Pixel) /\ length \in Nat /\ frame_size \in Nat
      /\ column \in Nat /\ column \in Pixel /\ Len(fifo) \in Nat
  BY DvpWchAssumption DEF IInv, RegistersOK, Pixel
<1>2. /\ Len(fifo') = Len(fifo) + 1 /\ fifo'[Len(fifo) + 1] = column
      /\ \A i \in 1 .. Len(fifo) : fifo'[i] = fifo[i]
  BY <1>1
<1>3. column' + length' = frame_size' + Len(fifo')
  <2>1. column + length = frame_size + Len(fifo)
    BY DEF FifoIsFrame
  <2> QED BY <1>1, <1>2, <2>1
<1>4. ASSUME NEW i \in 1 .. Len(fifo')
      PROVE  fifo'[i] = frame_size' - length' + (i - 1)
  <2>1. CASE i \in 1 .. Len(fifo)
    BY <1>1, <1>2, <2>1 DEF FifoIsFrame
  <2>2. CASE i = Len(fifo) + 1
    BY <1>1, <1>2, <2>2 DEF FifoIsFrame
  <2> QED BY <1>1, <1>2, <2>1, <2>2
<1> QED BY <1>3, <1>4 DEF FifoIsFrame

(* Under that invariant a step that stores a word stores it in place.      *)
LEMMA PlacementStep ==
  ASSUME GInv, Placement, Graceful, UsedLatency = 1, [Next]_vars
  PROVE  Placement'
<1> USE DEF cpu_vars, edge_vars, master_vars, fifo_vars, camera_vars,
            slave_vars, frame_vars
<1>0. ASSUME UNCHANGED <<fifo, length, column, frame_size>>, FifoIsFrame
      PROVE  FifoIsFrame'
  BY <1>0 DEF FifoIsFrame
<1>1. CASE SetBuffer \/ ReleaseReset \/ PointerSync \/ UNCHANGED vars
  <2>1. UNCHANGED <<fifo, length, column, frame_size, clean, vsync, prev_vsync,
                    control_go>>
    BY <1>1 DEF SetBuffer, ReleaseReset, PointerSync, vars
  <2> QED BY <2>1 DEF Placement, AwaitsFrame, FifoIsFrame
<1>2. CASE AssertReset
  BY <1>2 DEF AssertReset, Placement
<1>3. CASE VsyncRise
  <2>1. /\ ~AwaitsFrame /\ ~AwaitsFrame' /\ clean' = clean
        /\ UNCHANGED <<fifo, length, column, frame_size>>
    BY <1>3 DEF VsyncRise, AwaitsFrame
  <2> QED BY <1>0, <2>1 DEF Placement
<1>4. CASE VsyncFall
  <2>1. /\ AwaitsFrame /\ ~AwaitsFrame' /\ clean' = clean /\ column' = 0
        /\ UNCHANGED <<fifo, length, frame_size>>
    BY <1>4 DEF VsyncFall, AwaitsFrame
  <2>2. ASSUME clean PROVE FifoIsFrame'
    <3>1. fifo' = <<>> /\ length' = frame_size' /\ Len(fifo') = 0 /\ frame_size' \in Nat
      BY <2>1, <2>2, DvpWchAssumption DEF Placement, GInv, IInv, RegistersOK
    <3> QED BY <2>1, <3>1 DEF FifoIsFrame
  <2> QED BY <2>1, <2>2 DEF Placement
<1>5. CASE PixelIn
  <2>1. /\ ~AwaitsFrame /\ ~AwaitsFrame' /\ clean' = clean
        /\ UNCHANGED <<length, frame_size>>
    BY <1>5 DEF PixelIn, AwaitsFrame
  <2>2. ASSUME clean PROVE FifoIsFrame'
    <3>1. fifo' = Append(fifo, column) /\ column' = column + 1
      BY <1>5, <2>2 DEF PixelIn, GInv, PulseOrder
    <3> QED BY <2>1, <2>2, <3>1, PixelKeepsFrame DEF Placement, GInv
  <2> QED BY <2>1, <2>2 DEF Placement
<1>6. CASE ClkInReset
  BY <1>6 DEF ClkInReset, Sample, GInv, ResetState, Placement
<1>7. ASSUME NEW waitrequest \in BOOLEAN, Go(waitrequest)
      PROVE  Placement'
  BY <1>7 DEF Go, Clk, DetectEdge, Sample, GInv, PulseOrder, Placement, AwaitsFrame
<1>8. ASSUME NEW waitrequest \in BOOLEAN, ClkEdge(waitrequest), ~control_go
      PROVE  Placement'
  <2>1. /\ Clk(waitrequest) /\ clean' = clean /\ frame_size' = frame_size
        /\ column' = column /\ vsync' = vsync
    BY <1>8 DEF ClkEdge, Go, StartBurst, ChainBurst, WriteWord, Idle, Clk
  <2>2. AwaitsFrame' <=> AwaitsFrame
    <3>1. /\ ~control_go /\ vsync' = vsync /\ prev_vsync' = vsync
          /\ control_go' = (~prev_vsync /\ vsync)
      BY <1>8, <2>1 DEF Clk, DetectEdge, Sample
    <3>2. CASE vsync /\ prev_vsync
      BY <3>1, <3>2 DEF AwaitsFrame
    <3>3. CASE vsync /\ ~prev_vsync
      BY <3>1, <3>3 DEF AwaitsFrame
    <3>4. CASE ~vsync
      BY <3>1, <3>4 DEF AwaitsFrame
    <3> QED BY <3>2, <3>3, <3>4
  <2>3. CASE clean /\ AwaitsFrame
    <3>1. fifo = <<>> /\ length = frame_size
      BY <2>3 DEF Placement
    <3>2. Len(fifo) = 0
      BY <3>1
    <3>3. burst_counter = 0 /\ visible = 0 /\ unseen_pop = 0
      BY <3>2 DEF GInv, IInv, Fill, RegistersOK, Burst
    <3>4. ~burst_begin(waitrequest)
      BY <3>3, BurstCountBounds, StartIsBacked DEF burst_begin, GInv, IInv
    <3>5. Idle(waitrequest)
      BY <1>8, <3>3, <3>4
         DEF ClkEdge, Go, StartBurst, ChainBurst, WriteWord, beat, master_write
    <3>6. fifo' = fifo /\ length' = length
      BY <3>5 DEF Idle, Clk, NoBeat
    <3> QED BY <2>1, <2>2, <2>3, <3>1, <3>6 DEF Placement
  <2>4. CASE clean /\ ~AwaitsFrame
    <3>1. FifoIsFrame /\ IInv
      BY <2>4 DEF Placement, GInv
    <3>2. CASE StartBurst(waitrequest) \/ Idle(waitrequest)
      <4>1. fifo' = fifo /\ length' = length
        BY <3>2 DEF StartBurst, Idle, Clk, NoBeat, beat, master_write
      <4> QED BY <1>0, <2>1, <2>2, <2>4, <3>1, <4>1 DEF Placement
    <3>3. CASE ChainBurst(waitrequest) \/ WriteWord(waitrequest)
      <4>1. Sink!Store
        BY <3>3, ChainRefines, WriteWordRefines
      <4>2. fifo # <<>> /\ fifo' = Tail(fifo) /\ length' = length - 1
        BY <4>1 DEF Sink!Store, Sink!TakeHead
      <4> QED BY <2>1, <2>2, <2>4, <3>1, <4>2, TakeKeepsFrame DEF Placement
    <3> QED BY <1>8, <3>2, <3>3 DEF ClkEdge, Go
  <2> QED BY <2>1, <2>3, <2>4 DEF Placement
<1>9. ASSUME NEW waitrequest \in BOOLEAN, ClkEdge(waitrequest)
      PROVE  Placement'
  BY <1>7, <1>8, <1>9 DEF ClkEdge, StartBurst, ChainBurst, WriteWord, Idle
<1> QED BY <1>1, <1>2, <1>3, <1>4, <1>5, <1>6, <1>9 DEF Next

(* A step that stores a word of a clean frame stores it in its place.       *)
LEMMA StoresInPlace ==
  ASSUME GInv, Placement, Graceful, [Next]_vars, clean, stored' # stored
  PROVE  stored'[1] = frame_base + stored'[2]
<1> USE DEF cpu_vars, edge_vars, master_vars, fifo_vars, camera_vars,
            slave_vars, frame_vars
<1>1. PICK waitrequest \in BOOLEAN : ClkEdge(waitrequest)
  BY DEF Next, SetBuffer, AssertReset, ReleaseReset, VsyncRise, VsyncFall,
         PixelIn, PointerSync, ClkInReset, vars
<1>2. ChainBurst(waitrequest) \/ WriteWord(waitrequest)
  BY <1>1, GoRefines, StartRefines, IdleRefines, QuietHolds
     DEF ClkEdge, Go, Clk, NoBeat, GInv, QuietAtGo
<1>3. stored' = <<NextWord, Head(fifo)>> /\ fifo # <<>> /\ length' = length - 1
  BY <1>2, ChainRefines, WriteWordRefines DEF Sink!Store, Sink!TakeHead
<1>4. FifoIsFrame
  BY <1>3 DEF Placement
<1>5. /\ fifo \in Seq(Pixel) /\ length \in Nat /\ frame_size \in Nat
      /\ frame_base \in Nat /\ NextWord + length = frame_base + frame_size
  BY DvpWchAssumption DEF GInv, IInv, RegistersOK, PlaceKept
<1>6. Head(fifo) = fifo[1] /\ 1 \in 1 .. Len(fifo)
  BY <1>3, <1>5
<1>7. fifo[1] = frame_size - length + (1 - 1)
  BY <1>4, <1>6 DEF FifoIsFrame
<1>8. NextWord \in Int
  BY DvpWchAssumption DEF GInv, IInv, RegistersOK, Burst, NextWord
<1>9. NextWord = frame_base + (frame_size - length)
  BY <1>5, <1>8
<1> QED BY <1>3, <1>5, <1>6, <1>7, <1>9

(* Pixel k of a frame that found the FIFO empty is stored at word k of its  *)
(* buffer.                                                                  *)
THEOREM StoredInPlace ==
  ASSUME Graceful, UsedLatency = 1 PROVE Spec => FrameInPlace
<1>1. Init => Placement
  BY DEF Init, Placement
<1>2. GInv /\ Placement /\ [Next]_vars => Placement'
  BY PlacementStep
<1>3. GInv /\ Placement /\ [Next]_vars
        => [(Graceful /\ clean /\ stored' # stored)
              => stored'[1] = frame_base + stored'[2]]_vars
  BY StoresInPlace
<1> QED BY <1>1, <1>2, <1>3, GInvariance, PTL DEF Spec, FrameInPlace
=============================================================================
