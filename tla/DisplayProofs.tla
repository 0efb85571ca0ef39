---------------------------- MODULE DisplayProofs ----------------------------
(***************************************************************************)
(* Theorems about the display: about the read channel for every burst      *)
(* length, FIFO depth, frame size, buffer, bus delay and (up to the slack  *)
(* of four) late fill level; about the timing generator for every panel.   *)
(***************************************************************************)
EXTENDS Display, SequenceTheorems, TLAPS

(* The inductive invariant.  NoOverflow alone is not inductive: words that  *)
(* the write side still counts although they are popped must be bounded     *)
(* with the others, and the master sees the words on their way only through *)
(* reads_pending.                                                           *)
Occupied == Len(fifo) + Len(inflight) + popped

Room ==
  /\ Occupied <= FifoDepth - 5 + WriteLatency
  /\ fresh <= Len(fifo)

Pending == reads_pending = IF timing_reset THEN 0 ELSE Len(inflight)

IInv == RegistersOK /\ Room /\ Pending

-----------------------------------------------------------------------------
(* A burst is at least one word, stays within the frame and within a burst  *)
(* boundary.                                                                *)
LEMMA BurstCountBounds ==
  ASSUME RegistersOK, length # 0
  PROVE  /\ burst_count \in 1 .. MaxBurst
         /\ burst_count <= length
         /\ burst_boundary + burst_count <= MaxBurst
<1>1. burst_boundary \in 0 .. MaxBurst - 1
  BY LcdReaderAssumption DEF RegistersOK, burst_boundary
<1>2. CASE first_short_burst_enable
  <2>1. /\ first_short_burst_count \in 1 .. MaxBurst
        /\ first_short_burst_count <= length
        /\ burst_boundary + first_short_burst_count <= MaxBurst
    BY <1>1, <1>2, LcdReaderAssumption
       DEF RegistersOK, first_short_burst_enable, first_short_burst_count
  <2> QED BY <1>2, <2>1 DEF burst_count
<1>3. CASE ~first_short_burst_enable
  BY <1>1, <1>3, LcdReaderAssumption DEF RegistersOK, burst_count, first_short_burst_enable
<1> QED BY <1>2, <1>3

(* A burst is posted only when it fits beside everything there is.          *)
LEMMA PostFits ==
  ASSUME IInv, ~timing_reset, master_read
  PROVE  Occupied + burst_count <= FifoDepth - 5 + WriteLatency
<1>1. burst_count \in 1 .. MaxBurst
  BY BurstCountBounds DEF IInv, master_read
<1>2. /\ Len(fifo) \in Nat /\ Len(inflight) \in Nat /\ popped \in Nat
      /\ fresh \in 0 .. WriteLatency /\ reads_pending = Len(inflight)
      /\ MaxBurst \in Nat /\ FifoDepth \in Nat /\ WriteLatency \in Nat
  BY LcdReaderAssumption DEF IInv, RegistersOK, Pending
<1>3. reads_pending + fifo_used < FifoDepth - MaxBurst - 4
  BY <1>2 DEF master_read, too_many_reads_pending, fifo_used
<1> QED BY <1>1, <1>2, <1>3 DEF Occupied, fifo_used

-----------------------------------------------------------------------------
(* How many words an edge posts and returns.                                *)
PostedBy(waitrequest) == IF increment_address(waitrequest) THEN burst_count ELSE 0
ReturnedBy(readdatavalid) == IF readdatavalid THEN 1 ELSE 0

(* What every edge of the running clock does to the words on their way and  *)
(* in the FIFO.                                                             *)
LEMMA ClkStep ==
  ASSUME IInv, NEW waitrequest \in BOOLEAN, NEW readdatavalid \in BOOLEAN,
         Clk(waitrequest, readdatavalid)
  PROVE  /\ PostedBy(waitrequest) \in 0 .. length
         /\ fifo' \in Seq(Nat)
         /\ Len(fifo') = Len(fifo) + ReturnedBy(readdatavalid)
         /\ inflight' \in Seq(Nat)
         /\ Len(inflight') = Len(inflight) + PostedBy(waitrequest)
                                           - ReturnedBy(readdatavalid)
         /\ Room'
         /\ reads_pending' = Len(inflight')
         /\ reads_pending' \in 0 .. FifoDepth - 1
         /\ fresh' \in 0 .. WriteLatency
<1> DEFINE posted == PostedBy(waitrequest)
           returned == ReturnedBy(readdatavalid)
           kept == IF readdatavalid THEN Tail(inflight) ELSE inflight
           burst == [i \in 1 .. posted |-> address + i - 1]
<1>1. /\ fifo \in Seq(Nat) /\ inflight \in Seq(Nat) /\ popped \in Nat
      /\ fresh \in 0 .. WriteLatency /\ length \in Nat /\ address \in Nat
      /\ FifoDepth \in Nat /\ MaxBurst \in Nat \ {0} /\ WriteLatency \in 0 .. 4
      /\ FifoDepth > MaxBurst + 4
  BY LcdReaderAssumption DEF IInv, RegistersOK
<1>2. ~timing_reset /\ reads_pending = Len(inflight)
  BY DEF Clk, IInv, Pending
<1>3. posted \in 0 .. length /\ Occupied + posted <= FifoDepth - 5 + WriteLatency
  <2>1. CASE increment_address(waitrequest)
    <3>1. master_read /\ length # 0
      BY <2>1 DEF increment_address, master_read
    <3> QED BY <1>1, <1>2, <2>1, <3>1, BurstCountBounds, PostFits DEF PostedBy, IInv
  <2>2. CASE ~increment_address(waitrequest)
    BY <1>1, <2>2 DEF PostedBy, IInv, Room, Occupied
  <2> QED BY <2>1, <2>2
<1>4. /\ fifo' \in Seq(Nat) /\ Len(fifo') = Len(fifo) + returned
      /\ kept \in Seq(Nat) /\ Len(kept) = Len(inflight) - returned
      /\ returned \in {0, 1} /\ returned <= Len(inflight)
  <2>1. CASE readdatavalid
    <3>1. inflight # <<>> /\ fifo' = Append(fifo, Head(inflight))
      BY <2>1 DEF Clk, Return
    <3>2. Head(inflight) \in Nat /\ Len(inflight) > 0
      BY <1>1, <3>1
    <3> QED BY <1>1, <2>1, <3>1, <3>2 DEF ReturnedBy
  <2>2. CASE ~readdatavalid
    BY <1>1, <2>2 DEF Clk, Return, ReturnedBy
  <2> QED BY <2>1, <2>2
<1>5. burst \in Seq(Nat) /\ Len(burst) = posted
  <2>1. \A i \in 1 .. posted : address + i - 1 \in Nat
    BY <1>1, <1>3
  <2>2. posted \in Nat
    BY <1>1, <1>3
  <2> QED BY <2>1, <2>2
<1>6. inflight' = kept \o burst
  BY DEF Clk, Accept, PostedBy
<1>7. inflight' \in Seq(Nat) /\ Len(inflight') = Len(inflight) + posted - returned
  <2> HIDE DEF kept, burst
  <2>1. kept \in Seq(Nat) /\ burst \in Seq(Nat)
    BY <1>4, <1>5
  <2>2. kept \o burst \in Seq(Nat) /\ Len(kept \o burst) = Len(kept) + Len(burst)
    BY <2>1, ConcatProperties, Zenon
  <2> QED BY <1>1, <1>3, <1>4, <1>5, <1>6, <2>2
<1> HIDE DEF posted, returned, kept, burst
<1>8. popped' = popped
  BY DEF Clk
<1>9. /\ fresh' \in 0 .. WriteLatency /\ fresh' <= fresh + returned
  BY <1>1 DEF Clk, Return, returned, ReturnedBy
<1>10. Room'
  BY <1>1, <1>3, <1>4, <1>7, <1>8, <1>9 DEF IInv, Room, Occupied
<1>11. Len(inflight') < FifoDepth /\ Len(inflight') \in Nat /\ Len(fifo') \in Nat
  BY <1>1, <1>4, <1>7, <1>8, <1>10 DEF Room, Occupied
<1>12. reads_pending' = (reads_pending + posted - returned) % FifoDepth
  BY DEF Clk, pending_after, posted, returned, PostedBy, ReturnedBy
<1>13. reads_pending' = Len(inflight') % FifoDepth
  BY <1>2, <1>7, <1>12
<1>14. Len(inflight') % FifoDepth = Len(inflight')
  BY <1>1, <1>11
<1>15. reads_pending' = Len(inflight') /\ reads_pending' \in 0 .. FifoDepth - 1
  BY <1>1, <1>11, <1>13, <1>14
<1> QED BY <1>3, <1>4, <1>7, <1>9, <1>10, <1>15 DEF posted, returned

-----------------------------------------------------------------------------
(* Init and every step keep the inductive invariant.                        *)
LEMMA InitIInv == Init => IInv
<1> SUFFICES ASSUME Init PROVE IInv
  OBVIOUS
<1>1. /\ fifo \in Seq(Nat) /\ inflight \in Seq(Nat)
      /\ Len(fifo) = 0 /\ Len(inflight) = 0 /\ due = 0
      /\ shown \in (Nat \X Nat) \union {<<>>}
  BY DEF Init, Panel!Init
<1>2. RegistersOK
  BY <1>1, LcdReaderAssumption DEF Init, RegistersOK
<1>3. Room /\ Pending
  BY <1>1, LcdReaderAssumption DEF Init, Room, Occupied, Pending
<1> QED BY <1>2, <1>3 DEF IInv

(* Displaying a pixel moves a word from the FIFO to the count of popped.    *)
LEMMA DisplayStep == ASSUME IInv, DisplayPixel PROVE IInv'
<1>1. /\ fifo \in Seq(Nat) /\ Len(fifo) > fresh /\ fresh \in 0 .. WriteLatency
      /\ WriteLatency \in Nat /\ Pixels \in Nat /\ due \in 1 .. Pixels
      /\ popped \in Nat /\ fresh' = fresh /\ inflight' = inflight
  BY LcdReaderAssumption
     DEF IInv, RegistersOK, DisplayPixel, Panel!DisplayPixel
<1>2. /\ fifo # <<>> /\ fifo' = Tail(fifo) /\ popped' = popped + 1
      /\ due' = due - 1 /\ shown' = <<Pixels - due, Head(fifo)>>
  BY <1>1 DEF DisplayPixel, Panel!DisplayPixel
<1>3. /\ fifo' \in Seq(Nat) /\ Len(fifo') = Len(fifo) - 1 /\ Head(fifo) \in Nat
  BY <1>1, <1>2, HeadTailProperties
<1>4. due' \in 0 .. Pixels /\ shown' \in Nat \X Nat /\ popped' \in Nat
  BY <1>1, <1>2, <1>3
<1>5. UNCHANGED <<cpu_vars, master_vars, fresh, inflight>>
  BY DEF DisplayPixel
<1>6. RegistersOK'
  BY <1>3, <1>4, <1>5 DEF IInv, RegistersOK, cpu_vars, master_vars
<1>7. Room'
  BY <1>1, <1>2, <1>3 DEF IInv, RegistersOK, Room, Occupied
<1>8. Pending'
  BY <1>5 DEF IInv, Pending, cpu_vars, master_vars
<1> QED BY <1>6, <1>7, <1>8 DEF IInv

(* CPU writes, pulses, synchronisers and reset.                             *)
LEMMA EnvironmentStep ==
  ASSUME IInv,
         \/ SetFbAddr \/ AssertReset \/ ReleaseReset \/ StartPulse \/ EndPulse
         \/ PointerSync \/ UNCHANGED vars
         \/ \E readdatavalid \in BOOLEAN : ClkInReset(readdatavalid)
  PROVE  IInv'
<1> USE DEF cpu_vars, edge_vars, master_vars, fifo_vars, panel_vars
<1>0. /\ FifoDepth \in Nat /\ WriteLatency \in 0 .. 4 /\ FifoDepth > 5
      /\ Pixels \in Nat \ {0}
      /\ Len(fifo) \in Nat /\ Len(inflight) \in Nat /\ popped \in Nat
  BY LcdReaderAssumption DEF IInv, RegistersOK
<1>1. CASE SetFbAddr \/ UNCHANGED vars
  <2>1. RegistersOK'
    BY <1>1 DEF SetFbAddr, vars, IInv, RegistersOK
  <2>2. Room' /\ Pending'
    BY <1>1 DEF SetFbAddr, vars, IInv, Room, Occupied, Pending
  <2> QED BY <2>1, <2>2 DEF IInv
<1>2. CASE AssertReset
  <2>1. /\ fifo' = <<>> /\ Len(fifo') = 0 /\ fifo' \in Seq(Nat)
        /\ due' = 0 /\ fresh' = 0 /\ popped' = 0 /\ inflight' = inflight
        /\ timing_reset' = TRUE
        /\ address' = 0 /\ length' = 0 /\ reads_pending' = 0
        /\ fb_addr' = fb_addr /\ shown' = shown
    BY <1>2 DEF AssertReset, Panel!Reset
  <2>2. RegistersOK'
    BY <1>0, <2>1 DEF IInv, RegistersOK
  <2> QED BY <1>0, <2>1, <2>2 DEF IInv, Room, Occupied, Pending
<1>3. CASE ReleaseReset
  <2>1. /\ inflight = <<>> /\ Len(inflight) = 0
    BY <1>3 DEF ReleaseReset
  <2>2. UNCHANGED <<fb_addr, master_vars, fifo_vars, inflight, panel_vars>>
    BY <1>3 DEF ReleaseReset
  <2>3. RegistersOK' /\ Room'
    BY <2>2 DEF IInv, RegistersOK, Room, Occupied
  <2>4. reads_pending = 0
    BY <2>1 DEF IInv, Pending
  <2>5. Pending'
    BY <2>1, <2>2, <2>4 DEF Pending
  <2> QED BY <2>3, <2>5 DEF IInv
<1>4. CASE StartPulse \/ EndPulse
  <2>1. due' \in 0 .. Pixels
    BY <1>0, <1>4 DEF StartPulse, EndPulse, Panel!StartPulse, Panel!EndPulse,
                      IInv, RegistersOK
  <2>2. UNCHANGED <<cpu_vars, master_vars, fifo_vars, inflight, shown>>
    BY <1>4 DEF StartPulse, EndPulse
  <2>3. RegistersOK'
    BY <2>1, <2>2 DEF IInv, RegistersOK
  <2>4. Room' /\ Pending'
    BY <2>2 DEF IInv, Room, Occupied, Pending
  <2> QED BY <2>3, <2>4 DEF IInv
<1>5. CASE PointerSync
  <2>1. popped' \in Nat /\ popped' <= popped
    BY <1>0, <1>5 DEF PointerSync
  <2> QED BY <1>0, <1>5, <2>1 DEF PointerSync, IInv, RegistersOK, Room, Occupied, Pending
<1>6. ASSUME NEW readdatavalid \in BOOLEAN, ClkInReset(readdatavalid)
      PROVE  IInv'
  <2>1. inflight' \in Seq(Nat) /\ Len(inflight') <= Len(inflight) /\ Len(inflight') \in Nat
    BY <1>6, HeadTailProperties DEF ClkInReset, IInv, RegistersOK
  <2> QED BY <1>0, <1>6, <2>1 DEF ClkInReset, IInv, RegistersOK, Room, Occupied, Pending
<1> QED BY <1>1, <1>2, <1>3, <1>4, <1>5, <1>6

(* An edge of the running system clock.                                     *)
LEMMA ClkEdgeStep ==
  ASSUME IInv, NEW waitrequest \in BOOLEAN, NEW readdatavalid \in BOOLEAN,
         ClkEdge(waitrequest, readdatavalid)
  PROVE  IInv'
<1>1. Clk(waitrequest, readdatavalid)
  BY DEF ClkEdge, Go, PostBurst, Hold
<1>2. /\ fifo' \in Seq(Nat) /\ inflight' \in Seq(Nat)
      /\ Room' /\ reads_pending' = Len(inflight')
      /\ reads_pending' \in 0 .. FifoDepth - 1
      /\ fresh' \in 0 .. WriteLatency
  BY <1>1, ClkStep
<1>3. UNCHANGED <<timing_reset, fb_addr, popped, due, shown>> /\ ~timing_reset
  BY <1>1 DEF Clk, cpu_vars, panel_vars
<1>4. address' \in Nat /\ length' \in Nat
  <2>1. address \in Nat /\ length \in Nat /\ fb_addr \in Nat /\ Pixels \in Nat
    BY LcdReaderAssumption DEF IInv, RegistersOK
  <2>2. CASE Go(waitrequest, readdatavalid)
    BY <2>1, <2>2 DEF Go
  <2>3. CASE PostBurst(waitrequest, readdatavalid)
    <3>1. length # 0
      BY <2>3 DEF PostBurst, increment_address, master_read
    <3>2. burst_count \in 1 .. MaxBurst /\ burst_count <= length
      BY <3>1, BurstCountBounds DEF IInv
    <3> QED BY <2>1, <2>3, <3>2, LcdReaderAssumption DEF PostBurst
  <2>4. CASE Hold(waitrequest, readdatavalid)
    BY <2>1, <2>4 DEF Hold
  <2> QED BY <2>2, <2>3, <2>4 DEF ClkEdge
<1>5. RegistersOK'
  BY <1>2, <1>3, <1>4 DEF IInv, RegistersOK
<1>6. Pending'
  BY <1>2, <1>3 DEF Pending
<1> QED BY <1>2, <1>5, <1>6 DEF IInv

(* Every step keeps the counting invariant.                                *)
LEMMA NextIInv == IInv /\ [Next]_vars => IInv'
BY ClkEdgeStep, DisplayStep, EnvironmentStep DEF Next

(* Spec implies the inductive invariant.                                    *)
THEOREM Invariance == Spec => []IInv
<1>1. Init => IInv
  BY InitIInv
<1> QED BY <1>1, NextIInv, PTL DEF Spec

(* The FIFO never overflows and neither of its counts wraps: the slack of   *)
(* four words covers a fill level up to four words late.                    *)
THEOREM NeverOverflows == Spec => []NoOverflow
<1>1. IInv => NoOverflow
  <2> SUFFICES ASSUME IInv PROVE NoOverflow
    OBVIOUS
  <2>1. /\ Len(fifo) \in Nat /\ Len(inflight) \in Nat /\ popped \in Nat
        /\ fresh \in 0 .. WriteLatency /\ WriteLatency \in 0 .. 4
        /\ FifoDepth \in Nat
    BY LcdReaderAssumption DEF IInv, RegistersOK
  <2> QED BY <2>1 DEF IInv, Room, Occupied, NoOverflow, fifo_used
<1> QED BY <1>1, Invariance, PTL

(* The master knows exactly how many words are on their way.                *)
THEOREM CountsReads == Spec => []PendingExact
<1>1. IInv => PendingExact
  BY DEF IInv, Pending, PendingExact
<1> QED BY <1>1, Invariance, PTL

(* Every burst is legal on the bus.                                         *)
THEOREM PostsLegalBursts == Spec => []LegalBurst
<1>1. IInv => LegalBurst
  BY BurstCountBounds, LcdReaderAssumption DEF IInv, RegistersOK, LegalBurst, master_read
<1> QED BY <1>1, Invariance, PTL

-----------------------------------------------------------------------------
(* The picture the channel delivers: the words of a frame are conserved,   *)
(* and pixel k shows word k.                                               *)

(* A start of transfer comes within the pulse that announced the frame.     *)
PulseOrder ==
  /\ control_go => prev_vs /\ lcd_vs
  /\ lcd_vs => due = Pixels

ResetState ==
  timing_reset => /\ ~control_go /\ ~lcd_vs
                  /\ due = 0 /\ length = 0 /\ Len(fifo) = 0

\* The word the panel takes next.
NextWord == address - Len(inflight) - Len(fifo)

(* FIFO and bus hold consecutive words, the last one just before address.   *)
Consecutive ==
  ~timing_reset =>
    /\ \A i \in 1 .. Len(fifo) : fifo[i] = NextWord + i - 1
    /\ \A i \in 1 .. Len(inflight) : inflight[i] = NextWord + Len(fifo) + i - 1

(* The next word is a programmed base, or follows the word displayed last.  *)
Follows ==
  (~timing_reset /\ ~awaiting /\ due > 0) =>
    IF due = Pixels THEN NextWord \in Base \union {0}
    ELSE shown = <<Pixels - due - 1, NextWord - 1>>

Frame == PulseOrder /\ ResetState /\ Balanced

PInv == IInv /\ FlagsOK /\ Frame /\ Consecutive /\ Follows

-----------------------------------------------------------------------------
(* Flags stay Boolean.                                                     *)
LEMMA FlagsStep == FlagsOK /\ [Next]_vars => FlagsOK'
<1> SUFFICES ASSUME FlagsOK, [Next]_vars
             PROVE  FlagsOK'
  OBVIOUS
<1> USE DEF FlagsOK, cpu_vars, edge_vars, panel_vars
<1>1. CASE SetFbAddr \/ AssertReset \/ ReleaseReset \/ StartPulse \/ EndPulse
           \/ DisplayPixel \/ PointerSync
  BY <1>1 DEF SetFbAddr, AssertReset, ReleaseReset, StartPulse, EndPulse,
              DisplayPixel, PointerSync, Panel!Reset, Panel!StartPulse,
              Panel!EndPulse, Panel!DisplayPixel
<1>2. ASSUME NEW readdatavalid \in BOOLEAN, ClkInReset(readdatavalid)
      PROVE  FlagsOK'
  BY <1>2 DEF ClkInReset
<1>3. ASSUME NEW waitrequest \in BOOLEAN, NEW readdatavalid \in BOOLEAN,
             ClkEdge(waitrequest, readdatavalid)
      PROVE  FlagsOK'
  <2>1. Clk(waitrequest, readdatavalid)
    BY <1>3 DEF ClkEdge, Go, PostBurst, Hold
  <2> QED BY <2>1 DEF Clk
<1>4. CASE UNCHANGED vars
  BY <1>4 DEF vars
<1> QED BY <1>1, <1>2, <1>3, <1>4 DEF Next

(* Type correctness of the display read channel.                            *)
THEOREM TypeCorrect == Spec => []TypeOK
<1>1. Init => FlagsOK
  BY DEF Init, Panel!Init, FlagsOK
<1>2. IInv /\ FlagsOK => TypeOK
  BY DEF IInv, TypeOK
<1> QED BY <1>1, <1>2, FlagsStep, Invariance, PTL DEF Spec

(* What an edge of the running clock does to pulses and raster.             *)
LEMMA ClkPulse ==
  ASSUME NEW waitrequest \in BOOLEAN, NEW readdatavalid \in BOOLEAN,
         Clk(waitrequest, readdatavalid)
  PROVE  /\ prev_vs' = lcd_vs
         /\ control_go' = (~prev_vs /\ lcd_vs)
         /\ lcd_vs' = lcd_vs /\ due' = due /\ shown' = shown
         /\ ~timing_reset /\ ~timing_reset' /\ fb_addr' = fb_addr
BY DEF Clk, panel_vars, cpu_vars

(* An edge other than Go keeps the sum of the words to come.                *)
LEMMA SumKept ==
  ASSUME IInv, NEW waitrequest \in BOOLEAN, NEW readdatavalid \in BOOLEAN,
         PostBurst(waitrequest, readdatavalid) \/ Hold(waitrequest, readdatavalid)
  PROVE  /\ Len(fifo') + Len(inflight') + length' = Len(fifo) + Len(inflight) + length
         /\ NextWord' = NextWord
<1>1. /\ PostedBy(waitrequest) \in 0 .. length
      /\ Len(fifo') = Len(fifo) + ReturnedBy(readdatavalid)
      /\ Len(inflight') = Len(inflight) + PostedBy(waitrequest)
                                        - ReturnedBy(readdatavalid)
  BY ClkStep DEF PostBurst, Hold
<1>2. ReturnedBy(readdatavalid) \in {0, 1}
  BY DEF ReturnedBy
<1>3. /\ Len(fifo) \in Nat /\ Len(inflight) \in Nat /\ length \in Nat
      /\ address \in Nat
  BY DEF IInv, RegistersOK
<1>4. /\ address' = address + PostedBy(waitrequest)
      /\ length' = length - PostedBy(waitrequest)
  <2>1. CASE PostBurst(waitrequest, readdatavalid)
    BY <2>1 DEF PostBurst, PostedBy
  <2>2. CASE Hold(waitrequest, readdatavalid)
    BY <1>3, <2>2 DEF Hold, PostedBy
  <2> QED BY <2>1, <2>2
<1> DEFINE posted == PostedBy(waitrequest)
           returned == ReturnedBy(readdatavalid)
<1>5. /\ posted \in Int /\ returned \in Int
      /\ Len(fifo') = Len(fifo) + returned
      /\ Len(inflight') = Len(inflight) + posted - returned
      /\ address' = address + posted /\ length' = length - posted
  BY <1>1, <1>2, <1>3, <1>4
<1> HIDE DEF posted, returned
<1>6. Len(fifo') + Len(inflight') + length' = Len(fifo) + Len(inflight) + length
  BY <1>3, <1>5
<1>7. address' - Len(inflight') - Len(fifo') = address - Len(inflight) - Len(fifo)
  BY <1>3, <1>5
<1> QED BY <1>6, <1>7 DEF NextWord

(* When a transfer starts nothing of the last one is left.                  *)
LEMMA GoIsDrained ==
  ASSUME IInv, Frame, NEW waitrequest \in BOOLEAN, NEW readdatavalid \in BOOLEAN,
         Go(waitrequest, readdatavalid)
  PROVE  /\ due = Pixels
         /\ Len(fifo') = 0 /\ Len(inflight') = 0
         /\ length' = Pixels /\ address' = fb_addr
<1>1. control_go /\ ~timing_reset /\ due = Pixels
  BY DEF Go, Clk, Frame, PulseOrder
<1>2. awaiting
  BY <1>1 DEF awaiting
<1>3. Len(fifo) + Len(inflight) + length = 0
  BY <1>1, <1>2 DEF Frame, Balanced
<1>4. Len(fifo) \in Nat /\ Len(inflight) \in Nat /\ length \in Nat
  BY DEF IInv, RegistersOK
<1>5. Len(fifo) = 0 /\ Len(inflight) = 0 /\ length = 0
  BY <1>3, <1>4
<1>6. Clk(waitrequest, readdatavalid)
  BY DEF Go
<1>7. ~readdatavalid
  <2>1. inflight = <<>>
    BY <1>5 DEF IInv, RegistersOK
  <2> QED BY <1>6, <2>1 DEF Clk, Return
<1>8. PostedBy(waitrequest) = 0
  BY <1>5 DEF PostedBy, increment_address, master_read
<1>9. /\ Len(fifo') = Len(fifo) + ReturnedBy(readdatavalid)
      /\ Len(inflight') = Len(inflight) + PostedBy(waitrequest)
                                        - ReturnedBy(readdatavalid)
  BY <1>6, ClkStep
<1>10. ReturnedBy(readdatavalid) = 0
  BY <1>7 DEF ReturnedBy
<1> QED BY <1>1, <1>5, <1>8, <1>9, <1>10 DEF Go

(* Pulses, reset and the balance of words are kept by every step.           *)
LEMMA FrameStep == ASSUME IInv, FlagsOK, Frame, [Next]_vars PROVE Frame'
<1> USE DEF cpu_vars, edge_vars, master_vars, fifo_vars, panel_vars
<1>0. /\ Len(fifo) \in Nat /\ Len(inflight) \in Nat /\ length \in Nat
      /\ due \in 0 .. Pixels /\ Pixels \in Nat \ {0}
  BY LcdReaderAssumption DEF IInv, RegistersOK
<1>1. CASE SetFbAddr \/ PointerSync \/ UNCHANGED vars
  <2>1. UNCHANGED <<timing_reset, edge_vars, length, fifo, inflight, lcd_vs, due>>
    BY <1>1 DEF SetFbAddr, PointerSync, vars
  <2> QED BY <2>1 DEF Frame, PulseOrder, ResetState, Balanced, awaiting
<1>2. CASE AssertReset
  <2>1. /\ timing_reset' /\ ~control_go' /\ ~lcd_vs'
        /\ due' = 0 /\ length' = 0 /\ fifo' = <<>>
    BY <1>2 DEF AssertReset, Panel!Reset
  <2> QED BY <2>1 DEF Frame, PulseOrder, ResetState, Balanced
<1>3. CASE ReleaseReset
  <2>1. /\ timing_reset' = FALSE /\ inflight = <<>> /\ ~prev_vs
        /\ UNCHANGED <<edge_vars, length, fifo, inflight, lcd_vs, due>>
    BY <1>3 DEF ReleaseReset
  <2>2. CASE timing_reset
    <3>1. /\ ~control_go /\ ~lcd_vs /\ due = 0 /\ length = 0
          /\ Len(fifo) = 0 /\ Len(inflight) = 0
      BY <2>1, <2>2 DEF Frame, ResetState
    <3> QED BY <2>1, <3>1 DEF Frame, PulseOrder, ResetState, Balanced, awaiting
  <2>3. CASE ~timing_reset
    BY <2>1, <2>3 DEF Frame, PulseOrder, ResetState, Balanced, awaiting
  <2> QED BY <2>2, <2>3
<1>4. CASE StartPulse
  <2>1. /\ ~timing_reset /\ ~prev_vs /\ ~lcd_vs /\ due = 0
        /\ lcd_vs' = TRUE /\ due' = Pixels
        /\ UNCHANGED <<timing_reset, edge_vars, length, fifo, inflight>>
    BY <1>4 DEF StartPulse, Panel!StartPulse
  <2>2. ~control_go /\ ~awaiting /\ awaiting'
    BY <2>1 DEF Frame, PulseOrder, awaiting
  <2>3. Len(fifo) + Len(inflight) + length = 0
    BY <2>1, <2>2 DEF Frame, Balanced
  <2> QED BY <2>1, <2>2, <2>3 DEF Frame, PulseOrder, ResetState, Balanced
<1>5. CASE EndPulse
  <2>1. /\ prev_vs /\ ~control_go /\ lcd_vs /\ lcd_vs' = FALSE /\ due' = due
        /\ UNCHANGED <<timing_reset, edge_vars, length, fifo, inflight>>
    BY <1>5 DEF EndPulse, Panel!EndPulse
  <2>2. ~awaiting /\ ~awaiting'
    BY <2>1 DEF awaiting
  <2> QED BY <2>1, <2>2 DEF Frame, PulseOrder, ResetState, Balanced
<1>6. CASE DisplayPixel
  <2>1. /\ ~lcd_vs /\ due > 0 /\ due' = due - 1 /\ lcd_vs' = lcd_vs
        /\ fifo' = Tail(fifo) /\ Len(fifo) > fresh
        /\ UNCHANGED <<timing_reset, edge_vars, length, inflight>>
    BY <1>6 DEF DisplayPixel, Panel!DisplayPixel
  <2>2. ~timing_reset /\ ~control_go /\ ~awaiting /\ ~awaiting'
    BY <1>0, <2>1 DEF Frame, PulseOrder, ResetState, awaiting
  <2>3. fifo # <<>> /\ fifo \in Seq(Nat)
    BY <2>1, LcdReaderAssumption DEF IInv, RegistersOK
  <2>4. Len(fifo') = Len(fifo) - 1
    BY <2>1, <2>3
  <2>5. Len(fifo) + Len(inflight) + length = due
    BY <2>2 DEF Frame, Balanced
  <2>6. Len(fifo') + Len(inflight') + length' = due'
    BY <1>0, <2>1, <2>4, <2>5
  <2> QED BY <2>1, <2>2, <2>6 DEF PulseOrder, ResetState, Balanced, Frame
<1>7. ASSUME NEW readdatavalid \in BOOLEAN, ClkInReset(readdatavalid)
      PROVE  Frame'
  BY <1>7 DEF ClkInReset, Frame, PulseOrder, ResetState, Balanced
<1>8. ASSUME NEW waitrequest \in BOOLEAN, NEW readdatavalid \in BOOLEAN,
             ClkEdge(waitrequest, readdatavalid)
      PROVE  Frame'
  <2>1. Clk(waitrequest, readdatavalid)
    BY <1>8 DEF ClkEdge, Go, PostBurst, Hold
  <2>2. /\ prev_vs' = lcd_vs /\ control_go' = (~prev_vs /\ lcd_vs)
        /\ lcd_vs' = lcd_vs /\ due' = due /\ ~timing_reset /\ ~timing_reset'
    BY <2>1, ClkPulse
  <2>3. PulseOrder' /\ ResetState'
    BY <2>2 DEF Frame, PulseOrder, ResetState
  <2>4. CASE Go(waitrequest, readdatavalid)
    <3>1. control_go /\ prev_vs /\ lcd_vs
      BY <2>4 DEF Go, Frame, PulseOrder
    <3>2. ~awaiting'
      BY <2>2, <3>1 DEF awaiting
    <3>3. due' = Pixels /\ Len(fifo') = 0 /\ Len(inflight') = 0 /\ length' = Pixels
      BY <2>2, <2>4, GoIsDrained
    <3>4. Balanced'
      BY <1>0, <3>2, <3>3 DEF Balanced
    <3> QED BY <2>3, <3>4 DEF Frame
  <2>5. CASE ~control_go
    <3>1. awaiting' <=> awaiting
      BY <2>2, <2>5 DEF awaiting
    <3>2. Len(fifo') + Len(inflight') + length' = Len(fifo) + Len(inflight) + length
      BY <1>8, <2>5, SumKept DEF ClkEdge, Go
    <3>3. Balanced'
      BY <2>2, <3>1, <3>2 DEF Frame, Balanced
    <3> QED BY <2>3, <3>3 DEF Frame
  <2> QED BY <1>8, <2>4, <2>5 DEF ClkEdge, PostBurst, Hold
<1> QED BY <1>1, <1>2, <1>3, <1>4, <1>5, <1>6, <1>7, <1>8 DEF Next

(* Registers and flags start well typed.                                   *)
LEMMA InitFrame == Init => Frame /\ FlagsOK
BY DEF Init, Panel!Init, Frame, FlagsOK, PulseOrder, ResetState, Balanced, awaiting

(* The words of a frame are conserved: no word is read twice, lost, or left *)
(* behind for the next frame.                                               *)
THEOREM WordsConserved == Spec => []Balanced
<1>1. IInv /\ FlagsOK /\ Frame /\ [Next]_vars => Frame'
  BY FrameStep
<1>2. Frame => Balanced
  BY DEF Frame
<1> QED BY <1>1, <1>2, InitFrame, FlagsStep, Invariance, PTL DEF Spec

-----------------------------------------------------------------------------
(* The word the panel takes is NextWord.                                    *)
LEMMA DisplayTakesNext ==
  ASSUME IInv, Frame, Consecutive, DisplayPixel
  PROVE  /\ ~timing_reset /\ ~awaiting /\ due \in 1 .. Pixels
         /\ fifo # <<>> /\ Head(fifo) = NextWord
         /\ shown' = <<Pixels - due, NextWord>>
         /\ due' = due - 1
         /\ fifo' = Tail(fifo) /\ Len(fifo') = Len(fifo) - 1
         /\ NextWord' = NextWord + 1
<1>1. /\ due > 0 /\ ~lcd_vs /\ Len(fifo) > fresh /\ due' = due - 1
      /\ fifo' = Tail(fifo) /\ shown' = <<Pixels - due, Head(fifo)>>
      /\ address' = address /\ inflight' = inflight
  BY DEF DisplayPixel, Panel!DisplayPixel, master_vars
<1>2. ~timing_reset /\ ~awaiting
  <2>1. ~timing_reset
    BY <1>1 DEF Frame, ResetState
  <2> QED BY <1>1, <2>1 DEF Frame, PulseOrder, awaiting
<1>3. /\ fifo \in Seq(Nat) /\ inflight \in Seq(Nat) /\ address \in Nat
      /\ fresh \in Nat /\ due \in 0 .. Pixels /\ Pixels \in Nat
  BY LcdReaderAssumption DEF IInv, RegistersOK
<1>4. fifo # <<>> /\ Len(fifo) \in Nat /\ Len(fifo) >= 1 /\ Len(inflight) \in Nat
  <2>1. Len(fifo) > fresh
    BY <1>1
  <2>2. Len(fifo) \in Nat /\ Len(inflight) \in Nat
    BY <1>3
  <2>3. Len(fifo) >= 1
    BY <1>3, <2>1, <2>2
  <2> QED BY <1>3, <2>2, <2>3
<1>5. Head(fifo) = fifo[1] /\ Len(fifo') = Len(fifo) - 1
  BY <1>1, <1>3, <1>4
<1>6. fifo[1] = NextWord
  <2>1. fifo[1] = NextWord + 1 - 1
    BY <1>2, <1>4 DEF Consecutive
  <2> QED BY <1>3, <1>4, <2>1 DEF NextWord
<1>7. NextWord' = NextWord + 1
  BY <1>1, <1>3, <1>4, <1>5 DEF NextWord
<1>8. due \in 1 .. Pixels
  BY <1>1, <1>3
<1>9. Head(fifo) = NextWord /\ shown' = <<Pixels - due, NextWord>>
  BY <1>1, <1>5, <1>6
<1>10. fifo # <<>> /\ due' = due - 1 /\ fifo' = Tail(fifo) /\ Len(fifo') = Len(fifo) - 1
  BY <1>1, <1>4, <1>5
<1> QED BY <1>2, <1>7, <1>8, <1>9, <1>10

(* Every step keeps FIFO and bus consecutive.                               *)
LEMMA ConsecutiveStep ==
  ASSUME IInv, FlagsOK, Frame, Consecutive, [Next]_vars
  PROVE  Consecutive'
<1> USE DEF cpu_vars, edge_vars, master_vars, fifo_vars, panel_vars
<1>0. /\ fifo \in Seq(Nat) /\ inflight \in Seq(Nat) /\ address \in Nat
      /\ Len(fifo) \in Nat /\ Len(inflight) \in Nat
  BY DEF IInv, RegistersOK
<1>1. CASE SetFbAddr \/ StartPulse \/ EndPulse \/ PointerSync \/ UNCHANGED vars
  <2>1. UNCHANGED <<timing_reset, fifo, inflight, address>>
    BY <1>1 DEF SetFbAddr, StartPulse, EndPulse, PointerSync, vars
  <2> QED BY <2>1 DEF Consecutive, NextWord
<1>2. CASE AssertReset \/ \E readdatavalid \in BOOLEAN : ClkInReset(readdatavalid)
  <2>1. timing_reset'
    BY <1>2 DEF AssertReset, ClkInReset
  <2> QED BY <2>1 DEF Consecutive
<1>3. CASE ReleaseReset
  <2>1. inflight = <<>> /\ UNCHANGED <<fifo, inflight, address>>
    BY <1>3 DEF ReleaseReset
  <2>2. CASE timing_reset
    <3>1. Len(fifo') = 0 /\ Len(inflight') = 0
      BY <2>1, <2>2 DEF Frame, ResetState
    <3> QED BY <3>1 DEF Consecutive
  <2>3. CASE ~timing_reset
    BY <2>1, <2>3 DEF Consecutive, NextWord
  <2> QED BY <2>2, <2>3
<1>4. CASE DisplayPixel
  <2>1. /\ ~timing_reset /\ fifo # <<>> /\ fifo' = Tail(fifo)
        /\ Len(fifo') = Len(fifo) - 1 /\ NextWord' = NextWord + 1
    BY <1>4, DisplayTakesNext
  <2>2. inflight' = inflight
    BY <1>4 DEF DisplayPixel
  <2>3. NextWord \in Int
    BY <1>0 DEF NextWord
  <2>4. ASSUME NEW i \in 1 .. Len(fifo') PROVE fifo'[i] = NextWord' + i - 1
    <3>1. fifo'[i] = fifo[i + 1] /\ i + 1 \in 1 .. Len(fifo)
      BY <1>0, <2>1, <2>4, HeadTailProperties
    <3>2. fifo[i + 1] = NextWord + (i + 1) - 1
      BY <2>1, <3>1 DEF Consecutive
    <3> QED BY <2>1, <2>3, <3>1, <3>2
  <2>5. ASSUME NEW i \in 1 .. Len(inflight')
        PROVE  inflight'[i] = NextWord' + Len(fifo') + i - 1
    <3>1. inflight[i] = NextWord + Len(fifo) + i - 1
      BY <2>1, <2>2 DEF Consecutive
    <3> QED BY <1>0, <2>1, <2>2, <2>3, <3>1
  <2> QED BY <2>4, <2>5 DEF Consecutive
<1>5. ASSUME NEW waitrequest \in BOOLEAN, NEW readdatavalid \in BOOLEAN,
             Go(waitrequest, readdatavalid)
      PROVE  Consecutive'
  <2>1. Len(fifo') = 0 /\ Len(inflight') = 0
    BY <1>5, GoIsDrained
  <2> QED BY <2>1 DEF Consecutive
<1>6. ASSUME NEW waitrequest \in BOOLEAN, NEW readdatavalid \in BOOLEAN,
             PostBurst(waitrequest, readdatavalid) \/ Hold(waitrequest, readdatavalid)
      PROVE  Consecutive'
  <2> DEFINE posted == PostedBy(waitrequest)
             returned == ReturnedBy(readdatavalid)
             kept == IF readdatavalid THEN Tail(inflight) ELSE inflight
             burst == [i \in 1 .. posted |-> address + i - 1]
  <2>1. Clk(waitrequest, readdatavalid) /\ ~timing_reset
    BY <1>6 DEF PostBurst, Hold, Clk
  <2>2. /\ posted \in Nat
        /\ fifo' \in Seq(Nat) /\ Len(fifo') = Len(fifo) + returned
        /\ inflight' \in Seq(Nat) /\ Len(inflight') = Len(inflight) + posted - returned
    BY <2>1, ClkStep DEF IInv, RegistersOK
  <2>3. NextWord' = NextWord /\ NextWord \in Int
    BY <1>0, <1>6, SumKept DEF NextWord
  <2>4. returned \in {0, 1} /\ kept \in Seq(Nat) /\ Len(kept) = Len(inflight) - returned
    BY <1>0, <2>1, HeadTailProperties DEF Clk, Return, ReturnedBy
  <2>5. burst \in Seq(Nat) /\ Len(burst) = posted
    <3>1. \A i \in 1 .. posted : address + i - 1 \in Nat
      BY <1>0, <2>2
    <3> QED BY <2>2, <3>1
  <2>6. inflight' = kept \o burst
    BY <2>1 DEF Clk, Accept, PostedBy
  <2>7. \A i \in 1 .. posted : burst[i] = NextWord + Len(fifo) + Len(inflight) + i - 1
    BY <1>0, <2>2 DEF NextWord
  <2>8. \A i \in 1 .. Len(kept) : kept[i] = NextWord + Len(fifo) + returned + i - 1
    <3>1. CASE readdatavalid
      <4>1. inflight # <<>>
        BY <2>1, <3>1 DEF Clk, Return
      <4>2. \A i \in 1 .. Len(kept) : kept[i] = inflight[i + 1] /\ i + 1 \in 1 .. Len(inflight)
        BY <1>0, <3>1, <4>1, HeadTailProperties
      <4>3. \A i \in 1 .. Len(kept) : inflight[i + 1] = NextWord + Len(fifo) + (i + 1) - 1
        BY <2>1, <4>2 DEF Consecutive
      <4>4. returned = 1
        BY <3>1 DEF ReturnedBy
      <4> HIDE DEF kept, returned
      <4> QED BY <1>0, <2>3, <2>4, <4>2, <4>3, <4>4
    <3>2. CASE ~readdatavalid
      <4>1. kept = inflight /\ returned = 0
        BY <3>2 DEF ReturnedBy
      <4>2. \A i \in 1 .. Len(inflight) : inflight[i] = NextWord + Len(fifo) + i - 1
        BY <2>1 DEF Consecutive
      <4> HIDE DEF kept, returned
      <4> QED BY <1>0, <2>3, <4>1, <4>2
    <3> QED BY <3>1, <3>2
  <2>9. \A i \in 1 .. Len(fifo') : fifo'[i] = NextWord' + i - 1
    <3>1. \A i \in 1 .. Len(fifo) : fifo[i] = NextWord + i - 1
      BY <2>1 DEF Consecutive
    <3>2. CASE readdatavalid
      <4>1. fifo' = Append(fifo, Head(inflight)) /\ inflight # <<>> /\ returned = 1
        BY <2>1, <3>2 DEF Clk, Return, ReturnedBy
      <4>2. Head(inflight) = NextWord + Len(fifo)
        <5>1. Head(inflight) = inflight[1] /\ 1 \in 1 .. Len(inflight)
          BY <1>0, <4>1
        <5>2. inflight[1] = NextWord + Len(fifo) + 1 - 1
          BY <2>1, <5>1 DEF Consecutive
        <5> QED BY <1>0, <2>3, <5>1, <5>2
      <4>3. /\ \A i \in 1 .. Len(fifo) : fifo'[i] = fifo[i]
            /\ fifo'[Len(fifo) + 1] = Head(inflight)
        <5>1. Head(inflight) \in Nat
          BY <1>0, <4>1
        <5> QED BY <1>0, <4>1, <5>1, AppendProperties
      <4>4. Len(fifo') = Len(fifo) + 1
        BY <2>2, <4>1
      <4>5. ASSUME NEW i \in 1 .. Len(fifo')
            PROVE  fifo'[i] = NextWord + i - 1
        <5>1. CASE i \in 1 .. Len(fifo)
          BY <3>1, <4>3, <5>1
        <5>2. CASE i = Len(fifo) + 1
          BY <1>0, <2>3, <4>2, <4>3, <5>2
        <5> QED BY <1>0, <4>4, <5>1, <5>2
      <4> QED BY <2>3, <4>5
    <3>3. CASE ~readdatavalid
      BY <2>1, <2>3, <3>1, <3>3 DEF Clk, Return
    <3> QED BY <3>2, <3>3
  <2> HIDE DEF kept, burst, posted, returned
  <2>10. \A i \in 1 .. Len(kept) + Len(burst) :
            inflight'[i] = IF i <= Len(kept) THEN kept[i] ELSE burst[i - Len(kept)]
    BY <2>4, <2>5, <2>6, ConcatProperties
  <2>11. ASSUME NEW i \in 1 .. Len(inflight')
         PROVE  inflight'[i] = NextWord' + Len(fifo') + i - 1
    <3>1. i \in 1 .. Len(kept) + Len(burst)
      BY <1>0, <2>2, <2>4, <2>5
    <3>2. CASE i <= Len(kept)
      BY <1>0, <2>2, <2>3, <2>4, <2>8, <2>10, <3>1, <3>2
    <3>3. CASE ~(i <= Len(kept))
      <4>1. i - Len(kept) \in 1 .. posted
        BY <1>0, <2>4, <2>5, <3>1, <3>3
      <4>2. inflight'[i] = burst[i - Len(kept)]
        BY <2>10, <3>1, <3>3
      <4>3. burst[i - Len(kept)]
              = NextWord + Len(fifo) + Len(inflight) + (i - Len(kept)) - 1
        BY <2>7, <4>1
      <4> QED BY <1>0, <2>2, <2>3, <2>4, <4>2, <4>3
    <3> QED BY <3>2, <3>3
  <2> QED BY <2>9, <2>11 DEF Consecutive
<1> QED BY <1>1, <1>2, <1>3, <1>4, <1>5, <1>6 DEF Next, ClkEdge

(* Every step keeps track of the word displayed last.                       *)
LEMMA FollowsStep ==
  ASSUME PInv, [Next]_vars
  PROVE  Follows'
<1> USE DEF cpu_vars, edge_vars, master_vars, fifo_vars, panel_vars
<1>0. /\ NextWord \in Int /\ due \in 0 .. Pixels /\ Pixels \in Nat \ {0}
      /\ fb_addr \in Base \union {0}
  <2>1. address \in Nat /\ Len(fifo) \in Nat /\ Len(inflight) \in Nat
    BY DEF PInv, IInv, RegistersOK
  <2> QED BY <2>1, LcdReaderAssumption DEF PInv, IInv, RegistersOK, NextWord
<1>1. CASE SetFbAddr \/ PointerSync \/ EndPulse \/ UNCHANGED vars
  <2>1. UNCHANGED <<timing_reset, address, fifo, inflight, due, shown>>
    BY <1>1 DEF SetFbAddr, PointerSync, EndPulse, Panel!EndPulse, vars
  <2>2. ~awaiting' => ~awaiting
    BY <1>1 DEF SetFbAddr, PointerSync, EndPulse, Panel!EndPulse, vars, awaiting
  <2> QED BY <2>1, <2>2 DEF PInv, Follows, NextWord
<1>2. CASE AssertReset \/ \E readdatavalid \in BOOLEAN : ClkInReset(readdatavalid)
  <2>1. timing_reset'
    BY <1>2 DEF AssertReset, ClkInReset
  <2> QED BY <2>1 DEF Follows
<1>3. CASE ReleaseReset
  <2>1. UNCHANGED <<edge_vars, lcd_vs, address, fifo, inflight, due, shown>>
    BY <1>3 DEF ReleaseReset
  <2>2. CASE timing_reset
    <3>1. due' = 0
      BY <2>1, <2>2 DEF PInv, Frame, ResetState
    <3> QED BY <3>1 DEF Follows
  <2>3. CASE ~timing_reset
    BY <2>1, <2>3 DEF PInv, Follows, NextWord, awaiting
  <2> QED BY <2>2, <2>3
<1>4. CASE StartPulse
  <2>1. awaiting'
    BY <1>4 DEF StartPulse, Panel!StartPulse, awaiting
  <2> QED BY <2>1 DEF Follows
<1>5. CASE DisplayPixel
  <2>1. /\ due \in 1 .. Pixels /\ due' = due - 1 /\ NextWord' = NextWord + 1
        /\ shown' = <<Pixels - due, NextWord>>
    BY <1>5, DisplayTakesNext DEF PInv
  <2>2. shown' = <<Pixels - due' - 1, NextWord' - 1>> /\ due' # Pixels
    <3>1. Pixels - due' - 1 = Pixels - due /\ NextWord' - 1 = NextWord /\ due' # Pixels
      BY <1>0, <2>1
    <3> QED BY <2>1, <3>1
  <2> QED BY <2>2 DEF Follows
<1>6. ASSUME NEW waitrequest \in BOOLEAN, NEW readdatavalid \in BOOLEAN,
             Go(waitrequest, readdatavalid)
      PROVE  Follows'
  <2>1. /\ due = Pixels /\ Len(fifo') = 0 /\ Len(inflight') = 0
        /\ address' = fb_addr
    BY <1>6, GoIsDrained DEF PInv
  <2>2. due' = due
    BY <1>6, ClkPulse DEF Go
  <2>3. NextWord' = fb_addr
    <3>1. fb_addr \in Nat
      BY <1>0, LcdReaderAssumption
    <3> QED BY <2>1, <3>1 DEF NextWord
  <2> QED BY <1>0, <2>1, <2>2, <2>3 DEF Follows
<1>7. ASSUME NEW waitrequest \in BOOLEAN, NEW readdatavalid \in BOOLEAN,
             PostBurst(waitrequest, readdatavalid) \/ Hold(waitrequest, readdatavalid)
      PROVE  Follows'
  <2>1. NextWord' = NextWord
    BY <1>7, SumKept DEF PInv
  <2>2. /\ ~control_go /\ prev_vs' = lcd_vs /\ control_go' = (~prev_vs /\ lcd_vs)
        /\ lcd_vs' = lcd_vs /\ due' = due /\ shown' = shown /\ ~timing_reset
    BY <1>7, ClkPulse DEF PostBurst, Hold
  <2>3. ~awaiting' => ~awaiting
    BY <2>2 DEF awaiting
  <2> QED BY <2>1, <2>2, <2>3 DEF PInv, Follows
<1> QED BY <1>1, <1>2, <1>3, <1>4, <1>5, <1>6, <1>7 DEF Next, ClkEdge

(* The picture invariant holds at the start.                               *)
LEMMA InitPInv == Init => PInv
<1> SUFFICES ASSUME Init PROVE PInv
  OBVIOUS
<1>1. Consecutive /\ Follows
  BY DEF Init, Panel!Init, Consecutive, Follows
<1> QED BY <1>1, InitIInv, InitFrame DEF PInv

(* Every step keeps the picture invariant.                                 *)
LEMMA NextPInv == PInv /\ [Next]_vars => PInv'
BY NextIInv, FlagsStep, FrameStep, ConsecutiveStep, FollowsStep DEF PInv

(* A step that displays a pixel displays the right one.                     *)
LEMMA PixelInPlace ==
  ASSUME PInv, [Next]_vars, shown' # shown
  PROVE  IF shown'[1] = 0 THEN shown'[2] \in Base \union {0}
         ELSE shown' = <<shown[1] + 1, shown[2] + 1>>
<1> USE DEF cpu_vars, edge_vars, master_vars, fifo_vars, panel_vars
<1>1. DisplayPixel
  <2>1. ~(\E waitrequest, readdatavalid \in BOOLEAN : ClkEdge(waitrequest, readdatavalid))
    BY DEF ClkEdge, Go, PostBurst, Hold, Clk
  <2>2. ~(\E readdatavalid \in BOOLEAN : ClkInReset(readdatavalid))
    BY DEF ClkInReset
  <2>3. ~(\/ SetFbAddr \/ AssertReset \/ ReleaseReset \/ StartPulse \/ EndPulse
          \/ PointerSync \/ UNCHANGED vars)
    BY DEF SetFbAddr, AssertReset, ReleaseReset, StartPulse, EndPulse, PointerSync, vars
  <2> QED BY <2>1, <2>2, <2>3 DEF Next
<1>2. /\ ~timing_reset /\ ~awaiting /\ due \in 1 .. Pixels
      /\ shown' = <<Pixels - due, NextWord>>
  BY <1>1, DisplayTakesNext DEF PInv
<1>3. Pixels \in Nat /\ NextWord \in Int
  <2>1. address \in Nat /\ Len(fifo) \in Nat /\ Len(inflight) \in Nat
    BY DEF PInv, IInv, RegistersOK
  <2> QED BY <2>1, LcdReaderAssumption DEF NextWord
<1>4. CASE due = Pixels
  <2>1. NextWord \in Base \union {0}
    BY <1>2, <1>3, <1>4 DEF PInv, Follows
  <2> QED BY <1>2, <1>3, <1>4, <2>1
<1>5. CASE due # Pixels
  <2>1. shown = <<Pixels - due - 1, NextWord - 1>>
    BY <1>2, <1>3, <1>5 DEF PInv, Follows
  <2>2. Pixels - due - 1 + 1 = Pixels - due /\ NextWord - 1 + 1 = NextWord /\ Pixels - due # 0
    BY <1>2, <1>3, <1>5
  <2>3. shown[1] = Pixels - due - 1 /\ shown[2] = NextWord - 1 /\ shown'[1] = Pixels - due
    BY <1>2, <2>1
  <2> QED BY <1>2, <2>2, <2>3
<1> QED BY <1>4, <1>5

(* Pixel k of every frame shows word k of one programmed buffer, whatever   *)
(* the bus, the fill level and the CPU do meanwhile, as long as the FIFO    *)
(* has a word when the panel takes one.                                     *)
THEOREM ShowsInPlace == Spec => PictureInPlace
<1>1. PInv /\ [Next]_vars
        => [shown' # shown
              => IF shown'[1] = 0 THEN shown'[2] \in Base \union {0}
                 ELSE shown' = <<shown[1] + 1, shown[2] + 1>>]_vars
  BY PixelInPlace
<1> QED BY <1>1, InitPInv, NextPInv, PTL DEF Spec, PictureInPlace

-----------------------------------------------------------------------------
(* The timing generator.                                                   *)

(* The beam at line l, column c, counted as `column' does: which positions *)
(* are displayed, which line comes next, and what is left of the frame.    *)
Drawn(l, c) == l >= Timing!first_line /\ c >= H_PULSE + H_BACK /\ c < Timing!H_TOTAL - H_FRONT

NextColumn(c) == IF c = Timing!H_TOTAL - 1 THEN 0 ELSE c + 1
NextLine(l, c) == IF c # Timing!H_TOTAL - 1 THEN l ELSE IF l < Timing!V_TOTAL - 1 THEN l + 1 ELSE 0

Rest(l, c) == IF l < Timing!first_line THEN 0
              ELSE IF c <= H_PULSE + H_BACK THEN H_DISP
              ELSE IF c < Timing!H_TOTAL - H_FRONT THEN Timing!H_TOTAL - H_FRONT - c
              ELSE 0

Below(l) == IF l < Timing!first_line THEN V_DISP ELSE Timing!V_TOTAL - 1 - l

HasStarted(l, c) == l > V_FRONT \/ (l = V_FRONT /\ c > 0)

Remaining(l, c) == IF HasStarted(l, c) THEN Rest(l, c) + Below(l) * H_DISP ELSE 0

(* The generator's inductive invariant: the outputs are registered, so     *)
(* they show the position before the beam.                                 *)
TimingInv ==
  /\ Timing!TypeOK
  /\ lcd_de <=> line_cnt >= Timing!first_line /\ Timing!column >= H_PULSE + H_BACK + 1
                /\ Timing!column <= Timing!H_TOTAL - H_FRONT
  /\ lcd_hs <=> Timing!column >= 1 /\ Timing!column <= H_PULSE
  /\ timing_vs <=> HasStarted(line_cnt, Timing!column)
                   /\ (line_cnt < V_FRONT + V_PULSE \/ (line_cnt = V_FRONT + V_PULSE /\ Timing!column = 0))

LEMMA PanelIs ==
  /\ H_FRONT \in Nat /\ H_PULSE \in Nat /\ H_BACK \in Nat /\ H_DISP \in Nat
  /\ V_FRONT \in Nat /\ V_PULSE \in Nat /\ V_BACK \in Nat /\ V_DISP \in Nat
  /\ H_FRONT > 0 /\ H_PULSE > 0 /\ H_BACK > 0 /\ H_DISP > 0
  /\ V_FRONT > 0 /\ V_PULSE > 0 /\ V_BACK > 0 /\ V_DISP > 0
  /\ Timing!H_TOTAL = H_FRONT + H_PULSE + H_BACK + H_DISP /\ Timing!H_TOTAL \in Nat
  /\ Timing!V_TOTAL = V_FRONT + V_PULSE + V_BACK + V_DISP /\ Timing!V_TOTAL \in Nat
  /\ Timing!first_line = V_FRONT + V_PULSE + V_BACK /\ Timing!first_line \in Nat
BY TimingAssumption DEF Timing!H_TOTAL, Timing!V_TOTAL, Timing!first_line

LEMMA BeamIs ==
  ASSUME Timing!TypeOK
  PROVE  /\ pix_cnt \in Nat /\ pix_cnt < Timing!H_TOTAL /\ line_cnt \in Nat /\ line_cnt < Timing!V_TOTAL
         /\ Timing!column \in Nat /\ Timing!column < Timing!H_TOTAL
         /\ Timing!column = (IF pix_cnt >= H_FRONT THEN pix_cnt - H_FRONT
                          ELSE pix_cnt + Timing!H_TOTAL - H_FRONT)
<1>1. pix_cnt \in Nat /\ pix_cnt < Timing!H_TOTAL /\ line_cnt \in Nat /\ line_cnt < Timing!V_TOTAL
  BY PanelIs DEF Timing!TypeOK
<1> QED BY <1>1, PanelIs DEF Timing!column

(* One clock moves the beam by one position and registers the outputs of   *)
(* the one it leaves.                                                      *)
LEMMA BeamMoves ==
  ASSUME Timing!TypeOK, Timing!PclkEdge
  PROVE  /\ pix_cnt' \in 0 .. Timing!H_TOTAL - 1 /\ line_cnt' \in 0 .. Timing!V_TOTAL - 1
         /\ Timing!column' = NextColumn(Timing!column) /\ line_cnt' = NextLine(line_cnt, Timing!column)
         /\ lcd_de' = Drawn(line_cnt, Timing!column)
         /\ lcd_hs' = (Timing!column < H_PULSE)
         /\ timing_vs' = (line_cnt >= V_FRONT /\ line_cnt < V_FRONT + V_PULSE)
<1>1. /\ pix_cnt' = IF pix_cnt < Timing!H_TOTAL - 1 THEN pix_cnt + 1 ELSE 0
      /\ line_cnt' = IF pix_cnt # H_FRONT - 1 THEN line_cnt
                     ELSE IF line_cnt < Timing!V_TOTAL - 1 THEN line_cnt + 1 ELSE 0
      /\ lcd_de' = (pix_cnt >= H_FRONT + H_PULSE + H_BACK /\ line_cnt >= Timing!first_line)
      /\ lcd_hs' = (pix_cnt \in H_FRONT .. H_FRONT + H_PULSE - 1)
      /\ timing_vs' = (line_cnt \in V_FRONT .. V_FRONT + V_PULSE - 1)
  BY DEF Timing!PclkEdge, Timing!next_line, Timing!display_area, Timing!first_line
<1>2. /\ pix_cnt \in Nat /\ pix_cnt < Timing!H_TOTAL /\ line_cnt \in Nat /\ line_cnt < Timing!V_TOTAL
      /\ Timing!column \in Nat /\ Timing!column < Timing!H_TOTAL
      /\ Timing!column = (IF pix_cnt >= H_FRONT THEN pix_cnt - H_FRONT
                          ELSE pix_cnt + Timing!H_TOTAL - H_FRONT)
  BY BeamIs
<1>3. Timing!column' = (IF pix_cnt' >= H_FRONT THEN pix_cnt' - H_FRONT
                          ELSE pix_cnt' + Timing!H_TOTAL - H_FRONT)
  BY DEF Timing!column
<1>4. pix_cnt' \in 0 .. Timing!H_TOTAL - 1 /\ line_cnt' \in 0 .. Timing!V_TOTAL - 1
  BY <1>1, <1>2, PanelIs
<1>5. (Timing!column = Timing!H_TOTAL - 1) <=> (pix_cnt = H_FRONT - 1)
  BY <1>2, PanelIs
<1>6. Timing!column' = NextColumn(Timing!column)
  BY <1>1, <1>2, <1>3, <1>5, PanelIs DEF NextColumn
<1>7. line_cnt' = NextLine(line_cnt, Timing!column)
  BY <1>1, <1>5 DEF NextLine
<1>8. (pix_cnt >= H_FRONT + H_PULSE + H_BACK)
      <=> (Timing!column >= H_PULSE + H_BACK /\ Timing!column < Timing!H_TOTAL - H_FRONT)
  BY <1>2, PanelIs
<1>9. (pix_cnt \in H_FRONT .. H_FRONT + H_PULSE - 1) <=> Timing!column < H_PULSE
  BY <1>2, PanelIs
<1>10. (line_cnt \in V_FRONT .. V_FRONT + V_PULSE - 1)
       <=> (line_cnt >= V_FRONT /\ line_cnt < V_FRONT + V_PULSE)
  BY <1>2, PanelIs
<1>11. lcd_de' = Drawn(line_cnt, Timing!column)
  BY <1>1, <1>8 DEF Drawn
<1>12. /\ lcd_hs' = (Timing!column < H_PULSE)
       /\ timing_vs' = (line_cnt >= V_FRONT /\ line_cnt < V_FRONT + V_PULSE)
  BY <1>1, <1>9, <1>10
<1> QED BY <1>4, <1>6, <1>7, <1>11, <1>12

-----------------------------------------------------------------------------
(* What is left of the frame: at the first position of the pulse all of it *)
(* is drawn up, and from there each displayed position takes one.          *)

(* A line more or less below the beam is H_DISP positions.                 *)
LEMMA OneLine ==
  ASSUME NEW n \in Nat, NEW h \in Nat
  PROVE  /\ (n + 1) * h = n * h + h
         /\ n * h \in Nat
  OBVIOUS

LEMMA RemainingStep ==
  ASSUME NEW l \in Nat, NEW c \in Nat, l < Timing!V_TOTAL, c < Timing!H_TOTAL
  PROVE  /\ Remaining(l, c) \in Nat
         /\ ~(l = V_FRONT /\ c = 0) =>
              Remaining(l, c) = Remaining(NextLine(l, c), NextColumn(c))
                                + (IF Drawn(l, c) THEN 1 ELSE 0)
         /\ l = V_FRONT /\ c = 0 =>
              /\ Remaining(l, c) = 0
              /\ Remaining(NextLine(l, c), NextColumn(c)) = H_DISP * V_DISP
<1> DEFINE below == Below(l) * H_DISP
<1>0. /\ Below(l) \in Nat /\ below \in Nat
      /\ V_DISP * H_DISP \in Nat /\ V_DISP * H_DISP = H_DISP * V_DISP
  <2>1. Below(l) \in Nat
    BY PanelIs DEF Below
  <2> QED BY <2>1, PanelIs, OneLine
<1>1. l < Timing!first_line => below = V_DISP * H_DISP
  BY DEF Below
<1>2. Remaining(l, c) = IF HasStarted(l, c) THEN Rest(l, c) + below ELSE 0
  BY DEF Remaining
<1>3. Remaining(l, c) \in Nat
  <2> HIDE DEF below
  <2>1. Rest(l, c) \in Nat
    BY PanelIs DEF Rest
  <2> QED BY <2>1, <1>0, <1>2
<1>4. CASE c # Timing!H_TOTAL - 1
  <2>1. NextLine(l, c) = l /\ NextColumn(c) = c + 1
    BY <1>4 DEF NextLine, NextColumn
  <2>2. Remaining(l, c + 1) = IF HasStarted(l, c + 1) THEN Rest(l, c + 1) + below ELSE 0
    BY DEF Remaining
  <2> HIDE DEF below
  <2>3. CASE l = V_FRONT /\ c = 0
    BY <1>0, <1>1, <1>2, <1>3, <2>1, <2>2, <2>3, PanelIs DEF HasStarted, Rest
  <2>4. CASE ~(l = V_FRONT /\ c = 0)
    <3>1. HasStarted(l, c + 1) <=> HasStarted(l, c)
      BY <2>4, PanelIs DEF HasStarted
    <3>2. Rest(l, c) = Rest(l, c + 1) + (IF Drawn(l, c) THEN 1 ELSE 0)
      BY PanelIs DEF Rest, Drawn
    <3>3. Drawn(l, c) => HasStarted(l, c)
      BY PanelIs DEF Drawn, HasStarted
    <3>4. Rest(l, c + 1) \in Nat
      BY PanelIs DEF Rest
    <3> QED BY <1>0, <1>2, <1>3, <2>1, <2>2, <2>4, <3>1, <3>2, <3>3, <3>4
  <2> QED BY <2>3, <2>4
<1>5. CASE c = Timing!H_TOTAL - 1
  <2>1. NextLine(l, c) = (IF l < Timing!V_TOTAL - 1 THEN l + 1 ELSE 0) /\ NextColumn(c) = 0
    BY <1>5 DEF NextLine, NextColumn
  <2>2. c > 0 /\ ~Drawn(l, c)
    BY <1>5, PanelIs DEF Drawn
  <2>3. CASE l = Timing!V_TOTAL - 1
    <3>1. NextLine(l, c) = 0
      BY <2>1, <2>3
    <3>2. Remaining(0, 0) = 0
      BY PanelIs DEF Remaining, HasStarted
    <3>3. Rest(l, c) = 0 /\ Below(l) = 0
      BY <1>5, <2>3, PanelIs DEF Rest, Below
    <3>4. below = 0
      BY <3>3, PanelIs
    <3>5. Remaining(l, c) = 0
      BY <1>2, <3>3, <3>4
    <3> QED BY <1>3, <2>1, <2>2, <3>1, <3>2, <3>5
  <2>4. CASE l < Timing!V_TOTAL - 1
    <3>1. NextLine(l, c) = l + 1
      BY <2>1, <2>4
    <3>2. HasStarted(l + 1, 0) <=> HasStarted(l, c)
      BY <2>2, PanelIs DEF HasStarted
    <3>3. l < Timing!first_line => Rest(l, c) = 0
      BY DEF Rest
    <3>4. l >= Timing!first_line => Rest(l, c) = 0
      BY <1>5, PanelIs DEF Rest
    <3>5. Rest(l, c) = 0
      BY <3>3, <3>4, PanelIs
    <3> DEFINE under == Below(l + 1) * H_DISP
    <3>6. Rest(l + 1, 0) + under = below /\ Rest(l + 1, 0) \in Nat /\ under \in Nat
      <4>1. Below(l + 1) \in Nat
        BY <2>4, PanelIs DEF Below
      <4>2. under \in Nat /\ (Below(l + 1) + 1) * H_DISP = under + H_DISP
        BY <4>1, PanelIs, OneLine
      <4>3. CASE l + 1 < Timing!first_line
        <5>1. Below(l + 1) = Below(l) /\ Rest(l + 1, 0) = 0
          BY <4>3, PanelIs DEF Below, Rest
        <5>2. under = below
          BY <5>1
        <5> HIDE DEF under, below
        <5> QED BY <5>1, <5>2, <1>0
      <4>4. CASE l + 1 >= Timing!first_line
        <5>1. Below(l) = Below(l + 1) + 1 /\ Rest(l + 1, 0) = H_DISP
          BY <2>4, <4>4, PanelIs DEF Below, Rest
        <5>2. below = under + H_DISP
          BY <4>2, <5>1
        <5> HIDE DEF under, below
        <5> QED BY <5>1, <5>2, <4>2, <1>0, PanelIs
      <4> QED BY <4>3, <4>4, PanelIs
    <3>7. Remaining(l + 1, 0) = IF HasStarted(l + 1, 0) THEN Rest(l + 1, 0) + under ELSE 0
      BY DEF Remaining
    <3> HIDE DEF under, below
    <3> QED BY <1>0, <1>2, <1>3, <2>1, <2>2, <3>1, <3>2, <3>5, <3>6, <3>7
  <2> QED BY <2>3, <2>4, PanelIs
<1> QED BY <1>4, <1>5

-----------------------------------------------------------------------------
(* The invariant.                                                          *)

(* Where reset leaves the beam: line 0, in the front porch.                *)
LEMMA ResetBeam ==
  ASSUME pix_cnt = 0, line_cnt = 0,
         lcd_de = FALSE, lcd_hs = FALSE, timing_vs = FALSE, reset \in BOOLEAN
  PROVE  TimingInv /\ Remaining(line_cnt, Timing!column) = 0
<1>1. Timing!column = Timing!H_TOTAL - H_FRONT /\ Timing!column \in Nat /\ Timing!column > H_PULSE
  BY PanelIs DEF Timing!column
<1>2. Timing!TypeOK
  <2>1. pix_cnt \in 0 .. Timing!H_TOTAL - 1 /\ line_cnt \in 0 .. Timing!V_TOTAL - 1
    BY PanelIs
  <2> QED BY <2>1 DEF Timing!TypeOK
<1>3. ~(line_cnt >= Timing!first_line) /\ ~(Timing!column >= 1 /\ Timing!column <= H_PULSE)
      /\ ~HasStarted(line_cnt, Timing!column)
  BY <1>1, PanelIs DEF HasStarted
<1> QED BY <1>2, <1>3 DEF TimingInv, Remaining

LEMMA TimingInit ==
  ASSUME Timing!Init
  PROVE  TimingInv /\ Remaining(line_cnt, Timing!column) = 0
BY ResetBeam DEF Timing!Init

LEMMA TimingReset ==
  ASSUME Timing!AssertReset
  PROVE  TimingInv' /\ Remaining(line_cnt', Timing!column') = 0
<1>1. /\ pix_cnt' = 0 /\ line_cnt' = 0 /\ reset' \in BOOLEAN
      /\ lcd_de' = FALSE /\ lcd_hs' = FALSE /\ timing_vs' = FALSE
  BY DEF Timing!AssertReset
<1>2. Timing!column' = Timing!H_TOTAL - H_FRONT /\ Timing!column' \in Nat /\ Timing!column' > H_PULSE
  BY <1>1, PanelIs DEF Timing!column
<1>3. Timing!TypeOK'
  <2>1. pix_cnt' \in 0 .. Timing!H_TOTAL - 1 /\ line_cnt' \in 0 .. Timing!V_TOTAL - 1
    BY <1>1, PanelIs
  <2> QED BY <1>1, <2>1 DEF Timing!TypeOK
<1>4. ~(line_cnt' >= Timing!first_line) /\ ~(Timing!column' >= 1 /\ Timing!column' <= H_PULSE)
      /\ ~HasStarted(line_cnt', Timing!column')
  BY <1>1, <1>2, PanelIs DEF HasStarted
<1>5. Remaining(line_cnt', Timing!column') = 0
  BY <1>4 DEF Remaining
<1> QED BY <1>1, <1>3, <1>4, <1>5 DEF TimingInv

(* The registered outputs are those of the position the beam leaves.       *)
LEMMA TimingPclkEdge ==
  ASSUME TimingInv, Timing!PclkEdge
  PROVE  TimingInv'
<1>1. Timing!TypeOK
  BY DEF TimingInv
<1>2. /\ pix_cnt' \in 0 .. Timing!H_TOTAL - 1 /\ line_cnt' \in 0 .. Timing!V_TOTAL - 1
      /\ Timing!column' = NextColumn(Timing!column) /\ line_cnt' = NextLine(line_cnt, Timing!column)
      /\ lcd_de' = Drawn(line_cnt, Timing!column)
      /\ lcd_hs' = (Timing!column < H_PULSE)
      /\ timing_vs' = (line_cnt >= V_FRONT /\ line_cnt < V_FRONT + V_PULSE)
  BY <1>1, BeamMoves
<1>3. /\ line_cnt \in Nat /\ line_cnt < Timing!V_TOTAL
      /\ Timing!column \in Nat /\ Timing!column < Timing!H_TOTAL
  BY <1>1, BeamIs
<1>4. Timing!TypeOK'
  <2>1. {lcd_de', lcd_hs', timing_vs'} \subseteq BOOLEAN
    BY <1>2 DEF Drawn
  <2>2. reset' \in BOOLEAN
    BY <1>1 DEF Timing!PclkEdge, Timing!TypeOK
  <2> QED BY <1>2, <2>1, <2>2 DEF Timing!TypeOK
<1> DEFINE l == line_cnt
           c == Timing!column
<1>5. Drawn(l, c) <=> /\ NextLine(l, c) >= Timing!first_line
                      /\ NextColumn(c) >= H_PULSE + H_BACK + 1
                      /\ NextColumn(c) <= Timing!H_TOTAL - H_FRONT
  <2> HIDE DEF l, c
  <2> SUFFICES ASSUME l \in Nat, l < Timing!V_TOTAL, c \in Nat, c < Timing!H_TOTAL
               PROVE  Drawn(l, c) <=> /\ NextLine(l, c) >= Timing!first_line
                                      /\ NextColumn(c) >= H_PULSE + H_BACK + 1
                                      /\ NextColumn(c) <= Timing!H_TOTAL - H_FRONT
    BY <1>3 DEF l, c
  <2> QED BY PanelIs DEF Drawn, NextLine, NextColumn
<1>6. (c < H_PULSE) <=> NextColumn(c) >= 1 /\ NextColumn(c) <= H_PULSE
  BY <1>3, PanelIs DEF NextColumn
<1>7. (l >= V_FRONT /\ l < V_FRONT + V_PULSE)
      <=> /\ HasStarted(NextLine(l, c), NextColumn(c))
          /\ \/ NextLine(l, c) < V_FRONT + V_PULSE
             \/ NextLine(l, c) = V_FRONT + V_PULSE /\ NextColumn(c) = 0
  BY <1>3, PanelIs DEF HasStarted, NextLine, NextColumn
<1>8. lcd_de' <=> line_cnt' >= Timing!first_line /\ Timing!column' >= H_PULSE + H_BACK + 1
                  /\ Timing!column' <= Timing!H_TOTAL - H_FRONT
  BY <1>2, <1>5
<1>9. lcd_hs' <=> Timing!column' >= 1 /\ Timing!column' <= H_PULSE
  BY <1>2, <1>6
<1>10. timing_vs' <=> /\ HasStarted(line_cnt', Timing!column')
                      /\ \/ line_cnt' < V_FRONT + V_PULSE
                         \/ line_cnt' = V_FRONT + V_PULSE /\ Timing!column' = 0
  BY <1>2, <1>7
<1> QED BY <1>4, <1>8, <1>9, <1>10 DEF TimingInv

LEMMA TimingStep ==
  ASSUME TimingInv, [Timing!Next]_Timing!vars
  PROVE  TimingInv'
<1>1. CASE Timing!AssertReset
  BY <1>1, TimingReset
<1>2. CASE Timing!ReleaseReset
  BY <1>2 DEF Timing!ReleaseReset, TimingInv, Timing!TypeOK, Timing!column, HasStarted
<1>3. CASE Timing!PclkEdge
  BY <1>3, TimingPclkEdge
<1>4. CASE UNCHANGED Timing!vars
  BY <1>4 DEF Timing!vars, TimingInv, Timing!TypeOK, Timing!column, HasStarted
<1> QED BY <1>1, <1>2, <1>3, <1>4 DEF Timing!Next

(* The generator's counters and registered outputs keep step: IInv holds   *)
(* in every state of lcd_rgb_timing_colorbar, for every panel.             *)
THEOREM TimingInvariance == Timing!Spec => []TimingInv
<1>1. Timing!Init => TimingInv
  BY TimingInit
<1>2. TimingInv /\ [Timing!Next]_Timing!vars => TimingInv'
  BY TimingStep
<1> QED BY <1>1, <1>2, PTL DEF Timing!Spec

(* The panel's data enable is on only outside both sync pulses, although   *)
(* pixels, lines and outputs are counted in different registers.           *)
THEOREM SyncSound == Timing!Spec => [](Timing!TypeOK /\ Timing!DisplayOutsideSync)
<1>1. TimingInv => Timing!TypeOK /\ Timing!DisplayOutsideSync
  <2>1. SUFFICES ASSUME TimingInv PROVE Timing!TypeOK /\ Timing!DisplayOutsideSync
    OBVIOUS
  <2>2. Timing!TypeOK
    BY <2>1 DEF TimingInv
  <2>3. line_cnt \in Nat /\ Timing!column \in Nat
    BY <2>2, BeamIs
  <2>4. lcd_de => line_cnt >= Timing!first_line /\ Timing!column >= H_PULSE + H_BACK + 1
    BY <2>1 DEF TimingInv
  <2>5. lcd_hs => Timing!column <= H_PULSE
    BY <2>1 DEF TimingInv
  <2>6. timing_vs => line_cnt <= V_FRONT + V_PULSE
    BY <2>1, <2>3, PanelIs DEF TimingInv
  <2>7. ~(line_cnt >= Timing!first_line /\ line_cnt <= V_FRONT + V_PULSE)
        /\ ~(Timing!column >= H_PULSE + H_BACK + 1 /\ Timing!column <= H_PULSE)
    BY <2>3, PanelIs
  <2> QED BY <2>2, <2>4, <2>5, <2>6, <2>7 DEF Timing!DisplayOutsideSync
<1> QED BY <1>1, TimingInvariance, PTL

-----------------------------------------------------------------------------
(* Every step of the generator is a step of the raster.                    *)

still_due == (IF lcd_de THEN 1 ELSE 0) + Remaining(line_cnt, Timing!column)

LEMMA DueIs ==
  still_due = (IF lcd_de THEN 1 ELSE 0)
              + (IF Timing!started THEN Timing!rest_of_line + Timing!lines_below * H_DISP ELSE 0)
BY DEF still_due, Remaining, HasStarted, Rest, Below, Timing!started, Timing!rest_of_line,
   Timing!lines_below

LEMMA PclkEdgeDraws ==
  ASSUME TimingInv, Timing!PclkEdge
  PROVE  \/ /\ ~timing_vs /\ still_due = 0 /\ timing_vs' = TRUE /\ still_due' = H_DISP * V_DISP
         \/ timing_vs /\ timing_vs' = FALSE /\ still_due' = still_due
         \/ ~timing_vs /\ still_due > 0 /\ still_due' = still_due - 1 /\ timing_vs' = timing_vs
         \/ timing_vs' = timing_vs /\ still_due' = still_due
<1>1. Timing!TypeOK
  BY DEF TimingInv
<1> DEFINE l == line_cnt
           c == Timing!column
           left == Remaining(l, c)
           next == Remaining(NextLine(l, c), NextColumn(c))
<1>2. /\ Timing!column' = NextColumn(c) /\ line_cnt' = NextLine(l, c)
      /\ lcd_de' = Drawn(l, c)
      /\ timing_vs' = (l >= V_FRONT /\ l < V_FRONT + V_PULSE)
  BY <1>1, BeamMoves
<1>3. l \in Nat /\ l < Timing!V_TOTAL /\ c \in Nat /\ c < Timing!H_TOTAL
  BY <1>1, BeamIs
<1>4. /\ left \in Nat
      /\ ~(l = V_FRONT /\ c = 0) => left = next + (IF Drawn(l, c) THEN 1 ELSE 0)
      /\ l = V_FRONT /\ c = 0 => left = 0 /\ next = H_DISP * V_DISP
  BY <1>3, RemainingStep
<1>5. next \in Nat
  <2>1. NextLine(l, c) \in Nat /\ NextColumn(c) \in Nat
        /\ NextLine(l, c) < Timing!V_TOTAL /\ NextColumn(c) < Timing!H_TOTAL
    BY <1>3, PanelIs DEF NextLine, NextColumn
  <2> QED BY <2>1, RemainingStep
<1>6. still_due = (IF lcd_de THEN 1 ELSE 0) + left
  BY DEF still_due
<1>7. still_due' = (IF Drawn(l, c) THEN 1 ELSE 0) + next
  BY <1>2 DEF still_due
<1>8. lcd_de => l >= Timing!first_line /\ c >= H_PULSE + H_BACK + 1
  BY DEF TimingInv
<1>9. timing_vs <=> HasStarted(l, c) /\ (l < V_FRONT + V_PULSE \/ (l = V_FRONT + V_PULSE /\ c = 0))
  BY DEF TimingInv
<1>10. timing_vs \in BOOLEAN /\ timing_vs' \in BOOLEAN
  BY <1>1, <1>2 DEF Timing!TypeOK
<1>11. CASE l = V_FRONT /\ c = 0
  <2>1. ~Drawn(l, c) /\ ~lcd_de /\ ~HasStarted(l, c)
        /\ l >= V_FRONT /\ l < V_FRONT + V_PULSE
    BY <1>8, <1>11, PanelIs DEF Drawn, HasStarted
  <2>2. ~timing_vs /\ timing_vs' = TRUE
    BY <1>2, <1>9, <2>1
  <2> HIDE DEF left, next, l, c
  <2>3. still_due = 0 /\ still_due' = next
    BY <1>4, <1>5, <1>6, <1>7, <1>11, <2>1
  <2> QED BY <1>4, <1>11, <2>2, <2>3
<1>12. CASE ~(l = V_FRONT /\ c = 0)
  <2>1. still_due' = left
    <3> HIDE DEF left, next, l, c
    <3> QED BY <1>4, <1>5, <1>7, <1>12
  <2>2. CASE lcd_de
    <3>1. ~timing_vs /\ timing_vs' = FALSE
      <4>1. ~(l <= V_FRONT + V_PULSE)
        BY <1>3, <1>8, <2>2, PanelIs
      <4>2. ~(l < V_FRONT + V_PULSE) /\ ~(l = V_FRONT + V_PULSE)
        BY <1>3, <4>1, PanelIs
      <4> QED BY <1>2, <1>9, <4>2
    <3>2. still_due > 0 /\ still_due' = still_due - 1
      <4> HIDE DEF left
      <4> QED BY <1>4, <1>6, <2>1, <2>2
    <3>3. timing_vs' = timing_vs
      BY <1>10, <3>1
    <3> QED BY <3>1, <3>2, <3>3
  <2>3. CASE ~lcd_de
    <3>1. still_due' = still_due
      <4> HIDE DEF left
      <4> QED BY <1>4, <1>6, <2>1, <2>3
    <3>2. timing_vs' => timing_vs
      <4>1. l >= V_FRONT /\ l < V_FRONT + V_PULSE => HasStarted(l, c)
        BY <1>3, <1>12, PanelIs DEF HasStarted
      <4> QED BY <1>2, <1>9, <4>1
    <3>3. CASE timing_vs /\ ~timing_vs'
      BY <1>10, <3>1, <3>3
    <3>4. CASE timing_vs' = timing_vs
      BY <3>1, <3>4
    <3> QED BY <1>10, <3>2, <3>3, <3>4
  <2> QED BY <2>2, <2>3
<1> QED BY <1>11, <1>12

(* For every panel, the generator implements the raster: each vertical     *)
(* pulse is followed by exactly H_DISP * V_DISP clocks with lcd_de, none    *)
(* of them during the pulse, until the controller's timing_reset.          *)
THEOREM RasterImplemented == Timing!Spec => Timing!ImplementsRaster
<1>1. Timing!Init => Timing!Panel!Init
  <2>1. SUFFICES ASSUME Timing!Init PROVE Timing!Panel!Init
    OBVIOUS
  <2>2. lcd_de = FALSE /\ timing_vs = FALSE /\ Remaining(line_cnt, Timing!column) = 0
    BY <2>1, TimingInit DEF Timing!Init
  <2>3. still_due = 0
    BY <2>2 DEF still_due
  <2> QED BY <2>2, <2>3, DueIs DEF Timing!Panel!Init
<1>2. TimingInv /\ [Timing!Next]_Timing!vars => [Timing!Panel!Next]_Timing!Panel!vars
  <2> SUFFICES ASSUME TimingInv, [Timing!Next]_Timing!vars PROVE [Timing!Panel!Next]_Timing!Panel!vars
    OBVIOUS
  <2>1. still_due' = (IF lcd_de THEN 1 ELSE 0)'
                     + (IF Timing!started THEN Timing!rest_of_line + Timing!lines_below * H_DISP ELSE 0)'
    BY DueIs DEF still_due, Remaining, HasStarted, Rest, Below, Timing!started,
       Timing!rest_of_line, Timing!lines_below
  <2>2. CASE Timing!AssertReset
    <3>1. lcd_de' = FALSE /\ timing_vs' = FALSE /\ Remaining(line_cnt', Timing!column') = 0
      BY <2>2, TimingReset DEF Timing!AssertReset
    <3>2. still_due' = 0
      BY <3>1 DEF still_due
    <3> QED BY <2>1, <3>1, <3>2 DEF Timing!Panel!Next, Timing!Panel!Reset
  <2>3. CASE Timing!PclkEdge
    BY <2>1, <2>3, DueIs, PclkEdgeDraws
    DEF Timing!Panel!Next, Timing!Panel!StartPulse, Timing!Panel!EndPulse,
        Timing!Panel!DisplayPixel, Timing!Panel!vars
  <2>4. CASE Timing!ReleaseReset \/ UNCHANGED Timing!vars
    BY <2>4 DEF Timing!ReleaseReset, Timing!vars, Timing!Panel!vars, Timing!started,
       Timing!rest_of_line, Timing!lines_below, Timing!column
  <2> QED BY <2>2, <2>3, <2>4 DEF Timing!Next
<1> QED BY <1>1, <1>2, TimingInvariance, PTL DEF Timing!Spec, Timing!ImplementsRaster,
           Timing!Panel!Spec

-----------------------------------------------------------------------------
(* The display as a whole: its steps are steps or stutters of either half.  *)

LEMMA HalvesRun == DisplaySpec => Spec /\ Timing!Spec
<1>1. DisplayInit => Init /\ Timing!Init
  BY DEF DisplayInit
<1>2. [DisplayNext]_all => [Next]_vars
  BY DEF DisplayNext, all
<1>3. [DisplayNext]_all => [Timing!Next]_Timing!vars
  BY DEF DisplayNext, all, timing, Timing!vars
<1> QED BY <1>1, <1>2, <1>3, PTL DEF DisplaySpec, Spec, Timing!Spec

(* Both halves of the controller keep their types, the read channel's count *)
(* is exact and its bursts are legal, and data enable is on only outside    *)
(* the sync pulses.                                                         *)
THEOREM DisplaySound == DisplaySpec => []SafeDisplay
<1>1. TypeOK /\ PendingExact /\ LegalBurst /\ Timing!TypeOK /\ Timing!DisplayOutsideSync
      => SafeDisplay
  BY DEF SafeDisplay
<1> QED BY <1>1, HalvesRun, TypeCorrect, CountsReads, PostsLegalBursts, SyncSound, PTL

(* Within the display, for every panel, the generator implements the raster.*)
THEOREM Refinement == DisplaySpec => ImplementsRaster
BY HalvesRun, RasterImplemented DEF ImplementsRaster
=============================================================================
