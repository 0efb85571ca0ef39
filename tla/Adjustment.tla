----------------------------- MODULE Adjustment -----------------------------
(***************************************************************************)
(* What adjusts the image: the interrupts that tell of a frame, the        *)
(* exposure loop, the white balance loop, and the bus that carries a       *)
(* register write to the sensor.  The part that runs is chosen once and    *)
(* for all; the others keep one initial state.                             *)
(***************************************************************************)
EXTENDS AutoExposure

CONSTANTS
  WhitePixCnt, StatMin, StatMax, WhiteQuotient, Colour,    \* see WhiteBalance
  MaxFrames, MaxFramesAny,                                 \* see Interrupts
  Write, Unset, MaxWrites, MaxRestarts                     \* see SensorBus

VARIABLES
  part,
  wb_sum, wb_read, wb_gain, wb_pc, wb_latest, wb_torn,            \* white balance
  timely, module_reset, int_status, int_mask, chain, frames, stat, main,     \* interrupts
  hal, active, isr, i_registered, frame_int, raised, seen,
  data_dir, data_out, floating, phase, step, byte, bit, buff, ret,           \* bus
  listening, count, shift, got, pull, wish, regs, taken, writes, restarts

White == INSTANCE WhiteBalance WITH
  PixCnt <- WhitePixCnt, ZeroQuotient <- WhiteQuotient,
  sum <- wb_sum, read <- wb_read, gain <- wb_gain, pc <- wb_pc, latest <- wb_latest, torn <- wb_torn

Irq == INSTANCE Interrupts WITH registered <- i_registered

Bus == INSTANCE SensorBus

\* A white pixel has no black channel: init_vi_isp_vip_wch leaves the
\* thresholds at their reset values of 10 and 220.
ASSUME WhiteAssumption ==
  /\ WhitePixCnt \in Nat \ {0} /\ WhiteQuotient \subseteq Nat
  /\ StatMin \in Nat \ {0} /\ StatMax \in 0 .. 255
  /\ Colour \subseteq [White!Channel -> 0 .. 255]

ASSUME IrqAssumption == MaxFrames \in Nat /\ MaxFramesAny \in 0 .. MaxFrames

\* A 16-bit register number and a byte; power-on values are no bytes.
ASSUME BusAssumption ==
  /\ \A w \in Write : /\ w = <<w[1], w[2]>>
                       /\ w[1] \in Nat /\ w[1] < 65536 /\ w[2] \in Bus!Byte
  /\ MaxWrites \in Nat /\ MaxRestarts \in Nat

white == <<wb_sum, wb_read, wb_gain, wb_pc, wb_latest, wb_torn>>
irqs  == <<timely, module_reset, int_status, int_mask, chain, frames, stat, main,
           hal, active, isr, i_registered, frame_int, raised, seen>>
bus   == <<data_dir, data_out, floating, phase, step, byte, bit, buff, ret,
           listening, count, shift, got, pull, wish, regs, taken, writes, restarts>>
all   == <<vars, white, irqs, bus, part>>

AdjustmentInit ==
  /\ Init /\ White!Init /\ Irq!Init /\ Bus!Init
  /\ part \in {"exposure", "white", "interrupts", "bus"}
  /\ part = "exposure" \/ scene = CHOOSE s \in Scene : TRUE
  /\ part = "white" \/ wb_latest = CHOOSE c \in Colour : TRUE
  /\ part = "interrupts" \/ timely
  /\ part = "bus" \/ (floating["pwdn"] = 0 /\ floating["rstn"] = 0)

AdjustmentNext ==
  \/ part = "exposure" /\ Next /\ UNCHANGED <<white, irqs, bus, part>>
  \/ part = "white" /\ White!Next /\ UNCHANGED <<vars, irqs, bus, part>>
  \/ part = "interrupts" /\ Irq!Next /\ UNCHANGED <<vars, white, bus, part>>
  \/ part = "bus" /\ Bus!Next /\ UNCHANGED <<vars, white, irqs, part>>

(* One part runs for ever, so a fairness condition may serve two of them.  *)
Exposure(A) == part = "exposure" /\ A /\ UNCHANGED irqs
Interrupt(A) == part = "interrupts" /\ A /\ UNCHANGED <<vars, timely>>
AdjustmentSpec ==
  /\ AdjustmentInit /\ [][AdjustmentNext]_all
  /\ WF_<<vars, irqs>>(Exposure(FrameEnd) \/ Interrupt(Irq!Cpu))
  /\ WF_<<vars, irqs>>(Exposure(Isr) \/ Interrupt(Irq!Arrive))
  /\ WF_<<vars, irqs>>(Exposure(WriteRegister))

-----------------------------------------------------------------------------
(* Exposure: the settings stay in range, and a timely adjustment works on  *)
(* a frame exposed with the settings of the one before.  White balance:    *)
(* gains fit their register, and a frame that was seen whole is made grey. *)
(* The bus: port and counters in range, and the two ends never drive the   *)
(* data wire against each other.                                           *)
SafeAdjustment ==
  /\ part = "exposure" => TypeOK /\ (Timely => SeesOwnEffect)
  /\ part = "white" => White!TypeOK /\ White!GreyBecomesGrey
  /\ part = "bus" => Bus!TypeOK /\ Bus!NoFight

(* The HAL finds the line it looks for and a handler for it; no event is   *)
(* counted twice.                                                          *)
SafeInterrupts == part = "interrupts" => Irq!TypeOK /\ Irq!DispatchFinds /\ Irq!InterruptsAreEvents

(* In the timely case no frame is worked on twice.                         *)
EachRunNewFrame == Irq!EachRunNewFrame

(* The data wire moves under a high clock only for START and STOP, and the *)
(* wires carry out what ov_wr_reg promises.                                *)
BusWorks == Bus!StableWhileHigh /\ Bus!ImplementsRegisterBus

(* Every event that sets its status bit is answered.                       *)
Answered == Irq!Answered
=============================================================================
