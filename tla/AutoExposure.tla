---------------------------- MODULE AutoExposure ----------------------------
(***************************************************************************)
(* The auto exposure loop: isp_ae_handler of avalon_isp_algo_2a.c, called  *)
(* at every second ISP interrupt, cmos_set_exposure and cmos_set_gain of   *)
(* ov5640_drv.c, the exposure and gain registers of the sensor, and a      *)
(* scene that the sensor exposes and isp_stat_ae adds up.                  *)
(*                                                                         *)
(* unsigned int is Word, and arithmetic on it wraps.  The quotient of a    *)
(* division by zero is undefined in C: it is any of ZeroQuotient.          *)
(***************************************************************************)
EXTENDS Integers

CONSTANTS
  WordSize,      \* 2^32: how many values an unsigned int has
  ZeroQuotient,  \* what n / 0 may yield
  PixCnt,        \* pixels of a frame
  Scene,         \* how bright a scene is: see Mean
  Changes,       \* bound: how often the scene changes
  MaxLost,       \* bound: register writes the sensor does not acknowledge
  Timely         \* TRUE: the handler is done before the next frame ends

target_val == 65
EXPO_MAX == 1023          \* 0x3ff
GAIN_MAX == 1023
EXPO_MIN == 1
GAIN_MIN == 16

Word == 0 .. WordSize - 1
U(x) == x % WordSize

(* Exposure and gain are far from the wrapping point, and so is the        *)
(* largest numerator.                                                      *)
ASSUME AutoExposureAssumption ==
  /\ WordSize \in Nat /\ WordSize >= 4096
  /\ ZeroQuotient \subseteq Word /\ ZeroQuotient # {}
  /\ PixCnt \in Nat \ {0} /\ PixCnt * target_val < WordSize
  /\ Scene \subseteq Nat /\ Changes \in Nat /\ MaxLost \in Nat
  /\ Timely \in BOOLEAN

VARIABLES
  cmos_exposure, cmos_gain,   \* static variables of isp_ae_handler
  odd,          \* isp_frame_int is odd
  pc,           \* 0: not in isp_isr; n > 0: the n-th register write is next
  int,          \* the ISP's interrupt line
  sensor,       \* registers 0x3501, 0x3502, 0x350a, 0x350b
  applied,      \* exposure and gain of the frame being read out
  sum,          \* REG_STAT_AE_SUM
  exposed,      \* history: exposure and gain of the frame that sum is of
  scene, changes, lost

vars == <<cmos_exposure, cmos_gain, odd, pc, int, sensor, applied, sum, exposed,
          scene, changes, lost>>

-----------------------------------------------------------------------------
(* One step of isp_ae_handler on either of its two static variables.       *)

(* Half of the difference x, as unsigned int has it, but at least 1.       *)
Half(x) == IF U(x) \div 2 > 0 THEN U(x) \div 2 ELSE 1

Raise_NoFloor(v, gain0, max) ==     \* mutant: the difference may be zero
  LET diff == U(U(v * gain0) \div 16 - v) \div 2
  IN  IF v >= max THEN v
      ELSE IF U(v + diff) > max THEN max ELSE U(v + diff)

(* v + half of what v * gain0 / 16 exceeds it by, at least 1.              *)
Raise(v, gain0, max) ==
  LET diff == Half(U(v * gain0) \div 16 - v)
  IN  IF v >= max THEN v
      ELSE IF U(v + diff) > max THEN max ELSE U(v + diff)

Lower_Signed(v, gain0, min) ==      \* mutant: compared after the subtraction
  LET diff == Half(v - U(v * gain0) \div 16)
  IN  IF v <= min THEN v
      ELSE IF U(v - diff) < U(min - 1) THEN min ELSE U(v - diff)

(* v - half of what v * gain0 / 16 falls short of it, at least 1.          *)
Lower(v, gain0, min) ==
  LET diff == Half(v - U(v * gain0) \div 16)
  IN  IF v <= min THEN v
      ELSE IF v < U(min + diff) THEN min ELSE U(v - diff)

(* Too dark: exposure first, then gain.                                    *)
Brighten(e, g, gain0) ==
  IF e < EXPO_MAX THEN <<Raise(e, gain0, EXPO_MAX), g>>
                  ELSE <<e, Raise(g, gain0, GAIN_MAX)>>

(* Too bright: gain first, then exposure.                                  *)
Darken(e, g, gain0) ==
  IF g > GAIN_MIN THEN <<e, Lower(g, gain0, GAIN_MIN)>>
                  ELSE <<Lower(e, gain0, EXPO_MIN), g>>

(* gain0 = pix_cnt * target_val / (sum >> 4): 16 means on target.          *)
Gain0(s) == IF s \div 16 = 0 THEN ZeroQuotient
            ELSE {U(PixCnt * target_val) \div (s \div 16)}

InDeadZone(gain0) == gain0 \in 12..20

-----------------------------------------------------------------------------
(* The sensor and the statistics.                                          *)

Registers_Nibble(e, g) ==  \* mutant: the low nibble is not shifted up
  << (e \div 16) % 64, e % 16, (g \div 256) % 4, g % 256 >>

(* What cmos_set_exposure and cmos_set_gain write.                         *)
Registers(e, g) == << (e \div 16) % 64, (e % 16) * 16, (g \div 256) % 4, g % 256 >>

(* The exposure and the gain that the registers mean.                      *)
Decode(r) == [exposure |-> r[1] * 16 + r[2] \div 16, gain |-> r[3] * 256 + r[4]]

(* The mean of a frame: linear in scene, exposure and gain, up to white.   *)
Mean(l, a) ==
  LET light == (a.exposure * a.gain) \div 16
  IN  IF l > 0 /\ light > (255 * 1024) \div l THEN 255 ELSE (light * l) \div 1024

Init ==
  /\ cmos_exposure = 128 /\ cmos_gain = 16
  /\ odd = FALSE /\ pc = 0 /\ int = FALSE
  /\ sensor = Registers(768, 64)
  /\ applied = Decode(sensor) /\ exposed = applied
  /\ scene \in Scene /\ sum = PixCnt * Mean(scene, applied)
  /\ changes = 0 /\ lost = 0

(* A frame ends: its sum is latched and the ISP interrupts; the next frame *)
(* is exposed as the registers say.                                        *)
FrameEnd ==
  /\ Timely => pc = 0 /\ ~int
  /\ sum' = PixCnt * Mean(scene, applied)
  /\ exposed' = applied /\ applied' = Decode(sensor)
  /\ int' = TRUE
  /\ UNCHANGED <<cmos_exposure, cmos_gain, odd, pc, sensor, scene, changes, lost>>

SceneChange ==
  /\ changes < Changes /\ changes' = changes + 1
  /\ scene' \in Scene
  /\ UNCHANGED <<cmos_exposure, cmos_gain, odd, pc, int, sensor, applied, sum,
                 exposed, lost>>

(* isp_isr up to the register writes of isp_ae_handler.                    *)
Isr ==
  /\ pc = 0 /\ int /\ int' = FALSE
  /\ odd' = ~odd
  /\ IF ~odd
     THEN UNCHANGED <<cmos_exposure, cmos_gain, pc>>
     ELSE \E gain0 \in Gain0(sum) :
            LET eg == IF gain0 > 20 THEN Brighten(cmos_exposure, cmos_gain, gain0)
                      ELSE IF gain0 < 12 THEN Darken(cmos_exposure, cmos_gain, gain0)
                      ELSE <<cmos_exposure, cmos_gain>>
            IN  /\ cmos_exposure' = eg[1] /\ cmos_gain' = eg[2]
                /\ pc' = IF InDeadZone(gain0) THEN 0 ELSE 1
  /\ UNCHANGED <<sensor, applied, sum, exposed, scene, changes, lost>>

(* One register write; nobody looks at the acknowledge.                    *)
WriteRegister ==
  /\ pc > 0 /\ pc' = (pc + 1) % 5
  /\ \/ /\ sensor' = [sensor EXCEPT ![pc] = Registers(cmos_exposure, cmos_gain)[pc]]
        /\ UNCHANGED lost
     \/ /\ lost < MaxLost /\ lost' = lost + 1
        /\ UNCHANGED sensor
  /\ UNCHANGED <<cmos_exposure, cmos_gain, odd, int, applied, sum, exposed, scene,
                 changes>>

Next == FrameEnd \/ SceneChange \/ Isr \/ WriteRegister

(* Frames keep coming and the CPU keeps running; the scene need not change. *)
Spec == Init /\ [][Next]_vars
        /\ WF_vars(FrameEnd) /\ WF_vars(Isr) /\ WF_vars(WriteRegister)

-----------------------------------------------------------------------------
(* The static variables never leave what the sensor's registers can hold   *)
(* and the image can use, whatever the statistics and the division yield.  *)
TypeOK ==
  /\ cmos_exposure \in EXPO_MIN..EXPO_MAX /\ cmos_gain \in GAIN_MIN..GAIN_MAX
  /\ odd \in BOOLEAN /\ pc \in 0..4 /\ int \in BOOLEAN
  /\ \A i \in 1..4 : sensor[i] \in 0..255
  /\ applied.exposure \in 0..EXPO_MAX /\ applied.gain \in 0..GAIN_MAX
  /\ sum \in 0 .. 255 * PixCnt
  /\ scene \in Scene /\ changes \in 0..Changes /\ lost \in 0..MaxLost

(* avalon_isp_algo_2a.c:20-54: an adjustment never goes the wrong way and  *)
(* never stands still short of its limits, although the product, the       *)
(* difference and the sum of 20-22 may each wrap: with gain0 above 20      *)
(* exposure or gain grows, and with gain0 below 12 one of them shrinks.    *)
RightWay ==
  \E gain0 \in Gain0(sum) :
    \/ /\ gain0 > 20
       /\ cmos_exposure' >= cmos_exposure /\ cmos_gain' >= cmos_gain
       /\ \/ cmos_exposure' + cmos_gain' > cmos_exposure + cmos_gain
          \/ cmos_exposure = EXPO_MAX /\ cmos_gain = GAIN_MAX
    \/ /\ gain0 < 12
       /\ cmos_exposure' <= cmos_exposure /\ cmos_gain' <= cmos_gain
       /\ \/ cmos_exposure' + cmos_gain' < cmos_exposure + cmos_gain
          \/ cmos_exposure = EXPO_MIN /\ cmos_gain = GAIN_MIN
(* Every step from idle to the first register write is such a move.        *)
AdjustsTheRightWay == [][pc = 0 /\ pc' = 1 => RightWay]_vars

(* ov5640_drv.c:280-291: when the last register of an adjustment has been  *)
(* written, the four registers mean what the handler believes, whatever    *)
(* they held before.                                                       *)
Followed == Decode(sensor') = [exposure |-> cmos_exposure, gain |-> cmos_gain]
(* ... at the step that writes the last register, if no write was lost.    *)
SensorFollows == [][pc = 4 /\ pc' = 0 /\ lost' = 0 => Followed]_vars

(* hello_world.c:45: running at every second interrupt, the handler judges *)
(* a frame that was exposed with its own latest settings, never one from   *)
(* before them.                                                            *)
SeesOwnEffect ==
  int /\ odd => exposed = Decode(sensor)

(* avalon_isp_algo_2a.c:14, 20-54: under a scene that stays as it is, the  *)
(* loop comes to rest: within a third of the target mean of 65, or at the  *)
(* limit it is pushed against.  A black frame is excepted: its division by *)
(* zero may yield a gain0 that darkens, and then every later frame may be  *)
(* black, too.                                                             *)
Settled ==
  LET mean == sum \div PixCnt
  IN  \/ mean \in 50..86
      \/ mean < 50 /\ cmos_exposure = EXPO_MAX /\ cmos_gain = GAIN_MAX
      \/ mean > 86 /\ cmos_exposure = EXPO_MIN /\ cmos_gain = GAIN_MIN
(* If no frame is ever black, the loop settles for good.                   *)
Settles == [](sum >= 16) => <>[]Settled
=============================================================================
