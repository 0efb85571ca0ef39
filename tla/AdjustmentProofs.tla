------------------------- MODULE AdjustmentProofs -------------------------
(***************************************************************************)
(* Theorems about what adjusts the image: the exposure loop, the           *)
(* interrupts, the white balance and the bus to the sensor, part by part,  *)
(* and then about all of Adjustment.  They hold for every word size from   *)
(* 2^12 on, every number of pixels, scene, colour, quotient of a division  *)
(* by zero and register write, and every bound on vsyncs, lost writes and  *)
(* restarts.                                                               *)
(***************************************************************************)
EXTENDS Adjustment, Sequences, TLAPS

-----------------------------------------------------------------------------
(* The exposure loop (avalon_isp_algo_2a.c, ov5640_drv.c).                 *)

(* What fits the exposure and the gain registers.                          *)
TenBits == 0..1023

(* The halved difference of any two words, at least 1, is added to a       *)
(* setting without wrapping.                                               *)
LEMMA HalfWord ==
  ASSUME NEW x \in Int, NEW v \in TenBits
  PROVE  Half(x) \in Nat /\ Half(x) >= 1 /\ U(v + Half(x)) = v + Half(x)
<1>1. WordSize \in Nat /\ WordSize >= 4096
  BY AutoExposureAssumption
<1>2. U(x) \in 0 .. WordSize - 1
  BY <1>1 DEF U
<1>3. U(x) \div 2 \in Nat /\ 2 * (U(x) \div 2) <= WordSize - 1
  BY <1>1, <1>2
<1>4. Half(x) \in Nat /\ Half(x) >= 1 /\ 2 * Half(x) <= WordSize - 1
  BY <1>1, <1>3 DEF Half
<1>5. v + Half(x) \in 0 .. WordSize - 1
  BY <1>1, <1>4 DEF TenBits
<1>6. U(v + Half(x)) = v + Half(x)
  BY <1>1, <1>5 DEF U
<1>. QED
  BY <1>4, <1>6

(* A step towards a higher setting reaches one, and does not pass max.     *)
LEMMA RaiseRaises ==
  ASSUME NEW max \in TenBits, NEW v \in TenBits, v <= max, NEW gain0 \in Nat
  PROVE  /\ Raise(v, gain0, max) \in v..max
         /\ v < max => Raise(v, gain0, max) > v
<1>1. U(v * gain0) \div 16 - v \in Int
  <2>1. v * gain0 \in Int
    BY DEF TenBits
  <2>2. U(v * gain0) \in Int
    BY <2>1, AutoExposureAssumption DEF U
  <2>. QED
    BY <2>2 DEF TenBits
<1>. DEFINE x == U(v * gain0) \div 16 - v
            d == Half(x)
<1>2. d \in Nat /\ d >= 1 /\ U(v + d) = v + d
  <2>. HIDE DEF x
  <2>. QED
    BY <1>1, HalfWord DEF x
<1>3. Raise(v, gain0, max) = IF v >= max THEN v
                             ELSE IF U(v + d) > max THEN max ELSE U(v + d)
  BY DEF Raise
<1>. HIDE DEF d
<1>. QED
  BY <1>2, <1>3 DEF TenBits

(* A step towards a lower setting reaches one, and does not pass min.      *)
LEMMA LowerLowers ==
  ASSUME NEW min \in TenBits, NEW v \in TenBits, min <= v, NEW gain0 \in Nat
  PROVE  /\ Lower(v, gain0, min) \in min..v
         /\ min < v => Lower(v, gain0, min) < v
<1>1. v - U(v * gain0) \div 16 \in Int
  <2>1. v * gain0 \in Int
    BY DEF TenBits
  <2>2. U(v * gain0) \in Int
    BY <2>1, AutoExposureAssumption DEF U
  <2>. QED
    BY <2>2 DEF TenBits
<1>. DEFINE x == v - U(v * gain0) \div 16
            d == Half(x)
<1>2. d \in Nat /\ d >= 1 /\ U(min + d) = min + d
  <2>. HIDE DEF x
  <2>. QED
    BY <1>1, HalfWord DEF x
<1>. HIDE DEF d
<1>3. v >= min + d => U(v - d) = v - d
  BY <1>2, AutoExposureAssumption DEF U, TenBits
<1>. USE DEF d
<1>4. Lower(v, gain0, min) = IF v <= min THEN v
                             ELSE IF v < U(min + d) THEN min ELSE U(v - d)
  BY DEF Lower
<1>. HIDE DEF d
<1>. QED
  BY <1>2, <1>3, <1>4 DEF TenBits

(* The bits of a 10-bit setting are all in the registers.                  *)
LEMMA RegistersKeepSettings ==
  ASSUME NEW e \in TenBits, NEW g \in TenBits
  PROVE  Decode(Registers(e, g)) = [exposure |-> e, gain |-> g]
<1>. USE DEF TenBits
<1>1. (e \div 16) % 64 = e \div 16 /\ ((e % 16) * 16) \div 16 = e % 16
  OBVIOUS
<1>2. (e \div 16) * 16 + (e % 16) = e
  OBVIOUS
<1>3. (g \div 256) % 4 = g \div 256 /\ (g \div 256) * 256 + (g % 256) = g
  OBVIOUS
<1>. QED
  BY <1>1, <1>2, <1>3 DEF Decode, Registers

-----------------------------------------------------------------------------
(* A frame's mean is at most white, whatever the scene.                    *)
LEMMA MeanBounded ==
  ASSUME NEW l \in Nat, NEW a, a.exposure \in Nat, a.gain \in Nat
  PROVE  Mean(l, a) \in 0..255
<1>. DEFINE light == (a.exposure * a.gain) \div 16
<1>1. light \in Nat
  <2>1. a.exposure * a.gain \in Nat
    OBVIOUS
  <2>. QED
    BY <2>1
<1>2. Mean(l, a) = IF l > 0 /\ light > (255 * 1024) \div l THEN 255
                   ELSE (light * l) \div 1024
  BY DEF Mean
<1>. HIDE DEF light
<1>3. CASE l = 0
  BY <1>1, <1>2, <1>3
<1>4. CASE l > 0 /\ light > (255 * 1024) \div l
  BY <1>2, <1>4
<1>5. CASE l > 0 /\ ~(light > (255 * 1024) \div l)
  <2>. DEFINE q == (255 * 1024) \div l
  <2>1. q \in Nat /\ q * l <= 255 * 1024
    BY <1>5
  <2>. HIDE DEF q
  <2>2. light * l <= q * l
    BY <1>1, <1>5, <2>1 DEF q
  <2>3. light * l \in Nat /\ light * l <= 255 * 1024
    BY <1>1, <2>1, <2>2
  <2>. QED
    BY <1>2, <1>5, <2>3
<1>. QED
  BY <1>3, <1>4, <1>5

(* The four registers, each within its field.                              *)
Fields == << 0..63, 0..255, 0..3, 0..255 >>

(* What the register writes send is within the registers' fields.          *)
LEMMA RegistersInFields ==
  ASSUME NEW e \in TenBits, NEW g \in TenBits
  PROVE  \A i \in 1..4 : Registers(e, g)[i] \in Fields[i]
<1>. USE DEF TenBits
<1>. DEFINE r == Registers(e, g)
<1>1. r[1] = (e \div 16) % 64 /\ r[2] = (e % 16) * 16
      /\ r[3] = (g \div 256) % 4 /\ r[4] = g % 256
  BY DEF Registers
<1>2. Fields[1] = 0..63 /\ Fields[2] = 0..255 /\ Fields[3] = 0..3 /\ Fields[4] = 0..255
  BY DEF Fields
<1>3. /\ (e \div 16) % 64 \in 0..63 /\ (e % 16) * 16 \in 0..255
      /\ (g \div 256) % 4 \in 0..3 /\ g % 256 \in 0..255
  OBVIOUS
<1>. HIDE DEF r
<1>4. r[1] \in Fields[1] /\ r[2] \in Fields[2] /\ r[3] \in Fields[3] /\ r[4] \in Fields[4]
  BY <1>1, <1>2, <1>3
<1>5. \A i \in 1..4 : i = 1 \/ i = 2 \/ i = 3 \/ i = 4
  OBVIOUS
<1>. QED
  BY <1>4, <1>5 DEF r

(* Registers within their fields mean a ten-bit exposure and gain.         *)
LEMMA DecodeInRange ==
  ASSUME NEW r \in [1..4 -> Int], \A i \in 1..4 : r[i] \in Fields[i]
  PROVE  Decode(r).exposure \in 0..EXPO_MAX /\ Decode(r).gain \in 0..GAIN_MAX
<1>1. r[1] \in 0..63 /\ r[2] \in 0..255 /\ r[3] \in 0..3 /\ r[4] \in 0..255
  <2>1. r[1] \in Fields[1] /\ r[2] \in Fields[2] /\ r[3] \in Fields[3] /\ r[4] \in Fields[4]
    OBVIOUS
  <2>. QED
    BY <2>1 DEF Fields
<1>2. /\ r[1] * 16 + r[2] \div 16 \in 0..1023
      /\ r[3] * 256 + r[4] \in 0..1023
  <2>. DEFINE a == r[1]
              b == r[2]
              c == r[3]
              d == r[4]
  <2>1. a \in 0..63 /\ b \in 0..255 /\ c \in 0..3 /\ d \in 0..255
    BY <1>1
  <2>2. a * 16 + b \div 16 \in 0..1023 /\ c * 256 + d \in 0..1023
    <3>. HIDE DEF a, b, c, d
    <3>. QED
      BY <2>1
  <2>. QED
    BY <2>2
<1>. DEFINE e == r[1] * 16 + r[2] \div 16
            g == r[3] * 256 + r[4]
<1>3. Decode(r) = [exposure |-> e, gain |-> g]
  BY DEF Decode
<1>. HIDE DEF e, g
<1>4. Decode(r).exposure = e /\ Decode(r).gain = g
  BY <1>3
<1>5. e \in 0..EXPO_MAX /\ g \in 0..GAIN_MAX
  BY <1>2 DEF e, g, EXPO_MAX, GAIN_MAX
<1>. QED
  BY <1>4, <1>5

-----------------------------------------------------------------------------
(* The inductive invariant: the settings are in range, each register is in *)
(* its field, and while no write has been lost the registers written so    *)
(* far are those of the settings.                                          *)
InFields == sensor \in [1..4 -> Int] /\ \A i \in 1..4 : sensor[i] \in Fields[i]
Written == lost = 0 =>
  \A i \in 1..4 : i < pc => sensor[i] = Registers(cmos_exposure, cmos_gain)[i]
IInv == TypeOK /\ InFields /\ Written

(* The limits of the settings are numbers.                                 *)
LEMMA Limits ==
  /\ EXPO_MIN \in Nat /\ EXPO_MAX \in Nat /\ EXPO_MIN <= EXPO_MAX
  /\ GAIN_MIN \in Nat /\ GAIN_MAX \in Nat /\ GAIN_MIN <= GAIN_MAX
BY DEF EXPO_MIN, EXPO_MAX, GAIN_MIN, GAIN_MAX

(* What an adjustment leaves: isp_ae_handler by the two steps above.       *)
LEMMA AdjustmentInRange ==
  ASSUME NEW e \in EXPO_MIN..EXPO_MAX, NEW g \in GAIN_MIN..GAIN_MAX, NEW gain0 \in Nat
  PROVE  /\ Brighten(e, g, gain0)[1] \in e..EXPO_MAX
         /\ Brighten(e, g, gain0)[2] \in g..GAIN_MAX
         /\ \/ Brighten(e, g, gain0)[1] + Brighten(e, g, gain0)[2] > e + g
            \/ e = EXPO_MAX /\ g = GAIN_MAX
         /\ Darken(e, g, gain0)[1] \in EXPO_MIN..e
         /\ Darken(e, g, gain0)[2] \in GAIN_MIN..g
         /\ \/ Darken(e, g, gain0)[1] + Darken(e, g, gain0)[2] < e + g
            \/ e = EXPO_MIN /\ g = GAIN_MIN
<1>. DEFINE re == Raise(e, gain0, EXPO_MAX)
            rg == Raise(g, gain0, GAIN_MAX)
            le == Lower(e, gain0, EXPO_MIN)
            lg == Lower(g, gain0, GAIN_MIN)
<1>a. /\ e \in TenBits /\ g \in TenBits /\ EXPO_MIN <= e /\ e <= EXPO_MAX
      /\ GAIN_MIN <= g /\ g <= GAIN_MAX
  BY DEF EXPO_MIN, EXPO_MAX, GAIN_MIN, GAIN_MAX, TenBits
<1>b. /\ EXPO_MIN \in TenBits /\ EXPO_MAX \in TenBits
      /\ GAIN_MIN \in TenBits /\ GAIN_MAX \in TenBits
  BY DEF EXPO_MIN, EXPO_MAX, GAIN_MIN, GAIN_MAX, TenBits
<1>1. re \in e..EXPO_MAX /\ (e < EXPO_MAX => re > e)
  BY <1>a, <1>b, RaiseRaises
<1>2. rg \in g..GAIN_MAX /\ (g < GAIN_MAX => rg > g)
  BY <1>a, <1>b, RaiseRaises
<1>3. le \in EXPO_MIN..e /\ (EXPO_MIN < e => le < e)
  BY <1>a, <1>b, LowerLowers
<1>4. lg \in GAIN_MIN..g /\ (GAIN_MIN < g => lg < g)
  BY <1>a, <1>b, LowerLowers
<1>5. Brighten(e, g, gain0) = IF e < EXPO_MAX THEN <<re, g>> ELSE <<e, rg>>
  BY DEF Brighten
<1>6. Darken(e, g, gain0) = IF g > GAIN_MIN THEN <<e, lg>> ELSE <<le, g>>
  BY DEF Darken
<1>. HIDE DEF re, rg, le, lg
<1>7. /\ Brighten(e, g, gain0)[1] = IF e < EXPO_MAX THEN re ELSE e
      /\ Brighten(e, g, gain0)[2] = IF e < EXPO_MAX THEN g ELSE rg
  BY <1>5
<1>8. /\ Darken(e, g, gain0)[1] = IF g > GAIN_MIN THEN e ELSE le
      /\ Darken(e, g, gain0)[2] = IF g > GAIN_MIN THEN lg ELSE g
  BY <1>6
<1>. QED
  BY <1>1, <1>2, <1>3, <1>4, <1>7, <1>8 DEF EXPO_MIN, EXPO_MAX, GAIN_MIN, GAIN_MAX

(* A quotient is never negative, the undefined one included.               *)
LEMMA QuotientNat ==
  ASSUME NEW s \in Nat, NEW gain0 \in Gain0(s)
  PROVE  gain0 \in Nat
<1>1. CASE s \div 16 = 0
  BY <1>1, AutoExposureAssumption DEF Gain0, Word
<1>2. CASE s \div 16 # 0
  <2>1. s \div 16 \in Nat \ {0}
    BY <1>2
  <2>2. PixCnt * target_val \in Nat
    BY AutoExposureAssumption DEF target_val
  <2>3. U(PixCnt * target_val) \in Nat
    BY <2>2, AutoExposureAssumption DEF U
  <2>4. gain0 = U(PixCnt * target_val) \div (s \div 16)
    BY <1>2 DEF Gain0
  <2>. HIDE DEF target_val
  <2>. QED
    BY <2>1, <2>3, <2>4
<1>. QED
  BY <1>1, <1>2

(* The sum of a frame of PixCnt pixels.                                    *)
LEMMA SumBounded ==
  ASSUME NEW m \in 0..255
  PROVE  PixCnt * m \in 0 .. 255 * PixCnt
<1>1. PixCnt \in Nat
  BY AutoExposureAssumption
<1>2. PixCnt * m <= PixCnt * 255 /\ PixCnt * m \in Nat
  BY <1>1
<1>. QED
  BY <1>1, <1>2

-----------------------------------------------------------------------------
(* The program starts in the invariant.                                    *)
LEMMA InitIInv == Init => IInv
<1>. SUFFICES ASSUME Init PROVE IInv
  OBVIOUS
<1>1. sensor = << 48, 0, 0, 64 >>
  BY DEF Init, Registers
<1>2. InFields
  BY <1>1 DEF InFields, Fields
<1>3. applied.exposure \in 0..EXPO_MAX /\ applied.gain \in 0..GAIN_MAX
  BY <1>2, DecodeInRange DEF Init, InFields
<1>4. sum \in 0 .. 255 * PixCnt
  <2>1. scene \in Nat /\ applied.exposure \in Nat /\ applied.gain \in Nat
    <3>1. scene \in Nat
      BY AutoExposureAssumption DEF Init
    <3>. QED
      BY <1>3, <3>1, Limits
  <2>2. Mean(scene, applied) \in 0..255
    BY <2>1, MeanBounded
  <2>. QED
    BY <2>2, SumBounded DEF Init
<1>5. \A i \in 1..4 : sensor[i] \in 0..255
  BY <1>1
<1>6. Written
  BY DEF Init, Written
<1>7. /\ cmos_exposure \in EXPO_MIN..EXPO_MAX /\ cmos_gain \in GAIN_MIN..GAIN_MAX
      /\ pc \in 0..4
  BY DEF Init, EXPO_MIN, EXPO_MAX, GAIN_MIN, GAIN_MAX
<1>8. changes \in 0..Changes /\ lost \in 0..MaxLost /\ scene \in Scene
  BY AutoExposureAssumption DEF Init
<1>9. odd \in BOOLEAN /\ int \in BOOLEAN
  BY DEF Init
<1>. QED
  BY <1>2, <1>3, <1>4, <1>5, <1>6, <1>7, <1>8, <1>9 DEF IInv, TypeOK

(* Each step keeps it.                                                     *)
LEMMA FrameEndIInv == IInv /\ FrameEnd => IInv'
<1>. SUFFICES ASSUME IInv, FrameEnd PROVE IInv'
  OBVIOUS
<1>1. applied'.exposure \in 0..EXPO_MAX /\ applied'.gain \in 0..GAIN_MAX
  BY DecodeInRange DEF IInv, InFields, FrameEnd
<1>2. sum' \in 0 .. 255 * PixCnt
  <2>1. scene \in Nat /\ applied.exposure \in Nat /\ applied.gain \in Nat
    <3>1. scene \in Nat
      BY AutoExposureAssumption DEF IInv, TypeOK
    <3>2. applied.exposure \in 0..EXPO_MAX /\ applied.gain \in 0..GAIN_MAX
      BY DEF IInv, TypeOK
    <3>. QED
      BY <3>1, <3>2, Limits
  <2>2. Mean(scene, applied) \in 0..255
    BY <2>1, MeanBounded
  <2>. QED
    BY <2>2, SumBounded DEF FrameEnd
<1>3. InFields' /\ Written'
  BY DEF IInv, InFields, Written, FrameEnd
<1>. QED
  BY <1>1, <1>2, <1>3 DEF IInv, TypeOK, FrameEnd

(* A change of scene touches nothing the invariant is about but the scene. *)
LEMMA SceneChangeIInv == IInv /\ SceneChange => IInv'
BY AutoExposureAssumption DEF IInv, TypeOK, InFields, Written, SceneChange

(* What isp_isr makes of the settings when it adjusts them.                *)
LEMMA IsrSettings ==
  ASSUME IInv, Isr
  PROVE  /\ cmos_exposure' \in EXPO_MIN..EXPO_MAX /\ cmos_gain' \in GAIN_MIN..GAIN_MAX
         /\ pc' \in 0..1
<1>1. CASE ~odd
  BY <1>1 DEF IInv, TypeOK, Isr
<1>2. CASE odd
  <2>. DEFINE eg(gain0) == IF gain0 > 20 THEN Brighten(cmos_exposure, cmos_gain, gain0)
                           ELSE IF gain0 < 12 THEN Darken(cmos_exposure, cmos_gain, gain0)
                           ELSE <<cmos_exposure, cmos_gain>>
  <2>1. PICK gain0 \in Gain0(sum) :
          /\ cmos_exposure' = eg(gain0)[1] /\ cmos_gain' = eg(gain0)[2]
          /\ pc' = IF InDeadZone(gain0) THEN 0 ELSE 1
    BY <1>2 DEF Isr
  <2>2. gain0 \in Nat
    <3>1. sum \in Nat
      BY AutoExposureAssumption DEF IInv, TypeOK
    <3>. QED
      BY <3>1, QuotientNat
  <2>3. cmos_exposure \in EXPO_MIN..EXPO_MAX /\ cmos_gain \in GAIN_MIN..GAIN_MAX
    BY DEF IInv, TypeOK
  <2>4. pc' \in 0..1
    BY <2>1
  <2>5. CASE gain0 > 20
    <3>1. /\ cmos_exposure' = Brighten(cmos_exposure, cmos_gain, gain0)[1]
          /\ cmos_gain' = Brighten(cmos_exposure, cmos_gain, gain0)[2]
      BY <2>1, <2>5
    <3>2. /\ cmos_exposure' \in cmos_exposure..EXPO_MAX
          /\ cmos_gain' \in cmos_gain..GAIN_MAX
      BY <2>2, <2>3, <3>1, AdjustmentInRange
    <3>. QED
      BY <2>3, <2>4, <3>2, Limits
  <2>6. CASE gain0 < 12
    <3>1. /\ cmos_exposure' = Darken(cmos_exposure, cmos_gain, gain0)[1]
          /\ cmos_gain' = Darken(cmos_exposure, cmos_gain, gain0)[2]
      BY <2>1, <2>2, <2>6
    <3>2. /\ cmos_exposure' \in EXPO_MIN..cmos_exposure
          /\ cmos_gain' \in GAIN_MIN..cmos_gain
      BY <2>2, <2>3, <3>1, AdjustmentInRange
    <3>. QED
      BY <2>3, <2>4, <3>2, Limits
  <2>7. CASE ~(gain0 > 20) /\ ~(gain0 < 12)
    BY <2>1, <2>3, <2>4, <2>7
  <2>. QED
    BY <2>5, <2>6, <2>7
<1>. QED
  BY <1>1, <1>2 DEF IInv, TypeOK

(* isp_isr keeps the invariant: the registers are all still to be written. *)
LEMMA IsrIInv == IInv /\ Isr => IInv'
<1>. SUFFICES ASSUME IInv, Isr PROVE IInv'
  OBVIOUS
<1>1. /\ cmos_exposure' \in EXPO_MIN..EXPO_MAX /\ cmos_gain' \in GAIN_MIN..GAIN_MAX
      /\ pc' \in 0..1
  BY IsrSettings
<1>2. Written'
  BY <1>1 DEF Written
<1>3. odd' \in BOOLEAN /\ int' \in BOOLEAN
  BY DEF Isr
<1>4. UNCHANGED <<sensor, applied, sum, scene, changes, lost>>
  BY DEF Isr
<1>. QED
  BY <1>1, <1>2, <1>3, <1>4 DEF IInv, TypeOK, InFields

(* A register write extends the written prefix, or counts as lost.         *)
LEMMA WriteRegisterIInv == IInv /\ WriteRegister => IInv'
<1>. SUFFICES ASSUME IInv, WriteRegister PROVE IInv'
  OBVIOUS
<1>1. pc \in 1..4 /\ pc' \in 0..4 /\ (pc < 4 => pc' = pc + 1) /\ (pc = 4 => pc' = 0)
  BY DEF IInv, TypeOK, WriteRegister
<1>2. UNCHANGED <<cmos_exposure, cmos_gain>> /\ UNCHANGED <<odd, int, applied, sum, scene, changes>>
  BY DEF WriteRegister
<1>. DEFINE R == Registers(cmos_exposure, cmos_gain)
<1>3. \A i \in 1..4 : R[i] \in Fields[i]
  <2>1. cmos_exposure \in TenBits /\ cmos_gain \in TenBits
    BY DEF IInv, TypeOK, EXPO_MIN, EXPO_MAX, GAIN_MIN, GAIN_MAX, TenBits
  <2>. QED
    BY <2>1, RegistersInFields
<1>4. \A i \in 1..4 : \A x \in Fields[i] : x \in 0..255
  BY DEF Fields
<1>. HIDE DEF R
<1>5. CASE /\ sensor' = [sensor EXCEPT ![pc] = R[pc]] /\ UNCHANGED lost
  <2>1. R[pc] \in Fields[pc] /\ R[pc] \in Int
    BY <1>1, <1>3, <1>4
  <2>2. sensor' \in [1..4 -> Int]
    BY <1>1, <1>5, <2>1 DEF IInv, InFields
  <2>3. \A i \in 1..4 : sensor'[i] = IF i = pc THEN R[pc] ELSE sensor[i]
    BY <1>1, <1>5 DEF IInv, InFields
  <2>4. InFields'
    BY <1>3, <2>2, <2>3 DEF IInv, InFields
  <2>5. \A i \in 1..4 : sensor'[i] \in 0..255
    BY <1>4, <2>4 DEF InFields
  <2>6. Written'
    <3>. SUFFICES ASSUME lost' = 0, NEW i \in 1..4, i < pc' PROVE sensor'[i] = R[i]
      BY <1>2 DEF Written, R
    <3>1. i # pc => i < pc
      BY <1>1
    <3>2. i # pc => sensor[i] = R[i]
      BY <1>5, <3>1 DEF IInv, Written, R
    <3>. QED
      BY <2>3, <3>2
  <2>. QED
    BY <1>1, <1>2, <1>5, <2>4, <2>5, <2>6 DEF IInv, TypeOK
<1>6. CASE lost < MaxLost /\ lost' = lost + 1 /\ UNCHANGED sensor
  <2>1. lost' \in 0..MaxLost /\ lost' # 0
    BY <1>6, AutoExposureAssumption DEF IInv, TypeOK
  <2>2. Written' /\ InFields'
    BY <1>6, <2>1 DEF IInv, Written, InFields
  <2>. QED
    BY <1>1, <1>2, <1>6, <2>1, <2>2 DEF IInv, TypeOK
<1>. QED
  BY <1>5, <1>6 DEF WriteRegister, R

(* Every step keeps the invariant.                                         *)
LEMMA NextIInv == IInv /\ [Next]_vars => IInv'
<1>. SUFFICES ASSUME IInv, [Next]_vars PROVE IInv'
  OBVIOUS
<1>1. CASE FrameEnd
  BY <1>1, FrameEndIInv
<1>2. CASE SceneChange
  BY <1>2, SceneChangeIInv
<1>3. CASE Isr
  BY <1>3, IsrIInv
<1>4. CASE WriteRegister
  BY <1>4, WriteRegisterIInv
<1>5. CASE UNCHANGED vars
  BY <1>5 DEF vars, IInv, TypeOK, InFields, Written
<1>. QED
  BY <1>1, <1>2, <1>3, <1>4, <1>5 DEF Next

-----------------------------------------------------------------------------
(* Every adjustment moves the right way, and moves unless it is pushed     *)
(* against both limits (avalon_isp_algo_2a.c:20-54).                       *)
LEMMA NextRightWay == IInv /\ [Next]_vars => [pc = 0 /\ pc' = 1 => RightWay]_vars
<1>. SUFFICES ASSUME IInv, Next, pc = 0, pc' = 1 PROVE RightWay
  OBVIOUS
<1>1. Isr /\ odd
  BY DEF Next, FrameEnd, SceneChange, WriteRegister, Isr
<1>. DEFINE eg(gain0) == IF gain0 > 20 THEN Brighten(cmos_exposure, cmos_gain, gain0)
                         ELSE IF gain0 < 12 THEN Darken(cmos_exposure, cmos_gain, gain0)
                         ELSE <<cmos_exposure, cmos_gain>>
<1>2. PICK gain0 \in Gain0(sum) :
        /\ cmos_exposure' = eg(gain0)[1] /\ cmos_gain' = eg(gain0)[2]
        /\ pc' = IF InDeadZone(gain0) THEN 0 ELSE 1
  BY <1>1 DEF Isr
<1>3. gain0 \in Nat
  <2>1. sum \in Nat
    BY AutoExposureAssumption DEF IInv, TypeOK
  <2>. QED
    BY <2>1, QuotientNat
<1>4. cmos_exposure \in EXPO_MIN..EXPO_MAX /\ cmos_gain \in GAIN_MIN..GAIN_MAX
  BY DEF IInv, TypeOK
<1>5. CASE gain0 > 20
  <2>1. /\ cmos_exposure' = Brighten(cmos_exposure, cmos_gain, gain0)[1]
        /\ cmos_gain' = Brighten(cmos_exposure, cmos_gain, gain0)[2]
    BY <1>2, <1>5
  <2>2. /\ cmos_exposure' \in cmos_exposure..EXPO_MAX
        /\ cmos_gain' \in cmos_gain..GAIN_MAX
        /\ \/ cmos_exposure' + cmos_gain' > cmos_exposure + cmos_gain
           \/ cmos_exposure = EXPO_MAX /\ cmos_gain = GAIN_MAX
    BY <1>3, <1>4, <2>1, AdjustmentInRange
  <2>3. cmos_exposure' >= cmos_exposure /\ cmos_gain' >= cmos_gain
    BY <1>4, <2>2, Limits
  <2>. QED
    BY <1>5, <2>2, <2>3 DEF RightWay
<1>6. CASE gain0 < 12
  <2>1. /\ cmos_exposure' = Darken(cmos_exposure, cmos_gain, gain0)[1]
        /\ cmos_gain' = Darken(cmos_exposure, cmos_gain, gain0)[2]
    BY <1>2, <1>3, <1>6
  <2>2. /\ cmos_exposure' \in EXPO_MIN..cmos_exposure
        /\ cmos_gain' \in GAIN_MIN..cmos_gain
        /\ \/ cmos_exposure' + cmos_gain' < cmos_exposure + cmos_gain
           \/ cmos_exposure = EXPO_MIN /\ cmos_gain = GAIN_MIN
    BY <1>3, <1>4, <2>1, AdjustmentInRange
  <2>3. cmos_exposure' <= cmos_exposure /\ cmos_gain' <= cmos_gain
    BY <1>4, <2>2, Limits
  <2>. QED
    BY <1>6, <2>2, <2>3 DEF RightWay
<1>7. CASE ~(gain0 > 20) /\ ~(gain0 < 12)
  <2>1. InDeadZone(gain0)
    BY <1>3, <1>7 DEF InDeadZone
  <2>. QED
    BY <1>2, <2>1
<1>. QED
  BY <1>5, <1>6, <1>7

(* When the last register has been written, and none was lost, the sensor  *)
(* is set as the handler believes (ov5640_drv.c:280-291).                  *)
LEMMA NextFollowed ==
  IInv /\ IInv' /\ [Next]_vars => [pc = 4 /\ pc' = 0 /\ lost' = 0 => Followed]_vars
<1>. SUFFICES ASSUME IInv, IInv', Next, pc = 4, pc' = 0, lost' = 0 PROVE Followed
  OBVIOUS
<1>1. WriteRegister /\ UNCHANGED <<cmos_exposure, cmos_gain>>
  BY DEF Next, FrameEnd, SceneChange, Isr, WriteRegister
<1>. DEFINE R == Registers(cmos_exposure, cmos_gain)
<1>2. cmos_exposure \in TenBits /\ cmos_gain \in TenBits
  BY DEF IInv, TypeOK, EXPO_MIN, EXPO_MAX, GAIN_MIN, GAIN_MAX, TenBits
<1>3. sensor \in [1..4 -> Int] /\ lost \in Nat
  BY AutoExposureAssumption DEF IInv, InFields, TypeOK
<1>. HIDE DEF R
<1>4. sensor' = [sensor EXCEPT ![4] = R[4]] /\ lost = 0
  BY <1>1, <1>3 DEF WriteRegister, R
<1>5. \A i \in 1..3 : sensor[i] = R[i]
  BY <1>4 DEF IInv, Written, R
<1>6. sensor'[1] = R[1] /\ sensor'[2] = R[2] /\ sensor'[3] = R[3] /\ sensor'[4] = R[4]
  BY <1>3, <1>4, <1>5
<1>7. Decode(sensor') = Decode(R)
  BY <1>6 DEF Decode
<1>8. Decode(R) = [exposure |-> cmos_exposure, gain |-> cmos_gain]
  BY <1>2, RegistersKeepSettings DEF R
<1>. QED
  BY <1>7, <1>8 DEF Followed

-----------------------------------------------------------------------------
(* In the timely case a frame that the handler looks at was exposed after  *)
(* the last register write: from the first of two interrupts on the frame  *)
(* being read out has the latest settings, and the second finds them in    *)
(* the statistics, because no register is written in between.              *)
OwnEffect ==
  Timely => /\ pc > 0 => ~odd /\ ~int
            /\ int \/ odd => applied = Decode(sensor)
            /\ int /\ odd => exposed = Decode(sensor)

LEMMA NextOwnEffect == IInv /\ OwnEffect /\ [Next]_vars => OwnEffect'
<1> SUFFICES ASSUME IInv, OwnEffect, Timely, [Next]_vars
             PROVE  OwnEffect'
  BY DEF OwnEffect
<1>0. pc \in 0 .. 4 /\ odd \in BOOLEAN /\ int \in BOOLEAN
  BY DEF IInv, TypeOK
<1>1. CASE FrameEnd
  BY <1>0, <1>1 DEF FrameEnd, OwnEffect, Decode
<1>2. CASE SceneChange
  BY <1>2 DEF SceneChange, OwnEffect, Decode
<1>3. CASE Isr
  <2>1. /\ pc = 0 /\ int /\ ~int' /\ odd' = ~odd
        /\ UNCHANGED <<applied, sensor, exposed>>
    BY <1>3 DEF Isr
  <2>2. pc' > 0 => odd
    BY <1>0, <1>3, <2>1 DEF Isr
  <2> QED BY <1>0, <2>1, <2>2 DEF OwnEffect, Decode
<1>4. CASE WriteRegister
  <2>1. pc > 0 /\ UNCHANGED <<odd, int>>
    BY <1>4 DEF WriteRegister
  <2> QED BY <2>1 DEF OwnEffect
<1>5. CASE UNCHANGED vars
  BY <1>5 DEF vars, OwnEffect, Decode
<1> QED BY <1>1, <1>2, <1>3, <1>4, <1>5 DEF Next

-----------------------------------------------------------------------------
(* The interrupt path.                                                     *)

(* Where the dispatcher is sure to find a line, and the handler an event:  *)
(* from the exception on nobody but the handler itself takes one back.     *)
Handled ==
  /\ hal = "entry" => Irq!Pending # {}
  /\ hal = "dispatch" => active # {} /\ active \subseteq Irq!Pending
  /\ hal = "clear" => int_status[isr] # {}

(* The statistics in the timely case: the CPU acts only between the chains *)
(* of events; while the ISP has an event to tell of, its statistics are    *)
(* newer than the last that were worked on.                                *)
Fresh ==
  timely =>
    /\ hal # "off" => chain = 0
    /\ chain > 0 => seen["ae"] < frames
    /\ chain \in {2, 3} /\ ~module_reset["isp"] => int_status["isp"] # {}
    /\ chain = 3 /\ ~module_reset["isp"] => stat["ae"] = frames
    /\ chain # 3 \/ module_reset["isp"] => stat["ae"] = stat["awb"]
    /\ int_status["isp"] # {} \/ (hal = "count" /\ isr = "isp") \/ hal = "ae"
         => seen["ae"] < stat["ae"]
    /\ hal = "awb" => seen["ae"] = stat["ae"]
    /\ (hal = "count" /\ isr = "isp") \/ hal \in {"ae", "awb"} => int_status["isp"] = {}

IrqFunctions ==
  /\ int_status \in [Irq!Module -> SUBSET {"ae", "awb", "frame"}]
  /\ int_mask \in [Irq!Module -> SUBSET {"ae", "awb", "frame"}]
  /\ stat \in [{"ae", "awb"} -> Nat] /\ seen \in [{"ae", "awb"} -> Nat]

IrqTypes == Irq!TypeOK /\ IrqFunctions

IrqInv == IrqTypes /\ Handled /\ Irq!InterruptsAreEvents /\ Fresh

LEMMA ModuleIs == Irq!Module = {"isp", "vip", "vi"}
BY DEF Irq!Module, Irq!Irq

(* The first of a non-empty set of interrupts is one of them.              *)
LEMMA FirstIsIn == ASSUME NEW s \in SUBSET Irq!Module, s # {} PROVE Irq!First(s) \in s
<1>1. \E p \in s : \A o \in s : Irq!Irq[p] <= Irq!Irq[o]
  <2>1. Irq!Irq["isp"] = 1 /\ Irq!Irq["vip"] = 2 /\ Irq!Irq["vi"] = 3
    BY DEF Irq!Irq
  <2>2. \A o \in s : o \in {"isp", "vip", "vi"}
    BY ModuleIs
  <2>3. CASE "isp" \in s
    <3>1. \A o \in s : Irq!Irq["isp"] <= Irq!Irq[o]
      BY <2>1, <2>2
    <3> QED BY <2>3, <3>1
  <2>4. CASE "isp" \notin s /\ "vip" \in s
    <3>1. \A o \in s : Irq!Irq["vip"] <= Irq!Irq[o]
      BY <2>1, <2>2, <2>4
    <3> QED BY <2>4, <3>1
  <2>5. CASE "isp" \notin s /\ "vip" \notin s
    <3>1. s = {"vi"}
      BY <2>2, <2>5
    <3> QED BY <2>1, <3>1
  <2> QED BY <2>3, <2>4, <2>5
<1> QED BY <1>1 DEF Irq!First

(* The next event is one that its module knows.                            *)
LEMMA NextEventIs ==
  ASSUME chain \in 1 .. 5
  PROVE  /\ Len(Irq!Chain) = 5
         /\ Irq!Next_event[1] \in Irq!Module /\ Irq!Next_event[2] \in Irq!Event(Irq!Next_event[1])
         /\ Irq!Next_event[2] \in {"ae", "awb", "frame"}
         /\ Irq!Next_event = <<"isp", "ae">> <=> chain = 4
         /\ Irq!Next_event = <<"isp", "awb">> <=> chain = 3
         /\ Irq!Next_event[1] = "isp" <=> chain \in {2, 3, 4}
         /\ Irq!Next_event[1] = "isp" /\ Irq!Next_event[2] \in {"ae", "awb"} <=> chain \in {3, 4}
<1>1. Len(Irq!Chain) = 5
  BY DEF Irq!Chain
<1>2. Irq!Chain[1] = <<"vi", "frame">> /\ Irq!Chain[2] = <<"isp", "ae">> /\ Irq!Chain[3] = <<"isp", "awb">>
      /\ Irq!Chain[4] = <<"isp", "frame">> /\ Irq!Chain[5] = <<"vip", "frame">>
  BY DEF Irq!Chain
<1>3. chain = 1 \/ chain = 2 \/ chain = 3 \/ chain = 4 \/ chain = 5
  OBVIOUS
<1>4. Irq!Next_event = Irq!Chain[6 - chain]
  BY <1>1 DEF Irq!Next_event
<1>5. CASE chain = 1
  BY <1>1, <1>2, <1>4, <1>5, ModuleIs DEF Irq!Event
<1>6. CASE chain = 2
  BY <1>1, <1>2, <1>4, <1>6, ModuleIs DEF Irq!Event
<1>7. CASE chain = 3
  BY <1>1, <1>2, <1>4, <1>7, ModuleIs DEF Irq!Event
<1>8. CASE chain = 4
  BY <1>1, <1>2, <1>4, <1>8, ModuleIs DEF Irq!Event
<1>9. CASE chain = 5
  BY <1>1, <1>2, <1>4, <1>9, ModuleIs DEF Irq!Event
<1> QED BY <1>3, <1>5, <1>6, <1>7, <1>8, <1>9

LEMMA ProgramIs ==
  /\ Len(Irq!Program) = 16 /\ DOMAIN Irq!Program = 1 .. 16
  /\ \A i \in 1 .. 16 : Irq!Program[i].module \in Irq!Module
<1>1. Len(Irq!Program) = 16 /\ DOMAIN Irq!Program = 1 .. 16
  BY DEF Irq!Program
<1>2. \A i \in 1 .. 16 : Irq!Program[i].module \in {"vi", "isp", "vip"}
  BY DEF Irq!Program, Irq!Op
<1> QED BY <1>1, <1>2, ModuleIs

LEMMA IrqInit == Irq!Init => IrqInv
<1> SUFFICES ASSUME Irq!Init PROVE IrqInv
  OBVIOUS
<1>1. /\ timely \in BOOLEAN /\ chain = 0 /\ frames = 0 /\ main = 1 /\ hal = "off"
      /\ active = {} /\ isr = "vi" /\ i_registered = {}
      /\ module_reset = [p \in Irq!Module |-> TRUE] /\ int_status = [p \in Irq!Module |-> {}]
      /\ int_mask = [p \in Irq!Module |-> Irq!Event(p)] /\ stat = [ae |-> 0, awb |-> 0]
      /\ seen = [ae |-> 0, awb |-> 0]
      /\ frame_int = [p \in Irq!Module |-> 0] /\ raised = [p \in Irq!Module |-> 0]
  BY DEF Irq!Init
<1>2. \A p \in Irq!Module : Irq!Event(p) \subseteq {"ae", "awb", "frame"}
  BY DEF Irq!Event
<1>3. IrqFunctions
  BY <1>1, <1>2 DEF IrqFunctions
<1>4. Irq!TypeOK
  <2>1. stat["ae"] = 0 /\ stat["awb"] = 0 /\ seen["ae"] = 0 /\ seen["awb"] = 0
    BY <1>1
  <2>2. isr \in Irq!Module
    BY <1>1, ModuleIs
  <2>3. Len(Irq!Chain) = 5
    BY DEF Irq!Chain
  <2> QED BY <1>1, <2>1, <2>2, <2>3, ProgramIs, IrqAssumption DEF Irq!TypeOK
<1>5. Handled
  BY <1>1 DEF Handled
<1>6. Irq!InterruptsAreEvents
  BY <1>1 DEF Irq!InterruptsAreEvents
<1>7. Fresh
  <2>1. stat["ae"] = 0 /\ stat["awb"] = 0 /\ int_status["isp"] = {}
    BY <1>1, ModuleIs
  <2>2. hal = "off" /\ ~(hal = "count") /\ ~(hal = "ae") /\ ~(hal = "awb") /\ ~(hal \in {"ae", "awb"})
    BY <1>1
  <2>3. chain = 0 /\ ~(chain > 0) /\ ~(chain \in {2, 3}) /\ ~(chain = 3)
    BY <1>1
  <2> QED BY <2>1, <2>2, <2>3 DEF Fresh
<1> QED BY <1>3, <1>4, <1>5, <1>6, <1>7 DEF IrqInv, IrqTypes

-----------------------------------------------------------------------------
(* The DVP side.                                                           *)

LEMMA VsyncIInv == ASSUME IrqInv, Irq!Vsync, UNCHANGED timely PROVE IrqInv'
<1>1. /\ chain = 0 /\ chain' = 5 /\ frames' = frames + 1 /\ frames < MaxFrames
      /\ UNCHANGED <<timely, module_reset, int_status, int_mask, stat, main, hal, active, isr,
                     i_registered, frame_int, raised, seen>>
      /\ timely => hal = "off"
  <2>1. Len(Irq!Chain) = 5
    BY DEF Irq!Chain
  <2> QED BY <2>1, IrqAssumption DEF Irq!Vsync, Irq!hw_vars, Irq!hal_vars, IrqInv, IrqTypes,
             Irq!TypeOK
<1>2. IrqTypes'
  <2>1. IrqFunctions'
    BY <1>1 DEF IrqInv, IrqTypes, IrqFunctions
  <2>2. Len(Irq!Chain) = 5
    BY DEF Irq!Chain
  <2>3. \A s \in {"ae", "awb"} : stat'[s] \in 0..frames' /\ seen'[s] \in 0..frames'
    BY <1>1, IrqAssumption DEF IrqInv, IrqTypes, Irq!TypeOK
  <2>4. frames' \in 0 .. MaxFrames
    BY <1>1, IrqAssumption DEF IrqInv, IrqTypes, Irq!TypeOK
  <2>5. Irq!TypeOK'
    BY <1>1, <2>2, <2>3, <2>4 DEF IrqInv, IrqTypes, Irq!TypeOK
  <2> QED BY <2>1, <2>5 DEF IrqTypes
<1>3. Handled'
  BY <1>1 DEF IrqInv, Handled, Irq!Pending, Irq!irq
<1>4. Irq!InterruptsAreEvents'
  BY <1>1 DEF IrqInv, Irq!InterruptsAreEvents
<1>5. Fresh'
  <2>1. seen["ae"] \in 0 .. frames
    BY DEF IrqInv, IrqTypes, Irq!TypeOK
  <2> QED BY <1>1, <2>1, IrqAssumption DEF IrqInv, IrqTypes, Irq!TypeOK, Fresh
<1> QED BY <1>2, <1>3, <1>4, <1>5 DEF IrqInv

(* What the statistics become.                                             *)
LEMMA LatchIs ==
  ASSUME IrqInv, chain \in 1 .. 5, Irq!Latch_statistics
  PROVE  /\ stat' \in [{"ae", "awb"} -> Nat]
         /\ stat'["ae"] = IF chain = 4 /\ ~module_reset["isp"] THEN frames ELSE stat["ae"]
         /\ stat'["awb"] = IF chain = 3 /\ ~module_reset["isp"] THEN frames ELSE stat["awb"]
         /\ \A s \in {"ae", "awb"} : stat'[s] \in 0 .. frames
<1>1. stat \in [{"ae", "awb"} -> Nat] /\ DOMAIN stat = {"ae", "awb"} /\ frames \in Nat
      /\ \A s \in {"ae", "awb"} : stat[s] \in 0 .. frames
  BY DEF IrqInv, IrqTypes, Irq!TypeOK, IrqFunctions
<1>2. CASE chain \in {3, 4} /\ ~module_reset["isp"]
  <2>1. stat' = [stat EXCEPT ![Irq!Next_event[2]] = frames]
    BY <1>1, <1>2, NextEventIs DEF Irq!Latch_statistics
  <2>2. Irq!Next_event[2] = IF chain = 4 THEN "ae" ELSE "awb"
    BY <1>2, NextEventIs
  <2> QED BY <1>1, <1>2, <2>1, <2>2
<1>3. CASE ~(chain \in {3, 4} /\ ~module_reset["isp"])
  <2>1. stat' = stat
    BY <1>1, <1>3, NextEventIs DEF Irq!Latch_statistics
  <2> QED BY <1>1, <1>3, <2>1
<1> QED BY <1>2, <1>3

LEMMA ArriveIInv == ASSUME IrqInv, Irq!Arrive, UNCHANGED timely PROVE IrqInv'
<1> DEFINE p == Irq!Next_event[1]
<1>1. /\ chain \in 1 .. 5 /\ chain' = chain - 1
      /\ UNCHANGED <<timely, module_reset, int_mask, frames, main, hal, active, isr,
                     i_registered, frame_int, seen>>
  <2>1. Len(Irq!Chain) = 5
    BY DEF Irq!Chain
  <2> QED BY <2>1 DEF Irq!Arrive, Irq!hal_vars, IrqInv, IrqTypes, Irq!TypeOK
<1>2. /\ p \in Irq!Module /\ Irq!Next_event[2] \in Irq!Event(p)
      /\ Irq!Next_event[2] \in {"ae", "awb", "frame"}
      /\ p = "isp" <=> chain \in {2, 3, 4}
  BY <1>1, NextEventIs
<1>3. /\ int_status \in [Irq!Module -> SUBSET {"ae", "awb", "frame"}]
      /\ raised \in [Irq!Module -> Nat] /\ frame_int \in [Irq!Module -> Nat]
      /\ stat \in [{"ae", "awb"} -> Nat]
  BY DEF IrqInv, IrqTypes, IrqFunctions, Irq!TypeOK
<1>4. \/ /\ module_reset[p] /\ int_status' = int_status /\ raised' = raised
      \/ /\ ~module_reset[p]
         /\ int_status' = [int_status EXCEPT ![p] = @ \union {Irq!Next_event[2]}]
         /\ raised' = [raised EXCEPT ![p] = @ + 1]
  BY DEF Irq!Arrive
<1>5. /\ \A o \in Irq!Module : int_status[o] \subseteq int_status'[o]
      /\ \A o \in Irq!Module \ {p} : int_status'[o] = int_status[o] /\ raised'[o] = raised[o]
      /\ raised'[p] = raised[p] + (IF module_reset[p] THEN 0 ELSE 1)
      /\ module_reset[p] => int_status'[p] = int_status[p]
      /\ ~module_reset[p] => int_status'[p] = int_status[p] \union {Irq!Next_event[2]}
      /\ int_status' \in [Irq!Module -> SUBSET {"ae", "awb", "frame"}]
      /\ raised' \in [Irq!Module -> Nat]
  BY <1>2, <1>3, <1>4
<1>6. /\ stat' \in [{"ae", "awb"} -> Nat]
      /\ stat'["ae"] = IF chain = 4 /\ ~module_reset["isp"] THEN frames ELSE stat["ae"]
      /\ stat'["awb"] = IF chain = 3 /\ ~module_reset["isp"] THEN frames ELSE stat["awb"]
      /\ \A s \in {"ae", "awb"} : stat'[s] \in 0 .. frames
  BY <1>1, LatchIs DEF Irq!Arrive
<1> HIDE DEF p
<1>7. IrqTypes'
  <2>1. ASSUME NEW o \in Irq!Module PROVE int_status'[o] \subseteq Irq!Event(o)
    <3>1. int_status[o] \subseteq Irq!Event(o)
      BY DEF IrqInv, IrqTypes, Irq!TypeOK
    <3>2. CASE o = p /\ ~module_reset[p]
      BY <1>2, <1>5, <3>1, <3>2
    <3>3. CASE o # p
      BY <1>5, <3>1, <3>3
    <3>4. CASE module_reset[p] /\ o = p
      BY <1>5, <3>1, <3>4
    <3> QED BY <3>2, <3>3, <3>4
  <2>2. Len(Irq!Chain) = 5
    BY DEF Irq!Chain
  <2>3. Irq!TypeOK'
    BY <1>1, <1>5, <1>6, <2>1, <2>2 DEF IrqInv, IrqTypes, Irq!TypeOK
  <2>4. IrqFunctions'
    BY <1>1, <1>5, <1>6 DEF IrqInv, IrqTypes, IrqFunctions
  <2> QED BY <2>3, <2>4 DEF IrqTypes
<1>8. Handled'
  <2>1. Irq!Pending \subseteq Irq!Pending'
    <3>1. i_registered \subseteq Irq!Module
      BY DEF IrqInv, IrqTypes, Irq!TypeOK
    <3> QED BY <1>1, <1>5, <3>1 DEF Irq!Pending, Irq!irq
  <2>2. hal = "clear" => int_status'[isr] # {}
    <3>1. isr \in Irq!Module
      BY DEF IrqInv, IrqTypes, Irq!TypeOK
    <3> QED BY <1>5, <3>1 DEF IrqInv, Handled
  <2> QED BY <1>1, <2>1, <2>2 DEF IrqInv, Handled
<1>9. Irq!InterruptsAreEvents'
  <2> SUFFICES ASSUME NEW o \in Irq!Module
               PROVE  frame_int'[o] + (IF int_status'[o] # {} THEN 1 ELSE 0)
                        + (IF hal' = "count" /\ isr' = o THEN 1 ELSE 0) <= raised'[o]
    BY DEF Irq!InterruptsAreEvents
  <2>1. frame_int[o] + (IF int_status[o] # {} THEN 1 ELSE 0)
          + (IF hal = "count" /\ isr = o THEN 1 ELSE 0) <= raised[o]
    BY DEF IrqInv, Irq!InterruptsAreEvents
  <2>2. frame_int[o] \in Nat /\ raised[o] \in Nat
    BY <1>3
  <2>3. CASE o = p /\ ~module_reset[p]
    BY <1>1, <1>5, <2>1, <2>2, <2>3
  <2>4. CASE ~(o = p /\ ~module_reset[p])
    <3>1. int_status'[o] = int_status[o] /\ raised'[o] = raised[o]
      BY <1>2, <1>3, <1>4, <1>5, <2>4
    <3> QED BY <1>1, <2>1, <3>1
  <2> QED BY <2>3, <2>4
<1>10. Fresh'
  <2> SUFFICES ASSUME timely PROVE Fresh'
    BY <1>1 DEF Fresh
  <2>1. "isp" \in Irq!Module
    BY ModuleIs
  <2>2. hal = "off" /\ seen["ae"] < frames
    BY <1>1 DEF IrqInv, Fresh
  <2>3. int_status'["isp"] = IF chain \in {2, 3, 4} /\ ~module_reset["isp"]
                             THEN int_status["isp"] \union {Irq!Next_event[2]}
                             ELSE int_status["isp"]
    BY <1>2, <1>3, <1>4, <1>5, <2>1
  <2>4. seen["ae"] \in Nat /\ frames \in Nat
    BY DEF IrqInv, IrqTypes, Irq!TypeOK, IrqFunctions
  <2>5. int_status'["isp"] # {} => seen["ae"] < stat'["ae"]
    BY <1>1, <1>6, <2>2, <2>3, <2>4 DEF IrqInv, Fresh
  <2>6. chain' \in {2, 3} /\ ~module_reset["isp"] => int_status'["isp"] # {}
    BY <1>1, <2>3
  <2>7. chain' = 3 /\ ~module_reset["isp"] => stat'["ae"] = frames
    BY <1>1, <1>6
  <2>8. chain' # 3 \/ module_reset["isp"] => stat'["ae"] = stat'["awb"]
    BY <1>1, <1>6, <2>4 DEF IrqInv, Fresh
  <2> QED BY <1>1, <2>2, <2>5, <2>6, <2>7, <2>8 DEF Fresh
<1> QED BY <1>7, <1>8, <1>9, <1>10 DEF IrqInv

-----------------------------------------------------------------------------
(* The CPU's steps.                                                        *)

(* An access, or none, leaves the frames alone, and in the timely case it  *)
(* meets no event.                                                         *)
Meets(p) == Irq!Access(p) \/ Irq!No_access

LEMMA MeetsIs ==
  ASSUME IrqInv, NEW p, Meets(p)
  PROVE  /\ frames' = frames /\ chain' \in 0 .. 5
         /\ stat' \in [{"ae", "awb"} -> Nat]
         /\ \A s \in {"ae", "awb"} : stat'[s] \in 0 .. frames
         /\ timely => chain = 0 /\ chain' = 0 /\ stat' = stat
<1>1. Len(Irq!Chain) = 5
  BY DEF Irq!Chain
<1>2. chain \in 0 .. 5 /\ stat \in [{"ae", "awb"} -> Nat]
      /\ \A s \in {"ae", "awb"} : stat[s] \in 0 .. frames
  BY <1>1 DEF IrqInv, IrqTypes, Irq!TypeOK, IrqFunctions
<1>3. CASE UNCHANGED Irq!dvp_vars /\ (timely => chain = 0)
  BY <1>2, <1>3 DEF Irq!dvp_vars
<1>4. CASE ~timely /\ chain > 0 /\ chain' = chain - 1 /\ Irq!Latch_statistics /\ frames' = frames
  <2>1. chain \in 1 .. 5
    BY <1>2, <1>4
  <2> QED BY <1>4, <2>1, LatchIs
<1> QED BY <1>3, <1>4 DEF Meets, Irq!Access, Irq!No_access

(* The part of the invariant that is about the timely case needs, of a     *)
(* step of the CPU, only what it does to the ISP.                          *)
LEMMA CpuFresh ==
  ASSUME IrqInv, NEW p, Meets(p), UNCHANGED timely,
         module_reset'["isp"] = module_reset["isp"] \/ chain = 0,
         int_status'["isp"] # {} => int_status["isp"] # {},
         timely =>
           /\ (hal' = "count" /\ isr' = "isp") \/ hal' \in {"ae", "awb"} => int_status'["isp"] = {}
           /\ (hal' = "count" /\ isr' = "isp") \/ hal' = "ae"
                => \/ int_status["isp"] # {} \/ (hal = "count" /\ isr = "isp") \/ hal = "ae"
           /\ \/ seen' = seen /\ hal' # "awb"
              \/ /\ seen'["ae"] = stat["ae"] \/ (seen'["ae"] = seen["ae"] /\ hal' # "awb")
                 /\ int_status'["isp"] = {} /\ hal' # "count" /\ hal' # "ae"
  PROVE  Fresh'
<1> SUFFICES ASSUME timely PROVE Fresh'
  BY DEF Fresh
<1>1. chain = 0 /\ chain' = 0 /\ stat' = stat /\ frames' = frames
  BY MeetsIs
<1>2. stat["ae"] = stat["awb"]
  BY <1>1 DEF IrqInv, Fresh
<1>3. int_status["isp"] # {} \/ (hal = "count" /\ isr = "isp") \/ hal = "ae" => seen["ae"] < stat["ae"]
  BY DEF IrqInv, Fresh
<1>4. int_status'["isp"] # {} \/ (hal' = "count" /\ isr' = "isp") \/ hal' = "ae"
        => seen'["ae"] < stat'["ae"]
  BY <1>1, <1>3
<1>5. hal' = "awb" => seen'["ae"] = stat'["ae"]
  BY <1>1
<1>6. chain' # 3 /\ chain' \notin {2, 3} /\ ~(chain' > 0)
  BY <1>1
<1>7. (hal' = "count" /\ isr' = "isp") \/ hal' \in {"ae", "awb"} => int_status'["isp"] = {}
  OBVIOUS
<1> QED BY <1>1, <1>2, <1>4, <1>5, <1>6, <1>7 DEF Fresh

LEMMA MainIInv == ASSUME IrqInv, Irq!Main, UNCHANGED timely PROVE IrqInv'
<1> DEFINE o == Irq!Program[main]
<1>1. /\ hal = "off" /\ Irq!Pending = {} /\ main \in 1 .. 16 /\ main' \in 1 .. 16
      /\ UNCHANGED <<timely, int_status, hal, active, isr, frame_int, raised, seen>>
  <2>1. /\ hal = "off" /\ Irq!Pending = {}
        /\ main' = IF main < Len(Irq!Program) THEN main + 1 ELSE main
    BY DEF Irq!Main
  <2>2. main \in DOMAIN Irq!Program
    BY DEF IrqInv, IrqTypes, Irq!TypeOK
  <2>3. UNCHANGED <<int_status, Irq!hal_vars, frame_int, raised, seen>>
    BY DEF Irq!Main
  <2> QED BY <2>1, <2>2, <2>3, ProgramIs DEF Irq!hal_vars
<1>2. o.module \in Irq!Module
  BY <1>1, ProgramIs
<1>3. Meets(o.module)
  BY DEF Irq!Main, Meets
<1>4. /\ \/ module_reset' = [module_reset EXCEPT ![o.module] = (o.value = 1)]
         \/ module_reset' = module_reset
      /\ \/ int_mask' = [int_mask EXCEPT ![o.module] = Irq!mask_of(o.module, o.value)]
         \/ int_mask' = int_mask
      /\ \/ i_registered' = i_registered \union {o.module}
         \/ i_registered' = i_registered
  BY DEF Irq!Main
<1>5. module_reset' = module_reset \/ chain = 0 \/ ~timely
  BY <1>1, <1>3, MeetsIs
<1>6. Irq!mask_of(o.module, o.value) \in {{}, Irq!Event(o.module)}
      /\ Irq!mask_of(o.module, o.value) \subseteq {"ae", "awb", "frame"}
  BY DEF Irq!mask_of, Irq!Event
<1> HIDE DEF o
<1>7. IrqTypes'
  <2>1. Len(Irq!Chain) = 5
    BY DEF Irq!Chain
  <2>2. module_reset' \in [Irq!Module -> BOOLEAN]
    BY <1>4 DEF IrqInv, IrqTypes, Irq!TypeOK
  <2>3. \A q \in Irq!Module : int_mask'[q] \in {{}, Irq!Event(q)}
    BY <1>4, <1>6 DEF IrqInv, IrqTypes, Irq!TypeOK, IrqFunctions
  <2>4. int_mask' \in [Irq!Module -> SUBSET {"ae", "awb", "frame"}]
    BY <1>4, <1>6 DEF IrqInv, IrqTypes, IrqFunctions
  <2>5. i_registered' \subseteq Irq!Module
    BY <1>2, <1>4 DEF IrqInv, IrqTypes, Irq!TypeOK
  <2>6. Irq!TypeOK'
    BY <1>1, <1>3, <2>1, <2>2, <2>3, <2>5, MeetsIs, ProgramIs DEF IrqInv, IrqTypes, Irq!TypeOK
  <2> QED BY <1>1, <1>3, <2>4, <2>6, MeetsIs DEF IrqInv, IrqTypes, IrqFunctions
<1>8. Handled'
  BY <1>1 DEF Handled
<1>9. Irq!InterruptsAreEvents'
  BY <1>1 DEF IrqInv, Irq!InterruptsAreEvents
<1>10. Fresh'
  <2>1. CASE timely
    <3>1. chain = 0
      BY <1>3, <2>1, MeetsIs
    <3> QED BY <1>1, <1>3, <3>1, CpuFresh
  <2>2. CASE ~timely
    BY <1>1, <2>2 DEF Fresh
  <2> QED BY <2>1, <2>2
<1> QED BY <1>7, <1>8, <1>9, <1>10 DEF IrqInv

(* What the steps of the HAL that touch no register leave alone.           *)
HalStep ==
  /\ Irq!No_access
  /\ UNCHANGED <<timely, module_reset, int_status, int_mask, main, i_registered, raised>>

LEMMA HalStepKeeps ==
  ASSUME IrqInv, HalStep
  PROVE  Irq!Pending' = Irq!Pending
BY DEF HalStep, Irq!Pending, Irq!irq

LEMMA HalTypes ==
  ASSUME IrqInv, NEW p, Meets(p),
         UNCHANGED <<timely, module_reset, int_mask, main, i_registered, raised>>,
         int_status' \in [Irq!Module -> SUBSET {"ae", "awb", "frame"}],
         \A q \in Irq!Module : int_status'[q] \subseteq int_status[q],
         hal' \in {"off", "entry", "dispatch", "clear", "count", "ae", "awb", "return"},
         active' \subseteq Irq!Module, isr' \in Irq!Module, frame_int' \in [Irq!Module -> Nat],
         seen' \in [{"ae", "awb"} -> Nat], \A s \in {"ae", "awb"} : seen'[s] \in 0 .. frames
  PROVE  IrqTypes'
<1>1. Len(Irq!Chain) = 5
  BY DEF Irq!Chain
<1>2. frames' = frames /\ chain' \in 0 .. 5 /\ stat' \in [{"ae", "awb"} -> Nat]
      /\ \A s \in {"ae", "awb"} : stat'[s] \in 0 .. frames
  BY MeetsIs
<1>3. \A q \in Irq!Module : int_status'[q] \subseteq Irq!Event(q)
  BY DEF IrqInv, IrqTypes, Irq!TypeOK
<1>4. Irq!TypeOK'
  BY <1>1, <1>2, <1>3 DEF IrqInv, IrqTypes, Irq!TypeOK
<1>5. IrqFunctions'
  BY <1>2 DEF IrqInv, IrqTypes, IrqFunctions
<1> QED BY <1>4, <1>5 DEF IrqTypes

LEMMA PendingIsIn == ASSUME IrqInv PROVE Irq!Pending \subseteq Irq!Module
BY DEF IrqInv, IrqTypes, Irq!TypeOK, Irq!Pending

LEMMA CurrentTypes ==
  ASSUME IrqInv
  PROVE  /\ int_status \in [Irq!Module -> SUBSET {"ae", "awb", "frame"}]
         /\ hal \in {"off", "entry", "dispatch", "clear", "count", "ae", "awb", "return"}
         /\ active \subseteq Irq!Module /\ isr \in Irq!Module /\ frame_int \in [Irq!Module -> Nat]
         /\ raised \in [Irq!Module -> Nat]
         /\ seen \in [{"ae", "awb"} -> Nat] /\ \A s \in {"ae", "awb"} : seen[s] \in 0 .. frames
BY DEF IrqInv, IrqTypes, Irq!TypeOK, IrqFunctions

LEMMA TakeExceptionIInv == ASSUME IrqInv, Irq!Take_exception, UNCHANGED timely PROVE IrqInv'
<1>1. /\ HalStep /\ hal = "off" /\ hal' = "entry" /\ Irq!Pending # {}
      /\ UNCHANGED <<active, isr, frame_int, seen>>
  BY DEF Irq!Take_exception, HalStep, Irq!hw_vars
<1>2. Meets("vi")
  BY <1>1 DEF HalStep, Meets
<1>3. IrqTypes'
  BY <1>1, <1>2, HalTypes, CurrentTypes DEF HalStep
<1>4. Handled'
  BY <1>1, HalStepKeeps DEF Handled
<1>5. Irq!InterruptsAreEvents'
  BY <1>1 DEF IrqInv, Irq!InterruptsAreEvents, HalStep
<1>6. Fresh'
  BY <1>1, <1>2, CpuFresh DEF HalStep
<1> QED BY <1>3, <1>4, <1>5, <1>6 DEF IrqInv

LEMMA ReadPendingIInv == ASSUME IrqInv, Irq!Read_pending, UNCHANGED timely PROVE IrqInv'
<1>1. /\ HalStep /\ hal \in {"entry", "return"} /\ active' = Irq!Pending
      /\ hal' = IF hal = "return" /\ Irq!Pending = {} THEN "off" ELSE "dispatch"
      /\ UNCHANGED <<isr, frame_int, seen>>
  BY DEF Irq!Read_pending, HalStep, Irq!hw_vars
<1>2. Meets("vi")
  BY <1>1 DEF HalStep, Meets
<1>3. IrqTypes'
  BY <1>1, <1>2, HalTypes, CurrentTypes, PendingIsIn DEF HalStep
<1>4. Handled'
  BY <1>1, HalStepKeeps DEF IrqInv, Handled
<1>5. Irq!InterruptsAreEvents'
  BY <1>1 DEF IrqInv, Irq!InterruptsAreEvents, HalStep
<1>6. Fresh'
  BY <1>1, <1>2, CpuFresh DEF HalStep
<1> QED BY <1>3, <1>4, <1>5, <1>6 DEF IrqInv

LEMMA DispatchIInv == ASSUME IrqInv, Irq!Dispatch, UNCHANGED timely PROVE IrqInv'
<1>1. /\ HalStep /\ hal = "dispatch" /\ hal' = "clear" /\ active # {} /\ isr' = Irq!First(active)
      /\ UNCHANGED <<active, frame_int, seen>>
  BY DEF Irq!Dispatch, HalStep, Irq!hw_vars
<1>2. Meets("vi")
  BY <1>1 DEF HalStep, Meets
<1>3. active \subseteq Irq!Pending
  BY <1>1 DEF IrqInv, Handled
<1>4. isr' \in active /\ isr' \in Irq!Module
  BY <1>1, FirstIsIn, CurrentTypes
<1>5. IrqTypes'
  BY <1>1, <1>2, <1>4, HalTypes, CurrentTypes DEF HalStep
<1>6. Handled'
  <2>1. int_status'[isr'] # {}
    BY <1>1, <1>3, <1>4 DEF HalStep, Irq!Pending, Irq!irq
  <2> QED BY <1>1, <2>1 DEF Handled
<1>7. Irq!InterruptsAreEvents'
  BY <1>1 DEF IrqInv, Irq!InterruptsAreEvents, HalStep
<1>8. Fresh'
  BY <1>1, <1>2, CpuFresh DEF HalStep
<1> QED BY <1>5, <1>6, <1>7, <1>8 DEF IrqInv

LEMMA IsrClearIInv == ASSUME IrqInv, Irq!Isr_clear, UNCHANGED timely PROVE IrqInv'
<1>1. /\ hal = "clear" /\ hal' = "count" /\ Meets(isr)
      /\ int_status' = [int_status EXCEPT ![isr] = {}]
      /\ UNCHANGED <<timely, module_reset, int_mask, main, active, isr, i_registered,
                     frame_int, raised, seen>>
  BY DEF Irq!Isr_clear, Meets
<1>2. /\ int_status' \in [Irq!Module -> SUBSET {"ae", "awb", "frame"}]
      /\ int_status'[isr] = {}
      /\ \A q \in Irq!Module : int_status'[q] \subseteq int_status[q]
      /\ \A q \in Irq!Module \ {isr} : int_status'[q] = int_status[q]
      /\ isr \in Irq!Module
  BY <1>1, CurrentTypes
<1>3. IrqTypes'
  BY <1>1, <1>2, HalTypes, CurrentTypes
<1>4. Handled'
  BY <1>1 DEF Handled
<1>5. int_status[isr] # {}
  BY <1>1 DEF IrqInv, Handled
<1>6. Irq!InterruptsAreEvents'
  <2> SUFFICES ASSUME NEW o \in Irq!Module
               PROVE  frame_int'[o] + (IF int_status'[o] # {} THEN 1 ELSE 0)
                        + (IF hal' = "count" /\ isr' = o THEN 1 ELSE 0) <= raised'[o]
    BY DEF Irq!InterruptsAreEvents
  <2>1. frame_int[o] + (IF int_status[o] # {} THEN 1 ELSE 0)
          + (IF hal = "count" /\ isr = o THEN 1 ELSE 0) <= raised[o]
    BY DEF IrqInv, Irq!InterruptsAreEvents
  <2>2. frame_int[o] \in Nat /\ raised[o] \in Nat
    BY CurrentTypes
  <2>3. CASE o = isr
    BY <1>1, <1>2, <1>5, <2>1, <2>2, <2>3
  <2>4. CASE o # isr
    BY <1>1, <1>2, <2>1, <2>2, <2>4
  <2> QED BY <2>3, <2>4
<1>7. Fresh'
  <2>1. "isp" \in Irq!Module
    BY ModuleIs
  <2>2. hal' = "count" /\ isr' = "isp" => int_status["isp"] # {}
    BY <1>1, <1>5
  <2>3. int_status'["isp"] # {} => int_status["isp"] # {}
    BY <1>2, <2>1
  <2>4. isr = "isp" => int_status'["isp"] = {}
    BY <1>2
  <2> QED BY <1>1, <2>2, <2>3, <2>4, CpuFresh
<1> QED BY <1>3, <1>4, <1>6, <1>7 DEF IrqInv

LEMMA IsrCountIInv == ASSUME IrqInv, Irq!Isr_count, UNCHANGED timely PROVE IrqInv'
<1>1. /\ HalStep /\ hal = "count" /\ frame_int' = [frame_int EXCEPT ![isr] = @ + 1]
      /\ hal' \in {"ae", "return"} /\ (hal' = "ae" => isr = "isp")
      /\ UNCHANGED <<active, isr, seen>>
  BY DEF Irq!Isr_count, HalStep, Irq!hw_vars
<1>2. Meets("vi")
  BY <1>1 DEF HalStep, Meets
<1>3. isr \in Irq!Module /\ frame_int' \in [Irq!Module -> Nat] /\ frame_int'[isr] = frame_int[isr] + 1
      /\ \A q \in Irq!Module \ {isr} : frame_int'[q] = frame_int[q]
  BY <1>1, CurrentTypes
<1>4. IrqTypes'
  BY <1>1, <1>2, <1>3, HalTypes, CurrentTypes DEF HalStep
<1>5. Handled'
  BY <1>1 DEF Handled
<1>6. Irq!InterruptsAreEvents'
  <2> SUFFICES ASSUME NEW o \in Irq!Module
               PROVE  frame_int'[o] + (IF int_status'[o] # {} THEN 1 ELSE 0)
                        + (IF hal' = "count" /\ isr' = o THEN 1 ELSE 0) <= raised'[o]
    BY DEF Irq!InterruptsAreEvents
  <2>1. frame_int[o] + (IF int_status[o] # {} THEN 1 ELSE 0)
          + (IF hal = "count" /\ isr = o THEN 1 ELSE 0) <= raised[o]
    BY DEF IrqInv, Irq!InterruptsAreEvents
  <2>2. frame_int[o] \in Nat /\ raised[o] \in Nat
    BY CurrentTypes
  <2>3. int_status'[o] = int_status[o] /\ raised'[o] = raised[o]
    BY <1>1 DEF HalStep
  <2>4. CASE o = isr
    BY <1>1, <1>3, <2>1, <2>2, <2>3, <2>4
  <2>5. CASE o # isr
    BY <1>1, <1>3, <2>1, <2>2, <2>3, <2>5
  <2> QED BY <2>4, <2>5
<1>7. Fresh'
  <2>1. timely /\ isr = "isp" => int_status["isp"] = {}
    BY <1>1 DEF IrqInv, Fresh
  <2> QED BY <1>1, <1>2, <2>1, CpuFresh DEF HalStep
<1> QED BY <1>4, <1>5, <1>6, <1>7 DEF IrqInv

LEMMA IsrAlgorithmIInv == ASSUME IrqInv, Irq!Isr_algorithm, UNCHANGED timely PROVE IrqInv'
<1>1. /\ hal \in {"ae", "awb"} /\ Meets("isp") /\ seen' = [seen EXCEPT ![hal] = stat[hal]]
      /\ hal' = IF hal = "ae" THEN "awb" ELSE "return"
      /\ UNCHANGED <<timely, module_reset, int_status, int_mask, main, active, isr, i_registered,
                     frame_int, raised>>
  BY DEF Irq!Isr_algorithm, Meets, Irq!hw_vars
<1>2. \A s \in {"ae", "awb"} : stat[s] \in 0 .. frames
  BY DEF IrqInv, IrqTypes, Irq!TypeOK
<1>3. /\ frames \in Nat /\ seen' \in [{"ae", "awb"} -> Nat]
      /\ \A s \in {"ae", "awb"} : seen'[s] \in 0 .. frames
      /\ seen'[hal] = stat[hal]
      /\ hal = "awb" => seen'["ae"] = seen["ae"]
  BY <1>1, <1>2, CurrentTypes DEF IrqInv, IrqTypes, Irq!TypeOK
<1>4. IrqTypes'
  BY <1>1, <1>3, HalTypes, CurrentTypes
<1>5. Handled'
  BY <1>1 DEF Handled
<1>6. Irq!InterruptsAreEvents'
  BY <1>1 DEF IrqInv, Irq!InterruptsAreEvents
<1>7. Fresh'
  <2>1. timely => int_status["isp"] = {} /\ stat["ae"] \in Nat
    BY <1>1 DEF IrqInv, Fresh, IrqTypes, IrqFunctions
  <2> QED BY <1>1, <1>3, <2>1, CpuFresh
<1> QED BY <1>4, <1>5, <1>6, <1>7 DEF IrqInv

LEMMA IrqNext == ASSUME IrqInv, [Irq!Next]_Irq!vars PROVE IrqInv'
<1>1. CASE Irq!Vsync /\ UNCHANGED timely
  BY <1>1, VsyncIInv
<1>2. CASE Irq!Arrive /\ UNCHANGED timely
  BY <1>2, ArriveIInv
<1>3. CASE Irq!Main /\ UNCHANGED timely
  BY <1>3, MainIInv
<1>4. CASE Irq!Take_exception /\ UNCHANGED timely
  BY <1>4, TakeExceptionIInv
<1>5. CASE Irq!Read_pending /\ UNCHANGED timely
  BY <1>5, ReadPendingIInv
<1>6. CASE Irq!Dispatch /\ UNCHANGED timely
  BY <1>6, DispatchIInv
<1>7. CASE Irq!Isr_clear /\ UNCHANGED timely
  BY <1>7, IsrClearIInv
<1>8. CASE Irq!Isr_count /\ UNCHANGED timely
  BY <1>8, IsrCountIInv
<1>9. CASE Irq!Isr_algorithm /\ UNCHANGED timely
  BY <1>9, IsrAlgorithmIInv
<1>10. CASE UNCHANGED Irq!vars
  <2>1. IrqTypes'
    BY <1>10 DEF Irq!vars, Irq!hw_vars, Irq!dvp_vars, Irq!hal_vars, IrqInv, IrqTypes,
       Irq!TypeOK, IrqFunctions
  <2>2. Handled' /\ Irq!InterruptsAreEvents' /\ Fresh'
    BY <1>10 DEF Irq!vars, Irq!hw_vars, Irq!dvp_vars, Irq!hal_vars, IrqInv, Handled,
       Irq!InterruptsAreEvents,
                 Fresh, Irq!Pending, Irq!irq
  <2> QED BY <2>1, <2>2 DEF IrqInv
<1> QED BY <1>1, <1>2, <1>3, <1>4, <1>5, <1>6, <1>7, <1>8, <1>9, <1>10 DEF Irq!Next, Irq!Cpu

(* An algorithm finds a frame no algorithm has worked on, or the one that   *)
(* auto exposure has just worked on.                                       *)
LEMMA NextNewFrame ==
  IrqInv /\ [Irq!Next]_Irq!vars =>
    [ timely =>
        /\ hal = "ae" /\ hal' = "awb" => seen'["ae"] > seen["ae"]
        /\ hal = "awb" /\ hal' = "return" => seen'["awb"] = seen["ae"] ]_Irq!vars
<1> SUFFICES ASSUME IrqInv, Irq!Next, timely, hal \in {"ae", "awb"}, hal' # hal
             PROVE  /\ hal = "ae" /\ hal' = "awb" => seen'["ae"] > seen["ae"]
                    /\ hal = "awb" /\ hal' = "return" => seen'["awb"] = seen["ae"]
  BY DEF Irq!vars, Irq!hal_vars
<1>1. Irq!Isr_algorithm
  BY DEF Irq!Next, Irq!Cpu, Irq!Vsync, Irq!Arrive, Irq!Main, Irq!Take_exception,
     Irq!Read_pending, Irq!Dispatch, Irq!Isr_clear,
         Irq!Isr_count, Irq!hal_vars
<1>2. Meets("isp") /\ seen' = [seen EXCEPT ![hal] = stat[hal]] /\ seen \in [{"ae", "awb"} -> Nat]
      /\ stat \in [{"ae", "awb"} -> Nat]
  BY <1>1 DEF Irq!Isr_algorithm, Meets, IrqInv, IrqTypes, IrqFunctions
<1>3. stat["ae"] = stat["awb"]
  BY <1>2, MeetsIs DEF IrqInv, Fresh
<1>4. hal = "ae" => seen["ae"] < stat["ae"]
  BY DEF IrqInv, Fresh
<1>5. hal = "awb" => seen["ae"] = stat["ae"]
  BY DEF IrqInv, Fresh
<1> QED BY <1>2, <1>3, <1>4, <1>5

-----------------------------------------------------------------------------
(* What the handler has done of its work on a frame that has not ended.    *)
HasRead(x) ==
  CASE x = "r" -> wb_pc \in {"read_g", "read_b", "write_g", "write_r", "write_b", "idle"}
    [] x = "g" -> wb_pc \in {"read_b", "write_g", "write_r", "write_b", "idle"}
    [] x = "b" -> wb_pc \in {"write_g", "write_r", "write_b", "idle"}

HasWritten(x) == (x = "r" /\ wb_pc \in {"write_b", "idle"}) \/ (x = "b" /\ wb_pc = "idle")

Progress ==
  ~wb_torn => /\ \A x \in White!Channel : HasRead(x) => wb_read[x] = wb_sum[x]
              /\ \A x \in {"r", "b"} :
                   HasWritten(x) => \E k \in White!gain0(wb_sum["g"], wb_sum[x]) : wb_gain[x] = White!as_writedata(k)

WhiteInv == White!TypeOK /\ Progress

LEMMA ChannelIs == White!Channel = {"r", "g", "b"} /\ 255 * WhitePixCnt \in Nat
  BY WhiteAssumption DEF White!Channel

LEMMA SumInRange ==
  ASSUME NEW c \in Colour
  PROVE  White!SumOf(c) \in [White!Channel -> 0 .. 255 * WhitePixCnt]
<1>1. ASSUME NEW x \in White!Channel PROVE WhitePixCnt * c[x] \in 0 .. 255 * WhitePixCnt
  <2>1. c[x] \in 0 .. 255 /\ WhitePixCnt \in Nat
    BY WhiteAssumption
  <2>2. 255 * WhitePixCnt - WhitePixCnt * c[x] = WhitePixCnt * (255 - c[x])
    BY <2>1
  <2>3. WhitePixCnt * (255 - c[x]) >= 0 /\ WhitePixCnt * c[x] >= 0 /\ WhitePixCnt * c[x] \in Int
    BY <2>1
  <2> QED BY <2>1, <2>2, <2>3, ChannelIs
<1> QED BY <1>1, ChannelIs DEF White!SumOf

LEMMA GainInRange ==
  ASSUME NEW g \in Nat, NEW c \in Nat, NEW k \in White!gain0(g, c)
  PROVE  White!as_writedata(k) \in 0 .. 255
<1>1. k \in Nat
  <2>1. CASE c = 0
    BY <2>1, WhiteAssumption DEF White!gain0
  <2>2. CASE c # 0
    <3>1. g * 16 \in Nat /\ (g * 16) \div c \in Nat
      BY <2>2
    <3> QED BY <2>2, <3>1 DEF White!gain0
  <2> QED BY <2>1, <2>2
<1> QED BY <1>1 DEF White!as_writedata

LEMMA WhiteInit == White!Init => WhiteInv
<1> SUFFICES ASSUME White!Init PROVE WhiteInv
  OBVIOUS
<1>1. White!TypeOK
  BY ChannelIs DEF White!Init, White!TypeOK
<1>2. Progress
  BY DEF White!Init, Progress
<1> QED BY <1>1, <1>2 DEF WhiteInv

LEMMA ReadIInv ==
  ASSUME WhiteInv, NEW x \in White!Channel, NEW here, NEW next, White!Read(x, here, next),
         \/ x = "r" /\ here = "read_r" /\ next = "read_g"
         \/ x = "g" /\ here = "read_g" /\ next = "read_b"
         \/ x = "b" /\ here = "read_b" /\ next = "write_g"
  PROVE  WhiteInv'
<1>1. /\ wb_pc = here /\ wb_pc' = next /\ wb_read' = [wb_read EXCEPT ![x] = wb_sum[x]]
      /\ UNCHANGED <<wb_sum, wb_gain, wb_latest, wb_torn>>
  BY DEF White!Read
<1>2. wb_sum \in [White!Channel -> 0 .. 255 * WhitePixCnt] /\ wb_read \in [White!Channel -> 0 .. 255 * WhitePixCnt]
  BY DEF WhiteInv, White!TypeOK
<1>3. wb_read' \in [White!Channel -> 0 .. 255 * WhitePixCnt] /\ wb_read'[x] = wb_sum[x]
      /\ \A y \in White!Channel : y # x => wb_read'[y] = wb_read[y]
  BY <1>1, <1>2
<1>4. White!TypeOK'
  BY <1>1, <1>3 DEF WhiteInv, White!TypeOK
<1>5. \A y \in White!Channel : y # x /\ HasRead(y)' => HasRead(y)
  BY <1>1, ChannelIs DEF HasRead
<1>6. \A y \in {"r", "b"} : ~HasWritten(y)'
  BY <1>1 DEF HasWritten
<1>7. Progress'
  BY <1>1, <1>3, <1>5, <1>6 DEF WhiteInv, Progress
<1> QED BY <1>4, <1>7 DEF WhiteInv

LEMMA WriteGreenIInv == ASSUME WhiteInv, White!WriteGreen PROVE WhiteInv'
<1>1. /\ wb_pc = "write_g" /\ wb_pc' = "write_r" /\ wb_gain' = [wb_gain EXCEPT !["g"] = 16]
      /\ UNCHANGED <<wb_sum, wb_read, wb_latest, wb_torn>>
  BY DEF White!WriteGreen
<1>2. White!TypeOK'
  BY <1>1, ChannelIs DEF WhiteInv, White!TypeOK
<1>3. \A y \in White!Channel : HasRead(y)' => HasRead(y)
  BY <1>1, ChannelIs DEF HasRead
<1>4. \A y \in {"r", "b"} : ~HasWritten(y)'
  BY <1>1 DEF HasWritten
<1>5. Progress'
  BY <1>1, <1>3, <1>4 DEF WhiteInv, Progress
<1> QED BY <1>2, <1>5 DEF WhiteInv

LEMMA WriteGainIInv ==
  ASSUME WhiteInv, NEW x \in White!Channel, NEW here, NEW next, White!WriteGain(x, here, next),
         \/ x = "r" /\ here = "write_r" /\ next = "write_b"
         \/ x = "b" /\ here = "write_b" /\ next = "idle"
  PROVE  WhiteInv'
<1>1. /\ wb_pc = here /\ wb_pc' = next /\ UNCHANGED <<wb_sum, wb_read, wb_latest, wb_torn>>
  BY DEF White!WriteGain
<1>2. PICK k \in White!gain0(wb_read["g"], wb_read[x]) : wb_gain' = [wb_gain EXCEPT ![x] = White!as_writedata(k)]
  BY DEF White!WriteGain
<1>3. wb_read \in [White!Channel -> 0 .. 255 * WhitePixCnt] /\ wb_gain \in [White!Channel -> 0 .. 255] /\ "g" \in White!Channel
  BY ChannelIs DEF WhiteInv, White!TypeOK
<1>4. White!as_writedata(k) \in 0 .. 255
  <2>1. wb_read["g"] \in Nat /\ wb_read[x] \in Nat
    BY <1>3, ChannelIs
  <2> QED BY <2>1, GainInRange
<1>5. wb_gain' \in [White!Channel -> 0 .. 255] /\ wb_gain'[x] = White!as_writedata(k)
      /\ \A y \in White!Channel : y # x => wb_gain'[y] = wb_gain[y]
  BY <1>2, <1>3, <1>4
<1>6. White!TypeOK'
  BY <1>1, <1>5 DEF WhiteInv, White!TypeOK
<1>7. \A y \in White!Channel : HasRead(y)' => HasRead(y)
  BY <1>1, ChannelIs DEF HasRead
<1>8. \A y \in {"r", "b"} : y # x /\ HasWritten(y)' => HasWritten(y)
  BY <1>1 DEF HasWritten
<1>9. ~wb_torn => wb_read["g"] = wb_sum["g"] /\ wb_read[x] = wb_sum[x]
  <2>1. HasRead("g") /\ HasRead(x)
    BY <1>1 DEF HasRead
  <2> QED BY <2>1, <1>3 DEF WhiteInv, Progress
<1>10. Progress'
  <2> SUFFICES ASSUME ~wb_torn PROVE Progress'
    BY <1>1 DEF Progress
  <2>1. \A y \in White!Channel : HasRead(y)' => wb_read'[y] = wb_sum'[y]
    BY <1>1, <1>7 DEF WhiteInv, Progress
  <2>2. ASSUME NEW y \in {"r", "b"}, HasWritten(y)'
        PROVE  \E j \in White!gain0(wb_sum'["g"], wb_sum'[y]) : wb_gain'[y] = White!as_writedata(j)
    <3>1. CASE y = x
      BY <1>1, <1>2, <1>5, <1>9, <3>1
    <3>2. CASE y # x
      <4>1. \E j \in White!gain0(wb_sum["g"], wb_sum[y]) : wb_gain[y] = White!as_writedata(j)
        BY <1>8, <2>2, <3>2 DEF WhiteInv, Progress
      <4>2. wb_gain'[y] = wb_gain[y]
        BY <1>5, <3>2, ChannelIs
      <4> QED BY <1>1, <4>1, <4>2
    <3> QED BY <3>1, <3>2
  <2> QED BY <2>1, <2>2 DEF Progress
<1> QED BY <1>6, <1>10 DEF WhiteInv

LEMMA WhiteNext == ASSUME WhiteInv, [White!Next]_White!vars PROVE WhiteInv'
<1>1. CASE White!FrameEnd
  <2>1. /\ wb_latest' \in Colour /\ wb_sum' = White!SumOf(wb_latest') /\ wb_torn' = TRUE
        /\ UNCHANGED <<wb_read, wb_gain, wb_pc>>
    BY <1>1 DEF White!FrameEnd
  <2>2. wb_sum' \in [White!Channel -> 0 .. 255 * WhitePixCnt]
    BY <2>1, SumInRange
  <2> QED BY <2>1, <2>2 DEF WhiteInv, White!TypeOK, Progress
<1>2. CASE White!Call
  <2>1. wb_pc' = "read_r" /\ wb_torn' = FALSE /\ UNCHANGED <<wb_sum, wb_read, wb_gain, wb_latest>>
    BY <1>2 DEF White!Call
  <2>2. \A y \in White!Channel : ~HasRead(y)'
    BY <2>1, ChannelIs DEF HasRead
  <2>3. \A y \in {"r", "b"} : ~HasWritten(y)'
    BY <2>1 DEF HasWritten
  <2> QED BY <2>1, <2>2, <2>3 DEF WhiteInv, White!TypeOK, Progress
<1>3. CASE White!Read("r", "read_r", "read_g") \/ White!Read("g", "read_g", "read_b")
           \/ White!Read("b", "read_b", "write_g")
  BY <1>3, ReadIInv, ChannelIs
<1>4. CASE White!WriteGreen
  BY <1>4, WriteGreenIInv
<1>5. CASE White!WriteGain("r", "write_r", "write_b") \/ White!WriteGain("b", "write_b", "idle")
  BY <1>5, WriteGainIInv, ChannelIs
<1>6. CASE UNCHANGED White!vars
  BY <1>6 DEF White!vars, WhiteInv, White!TypeOK, Progress, HasRead, HasWritten
<1> QED BY <1>1, <1>2, <1>3, <1>4, <1>5, <1>6 DEF White!Next

(* A gain is the quotient of the colours, whatever the size of the frame.  *)
LEMMA SameQuotient ==
  ASSUME NEW n \in Nat \ {0}, NEW g \in Nat, NEW c \in Nat \ {0}
  PROVE  ((n * g) * 16) \div (n * c) = (g * 16) \div c
<1> DEFINE q == (g * 16) \div c
           r == (g * 16) % c
<1>1. q \in Nat /\ r \in 0 .. c - 1 /\ g * 16 = c * q + r
  OBVIOUS
<1>2. (n * g) * 16 = n * (g * 16) /\ n * (c * q + r) = (n * c) * q + n * r
  <2> HIDE DEF q, r
  <2> QED BY <1>1
<1>3. n * r \in Nat /\ n * c \in Nat /\ n * r < n * c
  <2> HIDE DEF q, r
  <2>1. n * c - n * r = n * (c - r) /\ n * (c - r) > 0
    BY <1>1
  <2> QED BY <1>1, <2>1
<1> HIDE DEF q, r
<1>4. (n * g) * 16 = (n * c) * q + n * r
  BY <1>1, <1>2
<1>5. ASSUME NEW d \in Nat \ {0}, NEW s \in 0 .. d - 1 PROVE (d * q + s) \div d = q
  BY <1>1, <1>5
<1>6. ((n * c) * q + n * r) \div (n * c) = q
  BY <1>1, <1>3, <1>5
<1> QED BY <1>4, <1>6 DEF q

(* The balanced channel comes within one step of the gain.                 *)
LEMMA GreyBalanced ==
  ASSUME NEW g \in 0 .. 255, NEW c \in 1 .. 255, (g * 16) \div c <= 255
  PROVE  LET v == White!Balance(c, (g * 16) \div c) IN v <= g /\ g - v <= c \div 16 + 1
<1> DEFINE q == (g * 16) \div c
           p == c * q
           v == p \div 16
<1>1. q \in 0 .. 255 /\ p \in Nat /\ p <= g * 16 /\ g * 16 < p + c
  OBVIOUS
<1> HIDE DEF q
<1>2. p \in Nat
  BY <1>1
<1> HIDE DEF p
<1>3. v \in Nat /\ 16 * v <= p /\ p <= 16 * v + 15
  BY <1>2
<1>4. White!Balance(c, q) = v
  BY <1>1, <1>3 DEF White!Balance, p
<1>5. v <= g
  BY <1>1, <1>3
<1>6. g - v <= c \div 16 + 1
  BY <1>1, <1>3
<1> QED BY <1>4, <1>5, <1>6 DEF q

LEMMA InvGrey == WhiteInv => White!GreyBecomesGrey
<1> SUFFICES ASSUME WhiteInv, White!Handled, NEW x \in {"r", "b"}, White!Quotient(x) <= 255
             PROVE  LET v == White!Balance(wb_latest[x], wb_gain[x])
                    IN  v <= wb_latest.g /\ wb_latest.g - v <= wb_latest[x] \div 16 + 1
  BY DEF White!GreyBecomesGrey
<1>1. ~wb_torn /\ wb_pc = "idle" /\ wb_latest \in Colour /\ wb_sum = White!SumOf(wb_latest) /\ White!White(wb_latest)
  BY DEF White!Handled, WhiteInv, White!TypeOK
<1>2. "g" \in White!Channel /\ x \in White!Channel
  BY ChannelIs
<1>3. wb_latest["g"] \in 1 .. 255 /\ wb_latest[x] \in 1 .. 255
  BY <1>1, <1>2, WhiteAssumption DEF White!White
<1>4. wb_sum["g"] = WhitePixCnt * wb_latest["g"] /\ wb_sum[x] = WhitePixCnt * wb_latest[x]
  BY <1>1, <1>2 DEF White!SumOf
<1>5. HasWritten(x)
  BY <1>1 DEF HasWritten
<1>6. PICK k \in White!gain0(wb_sum["g"], wb_sum[x]) : wb_gain[x] = White!as_writedata(k)
  BY <1>1, <1>5 DEF WhiteInv, Progress
<1>7. WhitePixCnt * wb_latest[x] # 0
  BY <1>3, WhiteAssumption
<1>8. k = ((WhitePixCnt * wb_latest["g"]) * 16) \div (WhitePixCnt * wb_latest[x])
  BY <1>4, <1>6, <1>7 DEF White!gain0
<1>9. k = (wb_latest["g"] * 16) \div wb_latest[x]
  <2>1. WhitePixCnt \in Nat \ {0} /\ wb_latest["g"] \in Nat /\ wb_latest[x] \in Nat \ {0}
    BY <1>3, WhiteAssumption
  <2>2. ((WhitePixCnt * wb_latest["g"]) * 16) \div (WhitePixCnt * wb_latest[x]) = (wb_latest["g"] * 16) \div wb_latest[x]
    BY <2>1, SameQuotient
  <2> QED BY <1>8, <2>2
<1>10. k \in Nat /\ k <= 255
  <2>1. White!Quotient(x) = (wb_latest["g"] * 16) \div wb_latest[x]
    BY DEF White!Quotient
  <2>2. ASSUME NEW g \in 1 .. 255, NEW c \in 1 .. 255 PROVE (g * 16) \div c \in Nat
    OBVIOUS
  <2>3. (wb_latest["g"] * 16) \div wb_latest[x] \in Nat
    BY <1>3, <2>2
  <2> QED BY <1>9, <2>1, <2>3
<1>11. wb_gain[x] = k
  BY <1>6, <1>10 DEF White!as_writedata
<1>12. LET v == White!Balance(wb_latest[x], (wb_latest["g"] * 16) \div wb_latest[x])
       IN  v <= wb_latest["g"] /\ wb_latest["g"] - v <= wb_latest[x] \div 16 + 1
  <2> DEFINE g == wb_latest["g"]
             c == wb_latest[x]
  <2>1. g \in 0 .. 255 /\ c \in 1 .. 255 /\ (g * 16) \div c <= 255
    BY <1>3, <1>9, <1>10
  <2> HIDE DEF g, c
  <2>2. LET v == White!Balance(c, (g * 16) \div c) IN v <= g /\ g - v <= c \div 16 + 1
    BY <2>1, GreyBalanced
  <2> QED BY <2>2 DEF g, c
<1> QED BY <1>9, <1>11, <1>12

-----------------------------------------------------------------------------
(* The two-wire bus.                                                       *)

(* Before the sensor has been reset nothing is known of it but that the    *)
(* clock does not fall.                                                    *)
PoweringUp ==
  /\ buff = <<>> /\ ret = 0
  /\ phase = "i2c_init" =>
       /\ data_dir["scl"] = 1 => data_out["scl"] = 1
       /\ step >= 2 => data_out["scl"] = 1
       /\ step >= 3 => data_out["sda"] = 1
       /\ step >= 4 => data_dir["scl"] = 1
       /\ step >= 5 => data_dir["sda"] = 1
  /\ phase = "cmos_poweron" =>
       /\ data_dir["scl"] = 1 /\ data_out["scl"] = 1 /\ data_dir["sda"] = 1 /\ data_out["sda"] = 1
       /\ step \in 3 .. 8 => data_out["rstn"] = 0
       /\ step >= 4 => data_dir["pwdn"] = 1
       /\ step >= 5 => data_dir["rstn"] = 1
       /\ step >= 7 => data_out["pwdn"] = 0
       /\ step = 9 => data_out["rstn"] = 1
       /\ step >= 5 => ~listening /\ ~wish /\ ~pull /\ regs = [r \in Bus!Reg |-> Unset]

(* Where the clock is high, and where the driver leaves the data wire to   *)
(* the sensor.                                                             *)
High == \/ phase = "idle"
        \/ phase = "start" /\ step <= 7
        \/ phase = "bit" /\ step \in 3 .. 4
        \/ phase = "ack" /\ step \in 3 .. 5
        \/ phase = "stop" /\ step >= 3
Yields == phase = "ack" /\ step \in 2 .. 6

BitOf(x, b) == (x \div 2^b) % 2

Ports ==
  /\ data_dir["scl"] = 1 /\ data_dir["pwdn"] = 1 /\ data_dir["rstn"] = 1
  /\ data_dir["sda"] = IF Yields THEN 0 ELSE 1
  /\ data_out["pwdn"] = 0 /\ data_out["rstn"] = 1
  /\ data_out["scl"] = IF High THEN 1 ELSE 0
  /\ phase = "idle" \/ (phase = "start" /\ step <= 5) \/ (phase = "stop" /\ step = 5)
       => data_out["sda"] = 1
  /\ (phase = "start" /\ step >= 6) \/ (phase = "stop" /\ step \in 2 .. 4)
       => data_out["sda"] = 0
  /\ phase = "bit" /\ step >= 2 => data_out["sda"] = BitOf(buff[byte], bit)

(* The sensor's answer to a byte is between the fall of the clock after    *)
(* its eighth bit and the fall of the clock after the acknowledge.         *)
Answering == (phase = "bit" /\ step = 5 /\ bit = 0) \/ (phase = "ack" /\ step <= 5)

Answer ==
  /\ wish <=> listening /\ Answering
  /\ phase \in {"idle", "start", "stop"} \/ (phase = "bit" /\ step <= 4) => ~pull
  /\ phase = "ack" /\ step <= 5 => pull = wish

(* The sensor has taken what the driver has sent.                          *)
Bits(x, b) == x \div 2^b
Position ==
  /\ phase = "idle" \/ (phase = "start" /\ step <= 5) \/ (phase = "stop" /\ step = 5)
       => ~listening
  /\ phase = "start" /\ step >= 6 => listening /\ count = 0 /\ shift = 0 /\ got = <<>>
  /\ listening /\ phase = "bit" /\ ~Answering =>
       /\ Len(got) = byte - 1 /\ \A i \in 1 .. byte - 1 : got[i] = buff[i]
       /\ count = IF step >= 3 THEN 8 - bit ELSE 7 - bit
       /\ shift = IF step >= 3 THEN Bits(buff[byte], bit) ELSE Bits(buff[byte], bit + 1)
  /\ listening /\ (phase = "ack" \/ (phase = "bit" /\ Answering)) =>
       /\ Len(got) = byte /\ \A i \in 1 .. byte : got[i] = buff[i]
       /\ count = 0 /\ shift = 0
  /\ listening /\ phase = "stop" => count = IF step <= 2 THEN 0 ELSE 1

(* The call: refused bytes are counted, and the value is stored with the   *)
(* fourth byte or not at all.                                              *)
Sent(w) == <<Bus!Address, w[1] \div 256, w[1] % 256, w[2]>>
Complete == phase = "stop" \/ (byte = 4 /\ (phase = "ack" \/ (phase = "bit" /\ Answering)))

Outcome ==
  /\ phase = "idle" <=> buff = <<>>
  /\ phase # "idle" => \E w \in Write : buff = Sent(w)
  /\ phase = "start" => ret = 0 /\ ~taken
  /\ phase \in {"bit", "ack"} /\ ~Complete => ~taken
  /\ Complete /\ phase \in {"bit", "ack"} => (taken <=> listening)
  /\ phase \in {"bit", "ack", "stop"} /\ ~(phase = "stop" /\ step = 5) =>
       /\ listening => ret = 0
       /\ ~listening => ret > 0 \/ (phase = "bit" /\ Answering) \/ (phase = "ack" /\ step <= 4)
  /\ phase = "stop" => (taken <=> ret = 0)
  /\ phase = "bit" \/ (phase = "ack" /\ step <= 4) => ret <= byte - 1
  /\ phase = "ack" => ret <= byte

BusTypes == Bus!TypeOK /\ (phase = "idle" => step = 1) /\ (ret \in 0 .. 4)
              /\ got \in Seq(Bus!Byte)

BusInv == /\ BusTypes
          /\ ~Bus!On => PoweringUp
          /\ Bus!On => Ports /\ Answer /\ Position /\ Outcome

-----------------------------------------------------------------------------
LEMMA PhaseIs ==
  /\ DOMAIN Bus!Program = {"i2c_init", "cmos_poweron", "start", "bit", "ack", "stop"}
  /\ Bus!Program["i2c_init"] = Bus!i2c_init /\ Bus!Program["cmos_poweron"] = Bus!cmos_poweron
  /\ Bus!Program["start"] = Bus!start /\ Bus!Program["bit"] = Bus!data_bit
  /\ Bus!Program["ack"] = Bus!ack /\ Bus!Program["stop"] = Bus!stop
BY DEF Bus!Program

LEMMA StartIs ==
  /\ Len(Bus!start) = 8 /\ DOMAIN Bus!start = 1 .. 8
  /\ Bus!start[1] = Bus!Set("scl", 1) /\ Bus!start[2] = Bus!Set("sda", 1)
  /\ Bus!start[3] = Bus!Out("sda")
  /\ Bus!start[4] = Bus!Delay /\ Bus!start[5] = Bus!Set("sda", 0) /\ Bus!start[6] = Bus!Delay
  /\ Bus!start[7] = Bus!Set("scl", 0) /\ Bus!start[8] = Bus!Delay
BY DEF Bus!start

LEMMA BitIs ==
  /\ Len(Bus!data_bit) = 5 /\ DOMAIN Bus!data_bit = 1 .. 5
  /\ Bus!data_bit[1] = Bus!SetBit /\ Bus!data_bit[2] = Bus!Set("scl", 1)
  /\ Bus!data_bit[3] = Bus!Delay
  /\ Bus!data_bit[4] = Bus!Set("scl", 0) /\ Bus!data_bit[5] = Bus!Delay
BY DEF Bus!data_bit

LEMMA AckIs ==
  /\ Len(Bus!ack) = 7 /\ DOMAIN Bus!ack = 1 .. 7
  /\ Bus!ack[1] = Bus!In("sda") /\ Bus!ack[2] = Bus!Set("scl", 1)
  /\ Bus!ack[3] = Bus!Delay /\ Bus!ack[4] = Bus!Get
  /\ Bus!ack[5] = Bus!Set("scl", 0) /\ Bus!ack[6] = Bus!Out("sda") /\ Bus!ack[7] = Bus!Delay
BY DEF Bus!ack

LEMMA StopIs ==
  /\ Len(Bus!stop) = 5 /\ DOMAIN Bus!stop = 1 .. 5
  /\ Bus!stop[1] = Bus!Set("sda", 0) /\ Bus!stop[2] = Bus!Set("scl", 1) /\ Bus!stop[3] = Bus!Delay
  /\ Bus!stop[4] = Bus!Set("sda", 1) /\ Bus!stop[5] = Bus!Delay
BY DEF Bus!stop

LEMMA InitIs ==
  /\ Len(Bus!i2c_init) = 5 /\ DOMAIN Bus!i2c_init = 1 .. 5
  /\ Bus!i2c_init[1] = Bus!Set("scl", 1) /\ Bus!i2c_init[2] = Bus!Set("sda", 1)
  /\ Bus!i2c_init[3] = Bus!Out("scl")
  /\ Bus!i2c_init[4] = Bus!Out("sda") /\ Bus!i2c_init[5] = Bus!Delay
BY DEF Bus!i2c_init

LEMMA PoweronIs ==
  /\ Len(Bus!cmos_poweron) = 9 /\ DOMAIN Bus!cmos_poweron = 1 .. 9
  /\ Bus!cmos_poweron[1] = Bus!Set("pwdn", 1) /\ Bus!cmos_poweron[2] = Bus!Set("rstn", 0)
  /\ Bus!cmos_poweron[3] = Bus!Out("pwdn") /\ Bus!cmos_poweron[4] = Bus!Out("rstn")
  /\ Bus!cmos_poweron[5] = Bus!Delay
  /\ Bus!cmos_poweron[6] = Bus!Set("pwdn", 0) /\ Bus!cmos_poweron[7] = Bus!Delay
  /\ Bus!cmos_poweron[8] = Bus!Set("rstn", 1) /\ Bus!cmos_poweron[9] = Bus!Delay
BY DEF Bus!cmos_poweron

(* The kinds of statements.                                                *)
Sets(p, x) == data_out' = [Bus!data_in EXCEPT ![p] = x] /\ data_dir' = data_dir /\ ret' = ret
Turns(p, x) == data_dir' = [data_dir EXCEPT ![p] = x] /\ data_out' = data_out /\ ret' = ret
Waits == pull = wish /\ data_out' = data_out /\ data_dir' = data_dir /\ ret' = ret
Samples == ret' = ret + Bus!sda /\ data_out' = data_out /\ data_dir' = data_dir

LEMMA StatementIs ==
  ASSUME Bus!Statement, NEW s, s = Bus!Program[phase][step]
  PROVE  /\ \A p \in Bus!Pin : \A x \in 0 .. 1 : s = Bus!Set(p, x) => Sets(p, x)
         /\ \A p \in Bus!Pin : s = Bus!Out(p) => Turns(p, 1)
         /\ \A p \in Bus!Pin : s = Bus!In(p) => Turns(p, 0)
         /\ s = Bus!Delay => Waits
         /\ s = Bus!Get => Samples
         /\ s = Bus!SetBit => Sets("sda", (buff[byte] \div 2^bit) % 2)
         /\ phase # "idle" /\ UNCHANGED <<floating, writes, restarts>>
         /\ pull' = (pull /\ Bus!rstn' = 1) /\ Bus!SensorSees /\ Bus!Advance
<1>1. /\ phase # "idle" /\ UNCHANGED <<floating, writes, restarts>>
      /\ pull' = (pull /\ Bus!rstn' = 1) /\ Bus!SensorSees /\ Bus!Advance
  BY DEF Bus!Statement
<1>2. \/ s.op = "set" /\ Bus!WriteData(s.pin, s.value) /\ UNCHANGED <<data_dir, ret>>
      \/ s.op = "bit" /\ Bus!WriteData("sda", (buff[byte] \div 2^bit) % 2)
         /\ UNCHANGED <<data_dir, ret>>
      \/ s.op = "dir" /\ data_dir' = [data_dir EXCEPT ![s.pin] = s.value]
         /\ UNCHANGED <<data_out, ret>>
      \/ s.op = "get" /\ ret' = ret + Bus!sda /\ UNCHANGED Bus!port_vars
      \/ s.op = "delay" /\ pull = wish /\ UNCHANGED <<Bus!port_vars, ret>>
  BY DEF Bus!Statement
<1>3. \A p \in Bus!Pin : \A x \in 0 .. 1 : s = Bus!Set(p, x) => Sets(p, x)
  BY <1>2 DEF Bus!Set, Sets, Bus!WriteData
<1>4. \A p \in Bus!Pin : s = Bus!Out(p) => Turns(p, 1)
  BY <1>2 DEF Bus!Out, Turns
<1>5. \A p \in Bus!Pin : s = Bus!In(p) => Turns(p, 0)
  BY <1>2 DEF Bus!In, Turns
<1>6. s = Bus!Delay => Waits
  BY <1>2 DEF Bus!Delay, Waits, Bus!port_vars
<1>7. s = Bus!Get => Samples
  BY <1>2 DEF Bus!Get, Samples, Bus!port_vars
<1>8. s = Bus!SetBit => Sets("sda", (buff[byte] \div 2^bit) % 2)
  BY <1>2 DEF Bus!SetBit, Sets, Bus!WriteData
<1> QED BY <1>1, <1>3, <1>4, <1>5, <1>6, <1>7, <1>8

-----------------------------------------------------------------------------
(* The wires and the sensor.                                               *)

LEMMA WiresAre ==
  ASSUME BusInv
  PROVE  /\ Bus!scl \in 0 .. 1 /\ Bus!sda \in 0 .. 1 /\ Bus!pwdn \in 0 .. 1 /\ Bus!rstn \in 0 .. 1
         /\ Bus!On => /\ Bus!scl = (IF High THEN 1 ELSE 0) /\ Bus!pwdn = 0 /\ Bus!rstn = 1
                      /\ Bus!sda = IF Yields THEN (IF pull THEN 0 ELSE 1) ELSE data_out["sda"]
         /\ data_dir \in [Bus!Pin -> 0 .. 1] /\ data_out \in [Bus!Pin -> 0 .. 1]
         /\ Bus!data_in \in [Bus!Pin -> 0 .. 1]
         /\ Bus!data_in["scl"] = Bus!scl /\ Bus!data_in["sda"] = Bus!sda
         /\ Bus!data_in["pwdn"] = Bus!pwdn /\ Bus!data_in["rstn"] = Bus!rstn
         /\ Bus!Pin = {"scl", "sda", "pwdn", "rstn"}
<1>1. /\ data_dir \in [Bus!Pin -> 0 .. 1] /\ data_out \in [Bus!Pin -> 0 .. 1]
      /\ floating \in [{"pwdn", "rstn"} -> 0 .. 1] /\ Bus!Pin = {"scl", "sda", "pwdn", "rstn"}
  BY DEF BusInv, BusTypes, Bus!TypeOK, Bus!Pin
<1>2. Bus!scl \in 0 .. 1 /\ Bus!sda \in 0 .. 1 /\ Bus!pwdn \in 0 .. 1 /\ Bus!rstn \in 0 .. 1
  BY <1>1 DEF Bus!scl, Bus!sda, Bus!pwdn, Bus!rstn
<1>3. Bus!On => /\ Bus!scl = (IF High THEN 1 ELSE 0) /\ Bus!pwdn = 0 /\ Bus!rstn = 1
                /\ Bus!sda = IF Yields THEN (IF pull THEN 0 ELSE 1) ELSE data_out["sda"]
  BY DEF BusInv, Ports, Bus!scl, Bus!sda, Bus!pwdn, Bus!rstn
<1>4. /\ Bus!data_in \in [Bus!Pin -> 0 .. 1]
      /\ Bus!data_in["scl"] = Bus!scl /\ Bus!data_in["sda"] = Bus!sda
      /\ Bus!data_in["pwdn"] = Bus!pwdn /\ Bus!data_in["rstn"] = Bus!rstn
  BY <1>1, <1>2 DEF Bus!data_in
<1> QED BY <1>1, <1>2, <1>3, <1>4

Quiet == UNCHANGED <<listening, count, shift, got, wish, regs, taken>>

(* What the sensor makes of each change of the wires while it is up.       *)
LEMMA SensorIs ==
  ASSUME Bus!SensorSees, Bus!rstn' = 1, Bus!pwdn' = 0
  PROVE  /\ ~Bus!Started /\ ~Bus!Stopped /\ ~(Bus!Rises /\ listening /\ ~wish)
            /\ ~(Bus!Falls /\ listening /\ (count = 8 \/ wish)) => Quiet
         /\ Bus!Started => /\ listening' = TRUE /\ count' = 0 /\ shift' = 0 /\ got' = <<>>
                           /\ UNCHANGED <<wish, regs, taken>>
         /\ Bus!Stopped => listening' = FALSE /\ UNCHANGED <<count, shift, got, wish, regs, taken>>
         /\ Bus!Rises /\ listening /\ ~wish =>
              /\ count' = count + 1 /\ shift' = (2 * shift + Bus!sda') % 256
              /\ UNCHANGED <<listening, got, wish, regs, taken>>
         /\ Bus!Falls /\ listening /\ count = 8 /\ ~wish =>
              count' = 0 /\ shift' = 0 /\ (Bus!Accept \/ Bus!Refuse)
         /\ Bus!Falls /\ listening /\ wish /\ count # 8 =>
              wish' = FALSE /\ UNCHANGED <<listening, count, shift, got, regs, taken>>
<1>1. ~(Bus!Started /\ Bus!Stopped) /\ ~(Bus!Started /\ Bus!Rises) /\ ~(Bus!Started /\ Bus!Falls) /\ ~(Bus!Stopped /\ Bus!Rises)
      /\ ~(Bus!Stopped /\ Bus!Falls) /\ ~(Bus!Rises /\ Bus!Falls)
  BY DEF Bus!Started, Bus!Stopped, Bus!Rises, Bus!Falls
<1>2. /\ Bus!Started => /\ listening' = TRUE /\ count' = 0 /\ shift' = 0 /\ got' = <<>>
                        /\ UNCHANGED <<wish, regs, taken>>
      /\ Bus!Stopped => listening' = FALSE /\ UNCHANGED <<count, shift, got, wish, regs, taken>>
  BY <1>1 DEF Bus!SensorSees
<1>3. Bus!Rises /\ listening /\ ~wish =>
                  /\ count' = count + 1 /\ shift' = (2 * shift + Bus!sda') % 256
                  /\ UNCHANGED <<listening, got, wish, regs, taken>>
  <2> SUFFICES ASSUME Bus!Rises, listening, ~wish
               PROVE  /\ count' = count + 1 /\ shift' = (2 * shift + Bus!sda') % 256
                      /\ UNCHANGED <<listening, got, wish, regs, taken>>
    OBVIOUS
  <2>1. ~Bus!Started /\ ~Bus!Stopped /\ ~Bus!Falls /\ Bus!rstn' # 0
    BY <1>1
  <2> QED BY <2>1 DEF Bus!SensorSees
<1>4. /\ Bus!Falls /\ listening /\ count = 8 /\ ~wish =>
                  count' = 0 /\ shift' = 0 /\ (Bus!Accept \/ Bus!Refuse)
      /\ Bus!Falls /\ listening /\ wish /\ count # 8 =>
                  wish' = FALSE /\ UNCHANGED <<listening, count, shift, got, regs, taken>>
  BY <1>1 DEF Bus!SensorSees
<1>5. ~Bus!Started /\ ~Bus!Stopped /\ ~(Bus!Rises /\ listening /\ ~wish)
      /\ ~(Bus!Falls /\ listening /\ (count = 8 \/ wish)) => Quiet
  BY DEF Bus!SensorSees, Quiet
<1> QED BY <1>2, <1>3, <1>4, <1>5

(* The port after each kind of statement, while the sensor is up.          *)
LEMMA PortIs ==
  ASSUME BusInv, Bus!On, pull' = (pull /\ Bus!rstn' = 1), UNCHANGED floating
  PROVE  /\ \A x \in 0 .. 1 : Sets("scl", x) =>
              /\ data_dir' = data_dir /\ data_out' \in [Bus!Pin -> 0 .. 1]
              /\ data_out'["scl"] = x /\ data_out'["sda"] = Bus!sda
              /\ data_out'["pwdn"] = 0 /\ data_out'["rstn"] = 1
              /\ Bus!scl' = x /\ Bus!sda' = Bus!sda /\ Bus!pwdn' = 0 /\ Bus!rstn' = 1
              /\ pull' = pull
         /\ \A x \in 0 .. 1 : Sets("sda", x) /\ ~Yields =>
              /\ data_dir' = data_dir /\ data_out' \in [Bus!Pin -> 0 .. 1]
              /\ data_out'["scl"] = Bus!scl /\ data_out'["sda"] = x
              /\ data_out'["pwdn"] = 0 /\ data_out'["rstn"] = 1
              /\ Bus!scl' = Bus!scl /\ Bus!sda' = x /\ Bus!pwdn' = 0 /\ Bus!rstn' = 1
              /\ pull' = pull
         /\ \A x \in 0 .. 1 : Turns("sda", x) =>
              /\ data_out' = data_out /\ data_dir' \in [Bus!Pin -> 0 .. 1]
              /\ data_dir'["scl"] = 1 /\ data_dir'["sda"] = x
              /\ data_dir'["pwdn"] = 1 /\ data_dir'["rstn"] = 1
              /\ Bus!scl' = Bus!scl /\ Bus!pwdn' = 0 /\ Bus!rstn' = 1 /\ pull' = pull
              /\ Bus!sda' = IF x = 1 THEN data_out["sda"] ELSE IF pull THEN 0 ELSE 1
         /\ data_out' = data_out /\ data_dir' = data_dir =>
              Bus!scl' = Bus!scl /\ Bus!sda' = Bus!sda /\ Bus!pwdn' = 0 /\ Bus!rstn' = 1 /\ pull' = pull
<1> USE WiresAre
<1>1. /\ data_dir["scl"] = 1 /\ data_dir["pwdn"] = 1 /\ data_dir["rstn"] = 1
      /\ data_out["pwdn"] = 0 /\ data_out["rstn"] = 1
      /\ data_dir["sda"] = IF Yields THEN 0 ELSE 1
      /\ data_out["scl"] = Bus!scl /\ pull \in BOOLEAN
  BY DEF BusInv, Ports, BusTypes, Bus!TypeOK
<1>2. ASSUME NEW x \in 0 .. 1, Sets("scl", x)
      PROVE  /\ data_dir' = data_dir /\ data_out' \in [Bus!Pin -> 0 .. 1]
             /\ data_out'["scl"] = x /\ data_out'["sda"] = Bus!sda
             /\ data_out'["pwdn"] = 0 /\ data_out'["rstn"] = 1
             /\ Bus!scl' = x /\ Bus!sda' = Bus!sda /\ Bus!pwdn' = 0 /\ Bus!rstn' = 1 /\ pull' = pull
  <2>1. /\ data_dir' = data_dir /\ data_out' \in [Bus!Pin -> 0 .. 1]
        /\ data_out'["scl"] = x /\ data_out'["sda"] = Bus!sda
        /\ data_out'["pwdn"] = 0 /\ data_out'["rstn"] = 1
    BY <1>2 DEF Sets
  <2>2. Bus!scl' = x /\ Bus!pwdn' = 0 /\ Bus!rstn' = 1
    BY <1>1, <2>1 DEF Bus!scl, Bus!pwdn, Bus!rstn
  <2>3. pull' = pull
    BY <1>1, <2>2
  <2>4. Bus!sda' = Bus!sda
    BY <2>1, <2>3 DEF Bus!sda
  <2> QED BY <2>1, <2>2, <2>3, <2>4
<1>3. ASSUME NEW x \in 0 .. 1, Sets("sda", x), ~Yields
      PROVE  /\ data_dir' = data_dir /\ data_out' \in [Bus!Pin -> 0 .. 1]
             /\ data_out'["scl"] = Bus!scl /\ data_out'["sda"] = x
             /\ data_out'["pwdn"] = 0 /\ data_out'["rstn"] = 1
             /\ Bus!scl' = Bus!scl /\ Bus!sda' = x /\ Bus!pwdn' = 0 /\ Bus!rstn' = 1 /\ pull' = pull
  <2>1. /\ data_dir' = data_dir /\ data_out' \in [Bus!Pin -> 0 .. 1]
        /\ data_out'["scl"] = Bus!scl /\ data_out'["sda"] = x
        /\ data_out'["pwdn"] = 0 /\ data_out'["rstn"] = 1
    BY <1>3 DEF Sets
  <2>2. Bus!scl' = Bus!scl /\ Bus!pwdn' = 0 /\ Bus!rstn' = 1
    BY <1>1, <2>1 DEF Bus!scl, Bus!pwdn, Bus!rstn
  <2>3. pull' = pull
    BY <1>1, <2>2
  <2>4. Bus!sda' = x
    BY <1>1, <1>3, <2>1 DEF Bus!sda
  <2> QED BY <2>1, <2>2, <2>3, <2>4
<1>4. ASSUME NEW x \in 0 .. 1, Turns("sda", x)
      PROVE  /\ data_out' = data_out /\ data_dir' \in [Bus!Pin -> 0 .. 1]
             /\ data_dir'["scl"] = 1 /\ data_dir'["sda"] = x
             /\ data_dir'["pwdn"] = 1 /\ data_dir'["rstn"] = 1
             /\ Bus!scl' = Bus!scl /\ Bus!pwdn' = 0 /\ Bus!rstn' = 1 /\ pull' = pull
             /\ Bus!sda' = IF x = 1 THEN data_out["sda"] ELSE IF pull THEN 0 ELSE 1
  <2>1. /\ data_out' = data_out /\ data_dir' \in [Bus!Pin -> 0 .. 1]
        /\ data_dir'["scl"] = 1 /\ data_dir'["sda"] = x
        /\ data_dir'["pwdn"] = 1 /\ data_dir'["rstn"] = 1
    BY <1>1, <1>4 DEF Turns
  <2>2. Bus!scl' = Bus!scl /\ Bus!pwdn' = 0 /\ Bus!rstn' = 1
    BY <1>1, <2>1 DEF Bus!scl, Bus!pwdn, Bus!rstn
  <2>3. pull' = pull
    BY <1>1, <2>2
  <2>4. Bus!sda' = IF x = 1 THEN data_out["sda"] ELSE IF pull THEN 0 ELSE 1
    BY <2>1, <2>3 DEF Bus!sda
  <2> QED BY <2>1, <2>2, <2>3, <2>4
<1>5. ASSUME data_out' = data_out, data_dir' = data_dir
      PROVE  Bus!scl' = Bus!scl /\ Bus!sda' = Bus!sda /\ Bus!pwdn' = 0 /\ Bus!rstn' = 1 /\ pull' = pull
  <2>1. Bus!scl' = Bus!scl /\ Bus!pwdn' = 0 /\ Bus!rstn' = 1
    BY <1>1, <1>5 DEF Bus!scl, Bus!pwdn, Bus!rstn
  <2>2. pull' = pull
    BY <1>1, <2>1
  <2> QED BY <1>5, <2>1, <2>2 DEF Bus!sda
<1> QED BY <1>2, <1>3, <1>4, <1>5

(* The sensor's registers stay in range as long as no byte gets a ninth    *)
(* bit and no call a fifth byte.                                           *)
LEMMA SensorInRange ==
  ASSUME BusTypes, Bus!SensorSees,
         Bus!Rises /\ listening /\ ~wish => count <= 7,
         Bus!Falls /\ listening /\ count = 8 => Len(got) <= 3,
         data_dir' \in [Bus!Pin -> 0 .. 1], data_out' \in [Bus!Pin -> 0 .. 1]
  PROVE  /\ listening' \in BOOLEAN /\ count' \in 0 .. 8 /\ shift' \in Bus!Byte
         /\ Len(got') \in 0 .. 4 /\ wish' \in BOOLEAN
         /\ regs' \in [Bus!Reg -> Bus!Byte \union {Unset}] /\ taken' \in BOOLEAN
         /\ got' \in Seq(Bus!Byte)
<1>a. /\ listening \in BOOLEAN /\ count \in 0 .. 8 /\ shift \in Bus!Byte
      /\ Len(got) \in 0 .. 4 /\ pull \in BOOLEAN /\ wish \in BOOLEAN
      /\ regs \in [Bus!Reg -> Bus!Byte \union {Unset}] /\ taken \in BOOLEAN /\ got \in Seq(Bus!Byte)
      /\ Bus!SensorSees
  BY DEF BusTypes, Bus!TypeOK
<1> DEFINE Ranges == /\ listening' \in BOOLEAN /\ count' \in 0 .. 8 /\ shift' \in Bus!Byte
                     /\ Len(got') \in 0 .. 4 /\ wish' \in BOOLEAN
                     /\ regs' \in [Bus!Reg -> Bus!Byte \union {Unset}] /\ taken' \in BOOLEAN
                     /\ got' \in Seq(Bus!Byte)
           Drops == /\ Bus!rstn' = 0
                    /\ listening' = FALSE /\ count' = 0 /\ shift' = 0 /\ got' = <<>>
                    /\ wish' = FALSE /\ regs' = [r \in Bus!Reg |-> Unset] /\ UNCHANGED taken
           Begins == /\ listening' = TRUE /\ count' = 0 /\ shift' = 0 /\ got' = <<>>
                     /\ UNCHANGED <<wish, regs, taken>>
           Ends == listening' = FALSE /\ UNCHANGED <<count, shift, got, wish, regs, taken>>
           Shifts == /\ Bus!Rises /\ listening /\ ~wish
                     /\ count' = count + 1 /\ shift' = (2 * shift + Bus!sda') % 256
                     /\ UNCHANGED <<listening, got, wish, regs, taken>>
           Accepts == Bus!Falls /\ listening /\ count = 8 /\ count' = 0 /\ shift' = 0 /\ Bus!Accept
           Refuses == count' = 0 /\ shift' = 0 /\ Bus!Refuse
           Releases == wish' = FALSE /\ UNCHANGED <<listening, count, shift, got, regs, taken>>
           Rests == UNCHANGED <<listening, count, shift, got, wish, regs, taken>>
<1>0. <<>> \in Seq(Bus!Byte) /\ Len(<<>>) = 0 /\ 0 \in Bus!Byte /\ 0 \in 0 .. 4 /\ 0 \in 0 .. 8
  BY DEF Bus!Byte
<1>1. ASSUME Drops PROVE Ranges
  <2>1. regs' \in [Bus!Reg -> Bus!Byte \union {Unset}]
    BY <1>1
  <2>2. /\ listening' = FALSE /\ count' = 0 /\ shift' = 0 /\ got' = <<>> /\ wish' = FALSE
        /\ taken' = taken
    BY <1>1
  <2>3. Len(got') \in 0 .. 4 /\ got' \in Seq(Bus!Byte)
    BY <1>0, <1>a, <2>2
  <2> QED BY <1>a, <1>0, <2>1, <2>2, <2>3
<1>2. ASSUME Begins PROVE Ranges
  BY <1>a, <1>0, <1>2
<1>3. ASSUME Ends PROVE Ranges
  BY <1>0, <1>a, <1>3
<1>4. ASSUME Shifts PROVE Ranges
  <2>1. count' \in 0 .. 8
    BY <1>0, <1>a, <1>4
  <2>2. Bus!sda' \in 0 .. 1
    BY <1>0, <1>a DEF Bus!sda, Bus!Pin
  <2>3. shift' \in Bus!Byte
    <3>1. ASSUME NEW n \in Int PROVE n % 256 \in 0 .. 255
      OBVIOUS
    <3>2. 2 * shift + Bus!sda' \in Int
      BY <1>0, <1>a, <2>2 DEF Bus!Byte
    <3> QED BY <1>4, <3>1, <3>2 DEF Bus!Byte
  <2> QED BY <1>0, <1>a, <1>4, <2>1, <2>3
<1>5. ASSUME Accepts PROVE Ranges
  <2>1. Len(got) <= 3
    BY <1>5
  <2>2. /\ got' = Append(got, shift) /\ wish' = TRUE /\ listening' = listening
        /\ (regs' = regs \/ \E r \in Bus!Reg : regs' = [regs EXCEPT ![r] = shift])
    BY <1>5 DEF Bus!Accept
  <2>3. taken' \in BOOLEAN
    BY <1>5, <1>0, <1>a DEF Bus!Accept
  <2>4. got' \in Seq(Bus!Byte) /\ Len(got') = Len(got) + 1
    BY <1>0, <1>a, <2>2
  <2>5. regs' \in [Bus!Reg -> Bus!Byte \union {Unset}]
    BY <1>0, <1>a, <2>2
  <2>6. Len(got') \in 0 .. 4
    BY <1>0, <1>a, <2>1, <2>4
  <2>7. count' = 0 /\ shift' = 0
    BY <1>5
  <2> QED BY <1>a, <1>0, <2>2, <2>3, <2>4, <2>5, <2>6, <2>7
<1>6. ASSUME Refuses PROVE Ranges
  BY <1>a, <1>0, <1>6 DEF Bus!Refuse
<1>7. ASSUME Releases PROVE Ranges
  BY <1>0, <1>a, <1>7
<1>8. ASSUME Rests PROVE Ranges
  BY <1>0, <1>a, <1>8
<1>9. Drops \/ Begins \/ Ends \/ Shifts \/ Accepts \/ Refuses \/ Releases \/ Rests
  BY <1>0, <1>a DEF Bus!SensorSees
<1>10. Ranges
  <2> HIDE DEF Ranges, Drops, Begins, Ends, Shifts, Accepts, Refuses, Releases, Rests
  <2> QED BY <1>1, <1>2, <1>3, <1>4, <1>5, <1>6, <1>7, <1>8, <1>9
<1> QED BY <1>10

(* Types: the sensor's counts are bounded by what the driver sends.        *)
LEMMA TypesStep ==
  ASSUME BusTypes, Bus!Statement, ret' \in 0 .. 4,
         Bus!Rises /\ listening /\ ~wish => count <= 7,
         Bus!Falls /\ listening /\ count = 8 => Len(got) <= 3,
         data_dir' \in [Bus!Pin -> 0 .. 1], data_out' \in [Bus!Pin -> 0 .. 1]
  PROVE  BusTypes'
<1>1. /\ phase \in DOMAIN Bus!Program /\ step \in DOMAIN Bus!Program[phase]
      /\ byte \in 1 .. 4 /\ bit \in 0 .. 7 /\ (buff = <<>> \/ buff \in [1 .. 4 -> Bus!Byte])
      /\ listening \in BOOLEAN /\ count \in 0 .. 8 /\ shift \in Bus!Byte
      /\ Len(got) \in 0 .. 4 /\ pull \in BOOLEAN /\ wish \in BOOLEAN
      /\ regs \in [Bus!Reg -> Bus!Byte \union {Unset}] /\ taken \in BOOLEAN /\ got \in Seq(Bus!Byte)
      /\ floating' = floating /\ writes' = writes /\ restarts' = restarts
      /\ pull' = (pull /\ Bus!rstn' = 1) /\ Bus!SensorSees /\ Bus!Advance
  BY DEF Bus!Statement, BusTypes, Bus!TypeOK
<1>2. /\ phase' \in DOMAIN Bus!Program \union {"idle"}
      /\ phase' # "idle" => step' \in DOMAIN Bus!Program[phase']
      /\ phase' = "idle" => step' = 1
      /\ byte' \in 1 .. 4 /\ bit' \in 0 .. 7 /\ (buff' = <<>> \/ buff' \in [1 .. 4 -> Bus!Byte])
  <2>1. CASE step < Len(Bus!Program[phase])
    <3>1. step' = step + 1 /\ UNCHANGED <<phase, byte, bit, buff>>
      BY <1>1, <2>1 DEF Bus!Advance
    <3>2. Bus!Program[phase] \in {Bus!i2c_init, Bus!cmos_poweron, Bus!start, Bus!data_bit, Bus!ack, Bus!stop}
      BY <1>1, PhaseIs
    <3>3. step + 1 \in DOMAIN Bus!Program[phase]
      BY <1>1, <2>1, <3>2, StartIs, BitIs, AckIs, StopIs, InitIs, PoweronIs
    <3> QED BY <1>1, <3>1, <3>3, PhaseIs
  <2>2. CASE ~(step < Len(Bus!Program[phase]))
    <3>1. /\ phase' \in DOMAIN Bus!Program \union {"idle"} /\ step' = 1
          /\ byte' \in 1 .. 4 /\ bit' \in 0 .. 7 /\ (buff' = <<>> \/ buff' = buff)
      BY <1>1, <2>2, PhaseIs DEF Bus!Advance, Bus!Goto
    <3>2. \A p \in DOMAIN Bus!Program : 1 \in DOMAIN Bus!Program[p]
      BY PhaseIs, StartIs, BitIs, AckIs, StopIs, InitIs, PoweronIs
    <3> QED BY <1>1, <3>1, <3>2
  <2> QED BY <2>1, <2>2
<1>3. /\ listening' \in BOOLEAN /\ count' \in 0 .. 8 /\ shift' \in Bus!Byte
      /\ Len(got') \in 0 .. 4 /\ wish' \in BOOLEAN
      /\ regs' \in [Bus!Reg -> Bus!Byte \union {Unset}] /\ taken' \in BOOLEAN
      /\ got' \in Seq(Bus!Byte)
  BY <1>1, SensorInRange
<1>4. pull' \in BOOLEAN
  BY <1>1
<1>5. /\ floating' \in [{"pwdn", "rstn"} -> 0 .. 1]
      /\ writes' \in 0 .. MaxWrites /\ restarts' \in 0 .. MaxRestarts
  BY <1>1 DEF BusTypes, Bus!TypeOK
<1>6. Bus!TypeOK'
  BY <1>2, <1>3, <1>4, <1>5 DEF Bus!TypeOK
<1> QED BY <1>2, <1>3, <1>6 DEF BusTypes

(* A byte is its higher bits and the next one.                             *)
LEMMA NextBit ==
  ASSUME NEW x \in Bus!Byte, NEW b \in 0 .. 7
  PROVE  /\ BitOf(x, b) \in 0 .. 1 /\ Bits(x, b) \in 0 .. 255 /\ Bits(x, b + 1) \in 0 .. 127
         /\ Bits(x, b) = 2 * Bits(x, b + 1) + BitOf(x, b)
         /\ Bits(x, 0) = x /\ Bits(x, 8) = 0
<1>1. /\ 2^0 = 1 /\ 2^1 = 2 /\ 2^2 = 4 /\ 2^3 = 8 /\ 2^4 = 16 /\ 2^5 = 32 /\ 2^6 = 64
      /\ 2^7 = 128 /\ 2^8 = 256
  OBVIOUS
<1>2. x \in 0 .. 255
  BY DEF Bus!Byte
<1>3. Bits(x, 0) = x /\ Bits(x, 8) = 0
  BY <1>1, <1>2 DEF Bits
<1>4. CASE b = 0
  BY <1>1, <1>2, <1>3, <1>4 DEF Bits, BitOf
<1>5. CASE b = 1
  BY <1>1, <1>2, <1>3, <1>5 DEF Bits, BitOf
<1>6. CASE b = 2
  BY <1>1, <1>2, <1>3, <1>6 DEF Bits, BitOf
<1>7. CASE b = 3
  BY <1>1, <1>2, <1>3, <1>7 DEF Bits, BitOf
<1>8. CASE b = 4
  BY <1>1, <1>2, <1>3, <1>8 DEF Bits, BitOf
<1>9. CASE b = 5
  BY <1>1, <1>2, <1>3, <1>9 DEF Bits, BitOf
<1>10. CASE b = 6
  BY <1>1, <1>2, <1>3, <1>10 DEF Bits, BitOf
<1>11. CASE b = 7
  BY <1>1, <1>2, <1>3, <1>11 DEF Bits, BitOf
<1> QED BY <1>4, <1>5, <1>6, <1>7, <1>8, <1>9, <1>10, <1>11

(* The data wire under a high clock.                                       *)
Steady == Bus!scl = 1 /\ Bus!scl' = 1 /\ Bus!sda' # Bus!sda
            => (phase = "start" /\ Bus!sda' = 0) \/ (phase = "stop" /\ Bus!sda' = 1)

(* The call of START: the sensor listens from the fall of the data wire.   *)
LEMMA StartStep ==
  ASSUME BusInv, Bus!Statement, phase = "start"
  PROVE  BusInv' /\ Bus!On' /\ Steady /\ UNCHANGED <<buff, regs, taken>>
<1> DEFINE s == Bus!Program[phase][step]
<1>1. Bus!On /\ Bus!On' /\ BusTypes /\ Ports /\ Answer /\ Position /\ Outcome
  <2>1. Bus!On /\ step \in 1 .. 8 /\ BusTypes
    BY PhaseIs, StartIs DEF Bus!On, BusInv, BusTypes, Bus!TypeOK
  <2>2. phase' \in {"start", "bit"}
    BY PhaseIs, StartIs, StatementIs DEF Bus!Advance, Bus!Goto
  <2> QED BY <2>1, <2>2 DEF BusInv, Bus!On
<1>2. /\ step \in 1 .. 8 /\ s = Bus!start[step]
      /\ ~wish /\ ~pull /\ ret = 0 /\ ~taken /\ ret \in 0 .. 4 /\ wish \in BOOLEAN
      /\ pull \in BOOLEAN
      /\ listening \in BOOLEAN
  <2>1. step \in 1 .. 8 /\ s = Bus!start[step]
    BY <1>1, PhaseIs, StartIs DEF BusTypes, Bus!TypeOK
  <2>2. ~wish /\ ~pull /\ ret = 0 /\ ~taken
    BY <1>1 DEF Answer, Answering, Outcome
  <2>3. ret \in 0 .. 4 /\ wish \in BOOLEAN /\ pull \in BOOLEAN /\ listening \in BOOLEAN
    BY <1>1 DEF BusTypes, Bus!TypeOK
  <2> QED BY <2>1, <2>2, <2>3
<1>3. /\ step < 8 => phase' = "start" /\ step' = step + 1 /\ UNCHANGED <<byte, bit, buff>>
      /\ step = 8 => phase' = "bit" /\ step' = 1 /\ byte' = 1 /\ bit' = 7 /\ UNCHANGED buff
  BY <1>2, PhaseIs, StartIs, StatementIs DEF Bus!Advance, Bus!Goto
<1>4. /\ step = 1 => Sets("scl", 1)
      /\ step = 2 => Sets("sda", 1)
      /\ step = 3 => Turns("sda", 1)
      /\ step \in {4, 6, 8} => Waits
      /\ step = 5 => Sets("sda", 0)
      /\ step = 7 => Sets("scl", 0)
  BY <1>2, StatementIs, StartIs DEF Bus!Pin
<1>5. /\ Bus!scl = (IF step <= 7 THEN 1 ELSE 0) /\ Bus!sda = (IF step <= 5 THEN 1 ELSE 0)
      /\ Bus!pwdn = 0 /\ Bus!rstn = 1 /\ ~Yields
  BY <1>1, <1>2, WiresAre DEF High, Yields, Ports
<1>6. /\ Bus!scl' = (IF step <= 6 THEN 1 ELSE 0) /\ Bus!sda' = (IF step <= 4 THEN 1 ELSE 0)
      /\ Bus!pwdn' = 0 /\ Bus!rstn' = 1 /\ pull' = pull /\ ret' = ret
      /\ data_dir' \in [Bus!Pin -> 0 .. 1] /\ data_out' \in [Bus!Pin -> 0 .. 1]
      /\ data_dir'["scl"] = 1 /\ data_dir'["pwdn"] = 1 /\ data_dir'["rstn"] = 1
      /\ data_dir'["sda"] = 1 /\ data_out'["pwdn"] = 0 /\ data_out'["rstn"] = 1
      /\ data_out'["scl"] = Bus!scl' /\ data_out'["sda"] = Bus!sda'
  <2>1. pull' = (pull /\ Bus!rstn' = 1) /\ UNCHANGED floating
    BY StatementIs
  <2>2. data_dir \in [Bus!Pin -> 0 .. 1] /\ data_out \in [Bus!Pin -> 0 .. 1]
    BY WiresAre
  <2>3. CASE step = 1 \/ step = 7
    BY <1>1, <1>2, <1>4, <1>5, <2>1, <2>2, <2>3, PortIs DEF Ports, Sets
  <2>4. CASE step = 2 \/ step = 5
    BY <1>1, <1>2, <1>4, <1>5, <2>1, <2>2, <2>4, PortIs DEF Ports, Sets
  <2>5. CASE step = 3
    BY <1>1, <1>2, <1>4, <1>5, <2>1, <2>2, <2>5, PortIs DEF Ports, Turns, High, Yields
  <2>6. CASE step \in {4, 6, 8}
    BY <1>1, <1>2, <1>4, <1>5, <2>1, <2>2, <2>6, PortIs DEF Ports, Waits, High, Yields
  <2> QED BY <1>2, <2>3, <2>4, <2>5, <2>6
<1>7. /\ step <= 4 => Quiet /\ ~listening
      /\ step = 5 => /\ listening' = TRUE /\ count' = 0 /\ shift' = 0 /\ got' = <<>>
                     /\ UNCHANGED <<wish, regs, taken>>
      /\ step >= 6 => Quiet /\ listening /\ count = 0 /\ shift = 0 /\ got = <<>>
  <2>1. /\ step <= 5 => ~listening
        /\ step >= 6 => listening /\ count = 0 /\ shift = 0 /\ got = <<>>
    BY <1>1, <1>2 DEF Position
  <2>2. Bus!SensorSees
    BY StatementIs
  <2>3. CASE step = 5
    <3>1. Bus!Started
      BY <1>5, <1>6, <2>3 DEF Bus!Started
    <3> QED BY <1>6, <2>2, <2>3, <3>1, SensorIs
  <2>4. CASE step # 5
    <3>1. ~Bus!Started /\ ~Bus!Stopped /\ ~Bus!Rises
      BY <1>2, <1>5, <1>6, <2>4 DEF Bus!Started, Bus!Stopped, Bus!Rises
    <3>2. ~(Bus!Falls /\ listening /\ (count = 8 \/ wish))
      BY <1>2, <2>1
    <3> QED BY <1>2, <1>6, <2>1, <2>2, <2>4, <3>1, <3>2, SensorIs
  <2> QED BY <2>3, <2>4
<1>8. BusTypes'
  <2>1. ~Bus!Rises
    BY <1>2, <1>5, <1>6 DEF Bus!Rises
  <2>2. Bus!Falls /\ listening /\ count = 8 => Len(got) <= 3
    BY <1>2, <1>5, <1>6, <1>7 DEF Bus!Falls
  <2>3. ret' \in 0 .. 4
    BY <1>2, <1>6
  <2> QED BY <1>1, <1>6, <2>1, <2>2, <2>3, TypesStep
<1>9. Ports'
  BY <1>2, <1>3, <1>6 DEF Ports, High, Yields
<1>10. Answer'
  BY <1>2, <1>3, <1>6, <1>7 DEF Answer, Answering, Quiet
<1>11. Position'
  <2>1. CASE step = 8
    <3>1. \E w \in Write : buff = Sent(w)
      BY <1>1 DEF Outcome
    <3>2. buff[1] = 120
      BY <3>1 DEF Sent, Bus!Address
    <3>3. Bits(buff[1], 8) = 0
      <4>1. 2^8 = 256 /\ 120 \div 256 = 0
        OBVIOUS
      <4> QED BY <3>2, <4>1 DEF Bits
    <3>4. /\ listening' /\ count' = 0 /\ shift' = 0 /\ got' = <<>> /\ phase' = "bit" /\ step' = 1
          /\ byte' = 1 /\ bit' = 7 /\ buff' = buff
      BY <1>3, <1>7, <2>1 DEF Quiet
    <3> QED BY <3>3, <3>4 DEF Position, Answering
  <2>2. CASE step # 8
    BY <1>2, <1>3, <1>7, <2>2 DEF Position, Answering, Quiet
  <2> QED BY <2>1, <2>2
<1>12. Outcome'
  BY <1>1, <1>2, <1>3, <1>6, <1>7 DEF Outcome, Answering, Complete, Quiet
<1>13. Steady
  BY <1>2, <1>5, <1>6 DEF Steady
<1>14. UNCHANGED <<buff, regs, taken>>
  BY <1>2, <1>3, <1>7 DEF Quiet
<1> QED BY <1>1, <1>8, <1>9, <1>10, <1>11, <1>12, <1>13, <1>14 DEF BusInv
Stores(r, v) == regs' = IF r \in Bus!Reg THEN [regs EXCEPT ![r] = v] ELSE regs

(* The bits of a byte: the sensor shifts in what the driver sends, and     *)
(* makes up its mind when the clock falls after the eighth.                *)
LEMMA BitStep ==
  ASSUME BusInv, Bus!Statement, phase = "bit"
  PROVE  /\ BusInv' /\ Bus!On' /\ Steady /\ buff' = buff
         /\ \/ UNCHANGED <<regs, taken>>
            \/ ~taken /\ taken' = TRUE /\ Stores(buff[2] * 256 + buff[3], buff[4])
<1> DEFINE s == Bus!Program[phase][step]
           b == BitOf(buff[byte], bit)
<1>1. /\ Bus!On /\ Bus!On' /\ BusTypes /\ Ports /\ Answer /\ Position /\ Outcome
      /\ step \in 1 .. 5 /\ s = Bus!data_bit[step]
  <2>1. Bus!On /\ step \in 1 .. 5 /\ BusTypes /\ s = Bus!data_bit[step]
    BY PhaseIs, BitIs DEF Bus!On, BusInv, BusTypes, Bus!TypeOK
  <2>2. phase' \in {"bit", "ack"}
    BY PhaseIs, BitIs, StatementIs DEF Bus!Advance, Bus!Goto
  <2> QED BY <2>1, <2>2 DEF BusInv, Bus!On
<1>2. /\ ret \in 0 .. 4 /\ wish \in BOOLEAN /\ pull \in BOOLEAN /\ listening \in BOOLEAN
      /\ byte \in 1 .. 4 /\ bit \in 0 .. 7 /\ taken \in BOOLEAN
      /\ wish <=> listening /\ step = 5 /\ bit = 0
      /\ step <= 4 => ~pull
  BY <1>1 DEF BusTypes, Bus!TypeOK, Answer, Answering
<1>3. /\ buff[byte] \in Bus!Byte /\ b \in 0 .. 1
      /\ \E w \in Write : buff = Sent(w)
  <2>1. \E w \in Write : buff = Sent(w)
    BY <1>1 DEF Outcome
  <2>2. buff \in [1 .. 4 -> Bus!Byte]
    BY <1>1, <2>1 DEF BusTypes, Bus!TypeOK, Sent
  <2> QED BY <1>2, <2>1, <2>2, NextBit
<1>4. /\ step < 5 => phase' = "bit" /\ step' = step + 1 /\ UNCHANGED <<byte, bit, buff>>
      /\ step = 5 /\ bit > 0 =>
           phase' = "bit" /\ step' = 1 /\ bit' = bit - 1 /\ UNCHANGED <<byte, buff>>
      /\ step = 5 /\ bit = 0 => phase' = "ack" /\ step' = 1 /\ UNCHANGED <<byte, bit, buff>>
  BY <1>1, <1>2, PhaseIs, BitIs, StatementIs DEF Bus!Advance, Bus!Goto
<1>5. /\ step = 1 => Sets("sda", b)
      /\ step = 2 => Sets("scl", 1)
      /\ step \in {3, 5} => Waits
      /\ step = 4 => Sets("scl", 0)
  BY <1>1, <1>3, StatementIs, BitIs DEF Bus!Pin, BitOf
<1>6. /\ Bus!scl = (IF step \in {3, 4} THEN 1 ELSE 0) /\ (step >= 2 => Bus!sda = b)
      /\ Bus!pwdn = 0 /\ Bus!rstn = 1 /\ ~Yields /\ Bus!sda \in 0 .. 1 /\ Bus!sda = data_out["sda"]
  BY <1>1, <1>2, WiresAre DEF High, Yields, Ports
<1>7. /\ Bus!scl' = (IF step \in {2, 3} THEN 1 ELSE 0)
      /\ Bus!sda' = (IF step = 1 THEN b ELSE Bus!sda)
      /\ Bus!pwdn' = 0 /\ Bus!rstn' = 1 /\ pull' = pull /\ ret' = ret
      /\ data_dir' \in [Bus!Pin -> 0 .. 1] /\ data_out' \in [Bus!Pin -> 0 .. 1]
      /\ data_dir'["scl"] = 1 /\ data_dir'["pwdn"] = 1 /\ data_dir'["rstn"] = 1
      /\ data_dir'["sda"] = 1 /\ data_out'["pwdn"] = 0 /\ data_out'["rstn"] = 1
      /\ data_out'["scl"] = Bus!scl' /\ data_out'["sda"] = Bus!sda'
  <2>1. pull' = (pull /\ Bus!rstn' = 1) /\ UNCHANGED floating
    BY StatementIs
  <2>2. data_dir \in [Bus!Pin -> 0 .. 1] /\ data_out \in [Bus!Pin -> 0 .. 1]
    BY WiresAre
  <2>3. CASE step = 2 \/ step = 4
    BY <1>1, <1>2, <1>5, <1>6, <2>1, <2>2, <2>3, PortIs DEF Ports, Sets
  <2>4. CASE step = 1
    BY <1>1, <1>2, <1>3, <1>5, <1>6, <2>1, <2>2, <2>4, PortIs DEF Ports, Sets
  <2>5. CASE step \in {3, 5}
    BY <1>1, <1>2, <1>5, <1>6, <2>1, <2>2, <2>5, PortIs DEF Ports, Waits, High, Yields
  <2> QED BY <1>1, <2>3, <2>4, <2>5
<1>8. /\ step \in {1, 3, 5} \/ ~listening \/ (step = 4 /\ bit > 0) => Quiet
      /\ step = 2 /\ listening => /\ count' = count + 1 /\ shift' = (2 * shift + b) % 256
                                  /\ UNCHANGED <<listening, got, wish, regs, taken>>
      /\ step = 4 /\ listening /\ bit = 0 => count' = 0 /\ shift' = 0 /\ (Bus!Accept \/ Bus!Refuse)
  <2>1. Bus!SensorSees /\ ~Bus!Started /\ ~Bus!Stopped
    BY <1>1, <1>3, <1>6, <1>7, StatementIs DEF Bus!Started, Bus!Stopped
  <2>2. step = 4 /\ listening => count = 8 - bit
    BY <1>1, <1>2 DEF Position, Answering
  <2>3. /\ Bus!Rises <=> step = 2
        /\ Bus!Falls <=> step = 4
    BY <1>1, <1>6, <1>7 DEF Bus!Rises, Bus!Falls
  <2>4. step \in {1, 3, 5} \/ ~listening \/ (step = 4 /\ bit > 0) => Quiet
    BY <1>1, <1>2, <1>7, <2>1, <2>2, <2>3, SensorIs
  <2>5. step = 2 /\ listening => /\ count' = count + 1 /\ shift' = (2 * shift + b) % 256
                                /\ UNCHANGED <<listening, got, wish, regs, taken>>
    BY <1>2, <1>6, <1>7, <2>1, <2>3, SensorIs
  <2>6. step = 4 /\ listening /\ bit = 0 => count' = 0 /\ shift' = 0 /\ (Bus!Accept \/ Bus!Refuse)
    BY <1>2, <1>7, <2>1, <2>2, <2>3, SensorIs
  <2> QED BY <2>4, <2>5, <2>6
<1>9. listening /\ (step <= 4 \/ bit > 0) =>
        /\ Len(got) = byte - 1 /\ \A i \in 1 .. byte - 1 : got[i] = buff[i]
        /\ count = IF step >= 3 THEN 8 - bit ELSE 7 - bit
        /\ shift = IF step >= 3 THEN Bits(buff[byte], bit) ELSE Bits(buff[byte], bit + 1)
  BY <1>1, <1>2 DEF Position, Answering
<1>10. BusTypes'
  <2>1. Bus!Rises /\ listening /\ ~wish => count <= 7
    <3>1. Bus!Rises => step = 2
      BY <1>1, <1>6, <1>7 DEF Bus!Rises
    <3> QED BY <1>2, <1>9, <3>1
  <2>2. Bus!Falls /\ listening /\ count = 8 => Len(got) <= 3
    <3>1. Bus!Falls => step = 4
      BY <1>1, <1>6, <1>7 DEF Bus!Falls
    <3> QED BY <1>2, <1>9, <3>1
  <2>3. ret' \in 0 .. 4
    BY <1>2, <1>7
  <2> QED BY <1>1, <1>7, <2>1, <2>2, <2>3, TypesStep
<1>11. Ports'
  <2>1. ~Yields' /\ data_out'["scl"] = IF High' THEN 1 ELSE 0
    BY <1>1, <1>2, <1>4, <1>7 DEF High, Yields
  <2>2. phase' = "bit" /\ step' >= 2 => data_out'["sda"] = BitOf(buff'[byte'], bit')
    <3> SUFFICES ASSUME phase' = "bit", step' >= 2
                 PROVE  data_out'["sda"] = BitOf(buff'[byte'], bit')
      OBVIOUS
    <3>1. step < 5 /\ byte' = byte /\ bit' = bit /\ buff' = buff
      BY <1>1, <1>2, <1>4
    <3>2. data_out'["sda"] = b
      BY <1>1, <1>6, <1>7
    <3> QED BY <3>1, <3>2
  <2>3. phase' \in {"bit", "ack"}
    BY <1>1, <1>2, <1>4
  <2> QED BY <1>7, <2>1, <2>2, <2>3 DEF Ports
<1>12. ASSUME step = 4, bit = 0, listening, Bus!Accept
       PROVE  /\ Len(got') = byte /\ \A i \in 1 .. byte : got'[i] = buff[i]
              /\ wish' /\ listening' /\ (taken' <=> byte = 4)
  <2>1. shift = buff[byte] /\ Len(got) = byte - 1 /\ got \in Seq(Bus!Byte)
        /\ \A i \in 1 .. byte - 1 : got[i] = buff[i]
    BY <1>1, <1>3, <1>9, <1>12, NextBit DEF BusTypes
  <2>2. got' = Append(got, buff[byte]) /\ wish' /\ listening' = listening
        /\ taken' = (taken \/ Len(got) = 3)
    BY <1>12, <2>1 DEF Bus!Accept
  <2>3. Len(got') = byte /\ \A i \in 1 .. byte : got'[i] = buff[i]
    BY <1>2, <1>3, <2>1, <2>2
  <2>4. ~taken
    BY <1>1, <1>12 DEF Outcome, Complete, Answering
  <2>5. Len(got) = 3 <=> byte = 4
    BY <1>2, <2>1
  <2>6. taken' <=> byte = 4
    BY <2>2, <2>4, <2>5
  <2>7. wish' /\ listening'
    BY <1>12, <2>2
  <2> QED BY <2>3, <2>6, <2>7
<1>13. ASSUME step = 4, bit = 0, listening, Bus!Refuse
       PROVE  ~listening' /\ ~wish' /\ ~taken'
  BY <1>1, <1>2, <1>13 DEF Bus!Refuse, Outcome, Complete, Answering
<1>14. Answer'
  <2>1. CASE step = 4 /\ listening /\ bit = 0
    <3>1. /\ phase' = "bit" /\ step' = 5 /\ bit' = 0 /\ (wish' <=> listening')
      BY <1>4, <1>8, <1>12, <1>13, <2>1
    <3> QED BY <1>1, <1>2, <1>7, <2>1, <3>1 DEF Answer, Answering
  <2>2. CASE ~(step = 4 /\ listening /\ bit = 0)
    <3>1. wish' = wish /\ listening' = listening
      BY <1>1, <1>2, <1>8, <2>2 DEF Quiet
    <3>2. step = 5 => pull = wish
      BY <1>5 DEF Waits
    <3> QED BY <1>1, <1>2, <1>4, <1>7, <2>2, <3>1, <3>2 DEF Answer, Answering
  <2> QED BY <2>1, <2>2
<1>15. Position'
  <2>1. CASE step = 4 /\ listening /\ bit = 0
    <3>1. /\ phase' = "bit" /\ step' = 5 /\ bit' = 0 /\ byte' = byte /\ buff' = buff
          /\ count' = 0 /\ shift' = 0
      BY <1>4, <1>8, <2>1
    <3>2. listening' => Len(got') = byte /\ \A i \in 1 .. byte : got'[i] = buff[i]
      BY <1>8, <1>12, <1>13, <2>1
    <3> QED BY <3>1, <3>2 DEF Position, Answering
  <2>2. CASE step = 2 /\ listening
    <3>1. /\ phase' = "bit" /\ step' = 3 /\ bit' = bit /\ byte' = byte /\ buff' = buff
          /\ count' = count + 1 /\ shift' = (2 * shift + b) % 256 /\ got' = got
      BY <1>4, <1>8, <2>2
    <3>2. count' = 8 - bit /\ shift' = Bits(buff[byte], bit)
      <4>1. count = 7 - bit /\ shift = Bits(buff[byte], bit + 1)
        BY <1>9, <2>2
      <4>2. /\ Bits(buff[byte], bit) = 2 * Bits(buff[byte], bit + 1) + b
            /\ Bits(buff[byte], bit) \in 0 .. 255
        BY <1>2, <1>3, NextBit
      <4> QED BY <1>2, <3>1, <4>1, <4>2
    <3> QED BY <1>9, <2>2, <3>1, <3>2 DEF Position, Answering
  <2>3. CASE step \in {1, 3, 5} \/ ~listening \/ (step = 4 /\ bit > 0)
    <3>1. listening' = listening /\ got' = got /\ count' = count /\ shift' = shift
      BY <1>8, <2>3 DEF Quiet
    <3>2. CASE ~listening
      BY <1>1, <1>2, <1>4, <3>1, <3>2 DEF Position
    <3>3. CASE listening /\ step = 5 /\ bit = 0
      BY <1>1, <1>2, <1>4, <3>1, <3>3 DEF Position, Answering
    <3>4. CASE listening /\ step = 5 /\ bit > 0
      <4>1. /\ phase' = "bit" /\ step' = 1 /\ bit' = bit - 1 /\ byte' = byte /\ buff' = buff
            /\ bit' + 1 = bit
        BY <1>2, <1>4, <3>4
      <4>2. count' = 7 - bit' /\ shift' = Bits(buff'[byte'], bit' + 1)
        BY <1>2, <1>9, <3>1, <3>4, <4>1
      <4> QED BY <1>9, <3>1, <3>4, <4>1, <4>2 DEF Position, Answering
    <3>5. CASE listening /\ step \in {1, 3, 4} /\ (step = 4 => bit > 0)
      <4>1. /\ phase' = "bit" /\ step' = step + 1 /\ bit' = bit /\ byte' = byte /\ buff' = buff
        BY <1>2, <1>4, <3>5
      <4>2. /\ count' = IF step' >= 3 THEN 8 - bit' ELSE 7 - bit'
            /\ shift' = IF step' >= 3 THEN Bits(buff'[byte'], bit') ELSE Bits(buff'[byte'], bit' + 1)
            /\ Len(got') = byte' - 1 /\ \A i \in 1 .. byte' - 1 : got'[i] = buff'[i]
            /\ ~Answering'
        BY <1>2, <1>9, <3>1, <3>5, <4>1 DEF Answering
      <4> QED BY <4>1, <4>2 DEF Position
    <3> QED BY <1>1, <1>2, <2>3, <3>2, <3>3, <3>4, <3>5
  <2> QED BY <1>1, <1>2, <2>1, <2>2, <2>3
<1>16. Outcome'
  <2>1. CASE step = 4 /\ listening /\ bit = 0
    <3>1. /\ phase' = "bit" /\ step' = 5 /\ bit' = 0 /\ byte' = byte /\ buff' = buff /\ ret' = ret
      BY <1>4, <1>7, <2>1
    <3>2. /\ byte = 4 => (taken' <=> listening')
          /\ byte # 4 => ~taken'
      BY <1>8, <1>12, <1>13, <2>1
    <3>3. ret = 0
      BY <1>1, <2>1 DEF Outcome
    <3> QED BY <1>1, <1>2, <1>3, <2>1, <3>1, <3>2, <3>3 DEF Outcome, Complete, Answering
  <2>2. CASE ~(step = 4 /\ listening /\ bit = 0)
    <3>1. taken' = taken /\ listening' = listening /\ ret' = ret
      BY <1>1, <1>2, <1>7, <1>8, <2>2 DEF Quiet
    <3>2. CASE step = 4 /\ bit = 0
      BY <1>1, <1>2, <1>3, <1>4, <2>2, <3>1, <3>2 DEF Outcome, Complete, Answering
    <3>3. CASE ~(step = 4 /\ bit = 0) /\ ~(step = 5)
      BY <1>1, <1>2, <1>3, <1>4, <3>1, <3>3 DEF Outcome, Complete, Answering
    <3>4. CASE step = 5
      BY <1>1, <1>2, <1>3, <1>4, <3>1, <3>4 DEF Outcome, Complete, Answering
    <3> QED BY <3>2, <3>3, <3>4
  <2> QED BY <2>1, <2>2
<1>17. Steady /\ buff' = buff
  <2>1. Bus!scl = 1 /\ Bus!scl' = 1 => step = 3
    BY <1>1, <1>6, <1>7
  <2>2. buff' = buff
    BY <1>1, <1>2, <1>4
  <2> QED BY <1>7, <2>1, <2>2 DEF Steady
<1>18. \/ UNCHANGED <<regs, taken>>
       \/ ~taken /\ taken' = TRUE /\ Stores(buff[2] * 256 + buff[3], buff[4])
  <2>1. CASE step = 4 /\ listening /\ bit = 0 /\ Bus!Accept
    <3>1. Len(got) = byte - 1 /\ (\A i \in 1 .. byte - 1 : got[i] = buff[i]) /\ shift = buff[byte]
      BY <1>3, <1>9, <2>1, NextBit
    <3>2. ~taken
      BY <1>1, <2>1 DEF Outcome, Complete, Answering
    <3>3. CASE byte = 4
      <4>1. Len(got) = 3 /\ got[2] = buff[2] /\ got[3] = buff[3] /\ shift = buff[4]
        BY <3>1, <3>3
      <4> QED BY <2>1, <3>2, <4>1 DEF Bus!Accept, Stores
    <3>4. CASE byte # 4
      <4>1. Len(got) # 3
        BY <1>2, <3>1, <3>4
      <4>2. regs' = regs /\ taken' = taken
        BY <1>2, <2>1, <4>1 DEF Bus!Accept
      <4> QED BY <4>2
    <3> QED BY <3>3, <3>4
  <2>2. CASE step = 4 /\ listening /\ bit = 0 /\ Bus!Refuse
    BY <2>2 DEF Bus!Refuse
  <2>3. CASE step # 4 \/ ~listening \/ bit # 0
    BY <1>1, <1>2, <1>8, <2>3 DEF Quiet
  <2> QED BY <1>8, <2>1, <2>2, <2>3
<1> QED BY <1>1, <1>10, <1>11, <1>14, <1>15, <1>16, <1>17, <1>18 DEF BusInv

(* The acknowledge: the driver lets go of the data wire, samples what the  *)
(* sensor makes of it, and takes it back with the clock low.               *)
LEMMA AckStep ==
  ASSUME BusInv, Bus!Statement, phase = "ack"
  PROVE  BusInv' /\ Bus!On' /\ Steady /\ UNCHANGED <<buff, regs, taken>>
<1> DEFINE s == Bus!Program[phase][step]
<1>1. /\ Bus!On /\ Bus!On' /\ BusTypes /\ Ports /\ Answer /\ Position /\ Outcome
      /\ step \in 1 .. 7 /\ s = Bus!ack[step]
  <2>1. Bus!On /\ step \in 1 .. 7 /\ BusTypes /\ s = Bus!ack[step]
    BY PhaseIs, AckIs DEF Bus!On, BusInv, BusTypes, Bus!TypeOK
  <2>2. phase' \in {"ack", "bit", "stop"}
    BY PhaseIs, AckIs, StatementIs DEF Bus!Advance, Bus!Goto
  <2> QED BY <2>1, <2>2 DEF BusInv, Bus!On
<1>2. /\ ret \in 0 .. 4 /\ wish \in BOOLEAN /\ pull \in BOOLEAN /\ listening \in BOOLEAN
      /\ byte \in 1 .. 4 /\ bit \in 0 .. 7 /\ taken \in BOOLEAN
      /\ wish <=> listening /\ step <= 5
      /\ step <= 5 => pull = wish
  BY <1>1 DEF BusTypes, Bus!TypeOK, Answer, Answering
<1>3. buff # <<>> /\ \E w \in Write : buff = Sent(w)
  BY <1>1 DEF Outcome
<1>4. /\ step < 7 => phase' = "ack" /\ step' = step + 1 /\ UNCHANGED <<byte, bit, buff>>
      /\ step = 7 /\ byte < 4 =>
           phase' = "bit" /\ step' = 1 /\ byte' = byte + 1 /\ bit' = 7 /\ UNCHANGED buff
      /\ step = 7 /\ byte = 4 => phase' = "stop" /\ step' = 1 /\ UNCHANGED <<byte, bit, buff>>
  BY <1>1, <1>2, PhaseIs, AckIs, StatementIs DEF Bus!Advance, Bus!Goto
<1>5. /\ step = 1 => Turns("sda", 0)
      /\ step = 2 => Sets("scl", 1)
      /\ step \in {3, 7} => Waits
      /\ step = 4 => Samples
      /\ step = 5 => Sets("scl", 0)
      /\ step = 6 => Turns("sda", 1)
  BY <1>1, StatementIs, AckIs DEF Bus!Pin
<1>6. /\ Bus!scl = (IF step \in {3, 4, 5} THEN 1 ELSE 0)
      /\ step \in 2 .. 6 => Bus!sda = IF pull THEN 0 ELSE 1
      /\ Bus!pwdn = 0 /\ Bus!rstn = 1 /\ Bus!sda \in 0 .. 1 /\ (Yields <=> step \in 2 .. 6)
  BY <1>1, <1>2, WiresAre DEF High, Yields
<1>7. /\ Bus!scl' = (IF step \in {2, 3, 4} THEN 1 ELSE 0)
      /\ step \in {2, 3, 4, 5} => Bus!sda' = Bus!sda
      /\ Bus!pwdn' = 0 /\ Bus!rstn' = 1 /\ pull' = pull
      /\ ret' = (IF step = 4 THEN ret + Bus!sda ELSE ret)
      /\ data_dir' \in [Bus!Pin -> 0 .. 1] /\ data_out' \in [Bus!Pin -> 0 .. 1]
      /\ data_dir'["scl"] = 1 /\ data_dir'["pwdn"] = 1 /\ data_dir'["rstn"] = 1
      /\ data_dir'["sda"] = (IF step \in 1 .. 5 THEN 0 ELSE 1)
      /\ data_out'["pwdn"] = 0 /\ data_out'["rstn"] = 1 /\ data_out'["scl"] = Bus!scl'
  <2>1. pull' = (pull /\ Bus!rstn' = 1) /\ UNCHANGED floating
    BY StatementIs
  <2>2. data_dir \in [Bus!Pin -> 0 .. 1] /\ data_out \in [Bus!Pin -> 0 .. 1]
    BY WiresAre
  <2>3. CASE step = 2 \/ step = 5
    BY <1>1, <1>2, <1>5, <1>6, <2>1, <2>2, <2>3, PortIs DEF Ports, Sets
  <2>4. CASE step = 1 \/ step = 6
    BY <1>1, <1>2, <1>5, <1>6, <2>1, <2>2, <2>4, PortIs DEF Ports, Turns, High
  <2>5. CASE step \in {3, 7}
    BY <1>1, <1>2, <1>5, <1>6, <2>1, <2>2, <2>5, PortIs DEF Ports, Waits, High
  <2>6. CASE step = 4
    BY <1>1, <1>2, <1>5, <1>6, <2>1, <2>2, <2>6, PortIs DEF Ports, Samples, High
  <2> QED BY <1>1, <2>3, <2>4, <2>5, <2>6
<1>8. listening => /\ Len(got) = byte /\ \A i \in 1 .. byte : got[i] = buff[i]
                   /\ count = 0 /\ shift = 0
  BY <1>1 DEF Position
<1>9. /\ step = 5 /\ listening => wish' = FALSE /\ UNCHANGED <<listening, count, shift, got, regs, taken>>
      /\ step # 5 \/ ~listening => Quiet
  <2>1. Bus!SensorSees /\ ~Bus!Started /\ ~Bus!Stopped
    BY <1>1, <1>6, <1>7, StatementIs DEF Bus!Started, Bus!Stopped
  <2>2. /\ Bus!Rises <=> step = 2
        /\ Bus!Falls <=> step = 5
    BY <1>1, <1>6, <1>7 DEF Bus!Rises, Bus!Falls
  <2>3. listening => wish \/ step \in {6, 7}
    BY <1>1, <1>2
  <2>4. CASE step = 5 /\ listening
    <3>1. Bus!Falls /\ wish /\ count # 8
      BY <1>2, <1>8, <2>2, <2>4
    <3> QED BY <1>7, <2>1, <2>4, <3>1, SensorIs
  <2>5. CASE step # 5 \/ ~listening
    <3>1. ~(Bus!Rises /\ listening /\ ~wish) /\ ~(Bus!Falls /\ listening /\ (count = 8 \/ wish))
      BY <1>2, <2>2, <2>3, <2>5
    <3> QED BY <1>7, <2>1, <2>5, <3>1, SensorIs
  <2> QED BY <2>4, <2>5
<1>10. /\ listening' = listening /\ count' = count /\ shift' = shift /\ got' = got /\ regs' = regs
       /\ taken' = taken /\ wish' \in BOOLEAN
       /\ wish' <=> listening /\ step <= 4
  <2>1. CASE step = 5 /\ listening
    <3>1. ~(step <= 4) /\ wish' = FALSE /\ UNCHANGED <<listening, count, shift, got, regs, taken>>
      BY <1>9, <2>1
    <3> QED BY <3>1
  <2>2. CASE step # 5 \/ ~listening
    <3>1. UNCHANGED <<listening, count, shift, got, wish, regs, taken>>
      BY <1>9, <2>2 DEF Quiet
    <3>2. wish <=> listening /\ step <= 4
      BY <1>1, <1>2, <2>2
    <3> QED BY <1>2, <3>1, <3>2
  <2> QED BY <2>1, <2>2
<1>11. /\ step \in {1, 2, 3} => ret <= byte - 1
       /\ ret' <= byte /\ ret' \in 0 .. 4
       /\ step <= 3 => ret' = ret
       /\ listening => ret' = 0
       /\ ~listening /\ step >= 4 => ret' > 0
  <2>1. /\ step <= 4 => ret <= byte - 1
        /\ ret <= byte
        /\ listening => ret = 0
        /\ ~listening /\ step >= 5 => ret > 0
    BY <1>1, <1>2 DEF Outcome, Answering
  <2>2. step = 4 => Bus!sda = IF listening THEN 0 ELSE 1
    BY <1>2, <1>6
  <2>3. CASE step = 4
    BY <1>2, <1>7, <2>1, <2>2, <2>3
  <2>4. CASE step # 4
    BY <1>1, <1>2, <1>7, <2>1, <2>4
  <2> QED BY <2>3, <2>4, <2>1
<1>12. BusTypes'
  <2>1. Bus!Rises /\ listening /\ ~wish => count <= 7
    BY <1>8
  <2>2. Bus!Falls /\ listening /\ count = 8 => Len(got) <= 3
    BY <1>8
  <2> QED BY <1>1, <1>7, <1>11, <2>1, <2>2, TypesStep
<1>13. Ports'
  <2>1. CASE step < 7
    BY <1>1, <1>4, <1>7, <2>1 DEF Ports, High, Yields
  <2>2. CASE step = 7
    BY <1>1, <1>2, <1>4, <1>7, <2>2 DEF Ports, High, Yields
  <2> QED BY <1>1, <2>1, <2>2
<1>14. Answer'
  <2>1. CASE step < 7
    BY <1>1, <1>2, <1>4, <1>7, <1>10, <2>1 DEF Answer, Answering
  <2>2. CASE step = 7
    <3>1. ~pull' /\ ~wish'
      BY <1>2, <1>5, <1>7, <1>10, <2>2 DEF Waits
    <3> QED BY <1>2, <1>4, <2>2, <3>1 DEF Answer, Answering
  <2> QED BY <1>1, <2>1, <2>2
<1>15. Position'
  <2>1. CASE step < 7
    BY <1>1, <1>4, <1>8, <1>10, <2>1 DEF Position
  <2>2. CASE step = 7 /\ byte < 4
    <3>1. buff \in [1 .. 4 -> Bus!Byte]
      BY <1>1, <1>3 DEF BusTypes, Bus!TypeOK, Sent
    <3>2. Bits(buff[byte + 1], 8) = 0
      BY <1>2, <2>2, <3>1, NextBit
    <3>3. /\ phase' = "bit" /\ step' = 1 /\ byte' = byte + 1 /\ bit' = 7 /\ buff' = buff
          /\ byte' - 1 = byte /\ bit' + 1 = 8
      BY <1>2, <1>4, <2>2
    <3>4. listening' => /\ Len(got') = byte' - 1 /\ \A i \in 1 .. byte' - 1 : got'[i] = buff'[i]
                        /\ count' = 7 - bit' /\ shift' = Bits(buff'[byte'], bit' + 1)
      BY <1>8, <1>10, <3>2, <3>3
    <3> QED BY <3>3, <3>4 DEF Position, Answering
  <2>3. CASE step = 7 /\ byte = 4
    BY <1>4, <1>8, <1>10, <2>3 DEF Position
  <2> QED BY <1>1, <1>2, <2>1, <2>2, <2>3
<1>16. Outcome'
  <2>1. /\ byte = 4 => (taken <=> listening)
        /\ byte < 4 => ~taken
    BY <1>1, <1>2 DEF Outcome, Complete
  <2>2. CASE step < 7
    BY <1>1, <1>2, <1>3, <1>4, <1>10, <1>11, <2>1, <2>2 DEF Outcome, Complete, Answering
  <2>3. CASE step = 7 /\ byte < 4
    <3>2. ~Answering' /\ ~Complete' /\ ~taken' /\ ret' <= byte' - 1
      BY <1>2, <1>4, <1>10, <1>11, <2>1, <2>3 DEF Complete, Answering
    <3>3. /\ listening' => ret' = 0
          /\ ~listening' => ret' > 0
      BY <1>10, <1>11, <2>3
    <3>4. phase' = "bit" /\ buff' = buff
      BY <1>4, <2>3
    <3> QED BY <1>3, <3>2, <3>3, <3>4 DEF Outcome
  <2>4. CASE step = 7 /\ byte = 4
    <3>1. phase' = "stop" /\ step' = 1 /\ buff' = buff
      BY <1>4, <2>4
    <3>2. /\ listening' => ret' = 0
          /\ ~listening' => ret' > 0
          /\ taken' <=> listening'
      BY <1>10, <1>11, <2>1, <2>4
    <3>3. taken' <=> ret' = 0
      BY <1>11, <3>2
    <3> QED BY <1>3, <3>1, <3>2, <3>3 DEF Outcome
  <2> QED BY <1>1, <1>2, <2>2, <2>3, <2>4
<1>17. Steady /\ UNCHANGED <<buff, regs, taken>>
  <2>1. Bus!scl = 1 => step \in {3, 4, 5}
    BY <1>1, <1>6
  <2>2. buff' = buff
    BY <1>1, <1>2, <1>4
  <2> QED BY <1>7, <1>10, <2>1, <2>2 DEF Steady
<1> QED BY <1>1, <1>12, <1>13, <1>14, <1>15, <1>16, <1>17 DEF BusInv

(* STOP: a rising data wire under a high clock ends the transfer.          *)
LEMMA StopStep ==
  ASSUME BusInv, Bus!Statement, phase = "stop"
  PROVE  /\ BusInv' /\ Bus!On' /\ Steady /\ UNCHANGED <<regs, taken, ret>> /\ (taken <=> ret = 0)
         /\ buff' = buff \/ buff' = <<>>
<1> DEFINE s == Bus!Program[phase][step]
<1>1. /\ Bus!On /\ Bus!On' /\ BusTypes /\ Ports /\ Answer /\ Position /\ Outcome
      /\ step \in 1 .. 5 /\ s = Bus!stop[step]
  <2>1. Bus!On /\ step \in 1 .. 5 /\ BusTypes /\ s = Bus!stop[step]
    BY PhaseIs, StopIs DEF Bus!On, BusInv, BusTypes, Bus!TypeOK
  <2>2. phase' \in {"stop", "idle"}
    BY PhaseIs, StopIs, StatementIs DEF Bus!Advance, Bus!Goto
  <2> QED BY <2>1, <2>2 DEF BusInv, Bus!On
<1>2. /\ ret \in 0 .. 4 /\ wish \in BOOLEAN /\ pull \in BOOLEAN /\ listening \in BOOLEAN
      /\ taken \in BOOLEAN /\ ~wish /\ ~pull /\ count \in 0 .. 8
  BY <1>1 DEF BusTypes, Bus!TypeOK, Answer, Answering
<1>3. buff # <<>> /\ \E w \in Write : buff = Sent(w)
  BY <1>1 DEF Outcome
<1>4. /\ step < 5 => phase' = "stop" /\ step' = step + 1 /\ UNCHANGED <<byte, bit, buff>>
      /\ step = 5 => phase' = "idle" /\ step' = 1 /\ buff' = <<>> /\ UNCHANGED <<byte, bit>>
  BY <1>1, PhaseIs, StopIs, StatementIs DEF Bus!Advance, Bus!Goto
<1>5. /\ step = 1 => Sets("sda", 0)
      /\ step = 2 => Sets("scl", 1)
      /\ step \in {3, 5} => Waits
      /\ step = 4 => Sets("sda", 1)
  BY <1>1, StatementIs, StopIs DEF Bus!Pin
<1>6. /\ Bus!scl = (IF step >= 3 THEN 1 ELSE 0) /\ (step \in {2, 3, 4} => Bus!sda = 0)
      /\ (step = 5 => Bus!sda = 1) /\ Bus!pwdn = 0 /\ Bus!rstn = 1 /\ ~Yields /\ Bus!sda \in 0 .. 1
  BY <1>1, <1>2, WiresAre DEF High, Yields, Ports
<1>7. /\ Bus!scl' = (IF step >= 2 THEN 1 ELSE 0) /\ Bus!sda' = (IF step <= 3 THEN 0 ELSE 1)
      /\ Bus!pwdn' = 0 /\ Bus!rstn' = 1 /\ pull' = pull /\ ret' = ret
      /\ data_dir' \in [Bus!Pin -> 0 .. 1] /\ data_out' \in [Bus!Pin -> 0 .. 1]
      /\ data_dir'["scl"] = 1 /\ data_dir'["pwdn"] = 1 /\ data_dir'["rstn"] = 1
      /\ data_dir'["sda"] = 1 /\ data_out'["pwdn"] = 0 /\ data_out'["rstn"] = 1
      /\ data_out'["scl"] = Bus!scl' /\ data_out'["sda"] = Bus!sda'
  <2>1. pull' = (pull /\ Bus!rstn' = 1) /\ UNCHANGED floating
    BY StatementIs
  <2>2. data_dir \in [Bus!Pin -> 0 .. 1] /\ data_out \in [Bus!Pin -> 0 .. 1]
    BY WiresAre
  <2>3. CASE step = 2
    BY <1>1, <1>2, <1>5, <1>6, <2>1, <2>2, <2>3, PortIs DEF Ports, Sets
  <2>4. CASE step = 1 \/ step = 4
    BY <1>1, <1>2, <1>5, <1>6, <2>1, <2>2, <2>4, PortIs DEF Ports, Sets
  <2>5. CASE step \in {3, 5}
    BY <1>1, <1>2, <1>5, <1>6, <2>1, <2>2, <2>5, PortIs DEF Ports, Waits, High, Yields
  <2> QED BY <1>1, <2>3, <2>4, <2>5
<1>8. /\ step = 5 => ~listening
      /\ listening => count = IF step <= 2 THEN 0 ELSE 1
  BY <1>1 DEF Position
<1>9. /\ step = 4 => listening' = FALSE /\ UNCHANGED <<count, shift, got, wish, regs, taken>>
      /\ step = 2 /\ listening => /\ count' = 1
                                  /\ UNCHANGED <<listening, got, wish, regs, taken>>
      /\ step \in {1, 3, 5} \/ (step = 2 /\ ~listening) => Quiet
  <2>1. Bus!SensorSees /\ ~Bus!Started
    BY <1>1, <1>6, <1>7, StatementIs DEF Bus!Started
  <2>2. /\ Bus!Rises <=> step = 2
        /\ Bus!Stopped <=> step = 4
        /\ ~Bus!Falls
    BY <1>1, <1>6, <1>7 DEF Bus!Rises, Bus!Falls, Bus!Stopped
  <2>3. step = 4 => listening' = FALSE /\ UNCHANGED <<count, shift, got, wish, regs, taken>>
    BY <1>7, <2>1, <2>2, SensorIs
  <2>4. CASE step = 2 /\ listening
    <3>1. Bus!Rises /\ ~wish /\ count = 0
      BY <1>2, <1>8, <2>2, <2>4
    <3>2. count' = count + 1 /\ UNCHANGED <<listening, got, wish, regs, taken>>
      BY <1>7, <2>1, <2>4, <3>1, SensorIs
    <3> QED BY <2>4, <3>1, <3>2
  <2>5. CASE step \in {1, 3, 5} \/ (step = 2 /\ ~listening)
    <3>1. ~Bus!Stopped /\ ~(Bus!Rises /\ listening /\ ~wish) /\ ~(Bus!Falls /\ listening /\ (count = 8 \/ wish))
      BY <2>2, <2>5
    <3> QED BY <1>7, <2>1, <2>5, <3>1, SensorIs
  <2> QED BY <1>1, <2>3, <2>4, <2>5
<1>10. /\ wish' = wish /\ taken' = taken /\ regs' = regs /\ got' = got
       /\ listening' => listening /\ step # 4
       /\ step # 4 => listening' = listening
  <2>1. CASE step = 4
    BY <1>9, <2>1
  <2>2. CASE step = 2 /\ listening
    BY <1>9, <2>2
  <2>3. CASE step \in {1, 3, 5} \/ (step = 2 /\ ~listening)
    BY <1>9, <2>3 DEF Quiet
  <2> QED BY <1>1, <2>1, <2>2, <2>3
<1>11. BusTypes'
  <2>1. Bus!Rises /\ listening /\ ~wish => count <= 7
    BY <1>8
  <2>2. Bus!Falls /\ listening /\ count = 8 => Len(got) <= 3
    BY <1>8
  <2>3. ret' \in 0 .. 4
    BY <1>2, <1>7
  <2> QED BY <1>1, <1>7, <2>1, <2>2, <2>3, TypesStep
<1>12. Ports'
  BY <1>1, <1>4, <1>7 DEF Ports, High, Yields
<1>13. Answer'
  BY <1>1, <1>2, <1>4, <1>7, <1>10 DEF Answer, Answering
<1>14. Position'
  BY <1>1, <1>2, <1>4, <1>8, <1>9, <1>10 DEF Position, Quiet
<1>15. Outcome'
  <2>1. taken <=> ret = 0
    BY <1>1 DEF Outcome
  <2>2. CASE step < 5
    BY <1>1, <1>2, <1>3, <1>4, <1>7, <1>10, <2>1, <2>2 DEF Outcome, Complete, Answering
  <2>3. CASE step = 5
    BY <1>4, <2>3 DEF Outcome, Complete
  <2> QED BY <1>1, <2>2, <2>3
<1>16. Steady /\ UNCHANGED <<regs, taken, ret>> /\ (taken <=> ret = 0)
       /\ (buff' = buff \/ buff' = <<>>)
  <2>1. Bus!scl = 1 /\ Bus!sda' # Bus!sda => Bus!sda' = 1
    BY <1>1, <1>6, <1>7
  <2>2. taken <=> ret = 0
    BY <1>1 DEF Outcome
  <2>3. buff' = buff \/ buff' = <<>>
    BY <1>1, <1>4
  <2> QED BY <1>7, <1>10, <2>1, <2>2, <2>3 DEF Steady
<1> QED BY <1>1, <1>11, <1>12, <1>13, <1>14, <1>15, <1>16 DEF BusInv

-----------------------------------------------------------------------------
(* Before the sensor is up: the driver takes hold of the pins one by one.  *)

Blank == [r \in Bus!Reg |-> Unset]

(* Without an edge of the clock the sensor keeps its registers, or is in   *)
(* reset.                                                                  *)
LEMMA WithoutClock ==
  ASSUME Bus!SensorSees, Bus!scl = 1, Bus!scl' = 1
  PROVE  /\ regs' = regs \/ regs' = Blank
         /\ ~Bus!Rises /\ ~Bus!Falls
<1>1. ~Bus!Rises /\ ~Bus!Falls
  BY DEF Bus!Rises, Bus!Falls
<1> QED BY <1>1 DEF Bus!SensorSees, Blank

LEMMA InitStep ==
  ASSUME BusInv, Bus!Statement, phase = "i2c_init"
  PROVE  BusInv' /\ ~Bus!On' /\ UNCHANGED <<buff, ret>> /\ (regs' = regs \/ regs' = Blank)
<1> DEFINE s == Bus!Program[phase][step]
<1>1. /\ ~Bus!On /\ ~Bus!On' /\ BusTypes /\ PoweringUp /\ step \in 1 .. 5 /\ s = Bus!i2c_init[step]
  <2>1. ~Bus!On /\ step \in 1 .. 5 /\ BusTypes /\ s = Bus!i2c_init[step]
    BY PhaseIs, InitIs DEF Bus!On, BusInv, BusTypes, Bus!TypeOK
  <2>2. phase' \in {"i2c_init", "cmos_poweron"}
    BY PhaseIs, InitIs, StatementIs DEF Bus!Advance, Bus!Goto
  <2> QED BY <2>1, <2>2 DEF BusInv, Bus!On
<1>2. /\ step < 5 => phase' = "i2c_init" /\ step' = step + 1
      /\ step = 5 => phase' = "cmos_poweron" /\ step' = 1
      /\ UNCHANGED <<byte, bit, buff>>
  BY <1>1, PhaseIs, InitIs, StatementIs DEF Bus!Advance, Bus!Goto
<1>3. /\ step = 1 => Sets("scl", 1)
      /\ step = 2 => Sets("sda", 1)
      /\ step = 3 => Turns("scl", 1)
      /\ step = 4 => Turns("sda", 1)
      /\ step = 5 => Waits
  BY <1>1, StatementIs, InitIs DEF Bus!Pin
<1>4. /\ buff = <<>> /\ ret = 0
      /\ data_dir["scl"] = 1 => data_out["scl"] = 1
      /\ step >= 2 => data_out["scl"] = 1
      /\ step >= 3 => data_out["sda"] = 1
      /\ step >= 4 => data_dir["scl"] = 1
      /\ step >= 5 => data_dir["sda"] = 1
  BY <1>1 DEF PoweringUp
<1>5. Bus!scl = 1
  BY <1>4 DEF Bus!scl
<1>6. /\ data_dir' \in [Bus!Pin -> 0 .. 1] /\ data_out' \in [Bus!Pin -> 0 .. 1] /\ ret' = ret
      /\ data_dir'["scl"] = 1 => data_out'["scl"] = 1
      /\ step >= 1 => data_out'["scl"] = 1
      /\ step >= 2 => data_out'["sda"] = 1
      /\ step >= 3 => data_dir'["scl"] = 1
      /\ step >= 4 => data_dir'["sda"] = 1
  <2>1. CASE step = 1
    BY <1>3, <2>1, WiresAre DEF Sets
  <2>2. CASE step = 2
    BY <1>3, <1>5, <2>2, WiresAre DEF Sets
  <2>3. CASE step \in {3, 4}
    BY <1>3, <1>4, <2>3, WiresAre DEF Turns
  <2>4. CASE step = 5
    BY <1>3, <1>4, <2>4, WiresAre DEF Waits
  <2> QED BY <1>1, <2>1, <2>2, <2>3, <2>4
<1>7. Bus!scl' = 1
  BY <1>6 DEF Bus!scl
<1>8. (regs' = regs \/ regs' = Blank) /\ ~Bus!Rises /\ ~Bus!Falls
  BY <1>5, <1>7, StatementIs, WithoutClock
<1>9. BusTypes'
  BY <1>1, <1>4, <1>6, <1>8, TypesStep
<1>10. PoweringUp'
  <2>1. CASE step < 5
    BY <1>1, <1>2, <1>4, <1>6, <2>1 DEF PoweringUp
  <2>2. CASE step = 5
    BY <1>2, <1>4, <1>6, <2>2 DEF PoweringUp
  <2> QED BY <1>1, <2>1, <2>2
<1> QED BY <1>1, <1>2, <1>6, <1>8, <1>9, <1>10 DEF BusInv

LEMMA PoweronStep ==
  ASSUME BusInv, Bus!Statement, phase = "cmos_poweron"
  PROVE  /\ BusInv' /\ ~Bus!On /\ UNCHANGED <<buff, ret>> /\ (regs' = regs \/ regs' = Blank)
         /\ Bus!On' => regs' = Blank
<1> DEFINE s == Bus!Program[phase][step]
<1>1. /\ ~Bus!On /\ BusTypes /\ PoweringUp /\ step \in 1 .. 9 /\ s = Bus!cmos_poweron[step]
      /\ pull \in BOOLEAN /\ wish \in BOOLEAN /\ listening \in BOOLEAN /\ taken \in BOOLEAN
  BY PhaseIs, PoweronIs DEF Bus!On, BusInv, BusTypes, Bus!TypeOK
<1>2. /\ step < 9 => phase' = "cmos_poweron" /\ step' = step + 1
      /\ step = 9 => phase' = "idle" /\ step' = 1
      /\ UNCHANGED <<byte, bit, buff>>
  BY <1>1, PhaseIs, PoweronIs, StatementIs DEF Bus!Advance, Bus!Goto
<1>3. /\ step = 1 => Sets("pwdn", 1)
      /\ step = 2 => Sets("rstn", 0)
      /\ step = 3 => Turns("pwdn", 1)
      /\ step = 4 => Turns("rstn", 1)
      /\ step = 6 => Sets("pwdn", 0)
      /\ step = 8 => Sets("rstn", 1)
      /\ step \in {5, 7, 9} => Waits
  BY <1>1, StatementIs, PoweronIs DEF Bus!Pin
<1>4. /\ buff = <<>> /\ ret = 0
      /\ data_dir["scl"] = 1 /\ data_out["scl"] = 1 /\ data_dir["sda"] = 1 /\ data_out["sda"] = 1
      /\ step \in 3 .. 8 => data_out["rstn"] = 0
      /\ step >= 4 => data_dir["pwdn"] = 1
      /\ step >= 5 => data_dir["rstn"] = 1
      /\ step >= 7 => data_out["pwdn"] = 0
      /\ step = 9 => data_out["rstn"] = 1
      /\ step >= 5 => ~listening /\ ~wish /\ ~pull /\ regs = Blank
  BY <1>1 DEF PoweringUp, Blank
<1>5. /\ Bus!scl = 1 /\ Bus!sda = 1
      /\ step \in 5 .. 8 => Bus!rstn = 0
      /\ step >= 7 => Bus!pwdn = 0
      /\ step = 9 => Bus!rstn = 1
  BY <1>1, <1>4 DEF Bus!scl, Bus!sda, Bus!rstn, Bus!pwdn
<1>6. /\ data_dir' \in [Bus!Pin -> 0 .. 1] /\ data_out' \in [Bus!Pin -> 0 .. 1] /\ ret' = ret
      /\ data_dir'["scl"] = 1 /\ data_out'["scl"] = 1 /\ data_dir'["sda"] = 1
      /\ data_out'["sda"] = 1
      /\ step \in 2 .. 7 => data_out'["rstn"] = 0
      /\ step >= 3 => data_dir'["pwdn"] = 1
      /\ step >= 4 => data_dir'["rstn"] = 1
      /\ step >= 6 => data_out'["pwdn"] = 0
      /\ step >= 8 => data_out'["rstn"] = 1
  <2>1. CASE step \in {1, 2}
    BY <1>3, <1>4, <1>5, <2>1, WiresAre DEF Sets
  <2>2. CASE step \in {6, 8}
    BY <1>3, <1>4, <1>5, <2>2, WiresAre DEF Sets
  <2>3. CASE step \in {3, 4}
    BY <1>3, <1>4, <2>3, WiresAre DEF Turns
  <2>4. CASE step \in {5, 7, 9}
    BY <1>3, <1>4, <2>4, WiresAre DEF Waits
  <2> QED BY <1>1, <2>1, <2>2, <2>3, <2>4
<1>7. /\ Bus!scl' = 1 /\ Bus!sda' = 1
      /\ step \in 4 .. 7 => Bus!rstn' = 0
      /\ step >= 8 => Bus!rstn' = 1
  BY <1>1, <1>6 DEF Bus!scl, Bus!sda, Bus!rstn
<1>8. (regs' = regs \/ regs' = Blank) /\ ~Bus!Rises /\ ~Bus!Falls
  BY <1>5, <1>7, StatementIs, WithoutClock
<1>9. BusTypes'
  BY <1>1, <1>4, <1>6, <1>8, TypesStep
<1>10. step >= 4 => ~listening' /\ ~wish' /\ ~pull' /\ regs' = Blank
  <2>1. CASE step \in 4 .. 7
    <3>1. Bus!rstn' = 0 /\ Bus!SensorSees /\ pull' = (pull /\ Bus!rstn' = 1)
      BY <1>7, <2>1, StatementIs
    <3>2. listening' = FALSE /\ wish' = FALSE /\ regs' = Blank
      BY <3>1 DEF Bus!SensorSees, Blank
    <3>3. ~(Bus!rstn' = 1)
      BY <3>1
    <3>4. ~pull'
      BY <3>1, <3>3, Zenon
    <3> QED BY <3>2, <3>4
  <2>2. CASE step \in 8 .. 9
    <3>1. Bus!SensorSees /\ pull' = (pull /\ Bus!rstn' = 1)
      BY StatementIs
    <3>2. Bus!rstn' # 0 /\ ~Bus!Started /\ ~Bus!Stopped
      BY <1>5, <1>7, <2>2 DEF Bus!Started, Bus!Stopped
    <3>3. listening' = listening /\ wish' = wish /\ regs' = regs
      BY <1>8, <3>1, <3>2 DEF Bus!SensorSees
    <3>4. ~listening /\ ~wish /\ ~pull /\ regs = Blank
      BY <1>4, <2>2
    <3> QED BY <3>1, <3>3, <3>4
  <2> QED BY <1>1, <2>1, <2>2
<1>11. CASE step < 9
  <2>1. ~Bus!On' /\ phase' = "cmos_poweron" /\ step' = step + 1
    BY <1>2, <1>11 DEF Bus!On
  <2>2. PoweringUp'
    BY <1>1, <1>2, <1>4, <1>6, <1>10, <1>11, <2>1 DEF PoweringUp, Blank
  <2> QED BY <1>1, <1>2, <1>6, <1>8, <1>9, <2>1, <2>2 DEF BusInv
<1>12. CASE step = 9
  <2>1. Bus!On' /\ phase' = "idle" /\ step' = 1 /\ buff' = <<>>
    BY <1>2, <1>4, <1>12 DEF Bus!On
  <2>2. ~listening' /\ ~wish' /\ ~pull' /\ regs' = Blank
    BY <1>10, <1>12
  <2>3. Ports'
    BY <1>6, <1>12, <2>1 DEF Ports, High, Yields
  <2>4. Answer' /\ Position' /\ Outcome'
    BY <2>1, <2>2 DEF Answer, Position, Outcome, Complete
  <2> QED BY <1>1, <1>2, <1>6, <1>8, <1>9, <2>1, <2>2, <2>3, <2>4 DEF BusInv
<1> QED BY <1>1, <1>11, <1>12

-----------------------------------------------------------------------------
(* The other steps.                                                        *)

LEMMA CallStep ==
  ASSUME BusInv, NEW w \in Write, Bus!ov_wr_reg(w)
  PROVE  /\ BusInv' /\ Bus!On /\ Bus!On' /\ UNCHANGED <<data_dir, data_out, pull, regs>> /\ buff = <<>>
         /\ buff' = Sent(w) /\ taken' = FALSE
<1>1. /\ phase = "idle" /\ writes < MaxWrites /\ writes' = writes + 1
      /\ phase' = "start" /\ step' = 1
      /\ buff' = Sent(w) /\ ret' = 0 /\ taken' = FALSE
      /\ UNCHANGED <<data_dir, data_out, floating, byte, bit, listening, count, shift, got, pull,
                     wish, regs, restarts>>
  BY DEF Bus!ov_wr_reg, Bus!Goto, Sent, Bus!port_vars
<1>2. Bus!On /\ Bus!On' /\ BusTypes /\ Ports /\ Answer /\ Position /\ Outcome
  <2>1. Bus!On /\ Bus!On'
    BY <1>1 DEF Bus!On
  <2> QED BY <2>1 DEF BusInv
<1>3. buff = <<>>
  BY <1>1, <1>2 DEF Outcome
<1>4. Sent(w) \in [1 .. 4 -> Bus!Byte] /\ Sent(w) # <<>>
  <2>1. w[1] \in Nat /\ w[1] < 65536 /\ w[2] \in Bus!Byte
    BY BusAssumption
  <2>2. w[1] \div 256 \in Bus!Byte /\ w[1] % 256 \in Bus!Byte /\ Bus!Address \in Bus!Byte
    BY <2>1 DEF Bus!Byte, Bus!Address
  <2> QED BY <2>1, <2>2 DEF Sent
<1>5. BusTypes'
  <2>1. step' \in DOMAIN Bus!Program[phase'] /\ phase' \in DOMAIN Bus!Program /\ phase' # "idle"
    BY <1>1, PhaseIs, StartIs
  <2>2. writes' \in 0 .. MaxWrites
    BY <1>1, <1>2, BusAssumption DEF BusTypes, Bus!TypeOK
  <2>3. /\ data_dir' \in [Bus!Pin -> 0 .. 1] /\ data_out' \in [Bus!Pin -> 0 .. 1]
        /\ floating' \in [{"pwdn", "rstn"} -> 0 .. 1]
        /\ byte' \in 1 .. 4 /\ bit' \in 0 .. 7
        /\ listening' \in BOOLEAN /\ count' \in 0 .. 8 /\ shift' \in Bus!Byte
        /\ Len(got') \in 0 .. 4 /\ pull' \in BOOLEAN /\ wish' \in BOOLEAN
        /\ regs' \in [Bus!Reg -> Bus!Byte \union {Unset}] /\ restarts' \in 0 .. MaxRestarts
        /\ got' \in Seq(Bus!Byte)
    BY <1>1, <1>2 DEF BusTypes, Bus!TypeOK
  <2>4. buff' \in [1 .. 4 -> Bus!Byte] /\ ret' \in 0 .. 4 /\ taken' \in BOOLEAN
    <3>1. buff' = Sent(w) /\ ret' = 0 /\ taken' = FALSE
      BY <1>1
    <3>2. buff' \in [1 .. 4 -> Bus!Byte]
      BY <1>4, <3>1
    <3>3. ret' \in 0 .. 4
      BY <3>1
    <3>4. taken' \in BOOLEAN
      BY <3>1
    <3> QED BY <3>2, <3>3, <3>4
  <2>5. Bus!TypeOK'
    BY <2>1, <2>2, <2>3, <2>4 DEF Bus!TypeOK
  <2> QED BY <2>1, <2>3, <2>4, <2>5 DEF BusTypes
<1>6. Ports'
  BY <1>1, <1>2 DEF Ports, High, Yields
<1>7. Answer'
  BY <1>1, <1>2 DEF Answer, Answering
<1>8. Position'
  BY <1>1, <1>2 DEF Position
<1>9. Outcome'
  BY <1>1, <1>4 DEF Outcome, Complete
<1> QED BY <1>1, <1>2, <1>3, <1>5, <1>6, <1>7, <1>8, <1>9 DEF BusInv

(* The sensor drives the data wire only while the clock is low.            *)
LEMMA DriveStep ==
  ASSUME BusInv, Bus!SensorDrives
  PROVE  /\ BusInv' /\ (Bus!On' <=> Bus!On) /\ UNCHANGED <<buff, ret, regs, taken>>
         /\ Bus!On => Bus!scl = 0
<1>1. /\ pull # wish /\ pull' = wish
      /\ UNCHANGED <<data_dir, data_out, floating, phase, step, byte, bit, buff, ret, listening,
                     count, shift, got, wish, regs, taken, writes, restarts>>
  BY DEF Bus!SensorDrives, Bus!port_vars, Bus!driver_vars
<1>2. (Bus!On' <=> Bus!On) /\ wish \in BOOLEAN /\ pull \in BOOLEAN /\ BusTypes
  BY <1>1 DEF Bus!On, BusInv, BusTypes, Bus!TypeOK
<1>3. BusTypes'
  BY <1>1, <1>2 DEF BusTypes, Bus!TypeOK
<1>4. ASSUME ~Bus!On PROVE PoweringUp'
  <2>1. PoweringUp
    BY <1>4 DEF BusInv
  <2>2. ~(phase = "cmos_poweron" /\ step >= 5)
    BY <1>1, <1>2, <2>1 DEF PoweringUp
  <2> QED BY <1>1, <2>1, <2>2 DEF PoweringUp
<1>5. ASSUME Bus!On
      PROVE  Ports' /\ Answer' /\ Position' /\ Outcome' /\ Bus!scl = 0
  <2>1. Ports /\ Answer /\ Position /\ Outcome
    BY <1>5 DEF BusInv
  <2>2. Ports' /\ Position' /\ Outcome'
    BY <1>1, <2>1 DEF Ports, High, Yields, Position, Answering, Outcome, Complete
  <2>3. ~(phase = "ack" /\ step <= 5)
    BY <1>1, <2>1 DEF Answer
  <2>4. ~(phase \in {"idle", "start", "stop"} \/ (phase = "bit" /\ step <= 4))
    BY <1>1, <1>2, <2>1 DEF Answer, Answering
  <2>5. Answer'
    BY <1>1, <2>1, <2>3, <2>4 DEF Answer, Answering
  <2>6. ~High
    <3>1. phase = "ack" => step \in 1 .. 7
      BY <1>2, PhaseIs, AckIs DEF BusTypes, Bus!TypeOK
    <3> QED BY <2>3, <2>4, <3>1 DEF High
  <2> QED BY <1>5, <2>2, <2>5, <2>6, WiresAre
<1> QED BY <1>1, <1>2, <1>3, <1>4, <1>5 DEF BusInv

(* A restart lets go of every pin.                                         *)
LEMMA RestartStep ==
  ASSUME BusInv, Bus!Restart
  PROVE  BusInv' /\ ~Bus!On' /\ buff' = <<>> /\ ret' = 0 /\ (regs' = regs \/ regs' = Blank)
<1>1. /\ restarts < MaxRestarts /\ restarts' = restarts + 1
      /\ writes' = 0 /\ floating' = floating
      /\ data_dir' = [p \in Bus!Pin |-> 0] /\ data_out' = [p \in Bus!Pin |-> 0]
      /\ phase' = "i2c_init" /\ step' = 1 /\ byte' = 1 /\ bit' = 7 /\ buff' = <<>> /\ ret' = 0
      /\ pull' = (pull /\ Bus!rstn' = 1) /\ Bus!SensorSees
  BY DEF Bus!Restart, Bus!Goto
<1>2. /\ ~Bus!On' /\ BusTypes /\ pull \in BOOLEAN
  BY <1>1 DEF Bus!On, BusInv, BusTypes, Bus!TypeOK
<1>3. /\ data_dir' \in [Bus!Pin -> 0 .. 1] /\ data_out' \in [Bus!Pin -> 0 .. 1]
      /\ data_dir'["scl"] = 0
  BY <1>1 DEF Bus!Pin
<1>4. Bus!scl' = 1 /\ ~Bus!Falls
  <2>1. Bus!scl' = 1
    BY <1>3 DEF Bus!scl
  <2> QED BY <2>1 DEF Bus!Falls
<1>5. Bus!Rises /\ listening /\ ~wish => count <= 7
  <2> SUFFICES ASSUME Bus!scl = 0, listening PROVE count <= 7
    BY DEF Bus!Rises
  <2>1. CASE ~Bus!On
    <3>1. data_dir["scl"] = 1 => data_out["scl"] = 1
      BY <2>1 DEF BusInv, PoweringUp, Bus!On
    <3> QED BY <3>1 DEF Bus!scl
  <2>2. CASE Bus!On
    <3>1. ~High /\ Position
      BY <2>2, WiresAre DEF BusInv
    <3>2. /\ bit \in 0 .. 7 /\ phase \in {"idle", "start", "bit", "ack", "stop"}
          /\ phase # "idle" => step \in DOMAIN Bus!Program[phase]
      BY <1>2, <2>2, PhaseIs DEF BusTypes, Bus!TypeOK, Bus!On
    <3>3. phase # "idle"
      BY <3>1 DEF High
    <3>4. CASE phase = "start"
      BY <3>1, <3>2, <3>4, PhaseIs, StartIs DEF High, Position
    <3>5. CASE phase = "bit"
      <4>1. step \in 1 .. 5
        BY <3>2, <3>5, PhaseIs, BitIs
      <4>2. Answering => count = 0
        BY <3>1, <3>5 DEF Position
      <4>3. ~Answering => count = IF step >= 3 THEN 8 - bit ELSE 7 - bit
        BY <3>1, <3>5 DEF Position
      <4>4. ~Answering /\ step >= 3 => bit > 0
        BY <3>1, <3>2, <3>5, <4>1 DEF High, Answering
      <4> QED BY <3>2, <4>2, <4>3, <4>4
    <3>6. CASE phase = "ack"
      BY <3>1, <3>6 DEF Position
    <3>7. CASE phase = "stop"
      BY <3>1, <3>2, <3>7 DEF High, Position
    <3> QED BY <3>2, <3>3, <3>4, <3>5, <3>6, <3>7
  <2> QED BY <2>1, <2>2
<1>6. BusTypes'
  <2>1. /\ listening' \in BOOLEAN /\ count' \in 0 .. 8 /\ shift' \in Bus!Byte
        /\ Len(got') \in 0 .. 4 /\ wish' \in BOOLEAN
        /\ regs' \in [Bus!Reg -> Bus!Byte \union {Unset}] /\ taken' \in BOOLEAN
        /\ got' \in Seq(Bus!Byte)
    BY <1>1, <1>2, <1>3, <1>4, <1>5, SensorInRange
  <2>2. pull' \in BOOLEAN /\ writes' \in 0 .. MaxWrites /\ restarts' \in 0 .. MaxRestarts
    BY <1>1, <1>2, BusAssumption DEF BusTypes, Bus!TypeOK
  <2>3. phase' \in DOMAIN Bus!Program /\ step' \in DOMAIN Bus!Program[phase']
    BY <1>1, PhaseIs, InitIs
  <2>4. floating' \in [{"pwdn", "rstn"} -> 0 .. 1]
    BY <1>1, <1>2 DEF BusTypes, Bus!TypeOK
  <2>5. Bus!TypeOK'
    BY <1>1, <1>3, <2>1, <2>2, <2>3, <2>4 DEF Bus!TypeOK
  <2> QED BY <1>1, <2>1, <2>5 DEF BusTypes
<1>7. PoweringUp'
  BY <1>1, <1>3 DEF PoweringUp
<1>8. regs' = regs \/ regs' = Blank
  BY <1>1, <1>4 DEF Bus!SensorSees, Blank
<1> QED BY <1>1, <1>2, <1>6, <1>7, <1>8 DEF BusInv

LEMMA BusInit == Bus!Init => BusInv
<1> SUFFICES ASSUME Bus!Init PROVE BusInv
  OBVIOUS
<1>1. ~Bus!On /\ phase = "i2c_init" /\ step = 1 /\ phase \in DOMAIN Bus!Program
      /\ step \in DOMAIN Bus!Program[phase]
  BY PhaseIs, InitIs DEF Bus!Init, Bus!On
<1>2. PoweringUp
  BY <1>1 DEF Bus!Init, PoweringUp, Bus!Pin
<1>3. BusTypes
  <2>1. /\ data_dir \in [Bus!Pin -> 0 .. 1] /\ data_out \in [Bus!Pin -> 0 .. 1]
        /\ floating \in [{"pwdn", "rstn"} -> 0 .. 1]
        /\ byte \in 1 .. 4 /\ bit \in 0 .. 7 /\ buff = <<>> /\ ret \in 0 .. 4
    BY DEF Bus!Init
  <2>2. /\ listening \in BOOLEAN /\ count \in 0 .. 8 /\ shift \in Bus!Byte
        /\ Len(got) \in 0 .. 4 /\ pull \in BOOLEAN /\ wish \in BOOLEAN
        /\ got \in Seq(Bus!Byte) /\ taken \in BOOLEAN
    <3>1. /\ listening = FALSE /\ count = 0 /\ shift = 0 /\ got = <<>> /\ pull = FALSE
          /\ wish = FALSE
          /\ taken = FALSE
      BY DEF Bus!Init
    <3>2. <<>> \in Seq(Bus!Byte) /\ Len(<<>>) = 0 /\ 0 \in Bus!Byte
      BY DEF Bus!Byte
    <3>3. got \in Seq(Bus!Byte) /\ Len(got) \in 0 .. 4
      BY <3>1, <3>2
    <3>4. listening \in BOOLEAN /\ pull \in BOOLEAN /\ wish \in BOOLEAN /\ taken \in BOOLEAN
      BY <3>1, Zenon
    <3>5. count \in 0 .. 8 /\ shift \in Bus!Byte
      BY <3>1, <3>2
    <3> QED BY <3>3, <3>4, <3>5
  <2>3. regs \in [Bus!Reg -> Bus!Byte \union {Unset}]
    BY DEF Bus!Init
  <2>4. writes \in 0 .. MaxWrites /\ restarts \in 0 .. MaxRestarts
    BY BusAssumption DEF Bus!Init
  <2>5. Bus!TypeOK
    BY <1>1, <2>1, <2>2, <2>3, <2>4 DEF Bus!TypeOK
  <2> QED BY <1>1, <2>1, <2>2, <2>5 DEF BusTypes
<1> QED BY <1>1, <1>2, <1>3 DEF BusInv

LEMMA BusNext == BusInv /\ [Bus!Next]_Bus!vars => BusInv'
<1> SUFFICES ASSUME BusInv, [Bus!Next]_Bus!vars PROVE BusInv'
  OBVIOUS
<1>1. CASE Bus!Statement
  <2>1. phase \in {"i2c_init", "cmos_poweron", "start", "bit", "ack", "stop"}
    BY <1>1, StatementIs, PhaseIs DEF BusInv, BusTypes, Bus!TypeOK
  <2> QED BY <1>1, <2>1, InitStep, PoweronStep, StartStep, BitStep, AckStep, StopStep
<1>2. CASE \E w \in Write : Bus!ov_wr_reg(w)
  BY <1>2, CallStep
<1>3. CASE Bus!SensorDrives
  BY <1>3, DriveStep
<1>4. CASE Bus!Restart
  BY <1>4, RestartStep
<1>5. CASE UNCHANGED Bus!vars
  BY <1>5 DEF Bus!vars, Bus!port_vars, Bus!driver_vars, Bus!sensor_vars, BusInv, BusTypes,
     Bus!TypeOK, Bus!On, PoweringUp,
              Ports, Answer, Position, Outcome, Answering, Complete, High, Yields
<1> QED BY <1>1, <1>2, <1>3, <1>4, <1>5 DEF Bus!Next, Bus!Elsewhere

LEMMA BusNoFight == BusInv => Bus!NoFight
<1> SUFFICES ASSUME BusInv, Bus!On, Bus!scl = 1, pull, data_dir["sda"] = 1 PROVE FALSE
  BY DEF Bus!NoFight
<1>1. High /\ ~Yields
  BY WiresAre DEF BusInv, Ports
<1>2. phase \in DOMAIN Bus!Program \union {"idle"} /\ (phase # "idle" => step \in DOMAIN Bus!Program[phase])
      /\ wish \in BOOLEAN
  BY DEF BusInv, BusTypes, Bus!TypeOK
<1>3. phase = "bit" /\ step <= 4
  BY <1>1, <1>2 DEF High, Yields, BusInv, Answer
<1> QED BY <1>3 DEF BusInv, Answer

(* The data wire moves under a high clock where START or STOP is meant.    *)
LEMMA NextSteady == BusInv /\ [Bus!Next]_Bus!vars => [Bus!On /\ Bus!On' => Steady]_Bus!vars
<1> SUFFICES ASSUME BusInv, Bus!Next, Bus!On, Bus!On' PROVE Steady \/ UNCHANGED Bus!vars
  OBVIOUS
<1>1. CASE Bus!Statement
  <2>1. phase \in {"i2c_init", "cmos_poweron", "start", "bit", "ack", "stop"}
    BY <1>1, StatementIs, PhaseIs DEF BusInv, BusTypes, Bus!TypeOK
  <2> QED BY <1>1, <2>1, StartStep, BitStep, AckStep, StopStep DEF Bus!On
<1>2. CASE \E w \in Write : Bus!ov_wr_reg(w)
  <2>1. UNCHANGED <<data_dir, data_out, pull>>
    BY <1>2, CallStep
  <2> QED BY <2>1 DEF Steady, Bus!sda
<1>3. CASE Bus!SensorDrives
  <2>1. Bus!scl = 0
    BY <1>3, DriveStep
  <2> QED BY <2>1 DEF Steady
<1>4. CASE Bus!Restart
  BY <1>4, RestartStep
<1> QED BY <1>1, <1>2, <1>3, <1>4 DEF Bus!Next, Bus!Elsewhere

-----------------------------------------------------------------------------
(* Every step of the wires is a step of the bus that ov_wr_reg promises.   *)

LEMMA BusIs ==
  /\ Bus!Bus!vars = <<Bus!On, IF buff = <<>> THEN <<>> ELSE <<buff[2] * 256 + buff[3], buff[4]>>,
                      taken /\ buff # <<>>, regs,
                      IF buff # <<>> THEN "busy" ELSE IF ret = 0 THEN "ok" ELSE "nack">>
  /\ Bus!Bus!Reg = Bus!Reg /\ Bus!Bus!Fresh = Blank
BY DEF Bus!Bus!vars, Bus!Bus!Reg, Bus!Reg, Bus!Bus!Fresh, Blank

LEMMA Stutter ==
  ASSUME Bus!On' <=> Bus!On, UNCHANGED <<buff, taken, regs>>, buff = <<>> => ret' = ret
  PROVE  UNCHANGED Bus!Bus!vars
BY DEF Bus!Bus!vars, Bus!On

LEMMA TakeStep ==
  ASSUME Bus!On, Bus!On', buff' = buff, NEW w \in Write, buff = Sent(w), buff # <<>>,
         ~taken, taken' = TRUE, Stores(buff[2] * 256 + buff[3], buff[4])
  PROVE  Bus!Bus!Take
<1>1. w[1] \in Nat /\ buff[2] * 256 + buff[3] = w[1] /\ buff[4] = w[2]
  <2>1. /\ w[1] \in Nat /\ buff[2] = w[1] \div 256 /\ buff[3] = w[1] % 256
        /\ buff[4] = w[2]
    BY BusAssumption DEF Sent
  <2>2. (w[1] \div 256) * 256 + (w[1] % 256) = w[1]
    BY <2>1
  <2> QED BY <2>1, <2>2
<1>2. Stores(w[1], w[2])
  BY ONLY <1>1, Stores(buff[2] * 256 + buff[3], buff[4]), Zenon
<1>3. w[1] \in Bus!Reg
  BY DEF Bus!Reg
<1>4. regs' = [regs EXCEPT ![w[1]] = w[2]]
  BY <1>2, <1>3, Zenon DEF Stores
<1>5. LET c == IF buff = <<>> THEN <<>> ELSE <<buff[2] * 256 + buff[3], buff[4]>>
      IN  c = <<w[1], w[2]>> /\ c' = c
  BY <1>1
<1>6. /\ <<w[1], w[2]>> # <<>>
      /\ <<w[1], w[2]>>[1] = w[1] /\ <<w[1], w[2]>>[2] = w[2]
  OBVIOUS
<1> QED BY <1>4, <1>5, <1>6 DEF Bus!Bus!Take, Bus!On

LEMMA ReturnStep ==
  ASSUME Bus!On, Bus!On', buff # <<>>, buff' = <<>>, UNCHANGED <<regs, taken, ret>>, taken <=> ret = 0
  PROVE  Bus!Bus!Return
BY DEF Bus!Bus!Return, Bus!On

LEMMA NextBus == BusInv /\ [Bus!Next]_Bus!vars => [Bus!Bus!Next]_Bus!Bus!vars
<1> SUFFICES ASSUME BusInv, [Bus!Next]_Bus!vars PROVE Bus!Bus!Next \/ UNCHANGED Bus!Bus!vars
  OBVIOUS
<1>1. CASE Bus!Statement
  <2>1. phase \in {"i2c_init", "cmos_poweron", "start", "bit", "ack", "stop"}
    BY <1>1, StatementIs, PhaseIs DEF BusInv, BusTypes, Bus!TypeOK
  <2>2. CASE phase = "i2c_init"
    <3>1. ~Bus!On /\ ~Bus!On' /\ UNCHANGED <<buff, ret>> /\ (regs' = regs \/ regs' = Blank) /\ buff = <<>>
      BY <1>1, <2>2, InitStep DEF Bus!On, BusInv, PoweringUp
    <3> QED BY <3>1, BusIs DEF Bus!Bus!Next, Bus!Bus!Down, Bus!Bus!vars, Bus!On
  <2>3. CASE phase = "cmos_poweron"
    <3>1. /\ ~Bus!On /\ UNCHANGED <<buff, ret>> /\ (regs' = regs \/ regs' = Blank) /\ buff = <<>>
          /\ Bus!On' => regs' = Blank
      BY <1>1, <2>3, PoweronStep DEF Bus!On, BusInv, PoweringUp
    <3>2. CASE Bus!On'
      BY <3>1, <3>2, BusIs DEF Bus!Bus!Next, Bus!Bus!PowerUp, Bus!On
    <3>3. CASE ~Bus!On'
      BY <3>1, <3>3, BusIs DEF Bus!Bus!Next, Bus!Bus!Down, Bus!Bus!vars, Bus!On
    <3> QED BY <3>2, <3>3
  <2>4. ASSUME phase \in {"start", "bit", "ack", "stop"}
        PROVE  Bus!On /\ buff # <<>> /\ \E w \in Write : buff = Sent(w)
    BY <2>4 DEF Bus!On, BusInv, Outcome
  <2>5. CASE phase \in {"start", "ack"}
    BY <1>1, <2>4, <2>5, StartStep, AckStep, Stutter
  <2>6. CASE phase = "bit"
    <3>1. /\ Bus!On' /\ buff' = buff
          /\ \/ UNCHANGED <<regs, taken>>
             \/ ~taken /\ taken' = TRUE /\ Stores(buff[2] * 256 + buff[3], buff[4])
      BY <1>1, <2>6, BitStep
    <3>2. CASE UNCHANGED <<regs, taken>>
      BY <2>4, <2>6, <3>1, <3>2, Stutter
    <3>3. CASE ~taken /\ taken' = TRUE /\ Stores(buff[2] * 256 + buff[3], buff[4])
      BY <2>4, <2>6, <3>1, <3>3, TakeStep DEF Bus!Bus!Next
    <3> QED BY <3>1, <3>2, <3>3
  <2>7. CASE phase = "stop"
    <3>1. /\ Bus!On' /\ UNCHANGED <<regs, taken, ret>> /\ (taken <=> ret = 0)
          /\ buff' = buff \/ buff' = <<>>
      BY <1>1, <2>7, StopStep
    <3>2. CASE buff' = buff
      BY <2>4, <2>7, <3>1, <3>2, Stutter
    <3>3. CASE buff' = <<>>
      BY <2>4, <2>7, <3>1, <3>3, ReturnStep DEF Bus!Bus!Next
    <3> QED BY <3>1, <3>2, <3>3
  <2> QED BY <2>1, <2>2, <2>3, <2>5, <2>6, <2>7
<1>2. CASE \E w \in Write : Bus!ov_wr_reg(w)
  <2>1. PICK w \in Write : Bus!ov_wr_reg(w)
    BY <1>2
  <2>2. /\ Bus!On /\ Bus!On' /\ regs' = regs /\ buff = <<>> /\ buff' = Sent(w) /\ taken' = FALSE
    BY <2>1, CallStep
  <2>3. Sent(w) # <<>> /\ Sent(w)[2] * 256 + Sent(w)[3] = w[1] /\ Sent(w)[4] = w[2]
        /\ w = <<w[1], w[2]>>
    <3>1. w[1] \in Nat /\ w = <<w[1], w[2]>>
      BY BusAssumption
    <3>2. (w[1] \div 256) * 256 + (w[1] % 256) = w[1]
      BY <3>1
    <3> QED BY <3>1, <3>2 DEF Sent
  <2>4. Bus!Bus!Call(w)
    BY <2>2, <2>3 DEF Bus!Bus!Call, Bus!On
  <2> QED BY <2>4 DEF Bus!Bus!Next
<1>3. CASE Bus!SensorDrives
  BY <1>3, DriveStep, Stutter
<1>4. CASE Bus!Restart
  <2>1. /\ ~Bus!On' /\ buff' = <<>> /\ ret' = 0 /\ (regs' = regs \/ regs' = Blank)
    BY <1>4, RestartStep
  <2>2. Bus!Bus!Restart
    BY <2>1, BusIs DEF Bus!Bus!Restart, Bus!On
  <2> QED BY <2>2 DEF Bus!Bus!Next
<1>5. CASE UNCHANGED Bus!vars
  BY <1>5, Stutter DEF Bus!vars, Bus!driver_vars, Bus!sensor_vars, Bus!On
<1> QED BY <1>1, <1>2, <1>3, <1>4, <1>5 DEF Bus!Next, Bus!Elsewhere

LEMMA InitBus == Bus!Init => Bus!Bus!Init
BY DEF Bus!Init, Bus!Bus!Init, Bus!On, Bus!Bus!Fresh, Bus!Bus!Reg, Bus!Reg

-----------------------------------------------------------------------------
(* The four parts together: a step of one is a stutter of the others.      *)

Sound == IInv /\ OwnEffect /\ IrqInv /\ WhiteInv /\ BusInv

LEMMA PartsStart == AdjustmentInit => Sound
BY InitIInv, IrqInit, WhiteInit, BusInit DEF AdjustmentInit, Sound, Init, OwnEffect

LEMMA PartsRun ==
  [AdjustmentNext]_all =>
    [Next]_vars /\ [Irq!Next]_Irq!vars /\ [White!Next]_White!vars /\ [Bus!Next]_Bus!vars
<1>1. UNCHANGED irqs => UNCHANGED Irq!vars
  BY DEF irqs, Irq!vars, Irq!hw_vars, Irq!dvp_vars, Irq!hal_vars
<1>2. UNCHANGED white => UNCHANGED White!vars
  BY DEF white, White!vars
<1>3. UNCHANGED bus => UNCHANGED Bus!vars
  BY DEF bus, Bus!vars, Bus!port_vars, Bus!driver_vars, Bus!sensor_vars
<1>4. UNCHANGED all => UNCHANGED <<vars, irqs, white, bus>>
  BY DEF all
<1> QED BY <1>1, <1>2, <1>3, <1>4, Zenon DEF AdjustmentNext

LEMMA PartsKeep == Sound /\ [AdjustmentNext]_all => Sound'
<1> SUFFICES ASSUME Sound, [AdjustmentNext]_all PROVE Sound'
  OBVIOUS
<1>1. IInv' /\ OwnEffect'
  BY PartsRun, NextIInv, NextOwnEffect DEF Sound
<1>2. IrqInv'
  BY PartsRun, IrqNext DEF Sound
<1>3. WhiteInv'
  BY PartsRun, WhiteNext DEF Sound
<1>4. BusInv'
  BY PartsRun, BusNext DEF Sound
<1> QED BY <1>1, <1>2, <1>3, <1>4 DEF Sound

LEMMA PartsSound == AdjustmentSpec => []Sound
BY PartsStart, PartsKeep, PTL DEF AdjustmentSpec

(* The settings of isp_ae_handler stay between its limits and its          *)
(* registers in their fields, an adjustment judges a frame that was        *)
(* exposed with its own settings; the white balance gains fit their        *)
(* register and make a frame seen whole grey; the driver and the sensor    *)
(* never drive the data wire against each other.  For every word size,     *)
(* frame, scene, colour, quotient of a division by zero and register       *)
(* write, and any number of lost writes and restarts.                      *)
THEOREM AdjustmentSound == AdjustmentSpec => []SafeAdjustment
<1>1. IInv /\ OwnEffect => TypeOK /\ (Timely => SeesOwnEffect)
  BY DEF IInv, OwnEffect, SeesOwnEffect
<1>2. WhiteInv => White!TypeOK /\ White!GreyBecomesGrey
  BY InvGrey DEF WhiteInv
<1>3. BusInv => Bus!TypeOK /\ Bus!NoFight
  BY BusNoFight DEF BusInv, BusTypes
<1>4. Sound => SafeAdjustment
  BY <1>1, <1>2, <1>3 DEF Sound, SafeAdjustment
<1> QED BY <1>4, PartsSound, PTL

(* The HAL calls a handler only for a line that is pending and registered  *)
(* (alt_irq_handler.c:80-130), and the counters of hello_world.c:37-60 are *)
(* never ahead of the events, however the vsyncs fall.                     *)
THEOREM InterruptsSound == AdjustmentSpec => []SafeInterrupts
<1>1. IrqInv => Irq!TypeOK /\ Irq!DispatchFinds /\ Irq!InterruptsAreEvents
  BY DEF IrqInv, IrqTypes, Handled, Irq!DispatchFinds, Irq!Pending
<1>2. Sound => SafeInterrupts
  BY <1>1 DEF Sound, SafeInterrupts
<1> QED BY <1>2, PartsSound, PTL

(* hello_world.c:41-49: in the timely case no frame is worked on twice.    *)
THEOREM NewFrame == AdjustmentSpec => EachRunNewFrame
<1>1. Sound /\ [AdjustmentNext]_all =>
        [ timely =>
            /\ hal = "ae" /\ hal' = "awb" => seen'["ae"] > seen["ae"]
            /\ hal = "awb" /\ hal' = "return" => seen'["awb"] = seen["ae"] ]_Irq!vars
  BY PartsRun, NextNewFrame, Zenon DEF Sound
<1> QED BY <1>1, PartsSound, PTL DEF AdjustmentSpec, EachRunNewFrame, Irq!EachRunNewFrame

(* Every adjustment moves the right way, and moves unless it is pushed     *)
(* against both limits (avalon_isp_algo_2a.c:20-54).                       *)
THEOREM MovesRight == AdjustmentSpec => AdjustsTheRightWay
<1>1. Sound /\ [AdjustmentNext]_all => [pc = 0 /\ pc' = 1 => RightWay]_vars
  BY PartsRun, NextRightWay, Zenon DEF Sound
<1> QED BY <1>1, PartsSound, PTL DEF AdjustmentSpec, AdjustsTheRightWay

(* When the last register has been written, and none was lost, the sensor  *)
(* is set as the handler believes (ov5640_drv.c:280-291).                  *)
THEOREM Follows == AdjustmentSpec => SensorFollows
<1>1. Sound /\ Sound' /\ [AdjustmentNext]_all =>
        [pc = 4 /\ pc' = 0 /\ lost' = 0 => Followed]_vars
  BY PartsRun, NextFollowed, Zenon DEF Sound
<1> QED BY <1>1, PartsSound, PTL DEF AdjustmentSpec, SensorFollows

(* ov5640_drv.c:27-138: while the clock is high the data wire moves only   *)
(* where a START or a STOP is meant, and every step of the wires is a step *)
(* or a stutter of RegisterBus: a call stores its value in its register or *)
(* fails and stores nothing, and says which, wherever the CPU restarts.    *)
THEOREM BusCarries == AdjustmentSpec => BusWorks
<1>1. Sound /\ [AdjustmentNext]_all =>
        [Bus!On /\ Bus!On' /\ Bus!scl = 1 /\ Bus!scl' = 1 /\ Bus!sda' # Bus!sda
          => \/ phase = "start" /\ Bus!sda' = 0
             \/ phase = "stop" /\ Bus!sda' = 1]_Bus!vars
  BY PartsRun, NextSteady, Zenon DEF Sound, Steady
<1>2. Sound /\ [AdjustmentNext]_all => [Bus!Bus!Next]_Bus!Bus!vars
  BY PartsRun, NextBus, Zenon DEF Sound
<1>3. AdjustmentInit => Bus!Bus!Init
  BY InitBus DEF AdjustmentInit
<1> QED BY <1>1, <1>2, <1>3, PartsSound, PTL
        DEF AdjustmentSpec, BusWorks, Bus!StableWhileHigh,
            Bus!ImplementsRegisterBus, Bus!Bus!Spec
=============================================================================
