------------------------------ MODULE Startup ------------------------------
(***************************************************************************)
(* main of hello_world.c from its first register access to its loop: the   *)
(* memory map it goes through, the table it sends to the OV5640, and the   *)
(* order in which it hands the frame buffers to the capture and display    *)
(* channels and registers the handler that will use the sensor's bus.      *)
(*                                                                         *)
(* The program is a sequence of operations, one register access each.  A   *)
(* register is reached through its address only: the bus decodes base +    *)
(* 4 * register with the bases and spans of system.h, and the modules      *)
(* number their registers themselves.  Between any two operations a frame  *)
(* may end, the handler may run, the sensor may set its own exposure while *)
(* it is allowed to, a byte to it may be refused, and the CPU alone may be *)
(* reset (the program is loaded again over a running pipeline).            *)
(***************************************************************************)
EXTENDS Integers, Sequences, SequencesExt

CONSTANTS
  lcd_fb, cap_fb,  \* where the linker puts the two buffers
  MaxLost,         \* bound: writes the sensor refuses
  MaxRestarts      \* bound: resets of the CPU alone

VARIABLES
  pc,          \* next operation of main
  port,        \* registers of the modules: port[slave][name]
  stray,       \* an access reached no register, or not the one it names
  filled,      \* lcd_fb holds the colour bars
  registered,  \* isp_isr is registered
  odd,         \* isp_frame_int & 1
  stat,        \* the statistics registers: of a whole frame?  all enabled?
  running,     \* frames that ended since the pipeline left reset, 0..2
  handler,     \* latest run of the 2A handlers: bus free? statistics as stat
  sensor,      \* the sensor's registers
  wish,        \* exposure and gain registers as the program wants them
  lost,        \* writes refused since the latest start
  restarts

vars == <<pc, port, stray, filled, registered, odd, stat, running, handler, sensor, wish, lost, restarts>>

Width == 480
Height == 272
BufferSize == Width * Height * 2      \* sizeof(lcd_fb), sizeof(cap_fb)

-----------------------------------------------------------------------------
(* The memory map.                                                         *)
Slave(base, span) == [base |-> base, span |-> span]
ISP            == Slave(33554432, 16384)
DVP_VI         == Slave(33574912, 256)
VIP            == Slave(33575168, 256)
PLL            == Slave(33575424, 16)
DVP_WCH        == Slave(33575440, 16)
LCD_CONTROLLER == Slave(33575456, 16)
PIO            == Slave(33575472, 16)
JTAG_UART      == Slave(33575488, 8)
SYSID          == Slave(33575496, 8)
SDRAM          == Slave(0, 33554432)
SlaveOf == [isp |-> ISP, vi |-> DVP_VI, vip |-> VIP, pll |-> PLL, wch |-> DVP_WCH,
            lcd |-> LCD_CONTROLLER, pio |-> PIO, uart |-> JTAG_UART, sysid |-> SYSID, sdram |-> SDRAM]

Answers(a) == {s \in DOMAIN SlaveOf : a \in SlaveOf[s].base .. SlaveOf[s].base + SlaveOf[s].span - 1}
IOADDR(base, reg) == base + 4 * reg

(* Register numbers as the program's headers give them.                    *)
ISP_REG == [reset |-> 0, top_en |-> 1, mask |-> 28, hist |-> 1024, last |-> 1024 + 256 * 4 - 1]
VIP_REG == [reset |-> 0, top_en |-> 1, mask |-> 4]
VI_REG  == [reset |-> 0, width |-> 1, height |-> 2, frames |-> 3, colorbar |-> 4, mask |-> 6]
WCH_REG == [reset |-> 0, addr |-> 1, size |-> 2]
LCD_REG == [reset |-> 0, addr |-> 1]
REG == [isp |-> ISP_REG, vip |-> VIP_REG, vi |-> VI_REG, wch |-> WCH_REG, lcd |-> LCD_REG]

(* The enable bits main sets.                                              *)
isp_top_en == {0, 1, 3, 4, 5, 6, 7, 8, 9, 10}
STAT_AE == 9
STAT_AWB == 10
WB == 4
vip_top_en == {0, 2, 3}
DSCALE == 3

(* ... and as the modules number them.                                     *)
isp_regs == (0 :> "reset") @@ (1 :> "top_en") @@ (28 :> "mask") @@ (1024 :> "hist") @@ (2047 :> "last")
vip_regs == (0 :> "reset") @@ (1 :> "top_en") @@ (2 :> "scale") @@ (4 :> "mask")
vi_regs  == (0 :> "reset") @@ (1 :> "width") @@ (2 :> "height") @@ (3 :> "frames") @@ (4 :> "colorbar") @@ (6 :> "mask")
wch_regs == (0 :> "reset") @@ (1 :> "addr") @@ (2 :> "size")
lcd_regs == (0 :> "reset") @@ (1 :> "addr")
Registers == [isp |-> isp_regs, vip |-> vip_regs, vi |-> vi_regs, wch |-> wch_regs, lcd |-> lcd_regs]

PowerOn == [isp |-> [reset |-> 1, top_en |-> isp_top_en, mask |-> 1],
            vip |-> [reset |-> 1, top_en |-> {2, 3}, scale |-> 1, mask |-> 1],
            vi  |-> [reset |-> 1, colorbar |-> 0, mask |-> 1],
            wch |-> [reset |-> 1, addr |-> 0, size |-> 0],
            lcd |-> [reset |-> 1, addr |-> 0]]

(* What a written value becomes: isp_int_mask is cleared by any write.     *)
Latched(s, n, v) == IF s = "isp" /\ n = "mask" THEN 0 ELSE v

-----------------------------------------------------------------------------
(* The program.                                                            *)
Op(k, s, n, v) == [kind |-> k, slave |-> s, name |-> n, value |-> v]
W(s, n, v) == Op("write", s, n, v)
R(s, n) == Op("read", s, n, 0)
Reg(a, v) == Op("sensor", "pio", a, v)

SensorReset == <<Op("poweron", "pio", "", 0), Reg("mode", "reset"), Reg("mode", "down")>>
(* Subsampling by 2, the window, the output size and the frame and line    *)
(* lengths; the registers of clocks, analog part and image processing are  *)
(* sent in between and left out.                                           *)
SensorWindow == <<Reg("xinc", 49), Reg("yinc", 49),
  Reg("x0", 0), Reg("y0", 4), Reg("x1", 2623), Reg("y1", 1947),
  Reg("wh", 3), Reg("wl", 192), Reg("hh", 2), Reg("hl", 32),
  Reg("hts", 1896), Reg("vts", 984), Reg("xoff", 16), Reg("yoff", 7)>>
SensorStart == <<Reg("mode", "stream"), Reg("manual", 3), Reg("exposure", 768), Reg("gain", 64)>>
ov5640_init == SensorReset \o SensorWindow \o SensorStart

Handover == <<W("vi", "colorbar", 0), W("wch", "addr", cap_fb), W("wch", "size", BufferSize),
              R("wch", "addr"), R("wch", "size"),
              W("isp", "top_en", isp_top_en), W("vip", "top_en", vip_top_en)>>
Resets(v) == <<W("vi", "reset", v), W("isp", "reset", v), W("vip", "reset", v), W("wch", "reset", v)>>
Masks(v) == <<W("vi", "mask", v), W("isp", "mask", v), W("vip", "mask", v)>>
init_vi_isp_vip_wch_Early ==      \* mutant: out of reset before the buffer is set
  Resets(1) \o Masks(1) \o Resets(0) \o Handover \o <<Op("register", "isp", "", 0)>> \o Masks(0)
init_vi_isp_vip_wch ==
  Resets(1) \o Masks(1) \o Handover \o Resets(0) \o <<Op("register", "isp", "", 0)>> \o Masks(0)

Setup == <<W("lcd", "reset", 1)>> \o ov5640_init \o <<Op("fill", "sdram", "", 0)>>
         \o <<W("lcd", "addr", cap_fb), W("lcd", "reset", 0), R("lcd", "addr"), R("lcd", "reset")>>
         \o init_vi_isp_vip_wch
Loop == <<W("lcd", "addr", lcd_fb), W("lcd", "addr", cap_fb), R("vi", "width"), R("vi", "height"),
          R("vi", "frames"), R("isp", "hist"), R("isp", "last")>>
main == Setup \o Loop
AfterLoop == Len(Setup) + 1

-----------------------------------------------------------------------------
(* The sensor.  After power-on or a software reset it streams its full     *)
(* size and sets its own exposure.                                         *)
SensorDefault == [mode |-> "stream", xinc |-> 17, yinc |-> 17, x0 |-> 0, y0 |-> 4, x1 |-> 2623, y1 |-> 1947,
                  wh |-> 10, wl |-> 32, hh |-> 7, hl |-> 152, hts |-> 2844, vts |-> 1968,
                  xoff |-> 16, yoff |-> 4, manual |-> 0, exposure |-> 2, gain |-> 16]
Stored(r, n, v) == IF n = "mode" /\ v = "reset" THEN SensorDefault ELSE [r EXCEPT ![n] = v]
OutW == sensor.wh * 256 + sensor.wl
OutH == sensor.hh * 256 + sensor.hl

(* The frame the capture channel receives: one pixel in scale + 1, both    *)
(* ways, two bytes each.                                                   *)
Scale == IF DSCALE \in port.vip.top_en THEN port.vip.scale + 1 ELSE 1
FrameBytes == (OutW \div Scale) * (OutH \div Scale) * 2

Flowing == sensor.mode = "stream" /\ port.vi.reset = 0 /\ port.isp.reset = 0
InSensor(o) == o.kind \in {"sensor", "poweron"}

Init ==
  /\ pc = 1 /\ port = PowerOn /\ stray = FALSE /\ filled = FALSE
  /\ registered = FALSE /\ odd = FALSE
  /\ stat = [whole |-> FALSE, enabled |-> FALSE, fresh |-> FALSE]
  /\ running = 0
  /\ handler = [busfree |-> TRUE, whole |-> TRUE, enabled |-> TRUE]
  /\ sensor = SensorDefault /\ wish = [exposure |-> 0, gain |-> 0]
  /\ lost = 0 /\ restarts = 0

(* One access of main to a module's register.                              *)
Hit(o) == LET a == IOADDR(SlaveOf[o.slave].base, REG[o.slave][o.name])
          IN  {<<s, r>> \in Answers(a) \X {(a - SlaveOf[o.slave].base) \div 4} :
                 s \in DOMAIN Registers /\ r \in DOMAIN Registers[s]}
Access(o) ==
  /\ o.kind \in {"read", "write"}
  /\ LET hit == Hit(o) IN
       /\ stray' = (stray \/ {<<h[1], Registers[h[1]][h[2]]>> : h \in hit} # {<<o.slave, o.name>>})
       /\ port' = IF o.kind = "read" THEN port
                  ELSE [s \in DOMAIN port |-> [n \in DOMAIN port[s] |->
                          IF \E h \in hit : h[1] = s /\ Registers[s][h[2]] = n
                          THEN Latched(s, n, o.value) ELSE port[s][n]]]
       /\ running' = IF port'.isp.reset = 1 THEN 0 ELSE running
  /\ pc' = IF pc = Len(main) THEN AfterLoop ELSE pc + 1
  /\ UNCHANGED <<filled, registered, odd, stat, handler, sensor, wish, lost, restarts>>

(* A register write to the sensor over its two-wire bus; ov_wr_reg does    *)
(* not look at the acknowledge.                                            *)
ToSensor(o) ==
  /\ InSensor(o)
  /\ wish' = IF o.name \in {"exposure", "gain"} THEN [wish EXCEPT ![o.name] = o.value] ELSE wish
  /\ \/ /\ sensor' = IF o.kind = "poweron" THEN SensorDefault ELSE Stored(sensor, o.name, o.value)
        /\ lost' = lost
     \/ o.kind = "sensor" /\ lost < MaxLost /\ lost' = lost + 1 /\ UNCHANGED sensor
  /\ running' = 0      \* the frame that was being received ends short
  /\ pc' = pc + 1
  /\ UNCHANGED <<port, stray, filled, registered, odd, stat, handler, restarts>>

Fill(o) == o.kind = "fill" /\ filled' = TRUE /\ pc' = pc + 1
        /\ UNCHANGED <<port, stray, registered, odd, stat, running, handler, sensor, wish, lost, restarts>>

alt_ic_isr_register(o) ==
  /\ o.kind = "register" /\ registered' = TRUE /\ pc' = pc + 1
  /\ UNCHANGED <<port, stray, filled, odd, stat, running, handler, sensor, wish, lost, restarts>>

(* A frame has run through the ISP: the statistics are of a whole frame    *)
(* only when one has ended before.                                         *)
FrameEnd ==
  /\ Flowing
  /\ stat' = [whole |-> running > 0, enabled |-> {STAT_AE, STAT_AWB, WB} \subseteq port.isp.top_en, fresh |-> TRUE]
  /\ running' = 1
  /\ UNCHANGED <<pc, port, stray, filled, registered, odd, handler, sensor, wish, lost, restarts>>

(* isp_isr, while main is at o: every second interrupt runs the two loops, *)
(* of which the first writes the sensor's exposure and gain.               *)
isp_isr(o) ==
  /\ registered /\ stat.fresh /\ port.isp.mask = 0
  /\ stat' = [stat EXCEPT !.fresh = FALSE]
  /\ odd' = ~odd
  /\ IF odd
     THEN /\ handler' = [busfree |-> ~InSensor(o), whole |-> stat.whole, enabled |-> stat.enabled]
          /\ \E v \in {[exposure |-> 512, gain |-> 64], [exposure |-> 1023, gain |-> 80]} :
               /\ wish' = v
               /\ \/ sensor' = [sensor EXCEPT !.exposure = v.exposure, !.gain = v.gain] /\ lost' = lost
                  \/ lost < MaxLost /\ lost' = lost + 1 /\ sensor' = [sensor EXCEPT !.gain = v.gain]
     ELSE UNCHANGED <<handler, wish, sensor, lost>>
  /\ UNCHANGED <<pc, port, stray, filled, registered, running, restarts>>

(* The sensor sets its own exposure and gain until it is told not to.      *)
SensorAdjusts ==
  /\ sensor.mode = "stream" /\ sensor.manual = 0
  /\ sensor' = [sensor EXCEPT !.exposure = 1, !.gain = 1]
  /\ UNCHANGED <<pc, port, stray, filled, registered, odd, stat, running, handler, wish, lost, restarts>>

(* The CPU starts again; no module is reset.                               *)
Restart ==
  /\ restarts < MaxRestarts /\ restarts' = restarts + 1
  /\ pc' = 1 /\ filled' = FALSE /\ registered' = FALSE /\ odd' = FALSE /\ lost' = 0
  /\ UNCHANGED <<port, stray, stat, running, handler, sensor, wish>>

Operation(o) == Access(o) \/ ToSensor(o) \/ Fill(o) \/ alt_ic_isr_register(o) \/ isp_isr(o)
Next == Operation(main[pc]) \/ FrameEnd \/ SensorAdjusts \/ Restart
Spec == Init /\ [][Next]_vars

-----------------------------------------------------------------------------
(* Every access of main reaches the register it names, and no other.       *)
NoStray == ~stray

(* Neither channel leaves reset before it has its buffer, also when the    *)
(* pipeline was left running by an earlier start, and the colour bars are  *)
(* shown only once drawn, but for a CPU that has not begun again yet.      *)
BuffersHandedOver ==
  /\ port.wch.reset = 0 => port.wch.addr = cap_fb /\ port.wch.size = BufferSize
  /\ port.lcd.reset = 0 => port.lcd.addr = cap_fb \/ (port.lcd.addr = lcd_fb /\ (filled \/ pc = 1))
  /\ {cap_fb, lcd_fb} \subseteq SDRAM.base .. SDRAM.base + SDRAM.span - BufferSize
  /\ cap_fb + BufferSize <= lcd_fb \/ lcd_fb + BufferSize <= cap_fb

(* The handlers never use the sensor's bus inside a transfer of main's,    *)
(* and work on statistics gathered with the statistics and the gains       *)
(* enabled, of a whole frame.  After a reset of the CPU alone the last     *)
(* does not hold: an event left pending by the earlier start takes the     *)
(* place of the first interrupt, which the handler would have skipped.     *)
HandlerAlone == handler.busfree /\ handler.enabled /\ (restarts = 0 => handler.whole)

(* Unless a write was refused: once main is past the sensor, a frame is as *)
(* large as the buffer it goes to, the window lies on the pixel array and  *)
(* in the frame, and the sensor exposes as the program last said.          *)
SensorAsTold ==
  lost = 0 /\ pc > 1 + Len(ov5640_init) =>
    /\ sensor.mode = "stream" /\ FrameBytes = BufferSize
    /\ OutW + 2 * sensor.xoff <= (sensor.x1 - sensor.x0 + 1) \div 2
    /\ OutH + 2 * sensor.yoff <= (sensor.y1 - sensor.y0 + 1) \div 2
    /\ OutW < sensor.hts /\ OutH < sensor.vts
    /\ sensor.manual = 3 /\ sensor.exposure = wish.exposure /\ sensor.gain = wish.gain

(* Started: the start-up in one invariant.                                 *)
Started ==
  /\ pc \in 1..Len(main)
  /\ NoStray /\ BuffersHandedOver /\ HandlerAlone /\ SensorAsTold
=============================================================================
