------------------------------ MODULE SensorBus ------------------------------
(***************************************************************************)
(* The two-wire bus of src/prj_eclipse/nios2_camera_sdram_lcd/ov5640_drv.c *)
(* bit by bit: the parallel port, the driver's statements (i2c_init,       *)
(* cmos_poweron, i2c_write_byte, ov_wr_reg) and the sensor at the other    *)
(* end.  The CPU may restart at any statement.                             *)
(*                                                                         *)
(* Every ..._SET macro reads the data register of the port, changes one    *)
(* bit and writes all of them back.  The port is bidirectional: that       *)
(* register reads the PINS, so each write also copies the level of every   *)
(* other pin into its output register.  Nothing else uses the port while   *)
(* the driver runs, so a macro is one step.                                *)
(*                                                                         *)
(* The sensor is external: it stores and acknowledges a byte when the      *)
(* clock falls after its eighth bit, or does neither; it drives and        *)
(* releases the data wire some time after the clock has fallen, within an  *)
(* I2C_DELAY.  Undriven wires of the bus are pulled up; an undriven pwdn   *)
(* or rstn has the level the board gives it.                               *)
(***************************************************************************)
EXTENDS Integers, Sequences

CONSTANTS
  Write,        \* the calls of ov_wr_reg: <<register, value>>
  Unset,        \* what a register holds after a reset: no byte
  MaxWrites,    \* bound: calls since the latest start of the CPU
  MaxRestarts   \* bound: restarts of the CPU

Byte == 0..255

Reg == {w[1] : w \in Write}
Pin == {"scl", "sda", "pwdn", "rstn"}
Address == 120       \* (0x78 >> 1) << 1

VARIABLES
  data_dir, data_out,       \* registers of the port: 1 drives the pin
  floating,     \* levels of pwdn and rstn while undriven; never changes
  phase, step,  \* the driver: which statements, and the next one of them
  byte, bit,    \* its loop counters: 1..4 for addr, buff; 7 first
  buff, ret,    \* the four bytes of the call in progress, or <<>>
  listening,    \* the sensor: between START and STOP, and not refused
  count, shift, got,        \* ... bits and value of this byte, bytes before it
  pull, wish,   \* ... pulls the data wire low, and means to
  regs,         \* ... its registers
  taken,        \* history: the sensor stored the value of this call
  writes, restarts

port_vars   == <<data_dir, data_out>>
driver_vars == <<phase, step, byte, bit, buff, ret>>
sensor_vars == <<listening, count, shift, got, pull, wish, regs, taken>>
vars == <<port_vars, floating, driver_vars, sensor_vars, writes, restarts>>

(* The level of each wire.                                                 *)
scl  == IF data_dir["scl"] = 1 THEN data_out["scl"] ELSE 1
sda  == IF data_dir["sda"] = 1 THEN data_out["sda"] ELSE IF pull THEN 0 ELSE 1
pwdn == IF data_dir["pwdn"] = 1 THEN data_out["pwdn"] ELSE floating["pwdn"]
rstn == IF data_dir["rstn"] = 1 THEN data_out["rstn"] ELSE floating["rstn"]
data_in == [scl |-> scl, sda |-> sda, pwdn |-> pwdn, rstn |-> rstn]

-----------------------------------------------------------------------------
(* The driver's statements.                                                *)
Set(p, x) == [op |-> "set", pin |-> p, value |-> x]
Out(p)    == [op |-> "dir", pin |-> p, value |-> 1]
In(p)     == [op |-> "dir", pin |-> p, value |-> 0]
Delay     == [op |-> "delay", pin |-> "scl", value |-> 0]
Get       == [op |-> "get", pin |-> "sda", value |-> 0]
SetBit    == [op |-> "bit", pin |-> "sda", value |-> 0]

i2c_init == <<Set("scl", 1), Set("sda", 1), Out("scl"), Out("sda"), Delay>>

cmos_poweron ==
  <<Set("pwdn", 1), Set("rstn", 0), Out("pwdn"), Out("rstn"), Delay,
    Set("pwdn", 0), Delay, Set("rstn", 1), Delay>>

start == <<Set("scl", 1), Set("sda", 1), Out("sda"), Delay,
           Set("sda", 0), Delay, Set("scl", 0), Delay>>
data_bit_Late ==           \* mutant: the bit follows the clock
  <<Set("scl", 1), SetBit, Delay, Set("scl", 0), Delay>>
data_bit == <<SetBit, Set("scl", 1), Delay, Set("scl", 0), Delay>>
ack   == <<In("sda"), Set("scl", 1), Delay, Get, Set("scl", 0), Out("sda"), Delay>>
stop  == <<Set("sda", 0), Set("scl", 1), Delay, Set("sda", 1), Delay>>

Program == [i2c_init |-> i2c_init, cmos_poweron |-> cmos_poweron, start |-> start,
            bit |-> data_bit, ack |-> ack, stop |-> stop]

Init ==
  /\ data_dir = [p \in Pin |-> 0] /\ data_out = [p \in Pin |-> 0]
  /\ floating \in [{"pwdn", "rstn"} -> 0..1]
  /\ phase = "i2c_init" /\ step = 1 /\ byte = 1 /\ bit = 7
  /\ buff = <<>> /\ ret = 0
  /\ listening = FALSE /\ count = 0 /\ shift = 0 /\ got = <<>>
  /\ pull = FALSE /\ wish = FALSE
  /\ regs = [r \in Reg |-> Unset] /\ taken = FALSE
  /\ writes = 0 /\ restarts = 0

-----------------------------------------------------------------------------
(* What the sensor makes of a change of the wires.                         *)

Started == scl = 1 /\ scl' = 1 /\ sda = 1 /\ sda' = 0
Stopped == scl = 1 /\ scl' = 1 /\ sda = 0 /\ sda' = 1
Rises   == scl = 0 /\ scl' = 1
Falls   == scl = 1 /\ scl' = 0

(* The byte is stored, and acknowledged.                                   *)
Accept ==
  /\ got # <<>> \/ shift = Address
  /\ got' = Append(got, shift) /\ wish' = TRUE
  /\ LET r == got[2] * 256 + got[3]
         last == Len(got) = 3
     IN  /\ regs' = IF last /\ r \in Reg THEN [regs EXCEPT ![r] = shift] ELSE regs
         /\ taken' = (taken \/ last)
  /\ UNCHANGED listening

(* ... or refused, and with it all up to the next START.                   *)
Refuse ==
  /\ listening' = FALSE
  /\ UNCHANGED <<got, wish, regs, taken>>

SensorSees ==
  \/ /\ rstn' = 0
     /\ listening' = FALSE /\ count' = 0 /\ shift' = 0 /\ got' = <<>>
     /\ wish' = FALSE /\ regs' = [r \in Reg |-> Unset] /\ UNCHANGED taken
  \/ /\ rstn' = 1 /\ Started /\ pwdn' = 0
     /\ listening' = TRUE /\ count' = 0 /\ shift' = 0 /\ got' = <<>>
     /\ UNCHANGED <<wish, regs, taken>>
  \/ /\ rstn' = 1 /\ Stopped
     /\ listening' = FALSE
     /\ UNCHANGED <<count, shift, got, wish, regs, taken>>
  \/ /\ rstn' = 1 /\ Rises /\ listening /\ ~wish
     /\ count' = count + 1 /\ shift' = (2 * shift + sda') % 256
     /\ UNCHANGED <<listening, got, wish, regs, taken>>
  \/ /\ rstn' = 1 /\ Falls /\ listening /\ count = 8
     /\ count' = 0 /\ shift' = 0
     /\ Accept \/ Refuse
  \/ /\ rstn' = 1 /\ Falls /\ listening /\ wish
     /\ wish' = FALSE
     /\ UNCHANGED <<listening, count, shift, got, regs, taken>>
  \/ /\ rstn' = 1
     /\ ~(Started /\ pwdn' = 0) /\ ~Stopped
     /\ ~(Rises /\ listening /\ ~wish) /\ ~(Falls /\ listening /\ (count = 8 \/ wish))
     /\ UNCHANGED <<listening, count, shift, got, wish, regs, taken>>

(* The sensor drives or releases the data wire.                            *)
SensorDrives ==
  /\ pull # wish /\ pull' = wish
  /\ UNCHANGED <<port_vars, floating, driver_vars, listening, count, shift, got,
                 wish, regs, taken, writes, restarts>>

-----------------------------------------------------------------------------
(* The statements after the last one of a phase.                           *)
Goto(p) == phase' = p /\ step' = 1

Advance ==
  IF step < Len(Program[phase])
  THEN step' = step + 1 /\ UNCHANGED <<phase, byte, bit, buff>>
  ELSE \/ phase = "i2c_init" /\ Goto("cmos_poweron") /\ UNCHANGED <<byte, bit, buff>>
       \/ phase = "cmos_poweron" /\ Goto("idle") /\ UNCHANGED <<byte, bit, buff>>
       \/ phase = "start" /\ Goto("bit") /\ byte' = 1 /\ bit' = 7 /\ UNCHANGED buff
       \/ phase = "bit" /\ bit > 0 /\ Goto("bit") /\ bit' = bit - 1
          /\ UNCHANGED <<byte, buff>>
       \/ phase = "bit" /\ bit = 0 /\ Goto("ack") /\ UNCHANGED <<byte, bit, buff>>
       \/ phase = "ack" /\ byte < 4 /\ Goto("bit") /\ byte' = byte + 1 /\ bit' = 7
          /\ UNCHANGED buff
       \/ phase = "ack" /\ byte = 4 /\ Goto("stop") /\ UNCHANGED <<byte, bit, buff>>
       \/ phase = "stop" /\ Goto("idle") /\ buff' = <<>> /\ UNCHANGED <<byte, bit>>

(* Read the pins, change one, write them all to the output register.       *)
WriteData(p, x) == data_out' = [data_in EXCEPT ![p] = x]

Statement ==
  /\ phase # "idle" /\ UNCHANGED <<floating, writes, restarts>>
  /\ LET s == Program[phase][step] IN
     /\ \/ s.op = "set" /\ WriteData(s.pin, s.value) /\ UNCHANGED <<data_dir, ret>>
        \/ s.op = "bit" /\ WriteData("sda", (buff[byte] \div 2^bit) % 2)
           /\ UNCHANGED <<data_dir, ret>>
        \/ s.op = "dir" /\ data_dir' = [data_dir EXCEPT ![s.pin] = s.value]
           /\ UNCHANGED <<data_out, ret>>
        \/ s.op = "get" /\ ret' = ret + sda /\ UNCHANGED port_vars
        \/ s.op = "delay" /\ pull = wish /\ UNCHANGED <<port_vars, ret>>
     /\ Advance
  /\ pull' = (pull /\ rstn' = 1)
  /\ SensorSees

ov_wr_reg(w) ==
  /\ phase = "idle" /\ writes < MaxWrites /\ writes' = writes + 1
  /\ Goto("start")
  /\ buff' = <<Address, w[1] \div 256, w[1] % 256, w[2]>> /\ ret' = 0
  /\ taken' = FALSE
  /\ UNCHANGED <<port_vars, floating, byte, bit, listening, count, shift, got, pull,
                 wish, regs, restarts>>

(* The reset button: the port lets go of every pin.                        *)
Restart ==
  /\ restarts < MaxRestarts /\ restarts' = restarts + 1
  /\ writes' = 0 /\ UNCHANGED floating
  /\ data_dir' = [p \in Pin |-> 0] /\ data_out' = [p \in Pin |-> 0]
  /\ Goto("i2c_init") /\ byte' = 1 /\ bit' = 7 /\ buff' = <<>> /\ ret' = 0
  /\ pull' = (pull /\ rstn' = 1)
  /\ SensorSees

(* The loop of main does not use the bus.                                  *)
Elsewhere == phase = "idle" /\ UNCHANGED vars

Next ==
  \/ Statement \/ (\E w \in Write : ov_wr_reg(w)) \/ Elsewhere
  \/ SensorDrives \/ Restart

Spec == Init /\ [][Next]_vars

-----------------------------------------------------------------------------
(* Port, loop counters and shift register in range, and at most one NACK   *)
(* counted per byte.                                                       *)
TypeOK ==
  /\ data_dir \in [Pin -> 0..1] /\ data_out \in [Pin -> 0..1]
  /\ floating \in [{"pwdn", "rstn"} -> 0..1]
  /\ phase \in DOMAIN Program \union {"idle"}
  /\ phase # "idle" => step \in DOMAIN Program[phase]
  /\ byte \in 1..4 /\ bit \in 0..7
  /\ buff = <<>> \/ buff \in [1..4 -> Byte]
  /\ ret \in 0..4
  /\ listening \in BOOLEAN /\ count \in 0..8 /\ shift \in Byte
  /\ Len(got) \in 0..4 /\ pull \in BOOLEAN /\ wish \in BOOLEAN
  /\ regs \in [Reg -> Byte \union {Unset}] /\ taken \in BOOLEAN
  /\ writes \in 0..MaxWrites /\ restarts \in 0..MaxRestarts

On == phase \notin {"i2c_init", "cmos_poweron"}

(* ov5640_drv.c:72-126: while the clock is high the data wire moves only   *)
(* where a START or a STOP is meant, although every write to the port      *)
(* copies what the wires are and the sensor takes turns driving.           *)
StableWhileHigh ==
  [][On /\ On' /\ scl = 1 /\ scl' = 1 /\ sda' # sda
       => \/ phase = "start" /\ sda' = 0
          \/ phase = "stop" /\ sda' = 1]_vars

(* ov5640_drv.c:92-97, 110-115: driver and sensor do not drive the data    *)
(* wire against each other while the clock is high and it is sampled.      *)
NoFight == On /\ scl = 1 => ~(pull /\ data_dir["sda"] = 1)

(* ov5640_drv.c:27-138: the wires carry out what ov_wr_reg promises, each  *)
(* call on its own, whichever bytes the sensor refuses and wherever the    *)
(* CPU was restarted.                                                      *)
Bus == INSTANCE RegisterBus WITH
  up     <- On,
  taken  <- taken /\ buff # <<>>,
  call   <- IF buff = <<>> THEN <<>> ELSE <<buff[2] * 256 + buff[3], buff[4]>>,
  result <- IF buff # <<>> THEN "busy" ELSE IF ret = 0 THEN "ok" ELSE "nack"

ImplementsRegisterBus == Bus!Spec
=============================================================================
