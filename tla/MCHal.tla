------------------------------- MODULE MCHal -------------------------------
(***************************************************************************)
(* Four parts of the program that share no state, in one run: the file     *)
(* table, the memory the caches and the loader look after, the debug log,  *)
(* and the start-up that hands the buffers over.  The part that runs is    *)
(* chosen once and for all; the others keep one initial state.             *)
(***************************************************************************)
EXTENDS Hal

CONSTANTS null, uart, fs

VARIABLES
  part,
  log_flags, job, fifo, alt_log_write_buf, log_alarm,                           \* log
  alt_log_sys_clk_count, alt_system_clock_in_sec, ticks, slipped, lost,
  s_pc, port, stray, filled, registered, s_odd, s_stat, running, handler,       \* start-up
  s_sensor, s_wish, s_lost, s_restarts

(* The file table: the null device, the JTAG UART and one file system      *)
(* mounted under "mnt"; the paths include a near miss.                     *)
MCDevice == {null, uart, fs}
MCCallbacks == (null :> {"write"})
            @@ (uart :> {"close", "read", "write", "ioctl"})
            @@ (fs :> {"open", "close", "read", "write", "lseek", "fstat"})
MCNameOf == (null :> <<"dev", "null">>) @@ (uart :> <<"dev", "jtag_uart">>) @@ (fs :> <<"mnt">>)
MCDriverResults == {0, -EWOULDBLOCK}
MCPath == {<<"dev", "null">>, <<"dev", "jtag_uart">>, <<"mnt", "f">>, <<"dev">>}

(* Memory: a buffer that starts and ends inside a line, in the two sets    *)
(* that flash and code are in as well.                                     *)
MCRegion(a, n) == [start |-> a, len |-> n]
MCLoad(f, t, n) == [from |-> f, to |-> t, len |-> n]
MCBuffer == {MCRegion(1, 2)}
MCProgramData == MCRegion(10, 1)
MCFlash == MCRegion(4, 2)
MCCode == MCRegion(7, 2)
MCSection == [rwdata |-> MCLoad(4, 10, 1), exceptions |-> MCLoad(4, 7, 2),
              rodata |-> MCLoad(4, 4, 2), overlay |-> MCLoad(4, 7, 2)]

(* The log: words of eight bits, and formats with every letter, width and  *)
(* filler.                                                                 *)
MCNumber(s, b, u, z, w) == {[signed |-> s, base |-> b, upper |-> u, zero |-> z, before |-> w]}
MCCall(fmt, arg, means) == [fmt |-> fmt, arg |-> arg, means |-> means]
MCPrinted == {
  MCCall(<<"%", "d">>, 255, MCNumber(TRUE, 10, FALSE, FALSE, -1)),
  MCCall(<<"%", "d">>, 0, MCNumber(TRUE, 10, FALSE, FALSE, -1)),
  MCCall(<<"%", "4", "d">>, 128, MCNumber(TRUE, 10, FALSE, FALSE, 4)),
  MCCall(<<"%", "4", "d">>, 246, MCNumber(TRUE, 10, FALSE, FALSE, 4)),
  MCCall(<<"%", "0", "4", "l", "i">>, 246, MCNumber(TRUE, 10, FALSE, TRUE, 4)),
  MCCall(<<"%", "X">>, 172, MCNumber(FALSE, 16, TRUE, FALSE, -1)),
  MCCall(<<"%", ".", "2", "o">>, 64, MCNumber(FALSE, 8, FALSE, FALSE, -1)),
  MCCall(<<"%", "%", "%", "2", "c">>, 0, {}),
  MCCall(<<"%", "3", "s", "%", "q">>, 0, {})}
MCLog == INSTANCE Log WITH
  Bits <- 8, Printed <- MCPrinted, Value <- {0, 160},
  Data <- {<<"^D", "x">>, <<"x", "^D", "x", "^D">>},
  ALT_LOG_WRITE_ECHO_LEN <- 3, ALT_LOG_SYS_CLK_INTERVAL <- 1, FifoDepth <- 2, MaxTicks <- 3,
  flags <- log_flags, alarm <- log_alarm

(* The buffers where the linker has put them                               *)
(* (nios2_camera_sdram_lcd.objdump).                                       *)
Start == INSTANCE Startup WITH
  lcd_fb <- 72236, cap_fb <- 333356, MaxLost <- 1, MaxRestarts <- 1,
  pc <- s_pc, odd <- s_odd, stat <- s_stat, sensor <- s_sensor, wish <- s_wish, lost <- s_lost, restarts <- s_restarts

logged == <<log_flags, job, fifo, alt_log_write_buf, log_alarm,
            alt_log_sys_clk_count, alt_system_clock_in_sec, ticks, slipped, lost>>

start  == <<s_pc, port, stray, filled, registered, s_odd, s_stat, running, handler,
            s_sensor, s_wish, s_lost, s_restarts>>
all    == <<vars, memory, logged, start, part>>

MCInit ==
  /\ HalInit /\ MCLog!Init /\ Start!Init
  /\ part \in {"files", "memory", "log", "start"}
  /\ part = "memory" \/ flushda
  /\ part = "log" \/ log_flags.isr

MCNext == \/ part = "files" /\ Next /\ UNCHANGED <<memory, logged, start, part>>
          \/ part = "memory" /\ Mem!Next /\ UNCHANGED <<vars, logged, start, part>>
          \/ part = "log" /\ MCLog!Next /\ UNCHANGED <<vars, memory, start, part>>
          \/ part = "start" /\ Start!Next /\ UNCHANGED <<vars, memory, logged, part>>

MCSpec == MCInit /\ [][MCNext]_all

(* What a call returned has no effect on later ones.                       *)
CallsToCome == <<table, lists, step, held, memory, logged, start, part>>

-----------------------------------------------------------------------------
(* Messages are printed as the format says, whole, and inside the echo     *)
(* buffer; the heartbeat counts every tick.                                *)
SafeLog == part = "log" => MCLog!SafeLog

(* Every access reaches its register, buffers are handed over before they  *)
(* are used, handlers keep off the bus main is using, and the sensor is as *)
(* it was told.                                                            *)
Started == part = "start" => Start!Started

(* The heartbeat comes every ALT_LOG_SYS_CLK_INTERVAL ticks.               *)
HeartbeatInterval == MCLog!HeartbeatInterval
=============================================================================
