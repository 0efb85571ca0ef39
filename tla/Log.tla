-------------------------------- MODULE Log --------------------------------
(***************************************************************************)
(* Debug output of the HAL: alt_log_printf.c, which prints from the        *)
(* program and from handlers straight into the FIFO of the UART, with its  *)
(* flags, its echo of write() and its messages about the UART and the      *)
(* clock; and alt_printf, which prints through stdout.                     *)
(*                                                                         *)
(* A message is the sequence of its characters, worked out when the call   *)
(* is made, except for the echo buffer, which is read as it is printed.    *)
(* Only one character of each fixed text is kept.  A handler runs to its   *)
(* end between two steps of the program.                                   *)
(***************************************************************************)
EXTENDS Integers, SequencesExt

CONSTANTS Bits,           \* of a word
          Printed,        \* calls: format, argument, and the directive it means
          Value,          \* arguments of alt_printf
          Data,           \* what the program and handlers write
          ALT_LOG_WRITE_ECHO_LEN,
          ALT_LOG_SYS_CLK_INTERVAL,
          FifoDepth,
          MaxTicks        \* bound: ticks of the clock

NUL == "NUL"
CtrlD == "^D"
Level == {"program", "handler"}
Silent == [text |-> <<>>, at |-> 1, echo |-> 0, sink |-> "log", pc |-> "idle",
           means |-> {}, arg |-> 0]

VARIABLES flags,          \* alt_log_*_on_flag
          job,            \* of each level: the message, and how far it has got
          fifo,           \* characters in the FIFO of the UART
          alt_log_write_buf,
          alarm,          \* alt_log_jtag_uart_alarm_1 runs
          alt_log_sys_clk_count, alt_system_clock_in_sec,
          ticks,          \* history
          slipped,        \* history: a handler has written since the program's test
          lost            \* history: characters lost without that

clock == <<alt_log_sys_clk_count, alt_system_clock_in_sec, ticks>>
port  == <<fifo, slipped, lost>>
vars  == <<flags, job, fifo, alt_log_write_buf, alarm, alt_log_sys_clk_count,
           alt_system_clock_in_sec, ticks, slipped, lost>>

(* What ALT_LOG_FLAGS turns on; 0 stands for any other value.              *)
Setting(level) ==
  [boot    |-> level # -1,
   sys_clk |-> level \in {1, 2, 3},
   write   |-> level \in {2, 3},
   alarm   |-> level \in {2, 3},
   startup |-> level \in {1, 2, 3},
   isr     |-> level = 3]

Init == /\ flags \in {Setting(level) : level \in {-1, 0, 1, 2, 3}}
        /\ job = [l \in Level |-> Silent]
        /\ fifo = 0 /\ slipped = FALSE /\ lost = FALSE
        /\ alt_log_write_buf = [i \in 1 .. ALT_LOG_WRITE_ECHO_LEN + 2 |-> NUL]
        /\ alarm = FALSE
        /\ alt_log_sys_clk_count = 0 /\ alt_system_clock_in_sec = 0 /\ ticks = 0

-----------------------------------------------------------------------------
(* Formatting.                                                             *)

DigitChar(d, upper) ==
  IF d < 10 THEN <<"0", "1", "2", "3", "4", "5", "6", "7", "8", "9">>[d + 1]
  ELSE IF upper THEN <<"A", "B", "C", "D", "E", "F">>[d - 9]
                ELSE <<"a", "b", "c", "d", "e", "f">>[d - 9]

alt_log_repchar(c, r) == [i \in 1 .. (IF r > 0 THEN r ELSE 0) |-> c]

(* The largest place value, then a digit for each place.                   *)
NumberText(f, value) ==
  LET minus  == f.signed /\ value >= 2^(Bits - 1)
      v      == IF minus THEN 2^Bits - value ELSE value
      Top[s \in 0 .. 2^Bits] == IF s \div f.base > 0 THEN f.base * Top[s \div f.base] ELSE 1
      From[x \in 0 .. 2^Bits, p \in 0 .. 2^Bits] ==
        IF p = 0 THEN <<>> ELSE <<DigitChar(x \div p, f.upper)>> \o From[x % p, p \div f.base]
      digits == From[v, Top[v]]
      sign   == IF minus THEN <<"-">> ELSE <<>>
      room   == f.before - Len(digits) - Len(sign)
  IN  IF f.zero THEN sign \o alt_log_repchar("0", room) \o digits
                ELSE alt_log_repchar(" ", room) \o sign \o digits

(* The automaton over the format, one character at a time.  A character    *)
(* it does not know ends a directive.                                      *)
Digits == <<"0", "1", "2", "3", "4", "5", "6", "7", "8", "9">>
IsDigit(c) == c \in ToSet(Digits)
Tenfold(n, c) == n * 10 + (CHOOSE i \in 1 .. 10 : Digits[i] = c) - 1

Chars(f, out) == [f EXCEPT !.state = "pfState_chars", !.out = @ \o out]

LetterWith(f, c, value) ==
  CASE c \in {"d", "i"} -> Chars(f, NumberText(f, value))
    [] c = "u" -> Chars(f, NumberText([f EXCEPT !.signed = FALSE], value))
    [] c = "o" -> Chars(f, NumberText([f EXCEPT !.signed = FALSE, !.base = 8], value))
    [] c = "x" -> Chars(f, NumberText([f EXCEPT !.signed = FALSE, !.base = 16], value))
    [] c = "X" -> Chars(f, NumberText([f EXCEPT !.signed = FALSE, !.base = 16, !.upper = TRUE],
                                      value))
    [] c = "c" -> Chars(f, alt_log_repchar(" ", f.before - 1) \o <<"c">>)
    [] c = "s" -> Chars(f, alt_log_repchar(" ", f.before - 2) \o <<"s", "t">>)
    [] OTHER   -> Chars(f, <<>>)

OtherFmtChar(f, c, value) ==
  CASE c = "." -> [f EXCEPT !.after = 0]
    [] IsDigit(c) /\ f.after < 0 ->
         [f EXCEPT !.before = IF @ < 0 THEN Tenfold(0, c) ELSE Tenfold(@, c)]
    [] IsDigit(c) /\ f.after >= 0 -> [f EXCEPT !.after = Tenfold(@, c)]
    [] c = "l" -> f
    [] OTHER   -> LetterWith(f, c, value)

Scan(f, c, value) ==
  CASE f.state = "pfState_chars" /\ c # "%" -> Chars(f, <<c>>)
    [] f.state = "pfState_chars" /\ c = "%" ->
         [state |-> "pfState_firstFmtChar", zero |-> FALSE, base |-> 10, signed |-> TRUE,
          upper |-> FALSE, before |-> -1, after |-> -1, out |-> f.out]
    [] f.state = "pfState_firstFmtChar" /\ c = "0" ->
         [f EXCEPT !.zero = TRUE, !.state = "pfState_otherFmtChar"]
    [] f.state = "pfState_firstFmtChar" /\ c = "%" -> Chars(f, <<"%">>)
    [] OTHER -> OtherFmtChar([f EXCEPT !.state = "pfState_otherFmtChar"], c, value)

alt_log_private_printf(fmt, value) ==
  LET Step(f, c) == Scan(f, c, value)
      start == [state |-> "pfState_chars", zero |-> FALSE, base |-> 0, signed |-> FALSE,
                upper |-> FALSE, before |-> 0, after |-> 0, out |-> <<>>]
  IN  FoldLeft(Step, start, fmt).out

(* alt_printf: hexadecimal only, from the first digit that is not zero.    *)
HexText(v) ==
  LET nibble(k) == (v \div 16^k) % 16
      first == CHOOSE k \in 0 .. (Bits - 1) \div 4 :
                 nibble(k) # 0 /\ \A j \in k + 1 .. (Bits - 1) \div 4 : nibble(j) = 0
  IN  IF v = 0 THEN <<"0">> ELSE [i \in 1 .. first + 1 |-> DigitChar(nibble(first + 1 - i), FALSE)]

-----------------------------------------------------------------------------
(* Sending: wait for room, then write.                                     *)

May(l) == l = "handler" \/ job["handler"].pc = "idle"

(* The next character of a message: of its text, then of the echo buffer.  *)
InText(j) == j.at <= Len(j.text)
Done(j)   == ~InText(j) /\ IF j.echo = 0 THEN TRUE ELSE alt_log_write_buf[j.echo] = NUL
Forward(j) == IF InText(j) THEN [j EXCEPT !.at = @ + 1, !.pc = "test"]
              ELSE [j EXCEPT !.echo = @ + 1, !.pc = "test"]

Txchar_test_Blind(l) ==      \* mutant: does not wait for room
  /\ job[l].pc = "test" /\ job[l].sink = "log" /\ ~Done(job[l]) /\ May(l)
  /\ job' = [job EXCEPT ![l].pc = "write"]
  /\ slipped' = IF l = "program" THEN FALSE ELSE slipped
  /\ UNCHANGED <<flags, fifo, lost, alt_log_write_buf, alarm, clock>>

Txchar_test(l) ==
  /\ job[l].pc = "test" /\ job[l].sink = "log" /\ ~Done(job[l]) /\ May(l)
  /\ fifo < FifoDepth
  /\ job' = [job EXCEPT ![l].pc = "write"]
  /\ slipped' = IF l = "program" THEN FALSE ELSE slipped
  /\ UNCHANGED <<flags, fifo, lost, alt_log_write_buf, alarm, clock>>

Txchar_write(l) ==
  /\ job[l].pc = "write" /\ May(l)
  /\ job' = [job EXCEPT ![l] = Forward(@)]
  /\ fifo' = IF fifo < FifoDepth THEN fifo + 1 ELSE fifo
  /\ lost' = (lost \/ (fifo = FifoDepth /\ ~slipped))
  /\ slipped' = (slipped \/ l = "handler")
  /\ UNCHANGED <<flags, alt_log_write_buf, alarm, clock>>

(* Through stdout; what putchar answers is not looked at.                  *)
alt_putchar(l) ==
  /\ job[l].pc = "test" /\ job[l].sink = "stdout" /\ ~Done(job[l]) /\ May(l)
  /\ job' = [job EXCEPT ![l] = Forward(@)]
  /\ UNCHANGED <<flags, port, alt_log_write_buf, alarm, clock>>

Return(l) == /\ job[l].pc = "test" /\ Done(job[l]) /\ May(l)
             /\ job' = [job EXCEPT ![l] = Silent]
             /\ UNCHANGED <<flags, port, alt_log_write_buf, alarm, clock>>

Host_reads == /\ fifo > 0 /\ fifo' = fifo - 1
              /\ UNCHANGED <<flags, job, slipped, lost, alt_log_write_buf, alarm, clock>>

-----------------------------------------------------------------------------
(* Calls.                                                                  *)

Starts(l, j) == /\ job[l].pc = "idle" /\ May(l) /\ job' = [job EXCEPT ![l] = j]
Text(text) == [Silent EXCEPT !.text = text, !.pc = "test"]
Quiet == UNCHANGED <<flags, port, alt_log_write_buf, alarm, clock>>

(* ALT_LOG_PRINTF, and boot messages if they are on.                       *)
alt_log_printf_proc(p) ==
  /\ Starts("program", [Text(alt_log_private_printf(p.fmt, p.arg)) EXCEPT !.means = p.means,
                                                                          !.arg = p.arg])
  /\ Quiet
ALT_LOG_PRINT_BOOT(p) == flags.boot /\ alt_log_printf_proc(p)
ALT_LOG_PUTS == flags.boot /\ Starts("program", Text(<<"m">>)) /\ Quiet

alt_printf(v) ==
  /\ Starts("program", [Text(HexText(v)) EXCEPT !.sink = "stdout", !.arg = v,
       !.means = {[signed |-> FALSE, base |-> 16, upper |-> FALSE, zero |-> FALSE, before |-> -1]}])
  /\ Quiet

(* The status of the UART, read once.                                      *)
StatusText(header) ==
  alt_log_private_printf(<<header, "%", "d">>, FifoDepth - fifo)
alt_log_jtag_uart_print_control_reg(l, header) == Starts(l, Text(StatusText(header)))

alt_log_jtag_uart_startup_info == alt_log_jtag_uart_print_control_reg("program", "S")
ALT_LOG_JTAG_UART_ALARM_REGISTER ==
  /\ ~alarm /\ alarm' = flags.alarm
  /\ IF flags.startup THEN alt_log_jtag_uart_startup_info
     ELSE job["handler"].pc = "idle" /\ UNCHANGED job
  /\ UNCHANGED <<flags, port, alt_log_write_buf, clock>>
altera_avalon_jtag_uart_report_log ==
  /\ alarm
  /\ IF flags.alarm
     THEN alt_log_jtag_uart_print_control_reg("handler", "A") /\ UNCHANGED alarm
     ELSE alarm' = FALSE /\ UNCHANGED job
  /\ UNCHANGED <<flags, port, alt_log_write_buf, clock>>
alt_log_jtag_uart_isr_proc ==
  /\ flags.isr /\ alt_log_jtag_uart_print_control_reg("handler", "I") /\ Quiet

(* The heartbeat, on every tick.                                           *)
alt_log_system_clock ==
  /\ flags.sys_clk /\ ticks < MaxTicks /\ ticks' = ticks + 1
  /\ IF alt_log_sys_clk_count + 1 > ALT_LOG_SYS_CLK_INTERVAL
     THEN /\ alt_log_sys_clk_count' = 0
          /\ alt_system_clock_in_sec' = alt_system_clock_in_sec + 1
          /\ Starts("handler", Text(alt_log_private_printf(<<"%", "u">>, alt_system_clock_in_sec)))
     ELSE /\ alt_log_sys_clk_count' = alt_log_sys_clk_count + 1
          /\ job["handler"].pc = "idle" /\ UNCHANGED <<alt_system_clock_in_sec, job>>
  /\ UNCHANGED <<flags, port, alt_log_write_buf, alarm>>

(* The echo of the start of what is written: the last character makes way  *)
(* for the end of the line, and Ctrl-D is escaped.                         *)
Echo(old, data) ==
  LET length == IF ALT_LOG_WRITE_ECHO_LEN > Len(data) THEN Len(data) ELSE ALT_LOG_WRITE_ECHO_LEN
  IN  [i \in DOMAIN old |->
         CASE i < length     -> IF data[i] = CtrlD THEN "D" ELSE data[i]
           [] i = length     -> "\n"
           [] i = length + 1 -> "\r"
           [] i = length + 2 -> NUL
           [] OTHER          -> old[i]]

alt_log_write(l, data) ==
  /\ flags.write /\ Len(data) >= 2
  /\ Starts(l, [Text(<<"W">>) EXCEPT !.echo = 1])
  /\ alt_log_write_buf' = Echo(alt_log_write_buf, data)
  /\ UNCHANGED <<flags, port, alarm, clock>>

-----------------------------------------------------------------------------
Next == \/ Host_reads
        \/ \E v \in Value : alt_printf(v)
        \/ \E p \in Printed : ALT_LOG_PRINT_BOOT(p) \/ alt_log_printf_proc(p)
        \/ ALT_LOG_PUTS
        \/ ALT_LOG_JTAG_UART_ALARM_REGISTER
        \/ altera_avalon_jtag_uart_report_log \/ alt_log_jtag_uart_isr_proc
        \/ alt_log_system_clock
        \/ \E l \in Level : \/ Txchar_test(l) \/ Txchar_write(l) \/ alt_putchar(l) \/ Return(l)
                            \/ \E data \in Data : alt_log_write(l, data)

Spec == Init /\ [][Next]_vars

-----------------------------------------------------------------------------
TypeOK == /\ fifo \in 0 .. FifoDepth
          /\ alt_log_write_buf[ALT_LOG_WRITE_ECHO_LEN + 2] = NUL
          /\ alt_log_sys_clk_count \in 0 .. ALT_LOG_SYS_CLK_INTERVAL
          /\ \A l \in Level : job[l].pc \in {"idle", "test", "write"}

(* An echo stays inside its buffer and ends, even when a handler writes    *)
(* another one over it, and never shows a Ctrl-D.                          *)
EchoInside == /\ \A l \in Level : job[l].echo \in 0 .. ALT_LOG_WRITE_ECHO_LEN + 2
              /\ CtrlD \notin ToSet(alt_log_write_buf)

(* The text of a number: the shortest row of digits with its value, with   *)
(* the sign, filled up to the width.                                       *)
PlainDigits(v, base) ==
  LET n == CHOOSE k \in 1 .. Bits : v < base^k /\ (k = 1 \/ v >= base^(k - 1))
  IN  [i \in 1 .. n |-> (v \div base^(n - i)) % base]

Wanted(f, value) ==
  LET minus == f.signed /\ value >= 2^(Bits - 1)
      row   == PlainDigits(IF minus THEN 2^Bits - value ELSE value, f.base)
      plain == [i \in DOMAIN row |-> DigitChar(row[i], f.upper)]
      short == IF minus THEN <<"-">> \o plain ELSE plain
      fill  == IF f.before > Len(short) THEN f.before - Len(short) ELSE 0
  IN  IF f.zero THEN SubSeq(short, 1, Len(short) - Len(plain)) \o [i \in 1 .. fill |-> "0"] \o plain
                ELSE [i \in 1 .. fill |-> " "] \o short

NumbersRight == \A l \in Level : \A f \in job[l].means : job[l].text = Wanted(f, job[l].arg)

(* No character is lost unless a handler prints between the test for room  *)
(* (alt_log_printf.c:98) and the write.                                    *)
NothingLost == ~lost

(* The heartbeat counts whole intervals, of one tick more than             *)
(* ALT_LOG_SYS_CLK_INTERVAL.                                               *)
HeartbeatCounts ==
  ticks = alt_system_clock_in_sec * (ALT_LOG_SYS_CLK_INTERVAL + 1) + alt_log_sys_clk_count

SafeLog == TypeOK /\ EchoInside /\ NumbersRight /\ NothingLost /\ HeartbeatCounts

(* What alt_log_printf.c:464-466 says: a message every                     *)
(* ALT_LOG_SYS_CLK_INTERVAL ticks.                                         *)
HeartbeatInterval == alt_system_clock_in_sec = ticks \div ALT_LOG_SYS_CLK_INTERVAL
=============================================================================
