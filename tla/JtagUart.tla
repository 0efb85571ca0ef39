------------------------------ MODULE JtagUart ------------------------------
(***************************************************************************)
(* The interrupt-driven driver of the JTAG UART, the console of the        *)
(* program: a ring buffer each way between the calls of the program and    *)
(* the interrupt handler, the UART's own two FIFOs, and a host that may    *)
(* come and go.  The program is one thread; an interrupt may come between  *)
(* any two of its accesses to shared state, the host acts at any time.     *)
(*                                                                         *)
(* A character is its number in its stream.  What a call returns is left   *)
(* out: it changes nothing in the driver.                                  *)
(***************************************************************************)
EXTENDS Integers, Sequences

CONSTANTS BufLen,          \* ALTERA_AVALON_JTAG_UART_BUF_LEN
          Depth,           \* of the UART's FIFOs
          DefaultTimeout, INT_MAX,
          MaxTx, MaxRx,    \* bound: characters written, characters typed
          MaxCall,         \* bound: characters per call
          Timeouts         \* what the program may pass to TIOCSTIMEOUT

ASSUME UartAssumption ==
  /\ BufLen \in Nat /\ BufLen > 1 /\ Depth \in Nat /\ Depth > 0
  /\ INT_MAX \in Nat /\ DefaultTimeout \in 1 .. INT_MAX - 2
  /\ MaxTx \in Nat /\ MaxRx \in Nat /\ MaxCall \in Nat
  /\ Timeouts \subseteq Int

Slot == 0 .. BufLen - 1
Mod(i) == i % BufLen

VARIABLES
  rx_in, rx_out, tx_in, tx_out, rx_buf, tx_buf,
  irq_enable, timeout, host_inactive,                  \* the driver's state
  control, hw_rx, hw_tx, activity,                     \* the UART: RE and WE, FIFOs, AC
  host, typed, shown,                                  \* the host and its two streams
  isr, space, wi, ravail,                              \* the interrupt handler
  pc, call, got, written                               \* the program

rings  == <<rx_in, rx_out, tx_in, tx_out, rx_buf, tx_buf>>
rx     == <<rx_in, rx_out, rx_buf>>
tx     == <<tx_in, tx_out, tx_buf>>
waits  == <<timeout, host_inactive>>
uart   == <<control, hw_rx, hw_tx, activity>>
fifos  == <<hw_rx, hw_tx, activity>>
world  == <<host, typed, shown>>
irq    == <<isr, space, wi, ravail>>
prog   == <<pc, call, got, written>>
vars   == <<rings, irq_enable, waits, uart, world, irq, prog>>

NoCall == [left |-> 0, moved |-> FALSE, nonblock |-> FALSE, in |-> 0, out |-> 0, n |-> 0]

Init == /\ rx_in = 0 /\ rx_out = 0 /\ tx_in = 0 /\ tx_out = 0
        /\ rx_buf = [i \in Slot |-> 0] /\ tx_buf = [i \in Slot |-> 0]
        /\ irq_enable = {} /\ control = {}
        /\ timeout = DefaultTimeout /\ host_inactive = 0
        /\ hw_rx = <<>> /\ hw_tx = <<>> /\ activity = FALSE
        /\ host \in {"absent", "connected"} /\ typed = 0 /\ shown = 0
        /\ isr = "none" /\ space = 0 /\ wi = FALSE /\ ravail = FALSE
        /\ pc = "init" /\ call = NoCall /\ got = 0 /\ written = 0

-----------------------------------------------------------------------------
(* Start-up.  Without a system clock there is no alarm: the host counts as *)
(* present for ever.                                                       *)
altera_avalon_jtag_uart_init ==
  /\ pc = "init" /\ pc' = "idle"
  /\ irq_enable' = {"RE"} /\ control' = irq_enable'
  /\ \E clock \in BOOLEAN : timeout' = IF clock THEN timeout ELSE INT_MAX
  /\ UNCHANGED <<rings, host_inactive, fifos, world, irq, call, got, written>>

-----------------------------------------------------------------------------
(* The program.                                                            *)

(* Interrupts are off between alt_irq_disable_all and alt_irq_enable_all.  *)
Masked == pc \in {"r_post", "w_post"}

(* One step of the program: never while an interrupt is served.            *)
Step(here) == pc = here /\ isr = "none" /\ UNCHANGED <<fifos, world, irq>>

Goto(there) == pc' = there
Return == pc' = "idle" /\ call' = NoCall

Gone == host_inactive >= timeout

Begin(routine, count, nonblock) ==
  /\ Step("idle") /\ Goto(routine)
  /\ call' = [NoCall EXCEPT !.left = count, !.nonblock = nonblock]
  /\ UNCHANGED <<rings, irq_enable, waits, control, got, written>>

(* read                                                                    *)

Read_load ==
  /\ Step("r_load")
  /\ LET n == IF rx_in >= rx_out THEN rx_in - rx_out ELSE BufLen - rx_out
         take == IF n > call.left THEN call.left ELSE n
     IN  IF call.left > 0 /\ n > 0
         THEN /\ Goto("r_copy")
              /\ call' = [call EXCEPT !.in = rx_in, !.out = rx_out, !.n = take]
         ELSE IF call.moved THEN Goto("r_mask") /\ UNCHANGED call
         ELSE IF call.left = 0 \/ call.nonblock THEN Return
         ELSE Goto("r_spin") /\ call' = [call EXCEPT !.in = rx_in]
  /\ UNCHANGED <<rings, irq_enable, waits, control, got, written>>

Read_copy ==
  /\ Step("r_copy") /\ Goto("r_free")
  /\ got' = rx_buf[call.out + call.n - 1]
  /\ call' = [call EXCEPT !.left = @ - call.n, !.moved = TRUE]
  /\ UNCHANGED <<rings, irq_enable, waits, control, written>>

Read_free ==
  /\ Step("r_free") /\ Goto("r_load")
  /\ rx_out' = Mod(call.out + call.n)
  /\ call' = [call EXCEPT !.in = 0, !.out = 0, !.n = 0]
  /\ UNCHANGED <<rx_in, rx_buf, tx, irq_enable, waits, control, got, written>>

Read_spin ==
  /\ Step("r_spin")
  /\ \/ call.in # rx_in /\ Goto("r_load") /\ UNCHANGED call
     \/ call.in = rx_in /\ Gone /\ Return
     \/ call.in = rx_in /\ ~Gone /\ UNCHANGED <<pc, call>>
  /\ UNCHANGED <<rings, irq_enable, waits, control, got, written>>

(* write                                                                   *)

Write_room_NoGap == IF tx_in < tx_out THEN tx_out - tx_in ELSE BufLen - tx_in

Write_room == IF tx_in < tx_out THEN tx_out - 1 - tx_in
              ELSE IF tx_out > 0 THEN BufLen - tx_in ELSE BufLen - 1 - tx_in

Write_load ==
  /\ Step("w_load")
  /\ LET n == IF Write_room > call.left THEN call.left ELSE Write_room
     IN  IF n > 0 THEN Goto("w_copy") /\ call' = [call EXCEPT !.in = tx_in, !.n = n]
                  ELSE Goto("w_mask") /\ call' = [call EXCEPT !.out = tx_out]
  /\ UNCHANGED <<rings, irq_enable, waits, control, got, written>>

Write_copy ==
  /\ Step("w_copy") /\ Goto("w_publish")
  /\ tx_buf' = [i \in Slot |-> IF i \in call.in .. call.in + call.n - 1
                               THEN written + 1 + i - call.in ELSE tx_buf[i]]
  /\ UNCHANGED <<rx, tx_in, tx_out, irq_enable, waits, control, call, got, written>>

Write_publish ==
  /\ Step("w_publish") /\ Goto("w_load")
  /\ tx_in' = Mod(call.in + call.n)
  /\ written' = written + call.n
  /\ call' = [call EXCEPT !.left = @ - call.n, !.in = 0, !.n = 0]
  /\ UNCHANGED <<rx, tx_out, tx_buf, irq_enable, waits, control, got>>

Write_spin ==
  /\ Step("w_spin")
  /\ \/ call.out # tx_out /\ Goto("w_load") /\ UNCHANGED call
     \/ call.out = tx_out /\ Gone /\ Return
     \/ call.out = tx_out /\ ~Gone /\ UNCHANGED <<pc, call>>
  /\ UNCHANGED <<rings, irq_enable, waits, control, got, written>>

(* Both calls end by enabling their interrupt, with interrupts off.        *)

Enable(bit, here, there) ==
  /\ Step(here) /\ Goto(there)
  /\ irq_enable' = irq_enable \union {bit}
  /\ UNCHANGED <<rings, waits, control, call, got, written>>

Read_mask_Skip == /\ Step("r_mask") /\ Goto("r_post")
                  /\ UNCHANGED <<rings, irq_enable, waits, control, call, got, written>>

Read_mask  == Enable("RE", "r_mask", "r_post")
Write_mask == Enable("WE", "w_mask", "w_post")

Read_post ==
  /\ Step("r_post") /\ Return
  /\ control' = irq_enable
  /\ UNCHANGED <<rings, irq_enable, waits, got, written>>

Write_post ==
  /\ Step("w_post")
  /\ control' = irq_enable
  /\ IF call.left > 0 /\ ~call.nonblock THEN Goto("w_spin") /\ UNCHANGED call ELSE Return
  /\ UNCHANGED <<rings, irq_enable, waits, got, written>>

(* close waits until everything is sent or the host is gone.               *)
altera_avalon_jtag_uart_close ==
  /\ Step("close")
  /\ IF tx_out = tx_in \/ Gone \/ call.nonblock THEN Return ELSE UNCHANGED <<pc, call>>
  /\ UNCHANGED <<rings, irq_enable, waits, control, got, written>>

(* TIOCSTIMEOUT; the other request, TIOCGCONNECTED, only looks.            *)
altera_avalon_jtag_uart_ioctl(arg) ==
  /\ Step("idle") /\ Goto("idle") /\ timeout # INT_MAX
  /\ timeout' = IF arg >= 2 /\ arg < INT_MAX THEN arg ELSE INT_MAX - 1
  /\ UNCHANGED <<rings, irq_enable, host_inactive, control, call, got, written>>

-----------------------------------------------------------------------------
(* The interrupt handler.                                                  *)

RI == "RE" \in control /\ hw_rx # <<>>
WI == "WE" \in control /\ Len(hw_tx) < Depth

Handler(here) == isr = here /\ UNCHANGED <<waits, activity, world, prog>>

Interrupt == /\ Handler("none") /\ pc # "init" /\ ~Masked /\ (RI \/ WI)
             /\ isr' = "control"
             /\ UNCHANGED <<rings, irq_enable, control, hw_rx, hw_tx, space, wi, ravail>>

Isr_control ==
  /\ Handler("control")
  /\ isr' = IF RI THEN "read" ELSE IF WI THEN "write" ELSE "none"
  /\ space' = IF RI \/ WI THEN Depth - Len(hw_tx) ELSE 0
  /\ wi' = WI /\ ravail' = RI
  /\ UNCHANGED <<rings, irq_enable, control, hw_rx, hw_tx>>

RxFull == Mod(rx_in + 1) = rx_out

Isr_read ==
  /\ Handler("read") /\ ~RxFull /\ hw_rx # <<>>
  /\ rx_buf' = [rx_buf EXCEPT ![rx_in] = Head(hw_rx)]
  /\ rx_in' = Mod(rx_in + 1)
  /\ hw_rx' = Tail(hw_rx)
  /\ ravail' = (Len(hw_rx) > 1)
  /\ UNCHANGED <<rx_out, tx, irq_enable, control, hw_tx, isr, space, wi>>

(* Disable a source and tell the UART.                                     *)
Disable(bits) == irq_enable' = irq_enable \ bits /\ control' = irq_enable'

(* The buffer is full or the FIFO is empty.  Characters left in the FIFO   *)
(* must wait for the program to read.                                      *)
Isr_read_done ==
  /\ Handler("read") /\ (RxFull \/ hw_rx = <<>>)
  /\ Disable(IF RxFull /\ ravail THEN {"RE"} ELSE {})
  /\ isr' = (IF wi THEN "write" ELSE "control") /\ ravail' = FALSE
  /\ UNCHANGED <<rings, hw_rx, hw_tx, space, wi>>

Isr_write ==
  /\ Handler("write") /\ space > 0 /\ tx_out # tx_in
  /\ hw_tx' = Append(hw_tx, tx_buf[tx_out])
  /\ tx_out' = Mod(tx_out + 1)
  /\ space' = space - 1
  /\ UNCHANGED <<rx, tx_in, tx_buf, irq_enable, control, hw_rx, isr, wi, ravail>>

Isr_write_done_Always ==
  /\ Handler("write") /\ (space = 0 \/ tx_out = tx_in)
  /\ Disable({"WE"})
  /\ isr' = "control" /\ space' = 0 /\ wi' = FALSE
  /\ UNCHANGED <<rings, hw_rx, hw_tx, ravail>>

Isr_write_done ==
  /\ Handler("write") /\ (space = 0 \/ tx_out = tx_in)
  /\ Disable(IF space > 0 THEN {"WE"} ELSE {})
  /\ isr' = "control" /\ space' = 0 /\ wi' = FALSE
  /\ UNCHANGED <<rings, hw_rx, hw_tx, ravail>>

(* The alarm, once a second if there is a clock: was the host active?      *)
altera_avalon_jtag_uart_timeout ==
  /\ pc # "init" /\ isr = "none" /\ ~Masked /\ timeout # INT_MAX
  /\ IF activity \/ host = "connected"
     THEN host_inactive' = 0 /\ activity' = FALSE /\ control' = irq_enable
     ELSE /\ host_inactive' = IF host_inactive < INT_MAX - 2 THEN host_inactive + 1 ELSE host_inactive
          /\ UNCHANGED <<activity, control>>
  /\ UNCHANGED <<rings, irq_enable, timeout, hw_rx, hw_tx, world, irq, prog>>

-----------------------------------------------------------------------------
(* The host: a terminal that takes what it is sent and polls, which is     *)
(* activity, as long as it is connected.                                   *)

Host(action) == action /\ UNCHANGED <<rings, irq_enable, waits, control, irq, prog>>

Host_takes == Host(/\ host = "connected" /\ hw_tx # <<>>
                   /\ shown' = Head(hw_tx) /\ hw_tx' = Tail(hw_tx)
                   /\ UNCHANGED <<hw_rx, activity, host, typed>>)

Host_types == Host(/\ host = "connected" /\ typed < MaxRx /\ Len(hw_rx) < Depth
                   /\ typed' = typed + 1 /\ hw_rx' = Append(hw_rx, typed')
                   /\ UNCHANGED <<hw_tx, activity, host, shown>>)

Host_comes == Host(/\ host = "absent" /\ host' = "connected"
                   /\ UNCHANGED <<fifos, typed, shown>>)

Host_goes == Host(/\ host = "connected" /\ host' = "gone" /\ activity' = TRUE
                  /\ UNCHANGED <<hw_rx, hw_tx, typed, shown>>)

-----------------------------------------------------------------------------
Call == \E nonblock \in BOOLEAN :
          \/ \E count \in 1 .. MaxCall : Begin("r_load", count, nonblock)
          \/ \E count \in 1 .. MaxCall : written + count <= MaxTx /\ Begin("w_load", count, nonblock)
          \/ Begin("close", 0, nonblock)

Program == \/ Read_load \/ Read_copy \/ Read_free \/ Read_spin \/ Read_mask \/ Read_post
           \/ Write_load \/ Write_copy \/ Write_publish \/ Write_spin \/ Write_mask \/ Write_post
           \/ altera_avalon_jtag_uart_close

Isr == \/ Interrupt \/ Isr_control \/ Isr_read \/ Isr_read_done \/ Isr_write \/ Isr_write_done

Next == \/ altera_avalon_jtag_uart_init \/ Call \/ Program
        \/ \E arg \in Timeouts : altera_avalon_jtag_uart_ioctl(arg)
        \/ Isr \/ altera_avalon_jtag_uart_timeout
        \/ Host_takes \/ Host_types \/ Host_comes \/ Host_goes

(* A call goes on whenever no handler runs; an interrupt is taken when the *)
(* program lets it; a connected terminal takes what it is sent.            *)
Fairness == /\ WF_vars(Program) /\ SF_vars(Isr) /\ WF_vars(Host_takes)
            /\ SF_vars(altera_avalon_jtag_uart_timeout)

Spec == Init /\ [][Next]_vars /\ Fairness

-----------------------------------------------------------------------------
(* Every variable keeps its type.                                          *)
TypeOK == /\ {rx_in, rx_out, tx_in, tx_out} \subseteq Slot
          /\ rx_buf \in [Slot -> 0 .. MaxRx] /\ tx_buf \in [Slot -> 0 .. MaxTx]
          /\ irq_enable \subseteq {"RE", "WE"} /\ control \subseteq {"RE", "WE"}
          /\ timeout \in Int /\ host_inactive \in 0 .. INT_MAX - 2
          /\ hw_rx \in Seq(Nat) /\ Len(hw_rx) <= Depth
          /\ hw_tx \in Seq(Nat) /\ Len(hw_tx) <= Depth /\ space \in 0 .. Depth
          /\ activity \in BOOLEAN /\ wi \in BOOLEAN /\ ravail \in BOOLEAN
          /\ typed \in 0 .. MaxRx /\ shown \in 0 .. MaxTx
          /\ got \in 0 .. MaxRx /\ written \in 0 .. MaxTx

(* The UART listens to the sources the driver thinks it enabled.           *)
ShadowAgrees == pc \notin {"r_post", "w_post"} => control = irq_enable

(* Reception is off only while the program has characters to read, or is   *)
(* about to turn it on again: it cannot spin in read (read.c:175) on a     *)
(* UART that was told to keep silent.                                      *)
NotDeaf == "RE" \notin irq_enable /\ pc # "init"
             => rx_in # rx_out \/ (call.moved /\ pc \in {"r_load", "r_free", "r_mask"})

(* Transmission is off only while there is nothing to send, or the program *)
(* is about to turn it on.                                                 *)
NotMute == "WE" \notin irq_enable => tx_in = tx_out \/ pc \in {"w_load", "w_copy", "w_publish", "w_mask"}

SafeUart == TypeOK /\ ShadowAgrees /\ NotDeaf /\ NotMute

Used(first, last) == IF last >= first THEN last - first ELSE BufLen + last - first
Ring(buf, first, last) == [i \in 1 .. Used(first, last) |-> buf[Mod(first + i - 1)]]
Numbers(after, upto) == [i \in 1 .. upto - after |-> after + i]

(* Nothing is lost, repeated or reordered either way, wherever interrupts  *)
(* cut the calls: what is under way is what was put in and not yet taken   *)
(* out, in order.                                                          *)
InOrder == /\ hw_tx \o Ring(tx_buf, tx_out, tx_in) = Numbers(shown, written)
           /\ Ring(rx_buf, IF pc = "r_free" THEN Mod(call.out + call.n) ELSE rx_out, rx_in) \o hw_rx
                = Numbers(got, typed)

(* While a terminal is connected, what was written is shown; a write or a  *)
(* close ends unless the host is gone and nobody can tell; a waiting read  *)
(* gets what is typed.                                                     *)
Timed == timeout < INT_MAX - 1

CharactersArrive ==
  /\ shown < written ~> shown = written \/ host # "connected"
  /\ pc \in {"w_load", "w_spin", "close"} ~> pc = "idle" \/ (host # "connected" /\ ~Timed)
  /\ pc = "r_spin" /\ got < typed ~> pc # "r_spin"
=============================================================================
