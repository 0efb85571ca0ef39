--------------------------- MODULE JtagUartProofs ---------------------------
(***************************************************************************)
(* Theorems about the JTAG UART driver, for every size of its buffers and  *)
(* FIFOs, every length of the two streams and every placing of interrupts. *)
(***************************************************************************)
EXTENDS JtagUart, TLAPS

USE DEF Slot

-----------------------------------------------------------------------------
(* Indices go round a buffer at most once.                                 *)
LEMMA ModIs ==
  ASSUME NEW i \in 0 .. 2 * BufLen - 1
  PROVE  Mod(i) = IF i < BufLen THEN i ELSE i - BufLen
<1>1. BufLen \in Nat /\ BufLen > 0
  BY UartAssumption
<1>2. CASE i < BufLen
  BY <1>1, <1>2 DEF Mod
<1>3. CASE ~(i < BufLen)
  BY <1>1, <1>3 DEF Mod
<1> QED BY <1>2, <1>3

LEMMA ModStep ==
  ASSUME NEW a \in Slot, NEW n \in Nat, NEW k \in Nat, n + k <= BufLen
  PROVE  Mod(Mod(a + n) + k) = Mod(a + n + k)
<1>1. BufLen \in Nat /\ BufLen > 1 /\ a \in Nat /\ a < BufLen
  BY UartAssumption
<1>2. Mod(a + n) = IF a + n < BufLen THEN a + n ELSE a + n - BufLen
  BY <1>1, ModIs
<1>3. Mod(a + n + k) = IF a + n + k < BufLen THEN a + n + k ELSE a + n + k - BufLen
  BY <1>1, ModIs
<1>4. Mod(a + n) + k \in 0 .. 2 * BufLen - 1
  BY <1>1, <1>2
<1>5. Mod(Mod(a + n) + k) = IF Mod(a + n) + k < BufLen THEN Mod(a + n) + k ELSE Mod(a + n) + k - BufLen
  <2>1. \A i \in 0 .. 2 * BufLen - 1 : Mod(i) = IF i < BufLen THEN i ELSE i - BufLen
    BY ModIs
  <2>2. Mod(a + n) \in Nat
    BY <1>1, <1>2
  <2> QED BY <1>1, <1>4, <2>1, <2>2
<1> QED BY <1>1, <1>2, <1>3, <1>5

LEMMA ModInSlot ==
  ASSUME NEW a \in Slot, NEW n \in 0 .. BufLen
  PROVE  Mod(a + n) \in Slot
<1>1. BufLen \in Nat /\ BufLen > 1 /\ a + n \in 0 .. 2 * BufLen - 1
  BY UartAssumption
<1> QED BY <1>1, ModIs

LEMMA ModAt ==
  ASSUME NEW a \in Slot, NEW n \in Nat, n < BufLen
  PROVE  Mod(a + n) = IF a + n < BufLen THEN a + n ELSE a + n - BufLen
<1>1. BufLen \in Nat /\ BufLen > 1 /\ a + n \in 0 .. 2 * BufLen - 1
  BY UartAssumption
<1> QED BY <1>1, ModIs

(* How many characters a ring holds, and what adding or taking n does.     *)
LEMMA UsedIs ==
  ASSUME NEW first \in Slot, NEW last \in Slot
  PROVE  /\ Used(first, last) \in 0 .. BufLen - 1
         /\ Mod(first + Used(first, last)) = last
         /\ Used(first, last) = 0 <=> first = last
<1>1. BufLen \in Nat /\ first \in 0 .. BufLen - 1 /\ last \in 0 .. BufLen - 1
  BY UartAssumption
<1>2. Used(first, last) \in 0 .. BufLen - 1 /\ (Used(first, last) = 0 <=> first = last)
  BY <1>1 DEF Used
<1>3. first + Used(first, last) \in 0 .. 2 * BufLen - 1
  BY <1>1, <1>2
<1>4. Mod(first + Used(first, last)) = last
  BY <1>1, <1>3, ModIs DEF Used
<1> QED BY <1>2, <1>4

LEMMA UsedAdd ==
  ASSUME NEW first \in Slot, NEW last \in Slot, NEW n \in Nat, Used(first, last) + n < BufLen
  PROVE  Used(first, Mod(last + n)) = Used(first, last) + n
<1>1. BufLen \in Nat /\ first \in 0 .. BufLen - 1 /\ last \in 0 .. BufLen - 1
  BY UartAssumption
<1>2. Used(first, last) \in 0 .. BufLen - 1
  BY UsedIs
<1>3. last + n \in 0 .. 2 * BufLen - 1
  BY <1>1, <1>2
<1> QED BY <1>1, <1>3, ModIs DEF Used

LEMMA UsedTake ==
  ASSUME NEW first \in Slot, NEW last \in Slot, NEW n \in Nat, n <= Used(first, last)
  PROVE  Used(Mod(first + n), last) = Used(first, last) - n
<1>1. BufLen \in Nat /\ first \in 0 .. BufLen - 1 /\ last \in 0 .. BufLen - 1
  BY UartAssumption
<1>2. Used(first, last) \in 0 .. BufLen - 1
  BY UsedIs
<1>3. first + n \in 0 .. 2 * BufLen - 1
  BY <1>1, <1>2
<1> QED BY <1>1, <1>3, ModIs DEF Used

(* The handler stops when the next slot would make a full ring look empty. *)
LEMMA RxFullIs ==
  ASSUME rx_in \in Slot, rx_out \in Slot, NEW u, u = Used(rx_out, rx_in)
  PROVE  RxFull <=> u = BufLen - 1
<1>1. BufLen \in Nat /\ BufLen > 1 /\ rx_in \in 0 .. BufLen - 1 /\ rx_out \in 0 .. BufLen - 1
  BY UartAssumption
<1>2. Mod(rx_in + 1) = IF rx_in + 1 < BufLen THEN rx_in + 1 ELSE rx_in + 1 - BufLen
  BY <1>1, ModIs
<1> QED BY <1>1, <1>2 DEF Used, RxFull

(* A ring holds the characters after low, u of them, from first on; a FIFO *)
(* runs on from low.                                                       *)
Holds(buf, first, u, low) == \A k \in 0 .. u - 1 : buf[Mod(first + k)] = low + 1 + k
RunsOn(fifo, low) == \A k \in 1 .. Len(fifo) : fifo[k] = low + k

LEMMA HoldsMore ==
  ASSUME NEW S, NEW buf \in [Slot -> S], NEW first \in Slot, NEW u \in Nat, u < BufLen,
         NEW low \in Nat, Holds(buf, first, u, low)
  PROVE  Holds([buf EXCEPT ![Mod(first + u)] = low + u + 1], first, u + 1, low)
<1> DEFINE buf2 == [buf EXCEPT ![Mod(first + u)] = low + u + 1]
<1>1. BufLen \in Nat /\ first \in Nat /\ first < BufLen
  BY UartAssumption
<1>2. ASSUME NEW k \in 0 .. u
      PROVE  /\ Mod(first + k) \in Slot
             /\ Mod(first + k) = IF first + k < BufLen THEN first + k ELSE first + k - BufLen
  BY <1>1, ModIs, ModInSlot
<1>3. ASSUME NEW k \in 0 .. u - 1
      PROVE  Mod(first + k) \in Slot /\ Mod(first + k) # Mod(first + u)
  <2>1. k \in 0 .. u /\ u \in 0 .. u
    OBVIOUS
  <2> QED BY <1>1, <1>2, <2>1
<1>4. Mod(first + u) \in Slot
  BY <1>2
<1>5. ASSUME NEW k \in 0 .. (u + 1) - 1
      PROVE  buf2[Mod(first + k)] = low + 1 + k
  <2>1. CASE k = u
    BY <1>4, <2>1
  <2>2. CASE k \in 0 .. u - 1
    <3>1. buf2[Mod(first + k)] = buf[Mod(first + k)]
      BY <1>3, <1>4, <2>2
    <3> QED BY <3>1, <2>2 DEF Holds
  <2> QED BY <2>1, <2>2
<1> QED BY <1>5 DEF Holds

LEMMA HoldsLess ==
  ASSUME NEW buf, NEW first \in Slot, NEW u \in Nat, u < BufLen, NEW n \in Nat, n <= u,
         NEW low \in Nat, Holds(buf, first, u, low)
  PROVE  Holds(buf, Mod(first + n), u - n, low + n)
<1>1. BufLen \in Nat
  BY UartAssumption
<1>2. ASSUME NEW k \in 0 .. (u - n) - 1
      PROVE  buf[Mod(Mod(first + n) + k)] = low + n + 1 + k
  <2>1. n + k \in 0 .. u - 1 /\ n + k <= BufLen /\ k \in Nat /\ first \in Nat
    BY <1>1
  <2>2. Mod(Mod(first + n) + k) = Mod(first + n + k)
    BY <2>1, ModStep
  <2>3. buf[Mod(first + (n + k))] = low + 1 + (n + k)
    BY <2>1 DEF Holds
  <2>4. first + (n + k) = first + n + k /\ low + 1 + (n + k) = low + n + 1 + k
    BY <2>1
  <2> QED BY <2>2, <2>3, <2>4
<1> QED BY <1>2 DEF Holds

LEMMA RunsMore ==
  ASSUME NEW fifo \in Seq(Nat), NEW low \in Nat, RunsOn(fifo, low),
         NEW c \in Nat, c = low + Len(fifo) + 1
  PROVE  /\ Append(fifo, c) \in Seq(Nat) /\ Len(Append(fifo, c)) = Len(fifo) + 1
         /\ RunsOn(Append(fifo, c), low)
<1> DEFINE f == Append(fifo, c)
<1>1. f \in Seq(Nat) /\ Len(f) = Len(fifo) + 1 /\ Len(fifo) \in Nat
  OBVIOUS
<1>2. ASSUME NEW k \in 1 .. Len(fifo) + 1
      PROVE  f[k] = low + k
  <2>1. CASE k = Len(fifo) + 1
    BY <2>1
  <2>2. CASE k \in 1 .. Len(fifo)
    <3>1. f[k] = fifo[k]
      BY <2>2
    <3> QED BY <3>1, <2>2 DEF RunsOn
  <2> QED BY <1>1, <2>1, <2>2
<1>3. RunsOn(f, low)
  BY <1>1, <1>2 DEF RunsOn
<1> QED BY <1>1, <1>3

LEMMA RunsLess ==
  ASSUME NEW fifo \in Seq(Nat), NEW low \in Nat, RunsOn(fifo, low), fifo # <<>>
  PROVE  /\ Tail(fifo) \in Seq(Nat) /\ Len(fifo) > 0 /\ Len(Tail(fifo)) = Len(fifo) - 1
         /\ Head(fifo) = low + 1
         /\ RunsOn(Tail(fifo), low + 1)
<1> DEFINE f == Tail(fifo)
<1>1. f \in Seq(Nat) /\ Len(fifo) \in Nat /\ Len(fifo) > 0 /\ Len(f) = Len(fifo) - 1
  OBVIOUS
<1>2. Head(fifo) = fifo[1] /\ fifo[1] = low + 1
  BY <1>1 DEF RunsOn
<1>3. ASSUME NEW k \in 1 .. Len(f)
      PROVE  f[k] = low + 1 + k
  <2>1. f[k] = fifo[k + 1] /\ k + 1 \in 1 .. Len(fifo)
    BY <1>1
  <2>2. fifo[k + 1] = low + (k + 1)
    BY <2>1 DEF RunsOn
  <2> QED BY <2>1, <2>2
<1>4. RunsOn(f, low + 1)
  BY <1>3 DEF RunsOn
<1> QED BY <1>1, <1>2, <1>4

-----------------------------------------------------------------------------
(* The inductive invariant.  NotDeaf, NotMute and InOrder say nothing of   *)
(* the copies of the indices a call works with while the handler moves the *)
(* indices themselves: what a call is about to take is still there, and    *)
(* where it is about to write is still free.                               *)

Reading == {"r_load", "r_copy", "r_free", "r_spin", "r_mask", "r_post"}
Writing == {"w_load", "w_copy", "w_publish", "w_spin", "w_mask", "w_post"}

rx_used == Used(rx_out, rx_in)
tx_used == Used(tx_out, tx_in)

CallType == [left : Nat, moved : BOOLEAN, nonblock : BOOLEAN, in : Nat, out : Nat, n : Nat]

ControlOK ==
  /\ pc \in {"init", "idle", "close"} \union Reading \union Writing
  /\ isr \in {"none", "control", "read", "write"}
  /\ call \in CallType
  /\ pc = "init" => irq_enable = {}
  /\ Masked => isr = "none"
  /\ isr \in {"read", "write"} => Len(hw_tx) + space <= Depth

(* Each stream lies in the ring and the FIFO from where the reader is to   *)
(* where the writer is.                                                    *)
taken == IF pc = "r_free" THEN got - call.n ELSE got

RxPlace ==
  /\ taken \in Nat /\ typed = taken + rx_used + Len(hw_rx)
  /\ Holds(rx_buf, rx_out, rx_used, taken) /\ RunsOn(hw_rx, taken + rx_used)

TxPlace ==
  /\ written = shown + Len(hw_tx) + tx_used
  /\ RunsOn(hw_tx, shown) /\ Holds(tx_buf, tx_out, tx_used, shown + Len(hw_tx))

ReadCall ==
  /\ pc \in {"r_copy", "r_free"} => /\ call.out = rx_out /\ call.n \in 1 .. rx_used
                                    /\ rx_out + call.n <= BufLen
  /\ pc = "r_copy" => call.n <= call.left
  /\ pc = "r_free" => call.moved

WriteCall ==
  /\ pc \in Writing => written + call.left <= MaxTx
  /\ pc \in {"w_copy", "w_publish"} => /\ call.in = tx_in /\ call.n \in 1 .. call.left
                                       /\ tx_used + call.n < BufLen /\ tx_in + call.n <= BufLen
  /\ pc = "w_publish" => \A k \in 0 .. call.n - 1 : tx_buf[tx_in + k] = written + 1 + k

IInv == SafeUart /\ ControlOK /\ RxPlace /\ TxPlace /\ ReadCall /\ WriteCall

(* What the calls keep of themselves.                                      *)
LEMMA CallEdits ==
  ASSUME NEW c \in CallType, NEW a \in Nat, NEW b \in Nat, NEW k \in Nat
  PROVE  /\ c.left \in Nat /\ c.in \in Nat /\ c.out \in Nat /\ c.n \in Nat /\ c.moved \in BOOLEAN
         /\ [c EXCEPT !.in = a] \in CallType
         /\ [c EXCEPT !.out = a] \in CallType
         /\ [c EXCEPT !.in = a, !.n = k] \in CallType
         /\ [c EXCEPT !.in = a, !.out = b, !.n = k] \in CallType
         /\ [c EXCEPT !.left = a, !.in = b, !.n = k] \in CallType
         /\ [c EXCEPT !.left = a, !.moved = TRUE] \in CallType
<1>1. c.left \in Nat /\ c.in \in Nat /\ c.out \in Nat /\ c.n \in Nat /\ c.moved \in BOOLEAN
  BY DEF CallType
<1>2. [c EXCEPT !.in = a] \in CallType
  BY DEF CallType
<1>3. [c EXCEPT !.out = a] \in CallType
  BY DEF CallType
<1>4. [c EXCEPT !.in = a, !.n = k] \in CallType
  BY DEF CallType
<1>5. [c EXCEPT !.in = a, !.out = b, !.n = k] \in CallType
  BY DEF CallType
<1>6. [c EXCEPT !.left = a, !.in = b, !.n = k] \in CallType
  BY DEF CallType
<1>7. [c EXCEPT !.left = a, !.moved = TRUE] \in CallType
  BY DEF CallType
<1> QED BY <1>1, <1>2, <1>3, <1>4, <1>5, <1>6, <1>7

LEMMA NoCallType == NoCall \in CallType /\ ~NoCall.moved
  BY DEF NoCall, CallType

(* The two streams stay where they are while their variables do.           *)
LEMMA RxFrame ==
  ASSUME RxPlace, UNCHANGED <<rx, hw_rx, typed>>, taken' = taken
  PROVE  RxPlace'
  BY DEF RxPlace, rx, rx_used, Holds, RunsOn

LEMMA TxFrame ==
  ASSUME TxPlace, UNCHANGED <<tx, hw_tx, shown, written>>
  PROVE  TxPlace'
  BY DEF TxPlace, tx, tx_used, Holds, RunsOn

-----------------------------------------------------------------------------
(* Steps of the program that move no character.                            *)

LEMMA InitStep ==
  ASSUME IInv, altera_avalon_jtag_uart_init
  PROVE  IInv'
<1> USE DEF altera_avalon_jtag_uart_init
<1>1. RxPlace' /\ TxPlace'
  BY RxFrame, TxFrame DEF IInv, taken, rings, rx, tx, fifos, world
<1>2. SafeUart'
  <2>1. timeout' \in Int
    BY UartAssumption DEF IInv, SafeUart, TypeOK
  <2>2. irq_enable' = {"RE"} /\ control' = {"RE"} /\ irq_enable = {} /\ pc = "init" /\ pc' = "idle"
    BY DEF IInv, ControlOK
  <2>3. TypeOK' /\ ShadowAgrees'
    BY <2>1, <2>2 DEF IInv, SafeUart, TypeOK, ShadowAgrees, rings, fifos, world, irq
  <2>4. NotDeaf' /\ NotMute'
    BY <2>2 DEF IInv, SafeUart, NotDeaf, NotMute, rings
  <2> QED BY <2>3, <2>4 DEF SafeUart
<1>3. ControlOK' /\ ReadCall' /\ WriteCall'
  BY DEF IInv, ControlOK, ReadCall, WriteCall, Masked, Reading, Writing, rings, fifos, irq
<1> QED BY <1>1, <1>2, <1>3 DEF IInv

LEMMA BeginStep ==
  ASSUME IInv, NEW nonblock \in BOOLEAN, NEW count \in Nat,
         NEW routine \in {"r_load", "w_load", "close"},
         routine = "w_load" => written + count <= MaxTx,
         Begin(routine, count, nonblock)
  PROVE  IInv'
<1> USE DEF Begin, Step, Goto
<1>1. RxPlace' /\ TxPlace'
  BY RxFrame, TxFrame DEF IInv, taken, rings, rx, tx, fifos, world
<1>2. SafeUart'
  BY DEF IInv, SafeUart, TypeOK, ShadowAgrees, NotDeaf, NotMute, rings, waits, fifos, world, irq
<1>3. ControlOK' /\ ReadCall' /\ WriteCall'
  BY DEF IInv, ControlOK, ReadCall, WriteCall, Masked, Reading, Writing, rings, fifos, irq, NoCall, CallType
<1> QED BY <1>1, <1>2, <1>3 DEF IInv

LEMMA ReadLoadStep ==
  ASSUME IInv, Read_load
  PROVE  IInv'
<1> DEFINE n == IF rx_in >= rx_out THEN rx_in - rx_out ELSE BufLen - rx_out
           take == IF n > call.left THEN call.left ELSE n
<1>1. /\ rx_in \in 0 .. BufLen - 1 /\ rx_out \in 0 .. BufLen - 1 /\ BufLen \in Nat
      /\ call \in CallType
  BY UartAssumption DEF IInv, SafeUart, TypeOK, ControlOK
<1>2. /\ pc = "r_load" /\ isr = "none"
      /\ UNCHANGED <<fifos, world, irq, rings, irq_enable, waits, control, got, written>>
  BY DEF Read_load, Step
<1>3. \/ /\ pc' = "r_copy" /\ n > 0 /\ call.left > 0
         /\ call' = [call EXCEPT !.in = rx_in, !.out = rx_out, !.n = take]
      \/ pc' = "r_mask" /\ call.moved /\ call' = call
      \/ pc' = "idle" /\ ~call.moved /\ call' = NoCall
      \/ pc' = "r_spin" /\ ~call.moved /\ call' = [call EXCEPT !.in = rx_in]
  BY <1>1, Zenon DEF Read_load, Goto, Return
<1>4. RxPlace' /\ TxPlace'
  BY <1>2, <1>3, RxFrame, TxFrame DEF IInv, taken, rings, rx, tx, fifos, world
<1>5. n > 0 => rx_in # rx_out
  BY <1>1
<1>6. SafeUart'
  <2>1. TypeOK' /\ ShadowAgrees' /\ NotMute'
    BY <1>2, <1>3 DEF IInv, SafeUart, TypeOK, ShadowAgrees, NotMute, rings, waits, fifos, world, irq
  <2>2. NotDeaf'
    BY <1>2, <1>3, <1>5 DEF IInv, SafeUart, NotDeaf, rings
  <2> QED BY <2>1, <2>2 DEF SafeUart
<1>7. n > 0 /\ call.left > 0 => /\ take \in 1 .. rx_used /\ take \in Nat
                                /\ rx_out + take <= BufLen /\ take <= call.left
  BY <1>1 DEF rx_used, Used, CallType
<1> HIDE DEF n, take
<1>8. ControlOK'
  <2>1. call' \in CallType
    <3>1. CASE call' = [call EXCEPT !.in = rx_in, !.out = rx_out, !.n = take] /\ n > 0 /\ call.left > 0
      <4>1. call \in CallType /\ rx_in \in Nat /\ rx_out \in Nat /\ take \in Nat
        BY <1>1, <1>7, <3>1
      <4> QED BY <4>1, <3>1, CallEdits
    <3>2. CASE call' = call \/ call' = NoCall \/ call' = [call EXCEPT !.in = rx_in]
      <4>1. call \in CallType /\ rx_in \in Nat
        BY <1>1
      <4> QED BY <4>1, <3>2, CallEdits, NoCallType
    <3> QED BY <1>3, <3>1, <3>2
  <2> QED BY <1>2, <1>3, <2>1 DEF IInv, ControlOK, Masked, Reading, fifos, irq
<1>9. ReadCall'
  BY <1>1, <1>2, <1>3, <1>7 DEF ReadCall, rings, rx_used, CallType
<1>10. WriteCall'
  BY <1>2, <1>3 DEF WriteCall, Writing
<1> QED BY <1>4, <1>6, <1>8, <1>9, <1>10 DEF IInv

LEMMA SpinStep ==
  ASSUME IInv, Read_spin \/ Write_spin
  PROVE  IInv'
<1>1. /\ pc \in {"r_spin", "w_spin"} /\ isr = "none"
      /\ UNCHANGED <<fifos, world, irq, rings, irq_enable, waits, control, got, written>>
  BY DEF Read_spin, Write_spin, Step
<1>2. \/ pc' = (IF pc = "r_spin" THEN "r_load" ELSE "w_load") /\ call' = call
      \/ pc' = "idle" /\ call' = NoCall
      \/ UNCHANGED <<pc, call>>
  BY DEF Read_spin, Write_spin, Step, Goto, Return
<1>3. RxPlace' /\ TxPlace'
  BY <1>1, <1>2, RxFrame, TxFrame DEF IInv, taken, rings, rx, tx, fifos, world
<1>4. SafeUart'
  BY <1>1, <1>2 DEF IInv, SafeUart, TypeOK, ShadowAgrees, NotDeaf, NotMute, rings, waits, fifos, world, irq
<1>5. ControlOK'
  BY <1>1, <1>2, NoCallType DEF IInv, ControlOK, Masked, Reading, Writing, fifos, irq
<1>6. ReadCall' /\ WriteCall'
  BY <1>1, <1>2 DEF IInv, ReadCall, WriteCall, Writing
<1> QED BY <1>3, <1>4, <1>5, <1>6 DEF IInv

LEMMA WriteLoadStep ==
  ASSUME IInv, Write_load
  PROVE  IInv'
<1> DEFINE n == IF Write_room > call.left THEN call.left ELSE Write_room
<1>1. /\ tx_in \in 0 .. BufLen - 1 /\ tx_out \in 0 .. BufLen - 1 /\ BufLen \in Nat
      /\ call \in CallType
  BY UartAssumption DEF IInv, SafeUart, TypeOK, ControlOK
<1>2. /\ pc = "w_load" /\ isr = "none"
      /\ UNCHANGED <<fifos, world, irq, rings, irq_enable, waits, control, got, written>>
  BY DEF Write_load, Step
<1>3. \/ pc' = "w_copy" /\ n > 0 /\ call' = [call EXCEPT !.in = tx_in, !.n = n]
      \/ pc' = "w_mask" /\ call' = [call EXCEPT !.out = tx_out]
  BY DEF Write_load, Goto
<1>4. n > 0 => n \in 1 .. call.left /\ n \in Nat /\ tx_used + n < BufLen /\ tx_in + n <= BufLen
  BY <1>1 DEF tx_used, Used, Write_room, CallType
<1> HIDE DEF n
<1>5. RxPlace' /\ TxPlace'
  BY <1>2, <1>3, RxFrame, TxFrame DEF IInv, taken, rings, rx, tx, fifos, world
<1>6. SafeUart'
  BY <1>2, <1>3 DEF IInv, SafeUart, TypeOK, ShadowAgrees, NotDeaf, NotMute, rings, waits, fifos, world, irq
<1>7. ControlOK'
  <2>1. call' \in CallType
    <3>1. CASE call' = [call EXCEPT !.in = tx_in, !.n = n] /\ n > 0
      <4>1. call \in CallType /\ tx_in \in Nat /\ n \in Nat
        BY <1>1, <1>4, <3>1
      <4> QED BY <4>1, <3>1, CallEdits
    <3>2. CASE call' = [call EXCEPT !.out = tx_out]
      <4>1. call \in CallType /\ tx_out \in Nat
        BY <1>1
      <4> QED BY <4>1, <3>2, CallEdits
    <3> QED BY <1>3, <3>1, <3>2
  <2> QED BY <1>2, <1>3, <2>1 DEF IInv, ControlOK, Masked, Writing, fifos, irq
<1>8. ReadCall'
  BY <1>2, <1>3 DEF ReadCall
<1>9. WriteCall'
  BY <1>1, <1>2, <1>3, <1>4 DEF IInv, WriteCall, Writing, rings, tx_used, CallType
<1> QED BY <1>5, <1>6, <1>7, <1>8, <1>9 DEF IInv

(* Enabling an interrupt, then telling the UART.                           *)
LEMMA MaskStep ==
  ASSUME IInv, Read_mask \/ Write_mask
  PROVE  IInv'
<1>1. /\ pc \in {"r_mask", "w_mask"} /\ isr = "none"
      /\ pc' = (IF pc = "r_mask" THEN "r_post" ELSE "w_post")
      /\ irq_enable' = irq_enable \union {IF pc = "r_mask" THEN "RE" ELSE "WE"}
      /\ UNCHANGED <<fifos, world, irq, rings, waits, control, call, got, written>>
  BY DEF Read_mask, Write_mask, Enable, Step, Goto
<1>2. RxPlace' /\ TxPlace'
  BY <1>1, RxFrame, TxFrame DEF IInv, taken, rings, rx, tx, fifos, world
<1>3. SafeUart'
  BY <1>1 DEF IInv, SafeUart, TypeOK, ShadowAgrees, NotDeaf, NotMute, rings, waits, fifos, world, irq
<1>4. ControlOK' /\ ReadCall' /\ WriteCall'
  BY <1>1 DEF IInv, ControlOK, ReadCall, WriteCall, Masked, Reading, Writing, fifos, irq
<1> QED BY <1>2, <1>3, <1>4 DEF IInv

LEMMA PostStep ==
  ASSUME IInv, Read_post \/ Write_post
  PROVE  IInv'
<1>1. /\ pc \in {"r_post", "w_post"} /\ isr = "none"
      /\ control' = irq_enable
      /\ UNCHANGED <<fifos, world, irq, rings, irq_enable, waits, got, written>>
      /\ \/ pc' = "idle" /\ call' = NoCall
         \/ pc = "w_post" /\ pc' = "w_spin" /\ call' = call
  BY DEF Read_post, Write_post, Step, Goto, Return
<1>2. RxPlace' /\ TxPlace'
  BY <1>1, RxFrame, TxFrame DEF IInv, taken, rings, rx, tx, fifos, world
<1>3. SafeUart'
  BY <1>1 DEF IInv, SafeUart, TypeOK, ShadowAgrees, NotDeaf, NotMute, rings, waits, fifos, world, irq
<1>4. ControlOK' /\ ReadCall' /\ WriteCall'
  BY <1>1, NoCallType DEF IInv, ControlOK, ReadCall, WriteCall, Masked, Reading, Writing, fifos, irq
<1> QED BY <1>2, <1>3, <1>4 DEF IInv

LEMMA CloseStep ==
  ASSUME IInv, altera_avalon_jtag_uart_close
  PROVE  IInv'
<1>1. /\ pc = "close" /\ isr = "none"
      /\ UNCHANGED <<fifos, world, irq, rings, irq_enable, waits, control, got, written>>
      /\ \/ pc' = "idle" /\ call' = NoCall
         \/ UNCHANGED <<pc, call>>
  BY DEF altera_avalon_jtag_uart_close, Step, Return
<1>2. RxPlace' /\ TxPlace'
  BY <1>1, RxFrame, TxFrame DEF IInv, taken, rings, rx, tx, fifos, world
<1>3. SafeUart'
  BY <1>1 DEF IInv, SafeUart, TypeOK, ShadowAgrees, NotDeaf, NotMute, rings, waits, fifos, world, irq
<1>4. ControlOK' /\ ReadCall' /\ WriteCall'
  BY <1>1, NoCallType DEF IInv, ControlOK, ReadCall, WriteCall, Masked, Reading, Writing, fifos, irq
<1> QED BY <1>2, <1>3, <1>4 DEF IInv

LEMMA IoctlStep ==
  ASSUME IInv, NEW arg \in Int, altera_avalon_jtag_uart_ioctl(arg)
  PROVE  IInv'
<1>1. /\ UNCHANGED <<fifos, world, irq, rings, irq_enable, host_inactive, control, pc, call, got, written>>
      /\ timeout' \in Int
  BY UartAssumption DEF altera_avalon_jtag_uart_ioctl, Step, Goto
<1>2. RxPlace' /\ TxPlace'
  BY <1>1, RxFrame, TxFrame DEF IInv, taken, rings, rx, tx, fifos, world
<1>3. SafeUart'
  BY <1>1 DEF IInv, SafeUart, TypeOK, ShadowAgrees, NotDeaf, NotMute, rings, fifos, world, irq
<1>4. ControlOK' /\ ReadCall' /\ WriteCall'
  BY <1>1 DEF IInv, ControlOK, ReadCall, WriteCall, Masked, rings, fifos, irq, rx_used, tx_used
<1> QED BY <1>2, <1>3, <1>4 DEF IInv

-----------------------------------------------------------------------------
(* Steps of the handler, the alarm and the host that move no character.    *)

LEMMA InterruptStep ==
  ASSUME IInv, Interrupt \/ Isr_control
  PROVE  IInv'
<1>1. /\ UNCHANGED <<waits, activity, world, prog, rings, irq_enable, control, hw_rx, hw_tx>>
      /\ isr' \in {"none", "control", "read", "write"}
      /\ isr' \in {"read", "write"} => space' = Depth - Len(hw_tx)
      /\ isr' # "none" => ~Masked
      /\ \/ UNCHANGED <<space, wi, ravail>>
         \/ space' \in {0, Depth - Len(hw_tx)} /\ wi' \in BOOLEAN /\ ravail' \in BOOLEAN
  BY DEF IInv, ControlOK, Interrupt, Isr_control, Handler, WI, RI
<1>2. RxPlace' /\ TxPlace'
  BY <1>1, RxFrame, TxFrame DEF IInv, taken, rings, rx, tx, world, prog
<1>3. Depth \in Nat /\ Len(hw_tx) \in 0 .. Depth
  BY UartAssumption DEF IInv, SafeUart, TypeOK
<1>4. SafeUart'
  <2>1. space' \in 0 .. Depth
    <3>1. space \in 0 .. Depth
      BY DEF IInv, SafeUart, TypeOK
    <3>2. space' \in {space, 0, Depth - Len(hw_tx)}
      BY <1>1
    <3> QED BY <1>3, <3>1, <3>2
  <2>2. wi' \in BOOLEAN /\ ravail' \in BOOLEAN
    BY <1>1, Zenon DEF IInv, SafeUart, TypeOK
  <2> QED BY <1>1, <2>1, <2>2 DEF IInv, SafeUart, TypeOK, ShadowAgrees, NotDeaf, NotMute, rings, waits, world, prog
<1>5. ControlOK' /\ ReadCall' /\ WriteCall'
  BY <1>1, <1>3 DEF IInv, ControlOK, ReadCall, WriteCall, Masked, Reading, Writing, rings, prog,
                    rx_used, tx_used
<1> QED BY <1>2, <1>4, <1>5 DEF IInv

(* Reception goes off only with a full ring, transmission only with an     *)
(* empty one.                                                              *)
LEMMA DisableStep ==
  ASSUME IInv, Isr_read_done \/ Isr_write_done
  PROVE  IInv'
<1>1. /\ UNCHANGED <<waits, activity, world, prog, rings, hw_rx, hw_tx>>
      /\ isr \in {"read", "write"} /\ isr' \in {"write", "control"}
      /\ isr' = "write" => space' = space
      /\ space' \in {space, 0} /\ wi' \in BOOLEAN /\ ravail' \in BOOLEAN
      /\ irq_enable' \subseteq irq_enable /\ control' = irq_enable'
      /\ "RE" \in irq_enable /\ "RE" \notin irq_enable' => RxFull
      /\ "WE" \in irq_enable /\ "WE" \notin irq_enable' => tx_in = tx_out
  <2>1. CASE Isr_read_done
    BY <2>1 DEF Isr_read_done, Handler, Disable, IInv, SafeUart, TypeOK
  <2>2. CASE Isr_write_done
    <3>1. space \in Int /\ ravail \in BOOLEAN
      BY DEF IInv, SafeUart, TypeOK
    <3>2. /\ UNCHANGED <<waits, activity, world, prog, rings, hw_rx, hw_tx, ravail>>
          /\ isr = "write" /\ isr' = "control" /\ space' = 0 /\ wi' = FALSE
          /\ space = 0 \/ tx_out = tx_in
          /\ irq_enable' = irq_enable \ (IF space > 0 THEN {"WE"} ELSE {})
          /\ control' = irq_enable'
      BY <2>2 DEF Isr_write_done, Handler, Disable
    <3>3. wi' \in BOOLEAN /\ ravail' \in BOOLEAN
      BY <3>1, <3>2, Zenon
    <3>4. irq_enable' \subseteq irq_enable /\ ("WE" \in irq_enable /\ "WE" \notin irq_enable' => tx_in = tx_out)
      BY <3>1, <3>2
    <3>5. "RE" \in irq_enable => "RE" \in irq_enable'
      BY <3>2
    <3> QED BY <3>2, <3>3, <3>4, <3>5
  <2> QED BY <2>1, <2>2
<1>2. RxPlace' /\ TxPlace'
  BY <1>1, RxFrame, TxFrame DEF IInv, taken, rings, rx, tx, world, prog
<1>3. RxFull => rx_in # rx_out
  <2>1. rx_in \in Slot /\ rx_out \in Slot
    BY DEF IInv, SafeUart, TypeOK
  <2> QED BY <2>1, RxFullIs, UsedIs, UartAssumption
<1>4. SafeUart'
  <2>1. TypeOK' /\ ShadowAgrees'
    <3>1. space' \in 0 .. Depth
      <4>1. Depth \in Nat /\ space \in 0 .. Depth
        BY UartAssumption DEF IInv, SafeUart, TypeOK
      <4>2. space' \in {space, 0}
        BY <1>1
      <4> QED BY <4>1, <4>2
    <3>2. wi' \in BOOLEAN /\ ravail' \in BOOLEAN
      BY <1>1
    <3> QED BY <1>1, <3>1, <3>2 DEF IInv, SafeUart, TypeOK, ShadowAgrees, rings, waits, world, prog
  <2>2. NotDeaf' /\ NotMute'
    BY <1>1, <1>3 DEF IInv, SafeUart, NotDeaf, NotMute, rings, prog
  <2> QED BY <2>1, <2>2 DEF SafeUart
<1>5. ControlOK' /\ ReadCall' /\ WriteCall'
  <2>1. (~Masked /\ pc # "init") \/ irq_enable' = {}
    BY <1>1 DEF IInv, ControlOK
  <2> QED BY <1>1, <2>1 DEF IInv, ControlOK, ReadCall, WriteCall, Masked, Reading, Writing, rings, prog,
                            rx_used, tx_used
<1> QED BY <1>2, <1>4, <1>5 DEF IInv

LEMMA TimeoutStep ==
  ASSUME IInv, altera_avalon_jtag_uart_timeout
  PROVE  IInv'
<1>1. /\ UNCHANGED <<rings, irq_enable, timeout, hw_rx, hw_tx, world, irq, prog>>
      /\ host_inactive' \in 0 .. INT_MAX - 2 /\ activity' \in BOOLEAN
      /\ control' \in {control, irq_enable} /\ ~Masked
  <2>1. host_inactive \in 0 .. INT_MAX - 2 /\ INT_MAX \in Nat /\ INT_MAX > 2 /\ activity \in BOOLEAN
    BY UartAssumption DEF IInv, SafeUart, TypeOK
  <2>2. /\ UNCHANGED <<rings, irq_enable, timeout, hw_rx, hw_tx, world, irq, prog>> /\ ~Masked
        /\ \/ host_inactive' = 0 /\ activity' = FALSE /\ control' = irq_enable
           \/ /\ host_inactive' = IF host_inactive < INT_MAX - 2 THEN host_inactive + 1 ELSE host_inactive
              /\ UNCHANGED <<activity, control>>
    BY Zenon DEF altera_avalon_jtag_uart_timeout
  <2>3. host_inactive' \in 0 .. INT_MAX - 2
    BY <2>1, <2>2
  <2>4. activity' \in BOOLEAN
    BY <2>1, <2>2, Zenon
  <2>5. control' \in {control, irq_enable}
    BY <2>2
  <2> QED BY <2>2, <2>3, <2>4, <2>5
<1>2. RxPlace' /\ TxPlace'
  BY <1>1, RxFrame, TxFrame DEF IInv, taken, rings, rx, tx, world, prog
<1>3. SafeUart'
  BY <1>1 DEF IInv, SafeUart, TypeOK, ShadowAgrees, NotDeaf, NotMute, Masked, rings, world, irq, prog
<1>4. ControlOK' /\ ReadCall' /\ WriteCall'
  BY <1>1 DEF IInv, ControlOK, ReadCall, WriteCall, Masked, Reading, Writing, rings, irq, prog,
              rx_used, tx_used
<1> QED BY <1>2, <1>3, <1>4 DEF IInv

LEMMA HostStep ==
  ASSUME IInv, Host_comes \/ Host_goes
  PROVE  IInv'
<1>1. /\ UNCHANGED <<rings, irq_enable, waits, control, irq, prog, hw_rx, hw_tx, typed, shown>>
      /\ activity' \in BOOLEAN
  BY DEF Host_comes, Host_goes, Host, fifos, IInv, SafeUart, TypeOK
<1>2. RxPlace' /\ TxPlace'
  BY <1>1, RxFrame, TxFrame DEF IInv, taken, rings, rx, tx, prog
<1>3. SafeUart'
  BY <1>1 DEF IInv, SafeUart, TypeOK, ShadowAgrees, NotDeaf, NotMute, rings, waits, irq, prog
<1>4. ControlOK' /\ ReadCall' /\ WriteCall'
  BY <1>1 DEF IInv, ControlOK, ReadCall, WriteCall, Masked, Reading, Writing, rings, irq, prog,
              rx_used, tx_used
<1> QED BY <1>2, <1>3, <1>4 DEF IInv

-----------------------------------------------------------------------------
(* Steps that move characters towards the program.                         *)

(* Types and places that all of them use.                                  *)
PlaceTypes ==
  /\ BufLen \in Nat /\ BufLen > 1 /\ Depth \in Nat /\ MaxTx \in Nat /\ MaxRx \in Nat
  /\ rx_in \in Slot /\ rx_out \in Slot /\ tx_in \in Slot /\ tx_out \in Slot
  /\ rx_in \in Nat /\ rx_out \in Nat /\ tx_in \in Nat /\ tx_out \in Nat
  /\ rx_in < BufLen /\ rx_out < BufLen /\ tx_in < BufLen /\ tx_out < BufLen
  /\ shown \in Nat /\ got \in Nat /\ written \in Nat
  /\ rx_used \in Nat /\ rx_used < BufLen /\ tx_used \in Nat /\ tx_used < BufLen
  /\ rx_buf \in [Slot -> 0 .. MaxRx] /\ tx_buf \in [Slot -> 0 .. MaxTx]
  /\ hw_rx \in Seq(Nat) /\ hw_tx \in Seq(Nat) /\ Len(hw_rx) \in Nat /\ Len(hw_tx) \in Nat
  /\ typed \in 0 .. MaxRx /\ shown \in 0 .. MaxTx /\ got \in 0 .. MaxRx /\ written \in 0 .. MaxTx
  /\ taken \in Nat
  /\ call \in CallType /\ call.left \in Nat /\ call.in \in Nat /\ call.out \in Nat /\ call.n \in Nat

LEMMA Places == IInv => PlaceTypes
<1> SUFFICES ASSUME IInv PROVE PlaceTypes
  OBVIOUS
<1>1. /\ rx_in \in Slot /\ rx_out \in Slot /\ tx_in \in Slot /\ tx_out \in Slot
      /\ rx_buf \in [Slot -> 0 .. MaxRx] /\ tx_buf \in [Slot -> 0 .. MaxTx]
      /\ hw_rx \in Seq(Nat) /\ hw_tx \in Seq(Nat)
      /\ typed \in 0 .. MaxRx /\ shown \in 0 .. MaxTx /\ got \in 0 .. MaxRx /\ written \in 0 .. MaxTx
      /\ taken \in Nat
  BY DEF IInv, SafeUart, TypeOK, RxPlace
<1>2. BufLen \in Nat /\ BufLen > 1 /\ Depth \in Nat /\ MaxTx \in Nat /\ MaxRx \in Nat
  BY UartAssumption
<1>3. rx_used \in 0 .. BufLen - 1 /\ tx_used \in 0 .. BufLen - 1
  BY <1>1, UsedIs DEF rx_used, tx_used
<1>4. call \in CallType /\ call.left \in Nat /\ call.in \in Nat /\ call.out \in Nat /\ call.n \in Nat
  BY DEF IInv, ControlOK, CallType
<1>5. /\ rx_in \in Nat /\ rx_out \in Nat /\ tx_in \in Nat /\ tx_out \in Nat
      /\ rx_in < BufLen /\ rx_out < BufLen /\ tx_in < BufLen /\ tx_out < BufLen
  BY <1>1, <1>2
<1>6. rx_used \in Nat /\ rx_used < BufLen /\ tx_used \in Nat /\ tx_used < BufLen
  BY <1>2, <1>3
<1>7. Len(hw_rx) \in Nat /\ Len(hw_tx) \in Nat
  BY <1>1
<1>8. shown \in Nat /\ got \in Nat /\ written \in Nat
  BY <1>1
<1> QED BY <1>1, <1>2, <1>4, <1>5, <1>6, <1>7, <1>8 DEF PlaceTypes

(* The host types: the FIFO grows at its end.                              *)
LEMMA HostTypesStep ==
  ASSUME IInv, Host_types
  PROVE  IInv'
<1>1. /\ UNCHANGED <<rings, irq_enable, waits, control, irq, prog, hw_tx, activity, shown>>
      /\ typed < MaxRx /\ Len(hw_rx) < Depth
      /\ typed' = typed + 1 /\ hw_rx' = Append(hw_rx, typed + 1)
  BY DEF Host_types, Host
<1>2. /\ taken \in Nat /\ rx_used \in Nat /\ hw_rx \in Seq(Nat) /\ Len(hw_rx) \in Nat
      /\ typed \in Nat /\ MaxRx \in Nat /\ Depth \in Nat
  BY Places DEF PlaceTypes
<1>3. /\ typed = taken + rx_used + Len(hw_rx) /\ RunsOn(hw_rx, taken + rx_used)
      /\ Holds(rx_buf, rx_out, rx_used, taken)
  BY DEF IInv, RxPlace
<1>4. /\ hw_rx' \in Seq(Nat) /\ Len(hw_rx') = Len(hw_rx) + 1
      /\ RunsOn(hw_rx', taken + rx_used)
  <2>1. taken + rx_used \in Nat /\ typed + 1 \in Nat /\ typed + 1 = taken + rx_used + Len(hw_rx) + 1
    BY <1>2, <1>3
  <2> QED BY <1>1, <1>2, <1>3, <2>1, RunsMore
<1>5. taken' = taken /\ rx_used' = rx_used /\ rx_buf' = rx_buf /\ rx_out' = rx_out
  BY <1>1 DEF taken, rx_used, rings, prog
<1>6. TxPlace'
  BY <1>1, TxFrame DEF IInv, rings, tx, prog
<1>7. RxPlace'
  <2>1. typed' = taken + rx_used + Len(hw_rx')
    BY <1>1, <1>2, <1>3, <1>4
  <2> QED BY <1>2, <1>3, <1>4, <1>5, <2>1 DEF RxPlace, Holds, RunsOn
<1>8. SafeUart'
  <2>1. typed' \in 0 .. MaxRx /\ Len(hw_rx') <= Depth /\ hw_rx' \in Seq(Nat)
    BY <1>1, <1>2, <1>4
  <2>2. TypeOK'
    BY <1>1, <2>1 DEF IInv, SafeUart, TypeOK, rings, waits, irq, prog
  <2>3. ShadowAgrees' /\ NotDeaf' /\ NotMute'
    BY <1>1 DEF IInv, SafeUart, ShadowAgrees, NotDeaf, NotMute, rings, prog
  <2> QED BY <2>2, <2>3 DEF SafeUart
<1>9. ControlOK' /\ ReadCall' /\ WriteCall'
  BY <1>1 DEF IInv, ControlOK, ReadCall, WriteCall, Masked, Reading, Writing, rings, irq, prog,
              rx_used, tx_used
<1> QED BY <1>6, <1>7, <1>8, <1>9 DEF IInv

(* The handler moves the first character of the FIFO to the ring.          *)
LEMMA IsrReadStep ==
  ASSUME IInv, Isr_read
  PROVE  IInv'
<1>1. /\ UNCHANGED <<waits, activity, world, prog, rx_out, tx, irq_enable, control, hw_tx, isr, space, wi>>
      /\ isr = "read" /\ ~RxFull /\ hw_rx # <<>>
      /\ rx_buf' = [rx_buf EXCEPT ![rx_in] = Head(hw_rx)]
      /\ rx_in' = Mod(rx_in + 1)
      /\ hw_rx' = Tail(hw_rx)
      /\ ravail' \in BOOLEAN
  BY DEF Isr_read, Handler
<1>2. /\ taken \in Nat /\ rx_used \in Nat /\ rx_used < BufLen /\ BufLen \in Nat
      /\ hw_rx \in Seq(Nat) /\ Len(hw_rx) \in Nat
      /\ rx_in \in Slot /\ rx_out \in Slot /\ rx_buf \in [Slot -> 0 .. MaxRx]
      /\ typed \in 0 .. MaxRx /\ MaxRx \in Nat /\ rx_used = Used(rx_out, rx_in)
  BY Places DEF PlaceTypes, rx_used
<1>3. /\ typed = taken + rx_used + Len(hw_rx) /\ RunsOn(hw_rx, taken + rx_used)
      /\ Holds(rx_buf, rx_out, rx_used, taken)
  BY DEF IInv, RxPlace
<1>4. /\ hw_rx' \in Seq(Nat) /\ Len(hw_rx) > 0 /\ Len(hw_rx') = Len(hw_rx) - 1
      /\ Head(hw_rx) = taken + rx_used + 1
      /\ RunsOn(hw_rx', taken + rx_used + 1)
  <2>1. taken + rx_used \in Nat
    BY <1>2
  <2> QED BY <1>1, <1>2, <1>3, <2>1, RunsLess
<1>5. rx_used + 1 < BufLen
  <2>1. rx_used # BufLen - 1
    BY <1>1, <1>2, RxFullIs
  <2>2. rx_used \in Nat /\ BufLen \in Nat /\ rx_used < BufLen
    BY <1>2
  <2> QED BY <2>1, <2>2
<1>6. /\ rx_used' = rx_used + 1 /\ rx_in' \in Slot /\ taken' = taken /\ rx_out' = rx_out
      /\ Mod(rx_out + rx_used) = rx_in
  <2>1. Used(rx_out, Mod(rx_in + 1)) = Used(rx_out, rx_in) + 1
    <3>1. Used(rx_out, rx_in) + 1 < BufLen
      BY <1>2, <1>5
    <3> QED BY <3>1, <1>2, UsedAdd
  <2>2. Mod(rx_in + 1) \in Slot
    <3>1. 1 \in 0 .. BufLen
      BY <1>2, UartAssumption
    <3> QED BY <3>1, <1>2, ModInSlot
  <2>3. Mod(rx_out + rx_used) = rx_in
    BY <1>2, UsedIs
  <2> QED BY <1>1, <1>2, <2>1, <2>2, <2>3 DEF rx_used, taken, prog
<1>7. RxPlace'
  <2>1. Holds(rx_buf', rx_out, rx_used + 1, taken)
    <3>1. rx_buf' = [rx_buf EXCEPT ![Mod(rx_out + rx_used)] = taken + rx_used + 1]
      BY <1>1, <1>4, <1>6
    <3> QED BY <1>2, <1>3, <3>1, HoldsMore
  <2>2. RunsOn(hw_rx', taken + (rx_used + 1))
    <3>1. taken + (rx_used + 1) = taken + rx_used + 1
      BY <1>2
    <3> QED BY <3>1, <1>4
  <2>3. typed' = taken + (rx_used + 1) + Len(hw_rx')
    BY <1>1, <1>2, <1>3, <1>4 DEF world
  <2>4. rx_used' = rx_used + 1 /\ taken' = taken /\ rx_out' = rx_out
    BY <1>6
  <2> QED BY <1>2, <2>1, <2>2, <2>3, <2>4 DEF RxPlace, Holds, RunsOn
<1>8. TxPlace'
  BY <1>1, TxFrame DEF IInv, world, prog
<1>9. SafeUart'
  <2>1. rx_buf' \in [Slot -> 0 .. MaxRx]
    <3>1. Head(hw_rx) \in 0 .. MaxRx
      <4>1. /\ taken \in Nat /\ rx_used \in Nat /\ Len(hw_rx) \in Nat /\ Len(hw_rx) > 0
            /\ typed = taken + rx_used + Len(hw_rx) /\ typed \in 0 .. MaxRx /\ MaxRx \in Nat
        BY <1>2, <1>3, <1>4
      <4>2. taken + rx_used + 1 \in 0 .. MaxRx
        BY <4>1
      <4> QED BY <4>2, <1>4
    <3> QED BY <1>1, <1>2, <3>1
  <2>2. hw_rx' \in Seq(Nat) /\ Len(hw_rx') <= Depth
    <3>1. Len(hw_rx) <= Depth /\ Depth \in Nat
      BY UartAssumption DEF IInv, SafeUart, TypeOK
    <3> QED BY <1>2, <1>4, <3>1
  <2>3. {rx_in', rx_out', tx_in', tx_out'} \subseteq Slot
    BY <1>1, <1>6 DEF IInv, SafeUart, TypeOK, tx
  <2>4. wi' \in BOOLEAN /\ ravail' \in BOOLEAN /\ activity' \in BOOLEAN
    BY <1>1, Zenon DEF IInv, SafeUart, TypeOK
  <2>5. TypeOK'
    BY <1>1, <2>1, <2>2, <2>3, <2>4 DEF IInv, SafeUart, TypeOK, tx, waits, world, prog
  <2>6. ShadowAgrees' /\ NotMute'
    BY <1>1 DEF IInv, SafeUart, ShadowAgrees, NotMute, tx, prog
  <2>7. rx_in' # rx_out'
    <3>1. Used(rx_out', rx_in') # 0
      BY <1>2, <1>6 DEF rx_used
    <3> QED BY <3>1, <1>2, <1>6, UsedIs
  <2> QED BY <2>5, <2>6, <2>7 DEF SafeUart, NotDeaf
<1>10. ControlOK'
  BY <1>1 DEF IInv, ControlOK, Masked, prog
<1>11. ReadCall'
  <2>1. UNCHANGED <<pc, call>> /\ rx_out' = rx_out /\ rx_used' = rx_used + 1 /\ rx_used \in Nat
    BY <1>1, <1>2, <1>6 DEF prog
  <2>2. call.n \in 1 .. rx_used => call.n \in 1 .. rx_used + 1
    BY <2>1
  <2> QED BY <2>1, <2>2 DEF IInv, ReadCall
<1>12. WriteCall'
  BY <1>1 DEF IInv, WriteCall, tx, prog, tx_used
<1> QED BY <1>7, <1>8, <1>9, <1>10, <1>11, <1>12 DEF IInv

(* The program has copied n characters, and gives their slots back.        *)
LEMMA ReadCopyStep ==
  ASSUME IInv, Read_copy
  PROVE  IInv'
<1>1. /\ UNCHANGED <<fifos, world, irq, rings, irq_enable, waits, control, written>>
      /\ pc = "r_copy" /\ isr = "none" /\ pc' = "r_free"
      /\ got' = rx_buf[call.out + call.n - 1]
      /\ call' = [call EXCEPT !.left = @ - call.n, !.moved = TRUE]
  BY DEF Read_copy, Step, Goto
<1>2. /\ taken = got /\ got \in Nat /\ rx_used \in Nat /\ rx_used < BufLen /\ BufLen \in Nat
      /\ call \in CallType /\ call.n \in Nat /\ call.left \in Nat
      /\ rx_out \in Nat /\ rx_out < BufLen /\ MaxRx \in Nat
      /\ typed \in 0 .. MaxRx /\ Len(hw_rx) \in Nat
  BY <1>1, Places DEF PlaceTypes, taken
<1>3. /\ call.out = rx_out /\ call.n \in 1 .. rx_used /\ rx_out + call.n <= BufLen /\ call.n <= call.left
      /\ typed = got + rx_used + Len(hw_rx) /\ Holds(rx_buf, rx_out, rx_used, got)
  BY <1>1, <1>2 DEF IInv, ReadCall, RxPlace
<1>4. got' = got + call.n
  <2>1. call.n - 1 \in 0 .. rx_used - 1 /\ rx_out + (call.n - 1) \in 0 .. 2 * BufLen - 1
        /\ rx_out + (call.n - 1) < BufLen /\ rx_out + (call.n - 1) = call.out + call.n - 1
    <3>1. /\ rx_out \in Nat /\ call.n \in Nat /\ rx_used \in Nat /\ BufLen \in Nat
          /\ call.out = rx_out /\ call.n >= 1 /\ call.n <= rx_used /\ rx_out + call.n <= BufLen
      BY <1>2, <1>3
    <3> QED BY <3>1
  <2>2. Mod(rx_out + (call.n - 1)) = rx_out + (call.n - 1)
    BY <2>1, ModIs
  <2>3. rx_buf[Mod(rx_out + (call.n - 1))] = got + 1 + (call.n - 1)
    BY <1>3, <2>1 DEF Holds
  <2>4. got + 1 + (call.n - 1) = got + call.n
    BY <1>2
  <2> QED BY <1>1, <2>1, <2>2, <2>3, <2>4
<1>5. /\ call' \in CallType /\ call'.n = call.n /\ call'.out = call.out /\ call'.moved
  <2>1. call.left - call.n \in Nat
    BY <1>2, <1>3
  <2>2. call' \in CallType
    BY <1>1, <1>2, <2>1, CallEdits
  <2>3. call'.n = call.n /\ call'.out = call.out /\ call'.moved
    BY <1>1, <1>2 DEF CallType
  <2> QED BY <2>2, <2>3
<1>6. RxPlace'
  <2>1. taken' = got' - call'.n
    BY <1>1 DEF taken
  <2>2. taken' = taken
    BY <1>2, <1>4, <1>5, <2>1
  <2> QED BY <1>1, <2>2, RxFrame DEF IInv, rings, rx, fifos, world
<1>7. TxPlace'
  BY <1>1, TxFrame DEF IInv, rings, tx, fifos, world
<1>8. SafeUart'
  <2>1. got' \in 0 .. MaxRx
    <3>1. got + call.n <= typed /\ got + call.n \in Nat
      BY <1>2, <1>3
    <3> QED BY <1>2, <1>4, <3>1
  <2>2. TypeOK'
    BY <1>1, <2>1 DEF IInv, SafeUart, TypeOK, rings, waits, fifos, world, irq
  <2>3. ShadowAgrees' /\ NotDeaf' /\ NotMute'
    BY <1>1, <1>5 DEF IInv, SafeUart, ShadowAgrees, NotDeaf, NotMute, rings
  <2> QED BY <2>2, <2>3 DEF SafeUart
<1>9. ControlOK'
  BY <1>1, <1>5 DEF IInv, ControlOK, Masked, Reading, fifos, irq
<1>10. ReadCall'
  <2>1. rx_used' = rx_used /\ rx_out' = rx_out
    BY <1>1 DEF rx_used, rings
  <2> QED BY <1>1, <1>3, <1>5, <2>1 DEF ReadCall
<1>11. WriteCall'
  BY <1>1 DEF WriteCall, Writing
<1> QED BY <1>6, <1>7, <1>8, <1>9, <1>10, <1>11 DEF IInv

LEMMA ReadFreeStep ==
  ASSUME IInv, Read_free
  PROVE  IInv'
<1>1. /\ UNCHANGED <<fifos, world, irq, rx_in, rx_buf, tx, irq_enable, waits, control, got, written>>
      /\ pc = "r_free" /\ isr = "none" /\ pc' = "r_load"
      /\ rx_out' = Mod(call.out + call.n)
      /\ call' = [call EXCEPT !.in = 0, !.out = 0, !.n = 0]
  BY DEF Read_free, Step, Goto
<1>2. /\ taken = got - call.n /\ taken \in Nat /\ got \in Nat
      /\ rx_used \in Nat /\ rx_used < BufLen /\ BufLen \in Nat
      /\ call \in CallType /\ call.n \in Nat
      /\ rx_out \in Slot /\ rx_in \in Slot /\ rx_used = Used(rx_out, rx_in)
      /\ Len(hw_rx) \in Nat
  <2>1. taken = got - call.n
    BY <1>1 DEF taken
  <2>2. /\ taken \in Nat /\ got \in 0 .. MaxRx
        /\ rx_used \in Nat /\ rx_used < BufLen /\ BufLen \in Nat
        /\ call \in CallType /\ call.n \in Nat
        /\ rx_out \in Slot /\ rx_in \in Slot /\ Len(hw_rx) \in Nat
    BY Places DEF PlaceTypes
  <2> QED BY <2>1, <2>2 DEF rx_used
<1>3. /\ call.out = rx_out /\ call.n \in 1 .. rx_used /\ call.moved
      /\ typed = taken + rx_used + Len(hw_rx)
      /\ Holds(rx_buf, rx_out, rx_used, taken) /\ RunsOn(hw_rx, taken + rx_used)
  BY <1>1 DEF IInv, ReadCall, RxPlace
<1>4. /\ call' \in CallType /\ call'.moved
  <2>1. call' \in CallType
    BY <1>1, <1>2, CallEdits
  <2>2. call'.moved
    BY <1>1, <1>2, <1>3 DEF CallType
  <2> QED BY <2>1, <2>2
<1>5. /\ rx_out' \in Slot /\ rx_used' = rx_used - call.n
      /\ taken' = got
  <2>1. Mod(rx_out + call.n) \in Slot
    <3>1. call.n \in 0 .. BufLen
      BY <1>2, <1>3
    <3> QED BY <3>1, <1>2, ModInSlot
  <2>2. Used(Mod(rx_out + call.n), rx_in) = Used(rx_out, rx_in) - call.n
    <3>1. call.n <= Used(rx_out, rx_in)
      BY <1>2, <1>3
    <3> QED BY <3>1, <1>2, UsedTake
  <2> QED BY <1>1, <1>2, <1>3, <2>1, <2>2 DEF rx_used, taken
<1>6. RxPlace'
  <2>1. Holds(rx_buf, Mod(rx_out + call.n), rx_used - call.n, taken + call.n)
    <3>1. call.n <= rx_used
      BY <1>2, <1>3
    <3> QED BY <3>1, <1>2, <1>3, HoldsLess
  <2>2. taken + call.n = got /\ got + (rx_used - call.n) = taken + rx_used
    BY <1>2
  <2>3. Holds(rx_buf, rx_out', rx_used - call.n, got) /\ RunsOn(hw_rx, got + (rx_used - call.n))
    BY <1>1, <1>3, <2>1, <2>2
  <2>4. typed = got + (rx_used - call.n) + Len(hw_rx)
    BY <1>2, <1>3, <2>2
  <2> QED BY <1>1, <1>2, <1>5, <2>3, <2>4 DEF RxPlace, Holds, RunsOn, fifos, world
<1>7. TxPlace'
  BY <1>1, TxFrame DEF IInv, fifos, world
<1>8. SafeUart'
  <2>1. {rx_in', rx_out', tx_in', tx_out'} \subseteq Slot
    BY <1>1, <1>5 DEF IInv, SafeUart, TypeOK, tx
  <2>2. TypeOK'
    BY <1>1, <2>1 DEF IInv, SafeUart, TypeOK, tx, waits, fifos, world, irq
  <2>3. ShadowAgrees' /\ NotDeaf' /\ NotMute'
    BY <1>1, <1>4 DEF IInv, SafeUart, ShadowAgrees, NotDeaf, NotMute, tx
  <2> QED BY <2>2, <2>3 DEF SafeUart
<1>9. ControlOK'
  BY <1>1, <1>4 DEF IInv, ControlOK, Masked, Reading, fifos, irq
<1>10. ReadCall' /\ WriteCall'
  BY <1>1 DEF ReadCall, WriteCall, Writing
<1> QED BY <1>6, <1>7, <1>8, <1>9, <1>10 DEF IInv

-----------------------------------------------------------------------------
(* Steps that move characters towards the host.                            *)

(* The program fills the slots it found free; none of them holds a         *)
(* character that is still to be sent.                                     *)
LEMMA WriteCopyStep ==
  ASSUME IInv, Write_copy
  PROVE  IInv'
<1>1. /\ UNCHANGED <<fifos, world, irq, rx, tx_in, tx_out, irq_enable, waits, control, call, got, written>>
      /\ pc = "w_copy" /\ isr = "none" /\ pc' = "w_publish"
      /\ tx_buf' = [i \in Slot |-> IF i \in call.in .. call.in + call.n - 1
                                   THEN written + 1 + i - call.in ELSE tx_buf[i]]
  BY DEF Write_copy, Step, Goto
<1>2. /\ written \in Nat /\ tx_used \in Nat /\ tx_used < BufLen /\ BufLen \in Nat
      /\ call.n \in Nat /\ call.left \in Nat /\ call.in \in Nat
      /\ tx_out \in Nat /\ tx_out < BufLen /\ tx_in \in Nat /\ tx_in < BufLen
      /\ MaxTx \in Nat
  BY Places DEF PlaceTypes
<1>12. tx_buf \in [Slot -> 0 .. MaxTx]
  BY Places DEF PlaceTypes
<1>3. /\ call.in = tx_in /\ call.n >= 1 /\ call.n <= call.left
      /\ tx_used + call.n < BufLen /\ tx_in + call.n <= BufLen
      /\ written + call.left <= MaxTx
  BY <1>1 DEF IInv, WriteCall, Writing
<1>4. ASSUME NEW k \in 0 .. tx_used - 1
      PROVE  tx_buf'[Mod(tx_out + k)] = tx_buf[Mod(tx_out + k)]
  <2>0. k \in Nat /\ k < tx_used
    BY <1>2
  <2>1. Mod(tx_out + k) = IF tx_out + k < BufLen THEN tx_out + k ELSE tx_out + k - BufLen
    <3>1. tx_out \in Slot /\ k \in Nat /\ k < BufLen
      BY <1>2, <2>0
    <3> QED BY <3>1, ModAt
  <2>2. tx_used = IF tx_in >= tx_out THEN tx_in - tx_out ELSE BufLen + tx_in - tx_out
    BY DEF tx_used, Used
  <2>3. Mod(tx_out + k) \in Slot
    BY <1>2, <2>0, <2>1
  <2>4. Mod(tx_out + k) \notin tx_in .. tx_in + call.n - 1
    <3>1. /\ k \in Nat /\ k < tx_used /\ tx_out \in Nat /\ tx_in \in Nat /\ BufLen \in Nat
          /\ call.n \in Nat /\ tx_out < BufLen /\ tx_in < BufLen
          /\ tx_used + call.n < BufLen /\ tx_in + call.n <= BufLen
      BY <1>2, <1>3, <2>0
    <3> QED BY <2>1, <2>2, <3>1
  <2> QED BY <1>1, <1>3, <2>3, <2>4
<1>5. ASSUME NEW k \in 0 .. call.n - 1
      PROVE  tx_buf'[tx_in + k] = written + 1 + k
  <2>1. /\ tx_in + k \in Slot /\ tx_in + k \in call.in .. call.in + call.n - 1
        /\ written + 1 + (tx_in + k) - call.in = written + 1 + k
    <3>1. /\ k \in Nat /\ k <= call.n - 1 /\ tx_in \in Nat /\ BufLen \in Nat /\ written \in Nat
          /\ call.n \in Nat /\ call.in = tx_in /\ tx_in + call.n <= BufLen
      BY <1>2, <1>3
    <3> QED BY <3>1
  <2> QED BY <1>1, <2>1
<1>6. TxPlace'
  <2>1. UNCHANGED <<tx_in, tx_out, hw_tx, shown, written, tx_used>>
    BY <1>1 DEF fifos, world, tx_used
  <2>2. Holds(tx_buf', tx_out, tx_used, shown + Len(hw_tx))
    BY <1>4 DEF IInv, TxPlace, Holds
  <2>3. written = shown + Len(hw_tx) + tx_used /\ RunsOn(hw_tx, shown)
    BY DEF IInv, TxPlace
  <2> QED BY <2>1, <2>2, <2>3 DEF TxPlace, Holds, RunsOn
<1>7. RxPlace'
  BY <1>1, RxFrame DEF IInv, taken, fifos, world
<1>8. SafeUart'
  <2>1. tx_buf' \in [Slot -> 0 .. MaxTx]
    <3>1. ASSUME NEW i \in Slot, i \in call.in .. call.in + call.n - 1
          PROVE  written + 1 + i - call.in \in 0 .. MaxTx
      <4>1. i \in Int /\ i >= call.in /\ i <= call.in + call.n - 1
        BY <1>2, <3>1
      <4> QED BY <1>2, <1>3, <4>1
    <3>2. ASSUME NEW i \in Slot
          PROVE  tx_buf[i] \in 0 .. MaxTx
      BY <1>12
    <3> QED BY <1>1, <3>1, <3>2
  <2>2. {rx_in', rx_out', tx_in', tx_out'} \subseteq Slot
    BY <1>1 DEF IInv, SafeUart, TypeOK, rx
  <2>3. TypeOK'
    BY <1>1, <2>1, <2>2 DEF IInv, SafeUart, TypeOK, rx, waits, fifos, world, irq
  <2>4. ShadowAgrees' /\ NotDeaf' /\ NotMute'
    BY <1>1 DEF IInv, SafeUart, ShadowAgrees, NotDeaf, NotMute, rx
  <2> QED BY <2>3, <2>4 DEF SafeUart
<1>9. ControlOK' /\ ReadCall'
  BY <1>1 DEF IInv, ControlOK, ReadCall, Masked, Writing, fifos, irq
<1>10. WriteCall'
  <2>1. UNCHANGED <<tx_in, tx_out, written, call, tx_used>>
    BY <1>1 DEF tx_used
  <2> QED BY <1>1, <1>5, <2>1 DEF IInv, WriteCall, Writing
<1> QED BY <1>6, <1>7, <1>8, <1>9, <1>10 DEF IInv

(* Publishing them puts them behind what the ring holds.                   *)
LEMMA WritePublishStep ==
  ASSUME IInv, Write_publish
  PROVE  IInv'
<1>1. /\ UNCHANGED <<fifos, world, irq, rx, tx_out, tx_buf, irq_enable, waits, control, got>>
      /\ pc = "w_publish" /\ isr = "none" /\ pc' = "w_load"
      /\ tx_in' = Mod(call.in + call.n)
      /\ written' = written + call.n
      /\ call' = [call EXCEPT !.left = @ - call.n, !.in = 0, !.n = 0]
  BY DEF Write_publish, Step, Goto
<1>2. /\ written \in Nat /\ tx_used \in Nat /\ tx_used < BufLen /\ BufLen \in Nat
      /\ call.n \in Nat /\ call.left \in Nat
      /\ tx_out \in Nat /\ tx_out < BufLen /\ tx_in \in Nat /\ tx_in < BufLen
      /\ MaxTx \in Nat /\ shown \in Nat /\ Len(hw_tx) \in Nat
  BY Places DEF PlaceTypes
<1>13. call \in CallType /\ tx_out \in Slot /\ tx_in \in Slot /\ tx_used = Used(tx_out, tx_in)
  BY Places DEF PlaceTypes, tx_used
<1>3. /\ call.in = tx_in /\ call.n >= 1 /\ call.n <= call.left
      /\ tx_used + call.n < BufLen /\ tx_in + call.n <= BufLen
      /\ written + call.left <= MaxTx
  BY <1>1 DEF IInv, WriteCall, Writing
<1>14. \A k \in 0 .. call.n - 1 : tx_buf[tx_in + k] = written + 1 + k
  BY <1>1 DEF IInv, WriteCall, Writing
<1>4. /\ written = shown + Len(hw_tx) + tx_used /\ RunsOn(hw_tx, shown)
      /\ Holds(tx_buf, tx_out, tx_used, shown + Len(hw_tx))
  BY DEF IInv, TxPlace
<1>5. /\ tx_in' \in Slot /\ tx_used' = tx_used + call.n /\ Mod(tx_out + tx_used) = tx_in
  <2>1. Mod(tx_in + call.n) \in Slot
    <3>1. call.n \in 0 .. BufLen
      BY <1>2, <1>3
    <3> QED BY <3>1, <1>13, ModInSlot
  <2>2. Used(tx_out, Mod(tx_in + call.n)) = Used(tx_out, tx_in) + call.n
    <3>1. Used(tx_out, tx_in) + call.n < BufLen
      BY <1>3, <1>13
    <3> QED BY <3>1, <1>2, <1>13, UsedAdd
  <2>3. Mod(tx_out + tx_used) = tx_in
    BY <1>13, UsedIs
  <2> QED BY <1>1, <1>13, <1>3, <2>1, <2>2, <2>3 DEF tx_used
<1>6. Holds(tx_buf, tx_out, tx_used + call.n, shown + Len(hw_tx))
  <2>1. ASSUME NEW k \in 0 .. (tx_used + call.n) - 1
        PROVE  tx_buf[Mod(tx_out + k)] = shown + Len(hw_tx) + 1 + k
    <3>1. CASE k \in 0 .. tx_used - 1
      BY <1>4, <3>1 DEF Holds
    <3>2. CASE k \notin 0 .. tx_used - 1
      <4> DEFINE j == k - tx_used
      <4>1. j \in 0 .. call.n - 1 /\ j \in Nat /\ tx_used + j = k /\ tx_out + tx_used + j = tx_out + k
            /\ tx_used + j <= BufLen
        <5>1. k \in Nat /\ k >= tx_used /\ k < tx_used + call.n
          BY <1>2, <3>2
        <5> QED BY <1>2, <1>3, <5>1
      <4>2. tx_in + j < BufLen /\ tx_in + j \in 0 .. 2 * BufLen - 1
        <5>1. j \in Nat /\ j < call.n
          BY <1>2, <4>1
        <5> QED BY <1>2, <1>3, <5>1
      <4> HIDE DEF j
      <4>3. Mod(Mod(tx_out + tx_used) + j) = Mod(tx_out + tx_used + j)
        BY <1>2, <1>13, <4>1, ModStep
      <4>4. Mod(tx_in + j) = tx_in + j
        BY <4>2, ModIs
      <4>5. tx_buf[tx_in + j] = written + 1 + j
        BY <1>14, <4>1
      <4>6. written + 1 + j = shown + Len(hw_tx) + 1 + k
        <5>1. written = shown + Len(hw_tx) + tx_used /\ j \in Nat /\ tx_used + j = k
          BY <1>4, <4>1
        <5> QED BY <1>2, <5>1
      <4> QED BY <1>5, <4>1, <4>3, <4>4, <4>5, <4>6
    <3> QED BY <3>1, <3>2
  <2> QED BY <2>1 DEF Holds
<1>7. TxPlace'
  <2>1. written' = shown + Len(hw_tx) + (tx_used + call.n)
    BY <1>1, <1>2, <1>4
  <2>2. UNCHANGED <<tx_out, tx_buf, hw_tx, shown>> /\ tx_used' = tx_used + call.n
    BY <1>1, <1>5 DEF fifos, world
  <2> QED BY <1>4, <1>6, <2>1, <2>2 DEF TxPlace, Holds, RunsOn
<1>8. RxPlace'
  BY <1>1, RxFrame DEF IInv, taken, fifos, world
<1>9. /\ call' \in CallType /\ call'.left = call.left - call.n
  <2>1. call.left - call.n \in Nat
    BY <1>2, <1>3
  <2>2. call' \in CallType
    BY <1>1, <1>13, <2>1, CallEdits
  <2>3. call'.left = call.left - call.n
    BY <1>1, <1>13 DEF CallType
  <2> QED BY <2>2, <2>3
<1>10. SafeUart'
  <2>1. written' \in 0 .. MaxTx
    <3>1. written + call.n \in 0 .. MaxTx
      BY <1>2, <1>3
    <3> QED BY <1>1, <3>1
  <2>2. {rx_in', rx_out', tx_in', tx_out'} \subseteq Slot
    BY <1>1, <1>5 DEF IInv, SafeUart, TypeOK, rx
  <2>3. TypeOK'
    BY <1>1, <2>1, <2>2 DEF IInv, SafeUart, TypeOK, rx, waits, fifos, world, irq
  <2>4. ShadowAgrees' /\ NotDeaf' /\ NotMute'
    BY <1>1 DEF IInv, SafeUart, ShadowAgrees, NotDeaf, NotMute, rx
  <2> QED BY <2>3, <2>4 DEF SafeUart
<1>11. ControlOK' /\ ReadCall'
  BY <1>1, <1>9 DEF IInv, ControlOK, ReadCall, Masked, Writing, fifos, irq
<1>12. WriteCall'
  <2>1. written' + call'.left <= MaxTx
    BY <1>1, <1>2, <1>3, <1>9
  <2> QED BY <1>1, <2>1 DEF WriteCall
<1> QED BY <1>7, <1>8, <1>10, <1>11, <1>12 DEF IInv

(* The handler moves the first character of the ring to the FIFO.          *)
LEMMA IsrWriteStep ==
  ASSUME IInv, Isr_write
  PROVE  IInv'
<1>1. /\ UNCHANGED <<waits, activity, world, prog, rx, tx_in, tx_buf, irq_enable, control, hw_rx, isr, wi, ravail>>
      /\ isr = "write" /\ space > 0 /\ tx_out # tx_in
      /\ hw_tx' = Append(hw_tx, tx_buf[tx_out])
      /\ tx_out' = Mod(tx_out + 1)
      /\ space' = space - 1
  BY DEF Isr_write, Handler
<1>2. /\ shown \in Nat /\ tx_used \in Nat /\ tx_used < BufLen /\ BufLen \in Nat /\ BufLen > 1
      /\ hw_tx \in Seq(Nat) /\ Len(hw_tx) \in Nat
      /\ tx_out \in Slot /\ tx_in \in Slot /\ tx_used = Used(tx_out, tx_in)
      /\ Depth \in Nat
  BY Places DEF PlaceTypes, tx_used
<1>3. /\ written = shown + Len(hw_tx) + tx_used /\ RunsOn(hw_tx, shown)
      /\ Holds(tx_buf, tx_out, tx_used, shown + Len(hw_tx))
  BY DEF IInv, TxPlace
<1>4. tx_used > 0
  <2>1. tx_used # 0
    BY <1>1, <1>2, UsedIs
  <2> QED BY <1>2, <2>1
<1>5. /\ tx_out' \in Slot /\ tx_used' = tx_used - 1 /\ tx_buf[tx_out] = shown + Len(hw_tx) + 1
  <2>1. Mod(tx_out + 1) \in Slot
    <3>1. 1 \in 0 .. BufLen
      BY <1>2
    <3> QED BY <3>1, <1>2, ModInSlot
  <2>2. Used(Mod(tx_out + 1), tx_in) = Used(tx_out, tx_in) - 1
    <3>1. 1 <= Used(tx_out, tx_in)
      BY <1>2, <1>4
    <3> QED BY <3>1, <1>2, UsedTake
  <2>3. Mod(tx_out + 0) = tx_out
    <3>1. tx_out + 0 \in 0 .. 2 * BufLen - 1 /\ tx_out + 0 < BufLen /\ tx_out + 0 = tx_out
      BY <1>2
    <3> QED BY <3>1, ModIs
  <2>4. tx_buf[Mod(tx_out + 0)] = shown + Len(hw_tx) + 1 + 0
    <3>1. 0 \in 0 .. tx_used - 1
      BY <1>2, <1>4
    <3> QED BY <3>1, <1>3 DEF Holds
  <2>5. shown + Len(hw_tx) + 1 + 0 = shown + Len(hw_tx) + 1
    BY <1>2
  <2>6. tx_buf[tx_out] = shown + Len(hw_tx) + 1
    BY <2>3, <2>4, <2>5
  <2> QED BY <1>1, <1>2, <2>1, <2>2, <2>6 DEF tx_used
<1>6. /\ hw_tx' \in Seq(Nat) /\ Len(hw_tx') = Len(hw_tx) + 1 /\ RunsOn(hw_tx', shown)
  <2>1. shown + Len(hw_tx) + 1 \in Nat
    BY <1>2
  <2> QED BY <1>1, <1>2, <1>3, <1>5, <2>1, RunsMore
<1>7. TxPlace'
  <2>1. Holds(tx_buf, tx_out', tx_used - 1, shown + Len(hw_tx) + 1)
    <3>1. 1 <= tx_used /\ shown + Len(hw_tx) \in Nat
      BY <1>2, <1>4
    <3> QED BY <3>1, <1>1, <1>2, <1>3, HoldsLess
  <2>2. shown + Len(hw_tx) + 1 = shown + (Len(hw_tx) + 1)
    BY <1>2
  <2>3. Holds(tx_buf, tx_out', tx_used', shown + Len(hw_tx'))
    BY <1>5, <1>6, <2>1, <2>2
  <2>4. written = shown + Len(hw_tx') + tx_used'
    BY <1>2, <1>3, <1>5, <1>6
  <2> QED BY <1>1, <1>6, <2>3, <2>4 DEF TxPlace, Holds, RunsOn, world, prog
<1>8. RxPlace'
  BY <1>1, RxFrame DEF IInv, taken, world, prog
<1>9. space \in 0 .. Depth /\ Len(hw_tx) + space <= Depth
  BY <1>1 DEF IInv, SafeUart, TypeOK, ControlOK
<1>10. SafeUart'
  <2>1. hw_tx' \in Seq(Nat) /\ Len(hw_tx') <= Depth /\ space' \in 0 .. Depth
    BY <1>1, <1>2, <1>6, <1>9
  <2>2. {rx_in', rx_out', tx_in', tx_out'} \subseteq Slot
    BY <1>1, <1>5 DEF IInv, SafeUart, TypeOK, rx
  <2>3. wi' \in BOOLEAN /\ ravail' \in BOOLEAN /\ activity' \in BOOLEAN
    BY <1>1, Zenon DEF IInv, SafeUart, TypeOK
  <2>4. TypeOK'
    BY <1>1, <2>1, <2>2, <2>3 DEF IInv, SafeUart, TypeOK, rx, waits, world, prog
  <2>5. ShadowAgrees' /\ NotDeaf'
    BY <1>1 DEF IInv, SafeUart, ShadowAgrees, NotDeaf, rx, prog
  <2>6. NotMute'
    BY <1>1 DEF IInv, SafeUart, NotMute, prog
  <2> QED BY <2>4, <2>5, <2>6 DEF SafeUart
<1>11. ControlOK'
  <2>1. Len(hw_tx') + space' <= Depth
    BY <1>1, <1>2, <1>6, <1>9
  <2> QED BY <1>1, <2>1 DEF IInv, ControlOK, Masked, prog
<1>12. ReadCall'
  BY <1>1 DEF IInv, ReadCall, rx, prog, rx_used
<1>13. WriteCall'
  <2>1. UNCHANGED <<pc, call, tx_in, tx_buf, written>> /\ tx_used' = tx_used - 1
    BY <1>1, <1>5 DEF prog
  <2>2. call.n \in Nat
    BY Places DEF PlaceTypes
  <2>3. tx_used + call.n < BufLen => tx_used - 1 + call.n < BufLen
    BY <1>2, <2>2
  <2> QED BY <2>1, <2>3 DEF IInv, WriteCall
<1> QED BY <1>7, <1>8, <1>10, <1>11, <1>12, <1>13 DEF IInv

(* The terminal shows the first character of the FIFO.                     *)
LEMMA HostTakesStep ==
  ASSUME IInv, Host_takes
  PROVE  IInv'
<1>1. /\ UNCHANGED <<rings, irq_enable, waits, control, irq, prog, hw_rx, activity, host, typed>>
      /\ hw_tx # <<>> /\ shown' = Head(hw_tx) /\ hw_tx' = Tail(hw_tx)
  BY DEF Host_takes, Host
<1>2. /\ shown \in Nat /\ tx_used \in Nat /\ hw_tx \in Seq(Nat) /\ Len(hw_tx) \in Nat
      /\ written \in 0 .. MaxTx /\ MaxTx \in Nat /\ Depth \in Nat
  BY Places DEF PlaceTypes
<1>3. /\ written = shown + Len(hw_tx) + tx_used /\ RunsOn(hw_tx, shown)
      /\ Holds(tx_buf, tx_out, tx_used, shown + Len(hw_tx))
  BY DEF IInv, TxPlace
<1>4. /\ hw_tx' \in Seq(Nat) /\ Len(hw_tx) > 0 /\ Len(hw_tx') = Len(hw_tx) - 1
      /\ shown' = shown + 1 /\ RunsOn(hw_tx', shown + 1)
  BY <1>1, <1>2, <1>3, RunsLess
<1>5. UNCHANGED <<tx_in, tx_out, tx_buf, tx_used, written>>
  BY <1>1 DEF rings, prog, tx_used
<1>6. TxPlace'
  <2>1. shown' + Len(hw_tx') = shown + Len(hw_tx)
    BY <1>2, <1>4
  <2>2. written = shown' + Len(hw_tx') + tx_used
    BY <1>3, <2>1
  <2>3. Holds(tx_buf, tx_out, tx_used, shown' + Len(hw_tx')) /\ RunsOn(hw_tx', shown')
    BY <1>3, <1>4, <2>1
  <2> QED BY <1>5, <2>2, <2>3 DEF TxPlace, Holds, RunsOn
<1>7. RxPlace'
  BY <1>1, RxFrame DEF IInv, taken, rings, rx, prog
<1>8. SafeUart'
  <2>1. Len(hw_tx) <= Depth
    BY DEF IInv, SafeUart, TypeOK
  <2>2. hw_tx' \in Seq(Nat) /\ Len(hw_tx') <= Depth /\ shown' \in 0 .. MaxTx
    BY <1>2, <1>3, <1>4, <2>1
  <2>3. TypeOK'
    BY <1>1, <2>2 DEF IInv, SafeUart, TypeOK, rings, waits, irq, prog
  <2>4. ShadowAgrees' /\ NotDeaf' /\ NotMute'
    BY <1>1 DEF IInv, SafeUart, ShadowAgrees, NotDeaf, NotMute, rings, prog
  <2> QED BY <2>3, <2>4 DEF SafeUart
<1>9. ControlOK'
  <2>1. UNCHANGED <<pc, isr, call, space, irq_enable>>
    BY <1>1 DEF irq, prog
  <2>2. Len(hw_tx) + space <= Depth => Len(hw_tx') + space' <= Depth
    <3>1. space \in 0 .. Depth
      BY DEF IInv, SafeUart, TypeOK
    <3> QED BY <1>2, <1>4, <2>1, <3>1
  <2> QED BY <2>1, <2>2 DEF IInv, ControlOK, Masked
<1>10. ReadCall' /\ WriteCall'
  BY <1>1, <1>5 DEF IInv, ReadCall, WriteCall, rings, prog, rx_used
<1> QED BY <1>6, <1>7, <1>8, <1>9, <1>10 DEF IInv

-----------------------------------------------------------------------------
LEMMA InitIInv == Init => IInv
<1> SUFFICES ASSUME Init PROVE IInv
  OBVIOUS
<1> USE DEF Init
<1>1. BufLen \in Nat /\ BufLen > 1 /\ rx_used = 0 /\ tx_used = 0 /\ taken = 0
  BY UartAssumption DEF rx_used, tx_used, Used, taken
<1>2. RxPlace /\ TxPlace
  BY <1>1 DEF RxPlace, TxPlace, Holds, RunsOn
<1>3. SafeUart
  <2>1. {rx_in, rx_out, tx_in, tx_out} \subseteq Slot
    BY <1>1
  <2>2. rx_buf \in [Slot -> 0 .. MaxRx] /\ tx_buf \in [Slot -> 0 .. MaxTx]
    BY UartAssumption
  <2>3. /\ timeout \in Int /\ host_inactive \in 0 .. INT_MAX - 2 /\ space \in 0 .. Depth
        /\ typed \in 0 .. MaxRx /\ shown \in 0 .. MaxTx /\ got \in 0 .. MaxRx /\ written \in 0 .. MaxTx
    BY UartAssumption
  <2>4. hw_rx \in Seq(Nat) /\ Len(hw_rx) <= Depth /\ hw_tx \in Seq(Nat) /\ Len(hw_tx) <= Depth
    BY UartAssumption
  <2>5. TypeOK
    BY <2>1, <2>2, <2>3, <2>4 DEF TypeOK
  <2> QED BY <2>5 DEF SafeUart, ShadowAgrees, NotDeaf, NotMute
<1>4. ControlOK /\ ReadCall /\ WriteCall
  BY NoCallType DEF ControlOK, ReadCall, WriteCall, Masked, Reading, Writing
<1> QED BY <1>2, <1>3, <1>4 DEF IInv

LEMMA NextIInv == IInv /\ [Next]_vars => IInv'
<1> SUFFICES ASSUME IInv, [Next]_vars PROVE IInv'
  OBVIOUS
<1>1. CASE altera_avalon_jtag_uart_init
  BY <1>1, InitStep
<1>2. CASE Call
  <2>1. PICK nonblock \in BOOLEAN :
          \/ \E count \in 1 .. MaxCall : Begin("r_load", count, nonblock)
          \/ \E count \in 1 .. MaxCall : written + count <= MaxTx /\ Begin("w_load", count, nonblock)
          \/ Begin("close", 0, nonblock)
    BY <1>2 DEF Call
  <2>2. 1 .. MaxCall \subseteq Nat /\ 0 \in Nat
    BY UartAssumption
  <2>3. CASE \E count \in 1 .. MaxCall : Begin("r_load", count, nonblock)
    BY <2>2, <2>3, BeginStep
  <2>4. CASE \E count \in 1 .. MaxCall : written + count <= MaxTx /\ Begin("w_load", count, nonblock)
    BY <2>2, <2>4, BeginStep
  <2>5. CASE Begin("close", 0, nonblock)
    BY <2>2, <2>5, BeginStep
  <2> QED BY <2>1, <2>3, <2>4, <2>5
<1>3. CASE Program
  BY <1>3, ReadLoadStep, ReadCopyStep, ReadFreeStep, SpinStep, MaskStep, PostStep,
     WriteLoadStep, WriteCopyStep, WritePublishStep, CloseStep DEF Program
<1>4. CASE \E arg \in Timeouts : altera_avalon_jtag_uart_ioctl(arg)
  BY <1>4, IoctlStep, UartAssumption
<1>5. CASE Isr
  BY <1>5, InterruptStep, IsrReadStep, IsrWriteStep, DisableStep DEF Isr
<1>6. CASE altera_avalon_jtag_uart_timeout
  BY <1>6, TimeoutStep
<1>7. CASE Host_takes \/ Host_types \/ Host_comes \/ Host_goes
  BY <1>7, HostTakesStep, HostTypesStep, HostStep
<1>8. CASE UNCHANGED vars
  <2>1. UNCHANGED <<rings, irq_enable, waits, uart, world, irq, prog>>
    BY <1>8 DEF vars
  <2>2. RxPlace' /\ TxPlace'
    BY <2>1, RxFrame, TxFrame DEF IInv, taken, rings, rx, tx, uart, world, prog
  <2>3. SafeUart'
    BY <2>1 DEF IInv, SafeUart, TypeOK, ShadowAgrees, NotDeaf, NotMute, rings, waits, uart, world, irq, prog
  <2>4. ControlOK' /\ ReadCall' /\ WriteCall'
    BY <2>1 DEF IInv, ControlOK, ReadCall, WriteCall, Masked, rings, uart, irq, prog, rx_used, tx_used
  <2> QED BY <2>2, <2>3, <2>4 DEF IInv
<1> QED BY <1>1, <1>2, <1>3, <1>4, <1>5, <1>6, <1>7, <1>8 DEF Next

(* In every reachable state the two streams lie where the invariant says,  *)
(* whatever call of the program the handler and the host interrupt.        *)
THEOREM Invariance == Spec => []IInv
BY InitIInv, NextIInv, PTL DEF Spec

(* The driver's copy of the control register and the UART agree whenever   *)
(* interrupts are on; reception is never off with an empty ring and a call *)
(* waiting, nor transmission with characters left in the ring.             *)
THEOREM UartSound == Spec => []SafeUart
<1>1. IInv => SafeUart
  BY DEF IInv
<1> QED BY Invariance, <1>1, PTL

-----------------------------------------------------------------------------
(* A FIFO followed by a ring that runs on from it is one run of numbers,   *)
(* and so is a ring followed by its FIFO.                                  *)
LEMMA RingIs ==
  ASSUME NEW buf, NEW first \in Slot, NEW last \in Slot, NEW u \in Nat, u = Used(first, last),
         NEW low \in Nat, Holds(buf, first, u, low)
  PROVE  /\ Ring(buf, first, last) \in Seq(Nat) /\ Len(Ring(buf, first, last)) = u
         /\ RunsOn(Ring(buf, first, last), low)
<1> DEFINE r == Ring(buf, first, last)
<1>1. r = [i \in 1 .. u |-> buf[Mod(first + i - 1)]]
  BY DEF Ring
<1>2. ASSUME NEW i \in 1 .. u
      PROVE  buf[Mod(first + i - 1)] = low + i
  <2>1. i - 1 \in 0 .. u - 1 /\ first + (i - 1) = first + i - 1 /\ low + 1 + (i - 1) = low + i
    <3>1. first \in Int
      BY UartAssumption
    <3> QED BY <3>1
  <2>2. buf[Mod(first + (i - 1))] = low + 1 + (i - 1)
    BY <2>1 DEF Holds
  <2> QED BY <2>1, <2>2
<1>3. r = [i \in 1 .. u |-> low + i]
  BY <1>1, <1>2
<1> HIDE DEF r
<1>4. r \in Seq(Nat) /\ Len(r) = u
  BY <1>3
<1>5. RunsOn(r, low)
  BY <1>3, <1>4 DEF RunsOn
<1> QED BY <1>4, <1>5 DEF r

LEMMA RunsJoin ==
  ASSUME NEW a \in Seq(Nat), NEW b \in Seq(Nat), NEW low \in Nat, NEW high \in Nat,
         RunsOn(a, low), RunsOn(b, low + Len(a)), high = low + Len(a) + Len(b)
  PROVE  a \o b = Numbers(low, high)
<1> DEFINE c == a \o b
           m == Numbers(low, high)
<1>1. Len(a) \in Nat /\ Len(b) \in Nat
  OBVIOUS
<1>2. c \in Seq(Nat) /\ Len(c) = Len(a) + Len(b)
  OBVIOUS
<1>3. m = [i \in 1 .. Len(a) + Len(b) |-> low + i]
  BY <1>1 DEF Numbers
<1>4. ASSUME NEW i \in 1 .. Len(a) + Len(b)
      PROVE  c[i] = low + i
  <2>1. CASE i <= Len(a)
    <3>1. c[i] = a[i] /\ i \in 1 .. Len(a)
      BY <1>1, <2>1
    <3> QED BY <3>1 DEF RunsOn
  <2>2. CASE i > Len(a)
    <3>1. c[i] = b[i - Len(a)] /\ i - Len(a) \in 1 .. Len(b)
      BY <1>1, <2>2
    <3>2. b[i - Len(a)] = low + Len(a) + (i - Len(a))
      BY <3>1 DEF RunsOn
    <3> QED BY <1>1, <3>1, <3>2
  <2> QED BY <1>1, <2>1, <2>2
<1> HIDE DEF c, m
<1>5. c = [i \in 1 .. Len(a) + Len(b) |-> c[i]]
  BY <1>1, <1>2
<1>6. c = m
  BY <1>3, <1>4, <1>5
<1> QED BY <1>6 DEF c, m

LEMMA PlaceIsOrder == IInv => InOrder
<1> SUFFICES ASSUME IInv PROVE InOrder
  OBVIOUS
<1>1. PlaceTypes
  BY Places
<1>2. hw_tx \o Ring(tx_buf, tx_out, tx_in) = Numbers(shown, written)
  <2>1. /\ hw_tx \in Seq(Nat) /\ Len(hw_tx) \in Nat /\ shown \in Nat /\ written \in Nat
        /\ tx_in \in Slot /\ tx_out \in Slot /\ tx_used \in Nat /\ tx_used = Used(tx_out, tx_in)
    BY <1>1 DEF PlaceTypes, tx_used
  <2>2. /\ RunsOn(hw_tx, shown) /\ Holds(tx_buf, tx_out, tx_used, shown + Len(hw_tx))
        /\ written = shown + Len(hw_tx) + tx_used
    BY DEF IInv, TxPlace
  <2>3. /\ Ring(tx_buf, tx_out, tx_in) \in Seq(Nat) /\ Len(Ring(tx_buf, tx_out, tx_in)) = tx_used
        /\ RunsOn(Ring(tx_buf, tx_out, tx_in), shown + Len(hw_tx))
    <3>1. shown + Len(hw_tx) \in Nat
      BY <2>1
    <3> QED BY <2>1, <2>2, <3>1, RingIs
  <2> QED BY <2>1, <2>2, <2>3, RunsJoin
<1>3. Ring(rx_buf, IF pc = "r_free" THEN Mod(call.out + call.n) ELSE rx_out, rx_in) \o hw_rx
        = Numbers(got, typed)
  <2> DEFINE first == IF pc = "r_free" THEN Mod(call.out + call.n) ELSE rx_out
             u == IF pc = "r_free" THEN rx_used - call.n ELSE rx_used
  <2>1. /\ hw_rx \in Seq(Nat) /\ Len(hw_rx) \in Nat /\ got \in Nat /\ typed \in 0 .. MaxRx /\ taken \in Nat
        /\ rx_in \in Slot /\ rx_out \in Slot /\ rx_used = Used(rx_out, rx_in)
    BY <1>1 DEF PlaceTypes, rx_used
  <2>2. rx_used \in Nat /\ rx_used < BufLen /\ BufLen \in Nat /\ call.n \in Nat
    BY <1>1 DEF PlaceTypes
  <2>3. /\ RunsOn(hw_rx, taken + rx_used) /\ Holds(rx_buf, rx_out, rx_used, taken)
        /\ typed = taken + rx_used + Len(hw_rx)
    BY DEF IInv, RxPlace
  <2>4. /\ first \in Slot /\ u \in Nat /\ u = Used(first, rx_in) /\ Holds(rx_buf, first, u, got)
        /\ got + u = taken + rx_used
    <3>1. CASE pc = "r_free"
      <4>1. call.out = rx_out /\ call.n \in 1 .. rx_used
        BY <3>1 DEF IInv, ReadCall
      <4>2. taken + call.n = got
        <5>1. taken = got - call.n
          BY <3>1 DEF taken
        <5> QED BY <2>1, <2>2, <5>1
      <4>3. call.n <= rx_used /\ call.n \in 0 .. BufLen
        BY <2>2, <4>1
      <4>4. Mod(rx_out + call.n) \in Slot
        BY <2>1, <4>3, ModInSlot
      <4>5. Used(Mod(rx_out + call.n), rx_in) = rx_used - call.n
        BY <2>1, <2>2, <4>3, UsedTake
      <4>6. Holds(rx_buf, Mod(rx_out + call.n), rx_used - call.n, taken + call.n)
        BY <2>1, <2>2, <2>3, <4>3, HoldsLess
      <4>7. rx_used - call.n \in Nat /\ taken + call.n + (rx_used - call.n) = taken + rx_used
        BY <2>1, <2>2, <4>3
      <4> QED BY <3>1, <4>1, <4>2, <4>4, <4>5, <4>6, <4>7
    <3>2. CASE pc # "r_free"
      <4>1. taken = got
        BY <3>2 DEF taken
      <4> QED BY <3>2, <2>1, <2>2, <2>3, <4>1
    <3> QED BY <3>1, <3>2
  <2>5. typed = got + u + Len(hw_rx) /\ RunsOn(hw_rx, got + u) /\ typed \in Nat
    BY <2>1, <2>3, <2>4
  <2> HIDE DEF first, u
  <2>6. /\ Ring(rx_buf, first, rx_in) \in Seq(Nat) /\ Len(Ring(rx_buf, first, rx_in)) = u
        /\ RunsOn(Ring(rx_buf, first, rx_in), got)
    BY <2>1, <2>4, RingIs
  <2>7. Ring(rx_buf, first, rx_in) \o hw_rx = Numbers(got, typed)
    BY <2>1, <2>4, <2>5, <2>6, RunsJoin
  <2> QED BY <2>7 DEF first
<1> QED BY <1>2, <1>3 DEF InOrder

(* No character is lost, repeated or reordered between the program and the *)
(* host, either way: not when the handler moves an index while a call      *)
(* works with its copy of it, not at the end of a buffer, not with a full  *)
(* ring or FIFO.                                                           *)
THEOREM UartInOrder == Spec => []InOrder
BY Invariance, PlaceIsOrder, PTL
=============================================================================
