----------------------------- MODULE RegisterBus -----------------------------
(***************************************************************************)
(* What ov_wr_reg of ov5640_drv.c promises its callers: a call writes its  *)
(* value to its register of the sensor and to nothing else, or fails and   *)
(* writes nothing, and its result tells which.  After a restart of the CPU *)
(* in the middle of anything, the sensor comes up with no register set and *)
(* listens again.                                                          *)
(***************************************************************************)
EXTENDS Integers

CONSTANTS Write,    \* the calls: <<register, value>>
          Unset     \* what a register holds after a reset of the sensor

Reg == {w[1] : w \in Write}
Fresh == [r \in Reg |-> Unset]

VARIABLES up,       \* the sensor has been powered on
          call,     \* the call in progress, or <<>>
          taken,    \* the sensor has stored its value
          regs,     \* the registers of the sensor
          result    \* of the last call: "ok", "nack", or "busy" during a call

vars == <<up, call, taken, regs, result>>

Init == up = FALSE /\ call = <<>> /\ taken = FALSE /\ regs = Fresh /\ result = "ok"

PowerUp == /\ ~up /\ up' = TRUE /\ regs' = Fresh
           /\ UNCHANGED <<call, taken, result>>

Call(w) == /\ up /\ call = <<>>
           /\ call' = w /\ result' = "busy"
           /\ UNCHANGED <<up, taken, regs>>

Take == /\ call # <<>> /\ ~taken
        /\ taken' = TRUE /\ regs' = [regs EXCEPT ![call[1]] = call[2]]
        /\ UNCHANGED <<up, call, result>>

Return == /\ call # <<>>
          /\ call' = <<>> /\ taken' = FALSE
          /\ result' = IF taken THEN "ok" ELSE "nack"
          /\ UNCHANGED <<up, regs>>

(* The CPU restarts, and until it has powered the sensor on again the      *)
(* registers hold what they held, or are reset already.                    *)
Restart == /\ up' = FALSE /\ call' = <<>> /\ taken' = FALSE /\ result' = "ok"
           /\ regs' \in {regs, Fresh}

Down == /\ ~up /\ regs' = Fresh /\ UNCHANGED <<up, call, taken, result>>

Next == PowerUp \/ (\E w \in Write : Call(w)) \/ Take \/ Return \/ Restart \/ Down

Spec == Init /\ [][Next]_vars
=============================================================================
