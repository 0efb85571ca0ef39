----------------------------- MODULE Interrupts -----------------------------
(***************************************************************************)
(* The interrupt path: the event, status and mask registers of             *)
(* avalon_dvp_vi, avalon_isp_lite and avalon_vip, the dispatcher of the    *)
(* Nios II HAL, and the handlers and the start-up of hello_world.c.        *)
(*                                                                         *)
(* A rising vsync runs down the pipeline and raises one event in each      *)
(* module it passes, two more in the ISP for its statistics.  An event     *)
(* sets its status bit only on a clock edge on which the module's register *)
(* file is not accessed.  irq is level-sensitive; the HAL serves the       *)
(* lowest pending number first and does not nest.  One CPU step is one     *)
(* access to a register, or one step of the HAL.                           *)
(***************************************************************************)
EXTENDS Integers, Sequences

CONSTANTS
  MaxFrames,      \* bound: rising vsyncs
  MaxFramesAny    \* bound: ... of an untimely behaviour

(* The interrupt numbers the system generator has assigned.                *)
Irq == [isp |-> 1, vip |-> 2, vi |-> 3]
Module == DOMAIN Irq
Event(p) == IF p = "isp" THEN {"ae", "awb", "frame"} ELSE {"frame"}

(* The events of one vsync, in the order of the pipeline.                  *)
Chain == << <<"vi", "frame">>, <<"isp", "ae">>, <<"isp", "awb">>,
            <<"isp", "frame">>, <<"vip", "frame">> >>

VARIABLES
  timely,       \* never changes.  TRUE: the events of one vsync follow each
                \* other faster than the CPU gets through an interrupt entry,
                \* and the CPU is done with them before the next vsync
  module_reset, int_status, int_mask,   \* per module
  chain,        \* how many events of the latest vsync are still on their way
  frames,       \* vsyncs so far
  stat,         \* frame of the AE and of the AWB statistics registers
  main,         \* next operation of main
  hal, active, isr,       \* HAL: where it is, ipending as read, handler called
  registered,   \* modules whose handler is registered and ienable bit set
  frame_int,    \* vi_frame_int, isp_frame_int, vip_frame_int
  raised,       \* history: events latched, per module
  seen          \* history: frame the latest 2A run worked on, AE and AWB

hw_vars   == <<module_reset, int_status, int_mask>>
dvp_vars  == <<chain, frames, stat>>
hal_vars  == <<hal, active, isr>>
vars == <<timely, hw_vars, dvp_vars, main, hal_vars, registered, frame_int, raised, seen>>

-----------------------------------------------------------------------------
(* init_vi_isp_vip_wch, and one round of main's loop.                      *)
Op(o, p, v) == [op |-> o, module |-> p, value |-> v]
Program == <<
  Op("reset", "vi", 1), Op("reset", "isp", 1), Op("reset", "vip", 1),
  Op("mask", "vi", 1), Op("mask", "isp", 1), Op("mask", "vip", 1),
  Op("reset", "vi", 0), Op("reset", "isp", 0), Op("reset", "vip", 0),
  Op("register", "vi", 0), Op("register", "isp", 0), Op("register", "vip", 0),
  Op("mask", "vi", 0), Op("mask", "isp", 0), Op("mask", "vip", 0),
  Op("read", "vi", 0) >>

irq(p) == int_status[p] \ int_mask[p] # {}
Pending == {p \in registered : irq(p)}

(* alt_irq_handler tests bit 0 first.                                      *)
First(s) == CHOOSE p \in s : \A o \in s : Irq[p] <= Irq[o]

mask_of_Inverted(p, v) ==  \* mutant: a set bit enables
  IF p # "isp" /\ v = 0 THEN Event(p) ELSE {}

(* What REG_INT_MASK becomes: the ISP does not look at the value.          *)
mask_of(p, v) == IF p # "isp" /\ v = 1 THEN Event(p) ELSE {}

Init ==
  /\ timely \in BOOLEAN
  /\ module_reset = [p \in Module |-> TRUE]
  /\ int_status = [p \in Module |-> {}]
  /\ int_mask = [p \in Module |-> Event(p)]
  /\ chain = 0 /\ frames = 0 /\ stat = [ae |-> 0, awb |-> 0]
  /\ main = 1 /\ hal = "off" /\ active = {} /\ isr = "vi"
  /\ registered = {}
  /\ frame_int = [p \in Module |-> 0] /\ raised = [p \in Module |-> 0]
  /\ seen = [ae |-> 0, awb |-> 0]

-----------------------------------------------------------------------------
(* The DVP side.                                                           *)

Vsync ==
  /\ chain = 0 /\ ~module_reset["vi"]
  /\ frames < IF timely THEN MaxFrames ELSE MaxFramesAny
  /\ timely => hal = "off" /\ Pending = {}
  /\ chain' = Len(Chain) /\ frames' = frames + 1
  /\ UNCHANGED <<hw_vars, stat, main, hal_vars, registered, frame_int, raised,
                 seen>>

Next_event == Chain[Len(Chain) + 1 - chain]

(* The statistics are latched on the pixel clock, whatever the bus does.   *)
Latch_statistics ==
  stat' = IF Next_event[1] = "isp" /\ Next_event[2] \in DOMAIN stat
             /\ ~module_reset["isp"]
          THEN [stat EXCEPT ![Next_event[2]] = frames]
          ELSE stat

(* The next event arrives on an edge without a register access.            *)
Arrive ==
  /\ chain > 0 /\ chain' = chain - 1
  /\ Latch_statistics
  /\ LET p == Next_event[1] IN
       IF module_reset[p]
       THEN UNCHANGED <<int_status, raised>>
       ELSE /\ int_status' = [int_status EXCEPT ![p] = @ \union {Next_event[2]}]
            /\ raised' = [raised EXCEPT ![p] = @ + 1]
  /\ UNCHANGED <<module_reset, int_mask, frames, main, hal_vars, registered,
                 frame_int, seen>>

(* An access to the registers of module p: an event that arrives on the    *)
(* same edge is lost.                                                      *)
Access(p) ==
  \/ chain = 0 /\ UNCHANGED dvp_vars
  \/ ~timely /\ chain > 0 /\ UNCHANGED dvp_vars
  \/ /\ ~timely /\ chain > 0 /\ Next_event[1] = p
     /\ chain' = chain - 1 /\ Latch_statistics /\ UNCHANGED frames

(* A step of the CPU that is no access to these modules.                   *)
No_access == (timely => chain = 0) /\ UNCHANGED dvp_vars

-----------------------------------------------------------------------------
(* main, while no interrupt is being served.                               *)
Main ==
  LET o == Program[main] IN
  /\ hal = "off" /\ Pending = {}
  /\ main' = IF main < Len(Program) THEN main + 1 ELSE main
  /\ \/ /\ o.op = "reset" /\ Access(o.module)
        /\ module_reset' = [module_reset EXCEPT ![o.module] = (o.value = 1)]
        /\ UNCHANGED <<int_mask, registered>>
     \/ /\ o.op = "mask" /\ Access(o.module)
        /\ int_mask' = [int_mask EXCEPT ![o.module] = mask_of(o.module, o.value)]
        /\ UNCHANGED <<module_reset, registered>>
     \/ /\ o.op = "register" /\ No_access
        /\ registered' = registered \union {o.module}
        /\ UNCHANGED <<module_reset, int_mask>>
     \/ /\ o.op = "read" /\ Access(o.module)
        /\ UNCHANGED <<module_reset, int_mask, registered>>
  /\ UNCHANGED <<int_status, hal_vars, frame_int, raised, seen>>

(* The exception, and then the first reading of ipending.                  *)
Take_exception ==
  /\ hal = "off" /\ Pending # {}
  /\ hal' = "entry" /\ No_access
  /\ UNCHANGED <<hw_vars, main, active, isr, registered, frame_int, raised, seen>>

Read_pending ==
  /\ hal \in {"entry", "return"} /\ No_access
  /\ active' = Pending
  /\ hal' = IF hal = "return" /\ Pending = {} THEN "off" ELSE "dispatch"
  /\ UNCHANGED <<hw_vars, main, isr, registered, frame_int, raised, seen>>

(* Call the handler of the first bit found; with no bit the search never   *)
(* ends, and with no handler the call has no target.                       *)
Dispatch ==
  /\ hal = "dispatch" /\ active # {} /\ No_access
  /\ isr' = First(active) /\ hal' = "clear"
  /\ UNCHANGED <<hw_vars, main, active, registered, frame_int, raised, seen>>

Isr_clear_FrameOnly ==     \* mutant: the statistics bits stay set
  /\ hal = "clear" /\ Access(isr)
  /\ int_status' = [int_status EXCEPT ![isr] = @ \ {"frame"}]
  /\ hal' = "count"
  /\ UNCHANGED <<module_reset, int_mask, main, active, isr, registered,
                 frame_int, raised, seen>>

(* All three handlers begin with a write to REG_INT_STATUS.                *)
Isr_clear ==
  /\ hal = "clear" /\ Access(isr)
  /\ int_status' = [int_status EXCEPT ![isr] = {}]
  /\ hal' = "count"
  /\ UNCHANGED <<module_reset, int_mask, main, active, isr, registered,
                 frame_int, raised, seen>>

Isr_count ==
  /\ hal = "count" /\ No_access
  /\ frame_int' = [frame_int EXCEPT ![isr] = @ + 1]
  /\ hal' = IF isr = "isp" /\ frame_int'[isr] % 2 = 0 THEN "ae" ELSE "return"
  /\ UNCHANGED <<hw_vars, main, active, isr, registered, raised, seen>>

(* isp_ae_handler and isp_awb_handler read their statistics.               *)
Isr_algorithm ==
  /\ hal \in {"ae", "awb"} /\ Access("isp")
  /\ seen' = [seen EXCEPT ![hal] = stat[hal]]
  /\ hal' = IF hal = "ae" THEN "awb" ELSE "return"
  /\ UNCHANGED <<hw_vars, main, active, isr, registered, frame_int, raised>>

Cpu == Main \/ Take_exception \/ Read_pending \/ Dispatch \/ Isr_clear
         \/ Isr_count \/ Isr_algorithm

Next == (Vsync \/ Arrive \/ Cpu) /\ UNCHANGED timely

(* The CPU always runs and an event always arrives; vsync need not come.   *)
Fairness == /\ WF_vars(Cpu /\ UNCHANGED timely)
            /\ WF_vars(Arrive /\ UNCHANGED timely)

Spec == Init /\ [][Next]_vars /\ Fairness

-----------------------------------------------------------------------------
(* Registers and counters in range.                                        *)
TypeOK ==
  /\ timely \in BOOLEAN
  /\ module_reset \in [Module -> BOOLEAN]
  /\ \A p \in Module : int_status[p] \subseteq Event(p)
                       /\ int_mask[p] \in {{}, Event(p)}
  /\ chain \in 0..Len(Chain) /\ frames \in 0..MaxFrames
  /\ \A s \in {"ae", "awb"} : stat[s] \in 0..frames /\ seen[s] \in 0..frames
  /\ main \in DOMAIN Program
  /\ hal \in {"off", "entry", "dispatch", "clear", "count", "ae", "awb", "return"}
  /\ active \subseteq Module /\ isr \in Module /\ registered \subseteq Module
  /\ frame_int \in [Module -> Nat] /\ raised \in [Module -> Nat]

(* alt_irq_handler.c:130-155: whoever is dispatched has a handler, and the *)
(* search always has a bit to find.  The handler's pending set is read     *)
(* after the exception, so this needs every irq line to stay up until its  *)
(* own handler clears it.                                                  *)
DispatchFinds ==
  hal = "dispatch" => /\ active # {}
                      /\ \A p \in active : p \in registered /\ irq(p)

(* hello_world.c:31-56, 160-164: the interrupt counts that main prints     *)
(* count events, no event twice: a handler that has cleared its status is  *)
(* not called again until another event has come.                          *)
InterruptsAreEvents ==
  \A p \in Module :
    frame_int[p] + (IF int_status[p] # {} THEN 1 ELSE 0)
      + (IF hal = "count" /\ isr = p THEN 1 ELSE 0) <= raised[p]

(* hello_world.c:41-49: with every event of a vsync in before the handler  *)
(* clears them, one vsync is one ISP interrupt, so a run of the 2A         *)
(* algorithms never works on a frame that an earlier run has worked on,    *)
(* and AE and AWB work on the same one.                                    *)
EachRunNewFrame ==
  [][ timely =>
        /\ hal = "ae" /\ hal' = "awb" => seen'["ae"] > seen["ae"]
        /\ hal = "awb" /\ hal' = "return" => seen'["awb"] = seen["ae"] ]_vars

(* avalon_isp_lite_regs.h:56-58 gives each interrupt a mask bit and        *)
(* hello_world.c:66 sets them all: until main clears them again, at line   *)
(* 111, the ISP does not interrupt.                                        *)
MaskHolds == main \in 7..14 => ~irq("isp")

(* hello_world.c:31-56: an event that has set its status bit is answered.  *)
Answered ==
  \A p \in Module :
    (int_status[p] # {}) ~> (hal = "clear" /\ isr = p)
=============================================================================
