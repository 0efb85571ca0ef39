-------------------------------- MODULE Cpu --------------------------------
(***************************************************************************)
(* The processor as the HAL uses it: the control registers, critical       *)
(* sections, the interrupt table with its registration functions, handlers *)
(* that let more urgent interrupts in, and the exception entry that tells  *)
(* an interrupt from an instruction that faulted.                          *)
(*                                                                         *)
(* What runs is a stack of frames: the program, and above it one frame per *)
(* exception under way.  A handler is any sequence of the HAL's calls that *)
(* keeps their rules; a device holds its line until its handler clears it. *)
(***************************************************************************)
EXTENDS Integers, Sequences

CONSTANTS
  ALT_NIRQ,
  Causes,                     \* of instructions that fault
  NIOS2_HAS_EXTRA_EXCEPTION_INFO,
  Anywhere,                   \* may calls change the enabled lines while a
                              \* handler is interruptible?
  MaxRaise, MaxFault,         \* bound: lines raised, instructions that fault
  MaxContext                  \* bound: nested critical sections

ASSUME CpuAssumption ==
  /\ ALT_NIRQ \in Nat \ {0} /\ {NIOS2_HAS_EXTRA_EXCEPTION_INFO, Anywhere} \subseteq BOOLEAN
  /\ MaxRaise \in Nat /\ MaxFault \in Nat /\ MaxContext \in Nat
  /\ {"none", "interrupt", "not present"} \cap Causes = {}

Id == 0 .. ALT_NIRQ - 1

VARIABLES
  PIE, IENABLE, EXCEPTION,            \* status.PIE, ienable, exception.CAUSE
  alt_irq_active, alt_priority_mask,  \* lines enabled, lines let through
  alt_irq,                            \* lines with a handler
  alt_instruction_exception_handler,  \* is one registered?
  stack,                              \* frames, the one that runs last
  line, raised, faults                \* lines the devices hold; counted

ctl     == <<PIE, IENABLE>>
enabled == <<alt_irq_active, alt_priority_mask>>
tables  == <<alt_irq, alt_instruction_exception_handler>>
world   == <<line, raised, faults>>
vars    == <<ctl, EXCEPTION, enabled, tables, stack, world>>

IPENDING == line \intersect IENABLE

(* est: status when the frame was entered.  context: what the calls of     *)
(* alt_irq_disable_all returned and alt_irq_enable_all has not yet used.   *)
(* op: where a registration stands.  old: the return value of              *)
(* alt_irq_interruptible.                                                  *)
Frame == [mode |-> "entry", id |-> 0, est |-> FALSE, context |-> <<>>,
          op |-> "none", reg |-> 0, on |-> FALSE, old |-> <<>>, cleared |-> FALSE, fault |-> "none"]

Init == /\ PIE = FALSE /\ IENABLE = {} /\ EXCEPTION = "none"
        /\ alt_irq_active = {} /\ alt_priority_mask = Id
        /\ alt_irq = {} /\ alt_instruction_exception_handler = FALSE
        /\ stack = << [Frame EXCEPT !.mode = "boot"] >>
        /\ line = {} /\ raised = 0 /\ faults = 0

Top == stack[Len(stack)]
SetTop(f) == stack' = [stack EXCEPT ![Len(stack)] = f]
Code == Top.mode \in {"user", "isr"}                \* C code runs
Free == Code /\ Top.op = "none" /\ Top.fault = "none"

alt_irq_init == /\ Top.mode = "boot" /\ SetTop([Top EXCEPT !.mode = "user"])
                /\ IENABLE' = {} /\ PIE' = TRUE
                /\ UNCHANGED <<EXCEPTION, enabled, tables, world>>

-----------------------------------------------------------------------------
(* Critical sections.                                                      *)

alt_irq_disable_all(f) == /\ Len(f.context) < MaxContext
                          /\ SetTop([f EXCEPT !.context = <<PIE>> \o f.context])
                          /\ PIE' = FALSE

alt_irq_enable_all_Always(f) == /\ SetTop([f EXCEPT !.context = Tail(f.context)])
                                /\ PIE' = TRUE

alt_irq_enable_all(f) == /\ SetTop([f EXCEPT !.context = Tail(f.context)])
                         /\ PIE' = Head(f.context)

Disable_all == Free /\ alt_irq_disable_all(Top) /\ UNCHANGED <<IENABLE, EXCEPTION, enabled, tables, world>>

Enable_all == /\ Free /\ Top.context # <<>> /\ alt_irq_enable_all(Top)
              /\ UNCHANGED <<IENABLE, EXCEPTION, enabled, tables, world>>

-----------------------------------------------------------------------------
(* Registration: the table, then the line, in one critical section.  A     *)
(* null handler disables the line.                                         *)

Change(op, id, on) == /\ Free /\ (Anywhere \/ alt_priority_mask = Id)
                      /\ alt_irq_disable_all([Top EXCEPT !.op = op, !.reg = id, !.on = on])
                      /\ UNCHANGED <<IENABLE, EXCEPTION, enabled, tables, world>>

alt_ic_irq_enable(id)  == id \in alt_irq /\ Change("line", id, TRUE)
alt_ic_irq_disable(id) == Change("line", id, FALSE)

alt_irq_register(id, handler)     == id < ALT_NIRQ /\ Change("table", id, handler)
alt_iic_isr_register(id, handler) == id < ALT_NIRQ /\ Change("table", id, handler)
alt_ic_isr_register(id, handler)  == alt_iic_isr_register(id, handler)

alt_ic_irq_enabled(id) == id \in IENABLE

Set_table == /\ Code /\ Top.op = "table"
             /\ alt_irq' = IF Top.on THEN alt_irq \union {Top.reg} ELSE alt_irq \ {Top.reg}
             /\ SetTop([Top EXCEPT !.op = "line"])
             /\ UNCHANGED <<ctl, EXCEPTION, enabled, alt_instruction_exception_handler, world>>

(* Both write the whole of alt_irq_active to ienable.                      *)
alt_irq_disable(id) == alt_irq_active' = alt_irq_active \ {id} /\ IENABLE' = alt_irq_active'
alt_irq_enable(id)  == alt_irq_active' = alt_irq_active \union {id} /\ IENABLE' = alt_irq_active'

Set_line == /\ Code /\ Top.op = "line"
            /\ IF Top.on THEN alt_irq_enable(Top.reg) ELSE alt_irq_disable(Top.reg)
            /\ alt_irq_enable_all([Top EXCEPT !.op = "none", !.reg = 0, !.on = FALSE])
            /\ UNCHANGED <<EXCEPTION, alt_priority_mask, tables, world>>

alt_instruction_exception_register ==
  /\ Free /\ Top.mode = "user" /\ alt_instruction_exception_handler' = TRUE
  /\ UNCHANGED <<ctl, EXCEPTION, enabled, alt_irq, stack, world>>

-----------------------------------------------------------------------------
(* A handler that lets lines of a smaller number in.                       *)

alt_irq_interruptible(priority) ==
  /\ SetTop([Top EXCEPT !.old = <<alt_priority_mask>>])
  /\ alt_priority_mask' = 0 .. priority - 1
  /\ IENABLE' = alt_irq_active \intersect alt_priority_mask'
  /\ PIE' = TRUE

alt_irq_non_interruptible_KeepMask(mask) ==
  /\ PIE' = FALSE
  /\ IENABLE' = mask \intersect alt_irq_active
  /\ SetTop([Top EXCEPT !.old = <<>>]) /\ UNCHANGED alt_priority_mask

alt_irq_non_interruptible(mask) ==
  /\ PIE' = FALSE
  /\ alt_priority_mask' = mask
  /\ IENABLE' = mask \intersect alt_irq_active
  /\ SetTop([Top EXCEPT !.old = <<>>])

Interruptible == /\ Free /\ Top.mode = "isr" /\ Top.context = <<>> /\ Top.old = <<>>
                 /\ alt_irq_interruptible(Top.id)
                 /\ UNCHANGED <<EXCEPTION, alt_irq_active, tables, world>>

Non_interruptible == /\ Free /\ Top.context = <<>> /\ Top.old # <<>>
                     /\ alt_irq_non_interruptible(Top.old[1])
                     /\ UNCHANGED <<EXCEPTION, alt_irq_active, tables, world>>

-----------------------------------------------------------------------------
(* Exceptions.                                                             *)

Enter(cause) == /\ stack' = Append(stack, [Frame EXCEPT !.est = PIE])
                /\ PIE' = FALSE /\ EXCEPTION' = cause
                /\ UNCHANGED <<IENABLE, enabled, tables, world>>

Interrupt == PIE /\ IPENDING # {} /\ Enter("interrupt")

(* The next instruction faults, now and whenever it is issued again ...    *)
Reach == /\ Free /\ faults < MaxFault /\ faults' = faults + 1
         /\ \E c \in Causes : SetTop([Top EXCEPT !.fault = c])
         /\ UNCHANGED <<ctl, EXCEPTION, enabled, tables, line, raised>>

Fault == Code /\ Top.fault # "none" /\ Enter(Top.fault)

(* An exception with interrupts enabled and one pending is an interrupt.   *)
Is_irq == Top.est /\ IPENDING # {}

alt_irq_entry == /\ Top.mode = "entry"
                 /\ SetTop([Top EXCEPT !.mode = IF Is_irq THEN "poll" ELSE "trap"])
                 /\ UNCHANGED <<ctl, EXCEPTION, enabled, tables, world>>

Under == SubSeq(stack, 1, Len(stack) - 1)
Exit(rest) == /\ stack' = rest /\ PIE' = Top.est
              /\ UNCHANGED <<IENABLE, EXCEPTION, enabled, tables, world>>

(* The lowest pending line, until none is left.                            *)
alt_irq_handler ==
  /\ Top.mode = "poll"
  /\ IF IPENDING = {} THEN Exit(Under)
     ELSE LET i == CHOOSE i \in IPENDING : \A j \in IPENDING : i <= j IN
          /\ SetTop([Top EXCEPT !.mode = "isr", !.id = i, !.cleared = FALSE])
          /\ UNCHANGED <<ctl, EXCEPTION, enabled, tables, world>>

Clear == /\ Free /\ Top.mode = "isr" /\ line' = line \ {Top.id}
         /\ SetTop([Top EXCEPT !.cleared = TRUE])
         /\ UNCHANGED <<ctl, EXCEPTION, enabled, tables, raised, faults>>

Return == /\ Free /\ Top.mode = "isr" /\ Top.cleared /\ Top.context = <<>> /\ Top.old = <<>>
          /\ SetTop([Top EXCEPT !.mode = "poll"])
          /\ UNCHANGED <<ctl, EXCEPTION, enabled, tables, world>>

(* What the instruction exception handler is told.                         *)
Told == IF NIOS2_HAS_EXTRA_EXCEPTION_INFO THEN EXCEPTION ELSE "not present"

(* It mends the cause and has the instruction issued again, or skips it.   *)
(* Without one the processor stops for good.                               *)
alt_instruction_exception_entry ==
  /\ Top.mode = "trap"
  /\ IF alt_instruction_exception_handler
     THEN Exit([Under EXCEPT ![Len(Under)].fault = "none"])
     ELSE /\ SetTop([Top EXCEPT !.mode = "stopped"])
          /\ UNCHANGED <<ctl, EXCEPTION, enabled, tables, world>>

Raise(i) == /\ i \notin line /\ raised < MaxRaise
            /\ line' = line \union {i} /\ raised' = raised + 1
            /\ UNCHANGED <<ctl, EXCEPTION, enabled, tables, stack, faults>>

-----------------------------------------------------------------------------
Registration == \E id \in 0 .. ALT_NIRQ :
                  \/ \E handler \in BOOLEAN : alt_irq_register(id, handler) \/ alt_ic_isr_register(id, handler)
                  \/ id < ALT_NIRQ /\ (alt_ic_irq_enable(id) \/ alt_ic_irq_disable(id))

Next == \/ alt_irq_init \/ Disable_all \/ Enable_all
        \/ Registration \/ Set_table \/ Set_line \/ alt_instruction_exception_register
        \/ Interruptible \/ Non_interruptible
        \/ Interrupt \/ Reach \/ Fault \/ alt_irq_entry \/ alt_irq_handler \/ Clear \/ Return
        \/ alt_instruction_exception_entry
        \/ \E i \in Id : Raise(i)

(* The processor does not rest, leaves every critical section it enters,   *)
(* and every handler ends; it takes an interrupt when it may.              *)
Fairness == /\ WF_vars(alt_irq_init \/ Set_table \/ Set_line \/ Fault \/ alt_irq_entry
                         \/ alt_irq_handler \/ alt_instruction_exception_entry)
            /\ WF_vars(Enable_all) /\ SF_vars(Enable_all /\ Len(Top.context) = 1) /\ SF_vars(Non_interruptible)
            /\ SF_vars(Clear) /\ SF_vars(Return) /\ SF_vars(Interrupt)

Spec == Init /\ [][Next]_vars /\ Fairness

-----------------------------------------------------------------------------
(* Every variable keeps its type.                                          *)
TypeOK == /\ PIE \in BOOLEAN /\ IENABLE \subseteq Id
          /\ EXCEPTION \in Causes \union {"none", "interrupt"}
          /\ alt_irq_active \subseteq Id /\ alt_priority_mask \subseteq Id
          /\ alt_irq \subseteq Id /\ line \subseteq Id
          /\ raised \in 0 .. MaxRaise /\ faults \in 0 .. MaxFault
          /\ Len(stack) > 0

Isr(i) == stack[i].mode = "isr"

(* Interrupts are on exactly where the calls say: critical sections may    *)
(* nest, be cut by a fault, or lie inside a handler.                       *)
PieExact == PIE <=> /\ Code /\ Top.context = <<>>
                    /\ Top.mode = "isr" => Top.old # <<>>

(* Nothing interrupts a critical section: what lies above it is a fault.   *)
CriticalAlone == \A i \in 1 .. Len(stack) - 1 :
                   stack[i].context # <<>> => stack[i + 1].mode \in {"entry", "trap", "stopped"}

(* A handler is interrupted by a smaller number only, so never by itself   *)
(* (alt_legacy_irq.h:103).                                                 *)
NestedByPriority == \A i, j \in 1 .. Len(stack) : i < j /\ Isr(i) /\ Isr(j) => stack[j].id < stack[i].id

(* No line without a handler is dispatched.                                *)
NeverNull == Top.mode = "poll" => IPENDING \subseteq alt_irq

(* The handler of exceptions is told the cause of the instruction it is to *)
(* mend, whatever interrupts came first.                                   *)
ToldTheCause == Top.mode = "trap" => Told \in {stack[Len(stack) - 1].fault, "not present"}

(* alt_ic_irq_enabled reports what was enabled, less what a handler holds  *)
(* back.                                                                   *)
ReportsEnabled == \A id \in Id : alt_ic_irq_enabled(id) <=> id \in alt_irq_active \intersect alt_priority_mask

SafeCpu == TypeOK /\ ReportsEnabled /\ PieExact /\ CriticalAlone /\ NestedByPriority /\ NeverNull /\ ToldTheCause

(* An enabled line is served, and an instruction that faults is put before *)
(* the handler, however interrupts, faults and critical sections mix;      *)
(* unless a fault stops the processor.                                     *)
Stopped == Top.mode = "stopped"
Served == /\ \A i \in Id : i \in line /\ i \in alt_irq_active ~>
                             i \notin line \/ i \notin alt_irq_active \/ Stopped
          /\ (\E i \in 1 .. Len(stack) : stack[i].fault # "none") ~>
               Stopped \/ \A i \in 1 .. Len(stack) : stack[i].fault = "none"
=============================================================================
