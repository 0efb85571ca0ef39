----------------------------- MODULE CpuProofs -----------------------------
(***************************************************************************)
(* Theorems about the interrupt and exception API, for every number of     *)
(* interrupt lines, every set of causes and every nesting of handlers,     *)
(* faults and critical sections, where calls change the enabled lines only *)
(* outside an interruptible handler (~Anywhere).                           *)
(***************************************************************************)
EXTENDS Cpu, WellFoundedInduction, TLAPS

Mode == {"boot", "user", "isr", "entry", "poll", "trap", "stopped"}

FrameSet == [mode : Mode, id : Id, est : BOOLEAN, context : Seq(BOOLEAN),
             op : {"none", "table", "line"}, reg : Id, on : BOOLEAN,
             old : Seq(SUBSET Id), cleared : BOOLEAN, fault : Causes \union {"none"}]

(* What the invariant says of one frame.  A handler lets lines in while    *)
(* alt_irq_interruptible's return value is unused; the innermost critical  *)
(* section found interrupts as they were, every other one found them off.  *)
Runs(f) == f.mode \in {"user", "isr"}
LetsIn(f) == f.mode = "isr" => f.old # <<>>
Pie(f) == Runs(f) /\ f.context = <<>> /\ LetsIn(f)

Nested(c, on) == \A k \in 1 .. Len(c) : c[k] <=> (k = Len(c) /\ on)

FrameOK(f) ==
  /\ f \in FrameSet
  /\ Nested(f.context, LetsIn(f))
  /\ f.context # <<>> => Runs(f)
  /\ f.old # <<>> => f.mode = "isr"
  /\ f.op # "none" => f.context # <<>> /\ f.fault = "none"

(* What it says of the stack: the program lies below everything else, what *)
(* lies below a frame is code that was let go, and an exception that is    *)
(* dispatched as an interrupt was entered with interrupts on.              *)
Frames(s) ==
  /\ s \in Seq(FrameSet) /\ Len(s) > 0
  /\ \A i \in 1 .. Len(s) : FrameOK(s[i]) /\ (s[i].mode \in {"boot", "user"} <=> i = 1)
  /\ \A i \in 1 .. Len(s) - 1 : Runs(s[i]) /\ s[i].op = "none"
  /\ \A i \in 1 .. Len(s) - 1 : s[i + 1].est <=> Pie(s[i])
  /\ \A i \in 2 .. Len(s) : s[i].mode \in {"poll", "isr"} => s[i].est

(* m is the mask among the first n frames: what the last handler that lets *)
(* lines in leaves through, every line if there is none.                   *)
MaskAt(s, n, m) ==
  \/ m = Id /\ \A i \in 1 .. n : s[i].old = <<>>
  \/ \E i \in 1 .. n : /\ s[i].old # <<>> /\ m = 0 .. s[i].id - 1
                       /\ \A j \in i + 1 .. n : s[j].old = <<>>

Masks(s, m) ==
  /\ MaskAt(s, Len(s), m)
  /\ \A i \in 1 .. Len(s) : s[i].old # <<>> => MaskAt(s, i - 1, s[i].old[1])

Priorities(s) == \A i, j \in 1 .. Len(s) :
                   i < j /\ s[i].mode = "isr" /\ s[j].mode = "isr" => s[j].id < s[i].id

(* A registration is under way only where every line is let through, and   *)
(* the only enabled line that may lack a handler is the one about to go.   *)
Registers ==
  /\ Top.op # "none" => alt_priority_mask = Id
  /\ Top.op = "line" /\ Top.on => Top.reg \in alt_irq
  /\ alt_irq_active \subseteq alt_irq \union (IF Top.op = "line" THEN {Top.reg} ELSE {})

(* An exception that nothing interrupted stands for a fault of the frame   *)
(* below it, and exception.CAUSE is its cause.  Nothing is enabled before   *)
(* alt_irq_init.                                                           *)
ModeOK ==
  /\ Top.mode = "boot" => IENABLE = {}
  /\ Top.mode = "entry" => \/ EXCEPTION = stack[Len(stack) - 1].fault
                           \/ Top.est /\ IPENDING # {}
  /\ Top.mode = "trap" => EXCEPTION = stack[Len(stack) - 1].fault

IInv == /\ TypeOK /\ ReportsEnabled /\ PieExact
        /\ Frames(stack) /\ Masks(stack, alt_priority_mask) /\ Priorities(stack)
        /\ Registers /\ ModeOK

-----------------------------------------------------------------------------
(* Sets of lines and contexts.                                             *)

LEMMA IdIs == ALT_NIRQ \in Nat \ {0} /\ Id \subseteq Nat /\ 0 \in Id
<1>1. ALT_NIRQ \in Nat \ {0}
  BY CpuAssumption
<1> QED BY <1>1 DEF Id

LEMMA FrameIs ==
  ASSUME NEW f \in FrameSet
  PROVE  /\ f.mode \in Mode /\ f.id \in Id /\ f.id \in Nat /\ f.est \in BOOLEAN
         /\ f.context \in Seq(BOOLEAN) /\ f.op \in {"none", "table", "line"}
         /\ f.reg \in Id /\ f.on \in BOOLEAN /\ f.old \in Seq(SUBSET Id)
         /\ f.cleared \in BOOLEAN /\ f.fault \in Causes \union {"none"}
BY IdIs DEF FrameSet

(* The dispatcher finds a lowest line.                                     *)
LEMMA LowestIs ==
  ASSUME NEW S \in SUBSET Nat, S # {}
  PROVE  \E i \in S : \A j \in S : i <= j
<1>1. \E x \in S : \A y \in S : ~(<<y, x>> \in OpToRel(<, Nat))
  BY NatLessThanWellFounded, WFMin
<1>2. PICK x \in S : \A y \in S : ~(<<y, x>> \in OpToRel(<, Nat))
  BY <1>1
<1>3. ASSUME NEW y \in S PROVE x <= y
  <2>1. x \in Nat /\ y \in Nat
    OBVIOUS
  <2>2. ~(y < x)
    BY <1>2, <2>1 DEF OpToRel
  <2> QED BY <2>1, <2>2
<1> QED BY <1>3

(* alt_irq_disable_all and alt_irq_enable_all nest.                        *)
LEMMA Push ==
  ASSUME NEW c \in Seq(BOOLEAN), NEW on \in BOOLEAN, NEW b \in BOOLEAN,
         Nested(c, on), b <=> (c = <<>> /\ on)
  PROVE  <<b>> \o c \in Seq(BOOLEAN) /\ <<b>> \o c # <<>> /\ Nested(<<b>> \o c, on)
<1> DEFINE d == <<b>> \o c
<1>1. d \in Seq(BOOLEAN) /\ Len(d) = Len(c) + 1 /\ d # <<>> /\ Len(c) \in Nat
  OBVIOUS
<1>2. d[1] = b
  OBVIOUS
<1>3. \A k \in 2 .. Len(d) : d[k] = c[k - 1] /\ k - 1 \in 1 .. Len(c)
  OBVIOUS
<1>4. c = <<>> <=> Len(c) = 0
  OBVIOUS
<1>5. ASSUME NEW k \in 1 .. Len(d) PROVE d[k] <=> (k = Len(d) /\ on)
  <2>1. CASE k = 1
    BY <1>1, <1>2, <1>4, <2>1
  <2>2. CASE k # 1
    <3>1. k \in 2 .. Len(d)
      BY <1>1, <2>2
    <3>2. d[k] = c[k - 1] /\ k - 1 \in 1 .. Len(c)
      BY <1>3, <3>1
    <3>3. k = Len(d) <=> k - 1 = Len(c)
      BY <1>1
    <3>4. c[k - 1] <=> (k - 1 = Len(c) /\ on)
      BY <3>2 DEF Nested
    <3> QED BY <3>2, <3>3, <3>4
  <2> QED BY <2>1, <2>2
<1> QED BY <1>1, <1>5 DEF Nested

LEMMA Pop ==
  ASSUME NEW c \in Seq(BOOLEAN), NEW on \in BOOLEAN, Nested(c, on), c # <<>>
  PROVE  /\ Tail(c) \in Seq(BOOLEAN) /\ Nested(Tail(c), on)
         /\ Head(c) \in BOOLEAN /\ (Head(c) <=> (Tail(c) = <<>> /\ on))
<1> DEFINE d == Tail(c)
<1>1. d \in Seq(BOOLEAN) /\ Len(d) = Len(c) - 1 /\ Len(c) \in Nat \ {0}
  OBVIOUS
<1>2. Head(c) = c[1] /\ c[1] \in BOOLEAN
  OBVIOUS
<1>3. d = <<>> <=> Len(c) = 1
  BY <1>1
<1>4. c[1] <=> (1 = Len(c) /\ on)
  <2>1. 1 \in 1 .. Len(c)
    BY <1>1
  <2> QED BY <2>1, Zenon DEF Nested
<1>5. ASSUME NEW k \in 1 .. Len(d) PROVE d[k] <=> (k = Len(d) /\ on)
  <2>1. d[k] = c[k + 1] /\ k + 1 \in 1 .. Len(c)
    BY <1>1
  <2>2. k = Len(d) <=> k + 1 = Len(c)
    BY <1>1
  <2>3. c[k + 1] <=> (k + 1 = Len(c) /\ on)
    BY <2>1 DEF Nested
  <2> QED BY <2>1, <2>2, <2>3
<1> QED BY <1>1, <1>2, <1>3, <1>4, <1>5 DEF Nested

-----------------------------------------------------------------------------
(* The stack: a frame changes, one is entered, one is left.                *)

\* t is s with another last frame.
SameBelow(s, t) == Len(t) = Len(s) /\ \A i \in 1 .. Len(s) - 1 : t[i] = s[i]
\* t is s with one frame more.
OneMore(s, t) == Len(t) = Len(s) + 1 /\ \A i \in 1 .. Len(s) : t[i] = s[i]

LEMMA SetLast ==
  ASSUME NEW s \in Seq(FrameSet), Len(s) > 0, NEW f \in FrameSet
  PROVE  LET t == [s EXCEPT ![Len(s)] = f]
         IN  t \in Seq(FrameSet) /\ SameBelow(s, t) /\ t[Len(t)] = f
BY DEF SameBelow

LEMMA SetLastFrames ==
  ASSUME NEW s, NEW t, Frames(s), t \in Seq(FrameSet), SameBelow(s, t),
         FrameOK(t[Len(t)]), t[Len(t)].est <=> s[Len(s)].est,
         t[Len(t)].mode \in {"boot", "user"} <=> s[Len(s)].mode \in {"boot", "user"},
         t[Len(t)].mode \in {"poll", "isr"} => t[Len(t)].est
  PROVE  Frames(t)
<1>1. Len(s) \in Nat /\ Len(s) > 0 /\ Len(t) = Len(s)
  BY DEF Frames, SameBelow
<1>2. ASSUME NEW i \in 1 .. Len(t)
      PROVE  FrameOK(t[i]) /\ (t[i].mode \in {"boot", "user"} <=> i = 1)
  <2>1. CASE i = Len(t)
    BY <1>1, <2>1 DEF Frames
  <2>2. CASE i # Len(t)
    <3>1. i \in 1 .. Len(s) - 1 /\ i \in 1 .. Len(s)
      BY <1>1, <2>2
    <3> QED BY <3>1 DEF Frames, SameBelow
  <2> QED BY <2>1, <2>2
<1>3. ASSUME NEW i \in 1 .. Len(t) - 1 PROVE Runs(t[i]) /\ t[i].op = "none"
  BY <1>1 DEF Frames, SameBelow
<1>4. ASSUME NEW i \in 1 .. Len(t) - 1 PROVE t[i + 1].est <=> Pie(t[i])
  <2>1. t[i] = s[i] /\ (s[i + 1].est <=> Pie(s[i]))
    BY <1>1 DEF Frames, SameBelow
  <2>2. CASE i + 1 = Len(t)
    BY <1>1, <2>1, <2>2
  <2>3. CASE i + 1 # Len(t)
    <3>1. i + 1 \in 1 .. Len(s) - 1
      BY <1>1, <2>3
    <3> QED BY <2>1, <3>1 DEF SameBelow
  <2> QED BY <2>2, <2>3
<1>5. ASSUME NEW i \in 2 .. Len(t), t[i].mode \in {"poll", "isr"} PROVE t[i].est
  <2>1. CASE i = Len(t)
    BY <1>5, <2>1
  <2>2. CASE i # Len(t)
    <3>1. i \in 1 .. Len(s) - 1 /\ i \in 2 .. Len(s)
      BY <1>1, <2>2
    <3> QED BY <1>5, <3>1 DEF Frames, SameBelow
  <2> QED BY <2>1, <2>2
<1> QED BY <1>1, <1>2, <1>3, <1>4, <1>5 DEF Frames

LEMMA EnterFrames ==
  ASSUME NEW s, NEW t, Frames(s), t \in Seq(FrameSet), OneMore(s, t),
         Runs(s[Len(s)]), s[Len(s)].op = "none",
         FrameOK(t[Len(t)]), t[Len(t)].mode = "entry", t[Len(t)].est <=> Pie(s[Len(s)])
  PROVE  Frames(t)
<1>1. Len(s) \in Nat /\ Len(s) > 0 /\ Len(t) = Len(s) + 1
  BY DEF Frames, OneMore
<1>2. ASSUME NEW i \in 1 .. Len(t)
      PROVE  FrameOK(t[i]) /\ (t[i].mode \in {"boot", "user"} <=> i = 1)
  <2>1. CASE i = Len(t)
    BY <1>1, <2>1
  <2>2. CASE i # Len(t)
    <3>1. i \in 1 .. Len(s)
      BY <1>1, <2>2
    <3> QED BY <3>1 DEF Frames, OneMore
  <2> QED BY <2>1, <2>2
<1>3. ASSUME NEW i \in 1 .. Len(t) - 1
      PROVE  Runs(t[i]) /\ t[i].op = "none" /\ (t[i + 1].est <=> Pie(t[i]))
  <2>1. i \in 1 .. Len(s) /\ t[i] = s[i]
    BY <1>1 DEF OneMore
  <2>2. CASE i = Len(s)
    BY <1>1, <2>1, <2>2
  <2>3. CASE i # Len(s)
    <3>1. i \in 1 .. Len(s) - 1 /\ i + 1 \in 1 .. Len(s)
      BY <1>1, <2>1, <2>3
    <3> QED BY <2>1, <3>1 DEF Frames, OneMore
  <2> QED BY <2>2, <2>3
<1>4. ASSUME NEW i \in 2 .. Len(t), t[i].mode \in {"poll", "isr"} PROVE t[i].est
  <2>1. i # Len(t)
    BY <1>4
  <2>2. i \in 1 .. Len(s) /\ i \in 2 .. Len(s)
    BY <1>1, <2>1
  <2> QED BY <1>4, <2>2 DEF Frames, OneMore
<1> QED BY <1>1, <1>2, <1>3, <1>4 DEF Frames

LEMMA LeaveFrames ==
  ASSUME NEW s, NEW t, Frames(s), t \in Seq(FrameSet), OneMore(t, s), Len(t) > 0
  PROVE  Frames(t)
<1>1. Len(t) \in Nat /\ Len(s) = Len(t) + 1
  BY DEF OneMore
<1>2. \A i \in 1 .. Len(t) : i \in 1 .. Len(s) /\ i \in 1 .. Len(s) - 1 /\ t[i] = s[i]
  BY <1>1 DEF OneMore
<1>3. \A i \in 1 .. Len(t) - 1 : i + 1 \in 1 .. Len(t)
  BY <1>1
<1>4. \A i \in 2 .. Len(t) : i \in 2 .. Len(s) /\ i \in 1 .. Len(t)
  BY <1>1
<1>5. \A i \in 1 .. Len(t) - 1 : i \in 1 .. Len(t)
  BY <1>1
<1> QED BY <1>2, <1>3, <1>4, <1>5 DEF Frames

-----------------------------------------------------------------------------
(* The mask through the stack.                                             *)

\* The first n frames of s and t let the same lines in.
SameMasks(s, t, n) ==
  \A i \in 1 .. n : t[i].old = s[i].old /\ (s[i].old # <<>> => t[i].id = s[i].id)

LEMMA MaskSame ==
  ASSUME NEW s, NEW t, NEW n \in Nat, SameMasks(s, t, n), NEW m, MaskAt(s, n, m)
  PROVE  MaskAt(t, n, m)
<1>1. CASE m = Id /\ \A i \in 1 .. n : s[i].old = <<>>
  BY <1>1 DEF MaskAt, SameMasks
<1>2. CASE \E i \in 1 .. n : /\ s[i].old # <<>> /\ m = 0 .. s[i].id - 1
                            /\ \A j \in i + 1 .. n : s[j].old = <<>>
  <2>1. PICK i \in 1 .. n : /\ s[i].old # <<>> /\ m = 0 .. s[i].id - 1
                           /\ \A j \in i + 1 .. n : s[j].old = <<>>
    BY <1>2
  <2>2. t[i].old # <<>> /\ m = 0 .. t[i].id - 1
    BY <2>1 DEF SameMasks
  <2>3. \A j \in i + 1 .. n : j \in 1 .. n
    OBVIOUS
  <2>4. \A j \in i + 1 .. n : t[j].old = <<>>
    BY <2>1, <2>3 DEF SameMasks
  <2> QED BY <2>2, <2>4 DEF MaskAt
<1> QED BY <1>1, <1>2 DEF MaskAt

\* A frame that lets nothing in does not change the mask.
LEMMA MaskShut ==
  ASSUME NEW s, NEW n \in Nat, s[n + 1].old = <<>>, NEW m
  PROVE  MaskAt(s, n + 1, m) <=> MaskAt(s, n, m)
<1>1. ASSUME MaskAt(s, n, m) PROVE MaskAt(s, n + 1, m)
  <2>1. CASE m = Id /\ \A i \in 1 .. n : s[i].old = <<>>
    <3>1. \A i \in 1 .. n + 1 : i \in 1 .. n \/ i = n + 1
      OBVIOUS
    <3> QED BY <2>1, <3>1 DEF MaskAt
  <2>2. CASE \E i \in 1 .. n : /\ s[i].old # <<>> /\ m = 0 .. s[i].id - 1
                              /\ \A j \in i + 1 .. n : s[j].old = <<>>
    <3>1. PICK i \in 1 .. n : /\ s[i].old # <<>> /\ m = 0 .. s[i].id - 1
                             /\ \A j \in i + 1 .. n : s[j].old = <<>>
      BY <2>2
    <3>2. i \in 1 .. n + 1 /\ \A j \in i + 1 .. n + 1 : j \in i + 1 .. n \/ j = n + 1
      OBVIOUS
    <3> QED BY <3>1, <3>2 DEF MaskAt
  <2> QED BY <1>1, <2>1, <2>2 DEF MaskAt
<1>2. ASSUME MaskAt(s, n + 1, m) PROVE MaskAt(s, n, m)
  <2>1. CASE m = Id /\ \A i \in 1 .. n + 1 : s[i].old = <<>>
    <3>1. \A i \in 1 .. n : i \in 1 .. n + 1
      OBVIOUS
    <3> QED BY <2>1, <3>1 DEF MaskAt
  <2>2. CASE \E i \in 1 .. n + 1 : /\ s[i].old # <<>> /\ m = 0 .. s[i].id - 1
                                  /\ \A j \in i + 1 .. n + 1 : s[j].old = <<>>
    <3>1. PICK i \in 1 .. n + 1 : /\ s[i].old # <<>> /\ m = 0 .. s[i].id - 1
                                 /\ \A j \in i + 1 .. n + 1 : s[j].old = <<>>
      BY <2>2
    <3>2. i # n + 1
      BY <3>1
    <3>3. i \in 1 .. n /\ \A j \in i + 1 .. n : j \in i + 1 .. n + 1
      BY <3>2
    <3> QED BY <3>1, <3>3 DEF MaskAt
  <2> QED BY <1>2, <2>1, <2>2 DEF MaskAt
<1> QED BY <1>1, <1>2

\* A frame that lets lines in sets it.
LEMMA MaskOpen ==
  ASSUME NEW s, NEW n \in Nat \ {0}, s[n].old # <<>>
  PROVE  MaskAt(s, n, 0 .. s[n].id - 1)
<1>1. n \in 1 .. n /\ \A j \in n + 1 .. n : FALSE
  OBVIOUS
<1> QED BY <1>1 DEF MaskAt

LEMMA MasksKept ==
  ASSUME NEW s, NEW t, NEW m, Len(s) \in Nat, Len(t) = Len(s),
         SameMasks(s, t, Len(s)), Masks(s, m)
  PROVE  Masks(t, m)
<1>1. MaskAt(t, Len(t), m)
  BY MaskSame DEF Masks
<1>2. ASSUME NEW i \in 1 .. Len(t), t[i].old # <<>> PROVE MaskAt(t, i - 1, t[i].old[1])
  <2>1. i - 1 \in Nat /\ i \in 1 .. Len(s) /\ \A k \in 1 .. i - 1 : k \in 1 .. Len(s)
    OBVIOUS
  <2>2. SameMasks(s, t, i - 1) /\ t[i].old = s[i].old
    BY <2>1 DEF SameMasks
  <2>3. MaskAt(s, i - 1, s[i].old[1])
    BY <1>2, <2>1, <2>2 DEF Masks
  <2> QED BY <2>1, <2>2, <2>3, MaskSame
<1> QED BY <1>1, <1>2 DEF Masks

LEMMA MasksEnter ==
  ASSUME NEW s, NEW t, NEW m, Len(s) \in Nat, OneMore(s, t),
         t[Len(t)].old = <<>>, Masks(s, m)
  PROVE  Masks(t, m)
<1>1. Len(t) = Len(s) + 1
  BY DEF OneMore
<1>2. SameMasks(s, t, Len(s))
  BY DEF OneMore, SameMasks
<1>3. MaskAt(t, Len(s), m)
  BY <1>2, MaskSame DEF Masks
<1>4. MaskAt(t, Len(t), m)
  BY <1>1, <1>3, MaskShut
<1>5. ASSUME NEW i \in 1 .. Len(t), t[i].old # <<>> PROVE MaskAt(t, i - 1, t[i].old[1])
  <2>1. i # Len(t)
    BY <1>5
  <2>2. i - 1 \in Nat /\ i \in 1 .. Len(s) /\ \A k \in 1 .. i - 1 : k \in 1 .. Len(s)
    BY <1>1, <2>1
  <2>3. SameMasks(s, t, i - 1) /\ t[i].old = s[i].old
    BY <1>2, <2>2 DEF SameMasks
  <2>4. MaskAt(s, i - 1, s[i].old[1])
    BY <1>5, <2>2, <2>3 DEF Masks
  <2> QED BY <2>2, <2>3, <2>4, MaskSame
<1> QED BY <1>4, <1>5 DEF Masks

LEMMA MasksLeave ==
  ASSUME NEW s, NEW t, NEW m, Len(t) \in Nat, OneMore(t, s),
         s[Len(s)].old = <<>>, Masks(s, m)
  PROVE  Masks(t, m)
<1>1. Len(s) = Len(t) + 1
  BY DEF OneMore
<1>2. SameMasks(s, t, Len(t))
  BY DEF OneMore, SameMasks
<1>3. MaskAt(s, Len(t), m)
  BY <1>1, MaskShut DEF Masks
<1>4. MaskAt(t, Len(t), m)
  BY <1>2, <1>3, MaskSame
<1>5. ASSUME NEW i \in 1 .. Len(t), t[i].old # <<>> PROVE MaskAt(t, i - 1, t[i].old[1])
  <2>1. i - 1 \in Nat /\ i \in 1 .. Len(s) /\ \A k \in 1 .. i - 1 : k \in 1 .. Len(t)
    BY <1>1
  <2>2. SameMasks(s, t, i - 1) /\ t[i].old = s[i].old
    BY <1>2, <2>1 DEF SameMasks
  <2>3. MaskAt(s, i - 1, s[i].old[1])
    BY <1>5, <2>1, <2>2 DEF Masks
  <2> QED BY <2>1, <2>2, <2>3, MaskSame
<1> QED BY <1>4, <1>5 DEF Masks

(* alt_irq_interruptible and alt_irq_non_interruptible.                    *)
LEMMA MasksOpens ==
  ASSUME NEW s, NEW t, NEW m, Len(s) \in Nat \ {0}, SameBelow(s, t),
         s[Len(s)].old = <<>>, t[Len(t)].old = <<m>>, Masks(s, m)
  PROVE  Masks(t, 0 .. t[Len(t)].id - 1)
<1> DEFINE n == Len(s) - 1
<1>1. n \in Nat /\ Len(s) = n + 1 /\ Len(t) = n + 1 /\ <<m>> # <<>> /\ <<m>>[1] = m
  BY DEF SameBelow
<1>2. SameMasks(s, t, n)
  BY DEF SameBelow, SameMasks
<1>3. MaskAt(t, Len(t), 0 .. t[Len(t)].id - 1)
  BY <1>1, MaskOpen
<1>4. MaskAt(t, n, m)
  <2>1. MaskAt(s, n + 1, m)
    BY <1>1 DEF Masks
  <2> HIDE DEF n
  <2>2. MaskAt(s, n, m)
    BY <1>1, <2>1, MaskShut
  <2> QED BY <1>1, <1>2, <2>2, MaskSame
<1> HIDE DEF n
<1>5. ASSUME NEW i \in 1 .. Len(t), t[i].old # <<>> PROVE MaskAt(t, i - 1, t[i].old[1])
  <2>1. CASE i = Len(t)
    <3>1. i - 1 = n /\ t[i].old[1] = m
      BY <1>1, <2>1
    <3> QED BY <1>4, <3>1
  <2>2. CASE i # Len(t)
    <3>1. i - 1 \in Nat /\ i \in 1 .. n /\ i \in 1 .. Len(s) /\ \A k \in 1 .. i - 1 : k \in 1 .. n
      BY <1>1, <2>2
    <3>2. SameMasks(s, t, i - 1) /\ t[i].old = s[i].old
      BY <1>2, <3>1 DEF SameMasks
    <3>3. MaskAt(s, i - 1, s[i].old[1])
      BY <1>5, <3>1, <3>2 DEF Masks
    <3> QED BY <3>1, <3>2, <3>3, MaskSame
  <2> QED BY <2>1, <2>2
<1> QED BY <1>3, <1>5 DEF Masks

LEMMA MasksCloses ==
  ASSUME NEW s, NEW t, NEW m, Len(s) \in Nat \ {0}, SameBelow(s, t),
         s[Len(s)].old # <<>>, t[Len(t)].old = <<>>, Masks(s, m)
  PROVE  Masks(t, s[Len(s)].old[1])
<1> DEFINE n == Len(s) - 1
           k == s[Len(s)].old[1]
<1>1. n \in Nat /\ Len(s) = n + 1 /\ Len(t) = n + 1
  BY DEF SameBelow
<1>2. SameMasks(s, t, n)
  BY DEF SameBelow, SameMasks
<1>3. MaskAt(s, n, k)
  BY <1>1 DEF Masks
<1> HIDE DEF n, k
<1>4. MaskAt(t, n, k)
  BY <1>1, <1>2, <1>3, MaskSame
<1>5. MaskAt(t, n + 1, k)
  BY <1>1, <1>4, MaskShut
<1>6. ASSUME NEW i \in 1 .. Len(t), t[i].old # <<>> PROVE MaskAt(t, i - 1, t[i].old[1])
  <2>1. i # Len(t)
    BY <1>6
  <2>2. i - 1 \in Nat /\ i \in 1 .. n /\ i \in 1 .. Len(s) /\ \A j \in 1 .. i - 1 : j \in 1 .. n
    BY <1>1, <2>1
  <2>3. SameMasks(s, t, i - 1) /\ t[i].old = s[i].old
    BY <1>2, <2>2 DEF SameMasks
  <2>4. MaskAt(s, i - 1, s[i].old[1])
    BY <1>6, <2>2, <2>3 DEF Masks
  <2> QED BY <2>2, <2>3, <2>4, MaskSame
<1>7. MaskAt(t, Len(t), k)
  BY <1>1, <1>5
<1> QED BY <1>6, <1>7 DEF Masks, k

-----------------------------------------------------------------------------
(* The handlers under way.                                                 *)

LEMMA PrioritiesKept ==
  ASSUME NEW s, NEW t, Priorities(s), Len(s) \in Nat, Len(t) \in Nat,
         \A i \in 1 .. Len(t) : t[i].mode = "isr" =>
            i <= Len(s) /\ s[i].mode = "isr" /\ s[i].id = t[i].id
  PROVE  Priorities(t)
<1>1. ASSUME NEW i \in 1 .. Len(t), NEW j \in 1 .. Len(t), i < j,
             t[i].mode = "isr", t[j].mode = "isr"
      PROVE  t[j].id < t[i].id
  <2>1. /\ i \in 1 .. Len(s) /\ j \in 1 .. Len(s)
        /\ s[i].mode = "isr" /\ s[j].mode = "isr" /\ s[i].id = t[i].id /\ s[j].id = t[j].id
    BY <1>1
  <2> QED BY <1>1, <2>1 DEF Priorities
<1> QED BY <1>1 DEF Priorities

(* A handler that is let in is more urgent than all that wait.             *)
LEMMA PrioritiesDispatch ==
  ASSUME NEW s, NEW t, NEW m, Frames(s), Masks(s, m), Priorities(s), SameBelow(s, t),
         s[Len(s)].mode = "poll", t[Len(t)].id \in m
  PROVE  Priorities(t)
<1> DEFINE n == Len(s) - 1
           id == t[Len(t)].id
<1>1. Len(s) \in Nat /\ Len(s) > 0 /\ Len(t) = Len(s)
  BY DEF Frames, SameBelow
<1>2. Len(s) # 1
  <2>1. Len(s) \in 1 .. Len(s) /\ s[Len(s)].mode \notin {"boot", "user"}
    BY <1>1
  <2> QED BY <2>1 DEF Frames
<1>3. n \in 1 .. Len(s) /\ n \in 1 .. Len(s) - 1 /\ Len(s) \in 2 .. Len(s) /\ n + 1 = Len(s)
  BY <1>1, <1>2
<1>4. Pie(s[n])
  <2>1. s[Len(s)].est
    BY <1>3 DEF Frames
  <2> QED BY <1>3, <2>1 DEF Frames
<1>5. s[Len(s)].old = <<>>
  BY <1>1 DEF Frames, FrameOK
<1>6. MaskAt(s, n, m)
  <2>1. MaskAt(s, n + 1, m) /\ s[n + 1].old = <<>> /\ n \in Nat
    BY <1>3, <1>5 DEF Masks
  <2> HIDE DEF n
  <2> QED BY <2>1, MaskShut
<1> HIDE DEF n
<1>7. s[n].mode = "isr" => id < s[n].id
  <2> SUFFICES ASSUME s[n].mode = "isr" PROVE id < s[n].id
    OBVIOUS
  <2>1. s[n].old # <<>>
    BY <1>4 DEF Pie, LetsIn
  <2>2. ~\A i \in 1 .. n : s[i].old = <<>>
    BY <1>3, <2>1
  <2>3. PICK i \in 1 .. n : /\ s[i].old # <<>> /\ m = 0 .. s[i].id - 1
                           /\ \A j \in i + 1 .. n : s[j].old = <<>>
    BY <1>6, <2>2 DEF MaskAt
  <2>4. i = n
    <3>1. i < n => n \in i + 1 .. n
      BY <1>3
    <3> QED BY <1>3, <2>1, <2>3, <3>1
  <2>5. s[n].id \in Nat
    BY <1>3, FrameIs DEF Frames, FrameOK
  <2> QED BY <2>3, <2>4, <2>5
<1>8. ASSUME NEW i \in 1 .. n, s[i].mode = "isr" PROVE id < s[i].id
  <2>1. i \in 1 .. Len(s) /\ s[i].id \in Nat /\ s[n].id \in Nat
    <3>1. i \in 1 .. Len(s)
      BY <1>3
    <3> QED BY <1>3, <3>1, FrameIs DEF Frames, FrameOK
  <2>2. CASE i = n
    BY <1>7, <1>8, <2>2
  <2>3. CASE i # n
    <3>1. i < n
      BY <1>3, <2>3
    <3>2. n # 1
      BY <3>1, <1>3
    <3>3. s[n].mode = "isr"
      <4>1. Runs(s[n]) /\ s[n].mode \notin {"boot", "user"}
        BY <1>3, <3>2 DEF Frames
      <4> QED BY <4>1 DEF Runs
    <3>4. s[n].id < s[i].id
      BY <1>3, <1>8, <2>1, <3>1, <3>3 DEF Priorities
    <3>5. id \in Nat
      <4>1. m \subseteq Nat
        <5>1. CASE m = Id
          BY <5>1, IdIs
        <5>2. CASE m # Id
          <6>1. PICK k \in 1 .. n : m = 0 .. s[k].id - 1
            BY <1>6, <5>2 DEF MaskAt
          <6>2. k \in 1 .. Len(s)
            BY <1>3
          <6>3. s[k].id \in Nat
            BY <6>2, FrameIs DEF Frames, FrameOK
          <6> QED BY <6>1, <6>3
        <5> QED BY <5>1, <5>2
      <4> QED BY <4>1
    <3> HIDE DEF id
    <3> QED BY <1>7, <2>1, <3>3, <3>4, <3>5
  <2> QED BY <2>2, <2>3
<1>9. ASSUME NEW i \in 1 .. Len(t), NEW j \in 1 .. Len(t), i < j,
             t[i].mode = "isr", t[j].mode = "isr"
      PROVE  t[j].id < t[i].id
  <2>1. i \in 1 .. n /\ i \in 1 .. Len(s) /\ i \in 1 .. Len(s) - 1 /\ t[i] = s[i]
    BY <1>1, <1>3, <1>9 DEF SameBelow
  <2>2. CASE j = Len(t)
    BY <1>8, <1>9, <2>1, <2>2
  <2>3. CASE j # Len(t)
    <3>1. j \in 1 .. Len(s) /\ t[j] = s[j]
      BY <1>1, <2>3 DEF SameBelow
    <3> QED BY <1>9, <2>1, <3>1 DEF Priorities
  <2> QED BY <2>2, <2>3
<1> QED BY <1>9 DEF Priorities

-----------------------------------------------------------------------------
(* The frame that runs.                                                    *)

LEMMA TopIs ==
  ASSUME IInv
  PROVE  /\ Len(stack) \in Nat \ {0} /\ stack \in Seq(FrameSet)
         /\ Top \in FrameSet /\ FrameOK(Top)
         /\ Top.mode \in {"boot", "user"} <=> Len(stack) = 1
         /\ Top.mode \in {"poll", "isr"} => Top.est
         /\ PIE \in BOOLEAN /\ (PIE <=> Pie(Top))
<1>1. Len(stack) \in Nat \ {0} /\ stack \in Seq(FrameSet)
  BY DEF IInv, Frames
<1>2. Len(stack) \in 1 .. Len(stack)
  BY <1>1
<1>3. FrameOK(Top) /\ (Top.mode \in {"boot", "user"} <=> Len(stack) = 1)
  BY <1>2 DEF IInv, Frames, Top
<1>4. Top.mode \in {"poll", "isr"} => Top.est
  <2>1. CASE Len(stack) = 1
    BY <1>3, <2>1
  <2>2. CASE Len(stack) # 1
    <3>1. Len(stack) \in 2 .. Len(stack)
      <4>1. \A n \in Nat \ {0} : n # 1 => n \in 2 .. n
        OBVIOUS
      <4> QED BY <1>1, <2>2, <4>1
    <3> QED BY <3>1 DEF IInv, Frames, Top
  <2> QED BY <2>1, <2>2
<1>5. PIE \in BOOLEAN /\ (PIE <=> Pie(Top))
  BY DEF IInv, TypeOK, PieExact, Pie, Runs, LetsIn, Code
<1> QED BY <1>1, <1>3, <1>4, <1>5 DEF FrameOK

LEMMA TopChange ==
  ASSUME IInv, NEW f, FrameOK(f), SetTop(f), f.est <=> Top.est,
         f.mode \in {"boot", "user"} <=> Top.mode \in {"boot", "user"},
         f.mode \in {"poll", "isr"} => f.est
  PROVE  Frames(stack') /\ SameBelow(stack, stack') /\ Top' = f /\ Len(stack') = Len(stack)
<1>1. f \in FrameSet /\ stack \in Seq(FrameSet) /\ Len(stack) > 0
  BY TopIs DEF FrameOK
<1>2. /\ stack' \in Seq(FrameSet) /\ SameBelow(stack, stack')
      /\ stack'[Len(stack')] = f
  BY <1>1, SetLast DEF SetTop
<1>3. Frames(stack)
  BY DEF IInv
<1>4. Frames(stack')
  BY <1>2, <1>3, SetLastFrames DEF Top
<1> QED BY <1>2, <1>4 DEF Top, SameBelow

(* A call changes neither which handler runs nor what it lets in.          *)
Same(f, g) == f.mode = g.mode /\ f.id = g.id /\ f.old = g.old /\ f.est = g.est

LEMMA CallStep ==
  ASSUME IInv, NEW f, FrameOK(f), SetTop(f), Same(f, Top), Code,
         alt_priority_mask' = alt_priority_mask
  PROVE  /\ Frames(stack') /\ Masks(stack, alt_priority_mask)' /\ Priorities(stack)'
         /\ ModeOK' /\ Top' = f
<1>1. Frames(stack') /\ SameBelow(stack, stack') /\ Top' = f /\ Len(stack') = Len(stack)
  BY TopIs, TopChange DEF Same
<1>2. Len(stack) \in Nat \ {0}
  BY TopIs
<1>3. ASSUME NEW i \in 1 .. Len(stack)
      PROVE  /\ stack'[i].old = stack[i].old /\ stack'[i].id = stack[i].id
             /\ stack'[i].mode = stack[i].mode
  <2>1. CASE i = Len(stack)
    BY <1>1, <2>1 DEF Same, Top
  <2>2. CASE i # Len(stack)
    <3>1. i \in 1 .. Len(stack) - 1
      BY <1>2, <2>2
    <3> QED BY <1>1, <3>1 DEF SameBelow
  <2> QED BY <2>1, <2>2
<1>4. SameMasks(stack, stack', Len(stack))
  BY <1>3 DEF SameMasks
<1>5. Masks(stack', alt_priority_mask')
  BY <1>1, <1>2, <1>4, MasksKept DEF IInv
<1>6. Priorities(stack')
  <2>1. Priorities(stack)
    BY DEF IInv
  <2>2. \A i \in 1 .. Len(stack') : stack'[i].mode = "isr" =>
           i <= Len(stack) /\ stack[i].mode = "isr" /\ stack[i].id = stack'[i].id
    BY <1>1, <1>2, <1>3
  <2> QED BY <1>1, <1>2, <2>1, <2>2, PrioritiesKept
<1>7. ModeOK'
  BY <1>1 DEF ModeOK, Same, Code
<1> QED BY <1>1, <1>5, <1>6, <1>7

LEMMA WithContext ==
  ASSUME NEW f \in FrameSet, NEW c \in Seq(BOOLEAN)
  PROVE  LET g == [f EXCEPT !.context = c]
         IN  /\ g \in FrameSet /\ Same(g, f) /\ g.context = c
             /\ g.op = f.op /\ g.reg = f.reg /\ g.on = f.on /\ g.fault = f.fault
BY DEF FrameSet, Same

(* The frame while a critical section is entered.                          *)
LEMMA PushFrame ==
  ASSUME NEW f \in FrameSet, FrameOK(f), Runs(f), NEW b \in BOOLEAN, b <=> Pie(f),
         NEW g \in FrameSet, Same(g, f), g.context = <<b>> \o f.context,
         g.fault = "none" \/ g.op = "none"
  PROVE  FrameOK(g) /\ ~Pie(g)
<1>1. f.context \in Seq(BOOLEAN) /\ LetsIn(f) \in BOOLEAN /\ Nested(f.context, LetsIn(f))
  BY FrameIs DEF FrameOK, LetsIn
<1>2. b <=> (f.context = <<>> /\ LetsIn(f))
  BY DEF Pie
<1>3. g.context # <<>> /\ Nested(g.context, LetsIn(f))
  BY <1>1, <1>2, Push
<1>4. LetsIn(g) = LetsIn(f) /\ Runs(g)
  BY DEF LetsIn, Same, Runs
<1>5. g.old # <<>> => g.mode = "isr"
  BY DEF FrameOK, Same
<1> QED BY <1>3, <1>4, <1>5 DEF FrameOK, Pie

(* The frame when one is left.                                             *)
LEMMA PopFrame ==
  ASSUME NEW f \in FrameSet, FrameOK(f), f.context # <<>>,
         NEW g \in FrameSet, Same(g, f), g.context = Tail(f.context), g.op = "none"
  PROVE  FrameOK(g) /\ Head(f.context) \in BOOLEAN /\ (Head(f.context) <=> Pie(g))
<1>1. f.context \in Seq(BOOLEAN) /\ LetsIn(f) \in BOOLEAN /\ Nested(f.context, LetsIn(f))
  BY FrameIs DEF FrameOK, LetsIn
<1>2. /\ Nested(g.context, LetsIn(f)) /\ Head(f.context) \in BOOLEAN
      /\ Head(f.context) <=> (g.context = <<>> /\ LetsIn(f))
  BY <1>1, Pop
<1>3. LetsIn(g) = LetsIn(f) /\ Runs(g)
  BY DEF LetsIn, Same, Runs, FrameOK
<1>4. g.old # <<>> => g.mode = "isr"
  BY DEF FrameOK, Same
<1> QED BY <1>2, <1>3, <1>4 DEF FrameOK, Pie

-----------------------------------------------------------------------------
(* Each action keeps the invariant.                                        *)

LEMMA DisableStep == ASSUME IInv, Disable_all PROVE IInv'
<1> DEFINE f == [Top EXCEPT !.context = <<PIE>> \o Top.context]
<1>1. /\ SetTop(f) /\ PIE' = FALSE /\ Code /\ Top.op = "none" /\ Top.fault = "none"
      /\ UNCHANGED <<IENABLE, EXCEPTION, enabled, tables, world>>
  BY DEF Disable_all, alt_irq_disable_all, Free
<1>2. /\ Top \in FrameSet /\ FrameOK(Top) /\ PIE \in BOOLEAN /\ (PIE <=> Pie(Top))
      /\ Runs(Top) /\ Top.context \in Seq(BOOLEAN)
  BY <1>1, TopIs, FrameIs DEF Code, Runs
<1>3. /\ f \in FrameSet /\ Same(f, Top) /\ f.context = <<PIE>> \o Top.context
      /\ f.op = Top.op /\ f.fault = Top.fault
  <2>1. <<PIE>> \o Top.context \in Seq(BOOLEAN)
    BY <1>2
  <2> QED BY <1>2, <2>1, WithContext
<1> HIDE DEF f
<1>4. FrameOK(f) /\ ~Pie(f)
  BY <1>1, <1>2, <1>3, PushFrame
<1>5. /\ Frames(stack') /\ Masks(stack, alt_priority_mask)' /\ Priorities(stack)'
      /\ ModeOK' /\ Top' = f
  BY <1>1, <1>3, <1>4, CallStep DEF enabled
<1>6. PieExact'
  BY <1>1, <1>4, <1>5 DEF PieExact, Pie, Runs, LetsIn, Code
<1>7. TypeOK' /\ ReportsEnabled'
  BY <1>1, <1>5 DEF IInv, TypeOK, ReportsEnabled, alt_ic_irq_enabled, enabled, tables, world, Frames
<1>8. Registers'
  BY <1>1, <1>3, <1>5 DEF IInv, Registers, enabled, tables
<1> QED BY <1>5, <1>6, <1>7, <1>8 DEF IInv

LEMMA EnableStep == ASSUME IInv, Enable_all PROVE IInv'
<1> DEFINE f == [Top EXCEPT !.context = Tail(Top.context)]
<1>1. /\ SetTop(f) /\ PIE' = Head(Top.context) /\ Code /\ Top.op = "none"
      /\ Top.context # <<>>
      /\ UNCHANGED <<IENABLE, EXCEPTION, enabled, tables, world>>
  BY DEF Enable_all, alt_irq_enable_all, Free
<1>2. Top \in FrameSet /\ FrameOK(Top) /\ Top.context \in Seq(BOOLEAN)
  BY TopIs, FrameIs
<1>3. /\ f \in FrameSet /\ Same(f, Top) /\ f.context = Tail(Top.context) /\ f.op = Top.op
  BY <1>1, <1>2 DEF FrameSet, Same
<1> HIDE DEF f
<1>4. FrameOK(f) /\ PIE' \in BOOLEAN /\ (PIE' <=> Pie(f))
  BY <1>1, <1>2, <1>3, PopFrame
<1>5. /\ Frames(stack') /\ Masks(stack, alt_priority_mask)' /\ Priorities(stack)'
      /\ ModeOK' /\ Top' = f
  BY <1>1, <1>3, <1>4, CallStep DEF enabled
<1>6. PieExact'
  BY <1>4, <1>5 DEF PieExact, Pie, Runs, LetsIn, Code
<1>7. TypeOK' /\ ReportsEnabled'
  BY <1>1, <1>4, <1>5 DEF IInv, TypeOK, ReportsEnabled, alt_ic_irq_enabled, enabled, tables, world, Frames
<1>8. Registers'
  BY <1>1, <1>3, <1>5 DEF IInv, Registers, enabled, tables
<1> QED BY <1>5, <1>6, <1>7, <1>8 DEF IInv

(* A registration starts where every line is let through.                  *)
LEMMA ChangeStep ==
  ASSUME IInv, ~Anywhere, NEW id \in Id, NEW on \in BOOLEAN, NEW op \in {"table", "line"},
         op = "line" /\ on => id \in alt_irq, Change(op, id, on)
  PROVE  IInv'
<1> DEFINE e == [Top EXCEPT !.op = op, !.reg = id, !.on = on]
           f == [e EXCEPT !.context = <<PIE>> \o e.context]
<1>1. /\ SetTop(f) /\ PIE' = FALSE /\ Code /\ Top.op = "none" /\ Top.fault = "none"
      /\ alt_priority_mask = Id
      /\ UNCHANGED <<IENABLE, EXCEPTION, enabled, tables, world>>
  BY DEF Change, alt_irq_disable_all, Free
<1>2. /\ Top \in FrameSet /\ FrameOK(Top) /\ PIE \in BOOLEAN /\ (PIE <=> Pie(Top))
      /\ Runs(Top) /\ Top.context \in Seq(BOOLEAN)
  BY <1>1, TopIs, FrameIs DEF Code, Runs
<1>3. /\ f \in FrameSet /\ Same(f, Top) /\ f.context = <<PIE>> \o Top.context
      /\ f.op = op /\ f.reg = id /\ f.on = on /\ f.fault = Top.fault
  <2>1. /\ e \in FrameSet /\ Same(e, Top) /\ e.context = Top.context
        /\ e.op = op /\ e.reg = id /\ e.on = on /\ e.fault = Top.fault
    BY <1>2 DEF FrameSet, Same
  <2> HIDE DEF e
  <2>2. <<PIE>> \o e.context \in Seq(BOOLEAN)
    BY <1>2, <2>1
  <2>3. f \in FrameSet /\ Same(f, e) /\ f.context = <<PIE>> \o e.context
        /\ f.op = e.op /\ f.reg = e.reg /\ f.on = e.on /\ f.fault = e.fault
    BY <2>1, <2>2, WithContext
  <2> QED BY <2>1, <2>3 DEF Same
<1> HIDE DEF f
<1>4. FrameOK(f) /\ ~Pie(f)
  BY <1>1, <1>2, <1>3, PushFrame
<1>5. /\ Frames(stack') /\ Masks(stack, alt_priority_mask)' /\ Priorities(stack)'
      /\ ModeOK' /\ Top' = f
  BY <1>1, <1>3, <1>4, CallStep DEF enabled
<1>6. PieExact'
  BY <1>1, <1>4, <1>5 DEF PieExact, Pie, Runs, LetsIn, Code
<1>7. TypeOK' /\ ReportsEnabled'
  BY <1>1, <1>5 DEF IInv, TypeOK, ReportsEnabled, alt_ic_irq_enabled, enabled, tables, world, Frames
<1>8. Registers'
  BY <1>1, <1>3, <1>5 DEF IInv, Registers, enabled, tables
<1> QED BY <1>5, <1>6, <1>7, <1>8 DEF IInv

(* Set_table: the table first.  A handler that goes leaves its line as the *)
(* one that Set_line is about to disable.                                  *)
LEMMA SetTableStep == ASSUME IInv, Set_table PROVE IInv'
<1> DEFINE f == [Top EXCEPT !.op = "line"]
<1>1. /\ SetTop(f) /\ Code /\ Top.op = "table"
      /\ alt_irq' = IF Top.on THEN alt_irq \union {Top.reg} ELSE alt_irq \ {Top.reg}
      /\ UNCHANGED <<ctl, EXCEPTION, enabled, alt_instruction_exception_handler, world>>
  BY DEF Set_table
<1>2. Top \in FrameSet /\ FrameOK(Top) /\ (PIE <=> Pie(Top)) /\ Top.reg \in Id
  BY TopIs, FrameIs
<1>3. /\ f \in FrameSet /\ Same(f, Top) /\ f.context = Top.context
      /\ f.op = "line" /\ f.reg = Top.reg /\ f.on = Top.on /\ f.fault = Top.fault
  BY <1>2 DEF FrameSet, Same
<1> HIDE DEF f
<1>4. FrameOK(f) /\ (Pie(f) <=> Pie(Top))
  BY <1>1, <1>2, <1>3 DEF FrameOK, Same, LetsIn, Pie, Runs
<1>5. /\ Frames(stack') /\ Masks(stack, alt_priority_mask)' /\ Priorities(stack)'
      /\ ModeOK' /\ Top' = f
  BY <1>1, <1>3, <1>4, CallStep DEF enabled, ctl
<1>6. PieExact'
  BY <1>1, <1>2, <1>4, <1>5 DEF PieExact, Pie, Runs, LetsIn, Code, ctl
<1>7. TypeOK' /\ ReportsEnabled'
  BY <1>1, <1>2, <1>5 DEF IInv, TypeOK, ReportsEnabled, alt_ic_irq_enabled, enabled, world, Frames, ctl
<1>8. Registers'
  <2>1. alt_irq_active \subseteq alt_irq /\ alt_priority_mask = Id
    BY <1>1 DEF IInv, Registers
  <2> QED BY <1>1, <1>3, <1>5, <2>1 DEF Registers, enabled
<1> QED BY <1>5, <1>6, <1>7, <1>8 DEF IInv

(* Set_line: the line next, and the critical section ends.                 *)
LEMMA SetLineStep == ASSUME IInv, Set_line PROVE IInv'
<1> DEFINE e == [Top EXCEPT !.op = "none", !.reg = 0, !.on = FALSE]
           f == [e EXCEPT !.context = Tail(e.context)]
<1>1. /\ SetTop(f) /\ PIE' = Head(e.context) /\ Code /\ Top.op = "line"
      /\ alt_irq_active' = IF Top.on THEN alt_irq_active \union {Top.reg}
                           ELSE alt_irq_active \ {Top.reg}
      /\ IENABLE' = alt_irq_active'
      /\ UNCHANGED <<EXCEPTION, alt_priority_mask, tables, world>>
  BY DEF Set_line, alt_irq_enable_all, alt_irq_enable, alt_irq_disable
<1>2. /\ Top \in FrameSet /\ FrameOK(Top) /\ Top.context \in Seq(BOOLEAN)
      /\ Top.reg \in Id /\ Top.context # <<>>
  BY <1>1, TopIs, FrameIs DEF FrameOK
<1>3. /\ e \in FrameSet /\ Same(e, Top) /\ e.context = Top.context /\ e.op = "none"
      /\ e.fault = Top.fault
  BY <1>2, IdIs DEF FrameSet, Same
<1> HIDE DEF e
<1>4. f \in FrameSet /\ Same(f, Top) /\ f.context = Tail(Top.context) /\ f.op = "none"
  <2>0. \A c \in Seq(BOOLEAN) : c # <<>> => Tail(c) \in Seq(BOOLEAN)
    OBVIOUS
  <2>1. Tail(e.context) \in Seq(BOOLEAN)
    BY <1>2, <1>3, <2>0, Zenon
  <2>2. f \in FrameSet /\ Same(f, e) /\ f.context = Tail(e.context) /\ f.op = e.op
    BY <1>3, <2>1, WithContext
  <2> QED BY <1>3, <2>2 DEF Same
<1> HIDE DEF f
<1>5. FrameOK(f) /\ PIE' \in BOOLEAN /\ (PIE' <=> Pie(f))
  BY <1>1, <1>2, <1>3, <1>4, PopFrame
<1>6. /\ Frames(stack') /\ Masks(stack, alt_priority_mask)' /\ Priorities(stack)'
      /\ ModeOK' /\ Top' = f
  BY <1>1, <1>4, <1>5, CallStep
<1>7. PieExact'
  BY <1>5, <1>6 DEF PieExact, Pie, Runs, LetsIn, Code
<1>8. alt_priority_mask' = Id /\ alt_irq_active' \subseteq Id
  BY <1>1, <1>2 DEF IInv, Registers, TypeOK
<1>9. TypeOK' /\ ReportsEnabled'
  <2>1. Len(stack') > 0
    BY <1>6 DEF Frames
  <2> QED BY <1>1, <1>5, <1>8, <2>1 DEF IInv, TypeOK, ReportsEnabled, alt_ic_irq_enabled, tables, world
<1>10. Registers'
  <2>1. /\ Top.on => Top.reg \in alt_irq
        /\ alt_irq_active \subseteq alt_irq \union {Top.reg}
    BY <1>1 DEF IInv, Registers
  <2> QED BY <1>1, <1>4, <1>6, <2>1 DEF Registers, tables
<1> QED BY <1>6, <1>7, <1>9, <1>10 DEF IInv

LEMMA RegisterExceptionStep == ASSUME IInv, alt_instruction_exception_register PROVE IInv'
<1>1. UNCHANGED <<ctl, EXCEPTION, enabled, alt_irq, stack, world>>
  BY DEF alt_instruction_exception_register
<1> QED BY <1>1 DEF IInv, TypeOK, ReportsEnabled, alt_ic_irq_enabled, PieExact, Code, Registers, ModeOK,
              Top, IPENDING, ctl, enabled, world

(* The program starts: nothing is enabled yet.                             *)
LEMMA InitCallStep == ASSUME IInv, alt_irq_init PROVE IInv'
<1> DEFINE f == [Top EXCEPT !.mode = "user"]
<1>1. /\ SetTop(f) /\ Top.mode = "boot" /\ IENABLE' = {} /\ PIE' = TRUE
      /\ UNCHANGED <<EXCEPTION, enabled, tables, world>>
  BY DEF alt_irq_init
<1>2. Top \in FrameSet /\ FrameOK(Top) /\ Len(stack) = 1
  BY <1>1, TopIs
<1>3. /\ f \in FrameSet /\ f.mode = "user" /\ f.context = Top.context /\ f.old = Top.old
      /\ f.op = Top.op /\ f.est = Top.est
  BY <1>2 DEF FrameSet, Mode
<1>4. Top.context = <<>> /\ Top.op = "none" /\ Top.old = <<>>
  BY <1>1, <1>2 DEF FrameOK, Runs
<1> HIDE DEF f
<1>5. FrameOK(f) /\ Pie(f)
  <2>1. Nested(f.context, LetsIn(f))
    BY <1>3, <1>4 DEF Nested
  <2> QED BY <1>3, <1>4, <2>1 DEF FrameOK, Pie, Runs, LetsIn
<1>6. Frames(stack') /\ SameBelow(stack, stack') /\ Top' = f /\ Len(stack') = 1
  BY <1>1, <1>2, <1>3, <1>5, TopChange
<1>7. stack[1].old = <<>> /\ stack'[1] = f /\ stack[1].mode # "isr"
  BY <1>1, <1>2, <1>4, <1>6 DEF Top
<1>8. Masks(stack', alt_priority_mask')
  <2>1. SameMasks(stack, stack', Len(stack))
    BY <1>2, <1>3, <1>4, <1>7 DEF SameMasks
  <2>2. Masks(stack, alt_priority_mask) /\ alt_priority_mask' = alt_priority_mask
    BY <1>1 DEF IInv, enabled
  <2> QED BY <1>2, <1>6, <2>1, <2>2, MasksKept
<1>9. Priorities(stack')
  BY <1>3, <1>6, <1>7 DEF Priorities
<1>10. PieExact'
  BY <1>1, <1>5, <1>6 DEF PieExact, Pie, Runs, LetsIn, Code
<1>11. TypeOK' /\ ReportsEnabled'
  <2>1. IENABLE = {}
    BY <1>1 DEF IInv, ModeOK
  <2> QED BY <1>1, <1>6, <2>1 DEF IInv, TypeOK, ReportsEnabled, alt_ic_irq_enabled, enabled, tables, world
<1>12. Registers' /\ ModeOK'
  BY <1>1, <1>3, <1>4, <1>6 DEF IInv, Registers, ModeOK, enabled, tables
<1> QED BY <1>6, <1>8, <1>9, <1>10, <1>11, <1>12 DEF IInv

-----------------------------------------------------------------------------
(* A handler that lets lines in, and stops to.                             *)

LEMMA MaskIsLines == ASSUME NEW id \in Id PROVE 0 .. id - 1 \subseteq Id
BY IdIs DEF Id

LEMMA WithOld ==
  ASSUME NEW f \in FrameSet, NEW m \in Seq(SUBSET Id)
  PROVE  LET g == [f EXCEPT !.old = m] IN
           /\ g \in FrameSet /\ g.mode = f.mode /\ g.id = f.id /\ g.est = f.est
           /\ g.context = f.context /\ g.op = f.op /\ g.fault = f.fault /\ g.old = m
BY DEF FrameSet

LEMMA InterruptibleStep == ASSUME IInv, Interruptible PROVE IInv'
<1> DEFINE f == [Top EXCEPT !.old = <<alt_priority_mask>>]
<1>1. /\ SetTop(f) /\ PIE' = TRUE /\ Top.mode = "isr" /\ Top.op = "none" /\ Top.fault = "none"
      /\ Top.context = <<>> /\ Top.old = <<>>
      /\ alt_priority_mask' = 0 .. Top.id - 1
      /\ IENABLE' = alt_irq_active \intersect alt_priority_mask'
      /\ UNCHANGED <<EXCEPTION, alt_irq_active, tables, world>>
  BY DEF Interruptible, alt_irq_interruptible, Free
<1>2. /\ Top \in FrameSet /\ FrameOK(Top) /\ Top.id \in Id /\ Top.est
      /\ stack[Len(stack)].old = <<>> /\ Len(stack) \in Nat \ {0}
  BY <1>1, TopIs, FrameIs DEF Top
<1>3. <<alt_priority_mask>> \in Seq(SUBSET Id) /\ <<alt_priority_mask>> # <<>>
  BY DEF IInv, TypeOK
<1>4. /\ f \in FrameSet /\ f.mode = Top.mode /\ f.id = Top.id /\ f.est = Top.est
      /\ f.context = Top.context /\ f.op = Top.op /\ f.fault = Top.fault
      /\ f.old = <<alt_priority_mask>>
  BY <1>2, <1>3, WithOld
<1> HIDE DEF f
<1>5. FrameOK(f) /\ Pie(f)
  <2>1. Nested(f.context, LetsIn(f))
    BY <1>1, <1>4 DEF Nested
  <2> QED BY <1>1, <1>3, <1>4, <2>1 DEF FrameOK, Pie, Runs, LetsIn
<1>6. Frames(stack') /\ SameBelow(stack, stack') /\ Top' = f /\ Len(stack') = Len(stack)
  BY <1>1, <1>2, <1>4, <1>5, TopChange
<1>7. stack'[Len(stack')].old = <<alt_priority_mask>> /\ stack'[Len(stack')].id = Top.id
      /\ stack'[Len(stack')].mode = "isr"
  BY <1>1, <1>4, <1>6 DEF Top
<1>8. Masks(stack', alt_priority_mask')
  <2>1. Masks(stack, alt_priority_mask)
    BY DEF IInv
  <2>2. Masks(stack', 0 .. stack'[Len(stack')].id - 1)
    BY <1>2, <1>6, <1>7, <2>1, MasksOpens
  <2> QED BY <1>1, <1>7, <2>2
<1>9. Priorities(stack')
  <2>1. ASSUME NEW i \in 1 .. Len(stack'), stack'[i].mode = "isr"
        PROVE  i <= Len(stack) /\ stack[i].mode = "isr" /\ stack[i].id = stack'[i].id
    <3>1. CASE i = Len(stack)
      BY <1>1, <1>2, <1>6, <1>7, <3>1 DEF Top
    <3>2. CASE i # Len(stack)
      <4>1. i \in 1 .. Len(stack) - 1
        BY <1>2, <1>6, <3>2
      <4> QED BY <1>6, <2>1, <4>1 DEF SameBelow
    <3> QED BY <3>1, <3>2
  <2> QED BY <1>2, <1>6, <2>1, PrioritiesKept DEF IInv
<1>10. PieExact'
  BY <1>1, <1>5, <1>6 DEF PieExact, Pie, Runs, LetsIn, Code
<1>11. TypeOK' /\ ReportsEnabled'
  <2>1. 0 .. Top.id - 1 \subseteq Id /\ Len(stack') > 0
    BY <1>2, <1>6, MaskIsLines DEF Frames
  <2> QED BY <1>1, <2>1 DEF IInv, TypeOK, ReportsEnabled, alt_ic_irq_enabled, tables, world
<1>12. Registers' /\ ModeOK'
  BY <1>1, <1>4, <1>6 DEF IInv, Registers, ModeOK, tables
<1> QED BY <1>6, <1>8, <1>9, <1>10, <1>11, <1>12 DEF IInv

LEMMA NonInterruptibleStep == ASSUME IInv, Non_interruptible PROVE IInv'
<1> DEFINE f == [Top EXCEPT !.old = <<>>]
<1>1. /\ SetTop(f) /\ PIE' = FALSE /\ Top.op = "none"
      /\ Top.context = <<>> /\ Top.old # <<>>
      /\ alt_priority_mask' = Top.old[1]
      /\ IENABLE' = Top.old[1] \intersect alt_irq_active
      /\ UNCHANGED <<EXCEPTION, alt_irq_active, tables, world>>
  BY DEF Non_interruptible, alt_irq_non_interruptible, Free
<1>2. /\ Top \in FrameSet /\ FrameOK(Top) /\ Top.mode = "isr" /\ Top.est
      /\ Top.old \in Seq(SUBSET Id) /\ stack[Len(stack)].old = Top.old
      /\ Len(stack) \in Nat \ {0}
  BY <1>1, TopIs, FrameIs DEF Top, FrameOK
<1>3. Top.old[1] \subseteq Id
  <2>1. \A s \in Seq(SUBSET Id) : s # <<>> => s[1] \in SUBSET Id
    OBVIOUS
  <2>2. Top.old[1] \in SUBSET Id
    BY <1>1, <1>2, <2>1
  <2> QED BY <2>2
<1>4. /\ f \in FrameSet /\ f.mode = Top.mode /\ f.id = Top.id /\ f.est = Top.est
      /\ f.context = Top.context /\ f.op = Top.op /\ f.fault = Top.fault /\ f.old = <<>>
  <2>1. <<>> \in Seq(SUBSET Id)
    OBVIOUS
  <2> QED BY <1>2, <2>1, WithOld
<1> HIDE DEF f
<1>5. FrameOK(f) /\ ~Pie(f)
  <2>1. Nested(f.context, LetsIn(f))
    BY <1>1, <1>4 DEF Nested
  <2> QED BY <1>1, <1>2, <1>4, <2>1 DEF FrameOK, Pie, Runs, LetsIn
<1>6. Frames(stack') /\ SameBelow(stack, stack') /\ Top' = f /\ Len(stack') = Len(stack)
  BY <1>1, <1>2, <1>4, <1>5, TopChange
<1>7. stack'[Len(stack')].old = <<>> /\ stack'[Len(stack')].id = Top.id
      /\ stack'[Len(stack')].mode = "isr"
  BY <1>2, <1>4, <1>6 DEF Top
<1>8. Masks(stack', alt_priority_mask')
  <2>1. Masks(stack, alt_priority_mask) /\ stack[Len(stack)].old # <<>>
    BY <1>1, <1>2 DEF IInv
  <2>2. Masks(stack', stack[Len(stack)].old[1])
    BY <1>2, <1>6, <1>7, <2>1, MasksCloses
  <2> QED BY <1>1, <1>2, <2>2
<1>9. Priorities(stack')
  <2>1. ASSUME NEW i \in 1 .. Len(stack'), stack'[i].mode = "isr"
        PROVE  i <= Len(stack) /\ stack[i].mode = "isr" /\ stack[i].id = stack'[i].id
    <3>1. CASE i = Len(stack)
      BY <1>2, <1>6, <1>7, <3>1 DEF Top
    <3>2. CASE i # Len(stack)
      <4>1. i \in 1 .. Len(stack) - 1
        BY <1>2, <1>6, <3>2
      <4> QED BY <1>6, <2>1, <4>1 DEF SameBelow
    <3> QED BY <3>1, <3>2
  <2> QED BY <1>2, <1>6, <2>1, PrioritiesKept DEF IInv
<1>10. PieExact'
  BY <1>1, <1>5, <1>6 DEF PieExact, Pie, Runs, LetsIn, Code
<1>11. TypeOK' /\ ReportsEnabled'
  <2>1. Len(stack') > 0
    BY <1>6 DEF Frames
  <2> QED BY <1>1, <1>3, <2>1 DEF IInv, TypeOK, ReportsEnabled, alt_ic_irq_enabled, tables, world
<1>12. Registers' /\ ModeOK'
  BY <1>1, <1>2, <1>4, <1>6 DEF IInv, Registers, ModeOK, tables
<1> QED BY <1>6, <1>8, <1>9, <1>10, <1>11, <1>12 DEF IInv

-----------------------------------------------------------------------------
(* Exceptions.                                                             *)

LEMMA ReachStep == ASSUME IInv, Reach PROVE IInv'
<1>1. PICK c \in Causes : SetTop([Top EXCEPT !.fault = c])
  BY DEF Reach
<1> DEFINE f == [Top EXCEPT !.fault = c]
<1>2. /\ SetTop(f) /\ Code /\ Top.op = "none" /\ faults < MaxFault /\ faults' = faults + 1
      /\ UNCHANGED <<ctl, EXCEPTION, enabled, tables, line, raised>>
  BY <1>1 DEF Reach, Free
<1>3. Top \in FrameSet /\ FrameOK(Top) /\ (PIE <=> Pie(Top))
  BY TopIs
<1>4. /\ f \in FrameSet /\ Same(f, Top) /\ f.context = Top.context /\ f.op = Top.op
  BY <1>3 DEF FrameSet, Same
<1> HIDE DEF f
<1>5. FrameOK(f) /\ (Pie(f) <=> Pie(Top))
  BY <1>2, <1>3, <1>4 DEF FrameOK, Same, LetsIn, Pie, Runs
<1>6. /\ Frames(stack') /\ Masks(stack, alt_priority_mask)' /\ Priorities(stack)'
      /\ ModeOK' /\ Top' = f
  BY <1>2, <1>4, <1>5, CallStep DEF enabled
<1>7. PieExact'
  BY <1>2, <1>3, <1>5, <1>6 DEF PieExact, Pie, Runs, LetsIn, Code, ctl
<1>8. faults' \in 0 .. MaxFault
  <2>1. faults \in 0 .. MaxFault /\ MaxFault \in Nat
    BY CpuAssumption DEF IInv, TypeOK
  <2> QED BY <1>2, <2>1
<1>9. TypeOK' /\ ReportsEnabled'
  BY <1>2, <1>6, <1>8 DEF IInv, TypeOK, ReportsEnabled, alt_ic_irq_enabled, enabled, tables, ctl, Frames
<1>10. Registers'
  BY <1>2, <1>4, <1>6 DEF IInv, Registers, enabled, tables
<1> QED BY <1>6, <1>7, <1>9, <1>10 DEF IInv

LEMMA ClearStep == ASSUME IInv, Clear PROVE IInv'
<1> DEFINE f == [Top EXCEPT !.cleared = TRUE]
<1>1. /\ SetTop(f) /\ Code /\ Top.op = "none" /\ line' = line \ {Top.id}
      /\ UNCHANGED <<ctl, EXCEPTION, enabled, tables, raised, faults>>
  BY DEF Clear, Free
<1>2. Top \in FrameSet /\ FrameOK(Top) /\ (PIE <=> Pie(Top))
  BY TopIs
<1>3. /\ f \in FrameSet /\ Same(f, Top) /\ f.context = Top.context /\ f.op = Top.op
      /\ f.fault = Top.fault
  BY <1>2 DEF FrameSet, Same
<1> HIDE DEF f
<1>4. FrameOK(f) /\ (Pie(f) <=> Pie(Top))
  BY <1>1, <1>2, <1>3 DEF FrameOK, Same, LetsIn, Pie, Runs
<1>5. /\ Frames(stack') /\ Masks(stack, alt_priority_mask)' /\ Priorities(stack)'
      /\ ModeOK' /\ Top' = f
  BY <1>1, <1>3, <1>4, CallStep DEF enabled
<1>6. PieExact'
  BY <1>1, <1>2, <1>4, <1>5 DEF PieExact, Pie, Runs, LetsIn, Code, ctl
<1>7. TypeOK' /\ ReportsEnabled'
  BY <1>1, <1>5 DEF IInv, TypeOK, ReportsEnabled, alt_ic_irq_enabled, enabled, tables, ctl, Frames
<1>8. Registers'
  BY <1>1, <1>3, <1>5 DEF IInv, Registers, enabled, tables
<1> QED BY <1>5, <1>6, <1>7, <1>8 DEF IInv

LEMMA RaiseStep == ASSUME IInv, NEW i \in Id, Raise(i) PROVE IInv'
<1>1. /\ line' = line \union {i} /\ raised < MaxRaise /\ raised' = raised + 1
      /\ UNCHANGED <<ctl, EXCEPTION, enabled, tables, stack, faults>>
  BY DEF Raise
<1>2. raised' \in 0 .. MaxRaise
  <2>1. raised \in 0 .. MaxRaise /\ MaxRaise \in Nat
    BY CpuAssumption DEF IInv, TypeOK
  <2> QED BY <1>1, <2>1
<1>3. IPENDING \subseteq IPENDING'
  BY <1>1 DEF IPENDING, ctl
<1>4. ModeOK'
  BY <1>1, <1>3 DEF IInv, ModeOK, Top, ctl
<1> QED BY <1>1, <1>2, <1>4 DEF IInv, TypeOK, ReportsEnabled, alt_ic_irq_enabled, PieExact, Code,
              Registers, Top, ctl, enabled, tables

(* The processor takes an exception: interrupts go off, and the frame it   *)
(* enters remembers whether they were on.                                  *)
LEMMA EnterStep ==
  ASSUME IInv, NEW cause \in Causes \union {"interrupt"}, Enter(cause),
         Runs(Top), Top.op = "none",
         cause = Top.fault \/ (PIE /\ IPENDING # {})
  PROVE  IInv'
<1> DEFINE e == [Frame EXCEPT !.est = PIE]
<1>1. /\ stack' = Append(stack, e) /\ PIE' = FALSE /\ EXCEPTION' = cause
      /\ UNCHANGED <<IENABLE, enabled, tables, world>>
  BY DEF Enter
<1>2. /\ Len(stack) \in Nat \ {0} /\ stack \in Seq(FrameSet) /\ PIE \in BOOLEAN
      /\ PIE <=> Pie(Top)
  BY TopIs
<1>3. /\ e \in FrameSet /\ e.mode = "entry" /\ e.est = PIE /\ e.context = <<>>
      /\ e.old = <<>> /\ e.op = "none"
  <2>1. /\ Frame \in FrameSet /\ Frame.mode = "entry" /\ Frame.context = <<>>
        /\ Frame.old = <<>> /\ Frame.op = "none"
    <3>1. <<>> \in Seq(BOOLEAN) /\ <<>> \in Seq(SUBSET Id)
      OBVIOUS
    <3> QED BY <3>1, IdIs DEF Frame, FrameSet, Mode
  <2> QED BY <1>2, <2>1 DEF FrameSet
<1> HIDE DEF e
<1>4. FrameOK(e)
  <2>1. Nested(e.context, LetsIn(e))
    BY <1>3 DEF Nested
  <2> QED BY <1>3, <2>1 DEF FrameOK
<1>5. stack' \in Seq(FrameSet) /\ OneMore(stack, stack') /\ stack'[Len(stack')] = e
  BY <1>1, <1>2, <1>3 DEF OneMore
<1>6. Top' = e /\ Len(stack') = Len(stack) + 1 /\ stack'[Len(stack') - 1] = Top
  <2>1. Len(stack') = Len(stack) + 1 /\ Len(stack') - 1 = Len(stack)
    BY <1>2, <1>5 DEF OneMore
  <2>2. Len(stack) \in 1 .. Len(stack)
    BY <1>2
  <2> QED BY <1>5, <2>1, <2>2 DEF OneMore, Top
<1>7. Frames(stack')
  <2>1. Frames(stack) /\ Runs(stack[Len(stack)]) /\ stack[Len(stack)].op = "none"
    BY DEF IInv, Top
  <2>2. PIE <=> Pie(stack[Len(stack)])
    BY <1>2 DEF Top
  <2> QED BY <1>3, <1>4, <1>5, <2>1, <2>2, EnterFrames
<1>8. Masks(stack', alt_priority_mask')
  <2>1. Masks(stack, alt_priority_mask) /\ alt_priority_mask' = alt_priority_mask
    BY <1>1 DEF IInv, enabled
  <2> QED BY <1>2, <1>3, <1>5, <2>1, MasksEnter
<1>9. Priorities(stack')
  <2>1. ASSUME NEW i \in 1 .. Len(stack'), stack'[i].mode = "isr"
        PROVE  i <= Len(stack) /\ stack[i].mode = "isr" /\ stack[i].id = stack'[i].id
    <3>1. i # Len(stack')
      BY <1>3, <1>5, <2>1
    <3>2. i \in 1 .. Len(stack)
      BY <1>2, <1>6, <3>1
    <3> QED BY <1>5, <2>1, <3>2 DEF OneMore
  <2>2. Len(stack') \in Nat
    BY <1>2, <1>6
  <2> QED BY <1>2, <2>1, <2>2, PrioritiesKept DEF IInv
<1>10. PieExact'
  BY <1>1, <1>3, <1>6 DEF PieExact, Code
<1>11. TypeOK' /\ ReportsEnabled'
  BY <1>1, <1>7 DEF IInv, TypeOK, ReportsEnabled, alt_ic_irq_enabled, enabled, tables, world, Frames
<1>12. Registers'
  BY <1>1, <1>3, <1>6 DEF IInv, Registers, enabled, tables
<1>13. ModeOK'
  BY <1>1, <1>3, <1>6 DEF ModeOK, IPENDING, world
<1> QED BY <1>7, <1>8, <1>9, <1>10, <1>11, <1>12, <1>13 DEF IInv

LEMMA InterruptStep == ASSUME IInv, Interrupt PROVE IInv'
<1>1. PIE /\ IPENDING # {} /\ Enter("interrupt")
  BY DEF Interrupt
<1>2. Runs(Top) /\ Top.op = "none"
  BY <1>1, TopIs DEF Pie, FrameOK
<1> QED BY <1>1, <1>2, EnterStep

LEMMA FaultStep == ASSUME IInv, Fault PROVE IInv'
<1>1. Code /\ Top.fault # "none" /\ Enter(Top.fault)
  BY DEF Fault
<1>2. Runs(Top) /\ Top.op = "none" /\ Top.fault \in Causes
  BY <1>1, TopIs, FrameIs DEF Code, Runs, FrameOK
<1> QED BY <1>1, <1>2, EnterStep

-----------------------------------------------------------------------------
(* The exception entry, the dispatcher and what they return to.            *)

\* A frame between the calls of code: nothing is under way in it.
Idle(f) == f.context = <<>> /\ f.old = <<>> /\ f.op = "none"

LEMMA IdleIs ==
  ASSUME IInv, ~Runs(Top)
  PROVE  Idle(Top) /\ PIE = FALSE
BY TopIs DEF Idle, FrameOK, Runs, Pie

(* The frame that runs changes between those modes.                        *)
LEMMA ModeStep ==
  ASSUME IInv, NEW f \in FrameSet, SetTop(f), Top.mode \notin {"boot", "user"}, Idle(Top),
         Idle(f), f.est = Top.est, f.mode \in {"poll", "trap", "stopped"},
         f.mode = "poll" => Top.est, alt_priority_mask' = alt_priority_mask
  PROVE  /\ Frames(stack') /\ Masks(stack, alt_priority_mask)' /\ Priorities(stack)'
         /\ Top' = f /\ Len(stack') = Len(stack) /\ SameBelow(stack, stack')
         /\ stack'[Len(stack') - 1] = stack[Len(stack) - 1]
<1>1. FrameOK(f)
  <2>1. Nested(f.context, LetsIn(f))
    BY DEF Idle, Nested
  <2> QED BY <2>1 DEF FrameOK, Idle
<1>2. Len(stack) \in Nat \ {0} /\ Len(stack) # 1
  BY TopIs
<1>3. Frames(stack') /\ SameBelow(stack, stack') /\ Top' = f /\ Len(stack') = Len(stack)
  BY <1>1, TopChange
<1>4. stack'[Len(stack')] = f
  BY <1>3 DEF Top
<1>5. ASSUME NEW i \in 1 .. Len(stack), i # Len(stack) PROVE stack'[i] = stack[i]
  <2>1. i \in 1 .. Len(stack) - 1
    BY <1>2, <1>5
  <2> QED BY <1>3, <2>1 DEF SameBelow
<1>6. SameMasks(stack, stack', Len(stack))
  BY <1>3, <1>4, <1>5 DEF SameMasks, Idle, Top
<1>7. Masks(stack', alt_priority_mask')
  <2>1. Masks(stack, alt_priority_mask)
    BY DEF IInv
  <2> QED BY <1>2, <1>3, <1>6, <2>1, MasksKept
<1>8. Priorities(stack')
  <2>1. ASSUME NEW i \in 1 .. Len(stack'), stack'[i].mode = "isr"
        PROVE  i <= Len(stack) /\ stack[i].mode = "isr" /\ stack[i].id = stack'[i].id
    <3>1. i # Len(stack)
      BY <1>3, <1>4, <2>1
    <3>2. i \in 1 .. Len(stack) /\ i <= Len(stack)
      BY <1>2, <1>3
    <3> QED BY <1>5, <2>1, <3>1, <3>2
  <2> QED BY <1>2, <1>3, <2>1, PrioritiesKept DEF IInv
<1>9. stack'[Len(stack') - 1] = stack[Len(stack) - 1]
  <2>0. \A n \in Nat \ {0} : n # 1 => n - 1 \in 1 .. n - 1
    OBVIOUS
  <2>1. Len(stack) - 1 \in 1 .. Len(stack) - 1
    BY <1>2, <2>0
  <2> QED BY <1>3, <2>1 DEF SameBelow
<1> QED BY <1>3, <1>7, <1>8, <1>9

LEMMA EntryStep == ASSUME IInv, alt_irq_entry PROVE IInv'
<1> DEFINE f == [Top EXCEPT !.mode = IF Is_irq THEN "poll" ELSE "trap"]
<1>1. /\ Top.mode = "entry" /\ SetTop(f)
      /\ UNCHANGED <<ctl, EXCEPTION, enabled, tables, world>>
  BY DEF alt_irq_entry
<1>2. Top \in FrameSet /\ Idle(Top) /\ PIE = FALSE
  BY <1>1, TopIs, IdleIs DEF Runs
<1>3. /\ f \in FrameSet /\ Idle(f) /\ f.est = Top.est
      /\ f.mode = IF Is_irq THEN "poll" ELSE "trap"
  BY <1>2 DEF FrameSet, Idle, Mode
<1> HIDE DEF f
<1>4. /\ Frames(stack') /\ Masks(stack, alt_priority_mask)' /\ Priorities(stack)' /\ Top' = f
      /\ stack'[Len(stack') - 1] = stack[Len(stack) - 1]
  <2>1. f.mode \in {"poll", "trap", "stopped"} /\ (f.mode = "poll" => Top.est)
    BY <1>3 DEF Is_irq
  <2> QED BY <1>1, <1>2, <1>3, <2>1, ModeStep DEF enabled
<1>5. PieExact'
  BY <1>1, <1>2, <1>3, <1>4 DEF PieExact, Code, ctl
<1>6. TypeOK' /\ ReportsEnabled'
  BY <1>1, <1>4 DEF IInv, TypeOK, ReportsEnabled, alt_ic_irq_enabled, enabled, tables, world, ctl, Frames
<1>7. Registers'
  BY <1>1, <1>2, <1>3, <1>4 DEF IInv, Registers, enabled, tables, Idle
<1>8. ModeOK'
  BY <1>1, <1>3, <1>4 DEF IInv, ModeOK, Is_irq
<1> QED BY <1>4, <1>5, <1>6, <1>7, <1>8 DEF IInv

LEMMA ReturnStep == ASSUME IInv, Return PROVE IInv'
<1> DEFINE f == [Top EXCEPT !.mode = "poll"]
<1>1. /\ Top.mode = "isr" /\ Top.context = <<>> /\ Top.old = <<>> /\ Top.op = "none" /\ SetTop(f)
      /\ UNCHANGED <<ctl, EXCEPTION, enabled, tables, world>>
  BY DEF Return, Free
<1>2. Top \in FrameSet /\ Idle(Top) /\ PIE = FALSE /\ Top.est
  BY <1>1, TopIs DEF Idle, Pie, LetsIn
<1>3. f \in FrameSet /\ Idle(f) /\ f.est = Top.est /\ f.mode = "poll"
  BY <1>2 DEF FrameSet, Idle, Mode
<1> HIDE DEF f
<1>4. Frames(stack') /\ Masks(stack, alt_priority_mask)' /\ Priorities(stack)' /\ Top' = f
  BY <1>1, <1>2, <1>3, ModeStep DEF enabled
<1>5. PieExact'
  BY <1>1, <1>2, <1>3, <1>4 DEF PieExact, Code, ctl
<1>6. TypeOK' /\ ReportsEnabled'
  BY <1>1, <1>4 DEF IInv, TypeOK, ReportsEnabled, alt_ic_irq_enabled, enabled, tables, world, ctl, Frames
<1>7. Registers'
  BY <1>1, <1>2, <1>3, <1>4 DEF IInv, Registers, enabled, tables, Idle
<1>8. ModeOK'
  BY <1>3, <1>4 DEF ModeOK
<1> QED BY <1>4, <1>5, <1>6, <1>7, <1>8 DEF IInv

(* Leaving a frame puts interrupts back as they were when it was entered.  *)
LEMMA LeaveStep ==
  ASSUME IInv, Top.mode \notin {"boot", "user"}, Idle(Top)
  PROVE  /\ Frames(Under) /\ Masks(Under, alt_priority_mask) /\ Priorities(Under)
         /\ Len(Under) \in Nat \ {0} /\ FrameOK(Under[Len(Under)]) /\ Runs(Under[Len(Under)])
         /\ Under[Len(Under)].op = "none" /\ (Top.est <=> Pie(Under[Len(Under)]))
         /\ Under \in Seq(FrameSet)
<1>1. Len(stack) \in Nat \ {0} /\ Len(stack) # 1 /\ stack \in Seq(FrameSet)
  BY TopIs
<1>2. PICK n \in Nat \ {0} : n = Len(stack) - 1
  <2>1. \A k \in Nat \ {0} : k # 1 => k - 1 \in Nat \ {0}
    OBVIOUS
  <2> QED BY <1>1, <2>1
<1>3. /\ Under \in Seq(FrameSet) /\ Len(Under) = n /\ Len(stack) = n + 1
      /\ \A i \in 1 .. n : Under[i] = stack[i]
  BY <1>1, <1>2 DEF Under
<1>4. OneMore(Under, stack) /\ stack[Len(stack)].old = <<>> /\ n \in 1 .. n
  BY <1>3 DEF OneMore, Idle, Top
<1>5. /\ Frames(stack) /\ Masks(stack, alt_priority_mask) /\ Priorities(stack)
  BY DEF IInv
<1>6. Frames(Under)
  BY <1>2, <1>3, <1>4, <1>5, LeaveFrames
<1>7. Masks(Under, alt_priority_mask)
  BY <1>3, <1>4, <1>5, MasksLeave
<1>8. Priorities(Under)
  <2>1. \A i \in 1 .. Len(Under) : i <= Len(stack) /\ stack[i] = Under[i]
    BY <1>3
  <2> QED BY <1>1, <1>3, <1>5, <2>1, PrioritiesKept
<1>9. /\ FrameOK(stack[n]) /\ Runs(stack[n]) /\ stack[n].op = "none"
      /\ Top.est <=> Pie(stack[n])
  <2>1. n \in 1 .. Len(stack) /\ n \in 1 .. Len(stack) - 1
    BY <1>3
  <2>2. Top = stack[n + 1]
    BY <1>3 DEF Top
  <2> QED BY <1>5, <2>1, <2>2 DEF Frames
<1> QED BY <1>3, <1>4, <1>6, <1>7, <1>8, <1>9

(* What is left is the frame below, its fault mended or not.               *)
LEMMA ExitStep ==
  ASSUME IInv, Top.mode \notin {"boot", "user"}, Idle(Top), NEW t, Exit(t),
         t = Under \/ t = [Under EXCEPT ![Len(Under)].fault = "none"]
  PROVE  IInv'
<1>1. /\ stack' = t /\ PIE' = Top.est
      /\ UNCHANGED <<IENABLE, EXCEPTION, enabled, tables, world>>
  BY DEF Exit
<1> DEFINE g == Under[Len(Under)]
<1>2. /\ Frames(Under) /\ Masks(Under, alt_priority_mask) /\ Priorities(Under)
      /\ Len(Under) \in Nat \ {0} /\ FrameOK(g) /\ Runs(g)
      /\ g.op = "none" /\ (Top.est <=> Pie(g)) /\ Under \in Seq(FrameSet)
  BY LeaveStep
<1>3. Top.op = "none" /\ Top.est \in BOOLEAN
  BY TopIs, FrameIs DEF Idle
<1> SUFFICES /\ Frames(t) /\ Masks(t, alt_priority_mask) /\ Priorities(t) /\ Len(t) \in Nat \ {0}
             /\ Runs(t[Len(t)]) /\ t[Len(t)].op = "none" /\ (Top.est <=> Pie(t[Len(t)]))
  <2>1. /\ Frames(stack') /\ Masks(stack', alt_priority_mask') /\ Priorities(stack')
        /\ Runs(Top') /\ Top'.op = "none" /\ (PIE' <=> Pie(Top')) /\ Len(stack') > 0
    BY <1>1 DEF Top, enabled
  <2>2. PieExact'
    BY <2>1 DEF PieExact, Pie, Runs, LetsIn, Code
  <2>3. TypeOK' /\ ReportsEnabled'
    BY <1>1, <1>3, <2>1 DEF IInv, TypeOK, ReportsEnabled, alt_ic_irq_enabled, enabled, tables, world
  <2>4. Registers'
    BY <1>1, <1>3, <2>1 DEF IInv, Registers, enabled, tables
  <2>5. ModeOK'
    BY <2>1 DEF ModeOK, Runs
  <2> QED BY <2>1, <2>2, <2>3, <2>4, <2>5 DEF IInv
<1>4. CASE t = Under
  BY <1>2, <1>4
<1>5. CASE t = [Under EXCEPT ![Len(Under)].fault = "none"]
  <2> DEFINE f == [g EXCEPT !.fault = "none"]
  <2>1. /\ f \in FrameSet /\ Same(f, g) /\ f.context = g.context /\ f.op = "none"
    BY <1>2 DEF FrameSet, FrameOK, Same
  <2>2. t = [Under EXCEPT ![Len(Under)] = f]
    BY <1>5
  <2> HIDE DEF f, g
  <2>3. t \in Seq(FrameSet) /\ SameBelow(Under, t) /\ t[Len(t)] = f /\ Len(t) = Len(Under)
    <3>1. Len(Under) > 0
      BY <1>2
    <3> QED BY <1>2, <2>1, <2>2, <3>1, SetLast DEF SameBelow
  <2>4. FrameOK(f) /\ (Pie(f) <=> Pie(g)) /\ Runs(f)
    BY <1>2, <2>1 DEF FrameOK, Same, LetsIn, Pie, Runs
  <2>5. Frames(t)
    <3>1. \A n \in Nat \ {0} : n \in 1 .. n /\ (n # 1 => n \in 2 .. n)
      OBVIOUS
    <3>2. g.mode \in {"poll", "isr"} => g.est
      BY <1>2, <3>1 DEF Frames, g
    <3>3. f.mode = g.mode /\ f.est = g.est
      BY <2>1 DEF Same
    <3> QED BY <1>2, <2>3, <2>4, <3>2, <3>3, SetLastFrames DEF g
  <2>6. ASSUME NEW i \in 1 .. Len(Under)
        PROVE  t[i].old = Under[i].old /\ t[i].id = Under[i].id /\ t[i].mode = Under[i].mode
    <3>1. CASE i = Len(Under)
      BY <2>1, <2>3, <3>1 DEF Same, g
    <3>2. CASE i # Len(Under)
      <4>1. i \in 1 .. Len(Under) - 1
        BY <1>2, <3>2
      <4> QED BY <2>3, <4>1 DEF SameBelow
    <3> QED BY <3>1, <3>2
  <2>7. Masks(t, alt_priority_mask)
    <3>1. SameMasks(Under, t, Len(Under))
      BY <2>6 DEF SameMasks
    <3> QED BY <1>2, <2>3, <3>1, MasksKept
  <2>8. Priorities(t)
    <3>1. \A i \in 1 .. Len(t) : t[i].mode = "isr" =>
             i <= Len(Under) /\ Under[i].mode = "isr" /\ Under[i].id = t[i].id
      BY <1>2, <2>3, <2>6
    <3> QED BY <1>2, <2>3, <3>1, PrioritiesKept
  <2> QED BY <1>2, <2>1, <2>3, <2>4, <2>5, <2>7, <2>8
<1> QED BY <1>4, <1>5

(* The handler of exceptions mends the instruction below it, or none is    *)
(* registered and the processor stops.                                     *)
LEMMA TrapStep == ASSUME IInv, alt_instruction_exception_entry PROVE IInv'
<1>1. Top.mode = "trap" /\ Idle(Top) /\ PIE = FALSE
  BY IdleIs DEF alt_instruction_exception_entry, Runs
<1>2. CASE alt_instruction_exception_handler
  <2>1. Exit([Under EXCEPT ![Len(Under)].fault = "none"])
    BY <1>2 DEF alt_instruction_exception_entry
  <2> QED BY <1>1, <2>1, ExitStep
<1>3. CASE ~alt_instruction_exception_handler
  <2> DEFINE f == [Top EXCEPT !.mode = "stopped"]
  <2>1. SetTop(f) /\ UNCHANGED <<ctl, EXCEPTION, enabled, tables, world>>
    BY <1>3 DEF alt_instruction_exception_entry
  <2>2. f \in FrameSet /\ Idle(f) /\ f.est = Top.est /\ f.mode = "stopped"
    BY <1>1, TopIs DEF FrameSet, Idle, Mode
  <2> HIDE DEF f
  <2>3. Frames(stack') /\ Masks(stack, alt_priority_mask)' /\ Priorities(stack)' /\ Top' = f
    BY <1>1, <2>1, <2>2, ModeStep DEF enabled
  <2>4. PieExact'
    BY <1>1, <2>1, <2>2, <2>3 DEF PieExact, Code, ctl
  <2>5. TypeOK' /\ ReportsEnabled'
    BY <2>1, <2>3 DEF IInv, TypeOK, ReportsEnabled, alt_ic_irq_enabled, enabled, tables, world, ctl, Frames
  <2>6. Registers'
    BY <1>1, <2>1, <2>2, <2>3 DEF IInv, Registers, enabled, tables, Idle
  <2>7. ModeOK'
    BY <2>2, <2>3 DEF ModeOK
  <2> QED BY <2>3, <2>4, <2>5, <2>6, <2>7 DEF IInv
<1> QED BY <1>2, <1>3

(* The dispatcher: the lowest pending line that is let through, until none *)
(* is pending.                                                             *)
LEMMA DispatchStep == ASSUME IInv, alt_irq_handler PROVE IInv'
<1>1. Top.mode = "poll" /\ Idle(Top) /\ PIE = FALSE
  BY IdleIs DEF alt_irq_handler, Runs
<1>2. CASE IPENDING = {}
  <2>1. Exit(Under)
    BY <1>2 DEF alt_irq_handler
  <2> QED BY <1>1, <2>1, ExitStep
<1>3. CASE IPENDING # {}
  <2> DEFINE i == CHOOSE i \in IPENDING : \A j \in IPENDING : i <= j
             f == [Top EXCEPT !.mode = "isr", !.id = i, !.cleared = FALSE]
  <2>1. SetTop(f) /\ UNCHANGED <<ctl, EXCEPTION, enabled, tables, world>>
    BY <1>3 DEF alt_irq_handler
  <2>2. i \in IPENDING
    <3>1. IPENDING \in SUBSET Nat
      BY IdIs DEF IPENDING, IInv, TypeOK
    <3> QED BY <1>3, <3>1, LowestIs
  <2> HIDE DEF i
  <2>3. i \in Id /\ i \in alt_priority_mask
    BY <2>2 DEF IPENDING, IInv, TypeOK, ReportsEnabled, alt_ic_irq_enabled
  <2>4. Top \in FrameSet /\ Len(stack) \in Nat \ {0} /\ Top.est
    BY <1>1, TopIs
  <2>5. f \in FrameSet /\ Idle(f) /\ f.est = Top.est /\ f.mode = "isr" /\ f.id = i
    BY <1>1, <2>3, <2>4 DEF FrameSet, Idle, Mode
  <2> HIDE DEF f
  <2>6. FrameOK(f) /\ ~Pie(f)
    <3>1. Nested(f.context, LetsIn(f))
      BY <2>5 DEF Idle, Nested
    <3> QED BY <2>5, <3>1 DEF FrameOK, Idle, Pie, LetsIn
  <2>7. Frames(stack') /\ SameBelow(stack, stack') /\ Top' = f /\ Len(stack') = Len(stack)
    BY <1>1, <2>1, <2>4, <2>5, <2>6, TopChange
  <2>8. stack'[Len(stack')] = f /\ stack[Len(stack)] = Top
    BY <2>7 DEF Top
  <2>9. Masks(stack', alt_priority_mask')
    <3>1. ASSUME NEW k \in 1 .. Len(stack), k # Len(stack) PROVE stack'[k] = stack[k]
      <4>1. k \in 1 .. Len(stack) - 1
        BY <2>4, <3>1
      <4> QED BY <2>7, <4>1 DEF SameBelow
    <3>2. SameMasks(stack, stack', Len(stack))
      BY <1>1, <2>5, <2>7, <2>8, <3>1 DEF SameMasks, Idle
    <3>3. Masks(stack, alt_priority_mask) /\ alt_priority_mask' = alt_priority_mask
      BY <2>1 DEF IInv, enabled
    <3> QED BY <2>4, <2>7, <3>2, <3>3, MasksKept
  <2>10. Priorities(stack')
    <3>1. stack[Len(stack)].mode = "poll" /\ stack'[Len(stack')].id \in alt_priority_mask
      BY <1>1, <2>3, <2>5, <2>8
    <3> QED BY <2>7, <3>1, PrioritiesDispatch DEF IInv
  <2>11. PieExact'
    BY <1>1, <2>1, <2>6, <2>7 DEF PieExact, Pie, Runs, LetsIn, Code, ctl
  <2>12. TypeOK' /\ ReportsEnabled'
    BY <2>1, <2>7 DEF IInv, TypeOK, ReportsEnabled, alt_ic_irq_enabled, enabled, tables, world, ctl, Frames
  <2>13. Registers'
    BY <1>1, <2>1, <2>5, <2>7 DEF IInv, Registers, enabled, tables, Idle
  <2>14. ModeOK'
    BY <2>5, <2>7 DEF ModeOK
  <2> QED BY <2>7, <2>9, <2>10, <2>11, <2>12, <2>13, <2>14 DEF IInv
<1> QED BY <1>2, <1>3

-----------------------------------------------------------------------------
(* The invariant.                                                          *)

LEMMA InitIInv == Init => IInv
<1> SUFFICES ASSUME Init PROVE IInv
  OBVIOUS
<1> DEFINE e == [Frame EXCEPT !.mode = "boot"]
<1>1. /\ PIE = FALSE /\ IENABLE = {} /\ EXCEPTION = "none" /\ alt_irq_active = {}
      /\ alt_priority_mask = Id /\ alt_irq = {} /\ alt_instruction_exception_handler = FALSE
      /\ stack = <<e>> /\ line = {} /\ raised = 0 /\ faults = 0
  BY DEF Init
<1>2. /\ e \in FrameSet /\ e.mode = "boot" /\ e.context = <<>> /\ e.old = <<>> /\ e.op = "none"
  <2>1. <<>> \in Seq(BOOLEAN) /\ <<>> \in Seq(SUBSET Id)
    OBVIOUS
  <2> QED BY <2>1, IdIs DEF Frame, FrameSet, Mode
<1> HIDE DEF e
<1>3. /\ stack \in Seq(FrameSet) /\ Len(stack) = 1 /\ stack[1] = e /\ Top = e
  BY <1>1, <1>2 DEF Top
<1>4. FrameOK(e)
  <2>1. Nested(e.context, LetsIn(e))
    BY <1>2 DEF Nested
  <2> QED BY <1>2, <2>1 DEF FrameOK
<1>5. \A i \in 1 .. Len(stack) : i = 1
  BY <1>3
<1>6. Frames(stack)
  <2>1. \A i \in 1 .. Len(stack) - 1 : FALSE
    BY <1>3
  <2>2. \A i \in 2 .. Len(stack) : FALSE
    BY <1>3
  <2>3. Len(stack) > 0
    BY <1>3
  <2> QED BY <1>2, <1>3, <1>4, <1>5, <2>1, <2>2, <2>3 DEF Frames
<1>7. Masks(stack, alt_priority_mask)
  BY <1>1, <1>2, <1>3, <1>5 DEF Masks, MaskAt
<1>8. Priorities(stack)
  BY <1>2, <1>3, <1>5 DEF Priorities
<1>9. TypeOK /\ ReportsEnabled /\ PieExact
  <2>1. 0 \in 0 .. MaxRaise /\ 0 \in 0 .. MaxFault
    <3>1. MaxRaise \in Nat /\ MaxFault \in Nat
      BY CpuAssumption
    <3> QED BY <3>1
  <2>2. TypeOK
    <3>1. PIE \in BOOLEAN /\ EXCEPTION \in Causes \union {"none", "interrupt"}
      BY <1>1
    <3>2. raised \in 0 .. MaxRaise /\ faults \in 0 .. MaxFault /\ Len(stack) > 0
      BY <1>1, <1>3, <2>1
    <3>3. /\ IENABLE \subseteq Id /\ alt_irq_active \subseteq Id /\ alt_priority_mask \subseteq Id
          /\ alt_irq \subseteq Id /\ line \subseteq Id
      BY <1>1
    <3> QED BY <3>1, <3>2, <3>3 DEF TypeOK
  <2>3. ReportsEnabled
    BY <1>1 DEF ReportsEnabled, alt_ic_irq_enabled
  <2>4. PieExact
    BY <1>1, <1>2, <1>3 DEF PieExact, Code
  <2> QED BY <2>2, <2>3, <2>4
<1>10. Registers /\ ModeOK
  BY <1>1, <1>2, <1>3 DEF Registers, ModeOK
<1> QED BY <1>6, <1>7, <1>8, <1>9, <1>10 DEF IInv

LEMMA RegistrationStep == ASSUME IInv, ~Anywhere, Registration PROVE IInv'
<1>1. PICK id \in 0 .. ALT_NIRQ :
        \/ \E handler \in BOOLEAN : alt_irq_register(id, handler) \/ alt_ic_isr_register(id, handler)
        \/ id < ALT_NIRQ /\ (alt_ic_irq_enable(id) \/ alt_ic_irq_disable(id))
  BY DEF Registration
<1>2. id < ALT_NIRQ
  BY <1>1 DEF alt_irq_register, alt_ic_isr_register, alt_iic_isr_register
<1>3. id \in Id
  BY <1>2, IdIs DEF Id
<1>4. \/ \E handler \in BOOLEAN : Change("table", id, handler)
      \/ id \in alt_irq /\ Change("line", id, TRUE)
      \/ Change("line", id, FALSE)
  BY <1>1 DEF alt_irq_register, alt_ic_isr_register, alt_iic_isr_register,
       alt_ic_irq_enable, alt_ic_irq_disable
<1> QED BY <1>3, <1>4, ChangeStep

LEMMA NextIInv == IInv /\ ~Anywhere /\ [Next]_vars => IInv'
<1> SUFFICES ASSUME IInv, ~Anywhere, [Next]_vars PROVE IInv'
  OBVIOUS
<1>1. CASE alt_irq_init
  BY <1>1, InitCallStep
<1>2. CASE Disable_all
  BY <1>2, DisableStep
<1>3. CASE Enable_all
  BY <1>3, EnableStep
<1>4. CASE Registration
  BY <1>4, RegistrationStep
<1>5. CASE Set_table
  BY <1>5, SetTableStep
<1>6. CASE Set_line
  BY <1>6, SetLineStep
<1>7. CASE alt_instruction_exception_register
  BY <1>7, RegisterExceptionStep
<1>8. CASE Interruptible
  BY <1>8, InterruptibleStep
<1>9. CASE Non_interruptible
  BY <1>9, NonInterruptibleStep
<1>10. CASE Interrupt
  BY <1>10, InterruptStep
<1>11. CASE Reach
  BY <1>11, ReachStep
<1>12. CASE Fault
  BY <1>12, FaultStep
<1>13. CASE alt_irq_entry
  BY <1>13, EntryStep
<1>14. CASE alt_irq_handler
  BY <1>14, DispatchStep
<1>15. CASE Clear
  BY <1>15, ClearStep
<1>16. CASE Return
  BY <1>16, ReturnStep
<1>17. CASE alt_instruction_exception_entry
  BY <1>17, TrapStep
<1>18. CASE \E i \in Id : Raise(i)
  BY <1>18, RaiseStep
<1>19. CASE UNCHANGED vars
  <2>1. UNCHANGED <<ctl, EXCEPTION, enabled, tables, stack, world>>
    BY <1>19 DEF vars
  <2> QED BY <2>1 DEF IInv, TypeOK, ReportsEnabled, alt_ic_irq_enabled, PieExact, Code, Registers,
                ModeOK, Top, IPENDING, ctl, enabled, tables, world
<1> QED BY <1>1, <1>2, <1>3, <1>4, <1>5, <1>6, <1>7, <1>8, <1>9, <1>10, <1>11, <1>12, <1>13,
           <1>14, <1>15, <1>16, <1>17, <1>18, <1>19 DEF Next

(* Interrupts, critical sections, faults and the handlers that nest keep   *)
(* the control registers, the masks and the stack in step: IInv holds in   *)
(* every state of the processor as the HAL drives it.                      *)
THEOREM Invariance == ASSUME ~Anywhere PROVE Spec => []IInv
<1>1. IInv /\ [Next]_vars => IInv'
  BY NextIInv
<1> QED BY <1>1, InitIInv, PTL DEF Spec

LEMMA IInvIsSafe == IInv => SafeCpu
<1> SUFFICES ASSUME IInv PROVE SafeCpu
  OBVIOUS
<1>1. Frames(stack) /\ Len(stack) \in Nat \ {0}
  BY TopIs DEF IInv
<1>2. CriticalAlone
  <2> SUFFICES ASSUME NEW i \in 1 .. Len(stack) - 1, stack[i].context # <<>>
               PROVE  stack[i + 1].mode \in {"entry", "trap", "stopped"}
    BY DEF CriticalAlone
  <2>1. i + 1 \in 1 .. Len(stack) /\ i + 1 \in 2 .. Len(stack) /\ i + 1 # 1
    BY <1>1
  <2>2. ~Pie(stack[i])
    BY DEF Pie
  <2>3. ~stack[i + 1].est
    BY <1>1, <2>2 DEF Frames
  <2>4. stack[i + 1].mode \notin {"poll", "isr", "boot", "user"} /\ FrameOK(stack[i + 1])
    BY <1>1, <2>1, <2>3 DEF Frames
  <2>5. stack[i + 1].mode \in Mode
    BY <2>4, FrameIs DEF FrameOK
  <2> QED BY <2>4, <2>5 DEF Mode
<1>3. NestedByPriority
  BY DEF IInv, Priorities, NestedByPriority, Isr
<1>4. NeverNull
  <2> SUFFICES ASSUME Top.mode = "poll" PROVE IPENDING \subseteq alt_irq
    BY DEF NeverNull
  <2>1. Top.op = "none"
    BY IdleIs DEF Idle, Runs
  <2>2. alt_irq_active \subseteq alt_irq
    BY <2>1 DEF IInv, Registers
  <2> QED BY <2>2 DEF IPENDING, IInv, TypeOK, ReportsEnabled, alt_ic_irq_enabled
<1>5. ToldTheCause
  BY DEF ToldTheCause, Told, IInv, ModeOK
<1> QED BY <1>2, <1>3, <1>4, <1>5 DEF IInv, SafeCpu

(* Interrupts are on exactly where the calls of alt_irq.h say, a critical  *)
(* section is never interrupted, handlers nest by priority, no line is     *)
(* dispatched without a handler, and the handler of exceptions is told the *)
(* cause of the instruction that faulted.                                  *)
THEOREM ProcessorSound == ASSUME ~Anywhere PROVE Spec => []SafeCpu
BY IInvIsSafe, Invariance, PTL
=============================================================================
