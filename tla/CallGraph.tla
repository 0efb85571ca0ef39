------------------------------ MODULE CallGraph ------------------------------
(***************************************************************************)
(* The profiler of the HAL: the heap it takes memory from (alt_sbrk.c),    *)
(* the call graph that every instrumented call adds to (mcount of          *)
(* alt_mcount.S, __mcount_record) and the sampling of the program counter  *)
(* on every tick (alt_gmon.c).                                             *)
(*                                                                         *)
(* Instrumented functions run in the program and in interrupt handlers.    *)
(* Both levels take the same steps; a handler runs to its end between two  *)
(* steps of the program, but not inside a section with interrupts off.     *)
(* A list is the sequence of its records in the order they were added:     *)
(* additions go to the front, so a walk meets the newest match first, and  *)
(* sees what was there when it started.  All functions are in one bucket.  *)
(***************************************************************************)
EXTENDS Integers, FiniteSetsExt, SequencesExt, Functions

CONSTANTS Arc,            \* the calls: <<self_pc, from_pc>>
          HeapStart, HeapLimit,
          SlabIncrement,  \* MCOUNT_SLAB_INCREMENT
          TextBytes,      \* s_high_pc - s_low_pc
          Request,        \* what the program asks sbrk for
          MaxCalls        \* bound: calls by each level

Bad          == -1        \* (caddr_t)-1
Function     == {a[1] : a \in Arc}
BucketBytes  == 32        \* PCSAMPLE_BYTES_PER_BUCKET
RecordSize   == 12        \* of either structure
Level        == {"program", "handler"}

VARIABLES heap_end,
          slab,           \* mcount_slab_ptr, mcount_slab_size
          list,           \* __mcount_fn_head[..]
          ticking,        \* alt_ticks_per_second() # 0
          pcsample_need_init, s_pcsamples,
          pc, regs,       \* of each level: next step of mcount, and its registers
          left,           \* calls each level may still make
          blocks,         \* history: memory handed out, <<address, size>> each
          refused,        \* history: sbrk has said no to the profiler
          starts,         \* history: alt_alarm_start(&s_nios2_pcsample_alarm)
          stray,          \* history: a sample was counted outside its buffer
          calls, raced    \* history: calls recorded, and the arcs a handler has
                          \* counted between the program's load and its store

heap   == <<heap_end, slab, blocks, refused>>
sample == <<ticking, pcsample_need_init, s_pcsamples, starts, stray>>
graph  == <<list, calls, raced>>
vars   == <<heap_end, slab, list, ticking, pcsample_need_init, s_pcsamples, pc, regs, left,
            blocks, refused, starts, stray, calls, raced>>

(* Between calls the registers hold nothing of interest.                   *)
NoRegs == [arc |-> <<>>, fn |-> 0, at |-> 0, count |-> 0]

Init == /\ heap_end = HeapStart /\ slab = [ptr |-> 0, size |-> 0]
        /\ list = <<>>
        /\ ticking = FALSE /\ pcsample_need_init = TRUE /\ s_pcsamples = 0
        /\ pc = [l \in Level |-> IF l = "handler" THEN "off" ELSE "run"]
        /\ regs = [l \in Level |-> NoRegs] /\ left = [l \in Level |-> MaxCalls]
        /\ blocks = <<>> /\ refused = FALSE /\ starts = 0 /\ stray = FALSE
        /\ calls = [a \in Arc |-> 0] /\ raced = {}

-----------------------------------------------------------------------------
(* Memory.                                                                 *)

Aligned(p) == ((p + 3) \div 4) * 4
Fits(end, incr) == Aligned(end) + incr <= HeapLimit

(* sbrk(incr): the end of the heap afterwards, and what it returns.        *)
Grown_Unaligned(end, incr) ==      \* mutant: the rounded end is not kept
  IF Fits(end, incr) THEN end + incr ELSE end
Grown(end, incr)    == IF Fits(end, incr) THEN Aligned(end) + incr ELSE Aligned(end)
ALT_SBRK(end, incr) == IF Fits(end, incr) THEN Aligned(end) ELSE Bad

Malloc(incr) ==
  /\ pc["program"] = "run" /\ pc["handler"] = "off"
  /\ heap_end' = Grown(heap_end, incr)
  /\ blocks' = IF Fits(heap_end, incr) THEN Append(blocks, <<ALT_SBRK(heap_end, incr), incr>>)
                                       ELSE blocks
  /\ UNCHANGED <<slab, refused, graph, sample, pc, regs, left>>

(* One record from the slab, from a new slab when the old one is short.    *)
(* The answer of sbrk is not looked at.                                    *)
mcount_allocate(m) ==
  LET short == m.size < RecordSize
      data  == IF short THEN ALT_SBRK(m.end, SlabIncrement) ELSE m.ptr
  IN  [end     |-> IF short THEN Grown(m.end, SlabIncrement) ELSE m.end,
       ptr     |-> data + RecordSize,
       size    |-> (IF short THEN SlabIncrement ELSE m.size) - RecordSize,
       blocks  |-> Append(m.blocks, <<data, RecordSize>>),
       refused |-> m.refused \/ data = Bad]

Memory == [end |-> heap_end, ptr |-> slab.ptr, size |-> slab.size,
           blocks |-> blocks, refused |-> refused]

-----------------------------------------------------------------------------
(* mcount.                                                                 *)

At(l, here, there) == /\ pc[l] = here /\ pc' = [pc EXCEPT ![l] = there]
                      /\ l = "handler" \/ pc["handler"] = "off"

Handler_begins == /\ pc["handler"] = "off" /\ left["handler"] > 0
                  /\ pc' = [pc EXCEPT !["handler"] = "run"]
                  /\ UNCHANGED <<heap, graph, sample, regs, left>>
Handler_returns == At("handler", "run", "off") /\ UNCHANGED <<heap, graph, sample, regs, left>>

Call(l, a) == /\ At(l, "run", "find function")
              /\ left[l] > 0 /\ left' = [left EXCEPT ![l] = @ - 1]
              /\ regs' = [regs EXCEPT ![l] = [NoRegs EXCEPT !.arc = a]]
              /\ UNCHANGED <<heap, graph, sample>>

(* The newest of these places in a list, 0 if there is none.               *)
Newest(places) == Max(places \union {0})

Find_function(l) ==
  LET fn == Newest({i \in DOMAIN list : list[i].self = regs[l].arc[1]})
  IN  /\ At(l, "find function", IF fn = 0 THEN "check" ELSE "find arc")
      /\ regs' = [regs EXCEPT ![l].fn = fn]
      /\ UNCHANGED <<heap, graph, sample, left>>

Find_arc(l) ==
  LET arcs == list[regs[l].fn].arcs
      at == Newest({i \in DOMAIN arcs : arcs[i].from = regs[l].arc[2]})
  IN  /\ At(l, "find arc", IF at = 0 THEN "check" ELSE "load")
      /\ regs' = [regs EXCEPT ![l].at = at]
      /\ UNCHANGED <<heap, graph, sample, left>>

Load(l) == /\ At(l, "load", "store")
           /\ regs' = [regs EXCEPT ![l].count = list[regs[l].fn].arcs[regs[l].at].count]
           /\ UNCHANGED <<heap, graph, sample, left>>

Recorded(l) == /\ calls' = [calls EXCEPT ![regs[l].arc] = @ + 1]
               /\ regs' = [regs EXCEPT ![l] = NoRegs]

Store(l) == /\ At(l, "store", "run") /\ Recorded(l)
            /\ list' = [list EXCEPT ![regs[l].fn].arcs[regs[l].at].count = regs[l].count + 1]
            /\ raced' = IF l = "handler" /\ pc["program"] = "store"
                        THEN raced \union {regs[l].arc} ELSE raced
            /\ UNCHANGED <<heap, sample, left>>

-----------------------------------------------------------------------------
(* __mcount_record.                                                        *)

Check(l) == /\ At(l, "check", IF pcsample_need_init THEN "clear" ELSE "record")
            /\ UNCHANGED <<heap, graph, sample, regs, left>>

Clear(l) == /\ At(l, "clear", "init") /\ pcsample_need_init' = FALSE
            /\ UNCHANGED <<heap, graph, ticking, s_pcsamples, starts, stray, regs, left>>

Buckets == TextBytes \div BucketBytes

(* Without a clock: try again at the next new arc.                         *)
nios2_pcsample_init(l) ==
  /\ At(l, "init", IF ticking THEN "start" ELSE "record")
  /\ IF ticking
     THEN /\ s_pcsamples' = ALT_SBRK(heap_end, 2 * Buckets)
          /\ heap_end' = Grown(heap_end, 2 * Buckets)
          /\ blocks' = Append(blocks, <<s_pcsamples', 2 * Buckets>>)
          /\ refused' = (refused \/ s_pcsamples' = Bad)
          /\ UNCHANGED pcsample_need_init
     ELSE pcsample_need_init' = TRUE /\ UNCHANGED <<s_pcsamples, heap_end, blocks, refused>>
  /\ UNCHANGED <<slab, graph, ticking, starts, stray, regs, left>>

Start_sampling(l) ==
  /\ At(l, "start", "record") /\ starts' = starts + 1 /\ pcsample_need_init' = FALSE
  /\ UNCHANGED <<heap, graph, ticking, s_pcsamples, stray, regs, left>>

(* The function and the arc, with interrupts off.                          *)
Record(l) ==
  LET a == regs[l].arc  new == regs[l].fn = 0
      m == mcount_allocate(IF new THEN mcount_allocate(Memory) ELSE Memory)
      arc == [from |-> a[2], count |-> 1]
      function == [self |-> a[1], arcs |-> <<arc>>]
  IN  /\ At(l, "record", "run") /\ Recorded(l)
      /\ list' = IF new THEN Append(list, function)
                 ELSE [list EXCEPT ![regs[l].fn].arcs = Append(@, arc)]
      /\ heap_end' = m.end /\ slab' = [ptr |-> m.ptr, size |-> m.size] /\ refused' = m.refused
      /\ blocks' = m.blocks
      /\ UNCHANGED <<raced, sample, left>>

-----------------------------------------------------------------------------
(* The clock.                                                              *)

Clock_starts == /\ ~ticking /\ ticking' = TRUE /\ pc["handler"] = "off"
                /\ UNCHANGED <<heap, graph, pcsample_need_init, s_pcsamples, starts, stray,
                               pc, regs, left>>

(* A tick interrupts the program at an address of the text.                *)
nios2_pcsample(bucket) ==
  /\ starts > 0 /\ pc["handler"] = "off" /\ s_pcsamples # 0
  /\ stray' = (stray \/ s_pcsamples = Bad \/ bucket >= Buckets)
  /\ UNCHANGED <<heap, graph, ticking, pcsample_need_init, s_pcsamples, starts, pc, regs, left>>

-----------------------------------------------------------------------------
Next == \/ Clock_starts \/ Handler_begins \/ Handler_returns
        \/ \E incr \in Request : Malloc(incr)
        \/ \E bucket \in 0 .. (TextBytes - 1) \div BucketBytes : nios2_pcsample(bucket)
        \/ \E l \in Level :
             \/ \E a \in Arc : Call(l, a)
             \/ Find_function(l) \/ Find_arc(l) \/ Load(l) \/ Store(l)
             \/ Check(l) \/ Clear(l) \/ nios2_pcsample_init(l) \/ Start_sampling(l) \/ Record(l)

Spec == Init /\ [][Next]_vars

-----------------------------------------------------------------------------
(* Registers point to records that exist.                                  *)
TypeOK == /\ heap_end \in HeapStart .. HeapLimit
          /\ \A i \in DOMAIN list : list[i].self \in Function
          /\ \A l \in Level : /\ regs[l].fn \in 0 .. Len(list)
                              /\ pc[l] \in {"load", "store"} =>
                                   regs[l].at \in DOMAIN list[regs[l].fn].arcs

(* The words handed out overlap nowhere and lie inside the heap, as long   *)
(* as sbrk has not refused the profiler (alt_gmon.c:139 does not look).    *)
Apart == ~refused => \A i \in DOMAIN blocks : LET b == blocks[i] IN
                       /\ b[1] >= HeapStart /\ b[1] + b[2] <= heap_end
                       /\ \A j \in DOMAIN blocks \ {i} : LET c == blocks[j] IN
                            b[1] + b[2] <= c[1] \/ c[1] + c[2] <= b[1]

(* The walk of mcount enters the arcs of a function without a test         *)
(* (alt_mcount.S:78-80): there is always one.                              *)
NeverEmpty == \A i \in DOMAIN list : list[i].arcs # <<>>

Places    == UNION {{i} \X DOMAIN list[i].arcs : i \in DOMAIN list}
Copies(a) == {c \in Places : /\ list[c[1]].self = a[1]
                             /\ list[c[1]].arcs[c[2]].from = a[2]}
Total(a)  == SumFunctionOnSet([c \in Places |-> list[c[1]].arcs[c[2]].count], Copies(a))

(* Every call is counted exactly once, in one of the copies of its arc,    *)
(* whatever the handlers record in the meantime; only an increment of the  *)
(* same arc between the program's load and its store is lost.              *)
CountsCalls == \A a \in Arc : /\ Total(a) <= calls[a]
                              /\ a \notin raced => Total(a) = calls[a]

(* A handler can make the program add a function or an arc again, once per *)
(* list: two copies of a function, so three of an arc.                     *)
FewCopies == /\ \A f \in Function : Cardinality({i \in DOMAIN list : list[i].self = f}) <= 2
             /\ \A a \in Arc : Cardinality(Copies(a)) <= 3

(* Samples land in the histogram, unless sbrk refused it or the text ends  *)
(* inside a bucket.                                                        *)
SamplesInside == stray => refused \/ TextBytes % BucketBytes # 0

(* "If we're within the profilable range then increment the relevant       *)
(* bucket in the histogram" (alt_gmon.c:260): also the last, short one.    *)
SamplesCounted == stray => refused

CallGraphOK == TypeOK /\ Apart /\ NeverEmpty /\ CountsCalls /\ FewCopies /\ SamplesInside

(* What alt_gmon.c:210-214 and :153-154 say: nios2_pcsample_init is called *)
(* until it returns zero, by code that copes with reentrancy.  So sampling *)
(* is started once.                                                        *)
StartedOnce == starts <= 1
=============================================================================
