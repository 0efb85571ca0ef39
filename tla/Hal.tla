-------------------------------- MODULE Hal --------------------------------
(***************************************************************************)
(* Two parts of the HAL that share no state: the file table, and the       *)
(* memory that the caches, the loader, DMA and the flash interface look    *)
(* after.                                                                  *)
(***************************************************************************)
EXTENDS FileTable

CONSTANTS LineWords, DSets, ISets, Initda,                    \* see Coherence
          Buffer, ProgramData, Flash, Code, Section

VARIABLES flushda, mem, dcache, icache, stage, copied, use, device, handle, unsynced

Mem == INSTANCE Coherence

memory == <<flushda, mem, dcache, icache, stage, copied, use, device, handle, unsynced>>

Region == [start : Nat, len : Nat]
LinesOf(r) == {Mem!Line(w) : w \in Mem!Words(r)}

(* The lines a flush of a buffer visits: its own and, when it starts       *)
(* inside a line, perhaps the one after it, which is discarded without     *)
(* being written back where a receive is prepared.                         *)
Touched(b) == {Mem!Line(a) : a \in Mem!Visited(b.start, b.len)}

(* No two regions share a line, and no flush of a buffer reaches another.  *)
RegionsApart ==
  /\ LineWords \in Nat \ {0} /\ DSets \in Nat \ {0} /\ ISets \in Nat \ {0}
  /\ Buffer \union {ProgramData, Flash, Code} \subseteq Region
  /\ LinesOf(ProgramData) \intersect LinesOf(Flash) = {}
  /\ LinesOf(ProgramData) \intersect LinesOf(Code) = {}
  /\ LinesOf(Flash) \intersect LinesOf(Code) = {}
  /\ \A b \in Buffer : \A r \in (Buffer \ {b}) \union {ProgramData, Flash, Code} :
       Touched(b) \intersect LinesOf(r) = {}

(* What is loaded goes to data or code, from one of these or from flash.   *)
SectionsPlaced ==
  \A x \in DOMAIN Mem!After :
    /\ Section[x].from \in Nat /\ Section[x].to \in Nat /\ Section[x].len \in Nat
    /\ Section[x].to # Section[x].from =>
         \A k \in 0 .. Section[x].len - 1 :
           /\ Section[x].from + k \in Mem!Words(ProgramData) \union Mem!Words(Flash)
                                        \union Mem!Words(Code)
           /\ Section[x].to + k \in Mem!Words(ProgramData) \union Mem!Words(Code)

ASSUME MemoryAssumption == RegionsApart /\ SectionsPlaced

HalInit == Init /\ Mem!Init

HalNext == \/ Next /\ UNCHANGED memory
           \/ Mem!Next /\ UNCHANGED vars

HalSpec == HalInit /\ [][HalNext]_<<vars, memory>>

-----------------------------------------------------------------------------
(* The program and every device see each other's data.                     *)
SafeMemory == Mem!SafeMemory
=============================================================================
