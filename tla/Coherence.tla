----------------------------- MODULE Coherence -----------------------------
(***************************************************************************)
(* Memory as the HAL sees it: the flush and remap functions of             *)
(* alt_cache.h, the loader (alt_load), and the flash and DMA interfaces    *)
(* that rely on them.                                                      *)
(*                                                                         *)
(* What a word holds does not matter, only which of its copies are the     *)
(* last value written: `fresh' for a cached line, `mem' for the memory.    *)
(* The caches are direct mapped; the data cache is written back.  A line   *)
(* number is an address divided by the line size, a set is its remainder.  *)
(*                                                                         *)
(* The program keeps to what the functions are for: a buffer is used       *)
(* through one kind of pointer at a time, is left alone while a transfer   *)
(* is posted for it, and shares no cache line with anything else.          *)
(***************************************************************************)
EXTENDS Integers, FiniteSets, Sequences

CONSTANTS LineWords,      \* NIOS2_DCACHE_LINE_SIZE, NIOS2_ICACHE_LINE_SIZE
          DSets, ISets,   \* lines in each cache
          Initda,         \* NIOS2_INITDA_SUPPORTED
          Buffer,         \* regions the program uses for transfers
          ProgramData,    \* a region for everything else
          Flash, Code,    \* the regions of a flash device and of code in RAM
          Section         \* what is loaded: for each name its from, to and length

VARIABLES flushda,        \* NIOS2_FLUSHDA_SUPPORTED: how the CPU is configured
          mem, dcache, icache,
          stage, copied,  \* the loader: the section, words of it copied
          use,            \* of each buffer: what the program may do with it
          device,         \* registered devices
          handle,         \* what the program's open calls returned
          unsynced        \* flash words changed without a flush

data   == <<mem, dcache>>
config == <<device, handle>>
vars   == <<flushda, mem, dcache, icache, stage, copied, use, device, handle, unsynced>>

Words(r)  == r.start .. r.start + r.len - 1
Line(w)   == w \div LineWords
LineOf(l) == l * LineWords .. l * LineWords + LineWords - 1
Empty     == [line |-> -1, dirty |-> FALSE, fresh |-> {}]
Holds(c, l, n) == c[l % n].line = l
AllWords  == UNION {Words(r) : r \in Buffer \union {ProgramData, Flash, Code}}

Init == /\ flushda \in BOOLEAN
        /\ mem = AllWords
        /\ dcache = [x \in 0 .. DSets - 1 |-> Empty]
        /\ icache = [x \in 0 .. ISets - 1 |-> Empty]
        /\ stage = "rwdata" /\ copied = 0
        /\ use = [b \in Buffer |-> "free"]
        /\ device = {} /\ handle = [d \in {"flash", "tx", "rx"} |-> "NULL"]
        /\ unsynced = {}

-----------------------------------------------------------------------------
(* The caches.  Memory and data cache together: s.mem, s.lines.            *)

Here == [mem |-> mem, lines |-> dcache]
Becomes(s) == mem' = s.mem /\ dcache' = s.lines

Dropped(lines, sets) == [x \in DOMAIN lines |-> IF x \in sets THEN Empty ELSE lines[x]]

Flushed(s, sets) ==
  LET dirty == {x \in sets : s.lines[x].dirty}
  IN  [mem   |-> (s.mem \ UNION {LineOf(s.lines[x].line) : x \in dirty})
                   \union UNION {s.lines[x].fresh : x \in dirty},
       lines |-> Dropped(s.lines, sets)]

(* A cached access brings the line in, over the one that was there.        *)
Filled(s, l) ==
  IF Holds(s.lines, l, DSets) THEN s
  ELSE LET t == Flushed(s, {l % DSets})
       IN  [t EXCEPT !.lines[l % DSets] =
              [line |-> l, dirty |-> FALSE, fresh |-> t.mem \intersect LineOf(l)]]

Stored(s, w) ==
  LET t == Filled(s, Line(w))
  IN  [mem   |-> t.mem \ {w},
       lines |-> [t.lines EXCEPT ![Line(w) % DSets] =
                    [line |-> Line(w), dirty |-> TRUE, fresh |-> @.fresh \union {w}]]]

(* Written behind the data cache.                                          *)
Bypassed(s, ws) ==
  [mem   |-> s.mem \union ws,
   lines |-> [x \in DOMAIN s.lines |-> [s.lines[x] EXCEPT !.fresh = @ \ ws]]]

Outdated(ws) == icache' = [x \in DOMAIN icache |-> [icache[x] EXCEPT !.fresh = @ \ ws]]

(* The addresses a flush loop visits: one for each line from the start,    *)
(* and one more when the start is not the start of a line.                 *)
Visited_NoExtra(start, len) ==      \* mutant: the extra line is forgotten
  {start + LineWords * k : k \in 0 .. (len + LineWords - 1) \div LineWords - 1}

Visited(start, len) ==
  LET n == (len + LineWords - 1) \div LineWords
  IN  {start + LineWords * k : k \in 0 .. IF start % LineWords = 0 THEN n - 1 ELSE n}

VisitedSets(start, len, size) ==
  {Line(a) % size : a \in Visited(start, IF len > size * LineWords THEN size * LineWords ELSE len)}

(* flushda looks for the address, flushd takes whatever is in its set.     *)
alt_dcache_flush(s, start, len) ==
  Flushed(s, IF flushda
             THEN {Line(a) % DSets : a \in {v \in Visited(start, len) :
                                              Holds(s.lines, Line(v), DSets)}}
             ELSE VisitedSets(start, len, DSets))

alt_dcache_flush_all(s) == Flushed(s, {Line(LineWords * k) % DSets : k \in 0 .. DSets - 1})

alt_dcache_flush_no_writeback(s, start, len) ==
  [s EXCEPT !.lines = Dropped(@, {Line(a) % DSets : a \in {v \in Visited(start, len) :
                                     Initda /\ Holds(s.lines, Line(v), DSets)}})]

alt_icache_flush(start, len) == Dropped(icache, VisitedSets(start, len, ISets))
alt_icache_flush_all         == alt_icache_flush(0, ISets * LineWords)

-----------------------------------------------------------------------------
(* alt_load at start-up, or one section (ALT_LOAD_SECTION_BY_NAME) loaded  *)
(* by the program, which then makes the code visible to instruction        *)
(* fetches.                                                                *)

After == [rwdata |-> "exceptions", exceptions |-> "rodata", rodata |-> "flush all",
          overlay |-> "flush overlay"]

alt_load_section ==
  /\ stage \in DOMAIN After
  /\ LET sec == Section[stage]
     IN  IF sec.to = sec.from \/ copied = sec.len
         THEN /\ stage' = After[stage] /\ copied' = 0
              /\ UNCHANGED <<data, icache>>
         ELSE /\ Becomes(Stored(Filled(Here, Line(sec.from + copied)), sec.to + copied))
              /\ Outdated({sec.to + copied})
              /\ copied' = copied + 1 /\ UNCHANGED stage
  /\ UNCHANGED <<flushda, use, config, unsynced>>

Loaded(flush, d, i) == /\ stage = flush /\ stage' = "run"
                       /\ Becomes(d) /\ icache' = i
                       /\ UNCHANGED <<flushda, copied, use, config, unsynced>>

alt_load == Loaded("flush all", alt_dcache_flush_all(Here), alt_icache_flush_all)

Load_overlay == /\ stage = "run" /\ stage' = "overlay"
                /\ UNCHANGED <<flushda, data, icache, copied, use, config, unsynced>>
Flush_overlay == Loaded("flush overlay", alt_dcache_flush(Here, Code.start, Code.len),
                        alt_icache_flush(Code.start, Code.len))

-----------------------------------------------------------------------------
(* The program's accesses.  What it reads makes no difference, only the    *)
(* line that a read brings in.                                             *)

Running == stage = "run"
Only_data == UNCHANGED <<flushda, icache, stage, copied, use, config, unsynced>>

CachedWords == Words(ProgramData) \union UNION {Words(b) : b \in {x \in Buffer : use[x] = "cached"}}

Fetch(w) == /\ Running /\ w \in Words(Code)
            /\ icache' = IF Holds(icache, Line(w), ISets) THEN icache
                         ELSE [icache EXCEPT ![Line(w) % ISets] =
                                 [line |-> Line(w), dirty |-> FALSE,
                                  fresh |-> mem \intersect LineOf(Line(w))]]
            /\ UNCHANGED <<flushda, data, stage, copied, use, config, unsynced>>

Read(w)  == /\ Running /\ w \in CachedWords \union Words(Flash)
            /\ Becomes(Filled(Here, Line(w))) /\ Only_data
Write(w) == /\ Running /\ w \in CachedWords /\ Becomes(Stored(Here, w)) /\ Only_data
Write_uncached(w) == /\ Running
                     /\ w \in UNION {Words(b) : b \in {x \in Buffer : use[x] = "uncached"}}
                     /\ Becomes(Bypassed(Here, {w})) /\ Only_data

(* A buffer changes hands.                                                 *)
Hand(b, from, to) == /\ Running /\ use[b] = from /\ use' = [use EXCEPT ![b] = to]
                     /\ UNCHANGED <<flushda, icache, stage, copied, config, unsynced>>

malloc(b)             == Hand(b, "free", "cached") /\ UNCHANGED data
free(b)               == Hand(b, "cached", "free") /\ UNCHANGED data
alt_uncached_malloc(b) == /\ Hand(b, "free", "uncached")
                          /\ Becomes(alt_dcache_flush(Here, b.start, b.len))
alt_uncached_free(b)  == Hand(b, "uncached", "free") /\ UNCHANGED data
alt_remap_uncached(b) == /\ Hand(b, "cached", "uncached")
                         /\ Becomes(alt_dcache_flush(Here, b.start, b.len))
alt_remap_cached(b)   == Hand(b, "uncached", "cached") /\ UNCHANGED data

-----------------------------------------------------------------------------
(* Devices: registered once, found by name.                                *)

Register(d) == /\ Running /\ d \notin device /\ device' = device \union {d}
               /\ UNCHANGED <<flushda, data, icache, stage, copied, use, handle, unsynced>>
alt_dma_txchan_reg        == Register("tx")
alt_dma_rxchan_reg        == Register("rx")
alt_flash_device_register == Register("flash")

Open(d) == /\ Running /\ handle' = [handle EXCEPT ![d] = IF d \in device THEN d ELSE "NULL"]
           /\ UNCHANGED <<flushda, data, icache, stage, copied, use, device, unsynced>>
alt_dma_txchan_open == Open("tx")
alt_dma_rxchan_open == Open("rx")

(* The open function of a flash driver may refuse.                         *)
alt_flash_open_dev == \/ Open("flash")
                      \/ /\ Running /\ "flash" \in device
                         /\ handle' = [handle EXCEPT !["flash"] = "NULL"]
                         /\ UNCHANGED <<flushda, data, icache, stage, copied, use, device,
                                        unsynced>>
alt_flash_close_dev == /\ Running /\ handle' = [handle EXCEPT !["flash"] = "NULL"]
                       /\ UNCHANGED <<flushda, data, icache, stage, copied, use, device, unsynced>>

(* DMA: what is posted has been flushed by hand or is used uncached.  A    *)
(* receive into cached memory discards the lines first.  Without a channel *)
(* nothing is posted.                                                      *)
alt_dma_txchan_send(b) ==
  /\ handle["tx"] # "NULL"
  /\ \/ Hand(b, "uncached", "posted") /\ UNCHANGED data
     \/ Hand(b, "cached", "posted cached") /\ Becomes(alt_dcache_flush(Here, b.start, b.len))

alt_dma_rxchan_prepare(b) ==
  /\ handle["rx"] # "NULL"
  /\ \/ Hand(b, "uncached", "filling") /\ UNCHANGED data
     \/ /\ Hand(b, "cached", "filling cached")
        /\ Becomes(alt_dcache_flush_no_writeback(Here, b.start, b.len))

(* The transfer ends: a receive has replaced the buffer.                   *)
Sent(b) == \/ Hand(b, "posted", "uncached") /\ UNCHANGED data
           \/ Hand(b, "posted cached", "cached") /\ UNCHANGED data
Received(b) == /\ \/ Hand(b, "filling", "uncached") \/ Hand(b, "filling cached", "cached")
               /\ Becomes(Bypassed(Here, Words(b)))

-----------------------------------------------------------------------------
(* Flash: a part of it is changed behind the cache, and flushed if the     *)
(* driver reports success.                                                 *)

Changed(part, ok) ==
  LET s == Bypassed(Here, Words(part))
  IN  /\ Running /\ handle["flash"] # "NULL"
      /\ Becomes(IF ok THEN alt_dcache_flush(s, part.start, part.len) ELSE s)
      /\ unsynced' = IF ok THEN unsynced \ Words(part) ELSE unsynced \union Words(part)
      /\ UNCHANGED <<flushda, icache, stage, copied, use, config>>

alt_erase_flash_block(ok) == Changed(Flash, ok)
alt_write_flash_block(part, ok) == Changed(part, ok)

(* Flushing is left to the driver.                                         *)
alt_write_flash(part) == Changed(part, FALSE)

-----------------------------------------------------------------------------
FlashPart == [start : Words(Flash), len : 1 .. Flash.len]

Next == \/ alt_load_section \/ alt_load \/ Load_overlay \/ Flush_overlay
        \/ \E w \in AllWords : Fetch(w) \/ Read(w) \/ Write(w) \/ Write_uncached(w)
        \/ alt_dma_txchan_reg \/ alt_dma_rxchan_reg \/ alt_flash_device_register
        \/ alt_dma_txchan_open \/ alt_dma_rxchan_open
        \/ alt_flash_open_dev \/ alt_flash_close_dev
        \/ \E b \in Buffer :
             \/ malloc(b) \/ free(b) \/ alt_uncached_malloc(b) \/ alt_uncached_free(b)
             \/ alt_remap_uncached(b) \/ alt_remap_cached(b)
             \/ alt_dma_txchan_send(b) \/ alt_dma_rxchan_prepare(b) \/ Sent(b) \/ Received(b)
        \/ \E ok \in BOOLEAN :
             \/ alt_erase_flash_block(ok)
             \/ \E part \in FlashPart : Words(part) \subseteq Words(Flash)
                                       /\ alt_write_flash_block(part, ok)
        \/ \E part \in FlashPart : Words(part) \subseteq Words(Flash) /\ alt_write_flash(part)

Spec == Init /\ [][Next]_vars

-----------------------------------------------------------------------------
Lines == [line : Int, dirty : BOOLEAN, fresh : SUBSET Int]

(* A cached line is in its own set and holds words of its own.             *)
TypeOK == /\ mem \subseteq AllWords
          /\ \A x \in 0 .. DSets - 1 : /\ dcache[x] \in Lines
                                       /\ dcache[x] # Empty => /\ dcache[x].line % DSets = x
                                                               /\ dcache[x].fresh \subseteq LineOf(dcache[x].line)
          /\ use \in [Buffer -> {"free", "cached", "uncached", "posted", "posted cached",
                                 "filling", "filling cached"}]
          /\ unsynced \subseteq Words(Flash)

Seen(c, w, n) == IF Holds(c, Line(w), n) THEN w \in c[Line(w) % n].fresh ELSE w \in mem
InUse(uses) == UNION {Words(b) : b \in {x \in Buffer : use[x] \in uses}}

(* Every read gives the last value written: of the program through either  *)
(* kind of pointer, of a device that sends a buffer, of an instruction     *)
(* fetch, and of the flash unless its last operation failed or was left to *)
(* the driver.                                                             *)
Coherent ==
  Running =>
    /\ \A w \in Words(ProgramData) \union InUse({"cached"}) \union (Words(Flash) \ unsynced) :
         Seen(dcache, w, DSets)
    /\ InUse({"uncached", "posted", "posted cached"}) \subseteq mem
    /\ \A w \in Words(Code) : Seen(icache, w, ISets)

SafeMemory == TypeOK /\ Coherent
=============================================================================
