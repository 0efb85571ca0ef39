------------------------------- MODULE DvpVi -------------------------------
(***************************************************************************)
(* avalon_dvp_vi (src/prj_qsys/avalon_dvp_vi/rtl): the input of the chain. *)
(* It switches between the sensor and a test generator, clock included,    *)
(* passes the stream on through one register and measures its frames, for  *)
(* the CPU to read.  Interrupts models int_frame_done and its mask.        *)
(*                                                                         *)
(* The steps are the edges of the two pixel clocks and the CPU's writes.   *)
(* The sensor sends frames of up to MaxLines lines of up to MaxPixels      *)
(* pixels, with a gap after each line and around vsync; it runs on when    *)
(* this module is in reset.                                                *)
(***************************************************************************)
EXTENDS Integers

CONSTANTS
  MaxPixels, MaxLines,
  H_FRONT, H_PULSE, H_BACK, H_DISP,     \* the generator's raster
  V_FRONT, V_PULSE, V_BACK, V_DISP,
  FrameBits,                            \* width of dvp_frame_cnt
  MaxWrites                             \* bound: the CPU's writes

VARIABLES
  module_reset, colorbar_en,
  cmos_href, cmos_vsync, cmos_frame,    \* the sensor; its frame so far
  gen_pix_cnt, gen_line_cnt, gen_href, gen_vsync,
  out_href, out_vsync, prev_href, prev_vsync,
  pix_cnt, line_cnt, dvp_width, dvp_height, dvp_frame_cnt,
  entered,      \* history: the frame that passes the switch
  ended,        \* history: the frame before it
  writes

sensor    == <<cmos_href, cmos_vsync, cmos_frame>>
generator == <<gen_pix_cnt, gen_line_cnt, gen_href, gen_vsync>>
out       == <<out_href, out_vsync>>
prev      == <<prev_href, prev_vsync>>
meter     == <<pix_cnt, line_cnt, dvp_width, dvp_height, dvp_frame_cnt>>
history   == <<entered, ended>>
vars == <<module_reset, colorbar_en, sensor, generator, out, prev, meter, history, writes>>

(* A frame as it passes: the pixels of the latest line, the lines begun,   *)
(* and whether it has been seen from its vsync on.                         *)
Frame(p, n, w) == [pixels |-> p, lines |-> n, whole |-> w]
NoFrame == Frame(0, 0, FALSE)

H_TOTAL == H_FRONT + H_PULSE + H_BACK + H_DISP
V_TOTAL == V_FRONT + V_PULSE + V_BACK + V_DISP

Init ==
  /\ module_reset = TRUE /\ colorbar_en = FALSE
  /\ cmos_href = FALSE /\ cmos_vsync \in BOOLEAN /\ cmos_frame = NoFrame
  /\ gen_pix_cnt = 0 /\ gen_line_cnt = 0 /\ gen_href = FALSE /\ gen_vsync = FALSE
  /\ out_href = FALSE /\ out_vsync = FALSE
  /\ prev_href \in BOOLEAN /\ prev_vsync \in BOOLEAN          \* never reset
  /\ pix_cnt = 0 /\ line_cnt = 0 /\ dvp_width = 0 /\ dvp_height = 0 /\ dvp_frame_cnt = 0
  /\ entered = NoFrame /\ ended = NoFrame /\ writes = 0

-----------------------------------------------------------------------------
(* The sensor's next pixel clock: a pixel, a gap, or vsync after a gap.    *)
Sensor ==
  \/ /\ cmos_href' = TRUE /\ cmos_vsync' = FALSE /\ ~cmos_vsync
     /\ IF cmos_href THEN cmos_frame.pixels < MaxPixels /\ cmos_frame' = [cmos_frame EXCEPT !.pixels = @ + 1]
        ELSE cmos_frame.lines < MaxLines
             /\ cmos_frame' = [cmos_frame EXCEPT !.pixels = 1, !.lines = @ + 1]
  \/ cmos_href' = FALSE /\ cmos_vsync' = FALSE /\ cmos_frame' = cmos_frame
  \/ cmos_href' = FALSE /\ cmos_vsync' = TRUE /\ ~cmos_href /\ cmos_frame' = NoFrame

(* dvp_raw_timing_colorbar, one posedge of xclk out of reset.              *)
Generator ==
  /\ gen_pix_cnt' = IF gen_pix_cnt < H_TOTAL - 1 THEN gen_pix_cnt + 1 ELSE 0
  /\ gen_line_cnt' = IF gen_pix_cnt # H_TOTAL - 1 THEN gen_line_cnt
                     ELSE IF gen_line_cnt < V_TOTAL - 1 THEN gen_line_cnt + 1 ELSE 0
  /\ gen_href' = (/\ gen_pix_cnt >= H_FRONT + H_PULSE + H_BACK
                  /\ gen_line_cnt >= V_FRONT + V_PULSE + V_BACK)
  /\ gen_vsync' = (gen_line_cnt >= V_FRONT /\ gen_line_cnt < V_FRONT + V_PULSE)

Measure_Late ==            \* mutant: a line's first pixel only clears the count
  /\ pix_cnt' = IF out_href /\ ~prev_href THEN 0
                ELSE IF out_href THEN pix_cnt + 1 ELSE pix_cnt
  /\ line_cnt' = IF prev_vsync /\ ~out_vsync THEN 0
                 ELSE IF prev_href /\ ~out_href THEN line_cnt + 1 ELSE line_cnt
  /\ IF out_vsync /\ ~prev_vsync
     THEN /\ dvp_width' = pix_cnt /\ dvp_height' = line_cnt
          /\ dvp_frame_cnt' = (dvp_frame_cnt + 1) % 2^FrameBits
     ELSE UNCHANGED <<dvp_width, dvp_height, dvp_frame_cnt>>

(* The counters, from the registered stream and its previous value.        *)
Measure ==
  /\ pix_cnt' = IF out_href /\ ~prev_href THEN 1
                ELSE IF out_href THEN pix_cnt + 1 ELSE pix_cnt
  /\ line_cnt' = IF prev_vsync /\ ~out_vsync THEN 0
                 ELSE IF prev_href /\ ~out_href THEN line_cnt + 1 ELSE line_cnt
  /\ IF out_vsync /\ ~prev_vsync
     THEN /\ dvp_width' = pix_cnt /\ dvp_height' = line_cnt
          /\ dvp_frame_cnt' = (dvp_frame_cnt + 1) % 2^FrameBits
     ELSE UNCHANGED <<dvp_width, dvp_height, dvp_frame_cnt>>

(* A change of source cuts the frame that is on its way.                   *)
AfterSwitch(f) == [f EXCEPT !.whole = @ /\ colorbar_en' = colorbar_en]

(* What passes the switch with the edge that takes href and vsync in.      *)
Passes(href, vsync) ==
  LET frame == AfterSwitch(entered)
  IN  IF vsync /\ ~out_vsync THEN entered' = AfterSwitch(Frame(0, 0, TRUE)) /\ ended' = frame
      ELSE /\ ended' = ended
           /\ entered' = CASE href /\ ~out_href -> [frame EXCEPT !.pixels = 1, !.lines = @ + 1]
                           [] href /\ out_href -> [frame EXCEPT !.pixels = @ + 1]
                           [] OTHER -> frame

(* One posedge of out_pclk.                                                *)
Edge(href, vsync) ==
  /\ out_href' = href /\ out_vsync' = vsync
  /\ prev_href' = out_href /\ prev_vsync' = out_vsync
  /\ Measure /\ Passes(href, vsync)
NoEdge == UNCHANGED <<out, prev, meter, ended>> /\ entered' = AfterSwitch(entered)

(* The sensor's pclk: its rising edge, then the sensor's next data.        *)
Pclk ==
  /\ UNCHANGED <<module_reset, colorbar_en, generator, writes>>
  /\ IF module_reset \/ colorbar_en THEN NoEdge ELSE Edge(cmos_href, cmos_vsync)
  /\ Sensor

(* xclk: the generator steps on its rising edge; gen_pclk is its inverse.  *)
Xclk ==
  /\ UNCHANGED <<module_reset, colorbar_en, sensor, writes>>
  /\ IF module_reset THEN UNCHANGED generator ELSE Generator
  /\ IF module_reset \/ ~colorbar_en THEN NoEdge ELSE Edge(gen_href', gen_vsync')

(* The clock that is passed on from now on may be high just then, and that *)
(* is an edge.                                                             *)
EdgeOrNot == \/ IF colorbar_en' THEN Edge(gen_href, gen_vsync) ELSE Edge(cmos_href, cmos_vsync)
             \/ NoEdge

(* REG_RESET: reset holds everything but the two prev registers, which     *)
(* keep the stream's last values because the clock stops with it.          *)
WriteReset ==
  /\ writes < MaxWrites /\ writes' = writes + 1
  /\ module_reset' = ~module_reset /\ UNCHANGED <<colorbar_en, sensor>>
  /\ IF module_reset' THEN
       /\ out_href' = FALSE /\ out_vsync' = FALSE
       /\ pix_cnt' = 0 /\ line_cnt' = 0
       /\ dvp_width' = 0 /\ dvp_height' = 0 /\ dvp_frame_cnt' = 0
       /\ gen_pix_cnt' = 0 /\ gen_line_cnt' = 0 /\ gen_href' = FALSE /\ gen_vsync' = FALSE
       /\ entered' = NoFrame /\ ended' = NoFrame /\ UNCHANGED prev
     ELSE EdgeOrNot /\ UNCHANGED generator

(* REG_COLORBAR_EN: the clock switches with the data.                      *)
WriteColorbar ==
  /\ writes < MaxWrites /\ writes' = writes + 1
  /\ colorbar_en' = ~colorbar_en
  /\ IF module_reset THEN NoEdge ELSE EdgeOrNot
  /\ UNCHANGED <<module_reset, sensor, generator>>

Next == Pclk \/ Xclk \/ WriteReset \/ WriteColorbar

-----------------------------------------------------------------------------
(* avalon_dvp_vi.v:154-194: once the counters have taken a frame over, the *)
(* CPU reads the size of the frame that has just ended, pixels of its last *)
(* line and lines, whatever came before: a start in the middle of a frame, *)
(* a stale prev_href, a change of source.  A frame cut by one of them may  *)
(* be measured wrong, the next one is right.                               *)
FrameMeasured ==
  out_vsync /\ prev_vsync /\ ended.whole =>
    (ended.lines > 0 => dvp_width = ended.pixels) /\ dvp_height = ended.lines
=============================================================================
