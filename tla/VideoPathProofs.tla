-------------------------- MODULE VideoPathProofs --------------------------
(***************************************************************************)
(* The image path sees the stream right, whatever the sizes of the frames: *)
(* the frame meter, the scaler, the windows of the ISP and the histogram,  *)
(* one after the other, each with its inductive invariant.                 *)
(***************************************************************************)
EXTENDS VideoPath, SequenceTheorems, FiniteSetTheorems, WellFoundedInduction, TLAPS

-----------------------------------------------------------------------------
(* The frame meter (avalon_dvp_vi.v).                                      *)

(* No href next to vsync: not in one pixel, not in the next.               *)
Legal(href, vsync) ==
  /\ ~(href /\ vsync)
  /\ out_vsync => ~href
  /\ out_href => ~vsync

FrameOK(f) ==
  /\ f = [pixels |-> f.pixels, lines |-> f.lines, whole |-> f.whole]
  /\ f.pixels \in Nat /\ f.lines \in Nat /\ f.whole \in BOOLEAN

ViTypes ==
  /\ module_reset \in BOOLEAN /\ colorbar_en \in BOOLEAN
  /\ cmos_href \in BOOLEAN /\ cmos_vsync \in BOOLEAN /\ ~(cmos_href /\ cmos_vsync)
  /\ gen_pix_cnt \in 0 .. Vi!H_TOTAL - 1 /\ gen_line_cnt \in 0 .. Vi!V_TOTAL - 1
  /\ gen_href \in BOOLEAN /\ gen_vsync \in BOOLEAN
  /\ out_href \in BOOLEAN /\ out_vsync \in BOOLEAN
  /\ prev_href \in BOOLEAN /\ prev_vsync \in BOOLEAN
  /\ vi_pix_cnt \in Nat /\ vi_line_cnt \in Nat
  /\ FrameOK(entered) /\ FrameOK(ended)

(* Where the generator's counters are behind a pixel of a line or vsync.   *)
GeneratorOK ==
  /\ ~(gen_href /\ gen_vsync)
  /\ gen_vsync => gen_line_cnt < V_FRONT + V_PULSE + V_BACK \/ gen_pix_cnt = 0
  /\ gen_href => gen_line_cnt >= V_FRONT + V_PULSE + V_BACK \/ gen_line_cnt = 0

(* A frame seen whole comes from one source, and its next pixel fits.      *)
SourceOK ==
  entered.whole =>
    /\ ~module_reset
    /\ colorbar_en => out_href = gen_href /\ out_vsync = gen_vsync
    /\ ~colorbar_en => Legal(cmos_href, cmos_vsync)

(* The counters count the frame that is on its way, one edge late.         *)
CountOK ==
  entered.whole =>
    /\ ~(out_href /\ out_vsync)
    /\ out_vsync => entered.lines = 0
    /\ prev_vsync => ~out_href /\ entered.lines = 0
    /\ prev_vsync \/ out_vsync \/
         entered.lines = vi_line_cnt + (IF out_href \/ prev_href THEN 1 ELSE 0)
    /\ out_href => entered.lines > 0
                   /\ entered.pixels = IF prev_href THEN vi_pix_cnt + 1 ELSE 1
    /\ ~out_href /\ entered.lines > 0 => entered.pixels = vi_pix_cnt

(* ... and are ready when vsync comes.                                     *)
ReadyOK ==
  out_vsync /\ ~prev_vsync /\ ended.whole =>
    (ended.lines > 0 => vi_pix_cnt = ended.pixels) /\ vi_line_cnt = ended.lines

InputIInv == ViTypes /\ GeneratorOK /\ SourceOK /\ CountOK /\ ReadyOK /\ Vi!FrameMeasured

LEMMA InitInputIInv == Vi!Init => InputIInv
<1> SUFFICES ASSUME Vi!Init PROVE InputIInv
  OBVIOUS
<1>1. FrameOK(Vi!NoFrame) /\ ~Vi!NoFrame.whole
  BY DEF FrameOK, Vi!NoFrame, Vi!Frame
<1>2. 0 \in 0 .. Vi!H_TOTAL - 1 /\ 0 \in 0 .. Vi!V_TOTAL - 1
  BY RasterAssumption DEF Vi!H_TOTAL, Vi!V_TOTAL
<1> QED
  BY <1>1, <1>2 DEF Vi!Init, InputIInv, ViTypes, GeneratorOK, SourceOK, CountOK, ReadyOK,
     Vi!FrameMeasured

LEMMA SwitchIs ==
  ASSUME NEW f, FrameOK(f), colorbar_en \in BOOLEAN, colorbar_en' \in BOOLEAN
  PROVE  /\ FrameOK(Vi!AfterSwitch(f))
         /\ Vi!AfterSwitch(f).pixels = f.pixels /\ Vi!AfterSwitch(f).lines = f.lines
         /\ Vi!AfterSwitch(f).whole => f.whole /\ colorbar_en' = colorbar_en
BY DEF Vi!AfterSwitch, FrameOK

LEMMA PassesIs ==
  ASSUME NEW href \in BOOLEAN, NEW vsync \in BOOLEAN, ViTypes, colorbar_en' \in BOOLEAN,
         Vi!Passes(href, vsync)
  PROVE  /\ FrameOK(entered') /\ FrameOK(ended')
         /\ entered'.whole => colorbar_en' = colorbar_en
         /\ vsync /\ ~out_vsync =>
              /\ entered'.lines = 0
              /\ ended'.lines = entered.lines /\ ended'.pixels = entered.pixels
              /\ ended'.whole => entered.whole /\ colorbar_en' = colorbar_en
         /\ ~(vsync /\ ~out_vsync) =>
              /\ ended' = ended
              /\ entered'.whole => entered.whole
              /\ entered'.lines = IF href /\ ~out_href THEN entered.lines + 1 ELSE entered.lines
              /\ entered'.pixels = IF ~href THEN entered.pixels
                                   ELSE IF out_href THEN entered.pixels + 1 ELSE 1
<1> DEFINE f == Vi!AfterSwitch(entered)
           g == Vi!AfterSwitch(Vi!Frame(0, 0, TRUE))
<1>1. /\ FrameOK(f) /\ f.pixels = entered.pixels /\ f.lines = entered.lines
      /\ f.whole => entered.whole /\ colorbar_en' = colorbar_en
  BY SwitchIs DEF ViTypes
<1>2. FrameOK(Vi!Frame(0, 0, TRUE)) /\ Vi!Frame(0, 0, TRUE).lines = 0
  BY DEF FrameOK, Vi!Frame
<1>3. FrameOK(g) /\ g.lines = 0 /\ (g.whole => colorbar_en' = colorbar_en)
  BY <1>2, SwitchIs DEF ViTypes
<1> HIDE DEF f, g
<1>4. CASE vsync /\ ~out_vsync
  <2>1. entered' = g /\ ended' = f
    BY <1>4 DEF Vi!Passes, f, g
  <2> QED BY <1>1, <1>3, <1>4, <2>1
<1>5. CASE ~(vsync /\ ~out_vsync)
  <2>1. ended' = ended
    BY <1>5 DEF Vi!Passes
  <2>2. CASE href /\ ~out_href
    <3>1. entered' = [f EXCEPT !.pixels = 1, !.lines = @ + 1]
      BY <1>5, <2>2 DEF Vi!Passes, f
    <3>2. entered' = [pixels |-> 1, lines |-> f.lines + 1, whole |-> f.whole]
      BY <1>1, <3>1 DEF FrameOK
    <3>3. /\ FrameOK(entered') /\ entered'.pixels = 1 /\ entered'.lines = f.lines + 1
          /\ entered'.whole = f.whole
      BY <1>1, <3>2 DEF FrameOK
    <3> QED BY <1>1, <1>5, <2>1, <2>2, <3>3 DEF ViTypes
  <2>3. CASE href /\ out_href
    <3>1. entered' = [f EXCEPT !.pixels = @ + 1]
      BY <1>5, <2>3 DEF Vi!Passes, f
    <3>2. /\ FrameOK(entered') /\ entered'.pixels = f.pixels + 1 /\ entered'.lines = f.lines
          /\ entered'.whole = f.whole
      BY <1>1, <3>1 DEF FrameOK
    <3> QED BY <1>1, <1>5, <2>1, <2>3, <3>2 DEF ViTypes
  <2>4. CASE ~href
    <3>1. entered' = f
      BY <1>5, <2>4 DEF Vi!Passes, f
    <3> QED BY <1>1, <1>5, <2>1, <2>4, <3>1 DEF ViTypes
  <2> QED BY <2>2, <2>3, <2>4 DEF ViTypes
<1> QED BY <1>4, <1>5

(* What an edge leaves of the invariant.                                   *)
Counted ==
  /\ out_href \in BOOLEAN /\ out_vsync \in BOOLEAN
  /\ prev_href \in BOOLEAN /\ prev_vsync \in BOOLEAN
  /\ vi_pix_cnt \in Nat /\ vi_line_cnt \in Nat
  /\ FrameOK(entered) /\ FrameOK(ended)
  /\ CountOK /\ ReadyOK /\ Vi!FrameMeasured

LEMMA EdgeCounts ==
  ASSUME NEW href \in BOOLEAN, NEW vsync \in BOOLEAN, InputIInv, colorbar_en' \in BOOLEAN,
         Vi!Edge(href, vsync), ~(href /\ vsync),
         entered.whole /\ colorbar_en' = colorbar_en => Legal(href, vsync)
  PROVE  Counted' /\ (entered'.whole => colorbar_en' = colorbar_en)
<1>1. /\ FrameOK(entered') /\ FrameOK(ended')
      /\ entered'.whole => colorbar_en' = colorbar_en
      /\ vsync /\ ~out_vsync =>
           /\ entered'.lines = 0
           /\ ended'.lines = entered.lines /\ ended'.pixels = entered.pixels
           /\ ended'.whole => entered.whole /\ colorbar_en' = colorbar_en
      /\ ~(vsync /\ ~out_vsync) =>
           /\ ended' = ended
           /\ entered'.whole => entered.whole
           /\ entered'.lines = IF href /\ ~out_href THEN entered.lines + 1 ELSE entered.lines
           /\ entered'.pixels = IF ~href THEN entered.pixels
                                ELSE IF out_href THEN entered.pixels + 1 ELSE 1
  BY PassesIs DEF Vi!Edge, InputIInv
<1>2. /\ out_href' = href /\ out_vsync' = vsync
      /\ prev_href' = out_href /\ prev_vsync' = out_vsync
      /\ vi_pix_cnt' = IF out_href /\ ~prev_href THEN 1
                       ELSE IF out_href THEN vi_pix_cnt + 1 ELSE vi_pix_cnt
      /\ vi_line_cnt' = IF prev_vsync /\ ~out_vsync THEN 0
                        ELSE IF prev_href /\ ~out_href THEN vi_line_cnt + 1 ELSE vi_line_cnt
      /\ out_vsync /\ ~prev_vsync => dvp_width' = vi_pix_cnt /\ dvp_height' = vi_line_cnt
      /\ ~(out_vsync /\ ~prev_vsync) => dvp_width' = dvp_width /\ dvp_height' = dvp_height
  BY DEF Vi!Edge, Vi!Measure
<1>3. /\ out_href \in BOOLEAN /\ out_vsync \in BOOLEAN
      /\ prev_href \in BOOLEAN /\ prev_vsync \in BOOLEAN
      /\ vi_pix_cnt \in Nat /\ vi_line_cnt \in Nat
      /\ entered.pixels \in Nat /\ entered.lines \in Nat
  BY DEF InputIInv, ViTypes, FrameOK
<1>4. vi_pix_cnt' \in Nat /\ vi_line_cnt' \in Nat
  BY <1>2, <1>3
<1>5. CountOK'
  <2> SUFFICES ASSUME entered'.whole
      PROVE  /\ ~(out_href' /\ out_vsync')
             /\ out_vsync' => entered'.lines = 0
             /\ prev_vsync' => ~out_href' /\ entered'.lines = 0
             /\ prev_vsync' \/ out_vsync' \/
                  entered'.lines = vi_line_cnt' + (IF out_href' \/ prev_href' THEN 1 ELSE 0)
             /\ out_href' => entered'.lines > 0
                             /\ entered'.pixels = IF prev_href' THEN vi_pix_cnt' + 1 ELSE 1
             /\ ~out_href' /\ entered'.lines > 0 => entered'.pixels = vi_pix_cnt'
    BY DEF CountOK
  <2>1. CASE vsync /\ ~out_vsync
    BY <1>1, <1>2, <1>3, <2>1
  <2>2. CASE ~(vsync /\ ~out_vsync)
    <3>1. /\ entered.whole /\ Legal(href, vsync)
          /\ ~(out_href /\ out_vsync)
          /\ out_vsync => entered.lines = 0
          /\ prev_vsync => ~out_href /\ entered.lines = 0
          /\ prev_vsync \/ out_vsync \/
               entered.lines = vi_line_cnt + (IF out_href \/ prev_href THEN 1 ELSE 0)
          /\ out_href => entered.lines > 0
                         /\ entered.pixels = IF prev_href THEN vi_pix_cnt + 1 ELSE 1
          /\ ~out_href /\ entered.lines > 0 => entered.pixels = vi_pix_cnt
      BY <1>1, <2>2 DEF InputIInv, CountOK
    <3> QED BY <1>1, <1>2, <1>3, <2>2, <3>1 DEF Legal
  <2> QED BY <2>1, <2>2
<1>6. ReadyOK'
  <2> SUFFICES ASSUME vsync, ~out_vsync, ended'.whole
      PROVE  (ended'.lines > 0 => vi_pix_cnt' = ended'.pixels) /\ vi_line_cnt' = ended'.lines
    BY <1>2 DEF ReadyOK
  <2>1. /\ entered.whole /\ Legal(href, vsync)
        /\ prev_vsync => ~out_href /\ entered.lines = 0
        /\ prev_vsync \/ entered.lines = vi_line_cnt + (IF out_href \/ prev_href THEN 1 ELSE 0)
        /\ ~out_href /\ entered.lines > 0 => entered.pixels = vi_pix_cnt
    BY <1>1 DEF InputIInv, CountOK
  <2> QED BY <1>1, <1>2, <1>3, <2>1 DEF Legal
<1>7. Vi!FrameMeasured'
  <2> SUFFICES ASSUME vsync, out_vsync, ended'.whole
      PROVE  (ended'.lines > 0 => dvp_width' = ended'.pixels) /\ dvp_height' = ended'.lines
    BY <1>2 DEF Vi!FrameMeasured
  <2> QED BY <1>1, <1>2, <1>3 DEF InputIInv, ReadyOK, Vi!FrameMeasured
<1> QED BY <1>1, <1>2, <1>3, <1>4, <1>5, <1>6, <1>7 DEF Counted

LEMMA NoEdgeCounts ==
  ASSUME InputIInv, colorbar_en' \in BOOLEAN, Vi!NoEdge
  PROVE  Counted' /\ (entered'.whole => entered.whole /\ colorbar_en' = colorbar_en)
<1>1. /\ FrameOK(entered') /\ entered'.pixels = entered.pixels /\ entered'.lines = entered.lines
      /\ entered'.whole => entered.whole /\ colorbar_en' = colorbar_en
  BY SwitchIs DEF Vi!NoEdge, InputIInv, ViTypes
<1>2. /\ out_href' = out_href /\ out_vsync' = out_vsync
      /\ prev_href' = prev_href /\ prev_vsync' = prev_vsync
      /\ vi_pix_cnt' = vi_pix_cnt /\ vi_line_cnt' = vi_line_cnt
      /\ dvp_width' = dvp_width /\ dvp_height' = dvp_height /\ ended' = ended
  BY DEF Vi!NoEdge, Vi!out, Vi!prev, Vi!meter
<1>3. CountOK'
  BY <1>1, <1>2 DEF InputIInv, CountOK
<1>4. ReadyOK' /\ Vi!FrameMeasured'
  BY <1>2 DEF InputIInv, ReadyOK, Vi!FrameMeasured
<1> QED BY <1>1, <1>2, <1>3, <1>4 DEF Counted, InputIInv, ViTypes

(* The generator's next pixel fits its last.                               *)
LEMMA GeneratorFits ==
  ASSUME InputIInv, Vi!Generator
  PROVE  /\ gen_pix_cnt' \in 0 .. Vi!H_TOTAL - 1 /\ gen_line_cnt' \in 0 .. Vi!V_TOTAL - 1
         /\ gen_href' \in BOOLEAN /\ gen_vsync' \in BOOLEAN
         /\ GeneratorOK'
         /\ gen_vsync => ~gen_href'
         /\ gen_href => ~gen_vsync'
<1> USE RasterAssumption DEF Vi!H_TOTAL, Vi!V_TOTAL
<1>1. gen_pix_cnt \in 0 .. Vi!H_TOTAL - 1 /\ gen_line_cnt \in 0 .. Vi!V_TOTAL - 1
  BY DEF InputIInv, ViTypes
<1>2. gen_pix_cnt' \in 0 .. Vi!H_TOTAL - 1 /\ gen_line_cnt' \in 0 .. Vi!V_TOTAL - 1
  BY <1>1 DEF Vi!Generator
<1>3. /\ gen_href' <=> /\ gen_pix_cnt >= H_FRONT + H_PULSE + H_BACK
                       /\ gen_line_cnt >= V_FRONT + V_PULSE + V_BACK
      /\ gen_vsync' <=> gen_line_cnt >= V_FRONT /\ gen_line_cnt < V_FRONT + V_PULSE
      /\ gen_href' \in BOOLEAN /\ gen_vsync' \in BOOLEAN
  BY <1>1 DEF Vi!Generator
<1>4. GeneratorOK'
  BY <1>1, <1>2, <1>3 DEF Vi!Generator, GeneratorOK
<1>5. (gen_vsync => ~gen_href') /\ (gen_href => ~gen_vsync')
  BY <1>1, <1>3 DEF InputIInv, GeneratorOK
<1> QED BY <1>2, <1>3, <1>4, <1>5

LEMMA SensorFits ==
  ASSUME Vi!Sensor, InputIInv
  PROVE  /\ cmos_href' \in BOOLEAN /\ cmos_vsync' \in BOOLEAN
         /\ ~(cmos_href' /\ cmos_vsync')
         /\ cmos_vsync => ~cmos_href'
         /\ cmos_href => ~cmos_vsync'
BY DEF Vi!Sensor, InputIInv, ViTypes

LEMMA PclkKeeps == ASSUME InputIInv, Vi!Pclk PROVE InputIInv'
<1>1. /\ module_reset' = module_reset /\ colorbar_en' = colorbar_en
      /\ UNCHANGED <<gen_pix_cnt, gen_line_cnt, gen_href, gen_vsync>> /\ Vi!Sensor
      /\ module_reset \in BOOLEAN /\ colorbar_en \in BOOLEAN
      /\ cmos_href \in BOOLEAN /\ cmos_vsync \in BOOLEAN /\ ~(cmos_href /\ cmos_vsync)
  BY DEF Vi!Pclk, Vi!generator, InputIInv, ViTypes
<1>2. GeneratorOK'
  BY <1>1 DEF InputIInv, GeneratorOK
<1>3. /\ cmos_href' \in BOOLEAN /\ cmos_vsync' \in BOOLEAN
      /\ ~(cmos_href' /\ cmos_vsync')
      /\ cmos_vsync => ~cmos_href'
      /\ cmos_href => ~cmos_vsync'
  BY <1>1, SensorFits
<1>4. Counted' /\ SourceOK'
  <2>1. CASE module_reset \/ colorbar_en
    <3>1. Vi!NoEdge
      BY <2>1 DEF Vi!Pclk
    <3>2. Counted' /\ (entered'.whole => entered.whole)
      BY <1>1, <3>1, NoEdgeCounts
    <3>3. out_href' = out_href /\ out_vsync' = out_vsync
      BY <3>1 DEF Vi!NoEdge, Vi!out
    <3> QED BY <1>1, <2>1, <3>2, <3>3 DEF InputIInv, SourceOK
  <2>2. CASE ~module_reset /\ ~colorbar_en
    <3>1. Vi!Edge(cmos_href, cmos_vsync)
      BY <2>2 DEF Vi!Pclk
    <3>2. entered.whole => Legal(cmos_href, cmos_vsync)
      BY <2>2 DEF InputIInv, SourceOK
    <3>3. Counted'
      BY <1>1, <3>1, <3>2, EdgeCounts
    <3>4. out_href' = cmos_href /\ out_vsync' = cmos_vsync
      BY <3>1 DEF Vi!Edge
    <3>5. Legal(cmos_href, cmos_vsync)'
      BY <1>3, <3>4 DEF Legal
    <3> QED BY <1>1, <2>2, <3>3, <3>5 DEF SourceOK
  <2> QED BY <1>1, <2>1, <2>2
<1> QED BY <1>1, <1>2, <1>3, <1>4 DEF InputIInv, ViTypes, Counted

LEMMA XclkKeeps == ASSUME InputIInv, Vi!Xclk PROVE InputIInv'
<1>1. /\ module_reset' = module_reset /\ colorbar_en' = colorbar_en
      /\ UNCHANGED <<cmos_href, cmos_vsync>>
      /\ module_reset \in BOOLEAN /\ colorbar_en \in BOOLEAN
  BY DEF Vi!Xclk, Vi!sensor, InputIInv, ViTypes
<1>2. /\ gen_pix_cnt' \in 0 .. Vi!H_TOTAL - 1 /\ gen_line_cnt' \in 0 .. Vi!V_TOTAL - 1
      /\ gen_href' \in BOOLEAN /\ gen_vsync' \in BOOLEAN
      /\ GeneratorOK'
      /\ ~module_reset => (gen_vsync => ~gen_href') /\ (gen_href => ~gen_vsync')
  <2>1. CASE module_reset
    BY <2>1 DEF Vi!Xclk, Vi!generator, InputIInv, ViTypes, GeneratorOK
  <2>2. CASE ~module_reset
    BY <2>2, GeneratorFits DEF Vi!Xclk
  <2> QED BY <1>1, <2>1, <2>2
<1>3. Counted' /\ SourceOK'
  <2>1. CASE module_reset \/ ~colorbar_en
    <3>1. Vi!NoEdge
      BY <2>1 DEF Vi!Xclk
    <3>2. Counted' /\ (entered'.whole => entered.whole)
      BY <1>1, <3>1, NoEdgeCounts
    <3>3. out_href' = out_href /\ out_vsync' = out_vsync
      BY <3>1 DEF Vi!NoEdge, Vi!out
    <3> QED BY <1>1, <2>1, <3>2, <3>3 DEF InputIInv, SourceOK, Legal
  <2>2. CASE ~module_reset /\ colorbar_en
    <3>1. Vi!Edge(gen_href', gen_vsync')
      BY <2>2 DEF Vi!Xclk
    <3>2. entered.whole => Legal(gen_href', gen_vsync')
      BY <1>2, <2>2 DEF InputIInv, SourceOK, Legal, GeneratorOK
    <3>3. ~(gen_href' /\ gen_vsync')
      BY <1>2 DEF GeneratorOK
    <3>4. Counted'
      BY <1>1, <1>2, <3>1, <3>2, <3>3, EdgeCounts
    <3>5. out_href' = gen_href' /\ out_vsync' = gen_vsync'
      BY <3>1 DEF Vi!Edge
    <3> QED BY <1>1, <2>2, <3>4, <3>5 DEF SourceOK
  <2> QED BY <1>1, <2>1, <2>2
<1> QED BY <1>1, <1>2, <1>3 DEF InputIInv, ViTypes, Counted

(* The edge a switch of clocks may make.                                   *)
LEMMA SwitchCounts ==
  ASSUME InputIInv, Vi!EdgeOrNot, colorbar_en' \in BOOLEAN, ~module_reset',
         colorbar_en' = colorbar_en => ~entered.whole,
         UNCHANGED <<cmos_href, cmos_vsync, gen_pix_cnt, gen_line_cnt, gen_href, gen_vsync>>
  PROVE  Counted' /\ SourceOK'
<1>1. /\ cmos_href \in BOOLEAN /\ cmos_vsync \in BOOLEAN /\ ~(cmos_href /\ cmos_vsync)
      /\ gen_href \in BOOLEAN /\ gen_vsync \in BOOLEAN /\ ~(gen_href /\ gen_vsync)
  BY DEF InputIInv, ViTypes, GeneratorOK
<1>2. CASE Vi!NoEdge
  BY <1>2, NoEdgeCounts DEF SourceOK
<1>3. CASE colorbar_en' /\ Vi!Edge(gen_href, gen_vsync)
  <2>1. out_href' = gen_href' /\ out_vsync' = gen_vsync'
    BY <1>3 DEF Vi!Edge
  <2> QED BY <1>1, <1>3, <2>1, EdgeCounts DEF SourceOK
<1>4. CASE ~colorbar_en' /\ Vi!Edge(cmos_href, cmos_vsync)
  <2>1. out_href' = cmos_href' /\ out_vsync' = cmos_vsync'
    BY <1>4 DEF Vi!Edge
  <2>2. Legal(cmos_href, cmos_vsync)'
    BY <1>1, <2>1 DEF Legal
  <2> QED BY <1>1, <1>4, <2>2, EdgeCounts DEF SourceOK
<1> QED BY <1>2, <1>3, <1>4 DEF Vi!EdgeOrNot

LEMMA WriteResetKeeps == ASSUME InputIInv, Vi!WriteReset PROVE InputIInv'
<1>1. /\ module_reset' = ~module_reset /\ colorbar_en' = colorbar_en
      /\ UNCHANGED <<cmos_href, cmos_vsync>>
      /\ module_reset \in BOOLEAN /\ colorbar_en \in BOOLEAN
  BY DEF Vi!WriteReset, Vi!sensor, InputIInv, ViTypes
<1>2. CASE module_reset'
  <2>1. FrameOK(Vi!NoFrame) /\ ~Vi!NoFrame.whole
    BY DEF FrameOK, Vi!NoFrame, Vi!Frame
  <2>2. 0 \in 0 .. Vi!H_TOTAL - 1 /\ 0 \in 0 .. Vi!V_TOTAL - 1
    BY RasterAssumption DEF Vi!H_TOTAL, Vi!V_TOTAL
  <2>3. /\ out_href' = FALSE /\ out_vsync' = FALSE
        /\ vi_pix_cnt' = 0 /\ vi_line_cnt' = 0 /\ gen_pix_cnt' = 0 /\ gen_line_cnt' = 0
        /\ gen_href' = FALSE /\ gen_vsync' = FALSE
        /\ entered' = Vi!NoFrame /\ ended' = Vi!NoFrame
        /\ prev_href' = prev_href /\ prev_vsync' = prev_vsync
    BY <1>2 DEF Vi!WriteReset, Vi!prev
  <2>4. GeneratorOK' /\ SourceOK' /\ CountOK' /\ ReadyOK' /\ Vi!FrameMeasured'
    BY <2>1, <2>3 DEF GeneratorOK, SourceOK, CountOK, ReadyOK, Vi!FrameMeasured
  <2> QED BY <1>1, <2>1, <2>2, <2>3, <2>4 DEF InputIInv, ViTypes
<1>3. CASE ~module_reset'
  <2>1. Vi!EdgeOrNot /\ UNCHANGED <<gen_pix_cnt, gen_line_cnt, gen_href, gen_vsync>>
    BY <1>3 DEF Vi!WriteReset, Vi!generator
  <2>2. ~entered.whole
    BY <1>1, <1>3 DEF InputIInv, SourceOK
  <2>3. Counted' /\ SourceOK'
    BY <1>1, <1>3, <2>1, <2>2, SwitchCounts
  <2> QED BY <1>1, <2>1, <2>3 DEF InputIInv, ViTypes, Counted, GeneratorOK
<1> QED BY <1>2, <1>3

LEMMA WriteColorbarKeeps == ASSUME InputIInv, Vi!WriteColorbar PROVE InputIInv'
<1>1. /\ module_reset' = module_reset /\ colorbar_en' = ~colorbar_en
      /\ UNCHANGED <<cmos_href, cmos_vsync, gen_pix_cnt, gen_line_cnt, gen_href, gen_vsync>>
      /\ module_reset \in BOOLEAN /\ colorbar_en \in BOOLEAN
  BY DEF Vi!WriteColorbar, Vi!sensor, Vi!generator, InputIInv, ViTypes
<1>2. Counted' /\ SourceOK'
  <2>1. CASE module_reset
    <3>1. Vi!NoEdge
      BY <2>1 DEF Vi!WriteColorbar
    <3> QED BY <1>1, <3>1, NoEdgeCounts DEF SourceOK
  <2>2. CASE ~module_reset
    BY <1>1, <2>2, SwitchCounts DEF Vi!WriteColorbar
  <2> QED BY <1>1, <2>1, <2>2
<1> QED BY <1>1, <1>2 DEF InputIInv, ViTypes, Counted, GeneratorOK

LEMMA NextInputIInv == InputIInv /\ [Vi!Next]_Vi!vars => InputIInv'
<1> SUFFICES ASSUME InputIInv, [Vi!Next]_Vi!vars PROVE InputIInv'
  OBVIOUS
<1>1. CASE UNCHANGED Vi!vars
  BY <1>1 DEF Vi!vars, Vi!sensor, Vi!generator, Vi!out, Vi!prev, Vi!meter, Vi!history,
     InputIInv, ViTypes, GeneratorOK, SourceOK, CountOK, ReadyOK, Vi!FrameMeasured, Legal
<1> QED
  BY <1>1, PclkKeeps, XclkKeeps, WriteResetKeeps, WriteColorbarKeeps DEF Vi!Next

-----------------------------------------------------------------------------
(* Remainders.                                                             *)

LEMMA RestStep ==
  ASSUME NEW n \in Int, NEW s \in Nat \ {0}
  PROVE  /\ n % s \in 0 .. s - 1
         /\ (n + 1) % s = IF n % s = s - 1 THEN 0 ELSE (n % s) + 1
<1>1. n \div s \in Int /\ n % s \in 0 .. s - 1 /\ n = s * (n \div s) + (n % s)
  OBVIOUS
<1>2. /\ (n + 1) \div s \in Int /\ (n + 1) % s \in 0 .. s - 1
      /\ n + 1 = s * ((n + 1) \div s) + ((n + 1) % s)
  OBVIOUS
<1> DEFINE a == n \div s
           b == (n + 1) \div s
           c == n % s
           d == (n + 1) % s
<1>3. a \in Int /\ b \in Int /\ c \in 0 .. s - 1 /\ d \in 0 .. s - 1 /\ s * (b - a) = c + 1 - d
  BY <1>1, <1>2
<1> HIDE DEF a, b, c, d
<1>4. b - a = 0 \/ b - a = 1
  <2>1. s * (b - a) > 0 - s /\ s * (b - a) <= s
    BY <1>3
  <2>2. \A k \in Int : k >= 2 => s * k > s
    OBVIOUS
  <2>3. \A k \in Int : k <= -1 => s * k <= 0 - s
    OBVIOUS
  <2> QED BY <1>3, <2>1, <2>2, <2>3
<1>5. d = c + 1 \/ d = c + 1 - s
  BY <1>3, <1>4
<1>6. d = IF c = s - 1 THEN 0 ELSE c + 1
  BY <1>3, <1>5
<1> QED BY <1>3, <1>6 DEF c, d

LEMMA RestIs ==
  ASSUME NEW s \in Nat \ {0}, NEW n \in 0 .. s - 1
  PROVE  n % s = n
OBVIOUS

LEMMA NoRest == ASSUME NEW s \in Nat \ {0} PROVE 0 % s = 0 /\ (-1) % s = s - 1
OBVIOUS

LEMMA Wraps ==
  ASSUME NEW s \in Nat \ {0}, NEW n \in 0 .. s - 1
  PROVE  (n + 1) % s = IF n + 1 = s THEN 0 ELSE n + 1
<1>1. n % s = n /\ n \in Int
  BY RestIs
<1>2. (n + 1) % s = IF n % s = s - 1 THEN 0 ELSE (n % s) + 1
  BY <1>1, RestStep
<1> QED BY <1>1, <1>2

-----------------------------------------------------------------------------
(* The down scaler (vip_dscale.v).                                         *)

ScalerTypes ==
  /\ x \in 0 .. Period - 1 /\ y \in 0 .. ScalerLines + 1 /\ dscale \in Scales
  /\ ds_href \in BOOLEAN /\ ds_vsync \in BOOLEAN
  /\ ds_pix_cnt \in 0 .. dscale /\ ds_line_cnt \in 0 .. dscale
  /\ settled \in 0 .. 2

(* The two registers hold what the stream was a clock ago; a reset clears  *)
(* them.                                                                   *)
EdgesOK ==
  /\ ds_href => y < ScalerLines /\ x \in 1 .. Width
  /\ ds_vsync => y = ScalerLines \/ (y = ScalerLines + 1 /\ x = 0)
  /\ settled # 0 =>
       /\ y < ScalerLines /\ x \in 1 .. Width => ds_href
       /\ y = ScalerLines + 1 /\ x = 0 => ds_vsync
  /\ settled = 1 => (y = ScalerLines + 1 /\ x > 0) \/ (y = 0 /\ x <= Width)

(* The line counter follows the lines, from the end of each one on.        *)
RowsOK ==
  settled # 0 =>
    /\ y < ScalerLines => ds_line_cnt = (IF x <= Width THEN y ELSE y + 1) % (dscale + 1)
    /\ y = ScalerLines + 1 /\ x > 0 => ds_line_cnt = 0

Even == settled = 2 /\ Period % (dscale + 1) = 0

(* The pixel counter is in phase with the lines ...                        *)
PhaseOK ==
  Even \/ (settled = 1 /\ y = 0 /\ x > 0 /\ Period % (dscale + 1) = 0)
    => ds_pix_cnt = (x - 1) % (dscale + 1)

(* ... the pixel stored last is the last one in phase ...                  *)
StoredOK ==
  Even /\ y < ScalerLines /\ x \in 2 .. Width /\ ds_line_cnt = 0 =>
    data_r = <<x - (IF ds_pix_cnt = 0 THEN dscale + 1 ELSE ds_pix_cnt), y>>

(* ... and those that passed are counted.                                  *)
KeptTo(n, s) == {k \in 0 .. n : (k - 1) % s = 0}
PassedOK ==
  Even /\ y < ScalerLines /\ x <= Width =>
    passed = IF y % (dscale + 1) = 0
             THEN Cardinality(KeptTo(IF x < Width THEN x ELSE Width - 1, dscale + 1)) ELSE 0

ScalerIInv == ScalerTypes /\ EdgesOK /\ RowsOK /\ PhaseOK /\ StoredOK /\ PassedOK

LEMMA InitScalerIInv == Scaler!Init => ScalerIInv
<1> SUFFICES ASSUME Scaler!Init PROVE ScalerIInv
  OBVIOUS
<1>1. dscale \in 0 .. 15 /\ dscale \in Scales
  BY ScalerAssumption DEF Scaler!Init
<1>2. 0 \in 0 .. dscale /\ 0 \in 0 .. 2
  BY <1>1
<1>3. ScalerTypes
  BY <1>1, <1>2 DEF Scaler!Init, ScalerTypes
<1> QED
  BY <1>3 DEF Scaler!Init, ScalerIInv, EdgesOK, RowsOK, Even, PhaseOK, StoredOK, PassedOK

LEMMA ScalerResetKeeps == ASSUME ScalerIInv, Scaler!Reset PROVE ScalerIInv'
<1>1. /\ x' = x /\ y' = y /\ dscale' = dscale
      /\ ds_href' = FALSE /\ ds_pix_cnt' = 0 /\ ds_vsync' = FALSE /\ ds_line_cnt' = 0
      /\ settled' = 0
  BY DEF Scaler!Reset
<1>2. dscale \in 0 .. 15
  BY ScalerAssumption DEF ScalerIInv, ScalerTypes
<1>3. 0 \in 0 .. dscale /\ 0 \in 0 .. 2
  BY <1>2
<1>4. ScalerTypes'
  BY <1>1, <1>3 DEF ScalerIInv, ScalerTypes
<1> QED
  BY <1>1, <1>4 DEF ScalerIInv, EdgesOK, RowsOK, Even, PhaseOK, StoredOK, PassedOK

(* The clock moves the stream on by one.                                   *)
LEMMA ScalerStreamIs ==
  ASSUME ScalerIInv, Scaler!Stream
  PROVE  /\ x' = IF x + 1 = Period THEN 0 ELSE x + 1
         /\ y' = IF x' # 0 THEN y ELSE IF y = ScalerLines + 1 THEN 0 ELSE y + 1
         /\ x' \in 0 .. Period - 1 /\ y' \in 0 .. ScalerLines + 1
         /\ x \in 0 .. Period - 1 /\ y \in 0 .. ScalerLines + 1
         /\ x' = 0 \/ x' = x + 1
<1>1. Period \in Nat \ {0} /\ ScalerLines + 2 \in Nat \ {0} /\ Period > 1
  BY ScalerAssumption
<1>2. x \in 0 .. Period - 1 /\ y \in 0 .. (ScalerLines + 2) - 1
  BY ScalerAssumption DEF ScalerIInv, ScalerTypes
<1>3. x' = IF x + 1 = Period THEN 0 ELSE x + 1
  BY <1>1, <1>2, Wraps DEF Scaler!Stream
<1>4. (y + 1) % (ScalerLines + 2) = IF y + 1 = ScalerLines + 2 THEN 0 ELSE y + 1
  BY <1>1, <1>2, Wraps
<1>5. y' = IF x' = 0 THEN (y + 1) % (ScalerLines + 2) ELSE y
  BY DEF Scaler!Stream
<1> QED BY <1>1, <1>2, <1>3, <1>4, <1>5, ScalerAssumption

LEMMA ScaleIs == ASSUME ScalerIInv PROVE dscale \in 0 .. 15 /\ dscale + 1 \in Nat \ {0}
BY ScalerAssumption DEF ScalerIInv, ScalerTypes

LEMMA ClockEdges ==
  ASSUME ScalerIInv, Scaler!Clock
  PROVE  /\ EdgesOK'
         /\ ds_href' \in BOOLEAN /\ ds_vsync' \in BOOLEAN /\ settled' \in 0 .. 2
         /\ Scaler!frame_start => y = ScalerLines + 1 /\ x = 0
         /\ settled # 0 /\ y = ScalerLines + 1 /\ x = 0 => Scaler!frame_start
         /\ Scaler!line_end => y < ScalerLines /\ x = Width
         /\ settled # 0 /\ y < ScalerLines /\ x = Width => Scaler!line_end
         /\ settled # 0 => (Scaler!line_start <=> y < ScalerLines /\ x = 0)
         /\ settled' # 0 => settled # 0 \/ (y = ScalerLines + 1 /\ x = 0)
         /\ settled' = 2 => settled = 2 \/ (settled = 1 /\ y = 0 /\ x = Width)
         /\ settled' # 0 /\ settled' # 2 =>
              settled = 1 \/ (settled = 0 /\ y = ScalerLines + 1 /\ x = 0)
<1>1. /\ x' = IF x + 1 = Period THEN 0 ELSE x + 1
      /\ y' = IF x' # 0 THEN y ELSE IF y = ScalerLines + 1 THEN 0 ELSE y + 1
      /\ x \in 0 .. Period - 1 /\ y \in 0 .. ScalerLines + 1
  BY ScalerStreamIs DEF Scaler!Clock
<1>2. /\ ds_href \in BOOLEAN /\ ds_vsync \in BOOLEAN /\ settled \in 0 .. 2
      /\ Width \in Nat \ {0} /\ Width < Period /\ Period \in Nat /\ ScalerLines \in Nat \ {0}
      /\ EdgesOK
  BY ScalerAssumption DEF ScalerIInv, ScalerTypes
<1>3. /\ Scaler!in_href <=> y < ScalerLines /\ x < Width
      /\ Scaler!in_vsync <=> y = ScalerLines
      /\ Scaler!in_href \in BOOLEAN /\ Scaler!in_vsync \in BOOLEAN
  BY <1>1, <1>2 DEF Scaler!in_href, Scaler!in_vsync
<1>4. ds_href' = Scaler!in_href /\ ds_vsync' = Scaler!in_vsync
  BY DEF Scaler!Clock, Scaler!Pixels, Scaler!Rows
<1>5. /\ Scaler!frame_start => y = ScalerLines + 1 /\ x = 0
      /\ settled # 0 /\ y = ScalerLines + 1 /\ x = 0 => Scaler!frame_start
      /\ Scaler!line_end => y < ScalerLines /\ x = Width
      /\ settled # 0 /\ y < ScalerLines /\ x = Width => Scaler!line_end
      /\ settled # 0 => (Scaler!line_start <=> y < ScalerLines /\ x = 0)
  BY <1>1, <1>2, <1>3 DEF EdgesOK, Scaler!frame_start, Scaler!line_end, Scaler!line_start
<1>6. settled' = IF settled = 0 /\ Scaler!frame_start THEN 1
                 ELSE IF settled = 1 /\ Scaler!line_end THEN 2 ELSE settled
  BY DEF Scaler!Clock, Scaler!History
<1>7. /\ settled' # 0 => settled # 0 \/ (y = ScalerLines + 1 /\ x = 0)
      /\ settled' = 2 => settled = 2 \/ (settled = 1 /\ Scaler!line_end)
      /\ settled' # 0 /\ settled' # 2 =>
           (settled = 1 /\ ~Scaler!line_end) \/ (settled = 0 /\ y = ScalerLines + 1 /\ x = 0)
      /\ settled' \in 0 .. 2
  BY <1>2, <1>5, <1>6
<1>8. settled = 1 /\ Scaler!line_end => y = 0 /\ x = Width
  BY <1>1, <1>2, <1>5 DEF EdgesOK
<1>9. (ds_href' <=> y < ScalerLines /\ x < Width) /\ (ds_vsync' <=> y = ScalerLines)
  BY <1>3, <1>4
<1>10. settled' = 1 => (y' = ScalerLines + 1 /\ x' > 0) \/ (y' = 0 /\ x' <= Width)
  <2> SUFFICES ASSUME settled' = 1 PROVE (y' = ScalerLines + 1 /\ x' > 0)
               \/ (y' = 0 /\ x' <= Width)
    OBVIOUS
  <2>1. CASE settled = 1 /\ ~Scaler!line_end
    <3>1. ~(y = 0 /\ x = Width)
      BY <1>2, <1>5, <2>1
    <3>2. (y = ScalerLines + 1 /\ x > 0) \/ (y = 0 /\ x < Width)
      BY <1>1, <1>2, <2>1, <3>1 DEF EdgesOK
    <3> QED BY <1>1, <1>2, <3>2
  <2>2. CASE y = ScalerLines + 1 /\ x = 0
    BY <1>1, <1>2, <2>2
  <2> QED BY <1>7, <2>1, <2>2
<1>11. EdgesOK'
  <2>1. ds_href' => y' < ScalerLines /\ x' \in 1 .. Width
    BY <1>1, <1>2, <1>9
  <2>2. ds_vsync' => y' = ScalerLines \/ (y' = ScalerLines + 1 /\ x' = 0)
    BY <1>1, <1>2, <1>9
  <2>3. y' < ScalerLines /\ x' \in 1 .. Width => ds_href'
    BY <1>1, <1>2, <1>9
  <2>4. y' = ScalerLines + 1 /\ x' = 0 => ds_vsync'
    BY <1>1, <1>2, <1>9
  <2> QED BY <1>10, <2>1, <2>2, <2>3, <2>4 DEF EdgesOK
<1> QED BY <1>3, <1>4, <1>5, <1>7, <1>8, <1>11

LEMMA ClockRows ==
  ASSUME ScalerIInv, Scaler!Clock
  PROVE  RowsOK' /\ ds_line_cnt' \in 0 .. dscale
<1> DEFINE s == dscale + 1
<1>1. /\ x' = IF x + 1 = Period THEN 0 ELSE x + 1
      /\ y' = IF x' # 0 THEN y ELSE IF y = ScalerLines + 1 THEN 0 ELSE y + 1
      /\ x \in 0 .. Period - 1 /\ y \in 0 .. ScalerLines + 1
      /\ Width \in Nat \ {0} /\ Width < Period /\ Period \in Nat /\ ScalerLines \in Nat \ {0}
  BY ScalerStreamIs, ScalerAssumption DEF Scaler!Clock
<1>2. /\ dscale \in 0 .. 15 /\ s \in Nat \ {0} /\ dscale' = dscale /\ ds_line_cnt \in 0 .. dscale
      /\ settled \in 0 .. 2
  BY ScaleIs DEF ScalerIInv, ScalerTypes, Scaler!Clock
<1>3. /\ Scaler!frame_start => y = ScalerLines + 1 /\ x = 0
      /\ settled # 0 /\ y = ScalerLines + 1 /\ x = 0 => Scaler!frame_start
      /\ Scaler!line_end => y < ScalerLines /\ x = Width
      /\ settled # 0 /\ y < ScalerLines /\ x = Width => Scaler!line_end
      /\ settled' # 0 => settled # 0 \/ (y = ScalerLines + 1 /\ x = 0)
      /\ settled' # 0 /\ settled = 0 => Scaler!frame_start
  BY ClockEdges DEF Scaler!Clock, Scaler!History
<1>4. ds_line_cnt' = IF Scaler!frame_start THEN 0
                     ELSE IF Scaler!line_end THEN IF ds_line_cnt = dscale THEN 0
                       ELSE ds_line_cnt + 1
                     ELSE ds_line_cnt
  <2>1. ds_line_cnt # dscale => (ds_line_cnt + 1) % 16 = ds_line_cnt + 1
    BY <1>2
  <2> QED BY <2>1 DEF Scaler!Clock, Scaler!Rows
<1>5. ds_line_cnt' \in 0 .. dscale
  BY <1>2, <1>4
<1>6. RowsOK'
  <2> SUFFICES ASSUME settled' # 0
      PROVE  /\ y' < ScalerLines => ds_line_cnt' = (IF x' <= Width THEN y' ELSE y' + 1) % s
             /\ y' = ScalerLines + 1 /\ x' > 0 => ds_line_cnt' = 0
    BY <1>2 DEF RowsOK
  <2>1. 0 % s = 0
    BY <1>2, NoRest
  <2>2. (y + 1) % s = IF y % s = s - 1 THEN 0 ELSE (y % s) + 1
    <3> HIDE DEF s
    <3>1. y \in Int
      BY <1>1
    <3> QED BY <1>2, <3>1, RestStep
  <2>3. CASE y = ScalerLines + 1 /\ x = 0
    BY <1>1, <1>3, <1>4, <2>3
  <2>4. CASE ~(y = ScalerLines + 1 /\ x = 0)
    <3>1. settled # 0 /\ ~Scaler!frame_start
      BY <1>3, <2>4
    <3>2. /\ y < ScalerLines => ds_line_cnt = (IF x <= Width THEN y ELSE y + 1) % s
          /\ y = ScalerLines + 1 /\ x > 0 => ds_line_cnt = 0
      BY <3>1 DEF ScalerIInv, RowsOK
    <3>3. CASE y < ScalerLines /\ x < Width
      <4>1. ds_line_cnt' = ds_line_cnt /\ ds_line_cnt = y % s /\ x' = x + 1 /\ y' = y
        BY <1>1, <1>3, <1>4, <3>1, <3>2, <3>3
      <4> QED BY <1>1, <3>3, <4>1
    <3>4. CASE y < ScalerLines /\ x = Width
      <4>1. ds_line_cnt' = (y + 1) % s
        <5>1. Scaler!line_end /\ ds_line_cnt = y % s
          BY <1>1, <1>3, <3>1, <3>2, <3>4
        <5> QED BY <1>2, <1>4, <2>2, <3>1, <5>1
      <4>2. (x' = 0 /\ y' = y + 1) \/ (x' = x + 1 /\ y' = y)
        BY <1>1, <3>4
      <4> QED BY <1>1, <3>4, <4>1, <4>2
    <3>5. CASE y < ScalerLines /\ x > Width
      <4>1. ds_line_cnt' = ds_line_cnt /\ ds_line_cnt = (y + 1) % s
        BY <1>1, <1>3, <1>4, <3>1, <3>2, <3>5
      <4>2. (x' = 0 /\ y' = y + 1) \/ (x' = x + 1 /\ y' = y)
        BY <1>1, <3>5
      <4> QED BY <1>1, <3>5, <4>1, <4>2
    <3>6. CASE y = ScalerLines
      BY <1>1, <3>6
    <3>7. CASE y = ScalerLines + 1 /\ x > 0
      <4>1. ds_line_cnt' = 0
        BY <1>1, <1>3, <1>4, <3>1, <3>2, <3>7
      <4>2. (x' = 0 /\ y' = 0) \/ (x' = x + 1 /\ y' = y)
        BY <1>1, <3>7
      <4> QED BY <1>1, <2>1, <3>7, <4>1, <4>2
    <3> QED BY <1>1, <2>4, <3>3, <3>4, <3>5, <3>6, <3>7
  <2> QED BY <2>3, <2>4
<1> QED BY <1>5, <1>6

LEMMA ClockPhase ==
  ASSUME ScalerIInv, Scaler!Clock
  PROVE  PhaseOK' /\ ds_pix_cnt' \in 0 .. dscale
<1> DEFINE s == dscale + 1
<1>1. /\ x' = IF x + 1 = Period THEN 0 ELSE x + 1
      /\ y' = IF x' # 0 THEN y ELSE IF y = ScalerLines + 1 THEN 0 ELSE y + 1
      /\ x \in 0 .. Period - 1 /\ y \in 0 .. ScalerLines + 1
      /\ Width \in Nat \ {0} /\ Width < Period /\ Period \in Nat /\ ScalerLines \in Nat \ {0}
  BY ScalerStreamIs, ScalerAssumption DEF Scaler!Clock
<1>2. /\ dscale \in 0 .. 15 /\ s \in Nat \ {0} /\ dscale' = dscale /\ ds_pix_cnt \in 0 .. dscale
      /\ settled \in 0 .. 2
  BY ScaleIs DEF ScalerIInv, ScalerTypes, Scaler!Clock
<1>3. ds_pix_cnt' = IF Scaler!line_start \/ ds_pix_cnt = dscale THEN 0 ELSE ds_pix_cnt + 1
  <2>1. ds_pix_cnt # dscale => (ds_pix_cnt + 1) % 16 = ds_pix_cnt + 1
    BY <1>2
  <2> QED BY <2>1 DEF Scaler!Clock, Scaler!Pixels
<1>4. ds_pix_cnt' \in 0 .. dscale
  BY <1>2, <1>3
<1>5. PhaseOK'
  <2> SUFFICES ASSUME Period % s = 0, settled' = 2 \/ (settled' = 1 /\ y' = 0 /\ x' > 0)
      PROVE  ds_pix_cnt' = (x' - 1) % s
    BY <1>2 DEF PhaseOK, Even
  <2>1. settled = 2 \/ (settled = 1 /\ y = 0)
    BY <1>1, ClockEdges
  <2>2. Scaler!line_start <=> y < ScalerLines /\ x = 0
    BY <2>1, ClockEdges
  <2>3. 0 % s = 0 /\ (-1) % s = s - 1
    BY <1>2, NoRest
  <2>4. CASE y < ScalerLines /\ x = 0
    <3>1. x' = 1 /\ ds_pix_cnt' = 0
      BY <1>1, <1>3, <2>2, <2>4
    <3> QED BY <2>3, <3>1
  <2>5. CASE ~(y < ScalerLines /\ x = 0)
    <3>1. ds_pix_cnt = (x - 1) % s
      BY <1>1, <2>1, <2>5 DEF ScalerIInv, PhaseOK, Even
    <3>2. x % s = IF (x - 1) % s = s - 1 THEN 0 ELSE ((x - 1) % s) + 1
      <4>1. (x - 1) + 1 = x /\ x - 1 \in Int
        BY <1>1
      <4> QED BY <1>2, <4>1, RestStep
    <3>3. ds_pix_cnt' = x % s
      BY <1>2, <1>3, <2>2, <2>5, <3>1, <3>2
    <3>4. CASE x' = x + 1
      <4>1. x' - 1 = x
        BY <1>1, <3>4
      <4> QED BY <3>3, <4>1
    <3>5. CASE x' = 0 /\ x + 1 = Period
      <4> HIDE DEF s
      <4>1. Period % s = IF x % s = s - 1 THEN 0 ELSE (x % s) + 1
        <5>1. x \in Int
          BY <1>1
        <5>2. (x + 1) % s = IF x % s = s - 1 THEN 0 ELSE (x % s) + 1
          BY <1>2, <5>1, RestStep
        <5> QED BY <3>5, <5>2
      <4>2. x % s \in 0 .. s - 1
        BY <1>1, <1>2, RestStep
      <4>3. x % s = s - 1
        BY <1>2, <4>1, <4>2
      <4> QED BY <2>3, <3>3, <3>5, <4>3
    <3> QED BY <1>1, <3>4, <3>5
  <2> QED BY <2>4, <2>5
<1> QED BY <1>4, <1>5

LEMMA ClockStored == ASSUME ScalerIInv, Scaler!Clock PROVE StoredOK'
<1> DEFINE s == dscale + 1
<1>1. /\ x' = IF x + 1 = Period THEN 0 ELSE x + 1
      /\ y' = IF x' # 0 THEN y ELSE IF y = ScalerLines + 1 THEN 0 ELSE y + 1
      /\ x \in 0 .. Period - 1 /\ y \in 0 .. ScalerLines + 1
      /\ Width \in Nat \ {0} /\ Width < Period /\ Period \in Nat /\ ScalerLines \in Nat \ {0}
  BY ScalerStreamIs, ScalerAssumption DEF Scaler!Clock
<1>2. /\ dscale \in 0 .. 15 /\ s \in Nat \ {0} /\ dscale' = dscale /\ ds_pix_cnt \in 0 .. dscale
      /\ settled \in 0 .. 2
  BY ScaleIs DEF ScalerIInv, ScalerTypes, Scaler!Clock
<1> SUFFICES ASSUME settled' = 2, Period % s = 0, y' < ScalerLines, x' \in 2 .. Width,
             ds_line_cnt' = 0
    PROVE  data_r' = <<x' - (IF ds_pix_cnt' = 0 THEN s ELSE ds_pix_cnt'), y'>>
  BY <1>2 DEF StoredOK, Even
<1>3. x' = x + 1 /\ y' = y /\ x \in 1 .. Width - 1 /\ y < ScalerLines
  BY <1>1
<1>4. settled = 2
  BY <1>3, ClockEdges
<1>5. Even
  BY <1>4 DEF Even
<1>6. ~Scaler!line_start /\ ~Scaler!line_end /\ ~Scaler!frame_start
  BY <1>1, <1>3, <1>4, ClockEdges
<1>7. ds_pix_cnt' = IF ds_pix_cnt = dscale THEN 0 ELSE ds_pix_cnt + 1
  <2>1. ds_pix_cnt # dscale => (ds_pix_cnt + 1) % 16 = ds_pix_cnt + 1
    BY <1>2
  <2> QED BY <1>6, <2>1 DEF Scaler!Clock, Scaler!Pixels
<1>8. ds_line_cnt = 0
  BY <1>6 DEF Scaler!Clock, Scaler!Rows
<1>9. ds_pix_cnt = (x - 1) % s
  BY <1>5 DEF ScalerIInv, PhaseOK
<1>10. data_r' = IF ds_pix_cnt = 0 THEN <<x, y>> ELSE data_r
  <2>1. Scaler!in_href
    BY <1>1, <1>3 DEF Scaler!in_href
  <2>2. Scaler!in_data = <<x, y>>
    BY <2>1 DEF Scaler!in_data
  <2> QED BY <1>8, <2>2 DEF Scaler!Clock, Scaler!Data
<1>11. CASE ds_pix_cnt = 0
  <2>1. x' - (IF ds_pix_cnt' = 0 THEN s ELSE ds_pix_cnt') = x
    BY <1>2, <1>3, <1>7, <1>11
  <2> QED BY <1>3, <1>10, <1>11, <2>1
<1>12. CASE ds_pix_cnt # 0
  <2>1. x # 1
    BY <1>2, <1>9, <1>12, NoRest
  <2>2. data_r = <<x - ds_pix_cnt, y>>
    <3>1. x \in 2 .. Width
      BY <1>1, <1>3, <2>1
    <3> QED BY <1>3, <1>5, <1>8, <1>12, <3>1 DEF ScalerIInv, StoredOK
  <2>3. x' - (IF ds_pix_cnt' = 0 THEN s ELSE ds_pix_cnt') = x - ds_pix_cnt
    BY <1>2, <1>3, <1>7, <1>12
  <2> QED BY <1>3, <1>10, <1>12, <2>2, <2>3
<1> QED BY <1>11, <1>12

LEMMA KeptGrows ==
  ASSUME NEW n \in Nat, NEW s \in Nat \ {0}
  PROVE  /\ Cardinality(KeptTo(n, s)) \in Nat
         /\ Cardinality(KeptTo(n + 1, s)) =
              Cardinality(KeptTo(n, s)) + (IF n % s = 0 THEN 1 ELSE 0)
<1>1. IsFiniteSet(KeptTo(n, s))
  BY FS_Interval, FS_Subset, 0 \in Int, n \in Int DEF KeptTo
<1>2. CASE n % s = 0
  <2>1. KeptTo(n + 1, s) = KeptTo(n, s) \union {n + 1} /\ n + 1 \notin KeptTo(n, s)
    <3>1. (n + 1) - 1 = n
      OBVIOUS
    <3> QED BY <1>2, <3>1 DEF KeptTo
  <2> QED BY <1>1, <1>2, <2>1, FS_AddElement, FS_CardinalityType
<1>3. CASE n % s # 0
  <2>1. KeptTo(n + 1, s) = KeptTo(n, s)
    <3>1. (n + 1) - 1 = n
      OBVIOUS
    <3> QED BY <1>3, <3>1 DEF KeptTo
  <2> QED BY <1>1, <1>3, <2>1, FS_CardinalityType
<1> QED BY <1>2, <1>3

LEMMA KeptFirst ==
  ASSUME NEW s \in Nat \ {0}
  PROVE  Cardinality(KeptTo(0, s)) = IF s = 1 THEN 1 ELSE 0
<1>1. (0 - 1) % s = s - 1
  <2>1. 0 - 1 = -1
    OBVIOUS
  <2> QED BY <2>1, NoRest
<1>2. KeptTo(0, s) = IF s = 1 THEN {0} ELSE {}
  <2>1. 0 .. 0 = {0} /\ s \in Nat /\ s # 0
    OBVIOUS
  <2> QED BY <1>1, <2>1 DEF KeptTo
<1> QED BY <1>2, FS_Singleton, FS_EmptySet

LEMMA ClockPassed == ASSUME ScalerIInv, Scaler!Clock PROVE PassedOK'
<1> DEFINE s == dscale + 1
<1>1. /\ x' = IF x + 1 = Period THEN 0 ELSE x + 1
      /\ y' = IF x' # 0 THEN y ELSE IF y = ScalerLines + 1 THEN 0 ELSE y + 1
      /\ x \in 0 .. Period - 1 /\ y \in 0 .. ScalerLines + 1 /\ y' \in 0 .. ScalerLines + 1
      /\ Width \in Nat \ {0} /\ Width < Period /\ Period \in Nat /\ ScalerLines \in Nat \ {0}
  BY ScalerStreamIs, ScalerAssumption DEF Scaler!Clock
<1>2. /\ dscale \in 0 .. 15 /\ s \in Nat \ {0} /\ dscale' = dscale /\ settled \in 0 .. 2
  BY ScaleIs DEF ScalerIInv, ScalerTypes, Scaler!Clock
<1> SUFFICES ASSUME settled' = 2, Period % s = 0, y' < ScalerLines, x' <= Width
    PROVE  passed' = IF y' % s = 0
                     THEN Cardinality(KeptTo(IF x' < Width THEN x' ELSE Width - 1, s)) ELSE 0
  BY <1>2 DEF PassedOK, Even
<1>3. ds_line_cnt' = y' % s /\ ds_pix_cnt' = (x' - 1) % s
  BY <1>2, ClockRows, ClockPhase DEF RowsOK, PhaseOK, Even
<1>4. passed' = (IF x' = 0 THEN 0 ELSE passed)
                  + (IF ds_pix_cnt' = 0 /\ x' < Width /\ ds_line_cnt' = 0 THEN 1 ELSE 0)
  BY DEF Scaler!Clock, Scaler!History, Scaler!out_pclk, Scaler!out_href, Scaler!in_href
<1>5. CASE x' = 0
  <2>1. ds_pix_cnt' = s - 1
    BY <1>2, <1>3, <1>5, NoRest
  <2>2. Cardinality(KeptTo(0, s)) = IF s = 1 THEN 1 ELSE 0
    BY <1>2, KeptFirst
  <2>3. passed' = IF s = 1 /\ y' % s = 0 THEN 1 ELSE 0
    <3> HIDE DEF s
    <3>1. (ds_pix_cnt' = 0) <=> (s = 1)
      BY <1>2, <2>1
    <3>2. x' < Width
      BY <1>1, <1>5
    <3> QED BY <1>3, <1>4, <1>5, <3>1, <3>2
  <2> QED BY <1>1, <1>5, <2>2, <2>3
<1>6. CASE x' = x + 1 /\ y' = y
  <2>1. settled = 2 \/ (settled = 1 /\ y = 0 /\ x = Width)
    BY ClockEdges
  <2>2. Even
    BY <1>1, <1>6, <2>1 DEF Even
  <2>3. passed = IF y % s = 0
                 THEN Cardinality(KeptTo(IF x < Width THEN x ELSE Width - 1, s)) ELSE 0
    BY <1>1, <1>6, <2>2 DEF ScalerIInv, PassedOK
  <2>4. x \in Nat /\ x < Width /\ ds_pix_cnt' = x % s
    BY <1>1, <1>3, <1>6
  <2>5. CASE x + 1 < Width
    <3>1. /\ Cardinality(KeptTo(x, s)) \in Nat
          /\ Cardinality(KeptTo(x + 1, s)) =
               Cardinality(KeptTo(x, s)) + (IF x % s = 0 THEN 1 ELSE 0)
      BY <1>2, <2>4, KeptGrows
    <3>2. passed' = passed + (IF x % s = 0 /\ y % s = 0 THEN 1 ELSE 0)
      BY <1>1, <1>3, <1>4, <1>6, <2>4, <2>5
    <3>3. passed = IF y % s = 0 THEN Cardinality(KeptTo(x, s)) ELSE 0
      BY <2>3, <2>4
    <3> QED BY <1>1, <1>6, <2>5, <3>1, <3>2, <3>3
  <2>6. CASE x + 1 = Width
    <3>1. passed' = passed /\ x = Width - 1 /\ passed \in Nat
      <4>1. passed \in Nat
        BY <1>2, <2>3, <2>4, KeptGrows
      <4> QED BY <1>1, <1>4, <1>6, <2>6, <4>1
    <3> QED BY <1>1, <1>6, <2>3, <2>6, <3>1
  <2> QED BY <1>1, <2>4, <2>5, <2>6
<1> QED BY <1>1, <1>5, <1>6

LEMMA ScalerClockKeeps == ASSUME ScalerIInv, Scaler!Clock PROVE ScalerIInv'
<1>1. x' \in 0 .. Period - 1 /\ y' \in 0 .. ScalerLines + 1
  BY ScalerStreamIs DEF Scaler!Clock
<1>2. dscale' = dscale /\ dscale \in Scales
  BY DEF Scaler!Clock, ScalerIInv, ScalerTypes
<1> QED
  BY <1>1, <1>2, ClockEdges, ClockRows, ClockPhase, ClockStored, ClockPassed DEF ScalerIInv,
     ScalerTypes

LEMMA NextScalerIInv == ScalerIInv /\ [Scaler!Next]_Scaler!vars => ScalerIInv'
<1> SUFFICES ASSUME ScalerIInv, [Scaler!Next]_Scaler!vars PROVE ScalerIInv'
  OBVIOUS
<1>1. CASE UNCHANGED Scaler!vars
  BY <1>1 DEF Scaler!vars, Scaler!scaler, ScalerIInv, ScalerTypes, EdgesOK, RowsOK, Even,
     PhaseOK, StoredOK, PassedOK
<1> QED BY <1>1, ScalerClockKeeps, ScalerResetKeeps DEF Scaler!Next

LEMMA SameCardinality == ASSUME NEW S PROVE Scaler!Cardinality(S) = Cardinality(S)
BY DEF Scaler!Cardinality, Cardinality

LEMMA ScalerDecimates == ScalerIInv => Scaler!Decimates
<1> SUFFICES ASSUME ScalerIInv, settled = 2, Period % (dscale + 1) = 0
    PROVE  /\ Scaler!in_href => (Scaler!out_href <=> y % (dscale + 1) = 0)
           /\ Scaler!out_href /\ Scaler!out_pclk /\ x > 1 => data_r = <<x - dscale - 1, y>>
           /\ y < ScalerLines /\ x = Width =>
                passed = IF y % (dscale + 1) = 0 THEN Scaler!Kept ELSE 0
  BY DEF Scaler!Decimates
<1>1. x \in Nat /\ y \in Nat /\ dscale \in Nat /\ Width \in Nat /\ ScalerLines \in Nat
  BY ScaleIs, ScalerAssumption DEF ScalerIInv, ScalerTypes
<1>2. Scaler!in_href => (Scaler!out_href <=> y % (dscale + 1) = 0)
  BY <1>1 DEF ScalerIInv, RowsOK, Scaler!in_href, Scaler!out_href
<1>3. Scaler!out_href /\ Scaler!out_pclk /\ x > 1 => data_r = <<x - dscale - 1, y>>
  <2> SUFFICES ASSUME Scaler!out_href, Scaler!out_pclk, x > 1 PROVE data_r = <<x - dscale - 1, y>>
    OBVIOUS
  <2>1. data_r = <<x - (dscale + 1), y>>
    BY <1>1 DEF ScalerIInv, StoredOK, Even, Scaler!out_href, Scaler!out_pclk, Scaler!in_href
  <2> QED BY <1>1, <2>1
<1>4. y < ScalerLines /\ x = Width => passed = IF y % (dscale + 1) = 0 THEN Scaler!Kept ELSE 0
  <2> SUFFICES ASSUME y < ScalerLines, x = Width
      PROVE  passed = IF y % (dscale + 1) = 0 THEN Scaler!Kept ELSE 0
    OBVIOUS
  <2>1. (IF x < Width THEN x ELSE Width - 1) = Width - 1 /\ x <= Width
    BY <1>1
  <2>2. passed = IF y % (dscale + 1) = 0
                 THEN Cardinality(KeptTo(Width - 1, dscale + 1)) ELSE 0
    BY <2>1 DEF ScalerIInv, PassedOK, Even
  <2>3. Scaler!Kept = Cardinality(KeptTo(Width - 1, dscale + 1))
    <3>1. Scaler!Kept = Cardinality({k \in 0 .. Width - 1 : (k - 1) % (dscale + 1) = 0})
      BY SameCardinality DEF Scaler!Kept
    <3>2. {k \in 0 .. Width - 1 : (k - 1) % (dscale + 1) = 0} = KeptTo(Width - 1, dscale + 1)
      BY DEF KeptTo
    <3> QED BY <3>1, <3>2, Zenon
  <2> QED BY <2>2, <2>3
<1> QED BY <1>2, <1>3, <1>4

-----------------------------------------------------------------------------
(* The windows of the ISP (isp_bnr.v, isp_demosaic.v, isp_ee.v,            *)
(* isp_utils.v).                                                           *)

(* The stream, as it was e clocks ago.                                     *)
LinePeriod == Width + gap
AgoX(e) == IF e <= lw_x THEN lw_x - e ELSE lw_x - e + LinePeriod
AgoY(e) == IF e <= lw_x THEN lw_y ELSE IF lw_y = 0 THEN Lines + 1 ELSE lw_y - 1
AgoIn(e) == AgoY(e) < Lines /\ AgoX(e) < Width
AgoRaw(e) == IF AgoIn(e) THEN <<frame, AgoY(e), AgoX(e)>> ELSE Blank

(* The pixel that is shifted in next, and the one e pixels before it.      *)
NextX == IF lw_x < Width THEN lw_x ELSE 0
NextY == IF lw_x < Width THEN lw_y ELSE lw_y + 1
BeforeX(e) == IF e <= NextX THEN NextX - e ELSE NextX - e + Width
BeforeY(e) == IF e <= NextX THEN NextY ELSE NextY - 1

(* Where the RAMs were written when it was shifted in.                     *)
Slot(d) == IF d <= Window!pos THEN Window!pos - d ELSE Window!pos - d + Window!RAM_SZ

Pixel == (0 .. 1) \X (0 .. Lines - 1) \X (0 .. Width - 1)
Cell == Pixel \union {Blank}
Columns == [Window!Side -> [Window!Side -> Cell]]
Result == [window : Columns, format : (0 .. 1) \X (0 .. 1)]

WindowTypes ==
  /\ stage \in Window!Stage /\ gap \in Gaps
  /\ lw_x \in 0 .. LinePeriod - 1 /\ lw_y \in 0 .. Lines + 1 /\ frame \in 0 .. 1
  /\ pos_r \in Nat /\ in_r \in Cell
  /\ line \in [1 .. stage.taps -> [0 .. Window!RAM_SZ - 1 -> Cell]]
  /\ line_out \in [1 .. stage.taps -> Cell]
  /\ in_raw_r \in Cell /\ p \in Columns
  /\ odd_pix \in 0 .. 1 /\ lw_href \in BOOLEAN /\ odd_line \in 0 .. 1
  /\ result \in [1 .. stage.clocks -> Result]
  /\ in_dly \in [1 .. stage.DLY_CLK -> Cell]
  /\ aligned \in BOOLEAN

(* The shift register keeps the lines of the frame: each RAM those a line  *)
(* older than the RAM before it, and line_out what is right above.         *)
ShiftOK ==
  lw_y < Lines =>
    /\ BeforeY(1) >= 0 => in_r = <<frame, BeforeY(1), BeforeX(1)>>
    /\ \A j \in 1 .. stage.taps :
         BeforeY(1) - j >= 0 => line_out[j] = <<frame, BeforeY(1) - j, BeforeX(1)>>
    /\ \A j \in 1 .. stage.taps : \A d \in 1 .. Window!RAM_SZ :
         BeforeY(d + 1) - (j - 1) >= 0 =>
           line[j][Slot(d)] = <<frame, BeforeY(d + 1) - (j - 1), BeforeX(d + 1)>>

(* The delays hold the stream, or nothing since a reset.                   *)
DelaysOK ==
  /\ in_raw_r \in {AgoRaw(1), IF aligned THEN AgoRaw(1) ELSE Blank}
  /\ \A e \in 1 .. stage.DLY_CLK :
       in_dly[stage.DLY_CLK + 1 - e] \in {AgoRaw(e), IF aligned THEN AgoRaw(e) ELSE Blank}

ColumnAt(e) == [i \in Window!Side |-> <<frame, AgoY(e) - (stage.taps + 1 - i), AgoX(e)>>]
Deep(e) == AgoIn(e) /\ AgoY(e) >= stage.taps

(* The matrix and the results on their way hold columns of the image.      *)
MatrixOK ==
  aligned =>
    \A e \in 2 .. stage.taps + 2 : Deep(e) => p[stage.taps + 3 - e] = ColumnAt(e)

ResultsOK ==
  aligned =>
    \A n \in 1 .. stage.clocks : \A e \in 2 .. stage.taps + 2 : \A a \in 1 .. 7 :
      a = e + n /\ Deep(a) =>
        result[stage.clocks + 1 - n].window[stage.taps + 3 - e] = ColumnAt(a)

(* The parities are those of the stream.                                   *)
ParityOK ==
  /\ lw_href => lw_y < Lines /\ lw_x \in 1 .. Width
  /\ ~(lw_y < Lines /\ lw_x \in 1 .. Width) => odd_pix = 0
  /\ (lw_y = Lines /\ lw_x > 0) \/ lw_y > Lines => odd_line = 0
  /\ aligned =>
       /\ lw_y < Lines /\ lw_x \in 1 .. Width => lw_href /\ odd_pix = lw_x % 2
       /\ lw_y < Lines \/ (lw_y = Lines /\ lw_x = 0) => odd_line = (IF lw_x <= Width THEN lw_y
          ELSE lw_y + 1) % 2

(* The format that a middle e clocks ago needs.                            *)
FormatFits(fmt, e) ==
  Deep(e) /\ AgoX(e) < Width - Window!Half =>
    CASE stage.name = "isp_bnr" ->
           (fmt[1] = fmt[2]) <=> ((AgoY(e) - Window!Half) % 2 = AgoX(e) % 2)
      [] stage.name = "isp_demosaic" ->
           AgoX(e) = Width - 2 \/ fmt = <<(AgoY(e) - Window!Half) % 2, AgoX(e) % 2>>
      [] OTHER -> TRUE

FormatsOK ==
  aligned =>
    \A n \in 1 .. stage.clocks : \A a \in 1 .. 7 :
      a = Window!Half + 2 + n => FormatFits(result[stage.clocks + 1 - n].format, a)

WindowIInv == WindowTypes /\ ShiftOK /\ DelaysOK /\ MatrixOK /\ ResultsOK /\ ParityOK /\ FormatsOK


(* A shift register of n cells.                                            *)
LEMMA PushIs ==
  ASSUME NEW S, NEW n \in Nat \ {0}, NEW s \in [1 .. n -> S], NEW e \in S
  PROVE  /\ Append(Tail(s), e) \in [1 .. n -> S]
         /\ \A k \in 1 .. n : Append(Tail(s), e)[k] = IF k = n THEN e ELSE s[k + 1]
<1>1. s \in Seq(S) /\ Len(s) = n
  BY DEF Seq
<1>2. Tail(s) \in Seq(S) /\ Len(Tail(s)) = n - 1 /\ \A k \in 1 .. n - 1 : Tail(s)[k] = s[k + 1]
  BY <1>1
<1>3. /\ Append(Tail(s), e) \in Seq(S) /\ Len(Append(Tail(s), e)) = n
      /\ \A k \in 1 .. n - 1 : Append(Tail(s), e)[k] = Tail(s)[k]
      /\ Append(Tail(s), e)[n] = e
  BY <1>2
<1>4. Append(Tail(s), e) \in [1 .. n -> S]
  BY <1>3, LenProperties
<1> QED BY <1>2, <1>3, <1>4

LEMMA StageIs ==
  ASSUME stage \in Window!Stage
  PROVE  /\ stage.taps \in {2, 4} /\ stage.clocks \in {1, 3}
         /\ Window!Half \in {1, 2} /\ stage.taps = 2 * Window!Half
         /\ stage.DLY_CLK = Window!Half + 2 + stage.clocks /\ stage.DLY_CLK <= 6
         /\ stage.taps + stage.clocks <= 5
         /\ Window!Side = 1 .. 2 * Window!Half + 1
         /\ stage.name = "isp_bnr" => Window!Half = 2 /\ ~stage.inverted
         /\ stage.name = "isp_demosaic" => Window!Half = 1 /\ stage.inverted
BY DEF Window!Stage, Window!Half, Window!Side

(* The numbers every step needs.                                           *)
Numbers ==
  /\ Width \in Nat /\ Width >= 6 /\ Lines \in Nat /\ Lines > 0
  /\ gap \in Nat /\ gap > 0 /\ LinePeriod = Width + gap /\ LinePeriod \in Nat
  /\ lw_x \in 0 .. LinePeriod - 1 /\ lw_y \in 0 .. Lines + 1 /\ frame \in 0 .. 1
  /\ Window!RAM_SZ = Width - 1 /\ Window!RAM_SZ \in Nat /\ Window!RAM_SZ > 1
  /\ Window!pos \in 0 .. Window!RAM_SZ - 1
  /\ Window!in_href <=> lw_y < Lines /\ lw_x < Width

LEMMA NumbersOK == ASSUME WindowIInv PROVE Numbers
<1>1. Width \in Nat /\ Width >= 6 /\ Lines \in Nat /\ Lines > 0 /\ gap \in Nat /\ gap > 0
  BY WindowAssumption DEF WindowIInv, WindowTypes
<1>2. pos_r \in Nat
  BY DEF WindowIInv, WindowTypes
<1>3. Window!RAM_SZ = Width - 1 /\ Window!RAM_SZ \in Nat /\ Window!RAM_SZ > 1
  BY <1>1 DEF Window!RAM_SZ
<1>4. Window!pos \in 0 .. Window!RAM_SZ - 1
  BY <1>2, <1>3 DEF Window!pos
<1> QED
  BY <1>1, <1>3, <1>4 DEF Numbers, LinePeriod, WindowIInv, WindowTypes, Window!in_href

LEMMA WindowStreamIs ==
  ASSUME WindowIInv, Window!Stream, gap' = gap
  PROVE  /\ LinePeriod' = LinePeriod
         /\ lw_x' = IF lw_x + 1 = LinePeriod THEN 0 ELSE lw_x + 1
         /\ lw_y' = IF lw_x + 1 # LinePeriod THEN lw_y ELSE IF lw_y = Lines + 1 THEN 0
            ELSE lw_y + 1
         /\ frame' = IF lw_x + 1 = LinePeriod /\ lw_y = Lines + 1 THEN 1 - frame ELSE frame
         /\ lw_x' \in 0 .. LinePeriod - 1 /\ lw_y' \in 0 .. Lines + 1 /\ frame' \in 0 .. 1
<1>1. Numbers
  BY NumbersOK
<1>2. LinePeriod' = LinePeriod
  BY DEF LinePeriod
<1>3. lw_x' = IF lw_x + 1 = LinePeriod THEN 0 ELSE lw_x + 1
  <2>1. (lw_x + 1) % LinePeriod = IF lw_x + 1 = LinePeriod THEN 0 ELSE lw_x + 1
    BY <1>1, Wraps DEF Numbers
  <2> QED BY <2>1 DEF Window!Stream, LinePeriod
<1>4. (lw_y + 1) % (Lines + 2) = IF lw_y = Lines + 1 THEN 0 ELSE lw_y + 1
  <2>1. Lines + 2 \in Nat \ {0} /\ lw_y \in 0 .. (Lines + 2) - 1
    BY <1>1 DEF Numbers
  <2>2. (lw_y + 1) % (Lines + 2) = IF lw_y + 1 = Lines + 2 THEN 0 ELSE lw_y + 1
    BY <2>1, Wraps
  <2> QED BY <1>1, <2>2 DEF Numbers
<1>5. lw_y' = IF lw_x + 1 # LinePeriod THEN lw_y ELSE IF lw_y = Lines + 1 THEN 0 ELSE lw_y + 1
  BY <1>1, <1>3, <1>4 DEF Window!Stream, Numbers
<1>6. frame' = IF lw_x + 1 = LinePeriod /\ lw_y = Lines + 1 THEN 1 - frame ELSE frame
  BY <1>1, <1>5 DEF Window!Stream, Numbers
<1> QED BY <1>1, <1>2, <1>3, <1>5, <1>6 DEF Numbers

(* A clock later, everything is one clock further back.                    *)
LEMMA AgoMoves ==
  ASSUME WindowIInv, Window!Stream, gap' = gap, NEW e \in 1 .. 6
  PROVE  /\ AgoX(e + 1)' = AgoX(e) /\ AgoY(e + 1)' = AgoY(e)
         /\ AgoIn(e + 1)' <=> AgoIn(e)
         /\ AgoIn(e) => frame' = frame
         /\ AgoRaw(e + 1)' = AgoRaw(e)
<1>1. Numbers /\ e + 1 <= LinePeriod /\ e \in Nat
  BY NumbersOK DEF Numbers
<1>2. /\ LinePeriod' = LinePeriod
      /\ lw_x' = IF lw_x + 1 = LinePeriod THEN 0 ELSE lw_x + 1
      /\ lw_y' = IF lw_x + 1 # LinePeriod THEN lw_y ELSE IF lw_y = Lines + 1 THEN 0 ELSE lw_y + 1
      /\ frame' = IF lw_x + 1 = LinePeriod /\ lw_y = Lines + 1 THEN 1 - frame ELSE frame
  BY WindowStreamIs
<1>3. AgoX(e + 1)' = AgoX(e) /\ AgoY(e + 1)' = AgoY(e)
  BY <1>1, <1>2 DEF AgoX, AgoY, Numbers
<1>4. AgoIn(e + 1)' <=> AgoIn(e)
  BY <1>3 DEF AgoIn
<1>5. AgoIn(e) => frame' = frame
  BY <1>1, <1>2 DEF AgoIn, AgoX, AgoY, Numbers
<1> QED BY <1>3, <1>4, <1>5 DEF AgoRaw

LEMMA AgoFirst ==
  ASSUME WindowIInv, Window!Stream, gap' = gap
  PROVE  /\ AgoX(1)' = lw_x /\ AgoY(1)' = lw_y
         /\ Window!in_href => AgoIn(1)' /\ frame' = frame
         /\ ~Window!in_href => ~AgoIn(1)'
         /\ AgoRaw(1)' = Window!in_raw
<1>1. Numbers
  BY NumbersOK
<1>2. /\ LinePeriod' = LinePeriod
      /\ lw_x' = IF lw_x + 1 = LinePeriod THEN 0 ELSE lw_x + 1
      /\ lw_y' = IF lw_x + 1 # LinePeriod THEN lw_y ELSE IF lw_y = Lines + 1 THEN 0 ELSE lw_y + 1
      /\ frame' = IF lw_x + 1 = LinePeriod /\ lw_y = Lines + 1 THEN 1 - frame ELSE frame
  BY WindowStreamIs
<1>3. AgoX(1)' = lw_x /\ AgoY(1)' = lw_y
  BY <1>1, <1>2 DEF AgoX, AgoY, Numbers
<1>4. (Window!in_href => AgoIn(1)' /\ frame' = frame) /\ (~Window!in_href => ~AgoIn(1)')
  BY <1>1, <1>2, <1>3 DEF AgoIn, Numbers
<1> QED BY <1>3, <1>4 DEF AgoRaw, Window!in_raw

LEMMA RawIsCell == ASSUME WindowIInv PROVE Window!in_raw \in Cell
BY NumbersOK DEF Window!in_raw, Cell, Pixel, Numbers

(* Where a reset and the vsync after it have emptied the delays.           *)
LEMMA NothingAgo ==
  ASSUME WindowIInv, Window!Clock, ~aligned, aligned', NEW e \in 1 .. 7
  PROVE  ~AgoIn(e) /\ ~AgoIn(e)'
<1>1. Numbers /\ e <= LinePeriod /\ e \in Nat
  BY NumbersOK DEF Numbers
<1>2. lw_y = Lines + 1
  <2>1. lw_y > Lines
    BY DEF Window!Clock
  <2> QED BY <1>1, <2>1 DEF Numbers
<1>3. /\ LinePeriod' = LinePeriod
      /\ lw_x' = IF lw_x + 1 = LinePeriod THEN 0 ELSE lw_x + 1
      /\ lw_y' = IF lw_x + 1 # LinePeriod THEN lw_y ELSE IF lw_y = Lines + 1 THEN 0 ELSE lw_y + 1
  BY WindowStreamIs DEF Window!Clock
<1>4. ~AgoIn(e)
  BY <1>1, <1>2 DEF AgoIn, AgoX, AgoY, Numbers
<1>5. ~(AgoY(e)' < Lines)
  BY <1>1, <1>2, <1>3 DEF AgoY, Numbers
<1> QED BY <1>4, <1>5 DEF AgoIn

LEMMA ClockTypes == ASSUME WindowIInv, Window!Clock PROVE WindowTypes'
<1>1. /\ stage' = stage /\ gap' = gap /\ stage \in Window!Stage /\ gap \in Gaps
      /\ Window!Half' = Window!Half /\ Window!Side' = Window!Side
  BY DEF Window!Clock, WindowIInv, WindowTypes, Window!Half, Window!Side
<1>2. Numbers /\ Window!in_raw \in Cell
  BY NumbersOK, RawIsCell
<1>3. lw_x' \in 0 .. LinePeriod' - 1 /\ lw_y' \in 0 .. Lines + 1 /\ frame' \in 0 .. 1
  BY <1>1, WindowStreamIs DEF Window!Clock
<1>4. /\ stage.taps \in Nat \ {0} /\ stage.clocks \in Nat \ {0} /\ stage.DLY_CLK \in Nat \ {0}
      /\ Window!Side = 1 .. stage.taps + 1
  BY <1>1, StageIs DEF Window!Side
<1>5. /\ pos_r' \in Nat /\ in_r' \in Cell
      /\ line' \in [1 .. stage.taps -> [0 .. Window!RAM_SZ - 1 -> Cell]]
      /\ line_out' \in [1 .. stage.taps -> Cell]
  <2>1. CASE Window!in_href
    <3>1. /\ pos_r' = IF pos_r < Window!RAM_SZ - 1 THEN pos_r + 1 ELSE 0
          /\ in_r' = Window!in_raw
          /\ line' = [i \in 1 .. stage.taps |->
                        [line[i] EXCEPT ![Window!pos] = IF i = 1 THEN in_r ELSE line_out[i - 1]]]
          /\ line_out' = [i \in 1 .. stage.taps |-> line[i][Window!pos]]
      BY <2>1 DEF Window!Clock, Window!Shift
    <3>2. /\ pos_r \in Nat /\ in_r \in Cell
          /\ line \in [1 .. stage.taps -> [0 .. Window!RAM_SZ - 1 -> Cell]]
          /\ line_out \in [1 .. stage.taps -> Cell]
      BY DEF WindowIInv, WindowTypes
    <3>3. \A i \in 1 .. stage.taps : (IF i = 1 THEN in_r ELSE line_out[i - 1]) \in Cell
      BY <1>4, <3>2
    <3>4. line' \in [1 .. stage.taps -> [0 .. Window!RAM_SZ - 1 -> Cell]]
      BY <3>1, <3>2, <3>3
    <3> QED BY <1>2, <3>1, <3>2, <3>4 DEF Numbers
  <2>2. CASE ~Window!in_href
    BY <2>2 DEF Window!Clock, Window!Shift, Window!shift_register, WindowIInv, WindowTypes
  <2> QED BY <2>1, <2>2
<1>6. in_raw_r' \in Cell /\ p' \in Columns'
  <2> DEFINE c == [i \in Window!Side |-> IF i > stage.taps THEN in_raw_r
                                         ELSE line_out[stage.taps + 1 - i]]
  <2>1. c \in [Window!Side -> Cell]
    BY <1>4 DEF WindowIInv, WindowTypes
  <2>2. p \in [1 .. stage.taps + 1 -> [Window!Side -> Cell]]
    BY <1>4 DEF WindowIInv, WindowTypes, Columns
  <2>3. p' = Append(Tail(p), c)
    BY DEF Window!Clock, Window!Matrix
  <2> HIDE DEF c
  <2>4. p' \in [1 .. stage.taps + 1 -> [Window!Side -> Cell]]
    <3>1. stage.taps + 1 \in Nat \ {0}
      BY <1>4
    <3> QED BY <2>1, <2>2, <2>3, <3>1, PushIs
  <2> QED BY <1>1, <1>2, <1>4, <2>4 DEF Window!Clock, Window!Matrix, Columns
<1>7. result' \in [1 .. stage.clocks -> Result']
  <2>1. Window!format \in (0 .. 1) \X (0 .. 1)
    BY DEF Window!format, WindowIInv, WindowTypes
  <2>2. [window |-> p, format |-> Window!format] \in Result
    BY <2>1 DEF Result, WindowIInv, WindowTypes
  <2>3. result' \in [1 .. stage.clocks -> Result]
    BY <1>4, <2>2, PushIs DEF Window!Clock, Window!Outputs, WindowIInv, WindowTypes
  <2>4. Result' = Result
    BY <1>1 DEF Result, Columns
  <2> QED BY <2>3, <2>4
<1>8. in_dly' \in [1 .. stage.DLY_CLK -> Cell]
  BY <1>2, <1>4, PushIs DEF Window!Clock, Window!Outputs, WindowIInv, WindowTypes
<1>9. odd_pix' \in 0 .. 1 /\ lw_href' \in BOOLEAN /\ odd_line' \in 0 .. 1
  BY <1>2 DEF Window!Clock, Window!Parity, Numbers, Window!in_href, WindowIInv, WindowTypes
<1>10. aligned' \in BOOLEAN
  BY DEF Window!Clock, WindowIInv, WindowTypes
<1> QED
  BY <1>1, <1>3, <1>5, <1>6, <1>7, <1>8, <1>9, <1>10 DEF WindowTypes

LEMMA ClockDelays == ASSUME WindowIInv, Window!Clock PROVE DelaysOK'
<1>1. stage' = stage /\ gap' = gap /\ Window!Stream /\ stage \in Window!Stage
  BY DEF Window!Clock, WindowIInv, WindowTypes
<1>2. in_raw_r' = Window!in_raw /\ AgoRaw(1)' = Window!in_raw
  BY <1>1, AgoFirst DEF Window!Clock, Window!Matrix
<1>3. ASSUME NEW e \in 1 .. stage.DLY_CLK
      PROVE  in_dly'[stage.DLY_CLK + 1 - e] \in {AgoRaw(e)', IF aligned' THEN AgoRaw(e)'
             ELSE Blank}
  <2>1. stage.DLY_CLK \in 1 .. 6 /\ in_dly \in [1 .. stage.DLY_CLK -> Cell]
        /\ Window!in_raw \in Cell
    BY <1>1, StageIs, RawIsCell DEF WindowIInv, WindowTypes
  <2>2. \A m \in 1 .. stage.DLY_CLK :
          in_dly'[m] = IF m = stage.DLY_CLK THEN Window!in_raw ELSE in_dly[m + 1]
    <3>1. stage.DLY_CLK \in Nat \ {0}
      BY <2>1
    <3> QED BY <2>1, <3>1, PushIs DEF Window!Clock, Window!Outputs
  <2>3. CASE e = 1
    <3>1. stage.DLY_CLK + 1 - e = stage.DLY_CLK
      BY <2>1, <2>3
    <3>2. in_dly'[stage.DLY_CLK] = Window!in_raw
      BY <2>1, <2>2
    <3> QED BY <1>2, <2>3, <3>1, <3>2
  <2>4. CASE e # 1
    <3>1. PICK d \in 1 .. 6 : e = d + 1 /\ d + 1 \in 1 .. stage.DLY_CLK
      <4>1. e - 1 \in 1 .. 6 /\ e = (e - 1) + 1
        BY <1>3, <2>1, <2>4
      <4> QED BY <1>3, <4>1
    <3>2. in_dly'[stage.DLY_CLK + 1 - e] = in_dly[stage.DLY_CLK + 1 - d]
      <4>1. /\ stage.DLY_CLK + 1 - e \in 1 .. stage.DLY_CLK
            /\ stage.DLY_CLK + 1 - e # stage.DLY_CLK
            /\ stage.DLY_CLK + 1 - e + 1 = stage.DLY_CLK + 1 - d
        BY <2>1, <3>1
      <4> QED BY <2>2, <4>1
    <3>3. in_dly[stage.DLY_CLK + 1 - d] \in {AgoRaw(d), IF aligned THEN AgoRaw(d) ELSE Blank}
      <4>1. d \in 1 .. stage.DLY_CLK
        BY <2>1, <3>1
      <4> QED BY <4>1 DEF WindowIInv, DelaysOK
    <3>4. AgoRaw(e)' = AgoRaw(d)
      BY <1>1, <3>1, AgoMoves
    <3>5. CASE aligned' /\ ~aligned
      <4>1. d \in 1 .. 7
        BY <3>1
      <4>2. AgoRaw(d) = Blank
        BY <3>5, <4>1, NothingAgo DEF AgoRaw
      <4> QED BY <3>2, <3>3, <3>4, <4>2
    <3>6. CASE aligned' /\ aligned
      BY <3>2, <3>3, <3>4, <3>6
    <3>7. CASE ~aligned'
      <4>1. ~aligned
        BY <3>7 DEF Window!Clock
      <4> QED BY <3>2, <3>3, <3>4, <3>7, <4>1
    <3> QED BY <3>5, <3>6, <3>7
  <2> QED BY <2>3, <2>4
<1> QED BY <1>1, <1>2, <1>3 DEF DelaysOK

LEMMA ClockParity == ASSUME WindowIInv, Window!Clock PROVE ParityOK'
<1>1. Numbers
  BY NumbersOK
<1>2. /\ LinePeriod' = LinePeriod
      /\ lw_x' = IF lw_x + 1 = LinePeriod THEN 0 ELSE lw_x + 1
      /\ lw_y' = IF lw_x + 1 # LinePeriod THEN lw_y ELSE IF lw_y = Lines + 1 THEN 0 ELSE lw_y + 1
  BY WindowStreamIs DEF Window!Clock
<1>3. /\ odd_pix' = IF Window!in_href THEN 1 - odd_pix ELSE 0
      /\ lw_href' = Window!in_href
      /\ odd_line' = IF lw_y = Lines THEN 0
                     ELSE IF lw_href /\ ~Window!in_href THEN 1 - odd_line ELSE odd_line
  BY DEF Window!Clock, Window!Parity, Window!in_vsync
<1>4. aligned' <=> aligned \/ lw_y = Lines + 1
  <2>1. aligned' <=> aligned \/ lw_y > Lines
    BY DEF Window!Clock
  <2>2. lw_y > Lines <=> lw_y = Lines + 1
    BY <1>1 DEF Numbers
  <2> QED BY <2>1, <2>2
<1>5. odd_pix \in 0 .. 1 /\ odd_line \in 0 .. 1 /\ aligned \in BOOLEAN /\ lw_href \in BOOLEAN
  BY DEF WindowIInv, WindowTypes
<1>6. /\ lw_href => lw_y < Lines /\ lw_x \in 1 .. Width
      /\ ~(lw_y < Lines /\ lw_x \in 1 .. Width) => odd_pix = 0
      /\ (lw_y = Lines /\ lw_x > 0) \/ lw_y > Lines => odd_line = 0
  BY DEF WindowIInv, ParityOK
<1>7. lw_href' => lw_y' < Lines /\ lw_x' \in 1 .. Width
  BY <1>1, <1>2, <1>3 DEF Numbers
<1>8. ~(lw_y' < Lines /\ lw_x' \in 1 .. Width) => odd_pix' = 0
  BY <1>1, <1>2, <1>3 DEF Numbers
<1>9. (lw_y' = Lines /\ lw_x' > 0) \/ lw_y' > Lines => odd_line' = 0
  BY <1>1, <1>2, <1>3, <1>6 DEF Numbers
<1>10. ASSUME aligned', lw_y' < Lines, lw_x' \in 1 .. Width
       PROVE  lw_href' /\ odd_pix' = lw_x' % 2
  <2>1. lw_y' = lw_y /\ lw_x' = lw_x + 1 /\ Window!in_href /\ lw_y < Lines /\ aligned
    BY <1>1, <1>2, <1>4, <1>10 DEF Numbers
  <2>2. odd_pix = lw_x % 2
    <3>1. CASE lw_x = 0
      BY <1>6, <3>1
    <3>2. CASE lw_x # 0
      BY <1>1, <2>1, <3>2 DEF WindowIInv, ParityOK, Numbers
    <3> QED BY <3>1, <3>2
  <2>3. (lw_x + 1) % 2 = 1 - (lw_x % 2)
    BY <1>1 DEF Numbers
  <2> QED BY <1>3, <2>1, <2>2, <2>3
<1>11. ASSUME aligned', lw_y' < Lines \/ (lw_y' = Lines /\ lw_x' = 0)
       PROVE  odd_line' = (IF lw_x' <= Width THEN lw_y' ELSE lw_y' + 1) % 2
  <2>1. CASE lw_y = Lines + 1
    BY <1>1, <1>2, <1>3, <1>6, <1>11, <2>1 DEF Numbers
  <2>2. CASE lw_y # Lines + 1
    <3>1. lw_y < Lines /\ aligned
      BY <1>1, <1>2, <1>4, <1>11, <2>2 DEF Numbers
    <3>2. odd_line = (IF lw_x <= Width THEN lw_y ELSE lw_y + 1) % 2
      BY <3>1 DEF WindowIInv, ParityOK
    <3>3. CASE lw_x < Width
      BY <1>1, <1>2, <1>3, <3>1, <3>2, <3>3 DEF Numbers
    <3>4. CASE lw_x = Width
      <4>1. lw_href
        BY <1>1, <3>1, <3>4 DEF WindowIInv, ParityOK, Numbers
      <4>2. odd_line' = 1 - (lw_y % 2)
        BY <1>1, <1>3, <3>1, <3>2, <3>4, <4>1 DEF Numbers
      <4>3. (lw_y + 1) % 2 = 1 - (lw_y % 2)
        BY <1>1 DEF Numbers
      <4> QED BY <1>1, <1>2, <3>1, <3>4, <4>2, <4>3 DEF Numbers
    <3>5. CASE lw_x > Width
      BY <1>1, <1>2, <1>3, <1>6, <3>1, <3>2, <3>5 DEF Numbers
    <3> QED BY <1>1, <3>3, <3>4, <3>5 DEF Numbers
  <2> QED BY <2>1, <2>2
<1> QED BY <1>7, <1>8, <1>9, <1>10, <1>11 DEF ParityOK

LEMMA ClockShift == ASSUME WindowIInv, Window!Clock PROVE ShiftOK'
<1>1. Numbers
  BY NumbersOK
<1>2. /\ lw_x' = IF lw_x + 1 = LinePeriod THEN 0 ELSE lw_x + 1
      /\ lw_y' = IF lw_x + 1 # LinePeriod THEN lw_y ELSE IF lw_y = Lines + 1 THEN 0 ELSE lw_y + 1
      /\ frame' = IF lw_x + 1 = LinePeriod /\ lw_y = Lines + 1 THEN 1 - frame ELSE frame
      /\ lw_x' \in 0 .. LinePeriod - 1
  BY WindowStreamIs DEF Window!Clock
<1>3. stage' = stage /\ stage \in Window!Stage /\ stage.taps \in {2, 4}
  BY StageIs DEF Window!Clock, WindowIInv, WindowTypes
<1>4. ASSUME Window!in_href, lw_y' < Lines PROVE ShiftOK'
  <2>1. /\ pos_r' = IF pos_r < Window!RAM_SZ - 1 THEN pos_r + 1 ELSE 0
        /\ in_r' = <<frame, lw_y, lw_x>>
        /\ line' = [i \in 1 .. stage.taps |->
                      [line[i] EXCEPT ![Window!pos] = IF i = 1 THEN in_r ELSE line_out[i - 1]]]
        /\ line_out' = [i \in 1 .. stage.taps |-> line[i][Window!pos]]
    BY <1>4 DEF Window!Clock, Window!Shift, Window!in_raw
  <2>2. /\ lw_x' = lw_x + 1 /\ lw_y' = lw_y /\ frame' = frame /\ lw_x < Width /\ lw_y < Lines
        /\ NextX = lw_x /\ NextY = lw_y
        /\ NextX' = IF lw_x + 1 < Width THEN lw_x + 1 ELSE 0
        /\ NextY' = IF lw_x + 1 < Width THEN lw_y ELSE lw_y + 1
    BY <1>1, <1>2, <1>4 DEF Numbers, NextX, NextY
  <2>3. BeforeX(1)' = lw_x /\ BeforeY(1)' = lw_y
    BY <1>1, <2>2 DEF Numbers, BeforeX, BeforeY
  <2>4. ASSUME NEW d \in 1 .. Window!RAM_SZ
        PROVE  BeforeX(d + 1)' = BeforeX(d) /\ BeforeY(d + 1)' = BeforeY(d)
    BY <1>1, <2>2, <2>4 DEF Numbers, BeforeX, BeforeY
  <2>5. BeforeX(Window!RAM_SZ + 1) = lw_x /\ BeforeY(Window!RAM_SZ + 1) = lw_y - 1
    BY <1>1, <2>2 DEF Numbers, BeforeX, BeforeY
  <2>6. pos_r \in Nat /\ Window!pos' = IF Window!pos < Window!RAM_SZ - 1 THEN Window!pos + 1
        ELSE 0
    BY <1>1, <2>1 DEF Numbers, Window!pos, Window!RAM_SZ, WindowIInv, WindowTypes
  <2>7. Slot(1)' = Window!pos /\ Slot(Window!RAM_SZ) = Window!pos
    BY <1>1, <2>6 DEF Numbers, Slot, Window!RAM_SZ
  <2>8. ASSUME NEW d \in 1 .. Window!RAM_SZ - 1
        PROVE  Slot(d + 1)' = Slot(d) /\ Slot(d) # Window!pos
               /\ Slot(d) \in 0 .. Window!RAM_SZ - 1
    BY <1>1, <2>6, <2>8 DEF Numbers, Slot, Window!RAM_SZ
  <2>9. /\ BeforeY(1) >= 0 => in_r = <<frame, BeforeY(1), BeforeX(1)>>
        /\ \A j \in 1 .. stage.taps :
             BeforeY(1) - j >= 0 => line_out[j] = <<frame, BeforeY(1) - j, BeforeX(1)>>
        /\ \A j \in 1 .. stage.taps : \A d \in 1 .. Window!RAM_SZ :
             BeforeY(d + 1) - (j - 1) >= 0 =>
               line[j][Slot(d)] = <<frame, BeforeY(d + 1) - (j - 1), BeforeX(d + 1)>>
    BY <2>2 DEF WindowIInv, ShiftOK
  <2>10. BeforeY(1) \in Int
    BY <1>1, <2>2 DEF Numbers, BeforeY
  <2>11. ASSUME NEW j \in 1 .. stage.taps, lw_y - j >= 0
         PROVE  line_out'[j] = <<frame, lw_y - j, lw_x>>
    <3>1. Window!RAM_SZ \in 1 .. Window!RAM_SZ /\ j \in Nat
      BY <1>1, <1>3, <2>11 DEF Numbers
    <3>2. BeforeY(Window!RAM_SZ + 1) - (j - 1) = lw_y - j
      BY <1>1, <2>5, <3>1 DEF Numbers
    <3>3. line[j][Window!pos] = <<frame, lw_y - j, lw_x>>
      BY <2>5, <2>7, <2>9, <2>11, <3>1, <3>2
    <3> QED BY <2>1, <2>11, <3>3
  <2>12. ASSUME NEW j \in 1 .. stage.taps, NEW d \in 1 .. Window!RAM_SZ,
                BeforeY(d + 1)' - (j - 1) >= 0
         PROVE  line'[j][Slot(d)'] = <<frame, BeforeY(d + 1)' - (j - 1), BeforeX(d + 1)'>>
    <3>1. line \in [1 .. stage.taps -> [0 .. Window!RAM_SZ - 1 -> Cell]]
      BY DEF WindowIInv, WindowTypes
    <3>2. line'[j] = [line[j] EXCEPT ![Window!pos] = IF j = 1 THEN in_r ELSE line_out[j - 1]]
      BY <2>1, <2>12
    <3>3. BeforeX(d + 1)' = BeforeX(d) /\ BeforeY(d + 1)' = BeforeY(d)
      BY <2>4, <2>12
    <3>4. CASE d = 1
      <4>1. line'[j][Slot(d)'] = IF j = 1 THEN in_r ELSE line_out[j - 1]
        BY <1>1, <2>7, <2>12, <3>1, <3>2, <3>4 DEF Numbers
      <4>2. j # 1 => j - 1 \in 1 .. stage.taps
        BY <1>3, <2>12
      <4>3. j = 1 => BeforeY(1) - (j - 1) = BeforeY(1)
        BY <2>10
      <4> QED BY <2>9, <2>12, <3>3, <3>4, <4>1, <4>2, <4>3
    <3>5. CASE d # 1
      <4>1. PICK c \in 1 .. Window!RAM_SZ - 1 : d = c + 1
        <5>1. d - 1 \in 1 .. Window!RAM_SZ - 1 /\ d = (d - 1) + 1
          BY <1>1, <2>12, <3>5 DEF Numbers
        <5> QED BY <5>1
      <4>2. Slot(d)' = Slot(c) /\ Slot(c) # Window!pos /\ Slot(c) \in 0 .. Window!RAM_SZ - 1
        BY <2>8, <4>1
      <4>3. line'[j][Slot(c)] = line[j][Slot(c)]
        BY <2>12, <3>1, <3>2, <4>2
      <4>4. c \in 1 .. Window!RAM_SZ
        BY <1>1, <4>1 DEF Numbers
      <4> QED BY <2>9, <2>12, <3>3, <4>1, <4>2, <4>3, <4>4
    <3> QED BY <3>4, <3>5
  <2>13. Window!RAM_SZ' = Window!RAM_SZ
    BY DEF Window!RAM_SZ
  <2> QED BY <1>3, <2>1, <2>2, <2>3, <2>11, <2>12, <2>13 DEF ShiftOK
<1>5. ASSUME ~Window!in_href, lw_y' < Lines PROVE ShiftOK'
  <2>1. pos_r' = pos_r /\ in_r' = in_r /\ line' = line /\ line_out' = line_out
    BY <1>5 DEF Window!Clock, Window!Shift, Window!shift_register
  <2>2. CASE lw_y > Lines
    <3>1. lw_x' = 0 /\ lw_y' = 0
      BY <1>1, <1>2, <1>5, <2>2 DEF Numbers
    <3>2. NextX' = 0 /\ NextY' = 0
      BY <1>1, <3>1 DEF Numbers, NextX, NextY
    <3>3. \A e \in 1 .. Width : BeforeY(e)' = -1
      BY <1>1, <3>2 DEF Numbers, BeforeY
    <3>4. \A d \in 1 .. Window!RAM_SZ : d + 1 \in 1 .. Width
      BY <1>1 DEF Numbers
    <3>5. BeforeY(1)' = -1 /\ \A d \in 1 .. Window!RAM_SZ : BeforeY(d + 1)' = -1
      BY <1>1, <3>3, <3>4 DEF Numbers
    <3>6. Window!RAM_SZ' = Window!RAM_SZ /\ \A j \in 1 .. stage.taps : j \in Nat /\ j > 0
      BY <1>3 DEF Window!RAM_SZ
    <3> QED BY <1>3, <3>5, <3>6 DEF ShiftOK
  <2>3. CASE ~(lw_y > Lines)
    <3>1. lw_y < Lines /\ frame' = frame /\ NextX' = NextX /\ NextY' = NextY
      BY <1>1, <1>2, <1>5, <2>3 DEF Numbers, NextX, NextY
    <3> QED
      BY <1>3, <2>1, <3>1 DEF WindowIInv, ShiftOK, BeforeX, BeforeY, Slot, Window!pos,
         Window!RAM_SZ
  <2> QED BY <2>2, <2>3
<1> QED BY <1>4, <1>5 DEF ShiftOK

(* The column that enters the matrix.                                      *)
LEMMA ColumnEnters ==
  ASSUME WindowIInv, Deep(1), aligned
  PROVE  [i \in Window!Side |-> IF i > stage.taps THEN in_raw_r ELSE line_out[stage.taps + 1 - i]]
           = ColumnAt(1)
<1>1. Numbers /\ stage.taps \in {2, 4} /\ Window!Side = 1 .. stage.taps + 1
  BY NumbersOK, StageIs DEF WindowIInv, WindowTypes, Window!Side
<1>2. /\ lw_y < Lines /\ lw_x \in 1 .. Width /\ AgoX(1) = lw_x - 1 /\ AgoY(1) = lw_y
         /\ lw_y >= stage.taps
      /\ BeforeX(1) = lw_x - 1 /\ BeforeY(1) = lw_y
  BY <1>1 DEF Numbers, Deep, AgoIn, AgoX, AgoY, BeforeX, BeforeY, NextX, NextY
<1>3. in_raw_r = <<frame, lw_y, lw_x - 1>>
  BY <1>2 DEF WindowIInv, DelaysOK, AgoRaw, Deep
<1>4. \A j \in 1 .. stage.taps : line_out[j] = <<frame, lw_y - j, lw_x - 1>>
  <2>1. ASSUME NEW j \in 1 .. stage.taps PROVE BeforeY(1) - j >= 0
    BY <1>1, <1>2 DEF Numbers
  <2>2. \A j \in 1 .. stage.taps : line_out[j] = <<frame, BeforeY(1) - j, BeforeX(1)>>
    BY <1>2, <2>1 DEF WindowIInv, ShiftOK
  <2> QED BY <1>2, <2>2
<1>5. ASSUME NEW i \in Window!Side
      PROVE  (IF i > stage.taps THEN in_raw_r ELSE line_out[stage.taps + 1 - i])
               = <<frame, lw_y - (stage.taps + 1 - i), lw_x - 1>>
  <2>1. CASE i > stage.taps
    <3>1. lw_y - (stage.taps + 1 - i) = lw_y
      BY <1>1, <1>5, <2>1 DEF Numbers
    <3> QED BY <1>3, <2>1, <3>1
  <2>2. CASE ~(i > stage.taps)
    <3>1. stage.taps + 1 - i \in 1 .. stage.taps
      BY <1>1, <1>5, <2>2
    <3> QED BY <1>4, <2>2, <3>1
  <2> QED BY <2>1, <2>2
<1> QED BY <1>2, <1>5 DEF ColumnAt

(* Columns move on with the stream.                                        *)
LEMMA ColumnMoves ==
  ASSUME WindowIInv, Window!Clock, NEW e \in 1 .. 6, NEW a \in 1 .. 7, a = e + 1, Deep(a)'
  PROVE  Deep(e) /\ ColumnAt(a)' = ColumnAt(e) /\ (aligned' => aligned)
<1>1. stage' = stage /\ gap' = gap /\ Window!Stream /\ Window!Side' = Window!Side
  BY DEF Window!Clock, Window!Side
<1>2. /\ AgoX(a)' = AgoX(e) /\ AgoY(a)' = AgoY(e)
      /\ AgoIn(a)' <=> AgoIn(e)
      /\ AgoIn(e) => frame' = frame
  BY <1>1, AgoMoves
<1>3. Deep(e) /\ frame' = frame
  BY <1>1, <1>2 DEF Deep
<1>4. aligned' => aligned
  BY NothingAgo DEF Deep
<1> QED BY <1>1, <1>2, <1>3, <1>4 DEF ColumnAt

LEMMA ClockMatrix == ASSUME WindowIInv, Window!Clock PROVE MatrixOK'
<1>1. stage' = stage /\ stage \in Window!Stage /\ Window!Side' = Window!Side
  BY DEF Window!Clock, WindowIInv, WindowTypes, Window!Side
<1>2. stage.taps \in {2, 4} /\ Window!Side = 1 .. stage.taps + 1
  BY <1>1, StageIs DEF Window!Side
<1> SUFFICES ASSUME aligned', NEW a \in 2 .. stage.taps + 2, Deep(a)'
    PROVE  p'[stage.taps + 3 - a] = ColumnAt(a)'
  BY <1>1 DEF MatrixOK
<1> DEFINE c == [i \in Window!Side |-> IF i > stage.taps THEN in_raw_r
       ELSE line_out[stage.taps + 1 - i]]
<1>3. PICK e \in 1 .. 6 : a = e + 1
  <2>1. a - 1 \in 1 .. 6 /\ a = (a - 1) + 1
    BY <1>2
  <2> QED BY <2>1
<1>4. Deep(e) /\ ColumnAt(a)' = ColumnAt(e) /\ aligned
  <2>1. a \in 1 .. 7
    BY <1>2
  <2> QED BY <1>3, <2>1, ColumnMoves
<1>5. \A k \in 1 .. stage.taps + 1 : p'[k] = IF k = stage.taps + 1 THEN c ELSE p[k + 1]
  <2>1. c \in [Window!Side -> Cell]
    BY <1>2 DEF WindowIInv, WindowTypes
  <2>2. p \in [1 .. stage.taps + 1 -> [Window!Side -> Cell]] /\ stage.taps + 1 \in Nat \ {0}
    BY <1>2 DEF WindowIInv, WindowTypes, Columns
  <2>3. p' = Append(Tail(p), c)
    BY DEF Window!Clock, Window!Matrix
  <2> HIDE DEF c
  <2> QED BY <2>1, <2>2, <2>3, PushIs
<1>6. CASE e = 1
  <2>1. c = ColumnAt(1)
    BY <1>4, <1>6, ColumnEnters
  <2> HIDE DEF c
  <2>2. stage.taps + 3 - a = stage.taps + 1 /\ stage.taps + 1 \in 1 .. stage.taps + 1
    BY <1>2, <1>3, <1>6
  <2> QED BY <1>4, <1>5, <1>6, <2>1, <2>2
<1>7. CASE e # 1
  <2> HIDE DEF c
  <2>1. /\ stage.taps + 3 - a \in 1 .. stage.taps + 1
        /\ stage.taps + 3 - a # stage.taps + 1
        /\ stage.taps + 3 - a + 1 = stage.taps + 3 - e
        /\ e \in 2 .. stage.taps + 2
    BY <1>2, <1>3, <1>7
  <2>2. p[stage.taps + 3 - e] = ColumnAt(e)
    BY <1>4, <2>1 DEF WindowIInv, MatrixOK
  <2> QED BY <1>4, <1>5, <2>1, <2>2
<1> QED BY <1>6, <1>7

LEMMA ResultIs ==
  ASSUME WindowIInv, Window!Clock
  PROVE  /\ stage.clocks \in {1, 3}
         /\ \A m \in 1 .. stage.clocks :
              result'[m] = IF m = stage.clocks THEN [window |-> p, format |-> Window!format]
                           ELSE result[m + 1]
<1>1. stage.clocks \in {1, 3}
  BY StageIs DEF WindowIInv, WindowTypes
<1>2. [window |-> p, format |-> Window!format] \in Result
  BY DEF Result, Window!format, WindowIInv, WindowTypes
<1>3. stage.clocks \in Nat \ {0} /\ result \in [1 .. stage.clocks -> Result]
  BY <1>1 DEF WindowIInv, WindowTypes
<1>4. result' = Append(Tail(result), [window |-> p, format |-> Window!format])
  BY DEF Window!Clock, Window!Outputs
<1> QED BY <1>1, <1>2, <1>3, <1>4, PushIs

LEMMA ClockResults == ASSUME WindowIInv, Window!Clock PROVE ResultsOK'
<1>1. /\ stage' = stage /\ stage \in Window!Stage
      /\ stage.taps \in {2, 4} /\ stage.clocks \in {1, 3} /\ stage.taps + stage.clocks <= 5
  BY StageIs DEF Window!Clock, WindowIInv, WindowTypes
<1> SUFFICES ASSUME aligned', NEW n \in 1 .. stage.clocks, NEW e \in 2 .. stage.taps + 2,
                    NEW a \in 1 .. 7, a = e + n, Deep(a)'
    PROVE  result'[stage.clocks + 1 - n].window[stage.taps + 3 - e] = ColumnAt(a)'
  BY <1>1 DEF ResultsOK
<1>2. PICK b \in 1 .. 6 : a = b + 1
  <2>1. a - 1 \in 1 .. 6 /\ a = (a - 1) + 1
    BY <1>1
  <2> QED BY <2>1
<1>3. Deep(b) /\ ColumnAt(a)' = ColumnAt(b) /\ aligned
  BY <1>2, ColumnMoves
<1>4. CASE n = 1
  <2>1. stage.clocks + 1 - n = stage.clocks /\ stage.clocks \in 1 .. stage.clocks /\ b = e
    BY <1>1, <1>2, <1>4
  <2>2. result'[stage.clocks].window = p
    BY <2>1, ResultIs
  <2> QED BY <1>3, <2>1, <2>2 DEF WindowIInv, MatrixOK
<1>5. CASE n # 1
  <2>1. /\ stage.clocks + 1 - n \in 1 .. stage.clocks
        /\ stage.clocks + 1 - n # stage.clocks
        /\ stage.clocks + 1 - n + 1 = stage.clocks + 1 - (n - 1)
        /\ n - 1 \in 1 .. stage.clocks /\ b = e + (n - 1) /\ b \in 1 .. 7
    BY <1>1, <1>2, <1>5
  <2>2. result'[stage.clocks + 1 - n] = result[stage.clocks + 1 - (n - 1)]
    BY <2>1, ResultIs
  <2>3. result[stage.clocks + 1 - (n - 1)].window[stage.taps + 3 - e] = ColumnAt(b)
    BY <1>3, <2>1 DEF WindowIInv, ResultsOK
  <2> QED BY <1>3, <2>2, <2>3
<1> QED BY <1>4, <1>5

(* What format says when a matrix becomes a result.                        *)
LEMMA FormatEnters ==
  ASSUME WindowIInv, aligned, NEW e \in 1 .. 6, e = Window!Half + 2
  PROVE  FormatFits(Window!format, e)
<1>1. /\ Numbers /\ stage \in Window!Stage /\ Window!Half \in {1, 2}
         /\ stage.taps = 2 * Window!Half
      /\ stage.name = "isp_bnr" => Window!Half = 2 /\ ~stage.inverted
      /\ stage.name = "isp_demosaic" => Window!Half = 1 /\ stage.inverted
  BY NumbersOK, StageIs DEF WindowIInv, WindowTypes
<1> SUFFICES ASSUME Deep(e), AgoX(e) < Width - Window!Half
    PROVE  CASE stage.name = "isp_bnr" ->
                  (Window!format[1] = Window!format[2])
                    <=> ((AgoY(e) - Window!Half) % 2 = AgoX(e) % 2)
             [] stage.name = "isp_demosaic" ->
                  AgoX(e) = Width - 2 \/ Window!format = <<(AgoY(e) - Window!Half) % 2,
                    AgoX(e) % 2>>
             [] OTHER -> TRUE
  BY DEF FormatFits
<1> DEFINE r == AgoY(e)
           c == AgoX(e)
<1>2. /\ r \in 0 .. Lines - 1 /\ r >= 2 * Window!Half /\ c \in 0 .. Width - Window!Half - 1
      /\ \/ lw_y = r /\ lw_x = c + Window!Half + 2 /\ lw_x <= Width + 1
         \/ lw_y = r + 1 /\ lw_x = 0 /\ c = Width - Window!Half - 1
  BY <1>1 DEF Numbers, Deep, AgoIn, AgoX, AgoY
<1> HIDE DEF r, c
<1>3. odd_pix \in 0 .. 1 /\ odd_line \in 0 .. 1
  BY DEF WindowIInv, WindowTypes
<1>4. lw_x \in 1 .. Width /\ lw_y = r => odd_pix = lw_x % 2 /\ odd_line = r % 2
  BY <1>1, <1>2 DEF WindowIInv, ParityOK, Numbers
<1>5. ~(lw_x \in 1 .. Width /\ lw_y = r) => odd_pix = 0 /\ odd_line = (r + 1) % 2
      /\ c = Width - Window!Half - 1
  <2>1. CASE lw_y = r /\ lw_x = Width + 1
    BY <1>1, <1>2, <2>1 DEF WindowIInv, ParityOK, Numbers
  <2>2. CASE lw_y = r + 1 /\ lw_x = 0
    <3>1. odd_pix = 0
      BY <1>1, <1>2, <2>2 DEF WindowIInv, ParityOK, Numbers
    <3>2. lw_y < Lines \/ (lw_y = Lines /\ lw_x = 0)
      BY <1>1, <1>2, <2>2 DEF Numbers
    <3>3. odd_line = (IF lw_x <= Width THEN lw_y ELSE lw_y + 1) % 2
      BY <3>2 DEF WindowIInv, ParityOK
    <3>4. lw_x <= Width
      BY <1>1, <2>2 DEF Numbers
    <3> QED BY <1>1, <1>2, <2>2, <3>1, <3>3, <3>4
  <2> QED BY <1>1, <1>2, <2>1, <2>2 DEF Numbers
<1>6. Width % 2 = 0
  BY WindowAssumption
<1>7. CASE stage.name = "isp_bnr"
  <2>1. Window!Half = 2 /\ Window!format = <<odd_line, odd_pix>>
    BY <1>1, <1>7 DEF Window!format
  <2>2. (odd_line = odd_pix) <=> ((r - 2) % 2 = c % 2)
    <3>1. CASE lw_x \in 1 .. Width /\ lw_y = r
      <4>1. lw_x = c + 4
        BY <1>1, <1>2, <2>1, <3>1 DEF Numbers
      <4> QED BY <1>1, <1>2, <1>4, <3>1, <4>1 DEF Numbers
    <3>2. CASE ~(lw_x \in 1 .. Width /\ lw_y = r)
      <4>1. odd_pix = 0 /\ odd_line = (r + 1) % 2 /\ c = Width - 3
        BY <1>1, <1>5, <2>1, <3>2 DEF Numbers
      <4> QED BY <1>1, <1>2, <1>6, <4>1 DEF Numbers
    <3> QED BY <3>1, <3>2
  <2> QED BY <1>7, <2>1, <2>2 DEF r, c
<1>8. CASE stage.name = "isp_demosaic"
  <2>1. Window!Half = 1 /\ Window!format = <<1 - odd_line, 1 - odd_pix>>
    BY <1>1, <1>8 DEF Window!format
  <2>2. c = Width - 2 \/ Window!format = <<(r - 1) % 2, c % 2>>
    <3>1. CASE lw_x \in 1 .. Width /\ lw_y = r
      <4>1. lw_x = c + 3
        BY <1>1, <1>2, <2>1, <3>1 DEF Numbers
      <4>2. 1 - odd_line = (r - 1) % 2 /\ 1 - odd_pix = c % 2
        BY <1>1, <1>2, <1>4, <3>1, <4>1 DEF Numbers
      <4> QED BY <2>1, <4>2
    <3>2. CASE ~(lw_x \in 1 .. Width /\ lw_y = r)
      BY <1>1, <1>5, <2>1, <3>2 DEF Numbers
    <3> QED BY <3>1, <3>2
  <2> QED BY <1>8, <2>1, <2>2 DEF r, c
<1> QED BY <1>7, <1>8

LEMMA ClockFormats == ASSUME WindowIInv, Window!Clock PROVE FormatsOK'
<1>1. /\ stage' = stage /\ stage \in Window!Stage /\ Window!Half' = Window!Half
      /\ Window!Half \in {1, 2} /\ stage.clocks \in {1, 3} /\ stage.taps = 2 * Window!Half
      /\ Window!Half + 2 + stage.clocks <= 6
  BY StageIs DEF Window!Clock, WindowIInv, WindowTypes, Window!Half
<1> SUFFICES ASSUME aligned', NEW n \in 1 .. stage.clocks, NEW a \in 1 .. 7,
             a = Window!Half + 2 + n
    PROVE  FormatFits(result[stage.clocks + 1 - n].format, a)'
  BY <1>1 DEF FormatsOK
<1>2. PICK b \in 1 .. 6 : a = b + 1
  <2>1. a - 1 \in 1 .. 6 /\ a = (a - 1) + 1
    BY <1>1
  <2> QED BY <2>1
<1>3. AgoX(a)' = AgoX(b) /\ AgoY(a)' = AgoY(b)
  BY <1>2, AgoMoves DEF Window!Clock
<1>4. Deep(a)' => Deep(b) /\ aligned
  BY <1>2, ColumnMoves
<1>5. ASSUME NEW fmt, fmt = result'[stage.clocks + 1 - n].format, aligned => FormatFits(fmt, b)
      PROVE  FormatFits(result[stage.clocks + 1 - n].format, a)'
  BY <1>1, <1>3, <1>4, <1>5 DEF FormatFits
<1>6. CASE n = 1
  <2>1. stage.clocks + 1 - n = stage.clocks /\ stage.clocks \in 1 .. stage.clocks
        /\ b = Window!Half + 2
    BY <1>1, <1>2, <1>6
  <2>2. result'[stage.clocks].format = Window!format
    BY <2>1, ResultIs
  <2>3. aligned => FormatFits(Window!format, b)
    BY <2>1, FormatEnters
  <2> QED BY <1>5, <2>1, <2>2, <2>3
<1>7. CASE n # 1
  <2>1. /\ stage.clocks + 1 - n \in 1 .. stage.clocks
        /\ stage.clocks + 1 - n # stage.clocks
        /\ stage.clocks + 1 - n + 1 = stage.clocks + 1 - (n - 1)
        /\ n - 1 \in 1 .. stage.clocks /\ b = Window!Half + 2 + (n - 1) /\ b \in 1 .. 7
    BY <1>1, <1>2, <1>7
  <2>2. result'[stage.clocks + 1 - n] = result[stage.clocks + 1 - (n - 1)]
    BY <2>1, ResultIs
  <2>3. aligned => FormatFits(result[stage.clocks + 1 - (n - 1)].format, b)
    BY <2>1 DEF WindowIInv, FormatsOK
  <2> QED BY <1>5, <2>2, <2>3
<1> QED BY <1>6, <1>7

LEMMA WindowClockKeeps == ASSUME WindowIInv, Window!Clock PROVE WindowIInv'
BY ClockTypes, ClockShift, ClockDelays, ClockMatrix, ClockResults, ClockParity,
   ClockFormats DEF WindowIInv

LEMMA NothingTyped ==
  ASSUME stage \in Window!Stage
  PROVE  /\ Window!Empty \in Columns /\ Window!Nothing \in Result
         /\ Window!NoResult \in [1 .. stage.clocks -> Result]
         /\ Window!NoInput \in [1 .. stage.DLY_CLK -> Cell]
<1>1. Blank \in Cell
  BY DEF Cell
<1>2. Window!Empty \in Columns
  BY <1>1 DEF Window!Empty, Columns
<1>3. Window!Nothing \in Result
  BY <1>2 DEF Window!Nothing, Result
<1> QED BY <1>1, <1>2, <1>3 DEF Window!NoResult, Window!NoInput

LEMMA WindowResetKeeps == ASSUME WindowIInv, Window!Reset PROVE WindowIInv'
<1>1. /\ stage' = stage /\ gap' = gap /\ lw_x' = lw_x /\ lw_y' = lw_y /\ frame' = frame
      /\ pos_r' = pos_r /\ in_r' = in_r /\ line' = line /\ line_out' = line_out
      /\ in_raw_r' = Blank /\ p' = Window!Empty
      /\ odd_pix' = 0 /\ lw_href' = FALSE /\ odd_line' = 0
      /\ result' = Window!NoResult /\ in_dly' = Window!NoInput /\ aligned' = FALSE
  BY DEF Window!Reset, Window!shift_register
<1>2. stage \in Window!Stage
  BY DEF WindowIInv, WindowTypes
<1>3. WindowTypes'
  <2>1. /\ Window!Empty \in Columns /\ Window!NoResult \in [1 .. stage.clocks -> Result]
        /\ Window!NoInput \in [1 .. stage.DLY_CLK -> Cell] /\ Blank \in Cell
    BY <1>2, NothingTyped DEF Cell
  <2>2. Columns' = Columns /\ LinePeriod' = LinePeriod /\ Window!Side' = Window!Side
    BY <1>1 DEF Columns, LinePeriod, Window!Side
  <2>3. Result' = Result
    BY <2>2 DEF Result
  <2>4. /\ stage' \in Window!Stage /\ gap' \in Gaps
        /\ lw_x' \in 0 .. LinePeriod' - 1 /\ lw_y' \in 0 .. Lines + 1 /\ frame' \in 0 .. 1
        /\ pos_r' \in Nat /\ in_r' \in Cell /\ in_raw_r' \in Cell
    BY <1>1, <2>1, <2>2 DEF WindowIInv, WindowTypes
  <2>5. /\ line' \in [1 .. stage'.taps -> [0 .. Window!RAM_SZ - 1 -> Cell]]
        /\ line_out' \in [1 .. stage'.taps -> Cell]
    BY <1>1 DEF WindowIInv, WindowTypes
  <2>6. /\ p' \in Columns' /\ result' \in [1 .. stage'.clocks -> Result']
        /\ in_dly' \in [1 .. stage'.DLY_CLK -> Cell]
    BY <1>1, <2>1, <2>2, <2>3
  <2>7. odd_pix' \in 0 .. 1 /\ lw_href' \in BOOLEAN /\ odd_line' \in 0 .. 1
        /\ aligned' \in BOOLEAN
    <3>1. odd_pix' \in 0 .. 1 /\ odd_line' \in 0 .. 1
      BY <1>1
    <3>2. lw_href' \in BOOLEAN /\ aligned' \in BOOLEAN
      BY <1>1, Zenon
    <3> QED BY <3>1, <3>2
  <2> QED BY <2>4, <2>5, <2>6, <2>7 DEF WindowTypes
<1>4. ShiftOK'
  BY <1>1 DEF WindowIInv, ShiftOK, BeforeX, BeforeY, NextX, NextY, Slot, Window!pos,
     Window!RAM_SZ
<1>5. DelaysOK'
  <2>1. ASSUME NEW e \in 1 .. stage.DLY_CLK
        PROVE  Window!NoInput[stage.DLY_CLK + 1 - e] = Blank
    <3>1. stage.DLY_CLK \in Nat
      BY <1>2, StageIs
    <3> QED BY <2>1, <3>1 DEF Window!NoInput
  <2> QED BY <1>1, <2>1 DEF DelaysOK
<1>6. MatrixOK' /\ ResultsOK' /\ FormatsOK'
  BY <1>1 DEF MatrixOK, ResultsOK, FormatsOK
<1>7. ParityOK'
  BY <1>1 DEF ParityOK
<1> QED BY <1>3, <1>4, <1>5, <1>6, <1>7 DEF WindowIInv

LEMMA InitWindowIInv == Window!Init => WindowIInv
<1> SUFFICES ASSUME Window!Init PROVE WindowIInv
  OBVIOUS
<1>1. stage \in Window!Stage /\ gap \in Gaps
  BY DEF Window!Init
<1>2. /\ stage.taps \in {2, 4} /\ Width \in Nat /\ Width >= 6 /\ Lines \in Nat \ {0}
      /\ gap \in Nat /\ gap > 0
  BY <1>1, StageIs, WindowAssumption
<1>3. WindowTypes
  <2>1. /\ Window!Empty \in Columns /\ Window!NoResult \in [1 .. stage.clocks -> Result]
        /\ Window!NoInput \in [1 .. stage.DLY_CLK -> Cell] /\ Blank \in Cell
    BY <1>1, NothingTyped DEF Cell
  <2>2. 0 \in 0 .. LinePeriod - 1 /\ Lines \in 0 .. Lines + 1 /\ pos_r \in Nat
    BY <1>2 DEF LinePeriod, Window!Init, Window!Pos
  <2>3. /\ line \in [1 .. stage.taps -> [0 .. Window!RAM_SZ - 1 -> Cell]]
        /\ line_out \in [1 .. stage.taps -> Cell]
    BY <2>1 DEF Window!Init
  <2>4. /\ lw_x = 0 /\ lw_y = Lines /\ frame = 0 /\ in_r = Blank /\ in_raw_r = Blank
        /\ p = Window!Empty /\ result = Window!NoResult /\ in_dly = Window!NoInput
        /\ odd_pix = 0 /\ lw_href = FALSE /\ odd_line = 0 /\ aligned = FALSE
    BY DEF Window!Init
  <2>5. odd_pix \in 0 .. 1 /\ lw_href \in BOOLEAN /\ odd_line \in 0 .. 1 /\ aligned \in BOOLEAN
    <3>1. odd_pix \in 0 .. 1 /\ odd_line \in 0 .. 1
      BY <2>4
    <3>2. lw_href \in BOOLEAN /\ aligned \in BOOLEAN
      BY <2>4, Zenon
    <3> QED BY <3>1, <3>2
  <2>6. /\ lw_x \in 0 .. LinePeriod - 1 /\ lw_y \in 0 .. Lines + 1 /\ frame \in 0 .. 1
        /\ in_r \in Cell /\ in_raw_r \in Cell
        /\ p \in Columns /\ result \in [1 .. stage.clocks -> Result]
        /\ in_dly \in [1 .. stage.DLY_CLK -> Cell]
    BY <2>1, <2>2, <2>4
  <2> QED BY <1>1, <2>2, <2>3, <2>5, <2>6 DEF WindowTypes
<1>4. ShiftOK
  BY <1>2 DEF Window!Init, ShiftOK
<1>5. DelaysOK
  <2>1. ASSUME NEW e \in 1 .. stage.DLY_CLK
        PROVE  Window!NoInput[stage.DLY_CLK + 1 - e] = Blank
    <3>1. stage.DLY_CLK \in Nat
      BY <1>1, StageIs
    <3> QED BY <2>1, <3>1 DEF Window!NoInput
  <2> QED BY <2>1 DEF Window!Init, DelaysOK
<1>6. MatrixOK /\ ResultsOK /\ FormatsOK
  BY DEF Window!Init, MatrixOK, ResultsOK, FormatsOK
<1>7. ParityOK
  BY <1>2 DEF Window!Init, ParityOK
<1> QED BY <1>3, <1>4, <1>5, <1>6, <1>7 DEF WindowIInv

LEMMA NextWindowIInv == WindowIInv /\ [Window!Next]_Window!vars => WindowIInv'
<1> SUFFICES ASSUME WindowIInv, [Window!Next]_Window!vars PROVE WindowIInv'
  OBVIOUS
<1>1. CASE UNCHANGED Window!vars
  <2>1. /\ stage' = stage /\ gap' = gap /\ lw_x' = lw_x /\ lw_y' = lw_y /\ frame' = frame
        /\ pos_r' = pos_r /\ in_r' = in_r /\ line' = line /\ line_out' = line_out
        /\ in_raw_r' = in_raw_r /\ p' = p
        /\ odd_pix' = odd_pix /\ lw_href' = lw_href /\ odd_line' = odd_line
        /\ result' = result /\ in_dly' = in_dly /\ aligned' = aligned
    BY <1>1 DEF Window!vars, Window!shift_register, Window!matrix, Window!parity, Window!outputs
  <2>2. Columns' = Columns /\ LinePeriod' = LinePeriod /\ Window!Side' = Window!Side
        /\ Window!Half' = Window!Half
    BY <2>1 DEF Columns, LinePeriod, Window!Side, Window!Half
  <2>3. Result' = Result
    BY <2>2 DEF Result
  <2>4. WindowTypes'
    BY <2>1, <2>2, <2>3 DEF WindowIInv, WindowTypes
  <2>5. ShiftOK'
    BY <2>1 DEF WindowIInv, ShiftOK, BeforeX, BeforeY, NextX, NextY, Slot, Window!pos,
       Window!RAM_SZ
  <2>6. DelaysOK'
    BY <2>1, <2>2 DEF WindowIInv, DelaysOK, AgoRaw, AgoIn, AgoX, AgoY
  <2>7. MatrixOK' /\ ResultsOK'
    <3>1. \A e : (Deep(e)' <=> Deep(e)) /\ ColumnAt(e)' = ColumnAt(e)
      BY <2>1, <2>2 DEF Deep, ColumnAt, AgoIn, AgoX, AgoY
    <3>2. MatrixOK'
      BY <2>1, <3>1 DEF WindowIInv, MatrixOK
    <3>3. ResultsOK'
      BY <2>1, <3>1 DEF WindowIInv, ResultsOK
    <3> QED BY <3>2, <3>3
  <2>8. FormatsOK'
    BY <2>1, <2>2 DEF WindowIInv, FormatsOK, FormatFits, Deep, AgoIn, AgoX, AgoY
  <2>9. ParityOK'
    BY <2>1 DEF WindowIInv, ParityOK
  <2> QED BY <2>4, <2>5, <2>6, <2>7, <2>8, <2>9 DEF WindowIInv
<1> QED BY <1>1, WindowClockKeeps, WindowResetKeeps DEF Window!Next

(* The pixel that comes out, and where it was.                             *)
LEMMA OutIs ==
  ASSUME WindowIInv, Window!out_href, aligned
  PROVE  \E e \in 1 .. 6 :
           /\ e = stage.DLY_CLK /\ AgoIn(e)
           /\ in_dly[1] = <<frame, AgoY(e), AgoX(e)>>
<1>1. stage.DLY_CLK \in 1 .. 6
  BY StageIs DEF WindowIInv, WindowTypes
<1>2. stage.DLY_CLK + 1 - stage.DLY_CLK = 1 /\ stage.DLY_CLK \in 1 .. stage.DLY_CLK
  BY <1>1
<1>3. in_dly[1] = AgoRaw(stage.DLY_CLK)
  BY <1>2 DEF WindowIInv, DelaysOK
<1> QED BY <1>1, <1>3 DEF Window!out_href, AgoRaw

(* A window in a frame, in clocks.                                         *)
LEMMA Reaches ==
  ASSUME NEW h \in {1, 2}, NEW c \in {1, 3}, 2 * h + c <= 5, NEW k \in 1 .. 2 * h + 1
  PROVE  (h + 2 + c) + h + 1 - k \in 1 .. 7
PROOF OBVIOUS

LEMMA WindowsAndColoursFit == WindowIInv => Window!WindowsFit /\ Window!ColoursFit
<1> SUFFICES ASSUME WindowIInv, Window!Inner PROVE Window!WindowsFit /\ Window!ColoursFit
  BY DEF Window!WindowsFit, Window!ColoursFit
<1>1. PICK a \in 1 .. 6 : /\ a = stage.DLY_CLK /\ AgoIn(a)
                          /\ in_dly[1] = <<frame, AgoY(a), AgoX(a)>>
  BY OutIs DEF Window!Inner
<1>2. /\ Numbers /\ stage \in Window!Stage /\ Window!Half \in {1, 2}
         /\ stage.taps = 2 * Window!Half
      /\ stage.clocks \in {1, 3} /\ stage.DLY_CLK = Window!Half + 2 + stage.clocks
      /\ stage.taps + stage.clocks <= 5
      /\ Window!Side = 1 .. 2 * Window!Half + 1
      /\ stage.name = "isp_bnr" => Window!Half = 2
      /\ stage.name = "isp_demosaic" => Window!Half = 1
  BY NumbersOK, StageIs DEF WindowIInv, WindowTypes
<1>3. /\ Window!Row = AgoY(a) - Window!Half /\ Window!Column = AgoX(a)
      /\ Window!Half <= Window!Row /\ Window!Half <= Window!Column
         /\ Window!Column < Width - Window!Half /\ aligned
  BY <1>1 DEF Window!Inner, Window!Row, Window!Column
<1>4. AgoX(a) \in Int /\ AgoY(a) \in Int
  BY <1>2 DEF AgoX, AgoY, Numbers
<1>5. Deep(a)
  BY <1>1, <1>2, <1>3, <1>4 DEF Deep
<1>6. Window!WindowsFit
  <2>1. ASSUME NEW k \in Window!Side
        PROVE  result[1].window[k] =
                 [i \in Window!Side |-> <<frame, Window!Row + i - Window!Half - 1,
                   Window!Column + k - Window!Half - 1>>]
    <3>1. PICK b \in 1 .. 7 : b = a + Window!Half + 1 - k
      <4>1. a = Window!Half + 2 + stage.clocks /\ k \in 1 .. 2 * Window!Half + 1
        BY <1>1, <1>2, <2>1
      <4>2. a + Window!Half + 1 - k \in 1 .. 7
        <5>1. 2 * Window!Half + stage.clocks <= 5
          BY <1>2
        <5>2. (Window!Half + 2 + stage.clocks) + Window!Half + 1 - k \in 1 .. 7
          BY <1>2, <4>1, <5>1, Reaches
        <5> QED BY <4>1, <5>2
      <4> QED BY <4>2
    <3>2. AgoY(b) = AgoY(a) /\ AgoX(b) = AgoX(a) + k - Window!Half - 1
      <4>1. PICK d \in -2 .. 2 : d = k - Window!Half - 1 /\ b = a - d
                                /\ (d < 0 => -d <= Window!Half) /\ (d > 0 => d <= Window!Half)
        <5>1. k \in 1 .. 2 * Window!Half + 1 /\ k \in Int
          BY <1>2, <2>1
        <5>2. k - Window!Half - 1 \in -2 .. 2
          BY <1>2, <5>1
        <5> QED BY <1>2, <3>1, <5>1, <5>2
      <4>2. AgoX(a) + d >= 0 /\ AgoX(a) + d < Width
        BY <1>2, <1>3, <1>4, <4>1 DEF Numbers
      <4>3. AgoX(b) = AgoX(a) + d /\ AgoY(b) = AgoY(a)
        <5>1. lw_x \in Int /\ a \in Int /\ b \in Int /\ LinePeriod \in Int /\ Width < LinePeriod
          BY <1>2 DEF Numbers
        <5>2. CASE a <= lw_x
          <6>1. AgoX(a) = lw_x - a /\ AgoY(a) = lw_y
            BY <5>2 DEF AgoX, AgoY
          <6>2. b <= lw_x
            BY <4>1, <4>2, <5>1, <6>1
          <6> QED BY <4>1, <5>1, <6>1, <6>2 DEF AgoX, AgoY
        <5>3. CASE ~(a <= lw_x)
          <6>1. AgoX(a) = lw_x - a + LinePeriod /\ AgoY(a) = IF lw_y = 0 THEN Lines + 1
                ELSE lw_y - 1
            BY <5>3 DEF AgoX, AgoY
          <6>2. ~(b <= lw_x)
            BY <1>2, <4>1, <4>2, <5>1, <6>1 DEF Numbers
          <6> QED BY <4>1, <5>1, <6>1, <6>2 DEF AgoX, AgoY
        <5> QED BY <5>2, <5>3
      <4> QED BY <1>2, <1>4, <2>1, <4>1, <4>3
    <3>3. Deep(b)
      BY <1>2, <1>3, <1>4, <1>5, <2>1, <3>2 DEF Numbers, Deep, AgoIn
    <3>4. result[1].window[k] = ColumnAt(b)
      <4>1. PICK e \in 2 .. stage.taps + 2 : e = stage.taps + 3 - k
        <5>1. k \in 1 .. stage.taps + 1 /\ stage.taps \in Nat
          BY <1>2, <2>1
        <5>2. stage.taps + 3 - k \in 2 .. stage.taps + 2
          BY <5>1
        <5> QED BY <5>1
      <4>2. b = e + stage.clocks
        <5>1. a = Window!Half + 2 + stage.clocks /\ k \in 1 .. 2 * Window!Half + 1 /\ k \in Int
          BY <1>1, <1>2, <2>1
        <5>2. e = 2 * Window!Half + 3 - k
              /\ b = (Window!Half + 2 + stage.clocks) + Window!Half + 1 - k
          BY <1>2, <3>1, <4>1, <5>1
        <5> QED BY <1>2, <5>1, <5>2
      <4>3. stage.clocks \in 1 .. stage.clocks /\ stage.clocks + 1 - stage.clocks = 1
            /\ stage.taps + 3 - e = k
        BY <1>2, <2>1, <4>1
      <4> QED BY <1>3, <3>3, <4>2, <4>3 DEF WindowIInv, ResultsOK
    <3>5. \A i \in Window!Side : AgoY(b) - (stage.taps + 1 - i) = Window!Row + i - Window!Half - 1
      BY <1>2, <1>3, <1>4, <3>2
    <3>6. AgoX(b) = Window!Column + k - Window!Half - 1
      BY <1>3, <3>2
    <3> QED BY <3>4, <3>5, <3>6 DEF ColumnAt
  <2>2. result[1].window \in [Window!Side -> [Window!Side -> Cell]]
    <3>1. 1 \in 1 .. stage.clocks
      BY <1>2
    <3> QED BY <3>1 DEF WindowIInv, WindowTypes, Result, Columns
  <2>3. Window!Neighbours = [k \in Window!Side |-> [i \in Window!Side |->
                               <<in_dly[1][1], Window!Row + i - Window!Half - 1,
                                 Window!Column + k - Window!Half - 1>>]]
    BY DEF Window!Neighbours
  <2>4. in_dly[1][1] = frame
    BY <1>1
  <2>5. result[1].window = Window!Neighbours
    BY <2>1, <2>2, <2>3, <2>4
  <2> QED BY <2>5 DEF Window!WindowsFit
<1>7. Window!ColoursFit
  <2>1. FormatFits(result[1].format, a)
    <3>1. /\ stage.clocks \in 1 .. stage.clocks /\ stage.clocks + 1 - stage.clocks = 1
          /\ a = Window!Half + 2 + stage.clocks /\ a \in 1 .. 7
      BY <1>1, <1>2
    <3> QED BY <1>3, <3>1 DEF WindowIInv, FormatsOK
  <2> QED BY <1>3, <1>5, <2>1 DEF FormatFits, Window!ColoursFit
<1> QED BY <1>6, <1>7

-----------------------------------------------------------------------------
(* The histogram (isp_utils.v:250-361).                                    *)

(* Types that the bins need.                                               *)
BinTypes ==
  /\ in_valid \in BOOLEAN /\ in_flip_trigger \in BOOLEAN /\ in_addr \in Addr
  /\ prev_flip_trigger \in BOOLEAN /\ whole \in BOOLEAN /\ bak_whole \in BOOLEAN
  /\ since \in 0 .. Porch /\ sent \in Nat /\ pixels \in [Addr -> Nat]
  /\ cur_ram \in 0 .. 1
  /\ cur_clr_done \in BOOLEAN /\ cur_clr_addr \in Addr
  /\ cur_rden_r \in BOOLEAN /\ cur_rdaddr_r \in Addr
  /\ cur_wraddr_r \in Addr /\ cur_data_r \in Data
  /\ mem \in [0 .. 1 -> [Addr -> Data]] /\ q \in [0 .. 1 -> Data]

(* The stream is a legal one and no value has more pixels than the frame.  *)
LegalStream ==
  /\ in_valid => ~in_flip_trigger /\ since >= Porch /\ sent < MaxPixels
  /\ ~in_valid => in_addr \in Idle
  /\ sent <= MaxPixels /\ \A a \in Addr : pixels[a] <= sent
  /\ whole /\ flip => since >= Porch

(* Clearing keeps ahead of the stream: all below its address is zero, and  *)
(* nothing is read for counting before it has ended.                       *)
ClearingOK ==
  whole /\ ~cur_clr_done =>
    /\ since <= cur_clr_addr /\ ~cur_rden_r
    /\ \A a \in 0 .. cur_clr_addr - 1 : mem[cur_ram][a] = 0
    /\ \A a \in Addr : pixels[a] = 0

(* What a write-back needs is in q, or was the latest one written.         *)
PipeOK ==
  whole =>
    /\ ~cur_rden_r => cur_rdaddr_r \in Idle
    /\ cur_clr_done =>
         /\ cur_wraddr_r \in Exact => cur_data_r = mem[cur_ram][cur_wraddr_r]
         /\ cur_rden_r /\ cur_rdaddr_r # cur_wraddr_r => q[cur_ram] = mem[cur_ram][cur_rdaddr_r]

BinsCounted == whole => \A a \in Exact : Count(a) = pixels[a]

BinsIInv == BinTypes /\ LegalStream /\ ClearingOK /\ PipeOK /\ BinsCounted

(* The widths, as numbers.                                                 *)
LEMMA WidthsAre ==
  \E a \in Nat \ {0}, d \in Nat \ {0} :
    /\ a = 2^AddrBits /\ d = 2^DataBits /\ Addr = 0 .. a - 1 /\ Data = 0 .. d - 1
    /\ Porch \in Nat /\ Porch >= a - 1 /\ MaxPixels \in Nat /\ MaxPixels < d
    /\ Idle \subseteq Addr /\ Idle # {}
<1>1. 2^AddrBits \in Nat \ {0} /\ 2^DataBits \in Nat \ {0}
  BY HistRamAssumption
<1> DEFINE aw == 2^AddrBits
           dw == 2^DataBits
<1>2. /\ Addr = 0 .. aw - 1 /\ Data = 0 .. dw - 1
      /\ Porch \in Nat /\ Porch >= aw - 1 /\ MaxPixels \in Nat /\ MaxPixels < dw
      /\ Idle \subseteq Addr /\ Idle # {}
  BY HistRamAssumption DEF Addr, Data
<1>3. aw \in Nat \ {0} /\ dw \in Nat \ {0} /\ aw = 2^AddrBits /\ dw = 2^DataBits
  BY <1>1
<1> HIDE DEF aw, dw
<1> QED BY <1>2, <1>3

LEMMA InitBinsIInv == Init => BinsIInv
<1> SUFFICES ASSUME Init PROVE BinsIInv
  OBVIOUS
<1>1. PICK aw \in Nat \ {0}, dw \in Nat \ {0} :
        /\ aw = 2^AddrBits /\ dw = 2^DataBits /\ Addr = 0 .. aw - 1 /\ Data = 0 .. dw - 1
        /\ Porch \in Nat /\ Porch >= aw - 1 /\ MaxPixels \in Nat /\ MaxPixels < dw
        /\ Idle \subseteq Addr /\ Idle # {}
  BY WidthsAre
<1>2. BinTypes
  <2>1. 0 \in Addr /\ 0 \in Data /\ 0 \in 0 .. Porch
    BY <1>1
  <2>2. /\ in_addr \in Addr /\ since \in 0 .. Porch /\ sent \in Nat /\ pixels \in [Addr -> Nat]
        /\ cur_ram \in 0 .. 1 /\ cur_clr_addr \in Addr /\ cur_rdaddr_r \in Addr
        /\ cur_wraddr_r \in Addr /\ cur_data_r \in Data
    BY <1>1, <2>1 DEF Init
  <2>3. mem \in [0 .. 1 -> [Addr -> Data]] /\ q \in [0 .. 1 -> Data]
    BY <2>1 DEF Init
  <2>4. /\ in_valid \in BOOLEAN /\ in_flip_trigger \in BOOLEAN /\ prev_flip_trigger \in BOOLEAN
        /\ whole \in BOOLEAN /\ bak_whole \in BOOLEAN
        /\ cur_clr_done \in BOOLEAN /\ cur_rden_r \in BOOLEAN
    BY Zenon DEF Init
  <2> QED BY <2>2, <2>3, <2>4 DEF BinTypes
<1>3. LegalStream /\ ClearingOK /\ PipeOK /\ BinsCounted
  BY <1>1 DEF Init, LegalStream, ClearingOK, PipeOK, BinsCounted, flip
<1> QED BY <1>2, <1>3 DEF BinsIInv

LEMMA ResetKeepsBins == ASSUME BinsIInv, Reset PROVE BinsIInv'
<1>1. 0 \in Addr
  BY WidthsAre
<1>2. /\ prev_flip_trigger' = FALSE /\ cur_ram' = 0 /\ cur_clr_done' = FALSE /\ cur_clr_addr' = 0
      /\ whole' = FALSE /\ bak_whole' = FALSE
      /\ in_valid' = in_valid /\ in_flip_trigger' = in_flip_trigger /\ in_addr' = in_addr
      /\ since' = since /\ pixels' = pixels /\ sent' = sent
      /\ cur_rden_r' = cur_rden_r /\ cur_rdaddr_r' = cur_rdaddr_r
      /\ cur_wraddr_r' = cur_wraddr_r /\ cur_data_r' = cur_data_r
      /\ mem' = mem /\ q' = q
  BY DEF Reset, stream_vars, pipe_vars
<1>3. BinTypes'
  <2>1. /\ in_addr' \in Addr /\ since' \in 0 .. Porch /\ sent' \in Nat
           /\ pixels' \in [Addr -> Nat]
        /\ cur_ram' \in 0 .. 1 /\ cur_clr_addr' \in Addr /\ cur_rdaddr_r' \in Addr
        /\ cur_wraddr_r' \in Addr /\ cur_data_r' \in Data
    BY <1>1, <1>2 DEF BinsIInv, BinTypes
  <2>2. mem' \in [0 .. 1 -> [Addr -> Data]] /\ q' \in [0 .. 1 -> Data]
    BY <1>2 DEF BinsIInv, BinTypes
  <2>3. /\ in_valid' \in BOOLEAN /\ in_flip_trigger' \in BOOLEAN /\ cur_rden_r' \in BOOLEAN
    BY <1>2 DEF BinsIInv, BinTypes
  <2>4. /\ prev_flip_trigger' \in BOOLEAN /\ whole' \in BOOLEAN /\ bak_whole' \in BOOLEAN
        /\ cur_clr_done' \in BOOLEAN
    BY <1>2, Zenon
  <2> QED BY <2>1, <2>2, <2>3, <2>4 DEF BinTypes
<1>4. LegalStream'
  BY <1>2 DEF BinsIInv, LegalStream
<1>5. ClearingOK' /\ PipeOK' /\ BinsCounted'
  BY <1>2 DEF ClearingOK, PipeOK, BinsCounted
<1> QED BY <1>3, <1>4, <1>5 DEF BinsIInv

(* What is written back fits, and is zero while a RAM is cleared.          *)
LEMMA DataFits == ASSUME BinsIInv PROVE cur_data \in Data /\ cur_wraddr \in Addr
<1>1. PICK dw \in Nat \ {0} : dw = 2^DataBits /\ Data = 0 .. dw - 1 /\ 0 \in Data
  BY WidthsAre
<1>2. cur_data_r \in 0 .. dw - 1 /\ q[cur_ram] \in 0 .. dw - 1
  BY <1>1 DEF BinsIInv, BinTypes
<1>3. (cur_data_r + 1) % dw \in 0 .. dw - 1 /\ (q[cur_ram] + 1) % dw \in 0 .. dw - 1
  BY <1>1, <1>2
<1> QED BY <1>1, <1>3 DEF cur_data, cur_wraddr, BinsIInv, BinTypes

LEMMA ClockBinTypes ==
  ASSUME BinsIInv, NEW en, NEW addr \in Addr, Clock(en, addr)
  PROVE  BinTypes'
<1>1. PICK aw \in Nat \ {0}, dw \in Nat \ {0} :
        /\ aw = 2^AddrBits /\ dw = 2^DataBits /\ Addr = 0 .. aw - 1 /\ Data = 0 .. dw - 1
        /\ Porch \in Nat /\ Porch >= aw - 1 /\ MaxPixels \in Nat /\ MaxPixels < dw
        /\ Idle \subseteq Addr /\ Idle # {}
  BY WidthsAre
<1>2. cur_data \in Data /\ cur_wraddr \in Addr
  BY DataFits
<1>3. in_valid' \in BOOLEAN /\ in_flip_trigger' \in BOOLEAN /\ in_addr' \in Addr
  BY <1>1 DEF Clock, Stream
<1>4. since' \in 0 .. Porch /\ sent' \in Nat /\ pixels' \in [Addr -> Nat]
  <2>1. since \in 0 .. Porch /\ sent \in Nat /\ pixels \in [Addr -> Nat] /\ in_addr \in Addr
    BY DEF BinsIInv, BinTypes
  <2>2. since' \in 0 .. Porch /\ sent' \in Nat
    BY <1>1, <2>1 DEF Clock, Stream
  <2>3. pixels' \in [Addr -> Nat]
    BY <2>1 DEF Clock, Stream
  <2> QED BY <2>2, <2>3
<1>5. /\ prev_flip_trigger' \in BOOLEAN /\ cur_ram' \in 0 .. 1
      /\ cur_clr_done' \in BOOLEAN /\ cur_clr_addr' \in Addr
  <2>1. 0 \in Addr /\ cur_clr_addr \in Addr /\ (cur_clr_addr + 1) % aw \in Addr
    <3>1. cur_clr_addr \in Addr
      BY DEF BinsIInv, BinTypes
    <3> QED BY <1>1, <3>1
  <2>2. cur_clr_addr' \in Addr
    BY <1>1, <2>1 DEF Clock, Banks
  <2>3. prev_flip_trigger' \in BOOLEAN /\ cur_ram' \in 0 .. 1 /\ cur_clr_done' \in BOOLEAN
    BY DEF Clock, Banks, BinsIInv, BinTypes
  <2> QED BY <2>2, <2>3
<1>6. /\ cur_rden_r' \in BOOLEAN /\ cur_rdaddr_r' \in Addr
      /\ cur_wraddr_r' \in Addr /\ cur_data_r' \in Data
  BY <1>2 DEF Clock, Pipe, BinsIInv, BinTypes
<1>7. mem' \in [0 .. 1 -> [Addr -> Data]]
  BY <1>2 DEF Clock, Rams, BinsIInv, BinTypes
<1>8. q' \in [0 .. 1 -> Data]
  BY DEF Clock, Rams, BinsIInv, BinTypes
<1>9. whole' \in BOOLEAN /\ bak_whole' \in BOOLEAN
  BY DEF Clock, History, flip, BinsIInv, BinTypes
<1> QED BY <1>3, <1>4, <1>5, <1>6, <1>7, <1>8, <1>9 DEF BinTypes

LEMMA ClockLegal ==
  ASSUME BinsIInv, NEW en, NEW addr \in Addr, Clock(en, addr)
  PROVE  LegalStream'
<1>1. Porch \in Nat /\ since \in 0 .. Porch /\ sent \in Nat /\ pixels \in [Addr -> Nat]
      /\ in_addr \in Addr /\ MaxPixels \in Nat
  BY WidthsAre DEF BinsIInv, BinTypes
<1>2. /\ in_valid' => ~in_flip_trigger' /\ since' >= Porch /\ sent' < MaxPixels
      /\ ~in_valid' => in_addr' \in Idle
  BY DEF Clock, Stream
<1>3. sent' <= MaxPixels
  BY <1>1 DEF Clock, Stream, BinsIInv, LegalStream
<1>4. ASSUME NEW a \in Addr PROVE pixels'[a] <= sent'
  BY <1>1 DEF Clock, Stream, BinsIInv, LegalStream
<1>5. flip' => since' >= Porch
  BY DEF Clock, Stream, Banks, flip
<1> QED BY <1>2, <1>3, <1>4, <1>5 DEF LegalStream

(* What one clock does to the current RAM and the clearing.                *)
LEMMA ClockBank ==
  ASSUME BinsIInv, NEW en, NEW addr \in Addr, Clock(en, addr), ~flip
  PROVE  /\ cur_ram' = cur_ram /\ whole' = whole
         /\ \A a \in Addr : mem'[cur_ram][a] =
              IF cur_wren /\ a = cur_wraddr THEN cur_data ELSE mem[cur_ram][a]
         /\ in_valid => q'[cur_ram] = mem[cur_ram][in_addr]
         /\ cur_rden_r' = in_valid /\ cur_rdaddr_r' = in_addr
         /\ cur_wraddr_r' = cur_wraddr /\ cur_data_r' = cur_data
         /\ cur_clr_done => cur_clr_done' /\ cur_clr_addr' = cur_clr_addr
         /\ ~cur_clr_done /\ cur_clr_addr = 2^AddrBits - 1 => cur_clr_done'
         /\ ~cur_clr_done /\ cur_clr_addr # 2^AddrBits - 1 =>
              ~cur_clr_done' /\ cur_clr_addr' = cur_clr_addr + 1
<1>1. PICK aw \in Nat \ {0} : aw = 2^AddrBits /\ Addr = 0 .. aw - 1
  BY WidthsAre
<1>2. cur_ram' = cur_ram /\ whole' = whole
  BY DEF Clock, Banks, History, BinsIInv, BinTypes
<1>3. \A a \in Addr : mem'[cur_ram][a] =
              IF cur_wren /\ a = cur_wraddr THEN cur_data ELSE mem[cur_ram][a]
  <2>1. cur_wraddr \in Addr /\ cur_ram \in 0 .. 1 /\ mem \in [0 .. 1 -> [Addr -> Data]]
    BY DataFits DEF BinsIInv, BinTypes
  <2>2. mem' = IF cur_wren THEN [mem EXCEPT ![cur_ram][cur_wraddr] = cur_data] ELSE mem
    BY DEF Clock, Rams
  <2> HIDE DEF cur_wren, cur_wraddr, cur_data
  <2> QED BY <2>1, <2>2
<1>4. in_valid => q'[cur_ram] = mem[cur_ram][in_addr]
  BY DEF Clock, Rams, BinsIInv, BinTypes
<1>5. /\ cur_rden_r' = in_valid /\ cur_rdaddr_r' = in_addr
      /\ cur_wraddr_r' = cur_wraddr /\ cur_data_r' = cur_data
  BY DEF Clock, Pipe
<1>6. /\ cur_clr_done => cur_clr_done' /\ cur_clr_addr' = cur_clr_addr
      /\ ~cur_clr_done /\ cur_clr_addr = 2^AddrBits - 1 => cur_clr_done'
      /\ ~cur_clr_done /\ cur_clr_addr # 2^AddrBits - 1 => ~cur_clr_done'
  BY DEF Clock, Banks
<1>7. ~cur_clr_done /\ cur_clr_addr # 2^AddrBits - 1 => cur_clr_addr' = cur_clr_addr + 1
  <2> SUFFICES ASSUME ~cur_clr_done, cur_clr_addr # aw - 1 PROVE cur_clr_addr' = cur_clr_addr + 1
    BY <1>1
  <2>1. cur_clr_addr + 1 \in 0 .. aw - 1
    BY <1>1 DEF BinsIInv, BinTypes
  <2>2. (cur_clr_addr + 1) % aw = cur_clr_addr + 1
    BY <1>1, <2>1, RestIs
  <2> QED BY <1>1, <2>2 DEF Clock, Banks
<1> QED BY <1>2, <1>3, <1>4, <1>5, <1>6, <1>7

(* Before the clearing ends no pixel comes.                                *)
LEMMA ClearedFirst ==
  ASSUME BinsIInv, whole, ~cur_clr_done, in_valid \/ flip
  PROVE  cur_clr_addr = 2^AddrBits - 1
<1>1. PICK aw \in Nat \ {0} : aw = 2^AddrBits /\ Addr = 0 .. aw - 1 /\ Porch \in Nat
                              /\ Porch >= aw - 1
  BY WidthsAre
<1>2. since <= cur_clr_addr /\ since >= Porch
  BY DEF BinsIInv, ClearingOK, LegalStream
<1>3. cur_clr_addr \in Addr /\ since \in Int
  BY <1>1 DEF BinsIInv, BinTypes
<1> QED BY <1>1, <1>2, <1>3

LEMMA ClockClears ==
  ASSUME BinsIInv, NEW en, NEW addr \in Addr, Clock(en, addr)
  PROVE  ClearingOK'
<1> SUFFICES ASSUME whole', ~cur_clr_done'
    PROVE  /\ since' <= cur_clr_addr' /\ ~cur_rden_r'
           /\ \A a \in 0 .. cur_clr_addr' - 1 : mem'[cur_ram'][a] = 0
           /\ \A a \in Addr : pixels'[a] = 0
  BY DEF ClearingOK
<1>1. CASE flip
  <2>1. since' = 0 /\ cur_clr_addr' = 0 /\ \A a \in Addr : pixels'[a] = 0
    BY <1>1 DEF Clock, Stream, Banks, flip
  <2>2. ~cur_rden_r'
    BY <1>1 DEF Clock, Pipe, flip, BinsIInv, LegalStream
  <2> QED BY <2>1, <2>2
<1>2. CASE ~flip
  <2>1. whole /\ ~cur_clr_done /\ cur_clr_addr' = cur_clr_addr + 1 /\ cur_ram' = cur_ram
        /\ cur_clr_addr # 2^AddrBits - 1 /\ cur_rden_r' = in_valid
    BY <1>2, ClockBank DEF BinsIInv, BinTypes
  <2>2. ~in_valid
    BY <2>1, ClearedFirst
  <2>3. since' <= cur_clr_addr'
    <3>1. since \in Int /\ cur_clr_addr \in Int /\ since <= cur_clr_addr /\ cur_clr_addr >= 0
      BY <2>1, WidthsAre DEF BinsIInv, BinTypes, ClearingOK
    <3> QED BY <2>1, <3>1 DEF Clock, Stream
  <2>4. ASSUME NEW a \in 0 .. cur_clr_addr' - 1 PROVE mem'[cur_ram'][a] = 0
    <3>1. PICK aw \in Nat \ {0} : Addr = 0 .. aw - 1
      BY WidthsAre
    <3>2. a \in Addr /\ a \in 0 .. cur_clr_addr /\ cur_clr_addr \in Addr
      BY <2>1, <3>1 DEF BinsIInv, BinTypes
    <3>3. cur_wren /\ cur_wraddr = cur_clr_addr /\ cur_data = 0
      BY <2>1 DEF cur_wren, cur_wraddr, cur_data
    <3>4. mem'[cur_ram][a] = IF a = cur_clr_addr THEN 0 ELSE mem[cur_ram][a]
      BY <1>2, <3>2, <3>3, ClockBank
    <3>5. a # cur_clr_addr => a \in 0 .. cur_clr_addr - 1
      BY <3>1, <3>2
    <3> QED BY <2>1, <3>4, <3>5 DEF BinsIInv, ClearingOK
  <2>5. \A a \in Addr : pixels'[a] = 0
    BY <1>2, <2>1, <2>2 DEF Clock, Stream, BinsIInv, ClearingOK
  <2> QED BY <2>1, <2>2, <2>3, <2>4, <2>5
<1> QED BY <1>1, <1>2

(* What the current RAM holds after the clock: the counts so far.          *)
LEMMA Holds ==
  ASSUME BinsIInv, NEW en, NEW addr \in Addr, Clock(en, addr), whole,
         cur_clr_done' \/ flip, NEW b \in Exact
  PROVE  mem'[cur_ram][b] = pixels[b]
<1>1. PICK aw \in Nat \ {0} : aw = 2^AddrBits /\ Addr = 0 .. aw - 1
  BY WidthsAre
<1>2. b \in Addr /\ Count(b) = pixels[b]
  BY DEF Exact, BinsIInv, BinsCounted
<1>3. mem'[cur_ram][b] = IF cur_wren /\ b = cur_wraddr THEN cur_data ELSE mem[cur_ram][b]
  <2>1. cur_wraddr \in Addr /\ cur_ram \in 0 .. 1 /\ mem \in [0 .. 1 -> [Addr -> Data]]
    BY DataFits DEF BinsIInv, BinTypes
  <2>2. mem' = IF cur_wren THEN [mem EXCEPT ![cur_ram][cur_wraddr] = cur_data] ELSE mem
    BY DEF Clock, Rams
  <2> QED BY <1>2, <2>1, <2>2
<1>4. CASE cur_clr_done
  BY <1>2, <1>3, <1>4 DEF Count, cur_wren, cur_wraddr
<1>5. CASE ~cur_clr_done
  <2>1. cur_clr_addr = aw - 1
    <3>1. CASE flip
      BY <1>1, <1>5, <3>1, ClearedFirst
    <3>2. CASE ~flip
      BY <1>1, <1>5, <3>2, ClockBank
    <3> QED BY <3>1, <3>2
  <2>2. cur_wren /\ cur_wraddr = aw - 1 /\ cur_data = 0
    BY <1>5, <2>1 DEF cur_wren, cur_wraddr, cur_data
  <2>3. b # aw - 1 => mem[cur_ram][b] = 0
    <3>1. b # aw - 1 => b \in 0 .. cur_clr_addr - 1
      BY <1>1, <1>2, <2>1
    <3> QED BY <1>5, <3>1 DEF BinsIInv, ClearingOK
  <2>4. pixels[b] = 0
    BY <1>2, <1>5 DEF BinsIInv, ClearingOK
  <2> QED BY <1>3, <2>2, <2>3, <2>4
<1> QED BY <1>4, <1>5

LEMMA ClockPipe ==
  ASSUME BinsIInv, NEW en, NEW addr \in Addr, Clock(en, addr)
  PROVE  PipeOK'
<1> SUFFICES ASSUME whole'
    PROVE  /\ ~cur_rden_r' => cur_rdaddr_r' \in Idle
           /\ cur_clr_done' =>
                /\ cur_wraddr_r' \in Exact => cur_data_r' = mem'[cur_ram'][cur_wraddr_r']
                /\ cur_rden_r' /\ cur_rdaddr_r' # cur_wraddr_r'
                     => q'[cur_ram'] = mem'[cur_ram'][cur_rdaddr_r']
  BY DEF PipeOK, Exact
<1>1. ~cur_rden_r' => cur_rdaddr_r' \in Idle
  BY DEF Clock, Pipe, BinsIInv, LegalStream
<1>2. ASSUME cur_clr_done'
      PROVE  /\ cur_wraddr_r' \in Exact => cur_data_r' = mem'[cur_ram'][cur_wraddr_r']
             /\ cur_rden_r' /\ cur_rdaddr_r' # cur_wraddr_r'
                  => q'[cur_ram'] = mem'[cur_ram'][cur_rdaddr_r']
  <2>1. ~flip
    BY <1>2 DEF Clock, Banks
  <2>2. /\ cur_ram' = cur_ram /\ whole
        /\ \A a \in Addr : mem'[cur_ram][a] =
             IF cur_wren /\ a = cur_wraddr THEN cur_data ELSE mem[cur_ram][a]
        /\ in_valid => q'[cur_ram] = mem[cur_ram][in_addr]
        /\ cur_rden_r' = in_valid /\ cur_rdaddr_r' = in_addr
        /\ cur_wraddr_r' = cur_wraddr /\ cur_data_r' = cur_data
    BY <2>1, ClockBank
  <2>3. ASSUME cur_wraddr \in Exact PROVE cur_data = mem'[cur_ram][cur_wraddr]
    <3>1. cur_wren
      BY <2>2, <2>3 DEF cur_wren, cur_wraddr, Exact, BinsIInv, PipeOK
    <3> QED BY <2>2, <2>3, <3>1 DEF Exact
  <2>4. ASSUME in_valid, in_addr # cur_wraddr PROVE q'[cur_ram] = mem'[cur_ram][in_addr]
    <3>1. in_addr \in Addr
      BY DEF BinsIInv, BinTypes
    <3> QED BY <2>2, <2>4, <3>1
  <2> QED BY <2>2, <2>3, <2>4
<1> QED BY <1>1, <1>2

LEMMA ClockCounts ==
  ASSUME BinsIInv, NEW en, NEW addr \in Addr, Clock(en, addr)
  PROVE  BinsCounted'
<1> SUFFICES ASSUME whole', NEW b \in Exact PROVE Count(b)' = pixels'[b]
  BY DEF BinsCounted, Exact
<1>1. BinTypes' /\ PipeOK' /\ ClearingOK' /\ LegalStream' /\ b \in Addr
  BY ClockBinTypes, ClockPipe, ClockClears, ClockLegal DEF Exact
<1>2. CASE ~cur_clr_done'
  BY <1>1, <1>2 DEF Count, ClearingOK
<1>3. CASE cur_clr_done'
  <2>1. ~flip
    BY <1>3 DEF Clock, Banks
  <2>2. cur_ram' = cur_ram /\ whole /\ cur_rden_r' = in_valid /\ cur_rdaddr_r' = in_addr
    BY <2>1, ClockBank
  <2>3. mem'[cur_ram][b] = pixels[b]
    BY <1>3, <2>2, Holds
  <2>4. CASE in_valid /\ in_addr = b
    <3>1. PICK dw \in Nat \ {0} : dw = 2^DataBits /\ MaxPixels \in Nat /\ MaxPixels < dw
      BY WidthsAre
    <3>2. cur_wraddr' = b
      BY <1>3, <2>2, <2>4 DEF cur_wraddr
    <3>3. cur_data' = (pixels[b] + 1) % dw
      <4>1. CASE cur_wraddr_r' = b
        <5>1. cur_data_r' = pixels[b]
          BY <1>1, <1>3, <2>2, <2>3, <4>1 DEF PipeOK, Exact
        <5> QED BY <1>3, <3>1, <3>2, <4>1, <5>1 DEF cur_data
      <4>2. CASE cur_wraddr_r' # b
        <5>1. q'[cur_ram'] = pixels[b]
          BY <1>1, <1>3, <2>2, <2>3, <2>4, <4>2 DEF PipeOK
        <5> QED BY <1>3, <3>1, <3>2, <4>2, <5>1 DEF cur_data
      <4> QED BY <4>1, <4>2
    <3>4. pixels'[b] = pixels[b] + 1 /\ pixels[b] \in Nat
      BY <1>1, <2>1, <2>4 DEF Clock, Stream, BinsIInv, BinTypes
    <3>5. pixels[b] + 1 \in 0 .. dw - 1
      <4>1. pixels'[b] <= sent' /\ sent' <= MaxPixels /\ sent' \in Nat
        BY <1>1 DEF LegalStream, BinTypes
      <4> QED BY <3>1, <3>4, <4>1
    <3>6. (pixels[b] + 1) % dw = pixels[b] + 1
      BY <3>1, <3>5, RestIs
    <3>7. Count(b)' = cur_data'
      BY <1>3, <2>2, <2>4 DEF Count
    <3> QED BY <3>3, <3>4, <3>6, <3>7
  <2>5. CASE ~(in_valid /\ in_addr = b)
    <3>1. Count(b)' = mem'[cur_ram][b]
      BY <1>3, <2>2, <2>5 DEF Count
    <3>2. pixels'[b] = pixels[b]
      BY <1>1, <2>1, <2>5 DEF Clock, Stream, BinsIInv, BinTypes
    <3> QED BY <2>3, <3>1, <3>2
  <2> QED BY <2>4, <2>5
<1> QED BY <1>2, <1>3

LEMMA ClockKeepsBins ==
  ASSUME BinsIInv, NEW en, NEW addr \in Addr, Clock(en, addr)
  PROVE  BinsIInv'
BY ClockBinTypes, ClockLegal, ClockClears, ClockPipe, ClockCounts DEF BinsIInv

(* What the abstract histogram sees.                                       *)
Given == [a \in Exact |-> IF whole THEN pixels[a] ELSE 0]
Counting == [a \in Exact |-> IF whole THEN Count(a) ELSE 0]
Published == [a \in Exact |-> IF bak_whole THEN mem[bak_ram][a] ELSE -1]

LEMMA CountingIsGiven == BinsIInv => Counting = Given
BY DEF Counting, Given, BinsIInv, BinsCounted

LEMMA InitHistogram == Init => Hist!Init
<1> SUFFICES ASSUME Init PROVE Hist!Init
  OBVIOUS
<1>1. whole = FALSE /\ bak_whole = FALSE
  BY DEF Init
<1> QED BY <1>1 DEF Hist!Init, Hist!Empty, Hist!Unknown

LEMMA ResetHistogram == ASSUME Reset PROVE Hist!Reset
<1>1. whole' = FALSE /\ bak_whole' = FALSE
  BY DEF Reset
<1> QED BY <1>1 DEF Hist!Reset, Hist!Empty, Hist!Unknown, Exact

LEMMA IdleBins == ASSUME BinsIInv, UNCHANGED vars PROVE BinsIInv' /\ UNCHANGED Hist!vars
<1>1. /\ in_valid' = in_valid /\ in_flip_trigger' = in_flip_trigger /\ in_addr' = in_addr
      /\ since' = since /\ pixels' = pixels /\ sent' = sent
      /\ prev_flip_trigger' = prev_flip_trigger /\ cur_ram' = cur_ram
      /\ cur_clr_done' = cur_clr_done /\ cur_clr_addr' = cur_clr_addr
      /\ cur_rden_r' = cur_rden_r /\ cur_rdaddr_r' = cur_rdaddr_r
      /\ cur_wraddr_r' = cur_wraddr_r /\ cur_data_r' = cur_data_r
      /\ mem' = mem /\ q' = q /\ whole' = whole /\ bak_whole' = bak_whole
  BY DEF vars, stream_vars, bank_vars, pipe_vars, whole_vars
<1>2. BinTypes'
  BY <1>1 DEF BinsIInv, BinTypes
<1>3. LegalStream' /\ ClearingOK'
  BY <1>1 DEF BinsIInv, LegalStream, ClearingOK, flip
<1>4. PipeOK'
  BY <1>1 DEF BinsIInv, PipeOK
<1>5. \A a : Count(a)' = Count(a)
  BY <1>1 DEF Count, cur_data, cur_wraddr
<1>6. BinsCounted'
  BY <1>1, <1>5 DEF BinsIInv, BinsCounted
<1>7. UNCHANGED Hist!vars
  BY <1>1, <1>5 DEF Hist!vars, bak_ram
<1> QED BY <1>2, <1>3, <1>4, <1>6, <1>7 DEF BinsIInv

LEMMA ClockHistogram ==
  ASSUME BinsIInv, NEW en, NEW addr \in Addr, Clock(en, addr)
  PROVE  Hist!Next \/ UNCHANGED Hist!vars
<1>1. Counting = Given /\ Counting' = Given'
  <2>1. BinsIInv'
    BY ClockKeepsBins
  <2>2. Counting' = Given'
    BY <2>1 DEF Counting, Given, BinsIInv, BinsCounted, Exact
  <2> QED BY <2>2, CountingIsGiven
<1>2. whole \in BOOLEAN /\ bak_whole \in BOOLEAN /\ cur_ram \in 0 .. 1 /\ Exact \subseteq Addr
      /\ mem \in [0 .. 1 -> [Addr -> Data]] /\ pixels \in [Addr -> Nat] /\ in_addr \in Addr
  BY DEF BinsIInv, BinTypes, Exact
<1>3. CASE flip
  <2>1. whole' /\ bak_whole' = whole /\ cur_ram' = 1 - cur_ram
    BY <1>3 DEF Clock, History, Banks
  <2>2. Given' = [a \in Exact |-> 0]
    BY <1>2, <1>3 DEF Given, Clock, Stream, Exact
  <2>3. bak_ram' = cur_ram
    BY <1>2, <2>1 DEF bak_ram
  <2>4. whole => \A a \in Exact : mem'[cur_ram][a] = pixels[a]
    BY <1>3, Holds
  <2>5. Published' = IF whole THEN Given ELSE [a \in Exact |-> -1]
    BY <2>1, <2>3, <2>4 DEF Published, Given, Exact
  <2>6. Hist!Flip
    BY <1>1, <2>1, <2>2, <2>5 DEF Hist!Flip, Hist!Empty, Hist!Unknown, Given, Counting,
       Published
  <2> QED BY <2>6 DEF Hist!Next
<1>4. CASE ~flip
  <2>1. cur_ram' = cur_ram /\ whole' = whole /\ bak_whole' = bak_whole
    BY <1>2, <1>4 DEF Clock, History, Banks
  <2>2. Published' = Published
    <3>1. mem'[bak_ram] = mem[bak_ram] /\ bak_ram' = bak_ram
      BY <1>2, <2>1 DEF Clock, Rams, bak_ram
    <3> QED BY <2>1, <3>1 DEF Published, Exact
  <2>3. CASE whole /\ in_valid /\ in_addr \in Exact
    <3> PICK b \in Exact : b = in_addr
      BY <2>3
    <3>1. pixels' = [pixels EXCEPT ![b] = @ + 1]
      BY <1>4, <2>3 DEF Clock, Stream
    <3>2. Given' = [Given EXCEPT ![b] = @ + 1]
      BY <1>2, <2>1, <2>3, <3>1 DEF Given, Exact
    <3>3. Counting' = [Counting EXCEPT ![b] = @ + 1]
      BY <1>1, <3>2
    <3>4. Hist!Pixel(b)
      BY <2>1, <2>2, <2>3, <3>2, <3>3 DEF Hist!Pixel, Given, Counting, Published
    <3>5. \E c \in Exact : Hist!Pixel(c)
      BY <3>4
    <3> QED BY <3>5 DEF Hist!Next
  <2>4. CASE ~(whole /\ in_valid /\ in_addr \in Exact)
    <3>1. ASSUME whole, NEW a \in Exact PROVE pixels'[a] = pixels[a]
      BY <1>2, <1>4, <2>4, <3>1 DEF Clock, Stream
    <3>2. Given' = Given
      BY <2>1, <3>1 DEF Given, Exact
    <3>3. Counting' = Counting
      BY <1>1, <3>2
    <3>4. UNCHANGED Hist!vars
      BY <2>1, <2>2, <3>2, <3>3 DEF Hist!vars, Given, Counting, Published
    <3> QED BY <3>4
  <2> QED BY <2>3, <2>4
<1> QED BY <1>3, <1>4

-----------------------------------------------------------------------------
(* The parts together.                                                     *)

VideoIInv == InputIInv /\ ScalerIInv /\ WindowIInv

(* The unchanged part of a step keeps its invariant.                       *)
LEMMA NextVideoIInv == VideoIInv /\ [VideoNext]_video => VideoIInv'
<1> SUFFICES ASSUME VideoIInv, [VideoNext]_video PROVE VideoIInv'
  OBVIOUS
<1>1. [Vi!Next]_(Vi!vars)
  BY DEF VideoNext, video, input, Vi!vars, Vi!sensor, Vi!generator, Vi!out, Vi!prev, Vi!meter,
     Vi!history
<1>2. [Scaler!Next]_(Scaler!vars)
  BY DEF VideoNext, video, scaler, Scaler!vars, Scaler!scaler
<1>3. [Window!Next]_(Window!vars)
  BY DEF VideoNext, video, windows, Window!vars, Window!shift_register, Window!matrix,
     Window!parity, Window!outputs
<1> QED
  BY <1>1, <1>2, <1>3, NextInputIInv, NextScalerIInv, NextWindowIInv DEF VideoIInv

(* SafeStream of the run: for every raster of the generator and every      *)
(* frame the sensor sends, with the source switched and the block reset at *)
(* any moment, a frame that went by whole is measured right; for every     *)
(* image of even width the windows of isp_bnr, isp_demosaic and isp_ee     *)
(* hold just the neighbours of their pixel and the kernel is that of its   *)
(* colour; for every dscale and every line whose clocks it divides, the    *)
(* scaler passes the right pixels of the right lines, and as many.         *)
THEOREM StreamSound == VideoSpec => []SafeStream
<1>1. VideoInit => VideoIInv
  BY InitInputIInv, InitScalerIInv, InitWindowIInv DEF VideoInit, VideoIInv
<1>2. VideoIInv => SafeStream
  BY ScalerDecimates, WindowsAndColoursFit DEF VideoIInv, InputIInv, SafeStream
<1> QED BY <1>1, <1>2, NextVideoIInv, PTL DEF VideoSpec

(* The reader of the histogram, hist_addr, stays in range.                 *)
HistIInv == BinsIInv /\ hist_addr \in Addr

LEMMA NextHistIInv ==
  ASSUME HistIInv, [VideoNext]_video PROVE HistIInv' /\ [Hist!Next]_(Hist!vars)
<1>1. CASE EquClock
  <2> PICK en : en = ~hist_sum_done
    OBVIOUS
  <2> PICK addr \in Addr : addr = hist_addr
    BY DEF HistIInv
  <2>1. Clock(en, addr)
    BY <1>1 DEF EquClock, Clock, Rams
  <2>2. hist_addr' \in Addr
    <3>1. PICK aw \in Nat \ {0} : aw = 2^AddrBits /\ Addr = 0 .. aw - 1
      BY WidthsAre
    <3>2. 0 \in Addr /\ hist_addr \in Addr
      BY <3>1 DEF HistIInv
    <3>3. (hist_addr + 1) % aw \in Addr
      BY <3>1, <3>2
    <3> QED BY <1>1, <3>1, <3>2, <3>3 DEF EquClock, Sweep
  <2> QED BY <2>1, <2>2, ClockKeepsBins, ClockHistogram DEF HistIInv
<1>2. CASE EquReset
  <2>1. Reset /\ hist_addr' = 0 /\ 0 \in Addr
    BY <1>2, WidthsAre DEF EquReset
  <2> QED BY <2>1, ResetKeepsBins, ResetHistogram DEF HistIInv, Hist!Next
<1>3. CASE UNCHANGED allVars
  <2>1. UNCHANGED vars /\ hist_addr' = hist_addr
    BY <1>3 DEF allVars, equ_vars
  <2> QED BY <2>1, IdleBins DEF HistIInv
<1> QED BY <1>1, <1>2, <1>3 DEF VideoNext, video

(* CountsFrames of the run: for every width of the bins and every number   *)
(* of pixels that fits them, with any gaps, resets and reads, the two RAMs *)
(* are a plain histogram that is counted pixel by pixel and published at   *)
(* the rising vsync.                                                       *)
THEOREM HistogramRefined == VideoSpec => CountsFrames
<1>1. VideoInit => HistIInv /\ Hist!Init
  <2> SUFFICES ASSUME VideoInit PROVE HistIInv /\ Hist!Init
    OBVIOUS
  <2>1. Init /\ hist_addr = 0 /\ 0 \in Addr
    BY WidthsAre DEF VideoInit, EquInit
  <2> QED BY <2>1, InitBinsIInv, InitHistogram DEF HistIInv
<1>2. HistIInv /\ [VideoNext]_video => HistIInv' /\ [Hist!Next]_(Hist!vars)
  BY NextHistIInv
<1> QED BY <1>1, <1>2, PTL DEF VideoSpec, CountsFrames, Hist!Spec

-----------------------------------------------------------------------------
(* Sums.                                                                   *)

(* Induction, for a set of numbers.                                        *)
LEMMA NumbersAll ==
  ASSUME NEW B \in SUBSET Nat, 0 \in B, \A n \in B : n + 1 \in B
  PROVE  B = Nat
<1> SUFFICES ASSUME Nat \ B # {} PROVE FALSE
  OBVIOUS
<1> DEFINE R == OpToRel(<, Nat)
<1>1. PICK i \in Nat \ B : \A j \in Nat \ B : <<j, i>> \notin R
  <2>1. IsWellFoundedOn(R, Nat)
    BY NatLessThanWellFounded, Zenon
  <2> HIDE DEF R
  <2>2. Nat \ B \subseteq Nat
    OBVIOUS
  <2> QED BY <2>1, <2>2, WFMin, Zenon
<1>2. i # 0 /\ i - 1 \in Nat /\ i - 1 < i
  OBVIOUS
<1>3. i - 1 \in B
  <2> SUFFICES ASSUME i - 1 \notin B PROVE FALSE
    OBVIOUS
  <2>1. <<i - 1, i>> \in R
    BY <1>2, Zenon DEF OpToRel
  <2> HIDE DEF R
  <2> QED BY <1>1, <1>2, <2>1
<1>4. (i - 1) + 1 \in B /\ (i - 1) + 1 = i
  BY <1>2, <1>3
<1> QED BY <1>4

(* The recursive function that a sum is made of.                           *)
IsSum(g, f, S) ==
  g = [s \in SUBSET S |-> IF s = {} THEN 0
                          ELSE f[CHOOSE i \in s : TRUE] + g[s \ {CHOOSE i \in s : TRUE}]]

LEMMA SumIs ==
  ASSUME NEW f, NEW S
  PROVE  SumFunctionOnSet(f, S) = (CHOOSE g : IsSum(g, f, S))[S]
BY DEF SumFunctionOnSet, FoldFunctionOnSet, MapThenFoldSet, IsSum


Any(s) == CHOOSE i \in s : TRUE

LEMMA SumRule ==
  ASSUME NEW f, NEW S, NEW g, IsSum(g, f, S), NEW s \in SUBSET S
  PROVE  g[s] = IF s = {} THEN 0 ELSE f[Any(s)] + g[s \ {Any(s)}]
BY DEF IsSum, Any

LEMMA AnyIs == ASSUME NEW s, s # {} PROVE Any(s) \in s
BY DEF Any

LEMMA Removed ==
  ASSUME NEW s, IsFiniteSet(s), s # {}
  PROVE  /\ Any(s) \in s /\ IsFiniteSet(s \ {Any(s)})
         /\ Cardinality(s \ {Any(s)}) = Cardinality(s) - 1
<1>1. PICK i : i = Any(s)
  OBVIOUS
<1>2. i \in s
  BY <1>1, AnyIs
<1>3. /\ IsFiniteSet(s \ {i})
      /\ Cardinality(s \ {i}) = IF i \in s THEN Cardinality(s) - 1 ELSE Cardinality(s)
  BY FS_RemoveElement, Zenon
<1> QED BY <1>1, <1>2, <1>3

(* Two such functions agree where both are defined.                        *)
LEMMA SumUnique ==
  ASSUME NEW f, NEW S, NEW T, NEW g, NEW h, IsSum(g, f, S), IsSum(h, f, T),
         NEW s \in SUBSET S, s \in SUBSET T, IsFiniteSet(s)
  PROVE  g[s] = h[s]
<1> DEFINE B == {n \in Nat : \A t \in SUBSET s : Cardinality(t) = n => g[t] = h[t]}
<1>1. ASSUME NEW t \in SUBSET s PROVE IsFiniteSet(t) /\ Cardinality(t) \in Nat /\ t \in SUBSET S /\ t \in SUBSET T
  BY FS_Subset, FS_CardinalityType
<1>r. /\ \A t \in SUBSET S : g[t] = IF t = {} THEN 0 ELSE f[Any(t)] + g[t \ {Any(t)}]
      /\ \A t \in SUBSET T : h[t] = IF t = {} THEN 0 ELSE f[Any(t)] + h[t \ {Any(t)}]
  BY DEF IsSum, Any
<1>2. 0 \in B
  <2> SUFFICES ASSUME NEW t \in SUBSET s, Cardinality(t) = 0 PROVE g[t] = h[t]
    OBVIOUS
  <2>1. t = {}
    BY <1>1, FS_EmptySet
  <2> QED BY <1>1, <2>1, SumRule
<1>3. ASSUME NEW n \in B PROVE n + 1 \in B
  <2> SUFFICES ASSUME NEW t \in SUBSET s, Cardinality(t) = n + 1 PROVE g[t] = h[t]
    BY <1>3
  <2>1. t # {} /\ n \in Nat
    <3>1. Cardinality(t) # 0
      BY <1>3
    <3> QED BY <1>3, <3>1, FS_EmptySet
  <2>2. PICK u : u = t \ {Any(t)}
    OBVIOUS
  <2>3. u \in SUBSET s /\ Cardinality(u) = n
    <3>1. IsFiniteSet(t)
      BY <1>1
    <3>2. Cardinality(u) = Cardinality(t) - 1
      BY <2>1, <2>2, <3>1, Removed
    <3> QED BY <2>1, <2>2, <3>2
  <2>4. g[u] = h[u]
    BY <1>3, <2>3
  <2> HIDE DEF B
  <2>5. g[t] = f[Any(t)] + g[u]
    <3>1. t \in SUBSET S
      BY <1>1
    <3>2. g[t] = IF t = {} THEN 0 ELSE f[Any(t)] + g[t \ {Any(t)}]
      BY <3>1, <1>r, Zenon
    <3> QED BY <2>1, <2>2, <3>2
  <2>6. h[t] = f[Any(t)] + h[u]
    <3>1. t \in SUBSET T
      BY <1>1
    <3>2. h[t] = IF t = {} THEN 0 ELSE f[Any(t)] + h[t \ {Any(t)}]
      BY <3>1, <1>r, Zenon
    <3> QED BY <2>1, <2>2, <3>2
  <2> QED BY <2>4, <2>5, <2>6
<1>4. B = Nat
  <2> HIDE DEF B
  <2>1. B \in SUBSET Nat
    BY DEF B
  <2> QED BY <1>2, <1>3, <2>1, NumbersAll
<1>5. Cardinality(s) \in B
  BY <1>1, <1>4
<1> QED BY <1>5

(* There is one for every finite set.                                      *)
LEMMA SumExists ==
  ASSUME NEW f, NEW S, IsFiniteSet(S)
  PROVE  \E g : IsSum(g, f, S)
<1> DEFINE Small(n) == {s \in SUBSET S : Cardinality(s) <= n}
           Rule(g, s) == g[s] = IF s = {} THEN 0 ELSE f[Any(s)] + g[s \ {Any(s)}]
           B == {n \in Nat : \E g : \A s \in Small(n) : Rule(g, s)}
<1>1. ASSUME NEW s \in SUBSET S
      PROVE  /\ IsFiniteSet(s) /\ Cardinality(s) \in Nat /\ Cardinality(s) <= Cardinality(S)
             /\ s # {} => Any(s) \in s /\ s \ {Any(s)} \in SUBSET S
                          /\ Cardinality(s \ {Any(s)}) = Cardinality(s) - 1
  <2>1. s # {} => Any(s) \in s
    BY AnyIs
  <2> QED BY <2>1, FS_Subset, FS_CardinalityType, FS_RemoveElement
<1>2. 0 \in B
  <2>1. ASSUME NEW s \in Small(0) PROVE Rule([t \in SUBSET S |-> 0], s)
    <3>1. IsFiniteSet(s) /\ Cardinality(s) \in Nat /\ Cardinality(s) <= 0
      BY <1>1
    <3>2. s = {}
      BY <3>1, FS_EmptySet
    <3> QED BY <3>2
  <2> QED BY <2>1
<1>3. ASSUME NEW n \in B PROVE n + 1 \in B
  <2>1. PICK g : \A s \in Small(n) : Rule(g, s)
    BY <1>3
  <2> DEFINE h == [s \in SUBSET S |-> IF s \in Small(n) THEN g[s]
                     ELSE f[Any(s)] + g[s \ {Any(s)}]]
  <2>2. ASSUME NEW s \in Small(n + 1) PROVE Rule(h, s)
    <3>1. s \in SUBSET S /\ n \in Nat /\ Cardinality(s) <= n + 1
      BY <1>3
    <3>2. CASE s = {}
      <4>1. s \in Small(n)
        BY <1>1, <3>1, <3>2, FS_EmptySet
      <4> QED BY <2>1, <3>2, <4>1
    <3>3. CASE s # {}
      <4>1. s \ {Any(s)} \in Small(n)
        BY <1>1, <3>1, <3>3
      <4>2. h[s \ {Any(s)}] = g[s \ {Any(s)}]
        BY <4>1
      <4>3. h[s] = f[Any(s)] + g[s \ {Any(s)}]
        <5>1. CASE s \in Small(n)
          <6>1. h[s] = g[s]
            BY <5>1, <3>1
          <6> QED BY <2>1, <3>3, <5>1, <6>1
        <5>2. CASE s \notin Small(n)
          BY <5>2, <3>1
        <5> QED BY <5>1, <5>2
      <4> QED BY <3>3, <4>2, <4>3
    <3> QED BY <3>2, <3>3
  <2> HIDE DEF h, Rule
  <2>3. \A s \in Small(n + 1) : Rule(h, s)
    BY <2>2
  <2>4. n + 1 \in Nat
    BY <1>3
  <2> QED BY <2>3, <2>4
<1>4. Cardinality(S) \in B
  <2> HIDE DEF B
  <2>1. B \in SUBSET Nat
    BY DEF B
  <2> QED BY <1>1, <1>2, <1>3, <2>1, NumbersAll
<1>5. PICK g : \A s \in SUBSET S : Rule(g, s)
  BY <1>1, <1>4
<1> DEFINE h == [s \in SUBSET S |-> g[s]]
<1>6. h = [s \in SUBSET S |-> IF s = {} THEN 0 ELSE f[Any(s)] + h[s \ {Any(s)}]]
  <2>1. ASSUME NEW s \in SUBSET S
        PROVE  g[s] = IF s = {} THEN 0 ELSE f[Any(s)] + h[s \ {Any(s)}]
    <3>1. s \ {Any(s)} \in SUBSET S
      OBVIOUS
    <3>2. h[s \ {Any(s)}] = g[s \ {Any(s)}]
      BY <3>1
    <3> QED BY <1>5, <3>2
  <2> QED BY <2>1
<1> QED BY <1>6 DEF IsSum, Any

(* Induction, for a family of subsets of a finite set.                     *)
LEMMA SubsetsAll ==
  ASSUME NEW S, IsFiniteSet(S), NEW F \in SUBSET (SUBSET S), {} \in F,
         \A T \in F : \A i \in S \ T : T \union {i} \in F
  PROVE  SUBSET S = F
<1> DEFINE B == {n \in Nat : \A T \in SUBSET S : Cardinality(T) = n => T \in F}
<1>1. ASSUME NEW T \in SUBSET S PROVE IsFiniteSet(T) /\ Cardinality(T) \in Nat
  BY FS_Subset, FS_CardinalityType
<1>2. 0 \in B
  <2> SUFFICES ASSUME NEW T \in SUBSET S, Cardinality(T) = 0 PROVE T \in F
    OBVIOUS
  <2>1. T = {}
    BY <1>1, FS_EmptySet
  <2> QED BY <2>1
<1>3. ASSUME NEW n \in B PROVE n + 1 \in B
  <2> SUFFICES ASSUME NEW T \in SUBSET S, Cardinality(T) = n + 1 PROVE T \in F
    BY <1>3
  <2>1. n \in Nat /\ Cardinality(T) # 0
    BY <1>3
  <2>2. IsFiniteSet(T) /\ T # {}
    BY <1>1, <2>1, FS_EmptySet
  <2>3. PICK i : i = Any(T)
    OBVIOUS
  <2>4. i \in T /\ Cardinality(T \ {i}) = n
    <3>1. Any(T) \in T /\ Cardinality(T \ {Any(T)}) = Cardinality(T) - 1
      BY <2>2, Removed
    <3> QED BY <2>1, <2>3, <3>1
  <2>5. T \ {i} \in F
    BY <1>3, <2>4
  <2>6. (T \ {i}) \union {i} = T /\ i \in S \ (T \ {i})
    BY <2>4
  <2>7. (T \ {i}) \union {i} \in F
    BY <2>5, <2>6
  <2> QED BY <2>6, <2>7
<1>4. B = Nat
  <2> HIDE DEF B
  <2>1. B \in SUBSET Nat
    BY DEF B
  <2> QED BY <1>2, <1>3, <2>1, NumbersAll
<1> QED BY <1>1, <1>4

LEMMA SumPick ==
  ASSUME NEW f, NEW S, IsFiniteSet(S)
  PROVE  /\ SumFunctionOnSet(f, {}) = 0
         /\ S # {} => SumFunctionOnSet(f, S)
                        = f[Any(S)] + SumFunctionOnSet(f, S \ {Any(S)})
<1>1. ASSUME NEW T, IsFiniteSet(T)
      PROVE  \E g : IsSum(g, f, T) /\ SumFunctionOnSet(f, T) = g[T]
  <2>1. PICK g : g = CHOOSE h : IsSum(h, f, T)
    OBVIOUS
  <2>2. IsSum(g, f, T)
    BY <1>1, <2>1, SumExists
  <2>3. SumFunctionOnSet(f, T) = g[T]
    BY <2>1, SumIs
  <2> QED BY <2>2, <2>3
<1>2. SumFunctionOnSet(f, {}) = 0
  <2>1. PICK g : IsSum(g, f, {}) /\ SumFunctionOnSet(f, {}) = g[{}]
    BY <1>1, FS_EmptySet
  <2> QED BY <2>1 DEF IsSum
<1>3. ASSUME S # {}
      PROVE  SumFunctionOnSet(f, S) = f[Any(S)] + SumFunctionOnSet(f, S \ {Any(S)})
  <2>1. PICK T : T = S \ {Any(S)}
    OBVIOUS
  <2>2. IsFiniteSet(T) /\ T \in SUBSET S
    BY <1>3, <2>1, Removed
  <2>3. PICK g : IsSum(g, f, S) /\ SumFunctionOnSet(f, S) = g[S]
    BY <1>1
  <2>4. PICK h : IsSum(h, f, T) /\ SumFunctionOnSet(f, T) = h[T]
    BY <1>1, <2>2
  <2>5. g[T] = h[T]
    BY <2>2, <2>3, <2>4, SumUnique
  <2>6. g[S] = f[Any(S)] + g[T]
    BY <1>3, <2>1, <2>3 DEF IsSum, Any
  <2> QED BY <2>1, <2>3, <2>4, <2>5, <2>6
<1> QED BY <1>2, <1>3

LEMMA SumType ==
  ASSUME NEW f, NEW S, IsFiniteSet(S), \A i \in S : f[i] \in Int
  PROVE  SumFunctionOnSet(f, S) \in Int /\ ((\A i \in S : f[i] >= 0) => SumFunctionOnSet(f, S) >= 0)
<1> DEFINE Sum(T) == SumFunctionOnSet(f, T)
           Fine(T) == Sum(T) \in Int /\ ((\A i \in S : f[i] >= 0) => Sum(T) >= 0)
           B == {n \in Nat : \A T \in SUBSET S : Cardinality(T) = n => Fine(T)}
<1>1. ASSUME NEW T \in SUBSET S PROVE IsFiniteSet(T) /\ Cardinality(T) \in Nat
  BY FS_Subset, FS_CardinalityType
<1>2. 0 \in B
  <2> SUFFICES ASSUME NEW T \in SUBSET S, Cardinality(T) = 0 PROVE Fine(T)
    OBVIOUS
  <2>1. T = {}
    BY <1>1, FS_EmptySet
  <2>2. Sum(T) = 0
    BY <1>1, <2>1, SumPick
  <2> QED BY <2>1, <2>2
<1>3. ASSUME NEW n \in B PROVE n + 1 \in B
  <2> SUFFICES ASSUME NEW T \in SUBSET S, Cardinality(T) = n + 1 PROVE Fine(T)
    BY <1>3
  <2>0. n \in Nat /\ \A U \in SUBSET S : Cardinality(U) = n => Fine(U)
    BY <1>3
  <2> HIDE DEF B
  <2>1. IsFiniteSet(T) /\ T # {}
    <3>1. Cardinality(T) # 0
      BY <2>0
    <3> QED BY <1>1, <3>1, FS_EmptySet
  <2>2. PICK c : c = Any(T)
    OBVIOUS
  <2>3. c \in T /\ Sum(T) = f[c] + Sum(T \ {c}) /\ T \ {c} \in SUBSET S
        /\ Cardinality(T \ {c}) = Cardinality(T) - 1
    BY <2>1, <2>2, SumPick, Removed
  <2>4. Fine(T \ {c})
    BY <2>0, <2>3
  <2> QED BY <2>3, <2>4
<1>4. Cardinality(S) \in B
  <2> HIDE DEF B
  <2>1. B \in SUBSET Nat
    BY DEF B
  <2> QED BY <1>1, <1>2, <1>3, <2>1, NumbersAll
<1> QED BY <1>4

(* A sum loses with an element its value, whichever element that is.       *)
LEMMA SumTakes ==
  ASSUME NEW f, NEW S, IsFiniteSet(S), \A i \in S : f[i] \in Int, NEW e \in S
  PROVE  SumFunctionOnSet(f, S) = f[e] + SumFunctionOnSet(f, S \ {e})
<1>1. ASSUME NEW T \in SUBSET S
      PROVE  /\ IsFiniteSet(T) /\ Cardinality(T) \in Nat /\ SumFunctionOnSet(f, T) \in Int
             /\ \A i \in T : Cardinality(T \ {i}) = Cardinality(T) - 1
  BY FS_Subset, FS_CardinalityType, FS_RemoveElement, SumType
<1> DEFINE Sum(T) == SumFunctionOnSet(f, T)
           Takes(T) == \A i \in T : Sum(T) = f[i] + Sum(T \ {i})
           B == {n \in Nat : \A T \in SUBSET S : Cardinality(T) = n => Takes(T)}
<1>2. 0 \in B
  <2> SUFFICES ASSUME NEW T \in SUBSET S, Cardinality(T) = 0 PROVE Takes(T)
    OBVIOUS
  <2>1. T = {}
    BY <1>1, FS_EmptySet
  <2> QED BY <2>1
<1>3. ASSUME NEW n \in B PROVE n + 1 \in B
  <2> SUFFICES ASSUME NEW T \in SUBSET S, Cardinality(T) = n + 1 PROVE Takes(T)
    BY <1>3
  <2>0. n \in Nat /\ \A U \in SUBSET S : Cardinality(U) = n => Takes(U)
    BY <1>3
  <2> HIDE DEF B
  <2>1. IsFiniteSet(T) /\ T # {}
    <3>1. Cardinality(T) # 0
      BY <2>0
    <3> QED BY <1>1, <3>1, FS_EmptySet
  <2>2. PICK c : c = Any(T)
    OBVIOUS
  <2>3. c \in T /\ Sum(T) = f[c] + Sum(T \ {c}) /\ T \ {c} \in SUBSET S
    BY <2>1, <2>2, SumPick, Removed
  <2>4. ASSUME NEW i \in T, i # c PROVE Sum(T) = f[i] + Sum(T \ {i})
    <3>1. Cardinality(T \ {c}) = n /\ i \in T \ {c}
      BY <1>1, <2>0, <2>3, <2>4
    <3>2. Sum(T \ {c}) = f[i] + Sum((T \ {c}) \ {i})
      BY <2>0, <2>3, <3>1
    <3>3. T \ {i} \in SUBSET S /\ Cardinality(T \ {i}) = n /\ c \in T \ {i}
      BY <1>1, <2>0, <2>3, <2>4
    <3>4. Sum(T \ {i}) = f[c] + Sum((T \ {i}) \ {c})
      BY <2>0, <3>3
    <3>5. (T \ {c}) \ {i} = (T \ {i}) \ {c} /\ (T \ {i}) \ {c} \in SUBSET S
      OBVIOUS
    <3>6. Sum((T \ {i}) \ {c}) \in Int /\ f[c] \in Int /\ f[i] \in Int
      BY <1>1, <2>3, <2>4, <3>5
    <3>7. PICK r \in Int : r = Sum((T \ {i}) \ {c})
      BY <3>6
    <3>8. Sum(T \ {c}) = f[i] + r /\ Sum(T \ {i}) = f[c] + r
      BY <3>2, <3>4, <3>5, <3>7
    <3>9. Sum(T) = f[c] + (f[i] + r)
      BY <2>3, <3>8
    <3> HIDE DEF Sum
    <3> QED BY <3>6, <3>7, <3>8, <3>9
  <2> QED BY <2>3, <2>4
<1>4. Cardinality(S) \in B
  <2> HIDE DEF B
  <2>1. B \in SUBSET Nat
    BY DEF B
  <2> QED BY <1>1, <1>2, <1>3, <2>1, NumbersAll
<1> QED BY <1>4

(* Equal values have equal sums.                                           *)
LEMMA SumSame ==
  ASSUME NEW f, NEW g, NEW S, IsFiniteSet(S), \A i \in S : f[i] = g[i]
  PROVE  SumFunctionOnSet(f, S) = SumFunctionOnSet(g, S)
<1>1. ASSUME NEW s \in SUBSET S, s # {}
      PROVE  f[CHOOSE i \in s : TRUE] = g[CHOOSE i \in s : TRUE]
  BY <1>1, AnyIs DEF Any
<1>2. ASSUME NEW h PROVE IsSum(h, f, S) <=> IsSum(h, g, S)
  <2>1. [s \in SUBSET S |-> IF s = {} THEN 0 ELSE f[CHOOSE i \in s : TRUE] + h[s \ {CHOOSE i \in s : TRUE}]]
      = [s \in SUBSET S |-> IF s = {} THEN 0 ELSE g[CHOOSE i \in s : TRUE] + h[s \ {CHOOSE i \in s : TRUE}]]
    BY <1>1
  <2> QED BY <2>1 DEF IsSum
<1>3. PICK u : IsSum(u, f, S)
  BY SumExists
<1>4. PICK v : v = CHOOSE h : IsSum(h, f, S)
  OBVIOUS
<1>5. PICK w : w = CHOOSE h : IsSum(h, g, S)
  OBVIOUS
<1>6. IsSum(v, f, S) /\ IsSum(w, f, S)
  BY <1>2, <1>3, <1>4, <1>5
<1>7. v[S] = w[S]
  BY <1>6, SumUnique
<1> QED BY <1>4, <1>5, <1>7, SumIs

(* One more in one place is one more in all.                               *)
LEMMA SumCounts ==
  ASSUME NEW f, NEW g, NEW S, IsFiniteSet(S), \A i \in S : f[i] \in Int, NEW e \in S,
         NEW k \in Int, g[e] = f[e] + k, \A i \in S \ {e} : g[i] = f[i]
  PROVE  SumFunctionOnSet(g, S) = SumFunctionOnSet(f, S) + k
<1>1. IsFiniteSet(S \ {e}) /\ \A i \in S : g[i] \in Int
  BY FS_RemoveElement
<1>2. SumFunctionOnSet(g, S \ {e}) = SumFunctionOnSet(f, S \ {e})
  BY <1>1, SumSame
<1>3. /\ SumFunctionOnSet(g, S) = g[e] + SumFunctionOnSet(g, S \ {e})
      /\ SumFunctionOnSet(f, S) = f[e] + SumFunctionOnSet(f, S \ {e})
  BY <1>1, SumTakes
<1>4. SumFunctionOnSet(f, S \ {e}) \in Int
  BY <1>1, SumType
<1> QED BY <1>2, <1>3, <1>4

(* A part adds up to no more than the whole.                               *)
LEMMA SumOfPart ==
  ASSUME NEW f, NEW S, IsFiniteSet(S), \A i \in S : f[i] \in Nat, NEW T \in SUBSET S
  PROVE  SumFunctionOnSet(f, T) <= SumFunctionOnSet(f, S)
<1> DEFINE Sum(U) == SumFunctionOnSet(f, U)
           F == {U \in SUBSET S : Sum(U \union T) >= Sum(T)}
<1>1. ASSUME NEW U \in SUBSET S PROVE IsFiniteSet(U) /\ Sum(U) \in Int /\ Sum(U) >= 0
  BY FS_Subset, SumType
<1>2. {} \in F
  <2>1. {} \union T = T
    OBVIOUS
  <2> QED BY <1>1, <2>1
<1>3. ASSUME NEW U \in F, NEW i \in S \ U PROVE U \union {i} \in F
  <2>1. CASE i \in T
    <3>1. (U \union {i}) \union T = U \union T
      BY <2>1
    <3> QED BY <1>1, <1>3, <3>1
  <2>2. CASE i \notin T
    <3>1. PICK V : V = (U \union {i}) \union T
      OBVIOUS
    <3>2. V \in SUBSET S /\ i \in V /\ V \ {i} = U \union T
      BY <1>3, <2>2, <3>1
    <3>3. Sum(V) = f[i] + Sum(V \ {i})
      BY <1>1, <3>2, SumTakes
    <3>4. PICK a : a = Sum(U \union T)
      OBVIOUS
    <3>5. a \in Int /\ f[i] \in Nat /\ Sum(T) \in Int /\ a >= Sum(T)
      BY <1>1, <1>3, <3>2, <3>4
    <3>6. Sum(V) = f[i] + a
      BY <3>2, <3>3, <3>4
    <3>7. Sum(V) >= Sum(T)
      BY <3>5, <3>6
    <3> QED BY <1>3, <3>1, <3>7
  <2> QED BY <2>1, <2>2
<1>4. S \in F
  <2> HIDE DEF F
  <2>1. F \in SUBSET (SUBSET S)
    BY DEF F
  <2>2. SUBSET S = F
    <3>1. \A U \in F : \A i \in S \ U : U \union {i} \in F
      BY <1>3, Zenon
    <3> QED BY <1>2, <2>1, <3>1, SubsetsAll, Zenon
  <2>3. S \in SUBSET S
    OBVIOUS
  <2> QED BY <2>2, <2>3
<1>5. S \union T = S
  OBVIOUS
<1> QED BY <1>4, <1>5

(* Nothing adds up to nothing.                                             *)
LEMMA SumZero ==
  ASSUME NEW f, NEW S, IsFiniteSet(S), \A i \in S : f[i] = 0
  PROVE  SumFunctionOnSet(f, S) = 0
<1> DEFINE F == {T \in SUBSET S : SumFunctionOnSet(f, T) = 0}
<1>1. {} \in F
  BY SumPick
<1>2. ASSUME NEW T \in F, NEW i \in S \ T PROVE T \union {i} \in F
  <2>1. PICK U : U = T \union {i}
    OBVIOUS
  <2>2. U \in SUBSET S /\ i \in U /\ U \ {i} = T /\ IsFiniteSet(U)
    BY <1>2, <2>1, FS_Subset
  <2>3. SumFunctionOnSet(f, U) = f[i] + SumFunctionOnSet(f, T)
    BY <2>2, SumTakes
  <2> QED BY <1>2, <2>1, <2>2, <2>3
<1>3. SUBSET S = F
  <2> HIDE DEF F
  <2>1. F \in SUBSET (SUBSET S)
    BY DEF F
  <2>2. \A T \in F : \A i \in S \ T : T \union {i} \in F
    BY <1>2, Zenon
  <2> QED BY <1>1, <2>1, <2>2, SubsetsAll, Zenon
<1> QED BY <1>3

-----------------------------------------------------------------------------
(* The equaliser (vip_hist_equ.v:29-157).                                  *)

Backup == mem[bak_ram]
Sums(h, v) == SumFunctionOnSet(h, 0 .. v)

(* The sweep and the stages behind it are done before a pixel comes.       *)
SweepInTime ==
  whole => /\ ~hist_sum_done => since <= hist_addr
           /\ \A i \in 0 .. 3 : hist_sum_runn[i] => since <= 2^AddrBits + i

(* The addresses the sweep has asked for.                                  *)
Issued == IF hist_sum_done THEN 2^AddrBits ELSE hist_addr

InStage(a) == \E i \in 0 .. 3 : hist_sum_runn[i] /\ hist_sum_addr[i] = a

(* Each stage holds its part of the value at its address, and the table    *)
(* those that have left the last one.                                      *)
StagesOK ==
  /\ ~hist_sum_done => (hist_sum_runn[0] <=> hist_addr > 0)
  /\ hist_sum_runn[0] => /\ hist_sum_addr[0] = Issued - 1
                         /\ hist_data = Backup[hist_sum_addr[0]]
                         /\ hist_sum_addr[0] = IF hist_sum_runn[1] THEN hist_sum_addr[1] + 1
                                                                   ELSE 0
  /\ hist_sum_data_1 = IF hist_sum_runn[1] THEN Sums(Backup, hist_sum_addr[1]) ELSE 0
  /\ hist_sum_runn[2] => hist_sum_data_2 = Sums(Backup, hist_sum_addr[2]) * Max_value
  /\ hist_sum_runn[3] => hist_sum_data_3 = Equalised(Backup, hist_sum_addr[3])
  /\ \A a \in 0 .. Issued - 1 : InStage(a) \/ hist_map_ram[a] = Equalised(Backup, a)

SweepOK == bak_whole /\ Total(Backup) <= PIX_TOTAL => StagesOK

Weighed(h) == [a \in window |-> a * h[a]]

(* The sums are those of the pixels so far.                                *)
StatsOK ==
  /\ stat_vsync = prev_flip_trigger /\ window \in Windows
  /\ tmp_cnt \in Nat /\ tmp_sum \in Nat
  /\ prev_flip_trigger => since = 0 /\ \A a \in Addr : pixels[a] = 0
  /\ whole /\ ~prev_flip_trigger =>
       /\ tmp_cnt = SumFunctionOnSet(pixels, window)
       /\ tmp_sum = SumFunctionOnSet(Weighed(pixels), window)
       /\ tmp_cnt <= sent /\ tmp_sum <= Max_value * sent

EquIInv ==
  /\ HistIInv /\ EquTypeOK /\ (bak_whole => whole)
  /\ SweepInTime /\ SweepOK /\ PixelsEqualised
  /\ StatsOK /\ SumsOfTheFrame

LEMMA AddressesFinite ==
  /\ IsFiniteSet(Addr) /\ \A S \in SUBSET Addr : IsFiniteSet(S)
  /\ \A v \in Addr : 0 .. v \in SUBSET Addr
<1>1. PICK aw \in Nat \ {0} : Addr = 0 .. aw - 1
  BY WidthsAre
<1>2. IsFiniteSet(Addr)
  BY <1>1, FS_Interval
<1>3. \A S \in SUBSET Addr : IsFiniteSet(S)
  BY <1>2, FS_Subset
<1>4. \A v \in Addr : 0 .. v \in SUBSET Addr
  BY <1>1
<1> QED BY <1>2, <1>3, <1>4

(* Sums up to an address, one address after the other.                     *)
LEMMA SumsAre ==
  ASSUME NEW h \in [Addr -> Data], NEW v \in Addr
  PROVE  /\ Sums(h, v) \in Nat /\ Total(h) \in Nat /\ Sums(h, v) <= Total(h)
         /\ v = 0 => Sums(h, v) = h[v]
         /\ v > 0 => v - 1 \in Addr /\ Sums(h, v) = Sums(h, v - 1) + h[v]
<1>1. PICK aw \in Nat \ {0} : Addr = 0 .. aw - 1
  BY WidthsAre
<1>2. \A a \in Addr : h[a] \in Nat
  BY WidthsAre
<1>3. 0 .. v \in SUBSET Addr /\ IsFiniteSet(Addr) /\ IsFiniteSet(0 .. v)
  BY AddressesFinite
<1>4. Sums(h, v) \in Nat /\ Total(h) \in Nat
  <2>1. ASSUME NEW S \in SUBSET Addr, IsFiniteSet(S) PROVE SumFunctionOnSet(h, S) \in Nat
    <3>1. \A i \in S : h[i] \in Int /\ h[i] >= 0
      BY <1>2
    <3>2. SumFunctionOnSet(h, S) \in Int /\ SumFunctionOnSet(h, S) >= 0
      BY <2>1, <3>1, SumType
    <3> QED BY <3>2
  <2> QED BY <1>3, <2>1 DEF Sums, Total
<1>5. Sums(h, v) <= Total(h)
  BY <1>2, <1>3, SumOfPart DEF Sums, Total
<1>6. Sums(h, v) = h[v] + SumFunctionOnSet(h, (0 .. v) \ {v})
  <2>1. v \in 0 .. v /\ \A i \in 0 .. v : h[i] \in Int
    BY <1>1, <1>2, <1>3
  <2> QED BY <1>3, <2>1, SumTakes DEF Sums
<1>7. CASE v = 0
  <2>1. (0 .. v) \ {v} = {}
    BY <1>7
  <2>2. SumFunctionOnSet(h, (0 .. v) \ {v}) = 0
    BY <2>1, SumPick, FS_EmptySet
  <2> QED BY <1>2, <1>4, <1>5, <1>6, <1>7, <2>2
<1>8. CASE v > 0
  <2>1. (0 .. v) \ {v} = 0 .. (v - 1) /\ v - 1 \in Addr
    BY <1>1, <1>8
  <2>2. Sums(h, v) = h[v] + Sums(h, v - 1)
    BY <1>6, <2>1 DEF Sums
  <2>3. Sums(h, v - 1) \in Int
    <3>1. 0 .. (v - 1) \in SUBSET Addr /\ \A i \in 0 .. (v - 1) : h[i] \in Int
      BY <1>2, <2>1, AddressesFinite
    <3> QED BY <3>1, AddressesFinite, SumType DEF Sums
  <2> QED BY <1>2, <1>4, <1>5, <1>8, <2>1, <2>2, <2>3
<1> QED BY <1>1, <1>7, <1>8

LEMMA Scaled ==
  ASSUME NEW P \in Nat, NEW T \in Nat \ {0}, NEW M \in Nat
  PROVE  /\ P * M \in Nat
         /\ P <= T => P * M <= T * M /\ (P * M) \div T \in 0 .. M
<1>1. P * M \in Nat
  OBVIOUS
<1>2. ASSUME P <= T PROVE P * M <= T * M /\ (P * M) \div T \in 0 .. M
  <2>1. P * M <= T * M
    BY <1>2
  <2>2. PICK d \in Nat : d = P * M
    BY <1>1
  <2>3. d \div T \in Nat /\ d = T * (d \div T) + (d % T) /\ d % T \in 0 .. T - 1
    OBVIOUS
  <2>4. PICK e \in Nat : e = d \div T
    BY <2>3
  <2>5. T * e <= T * M
    BY <2>1, <2>2, <2>3, <2>4
  <2>6. e <= M
    <3> SUFFICES ASSUME e >= M + 1 PROVE FALSE
      OBVIOUS
    <3>1. T * e >= T * (M + 1) /\ T * (M + 1) = T * M + T
      OBVIOUS
    <3>2. T * e \in Nat /\ T * M \in Nat
      OBVIOUS
    <3> QED BY <2>5, <3>1, <3>2
  <2> QED BY <2>1, <2>2, <2>4, <2>6
<1> QED BY <1>1, <1>2

LEMMA ClockSends ==
  ASSUME HistIInv, sent = Total(pixels), NEW en, NEW addr \in Addr, Clock(en, addr)
  PROVE  sent' = Total(pixels')
<1>1. in_addr \in Addr /\ pixels \in [Addr -> Nat] /\ IsFiniteSet(Addr)
  BY AddressesFinite DEF HistIInv, BinsIInv, BinTypes
<1>2. CASE flip
  <2>1. pixels' = [a \in Addr |-> 0] /\ sent' = 0
    BY <1>2 DEF Clock, Stream
  <2> QED BY <1>1, <2>1, SumZero DEF Total
<1>3. CASE ~flip /\ in_valid
  <2>1. pixels' = [pixels EXCEPT ![in_addr] = @ + 1] /\ sent' = sent + 1
    BY <1>3 DEF Clock, Stream
  <2>2. /\ pixels'[in_addr] = pixels[in_addr] + 1
        /\ \A i \in Addr \ {in_addr} : pixels'[i] = pixels[i]
    BY <1>1, <2>1
  <2>3. \A i \in Addr : pixels[i] \in Int
    BY <1>1
  <2>4. PICK g : g = pixels'
    OBVIOUS
  <2>5. SumFunctionOnSet(g, Addr) = SumFunctionOnSet(pixels, Addr) + 1
    BY <1>1, <2>2, <2>3, <2>4, SumCounts
  <2> QED BY <2>1, <2>4, <2>5 DEF Total
<1>4. CASE ~flip /\ ~in_valid
  BY <1>4 DEF Clock, Stream
<1> QED BY <1>2, <1>3, <1>4

LEMMA EquNumbers ==
  \E aw \in Nat \ {0}, dw \in Nat \ {0} :
    /\ aw = 2^AddrBits /\ dw = 2^DataBits /\ Addr = 0 .. aw - 1 /\ Data = 0 .. dw - 1
    /\ Max_value = aw - 1 /\ Max_value \in Addr /\ 0 \in Addr /\ 0 \in Data
    /\ Porch \in Nat /\ Porch >= aw + 4
    /\ PIX_TOTAL \in Nat \ {0} /\ PIX_TOTAL < dw
<1>1. PICK aw \in Nat \ {0}, dw \in Nat \ {0} :
        /\ aw = 2^AddrBits /\ dw = 2^DataBits /\ Addr = 0 .. aw - 1 /\ Data = 0 .. dw - 1
        /\ Porch \in Nat
  BY WidthsAre
<1>2. Max_value = aw - 1 /\ Max_value \in Addr /\ 0 \in Addr /\ 0 \in Data
  BY <1>1 DEF Max_value
<1>3. Porch >= aw + 4 /\ PIX_TOTAL \in Nat \ {0} /\ PIX_TOTAL < dw
  BY <1>1, HistEquAssumption
<1> QED BY <1>1, <1>2, <1>3

LEMMA EquIsClock ==
  ASSUME EquClock
  PROVE  \E en, addr : en = ~hist_sum_done /\ addr = hist_addr /\ Clock(en, addr)
<1> PICK en : en = ~hist_sum_done
  OBVIOUS
<1> PICK addr : addr = hist_addr
  OBVIOUS
<1>1. Clock(en, addr)
  BY DEF EquClock, Clock, Rams
<1> QED BY <1>1

(* Without a flip the backup RAM keeps what it holds and answers the sweep.*)
LEMMA BackupStays ==
  ASSUME HistIInv, EquClock, ~flip
  PROVE  /\ bak_ram' = bak_ram /\ bak_ram \in 0 .. 1 /\ Backup' = Backup
         /\ Backup \in [Addr -> Data]
         /\ bak_whole' = bak_whole /\ whole' = whole
         /\ ~hist_sum_done => hist_data' = Backup[hist_addr]
<1>1. PICK en, addr : en = ~hist_sum_done /\ addr = hist_addr /\ Clock(en, addr)
  BY EquIsClock
<1>2. /\ cur_ram \in 0 .. 1 /\ mem \in [0 .. 1 -> [Addr -> Data]] /\ hist_addr \in Addr
      /\ whole \in BOOLEAN /\ bak_whole \in BOOLEAN
  BY DEF HistIInv, BinsIInv, BinTypes
<1>3. cur_ram' = cur_ram /\ whole' = whole /\ bak_whole' = bak_whole
  BY <1>1, <1>2 DEF Clock, Banks, History
<1>4. bak_ram' = bak_ram /\ bak_ram \in 0 .. 1 /\ bak_ram # cur_ram
  BY <1>2, <1>3 DEF bak_ram
<1>5. mem'[bak_ram] = mem[bak_ram]
  BY <1>1, <1>2, <1>4 DEF Clock, Rams
<1>6. ~hist_sum_done => q'[bak_ram] = mem[bak_ram][hist_addr]
  BY <1>1, <1>4 DEF Clock, Rams
<1>7. Backup \in [Addr -> Data]
  BY <1>2, <1>4 DEF Backup
<1> QED BY <1>3, <1>4, <1>5, <1>6, <1>7 DEF Backup, hist_data

(* When a pixel comes, or vsync, the table is complete.                    *)
LEMMA SweptBefore ==
  ASSUME EquTypeOK, SweepInTime, whole, since >= Porch
  PROVE  hist_sum_done /\ \A i \in 0 .. 3 : ~hist_sum_runn[i]
<1>1. PICK aw \in Nat \ {0} : aw = 2^AddrBits /\ Addr = 0 .. aw - 1 /\ Porch \in Nat
                              /\ Porch >= aw + 4
  BY EquNumbers
<1>2. since \in Nat /\ hist_addr \in 0 .. aw - 1
  BY <1>1 DEF EquTypeOK, TypeOK
<1> QED BY <1>1, <1>2 DEF SweepInTime

LEMMA ClockEquTypes ==
  ASSUME HistIInv, EquTypeOK, EquClock, HistIInv'
  PROVE  EquTypeOK'
<1>1. PICK en, addr : en = ~hist_sum_done /\ addr = hist_addr /\ Clock(en, addr)
  BY EquIsClock
<1>2. PICK aw \in Nat \ {0}, dw \in Nat \ {0} :
        /\ aw = 2^AddrBits /\ dw = 2^DataBits /\ Addr = 0 .. aw - 1 /\ Data = 0 .. dw - 1
        /\ Max_value = aw - 1 /\ 0 \in Addr /\ 0 \in Data /\ PIX_TOTAL \in Nat \ {0}
  BY EquNumbers
<1>3. TypeOK'
  <2>1. addr \in Addr /\ sent = Total(pixels)
    BY <1>1 DEF HistIInv, EquTypeOK, TypeOK
  <2>2. sent' = Total(pixels') /\ resets' \in 0 .. MaxResets
    <3>1. resets' = resets
      BY <1>1 DEF Clock
    <3> QED BY <1>1, <2>1, <3>1, ClockSends DEF EquTypeOK, TypeOK
  <2>3. BinTypes' /\ LegalStream'
    BY DEF HistIInv, BinsIInv
  <2> QED BY <2>2, <2>3, Zenon DEF TypeOK, BinTypes, LegalStream, Total
<1>4. hist_sum_done' \in BOOLEAN /\ hist_addr' \in Addr
  BY DEF EquClock, Sweep, HistIInv
<1>5. hist_sum_runn' \in [0 .. 3 -> BOOLEAN] /\ hist_sum_addr' \in [0 .. 3 -> Addr]
  <2>1. hist_sum_runn' = [i \in 0 .. 3 |-> IF i = 0 THEN ~hist_sum_done ELSE hist_sum_runn[i - 1]]
    BY DEF EquClock, Scale
  <2>2. hist_sum_addr' = [i \in 0 .. 3 |-> IF i > 0 THEN hist_sum_addr[i - 1]
                                           ELSE IF hist_sum_done THEN 0 ELSE hist_addr]
    BY DEF EquClock, Scale
  <2>3. /\ hist_sum_runn \in [0 .. 3 -> BOOLEAN] /\ hist_sum_addr \in [0 .. 3 -> Addr]
        /\ hist_sum_done \in BOOLEAN /\ hist_addr \in Addr /\ 0 \in Addr
    BY <1>2 DEF EquTypeOK
  <2>4. \A i \in 0 .. 3 : hist_sum_addr'[i] \in Addr
    BY <2>2, <2>3
  <2>5. \A i \in 0 .. 3 : hist_sum_runn'[i] \in BOOLEAN
    <3>1. (~hist_sum_done) \in BOOLEAN
      BY Zenon
    <3>2. \A i \in 0 .. 3 : i # 0 => hist_sum_runn[i - 1] \in BOOLEAN
      BY <2>3
    <3>3. \A i \in 0 .. 3 : hist_sum_runn'[i]
            = IF i = 0 THEN ~hist_sum_done ELSE hist_sum_runn[i - 1]
      BY <2>1
    <3> QED BY <3>1, <3>2, <3>3, Zenon
  <2> QED BY <2>1, <2>2, <2>4, <2>5, Zenon
<1>6. hist_sum_data_1' \in Data
  <2>1. bak_ram \in 0 .. 1
    BY DEF bak_ram, HistIInv, BinsIInv, BinTypes
  <2>2. hist_sum_data_1 \in 0 .. dw - 1 /\ hist_data \in 0 .. dw - 1
    BY <1>2, <2>1 DEF hist_data, EquTypeOK, TypeOK
  <2>3. (hist_sum_data_1 + hist_data) % dw \in 0 .. dw - 1
    BY <2>2
  <2> QED BY <1>2, <2>3 DEF EquClock, Scale
<1>7. hist_sum_data_2' \in 0 .. 2^DataBits * 2^AddrBits - 1
  <2>1. hist_sum_data_2' = hist_sum_data_1 * (aw - 1) /\ hist_sum_data_1 \in 0 .. dw - 1
    BY <1>2 DEF EquClock, Scale, EquTypeOK
  <2>2. PICK d \in 0 .. dw - 1 : d = hist_sum_data_1
    BY <2>1
  <2>3. d * (aw - 1) \in Nat /\ d * (aw - 1) < dw * aw /\ dw * aw \in Nat
    <3>1. d * (aw - 1) \in Nat /\ d * (aw - 1) <= dw * (aw - 1) /\ dw * aw \in Nat
      BY Scaled
    <3>2. dw * (aw - 1) = dw * aw - dw
      OBVIOUS
    <3> QED BY <3>1, <3>2
  <2> QED BY <1>2, <2>1, <2>2, <2>3
<1>8. hist_sum_data_3' \in 0 .. 2^DataBits * 2^AddrBits - 1
  <2>1. PICK d \in Nat : d = hist_sum_data_2 /\ d < dw * aw
    <3>1. PICK all : all = dw * aw
      OBVIOUS
    <3>2. all \in Nat
      BY <3>1
    <3>3. all = 2^DataBits * 2^AddrBits
      BY <1>2, <3>1
    <3>4. hist_sum_data_2 \in 0 .. all - 1
      BY <3>3, Zenon DEF EquTypeOK
    <3>5. hist_sum_data_2 \in Nat /\ hist_sum_data_2 < all
      BY <3>2, <3>4
    <3> QED BY <3>1, <3>5
  <2>2. d \div PIX_TOTAL \in 0 .. d
    BY <1>2
  <2>3. PICK m \in Nat : m = 2^DataBits * 2^AddrBits /\ d < m
    <3>1. dw * aw \in Nat
      OBVIOUS
    <3> QED BY <1>2, <2>1, <3>1
  <2>4. d \div PIX_TOTAL \in 0 .. m - 1
    BY <2>2, <2>3
  <2>5. hist_sum_data_3' = d \div PIX_TOTAL
    BY <2>1 DEF EquClock, Scale
  <2> QED BY <2>3, <2>4, <2>5
<1>9. hist_map_ram' \in [Addr -> Addr] /\ hist_q' \in Addr
  <2>1. hist_sum_data_3 \in Nat
    BY <1>2 DEF EquTypeOK
  <2>2. hist_sum_data_3 % aw \in Addr
    BY <1>2, <2>1
  <2>3. hist_sum_addr[3] \in Addr /\ in_addr \in Addr /\ hist_map_ram \in [Addr -> Addr]
    BY DEF EquTypeOK, TypeOK
  <2> QED BY <1>2, <2>2, <2>3 DEF EquClock, MapRam, EquTypeOK
<1> QED BY <1>3, <1>4, <1>5, <1>6, <1>7, <1>8, <1>9 DEF EquTypeOK

(* The registers of the sweep, one by one.                                 *)
LEMMA StagesAre ==
  ASSUME EquTypeOK, EquClock
  PROVE  /\ (hist_sum_runn'[0] <=> ~hist_sum_done)
         /\ hist_sum_addr'[0] = IF hist_sum_done THEN 0 ELSE hist_addr
         /\ \A i \in 1 .. 3 : /\ (hist_sum_runn'[i] <=> hist_sum_runn[i - 1])
                              /\ hist_sum_addr'[i] = hist_sum_addr[i - 1]
         /\ \A i \in 0 .. 3 : hist_sum_addr[i] \in Addr
<1>1. hist_sum_runn' = [i \in 0 .. 3 |-> IF i = 0 THEN ~hist_sum_done ELSE hist_sum_runn[i - 1]]
  BY DEF EquClock, Scale
<1>2. hist_sum_addr' = [i \in 0 .. 3 |-> IF i > 0 THEN hist_sum_addr[i - 1]
                                         ELSE IF hist_sum_done THEN 0 ELSE hist_addr]
  BY DEF EquClock, Scale
<1>3. hist_sum_addr \in [0 .. 3 -> Addr]
  BY DEF EquTypeOK
<1>4. hist_sum_runn'[0] <=> ~hist_sum_done
  <2>1. hist_sum_runn'[0] = (~hist_sum_done)
    BY <1>1
  <2> QED BY <2>1, Zenon
<1>5. \A i \in 1 .. 3 : hist_sum_runn'[i] <=> hist_sum_runn[i - 1]
  <2>1. \A i \in 1 .. 3 : hist_sum_runn'[i] = hist_sum_runn[i - 1]
    BY <1>1
  <2> QED BY <2>1, Zenon
<1> QED BY <1>2, <1>3, <1>4, <1>5

LEMMA ClockInTime ==
  ASSUME HistIInv, EquTypeOK, SweepInTime, EquClock
  PROVE  SweepInTime'
<1> SUFFICES ASSUME whole'
    PROVE  /\ ~hist_sum_done' => since' <= hist_addr'
           /\ \A i \in 0 .. 3 : hist_sum_runn'[i] => since' <= 2^AddrBits + i
  BY DEF SweepInTime
<1>1. PICK en, addr : Clock(en, addr)
  BY EquIsClock
<1>2. PICK aw \in Nat \ {0} : aw = 2^AddrBits /\ Addr = 0 .. aw - 1 /\ Max_value = aw - 1
  BY EquNumbers
<1>3. since \in Nat /\ hist_addr \in 0 .. aw - 1 /\ hist_addr' \in 0 .. aw - 1
  <2>1. since \in Nat /\ hist_addr \in 0 .. aw - 1
    BY <1>2, HistRamAssumption DEF EquTypeOK, TypeOK
  <2> QED BY <1>2, <2>1 DEF EquClock, Sweep
<1>4. CASE flip
  <2>1. since' = 0
    BY <1>1, <1>4 DEF flip, Clock, Stream
  <2> QED BY <1>2, <1>3, <2>1
<1>5. CASE ~flip
  <2>1. /\ whole /\ since' \in 0 .. since + 1
        /\ hist_sum_done \/ hist_addr = Max_value => hist_sum_done'
        /\ ~hist_sum_done => hist_addr' = (hist_addr + 1) % aw
    <3>1. whole
      BY <1>1, <1>5, Zenon DEF Clock, History
    <3>2. since' \in 0 .. since + 1
      BY <1>1, <1>3 DEF Clock, Stream
    <3>3. hist_sum_done \/ hist_addr = Max_value => hist_sum_done'
      BY <1>5, Zenon DEF EquClock, Sweep
    <3>4. ~hist_sum_done => hist_addr' = (hist_addr + 1) % aw
      BY <1>2, <1>5 DEF EquClock, Sweep
    <3> QED BY <3>1, <3>2, <3>3, <3>4
  <2>2. ASSUME ~hist_sum_done' PROVE since' <= hist_addr'
    <3>1. ~hist_sum_done /\ hist_addr # aw - 1 /\ since <= hist_addr
      BY <1>2, <2>1, <2>2 DEF SweepInTime
    <3>2. (hist_addr + 1) % aw = hist_addr + 1
      BY <1>3, <3>1, RestIs
    <3> QED BY <1>3, <2>1, <3>1, <3>2
  <2>3. ASSUME NEW i \in 0 .. 3, hist_sum_runn'[i] PROVE since' <= aw + i
    <3>1. CASE i = 0
      <4>1. since <= hist_addr
        BY <2>1, <2>3, <3>1, StagesAre DEF SweepInTime
      <4> QED BY <1>3, <2>1, <3>1, <4>1
    <3>2. CASE i # 0
      <4>1. i \in 1 .. 3 /\ i - 1 \in 0 .. 3 /\ hist_sum_runn[i - 1]
        BY <2>3, <3>2, StagesAre
      <4>2. since <= aw + (i - 1)
        BY <1>2, <2>1, <4>1 DEF SweepInTime
      <4> QED BY <1>3, <2>1, <4>1, <4>2
    <3> QED BY <3>1, <3>2
  <2> QED BY <1>2, <2>2, <2>3
<1> QED BY <1>4, <1>5

(* A flip begins a new sweep with empty stages.                            *)
LEMMA FlipStages ==
  ASSUME HistIInv, EquTypeOK, SweepInTime, EquClock, flip, whole
  PROVE  StagesOK'
<1>1. hist_sum_done /\ \A i \in 0 .. 3 : ~hist_sum_runn[i]
  BY SweptBefore DEF HistIInv, BinsIInv, LegalStream
<1>2. /\ hist_sum_done' = FALSE /\ hist_addr' = 0
      /\ hist_sum_data_1' = 0
  <2>1. hist_sum_done' = FALSE
    BY Zenon DEF EquClock, Sweep
  <2>2. hist_addr' = 0
    BY DEF EquClock, Sweep
  <2>3. ~hist_sum_runn[0]
    BY <1>1
  <2>4. hist_sum_data_1' = 0
    BY <2>3 DEF EquClock, Scale
  <2> QED BY <2>1, <2>2, <2>4
<1>3. \A i \in 0 .. 3 : ~hist_sum_runn'[i]
  <2>1. ~hist_sum_runn'[0]
    BY <1>1, StagesAre
  <2>2. ASSUME NEW i \in 1 .. 3 PROVE ~hist_sum_runn'[i]
    <3>1. i - 1 \in 0 .. 3
      OBVIOUS
    <3> QED BY <1>1, <3>1, StagesAre
  <2>3. \A i \in 0 .. 3 : i = 0 \/ i \in 1 .. 3
    OBVIOUS
  <2> QED BY <2>1, <2>2, <2>3
<1>4. Issued' = 0
  BY <1>2 DEF Issued
<1> QED BY <1>2, <1>3, <1>4 DEF StagesOK

(* A stage hands on what the next one needs.                               *)
LEMMA ClockStages ==
  ASSUME HistIInv, EquTypeOK, EquTypeOK', EquClock, ~flip, StagesOK, Total(Backup) <= PIX_TOTAL
  PROVE  StagesOK'
<1>1. PICK aw \in Nat \ {0}, dw \in Nat \ {0} :
        /\ aw = 2^AddrBits /\ dw = 2^DataBits /\ Addr = 0 .. aw - 1 /\ Data = 0 .. dw - 1
        /\ Max_value = aw - 1 /\ Max_value \in Nat
        /\ PIX_TOTAL \in Nat \ {0} /\ PIX_TOTAL < dw
  BY EquNumbers
<1>2. PICK h \in [Addr -> Data] : h = Backup /\ h = Backup'
  BY BackupStays
<1>3. /\ ~hist_sum_done => hist_data' = h[hist_addr]
      /\ hist_addr \in 0 .. aw - 1 /\ hist_sum_done \in BOOLEAN
  BY <1>1, <1>2, BackupStays DEF EquTypeOK
<1>4. /\ (hist_sum_runn'[0] <=> ~hist_sum_done)
      /\ hist_sum_addr'[0] = IF hist_sum_done THEN 0 ELSE hist_addr
      /\ \A i \in 1 .. 3 : /\ (hist_sum_runn'[i] <=> hist_sum_runn[i - 1])
                           /\ hist_sum_addr'[i] = hist_sum_addr[i - 1]
      /\ \A i \in 0 .. 3 : hist_sum_addr[i] \in Addr
  BY StagesAre
<1>5. ASSUME NEW v \in Addr
      PROVE  /\ Sums(h, v) \in Nat /\ Sums(h, v) <= PIX_TOTAL
             /\ v = 0 => Sums(h, v) = h[v]
             /\ v > 0 => Sums(h, v) = Sums(h, v - 1) + h[v]
             /\ Sums(h, v) * Max_value \in Nat
             /\ Equalised(h, v) \in 0 .. aw - 1
             /\ Equalised(h, v) = (Sums(h, v) * Max_value) \div PIX_TOTAL
  <2>1. /\ Sums(h, v) \in Nat /\ Sums(h, v) <= PIX_TOTAL
        /\ v = 0 => Sums(h, v) = h[v]
        /\ v > 0 => Sums(h, v) = Sums(h, v - 1) + h[v]
    <3>1. Total(h) <= PIX_TOTAL
      BY <1>2
    <3>2. Total(h) \in Nat /\ Sums(h, v) \in Nat /\ Sums(h, v) <= Total(h)
      BY SumsAre
    <3>3. Sums(h, v) <= PIX_TOTAL
      BY <1>1, <3>1, <3>2
    <3> QED BY <3>2, <3>3, SumsAre
  <2>2. Equalised(h, v) = (Sums(h, v) * Max_value) \div PIX_TOTAL
    BY DEF Equalised, Sums
  <2>3. PICK s \in Nat : s = Sums(h, v) /\ s <= PIX_TOTAL
    BY <2>1
  <2>4. s * Max_value \in Nat /\ (s * Max_value) \div PIX_TOTAL \in 0 .. Max_value
    BY <1>1, <2>3, Scaled
  <2> QED BY <1>1, <2>1, <2>2, <2>3, <2>4
<1>6. Issued' = (IF hist_sum_done THEN aw ELSE hist_addr + 1)
      /\ (~hist_sum_done' => hist_addr' > 0)
      /\ (hist_sum_done => hist_sum_done')
  <2>0. /\ hist_sum_done \/ hist_addr = Max_value => hist_sum_done'
        /\ hist_sum_done' => hist_sum_done \/ hist_addr = Max_value
        /\ ~hist_sum_done => hist_addr' = (hist_addr + 1) % aw
    <3>1. /\ hist_sum_done \/ hist_addr = Max_value => hist_sum_done'
          /\ hist_sum_done' => hist_sum_done \/ hist_addr = Max_value
      BY Zenon DEF EquClock, Sweep
    <3>2. ~hist_sum_done => hist_addr' = (hist_addr + 1) % aw
      BY <1>1 DEF EquClock, Sweep
    <3> QED BY <3>1, <3>2
  <2>1. CASE hist_sum_done
    BY <1>1, <2>0, <2>1 DEF Issued
  <2>2. CASE ~hist_sum_done /\ hist_addr = aw - 1
    BY <1>1, <2>0, <2>2 DEF Issued
  <2>3. CASE ~hist_sum_done /\ hist_addr # aw - 1
    <3>1. (hist_addr + 1) % aw = hist_addr + 1
      BY <1>3, <2>3, RestIs
    <3> QED BY <1>1, <1>3, <2>0, <2>3, <3>1 DEF Issued
  <2> QED BY <2>1, <2>2, <2>3
<1>7. /\ ~hist_sum_done' => (hist_sum_runn'[0] <=> hist_addr' > 0)
      /\ hist_sum_runn'[0] =>
           /\ hist_sum_addr'[0] = Issued' - 1
           /\ hist_data' = h[hist_sum_addr'[0]]
           /\ hist_sum_addr'[0] = IF hist_sum_runn'[1] THEN hist_sum_addr'[1] + 1 ELSE 0
  <2>1. 1 \in 1 .. 3 /\ (hist_sum_runn'[1] <=> hist_sum_runn[0])
        /\ hist_sum_addr'[1] = hist_sum_addr[0]
    BY <1>4
  <2>2. ~hist_sum_done => hist_addr = IF hist_sum_runn[0] THEN hist_sum_addr[0] + 1 ELSE 0
    <3> SUFFICES ASSUME ~hist_sum_done
                 PROVE  hist_addr = IF hist_sum_runn[0] THEN hist_sum_addr[0] + 1 ELSE 0
      OBVIOUS
    <3>1. hist_sum_runn[0] <=> hist_addr > 0
      BY DEF StagesOK
    <3>2. hist_sum_runn[0] => hist_sum_addr[0] = hist_addr - 1
      BY DEF StagesOK, Issued
    <3>3. hist_addr \in Nat
      BY <1>3
    <3> QED BY <3>1, <3>2, <3>3
  <2>3. ~hist_sum_done' => ~hist_sum_done /\ hist_sum_runn'[0] /\ hist_addr' > 0
    BY <1>4, <1>6
  <2>4. hist_sum_runn'[0] =>
          /\ hist_sum_addr'[0] = hist_addr /\ Issued' = hist_addr + 1
          /\ hist_data' = h[hist_addr]
    BY <1>3, <1>4, <1>6
  <2>5. hist_addr \in Nat
    BY <1>3
  <2> QED BY <1>4, <2>1, <2>2, <2>3, <2>4, <2>5
<1>8. hist_sum_data_1' = IF hist_sum_runn'[1] THEN Sums(h, hist_sum_addr'[1]) ELSE 0
  <2>1. (hist_sum_runn'[1] <=> hist_sum_runn[0]) /\ hist_sum_addr'[1] = hist_sum_addr[0]
    BY <1>4
  <2>2. CASE ~hist_sum_runn[0]
    BY <2>1, <2>2 DEF EquClock, Scale
  <2>3. CASE hist_sum_runn[0]
    <3>1. PICK v \in Addr : v = hist_sum_addr[0]
      BY <1>4
    <3>2. hist_sum_data_1 + hist_data = Sums(h, v)
      <4>1. CASE hist_sum_runn[1]
        <5>1. hist_sum_data_1 = Sums(h, hist_sum_addr[1]) /\ v = hist_sum_addr[1] + 1
              /\ hist_data = h[v] /\ hist_sum_addr[1] \in Nat
          BY <1>1, <1>2, <1>4, <2>3, <3>1, <4>1 DEF StagesOK
        <5>2. v > 0 /\ v - 1 = hist_sum_addr[1]
          BY <5>1
        <5> QED BY <1>5, <5>1, <5>2
      <4>2. CASE ~hist_sum_runn[1]
        <5>1. hist_sum_data_1 = 0 /\ v = 0 /\ hist_data = h[v] /\ h[v] \in Nat
          BY <1>1, <1>2, <2>3, <3>1, <4>2 DEF StagesOK
        <5> QED BY <1>5, <5>1
      <4> QED BY <4>1, <4>2
    <3>3. Sums(h, v) \in 0 .. dw - 1
      <4>1. Sums(h, v) \in Nat /\ Sums(h, v) <= PIX_TOTAL
        BY <1>5
      <4> QED BY <1>1, <4>1
    <3>4. Sums(h, v) % dw = Sums(h, v)
      BY <3>3, RestIs
    <3> QED BY <1>1, <2>1, <2>3, <3>1, <3>2, <3>4 DEF EquClock, Scale
  <2> QED BY <2>2, <2>3
<1>9. hist_sum_runn'[2] => hist_sum_data_2' = Sums(h, hist_sum_addr'[2]) * Max_value
  <2>1. (hist_sum_runn'[2] <=> hist_sum_runn[1]) /\ hist_sum_addr'[2] = hist_sum_addr[1]
    BY <1>4
  <2> QED BY <1>2, <2>1 DEF EquClock, Scale, StagesOK
<1>10. hist_sum_runn'[3] => hist_sum_data_3' = Equalised(h, hist_sum_addr'[3])
  <2>1. (hist_sum_runn'[3] <=> hist_sum_runn[2]) /\ hist_sum_addr'[3] = hist_sum_addr[2]
        /\ hist_sum_addr[2] \in Addr
    BY <1>4
  <2> QED BY <1>2, <1>5, <2>1 DEF EquClock, Scale, StagesOK
<1>11. ASSUME NEW a \in 0 .. Issued' - 1
       PROVE  InStage(a)' \/ hist_map_ram'[a] = Equalised(h, a)
  <2>1. a \in Addr /\ (a \in 0 .. Issued - 1 \/ (~hist_sum_done /\ a = hist_addr))
    BY <1>1, <1>3, <1>6 DEF Issued
  <2>2. CASE ~hist_sum_done /\ a = hist_addr
    <3>1. hist_sum_runn'[0] /\ hist_sum_addr'[0] = a /\ 0 \in 0 .. 3
      BY <1>4, <2>2
    <3> QED BY <3>1 DEF InStage
  <2>3. CASE \E i \in 0 .. 2 : hist_sum_runn[i] /\ hist_sum_addr[i] = a
    <3>1. PICK i \in 0 .. 2 : hist_sum_runn[i] /\ hist_sum_addr[i] = a
      BY <2>3
    <3>2. i + 1 \in 1 .. 3 /\ (i + 1) - 1 = i /\ i + 1 \in 0 .. 3
      OBVIOUS
    <3>3. hist_sum_runn'[i + 1] /\ hist_sum_addr'[i + 1] = a
      BY <1>4, <3>1, <3>2
    <3> QED BY <3>2, <3>3 DEF InStage
  <2>4. CASE hist_sum_runn[3] /\ hist_sum_addr[3] = a
    <3>1. hist_sum_data_3 = Equalised(h, a)
      BY <1>2, <2>4 DEF StagesOK
    <3>2. hist_sum_data_3 % aw = Equalised(h, a)
      BY <1>5, <2>1, <3>1, RestIs
    <3>3. hist_map_ram' = [hist_map_ram EXCEPT ![a] = hist_sum_data_3 % 2^AddrBits]
      BY <2>4 DEF EquClock, MapRam
    <3> QED BY <1>1, <2>1, <3>2, <3>3 DEF EquTypeOK
  <2>5. CASE a \in 0 .. Issued - 1 /\ ~InStage(a)
    <3>1. hist_map_ram[a] = Equalised(h, a)
      BY <1>2, <2>5 DEF StagesOK
    <3>2. ~(hist_sum_runn[3] /\ hist_sum_addr[3] = a)
      BY <2>5 DEF InStage
    <3>3. hist_map_ram'[a] = hist_map_ram[a]
      BY <2>1, <3>2 DEF EquClock, MapRam, EquTypeOK
    <3> QED BY <3>1, <3>3
  <2>6. \A i \in 0 .. 3 : i \in 0 .. 2 \/ i = 3
    OBVIOUS
  <2> QED BY <2>1, <2>2, <2>3, <2>4, <2>5, <2>6 DEF InStage
<1> QED BY <1>2, <1>7, <1>8, <1>9, <1>10, <1>11 DEF StagesOK, hist_data

LEMMA ClockSweeps ==
  ASSUME HistIInv, EquTypeOK, SweepInTime, SweepOK, EquClock, EquTypeOK'
  PROVE  SweepOK'
<1> SUFFICES ASSUME bak_whole', Total(Backup)' <= PIX_TOTAL PROVE StagesOK'
  BY DEF SweepOK
<1>1. PICK en, addr : Clock(en, addr)
  BY EquIsClock
<1>2. CASE flip
  <2>1. whole
    BY <1>1, <1>2 DEF Clock, History
  <2> QED BY <1>2, <2>1, FlipStages
<1>3. CASE ~flip
  <2>1. bak_whole /\ Total(Backup) <= PIX_TOTAL
    <3>1. bak_whole' = bak_whole /\ Backup' = Backup
      BY <1>3, BackupStays
    <3> QED BY <3>1 DEF Total
  <2> QED BY <1>3, <2>1, ClockStages DEF SweepOK
<1> QED BY <1>2, <1>3

(* A pixel finds the stages empty and the sweep complete.                  *)
LEMMA ClockMaps ==
  ASSUME HistIInv, EquTypeOK, SweepInTime, SweepOK, bak_whole => whole, EquClock
  PROVE  PixelsEqualised'
<1> SUFFICES ASSUME cur_rden_r', bak_whole', Total(Backup)' <= PIX_TOTAL
             PROVE  hist_q' = Equalised(Backup, cur_rdaddr_r)'
  BY DEF PixelsEqualised, Backup
<1>1. PICK en, addr : Clock(en, addr)
  BY EquIsClock
<1>2. in_valid /\ cur_rdaddr_r' = in_addr
  BY <1>1 DEF Clock, Pipe
<1>3. ~flip /\ since >= Porch /\ in_addr \in Addr
  BY <1>2 DEF flip, HistIInv, BinsIInv, LegalStream, BinTypes
<1>4. bak_whole' = bak_whole /\ Backup' = Backup
  BY <1>3, BackupStays
<1>5. StagesOK
  BY <1>4 DEF SweepOK, Total
<1>6. hist_sum_done /\ \A i \in 0 .. 3 : ~hist_sum_runn[i]
  BY <1>3, <1>4, SweptBefore
<1>7. in_addr \in 0 .. Issued - 1 /\ ~InStage(in_addr)
  <2>1. PICK aw \in Nat \ {0} : aw = 2^AddrBits /\ Addr = 0 .. aw - 1
    BY EquNumbers
  <2> QED BY <1>3, <1>6, <2>1 DEF Issued, InStage
<1>8. hist_map_ram[in_addr] = Equalised(Backup, in_addr)
  BY <1>5, <1>7 DEF StagesOK
<1>9. hist_q' = hist_map_ram[in_addr]
  BY <1>2 DEF EquClock, MapRam
<1> QED BY <1>2, <1>4, <1>8, <1>9 DEF Equalised

-----------------------------------------------------------------------------
(* The statistics.                                                         *)

LEMMA WindowIs ==
  ASSUME StatsOK
  PROVE  /\ window \in SUBSET Addr /\ IsFiniteSet(window) /\ window \cap Idle \subseteq {0}
         /\ window \subseteq Nat
<1>1. window \in SUBSET Addr /\ window \cap Idle \subseteq {0}
  BY StatsAssumption DEF StatsOK
<1>2. Addr \subseteq Nat
  BY WidthsAre
<1> QED BY <1>1, <1>2, AddressesFinite

(* An edge that adds to the sums: the counts of the frame go on with them. *)
LEMMA ClockAdds ==
  ASSUME HistIInv, EquTypeOK, StatsOK, EquClock, Stats!Clock, HistIInv',
         whole, ~prev_flip_trigger, ~in_flip_trigger
  PROVE  /\ tmp_cnt' = SumFunctionOnSet(pixels', window)
         /\ tmp_sum' = SumFunctionOnSet(Weighed(pixels'), window)
         /\ tmp_cnt' <= sent' /\ tmp_sum' <= Max_value * sent'
         /\ tmp_cnt' \in Nat /\ tmp_sum' \in Nat
<1>1. PICK en, addr : Clock(en, addr)
  BY EquIsClock
<1>2. PICK ow \in Nat \ {0} : /\ ow = 2^OUT_BITS /\ MaxPixels < ow /\ MaxPixels * Max_value < ow
                              /\ MaxPixels \in Nat
  BY StatsAssumption, HistRamAssumption
<1>3. PICK M \in Nat : M = Max_value /\ Addr = 0 .. M
  BY EquNumbers
<1>4. /\ window \in SUBSET Addr /\ IsFiniteSet(window)
      /\ tmp_cnt = SumFunctionOnSet(pixels, window)
      /\ tmp_sum = SumFunctionOnSet(Weighed(pixels), window)
      /\ tmp_cnt \in Nat /\ tmp_sum \in Nat /\ sent \in Nat
      /\ tmp_cnt <= sent /\ tmp_sum <= M * sent
      /\ pixels \in [Addr -> Nat] /\ in_addr \in Addr
  BY <1>3, WindowIs DEF StatsOK, HistIInv, BinsIInv, BinTypes
<1>5. ~flip /\ stat_vsync = FALSE
  BY DEF flip, StatsOK
<1>6. CASE in_valid /\ in_addr \in window
  <2>1. /\ pixels' = [pixels EXCEPT ![in_addr] = @ + 1] /\ sent' = sent + 1
        /\ sent < MaxPixels
    BY <1>1, <1>5, <1>6 DEF Clock, Stream, HistIInv, BinsIInv, LegalStream
  <2>2. tmp_cnt' = (tmp_cnt + 1) % ow /\ tmp_sum' = (tmp_sum + in_addr) % ow
    BY <1>2, <1>5, <1>6 DEF Stats!Clock, Stats!Sum, Stats!frame_start
  <2>3. PICK a \in window : a = in_addr /\ a \in 0 .. M
    BY <1>3, <1>4, <1>6
  <2>4. SumFunctionOnSet(pixels', window) = tmp_cnt + 1
    <3>1. PICK g : g = pixels'
      OBVIOUS
    <3>2. /\ g[a] = pixels[a] + 1 /\ \A i \in window \ {a} : g[i] = pixels[i]
          /\ \A i \in window : pixels[i] \in Int
      BY <1>4, <2>1, <2>3, <3>1
    <3>3. SumFunctionOnSet(g, window) = SumFunctionOnSet(pixels, window) + 1
      BY <1>4, <3>2, SumCounts
    <3> QED BY <1>4, <3>1, <3>3
  <2>5. SumFunctionOnSet(Weighed(pixels'), window) = tmp_sum + a
    <3>1. PICK g : g = Weighed(pixels')
      OBVIOUS
    <3>2. PICK f : f = Weighed(pixels)
      OBVIOUS
    <3>3. ASSUME NEW i \in window
          PROVE  f[i] \in Int /\ g[i] = IF i = a THEN f[i] + a ELSE f[i]
      <4>1. PICK c \in Nat : c = pixels[i] /\ i \in Nat
        BY <1>3, <1>4
      <4>2. pixels'[i] = IF i = a THEN c + 1 ELSE c
        BY <1>4, <2>1, <2>3, <4>1
      <4>3. f[i] = i * c /\ g[i] = i * pixels'[i]
        BY <3>1, <3>2, <4>1 DEF Weighed
      <4>4. i * (c + 1) = i * c + i /\ i * c \in Int
        BY <4>1
      <4> QED BY <4>2, <4>3, <4>4
    <3>4. SumFunctionOnSet(g, window) = SumFunctionOnSet(f, window) + a
      <4>1. a \in Int /\ a \in window /\ g[a] = f[a] + a
            /\ \A i \in window \ {a} : g[i] = f[i]
        BY <2>3, <3>3
      <4>2. \A i \in window : f[i] \in Int
        BY <3>3
      <4>3. PICK S : S = window
        OBVIOUS
      <4>4. PICK k \in Int : k = a
        BY <4>1
      <4>5. IsFiniteSet(S) /\ a \in S /\ g[a] = f[a] + k
            /\ (\A i \in S \ {a} : g[i] = f[i]) /\ \A i \in S : f[i] \in Int
        BY <1>4, <4>1, <4>2, <4>3, <4>4
      <4>6. SumFunctionOnSet(g, S) = SumFunctionOnSet(f, S) + k
        BY <4>5, SumCounts
      <4> QED BY <4>3, <4>4, <4>6
    <3> QED BY <1>4, <3>1, <3>2, <3>4
  <2>6. tmp_cnt + 1 \in 0 .. ow - 1 /\ tmp_cnt + 1 <= sent'
    BY <1>2, <1>4, <2>1
  <2>7. tmp_sum + a \in 0 .. ow - 1 /\ tmp_sum + a <= M * sent'
    <3>1. M * (sent + 1) = M * sent + M /\ M * sent \in Nat
      BY <1>4
    <3>2. tmp_sum + a <= M * (sent + 1)
      BY <1>4, <2>3, <3>1
    <3>3. M * (sent + 1) <= MaxPixels * M
      <4>1. (sent + 1) * M <= MaxPixels * M \/ MaxPixels = 0
        <5>1. sent + 1 \in Nat /\ sent + 1 <= MaxPixels
          BY <1>2, <1>4, <2>1
        <5> QED BY <1>2, <5>1, Scaled
      <4>2. MaxPixels # 0 /\ (sent + 1) * M = M * (sent + 1)
        BY <1>2, <1>4, <2>1
      <4> QED BY <4>1, <4>2
    <3>4. PICK m \in Nat : m = M * (sent + 1)
      BY <3>1, <1>4
    <3>5. PICK n \in Nat : n = MaxPixels * M /\ n < ow
      BY <1>2, <1>3
    <3>6. m <= n /\ tmp_sum + a <= m
      BY <3>2, <3>3, <3>4, <3>5
    <3>7. tmp_sum + a \in 0 .. ow - 1
      BY <1>4, <2>3, <3>5, <3>6
    <3> QED BY <2>1, <3>2, <3>7
  <2>8. tmp_cnt' = tmp_cnt + 1 /\ tmp_sum' = tmp_sum + a
    BY <2>2, <2>3, <2>6, <2>7, RestIs
  <2> QED BY <1>3, <1>4, <2>3, <2>4, <2>5, <2>6, <2>7, <2>8
<1>7. CASE ~(in_valid /\ in_addr \in window)
  <2>1. tmp_cnt' = tmp_cnt /\ tmp_sum' = tmp_sum
    BY <1>5, <1>7 DEF Stats!Clock, Stats!Sum, Stats!frame_start, Stats!sums
  <2>2. ASSUME NEW i \in window PROVE pixels'[i] = pixels[i]
    BY <1>1, <1>4, <1>5, <1>7 DEF Clock, Stream
  <2>3. sent' \in Nat /\ sent <= sent'
    BY <1>1, <1>4, <1>5 DEF Clock, Stream
  <2>4. SumFunctionOnSet(pixels', window) = SumFunctionOnSet(pixels, window)
    <3>1. PICK g : g = pixels'
      OBVIOUS
    <3> QED BY <1>4, <2>2, <3>1, SumSame
  <2>5. SumFunctionOnSet(Weighed(pixels'), window) = SumFunctionOnSet(Weighed(pixels), window)
    <3>1. Weighed(pixels') = Weighed(pixels)
      BY <2>2 DEF Weighed
    <3> QED BY <3>1
  <2>6. tmp_sum <= M * sent'
    <3>1. PICK s \in Nat, n \in Nat : s = sent /\ n = sent' /\ s <= n
      BY <1>4, <2>3
    <3>2. PICK d \in Nat : n = s + d
      BY <3>1
    <3>3. M * (s + d) = M * s + M * d /\ M * s \in Nat /\ M * d \in Nat
      OBVIOUS
    <3> QED BY <1>4, <3>1, <3>2, <3>3
  <2> QED BY <1>3, <1>4, <2>1, <2>3, <2>4, <2>5, <2>6
<1> QED BY <1>6, <1>7

LEMMA ClockStats ==
  ASSUME HistIInv, EquTypeOK, StatsOK, EquClock, Stats!Clock, HistIInv'
  PROVE  StatsOK'
<1>1. PICK en, addr : Clock(en, addr)
  BY EquIsClock
<1>2. /\ in_addr \in Addr /\ pixels \in [Addr -> Nat] /\ sent \in Nat /\ Porch \in Nat /\ Porch > 0
      /\ Max_value \in Nat /\ Addr \subseteq Nat
      /\ window \in SUBSET Addr /\ IsFiniteSet(window)
  <2>1. Porch \in Nat /\ Porch > 0 /\ Max_value \in Nat /\ Addr \subseteq Nat
    <3>1. PICK aw \in Nat \ {0} : /\ Addr = 0 .. aw - 1 /\ Max_value = aw - 1
                                  /\ Porch \in Nat /\ Porch >= aw + 4
      BY EquNumbers
    <3> QED BY <3>1
  <2> QED BY <2>1, WindowIs DEF HistIInv, BinsIInv, BinTypes
<1>3. stat_vsync' = prev_flip_trigger' /\ window' = window /\ window' \in Windows
  BY <1>1 DEF Clock, Banks, Stats!Clock, StatsOK
<1>4. prev_flip_trigger => ~in_valid /\ since = 0 /\ \A a \in Addr : pixels[a] = 0
  <2>1. in_valid => since >= Porch
    BY DEF HistIInv, BinsIInv, LegalStream
  <2>2. prev_flip_trigger => since = 0 /\ \A a \in Addr : pixels[a] = 0
    BY DEF StatsOK
  <2>3. Porch \in Nat /\ Porch > 0
    BY <1>2
  <2> QED BY <2>1, <2>2, <2>3
<1>5. tmp_cnt' \in Nat /\ tmp_sum' \in Nat
  <2>1. PICK ow \in Nat \ {0} : ow = 2^OUT_BITS
    BY StatsAssumption
  <2>2. tmp_cnt \in Nat /\ tmp_sum \in Nat /\ in_addr \in Nat
    BY <1>2 DEF StatsOK
  <2>3. (tmp_cnt + 1) % ow \in Nat /\ (tmp_sum + in_addr) % ow \in Nat
    BY <2>2
  <2> QED BY <2>1, <2>2, <2>3 DEF Stats!Clock, Stats!Sum, Stats!sums
<1>6. prev_flip_trigger' => since' = 0 /\ \A a \in Addr : pixels'[a] = 0
  <2> SUFFICES ASSUME in_flip_trigger PROVE since' = 0 /\ \A a \in Addr : pixels'[a] = 0
    BY <1>1 DEF Clock, Banks
  <2>1. since' = 0
    BY <1>1 DEF Clock, Stream
  <2>2. CASE flip
    BY <1>1, <2>1, <2>2 DEF Clock, Stream
  <2>3. CASE ~flip
    <3>1. prev_flip_trigger
      BY <2>3 DEF flip
    <3> QED BY <1>1, <1>4, <2>1, <2>3, <3>1 DEF Clock, Stream
  <2> QED BY <2>2, <2>3
<1>7. ASSUME whole', ~prev_flip_trigger'
      PROVE  /\ tmp_cnt' = SumFunctionOnSet(pixels', window)
             /\ tmp_sum' = SumFunctionOnSet(Weighed(pixels'), window)
             /\ tmp_cnt' <= sent' /\ tmp_sum' <= Max_value * sent'
  <2>1. ~in_flip_trigger /\ ~flip
    BY <1>1, <1>7 DEF Clock, Banks, flip
  <2>2. whole
    BY <1>1, <1>7, <2>1, Zenon DEF Clock, History
  <2>3. CASE ~prev_flip_trigger
    BY <2>1, <2>2, <2>3, ClockAdds
  <2>4. CASE prev_flip_trigger
    <3>1. pixels' = pixels /\ sent' = sent
      BY <1>1, <1>4, <2>1, <2>4 DEF Clock, Stream
    <3>2. tmp_cnt' = 0 /\ tmp_sum' = 0
      BY <2>1, <2>4 DEF Stats!Clock, Stats!Sum, Stats!frame_start, StatsOK
    <3>3. SumFunctionOnSet(pixels, window) = 0
      <4>1. \A i \in window : pixels[i] = 0
        BY <1>2, <1>4, <2>4
      <4> QED BY <1>2, <4>1, SumZero
    <3>4. SumFunctionOnSet(Weighed(pixels), window) = 0
      <4>1. PICK f : f = Weighed(pixels)
        OBVIOUS
      <4>2. \A i \in window : f[i] = 0
        BY <1>2, <1>4, <2>4, <4>1 DEF Weighed
      <4> QED BY <1>2, <4>1, <4>2, SumZero
    <3>5. Max_value * sent >= 0
      BY <1>2
    <3> QED BY <1>2, <3>1, <3>2, <3>3, <3>4, <3>5
  <2> QED BY <2>3, <2>4
<1> QED BY <1>3, <1>5, <1>6, <1>7 DEF StatsOK, Weighed

(* At the flip, what was sent is what the sums and the new backup hold.    *)
LEMMA FlipPublishes ==
  ASSUME HistIInv, EquTypeOK, StatsOK, EquClock, Stats!Clock, flip, whole
  PROVE  SumsOfTheFrame'
<1>1. PICK en, addr : addr = hist_addr /\ Clock(en, addr)
  BY EquIsClock
<1>2. /\ pixels \in [Addr -> Nat] /\ sent <= MaxPixels /\ sent \in Nat /\ MaxPixels \in Nat
      /\ window \in SUBSET Addr /\ IsFiniteSet(window) /\ window \cap Idle \subseteq {0}
      /\ window \subseteq Nat /\ addr \in Addr /\ cur_ram \in 0 .. 1
  BY <1>1, WindowIs, HistRamAssumption DEF HistIInv, BinsIInv, BinTypes, LegalStream
<1>3. /\ tmp_cnt = SumFunctionOnSet(pixels, window)
      /\ tmp_sum = SumFunctionOnSet(Weighed(pixels), window)
      /\ tmp_cnt \in Nat /\ tmp_cnt <= sent
      /\ pix_cnt' = tmp_cnt /\ pix_sum' = tmp_sum /\ window' = window
  <2>1. in_flip_trigger /\ ~prev_flip_trigger /\ ~stat_vsync
    BY DEF flip, StatsOK
  <2> QED BY <2>1 DEF StatsOK, Stats!Clock, Stats!Publish, Stats!frame_end
<1>4. PICK h \in [Addr -> Data] : h = mem'[cur_ram] /\ mem'[bak_ram'] = h
  <2>1. cur_ram' = 1 - cur_ram
    BY <1>1 DEF Clock, Banks
  <2>2. bak_ram' = cur_ram
    BY <1>2, <2>1 DEF bak_ram
  <2>3. BinTypes'
    BY <1>1, <1>2, ClockBinTypes DEF HistIInv
  <2>4. mem' \in [0 .. 1 -> [Addr -> Data]]
    BY <2>3 DEF BinTypes
  <2> QED BY <1>2, <2>2, <2>4
<1>5. \A b \in Exact : h[b] = pixels[b]
  BY <1>1, <1>2, <1>4, Holds DEF HistIInv
<1>6. tmp_sum = SumFunctionOnSet([a \in window |-> a * h[a]], window)
  <2>1. PICK f : f = Weighed(pixels)
    OBVIOUS
  <2>2. PICK g : g = [a \in window |-> a * h[a]]
    OBVIOUS
  <2>3. ASSUME NEW a \in window PROVE f[a] = g[a]
    <3>1. f[a] = a * pixels[a] /\ g[a] = a * h[a]
      BY <2>1, <2>2 DEF Weighed
    <3>2. CASE a \in Exact
      BY <1>5, <3>1, <3>2
    <3>3. CASE a \notin Exact
      <4>1. a = 0
        BY <1>2, <3>3 DEF Exact
      <4>2. pixels[a] \in Int /\ h[a] \in Int
        BY <1>2, WidthsAre
      <4>3. 0 * pixels[a] = 0 /\ 0 * h[a] = 0
        BY <4>2
      <4> QED BY <3>1, <4>1, <4>3
    <3> QED BY <3>2, <3>3
  <2> QED BY <1>2, <1>3, <2>1, <2>2, <2>3, SumSame
<1>7. PICK rest \in Nat : /\ rest = SumFunctionOnSet(h, window \ Idle)
                          /\ rest = SumFunctionOnSet(pixels, window \ Idle)
                          /\ rest <= tmp_cnt
  <2>1. /\ IsFiniteSet(window \ Idle) /\ window \ Idle \in SUBSET window
        /\ window \ Idle \subseteq Exact
        /\ \A i \in window : pixels[i] \in Nat
    BY <1>2, FS_Subset DEF Exact
  <2>2. SumFunctionOnSet(h, window \ Idle) = SumFunctionOnSet(pixels, window \ Idle)
    <3>1. \A i \in window \ Idle : h[i] = pixels[i]
      BY <1>5, <2>1
    <3>2. PICK S : S = window \ Idle
      OBVIOUS
    <3> QED BY <2>1, <3>1, <3>2, SumSame
  <2>3. SumFunctionOnSet(pixels, window \ Idle) <= SumFunctionOnSet(pixels, window)
    BY <1>2, <2>1, SumOfPart
  <2>4. SumFunctionOnSet(pixels, window \ Idle) \in Nat
    <3>1. PICK S : S = window \ Idle
      OBVIOUS
    <3>2. \A i \in S : pixels[i] \in Int /\ pixels[i] >= 0
      BY <2>1, <3>1
    <3>3. SumFunctionOnSet(pixels, S) \in Int /\ SumFunctionOnSet(pixels, S) >= 0
      BY <2>1, <3>1, <3>2, SumType
    <3> QED BY <3>1, <3>3
  <2> QED BY <1>3, <2>2, <2>3, <2>4
<1>8. tmp_cnt - rest \in IF window \cap Idle = {} THEN {0} ELSE 0 .. MaxPixels
  <2>1. CASE window \cap Idle = {}
    <3>1. window \ Idle = window
      BY <2>1
    <3> QED BY <1>3, <1>7, <2>1, <3>1
  <2>2. CASE window \cap Idle # {}
    BY <1>2, <1>3, <1>7, <2>2
  <2> QED BY <2>1, <2>2
<1> QED BY <1>3, <1>4, <1>6, <1>7, <1>8 DEF SumsOfTheFrame

LEMMA ClockPublishes ==
  ASSUME HistIInv, EquTypeOK, StatsOK, SumsOfTheFrame, EquClock, Stats!Clock
  PROVE  SumsOfTheFrame'
<1>1. PICK en, addr : Clock(en, addr)
  BY EquIsClock
<1>2. CASE flip /\ whole
  BY <1>2, FlipPublishes
<1>3. CASE flip /\ ~whole
  <2>1. ~bak_whole'
    BY <1>1, <1>3 DEF Clock, History
  <2> QED BY <2>1 DEF SumsOfTheFrame
<1>4. CASE ~flip
  <2>1. bak_whole' = bak_whole /\ mem'[bak_ram'] = mem[bak_ram]
    BY <1>4, BackupStays DEF Backup
  <2>2. pix_cnt' = pix_cnt /\ pix_sum' = pix_sum /\ window' = window
    BY <1>4 DEF flip, StatsOK, Stats!Clock, Stats!Publish, Stats!frame_end
  <2> QED BY <2>1, <2>2 DEF SumsOfTheFrame
<1> QED BY <1>2, <1>3, <1>4

LEMMA ResetKeepsEqu ==
  ASSUME EquIInv, EquReset, Stats!Reset, HistIInv'
  PROVE  EquIInv'
<1>1. /\ Reset /\ ~whole' /\ ~bak_whole' /\ ~prev_flip_trigger'
      /\ sent' = sent /\ pixels' = pixels /\ resets' \in 0 .. MaxResets
  BY HistRamAssumption DEF EquReset, Reset, stream_vars, EquIInv, EquTypeOK, TypeOK
<1>2. TypeOK'
  <2>1. sent' = Total(pixels')
    BY <1>1 DEF EquIInv, EquTypeOK, TypeOK, Total
  <2>2. BinTypes' /\ LegalStream'
    BY DEF HistIInv, BinsIInv
  <2> QED BY <1>1, <2>1, <2>2, Zenon DEF TypeOK, BinTypes, LegalStream, Total
<1>3. EquTypeOK'
  <2>1. PICK aw \in Nat \ {0}, dw \in Nat \ {0} : aw = 2^AddrBits /\ dw = 2^DataBits
                                                /\ 0 \in Addr /\ 0 \in Data
    BY EquNumbers
  <2>2. hist_sum_done' = FALSE /\ hist_sum_runn' = [i \in 0 .. 3 |-> FALSE]
    BY DEF EquReset
  <2>3. hist_sum_done' \in BOOLEAN /\ hist_sum_runn' \in [0 .. 3 -> BOOLEAN]
    BY <2>2
  <2>4. /\ hist_addr' \in Addr /\ hist_sum_addr' \in [0 .. 3 -> Addr]
        /\ hist_sum_data_1' \in Data
        /\ hist_map_ram' \in [Addr -> Addr] /\ hist_q' \in Addr
    BY <2>1 DEF EquReset, EquIInv, EquTypeOK
  <2>5. PICK n \in Nat \ {0} : n = 2^DataBits * 2^AddrBits
    <3>1. dw * aw \in Nat \ {0}
      OBVIOUS
    <3> QED BY <2>1, <3>1
  <2>6. /\ hist_sum_data_2' \in 0 .. 2^DataBits * 2^AddrBits - 1
        /\ hist_sum_data_3' \in 0 .. 2^DataBits * 2^AddrBits - 1
    BY <2>5 DEF EquReset
  <2> QED BY <1>2, <2>3, <2>4, <2>6 DEF EquTypeOK
<1>4. SweepInTime' /\ SweepOK' /\ PixelsEqualised' /\ SumsOfTheFrame'
  BY <1>1 DEF SweepInTime, SweepOK, PixelsEqualised, SumsOfTheFrame
<1>5. StatsOK'
  <2>1. stat_vsync' = FALSE /\ prev_flip_trigger' = FALSE
        /\ tmp_cnt' = 0 /\ tmp_sum' = 0 /\ window' = window
    BY DEF Stats!Reset, EquReset, Reset
  <2> QED BY <1>1, <2>1 DEF StatsOK, EquIInv
<1> QED BY <1>1, <1>3, <1>4, <1>5 DEF EquIInv

LEMMA InitEquIInv == VideoInit /\ HistIInv => EquIInv
<1> SUFFICES ASSUME VideoInit, HistIInv PROVE EquIInv
  OBVIOUS
<1>1. Init /\ EquInit /\ Stats!Init
  BY DEF VideoInit, EquInit
<1>2. sent = 0 /\ pixels = [a \in Addr |-> 0] /\ resets = 0
      /\ ~whole /\ ~bak_whole /\ prev_flip_trigger = FALSE
  BY <1>1 DEF Init
<1>3. TypeOK
  <2>1. sent = Total(pixels)
    <3>1. \A i \in Addr : pixels[i] = 0
      BY <1>2
    <3> QED BY <1>2, <3>1, AddressesFinite, SumZero DEF Total
  <2>2. resets \in 0 .. MaxResets
    BY <1>2, HistRamAssumption
  <2>3. BinTypes /\ LegalStream
    BY DEF HistIInv, BinsIInv
  <2> QED BY <2>1, <2>2, <2>3, Zenon DEF TypeOK, BinTypes, LegalStream, Total
<1>4. EquTypeOK
  <2>1. PICK aw \in Nat \ {0}, dw \in Nat \ {0} : aw = 2^AddrBits /\ dw = 2^DataBits
                                                /\ 0 \in Addr /\ 0 \in Data
    BY EquNumbers
  <2>2. hist_sum_done = FALSE /\ hist_sum_runn = [i \in 0 .. 3 |-> FALSE]
    BY <1>1 DEF EquInit
  <2>3. hist_sum_done \in BOOLEAN /\ hist_sum_runn \in [0 .. 3 -> BOOLEAN]
    BY <2>2
  <2>4. /\ hist_addr \in Addr /\ hist_sum_addr \in [0 .. 3 -> Addr]
        /\ hist_sum_data_1 \in Data
        /\ hist_map_ram \in [Addr -> Addr] /\ hist_q \in Addr
    BY <1>1, <2>1 DEF EquInit
  <2>5. PICK n \in Nat \ {0} : n = 2^DataBits * 2^AddrBits
    <3>1. dw * aw \in Nat \ {0}
      OBVIOUS
    <3> QED BY <2>1, <3>1
  <2>6. /\ hist_sum_data_2 \in 0 .. 2^DataBits * 2^AddrBits - 1
        /\ hist_sum_data_3 \in 0 .. 2^DataBits * 2^AddrBits - 1
    BY <1>1, <2>5 DEF EquInit
  <2> QED BY <1>3, <2>3, <2>4, <2>6 DEF EquTypeOK
<1>5. SweepInTime /\ SweepOK /\ PixelsEqualised /\ SumsOfTheFrame
  BY <1>2 DEF SweepInTime, SweepOK, PixelsEqualised, SumsOfTheFrame
<1>6. StatsOK
  <2>1. stat_vsync = FALSE /\ tmp_cnt = 0 /\ tmp_sum = 0 /\ window \in Windows
    BY <1>1 DEF Stats!Init
  <2> QED BY <1>2, <2>1 DEF StatsOK
<1> QED BY <1>2, <1>4, <1>5, <1>6 DEF EquIInv

LEMMA IdleEqu ==
  ASSUME EquIInv, UNCHANGED allVars, UNCHANGED statistics
  PROVE  EquIInv'
<1>1. /\ UNCHANGED <<in_valid, in_flip_trigger, in_addr, since, pixels, sent>>
      /\ UNCHANGED <<prev_flip_trigger, cur_ram, cur_clr_done, cur_clr_addr>>
      /\ UNCHANGED <<cur_rden_r, cur_rdaddr_r, cur_wraddr_r, cur_data_r>>
      /\ UNCHANGED <<mem, q, whole, bak_whole, resets>>
      /\ UNCHANGED <<hist_sum_done, hist_addr, hist_sum_runn, hist_sum_addr>>
      /\ UNCHANGED <<hist_sum_data_1, hist_sum_data_2, hist_sum_data_3, hist_map_ram, hist_q>>
      /\ UNCHANGED <<window, stat_vsync, tmp_cnt, tmp_sum, pix_cnt, pix_sum>>
  BY DEF allVars, vars, stream_vars, bank_vars, pipe_vars, whole_vars, equ_vars, statistics
<1>2. UNCHANGED vars
  BY DEF allVars
<1>3. HistIInv'
  BY <1>1, <1>2, IdleBins DEF EquIInv, HistIInv
<1>4. EquTypeOK'
  BY <1>1 DEF EquIInv, EquTypeOK, TypeOK, Total
<1>5. SweepInTime' /\ PixelsEqualised' /\ SumsOfTheFrame'
  BY <1>1 DEF EquIInv, SweepInTime, PixelsEqualised, SumsOfTheFrame, bak_ram, Total, Equalised
<1>6. SweepOK'
  BY <1>1 DEF EquIInv, SweepOK, StagesOK, Backup, Total, bak_ram, Issued, hist_data, Sums,
     InStage, Equalised
<1>7. StatsOK'
  BY <1>1 DEF EquIInv, StatsOK, Weighed
<1> QED BY <1>1, <1>3, <1>4, <1>5, <1>6, <1>7 DEF EquIInv

LEMMA ClockKeepsEqu ==
  ASSUME EquIInv, EquClock, Stats!Clock, HistIInv'
  PROVE  EquIInv'
<1>1. HistIInv /\ EquTypeOK /\ SweepInTime /\ SweepOK /\ StatsOK /\ SumsOfTheFrame
  BY DEF EquIInv
<1>2. EquTypeOK' /\ SweepInTime'
  BY <1>1, ClockEquTypes, ClockInTime
<1>3. SweepOK'
  BY <1>1, <1>2, ClockSweeps
<1>4. PixelsEqualised'
  BY <1>1, ClockMaps DEF EquIInv
<1>5. StatsOK' /\ SumsOfTheFrame'
  BY <1>1, ClockStats, ClockPublishes
<1>6. bak_whole' => whole'
  <2>1. PICK en, addr : Clock(en, addr)
    BY EquIsClock
  <2> QED BY <2>1, Zenon DEF Clock, History, EquIInv
<1> QED BY <1>2, <1>3, <1>4, <1>5, <1>6 DEF EquIInv

(* The other parts of the image path do not touch the stream's.            *)
LEMMA NextEquIInv == ASSUME EquIInv, [VideoNext]_video PROVE EquIInv'
<1>1. HistIInv'
  BY NextHistIInv DEF EquIInv
<1>2. CASE EquClock /\ Stats!Clock
  BY <1>1, <1>2, ClockKeepsEqu
<1>3. CASE EquReset /\ Stats!Reset
  BY <1>1, <1>3, ResetKeepsEqu
<1>4. CASE UNCHANGED allVars /\ UNCHANGED statistics
  BY <1>4, IdleEqu
<1> QED BY <1>2, <1>3, <1>4 DEF VideoNext, video

(* SafeEqualisation of the run: for every width of the pixels and of the   *)
(* bins, every number of pixels of a frame and every set of values that    *)
(* the statistics count, with any gaps and resets: each pixel is mapped by *)
(* the complete table of the histogram of the frame before, and the sums   *)
(* that are published belong to that frame.                                *)
THEOREM EqualisationSound == VideoSpec => []SafeEqualisation
<1>1. VideoInit => EquIInv
  <2> SUFFICES ASSUME VideoInit PROVE EquIInv
    OBVIOUS
  <2>1. Init /\ hist_addr = 0 /\ 0 \in Addr
    BY WidthsAre DEF VideoInit, EquInit
  <2>2. HistIInv
    BY <2>1, InitBinsIInv DEF HistIInv
  <2> QED BY <2>2, InitEquIInv
<1>2. EquIInv => SafeEqualisation
  BY DEF EquIInv, SafeEqualisation
<1>3. EquIInv /\ [VideoNext]_video => EquIInv'
  BY NextEquIInv
<1> QED BY <1>1, <1>2, <1>3, PTL DEF VideoSpec
=============================================================================
