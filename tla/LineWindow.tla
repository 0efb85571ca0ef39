----------------------------- MODULE LineWindow -----------------------------
(***************************************************************************)
(* The stages of the ISP that look at the neighbours of a pixel:           *)
(* isp_bnr, isp_demosaic and isp_ee                                        *)
(* (src/prj_qsys/avalon_isp_lite/isp_lite), each with a shift_register     *)
(* (isp_utils.v) that keeps the lines before, a matrix of registers that   *)
(* the lines move through side by side, and, in the first two, the bits    *)
(* that tell which colour of the Bayer pattern is in the middle.  One      *)
(* Clock step is one posedge of pclk.                                      *)
(*                                                                         *)
(* A pixel's value is its place <<frame, row, column>>: what a stage       *)
(* computes from its matrix is left out, which pixels it computes it from  *)
(* is what the properties are about.  BAYER is 0, as in the Qsys system.   *)
(***************************************************************************)
EXTENDS Integers, Sequences

CONSTANTS
  Width, Lines,   \* the stream: lines of Width pixels, Lines of them
  Gaps,           \* clocks between two lines
  MaxResets,      \* bound
  Blank           \* in_raw between the lines: the stages drive zero

VARIABLES
  stage, gap,
  x, y, frame,                  \* the stream: clock in the line, line, parity of the frame
  pos_r, in_r, ram, line_out,   \* shift_register
  in_raw_r, p,                  \* the matrix, as a sequence of columns
  odd_pix, prev_href, odd_line,
  result, in_dly,
  aligned,                      \* history: a vsync has gone by since the reset
  resets

shift_register == <<pos_r, in_r, ram, line_out>>
matrix  == <<in_raw_r, p>>
parity  == <<odd_pix, prev_href, odd_line>>
outputs == <<result, in_dly>>
vars == <<stage, gap, x, y, frame, shift_register, matrix, parity, outputs, aligned, resets>>

(* Lines kept; whether the parities are used inverted; clocks from the     *)
(* matrix to the output; and DLY_CLK.                                      *)
Stage == {
  [name |-> "isp_bnr",      taps |-> 4, inverted |-> FALSE, clocks |-> 1, DLY_CLK |-> 5],
  [name |-> "isp_demosaic", taps |-> 2, inverted |-> TRUE,  clocks |-> 1, DLY_CLK |-> 4],
  [name |-> "isp_ee",       taps |-> 2, inverted |-> FALSE, clocks |-> 3, DLY_CLK |-> 6]}

Half == stage.taps \div 2
Side == 1 .. stage.taps + 1

in_href  == y < Lines /\ x < Width
in_vsync == y = Lines
in_raw   == IF in_href THEN <<frame, y, x>> ELSE Blank

RAM_SZ == Width - 1
(* The values pos_r can have: as many bits as RAM_SZ takes.                *)
Pos == 0 .. 2^(CHOOSE n \in 1 .. Width : 2^(n - 1) <= RAM_SZ /\ RAM_SZ < 2^n) - 1
pos == IF pos_r < RAM_SZ THEN pos_r ELSE RAM_SZ - 1

Empty == [i \in Side |-> [j \in Side |-> Blank]]
Nothing == [window |-> Empty, format |-> <<0, 0>>]

NoResult == [i \in 1 .. stage.clocks |-> Nothing]
NoInput == [i \in 1 .. stage.DLY_CLK |-> Blank]

(* The stream begins with a vsync; nothing resets the shift register.      *)
Init ==
  /\ stage \in Stage /\ gap \in Gaps
  /\ x = 0 /\ y = Lines /\ frame = 0
  /\ pos_r \in Pos /\ in_r = Blank
  /\ ram = [i \in 1 .. stage.taps |-> [a \in 0 .. RAM_SZ - 1 |-> Blank]]
  /\ line_out = [i \in 1 .. stage.taps |-> Blank]
  /\ in_raw_r = Blank /\ p = Empty
  /\ odd_pix = 0 /\ prev_href = FALSE /\ odd_line = 0
  /\ result = NoResult /\ in_dly = NoInput
  /\ aligned = FALSE /\ resets = 0

Stream ==
  /\ x' = (x + 1) % (Width + gap)
  /\ y' = IF x' = 0 THEN (y + 1) % (Lines + 2) ELSE y
  /\ frame' = IF y' = 0 /\ y # 0 THEN 1 - frame ELSE frame

Shift_Rewind ==            \* mutant: href low takes the position back to the start
  IF in_href THEN
    /\ pos_r' = IF pos_r < RAM_SZ - 1 THEN pos_r + 1 ELSE 0
    /\ in_r' = in_raw
    /\ ram' = [i \in 1 .. stage.taps |->
                 [ram[i] EXCEPT ![pos] = IF i = 1 THEN in_r ELSE line_out[i - 1]]]
    /\ line_out' = [i \in 1 .. stage.taps |-> ram[i][pos]]
  ELSE pos_r' = 0 /\ UNCHANGED <<in_r, ram, line_out>>

(* shift_register: clken is href, so that the RAMs, a word shorter than a  *)
(* line, go on from line to line; each is written what the one before it   *)
(* has read.                                                               *)
Shift ==
  IF in_href THEN
    /\ pos_r' = IF pos_r < RAM_SZ - 1 THEN pos_r + 1 ELSE 0
    /\ in_r' = in_raw
    /\ ram' = [i \in 1 .. stage.taps |->
                 [ram[i] EXCEPT ![pos] = IF i = 1 THEN in_r ELSE line_out[i - 1]]]
    /\ line_out' = [i \in 1 .. stage.taps |-> ram[i][pos]]
  ELSE UNCHANGED shift_register

(* A column enters the matrix, the oldest line on top.                     *)
Matrix ==
  /\ in_raw_r' = in_raw
  /\ p' = Append(Tail(p), [i \in Side |-> IF i > stage.taps THEN in_raw_r
                                          ELSE line_out[stage.taps + 1 - i]])

Parity ==
  /\ odd_pix' = IF in_href THEN 1 - odd_pix ELSE 0
  /\ prev_href' = in_href
  /\ odd_line' = IF in_vsync THEN 0
                 ELSE IF prev_href /\ ~in_href THEN 1 - odd_line ELSE odd_line

format == IF stage.inverted THEN <<1 - odd_line, 1 - odd_pix>> ELSE <<odd_line, odd_pix>>

(* The result of a matrix comes out clocks later; in_dly is href_dly, with *)
(* the pixel that raised href (in isp_ee its colour, u_dly and v_dly).     *)
Outputs ==
  /\ result' = Append(Tail(result), [window |-> p, format |-> format])
  /\ in_dly' = Append(Tail(in_dly), in_raw)

Clock ==
  /\ Stream /\ Shift /\ Matrix /\ Parity /\ Outputs
  /\ aligned' = (aligned \/ y > Lines)
  /\ UNCHANGED <<stage, gap, resets>>

(* rst_n, between any two clocks.                                          *)
Reset ==
  /\ resets < MaxResets /\ resets' = resets + 1
  /\ in_raw_r' = Blank /\ p' = Empty
  /\ odd_pix' = 0 /\ prev_href' = FALSE /\ odd_line' = 0
  /\ result' = NoResult /\ in_dly' = NoInput
  /\ aligned' = FALSE
  /\ UNCHANGED <<stage, gap, x, y, frame, shift_register>>

Next == Clock \/ Reset

Spec == Init /\ [][Next]_vars

-----------------------------------------------------------------------------
out_href == in_dly[1] # Blank

(* The output pixel stands for a place Half lines above the pixel that     *)
(* raised its href, in the same column; Inner: its window is inside the    *)
(* image.                                                                  *)
Row == in_dly[1][2] - Half
Column == in_dly[1][3]
Inner == /\ out_href /\ aligned
         /\ Half <= Row /\ Half <= Column /\ Column < Width - Half

Neighbours == [i \in Side |-> [j \in Side |->
                 <<in_dly[1][1], Row + j - Half - 1, Column + i - Half - 1>>]]

(* isp_bnr.v:33-196, isp_demosaic.v:34-193, isp_ee.v:35-138: an output     *)
(* pixel inside the image comes from exactly the pixels around its place,  *)
(* whatever the blanking, and where in its memory the shift register was.  *)
WindowsFit == Inner => result[1].window = Neighbours

(* isp_bnr.v:198-222: the kernel for red and blue is used on red and blue, *)
(* the other one on green.  isp_demosaic.v:69-99, 196: so is format the    *)
(* colour of the middle, but for the last column but one, see              *)
(* FormatNamesCentre.                                                      *)
ColoursFit ==
  Inner => CASE stage.name = "isp_bnr" ->
                  (result[1].format[1] = result[1].format[2]) <=> (Row % 2 = Column % 2)
             [] stage.name = "isp_demosaic" ->
                  Column = Width - 2 \/ result[1].format = <<Row % 2, Column % 2>>
             [] OTHER -> TRUE

(* isp_demosaic.v:196, 214, 232 says of format: 0:B 1:Gb 2:Gr 3:R.         *)
FormatNamesCentre ==
  stage.name = "isp_demosaic" /\ Inner => result[1].format = <<Row % 2, Column % 2>>
=============================================================================
