----------------------------- MODULE Histogram -----------------------------
(***************************************************************************)
(* What hist_ram (src/prj_qsys/avalon_isp_lite/isp_lite/isp_utils.v, line  *)
(* 250) promises to the logic that reads it: while one frame is counted,   *)
(* the histogram of the frame before it is published, and at the rising    *)
(* edge of vsync the two change places.  A frame that a reset cuts has no  *)
(* histogram: published is then Unknown until a whole frame has ended.     *)
(***************************************************************************)
EXTENDS Integers

CONSTANT Bins       \* the values that are counted

VARIABLES given,      \* how many pixels of each value the frame has had so far
          counting,   \* the counts of the current frame so far
          whole,      \* the current frame has been counted from its beginning
          published   \* the histogram of the frame before

vars == <<given, counting, whole, published>>

Empty == [b \in Bins |-> 0]
Unknown == [b \in Bins |-> -1]     \* not the histogram of any frame

Init == given = Empty /\ counting = Empty /\ whole = FALSE /\ published = Unknown

(* One pixel of value b: it is counted as it is given. *)
Pixel(b) == /\ whole
            /\ given' = [given EXCEPT ![b] = @ + 1]
            /\ counting' = [counting EXCEPT ![b] = @ + 1]
            /\ UNCHANGED <<whole, published>>

(* The rising edge of vsync. *)
Flip == /\ published' = IF whole THEN counting ELSE Unknown
        /\ given' = Empty /\ counting' = Empty
        /\ whole' = TRUE

(* The module is reset. *)
Reset == /\ given' = Empty /\ counting' = Empty
         /\ whole' = FALSE /\ published' = Unknown

Next == (\E b \in Bins : Pixel(b)) \/ Flip \/ Reset

Spec == Init /\ [][Next]_vars
=============================================================================
