------------------------------ MODULE MCSensor ------------------------------
(***************************************************************************)
(* The adjustment of the image for TLC, with the bounds of Sensor.cfg.     *)
(***************************************************************************)
EXTENDS Adjustment

MCZeroQuotient == {0, 1, 16, 2^20 - 1}
MCScene == {0, 1, 3, 10, 40, 150, 600, 2400, 10000, 30000}

MCColour == [r : {10, 97, 220}, g : {10, 219}, b : {53, 221}]
MCWhiteQuotient == {0, 1, 300}

\* Exposure and gain as isp_ae_handler sends them: 0x3501, 0x350b; values
\* that end in 0 and in 1.
MCWrite == {<<13569, 48>>, <<13579, 255>>}
MCUnset == -1
=============================================================================
