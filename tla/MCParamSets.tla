----------------------------- MODULE MCParamSets -----------------------------
(* Sizes outside the limits, odd, on, before and after a macroblock boundary; *)
(* every QP; the lowest, the default and the highest bitrate.                 *)
EXTENDS ParamSets

MCWidths   == {1, 177, 190, 1080, 5000}
MCHeights  == {144, 157, 1088, 3000}
MCLevels   == {10, 40, 42}
MCQps      == 0 .. 51
MCBitrates == {64000, 2000000, 100000000}
MCClkRates == {300000000, 702000000}
MCOneLevel == {40}
MCOneQp    == {26}
=============================================================================
