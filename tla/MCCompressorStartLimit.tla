----------------------- MODULE MCCompressorStartLimit -----------------------
(* CompressorStartLimit for TLC: three starts in six ticks of a counter    *)
(* that wraps at nine, the shortest turn the gap between ticks allows.     *)
EXTENDS CompressorStartLimit
MCLevels == {1, 2}
=============================================================================
