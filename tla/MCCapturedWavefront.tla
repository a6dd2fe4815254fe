------------------------- MODULE MCCapturedWavefront -------------------------
(* Two blocks of one warp each; the second has a single path in the first tile *)
(* and none in the second, which leaves part of the fixed grid without paths.   *)
EXTENDS CapturedWavefront, TLC

MCTilePixels == <<3, 1>>

\* Once `leaderless`, for ever `leaderless`, and then all that is checked holds.
StillLed == ~leaderless
=============================================================================
