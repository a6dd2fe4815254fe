------------------------ MODULE MCPersistentWavefront ------------------------
(* Two resident blocks of one warp each drain queues of up to five paths in    *)
(* more than one chunk; the second tile needs one block only.                  *)
EXTENDS PersistentWavefront, TLC

MCTilePixels == <<5, 2>>

\* Once `leaderless`, for ever `leaderless`, and then all that is checked holds.
StillLed == ~leaderless
=============================================================================
