----------------------------- MODULE PixelLedger -----------------------------
(***************************************************************************)
(* What either execution mode of the renderer promises: sample after       *)
(* sample and tile after tile, every pixel receives the radiance of one    *)
(* path, exactly once; a tile is begun only when the one before it is      *)
(* complete, and the sample counter advances after the last one.           *)
(***************************************************************************)
EXTENDS Naturals, Sequences

CONSTANTS
    TilePixels,         \* the number of pixels of each tile, in launch order
    NumSamples          \* config_.samplesPerPixel

ASSUME TileAssumption ==
    /\ TilePixels \in Seq(Nat \ {0})
    /\ Len(TilePixels) > 0
    /\ NumSamples \in Nat

VARIABLES
    tile,               \* the tile launched last, 0 before the first of a sample
    sampleIndex,        \* *deviceSampleIndex
    framebuffer         \* how many paths have been added to each pixel

ledgerVars == <<tile, sampleIndex, framebuffer>>

Tiles == DOMAIN TilePixels
LastTile == Len(TilePixels)
PixelsOf(t) == {<<t, i>> : i \in 0..TilePixels[t] - 1}
Pixels == UNION {PixelsOf(t) : t \in Tiles}

TileComplete(t) == \A pixel \in PixelsOf(t) : framebuffer[pixel] = sampleIndex + 1

LedgerInit ==
    /\ tile = 0
    /\ sampleIndex = 0
    /\ framebuffer = [pixel \in Pixels |-> 0]

\* The paths of some pixels end, and each adds its radiance to its pixel.
EndPaths ==
    /\ tile > 0
    /\ \E S \in (SUBSET PixelsOf(tile)) \ {{}} :
        /\ \A pixel \in S : framebuffer[pixel] = sampleIndex
        /\ framebuffer' = [pixel \in Pixels |->
             IF pixel \in S THEN sampleIndex + 1 ELSE framebuffer[pixel]]
    /\ UNCHANGED <<tile, sampleIndex>>

NextTile ==
    /\ sampleIndex < NumSamples /\ tile < LastTile
    /\ tile > 0 => TileComplete(tile)
    /\ tile' = tile + 1
    /\ UNCHANGED <<sampleIndex, framebuffer>>

FinishSample ==
    /\ tile = LastTile /\ TileComplete(tile)
    /\ tile' = 0
    /\ sampleIndex' = sampleIndex + 1
    /\ UNCHANGED framebuffer

LedgerNext == EndPaths \/ NextTile \/ FinishSample
=============================================================================
