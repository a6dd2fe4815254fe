----------------------------- MODULE LocalRender -----------------------------
(***************************************************************************)
(* RenderDriver::run (src/renderer/render_driver.cu) with its asynchronous *)
(* checkpoints (src/renderer/render_checkpoint.cpp). The host enqueues the *)
(* kernels of each sample and, every so many samples, a copy of the        *)
(* framebuffer into a slot of pinned memory; the device works the stream   *)
(* off behind it; a thread per slot waits for its copy and writes it. The  *)
(* process may be killed at any time and be started again.                 *)
(*                                                                         *)
(* The framebuffer, a copy of it and a file are the number of samples that *)
(* are in them. writeCheckpoint takes the steps of the other checkpoint    *)
(* writer, but what fails in it ends the process.                          *)
(***************************************************************************)
EXTENDS CheckpointFile, Sequences

CONSTANTS
    SlotCount,          \* config_.checkpointBufferCount
    ProgressPercent,    \* config_.checkpointProgressPercent
    MaxStarts           \* bound on how often the process is started

ASSUME LocalAssumption ==
    /\ {SlotCount, ProgressPercent, MaxStarts} \subseteq Nat \ {0}
    /\ ProgressPercent <= 100
    /\ Writers = 0..SlotCount - 1

SamplesPerPixel == MaxSequence
NoImage == 0
Nobody == SlotCount

VARIABLES
    starts,             \* how often the process has been started
    host,               \* where the main thread is
    submitted,          \* the samples enqueued so far
    scan,               \* the slot enqueueRenderSessionCheckpoint tries
    stream,             \* what the device has still to do
    framebuffer,        \* the samples in the device's framebuffer
    busy,               \* slot.busy
    thread,             \* where each slot's thread is
    copied,             \* whether each slot's copy is complete
    pixels,             \* the samples in each slot's pixels
    sampleIndex,        \* the sample each slot's thread was started for
    lockHolder,         \* who holds writeMutex
    latestWritten,      \* latestWrittenSample
    image               \* the samples in the image that was written

slotVars == <<busy, thread, copied, pixels, sampleIndex, lockHolder, latestWritten>>
hostVars == <<starts, host, submitted, scan>>
vars == <<hostVars, stream, framebuffer, slotVars, image, fileVars>>

Sample == [kind |-> "sample"]
Copy(slot) == [kind |-> "copy", slot |-> slot]

\* checkpointStepSamples, rounded up.
CheckpointStep == (SamplesPerPixel * ProgressPercent + 99) \div 100

ForEachSlot(value) == [slot \in Writers |-> value]

Init ==
    /\ FileInit
    /\ starts = 0 /\ host = "off" /\ image = NoImage
    /\ submitted = 0 /\ scan = 0 /\ stream = <<>> /\ framebuffer = 0
    /\ busy = ForEachSlot(FALSE) /\ thread = ForEachSlot("none")
    /\ copied = ForEachSlot(FALSE) /\ pixels = ForEachSlot(0)
    /\ sampleIndex = ForEachSlot(0)
    /\ lockHolder = Nobody /\ latestWritten = 0
-----------------------------------------------------------------------------
(* Faults.                                                                 *)

\* A checkpoint is written however late its thread gets the mutex.
Newest_NotCompared(slot) == TRUE

\* The thread does not wait for the copy.
CopyComplete_NotAwaited(slot) == TRUE

\* The image is taken while the stream still runs.
StreamDone_NotAwaited == TRUE

\* The mutex is taken and never given back.
Released_Never(slot) == slot
-----------------------------------------------------------------------------
(* The process.                                                            *)

\* The process ends, whatever its threads are doing.
Die ==
    /\ host' = "off"
    /\ submitted' = 0 /\ scan' = 0 /\ stream' = <<>> /\ framebuffer' = 0
    /\ busy' = ForEachSlot(FALSE) /\ thread' = ForEachSlot("none")
    /\ copied' = ForEachSlot(FALSE) /\ pixels' = ForEachSlot(0)
    /\ sampleIndex' = ForEachSlot(0)
    /\ lockHolder' = Nobody /\ latestWritten' = 0
    /\ step' = ForEachSlot("none")
    /\ UNCHANGED <<starts, image, file, temporary, wrote>>

\* It starts from nothing, or with --resume from the checkpoint there is.
StartRender(resumed) ==
    /\ host = "off" /\ starts < MaxStarts
    /\ starts' = starts + 1
    /\ host' = "rendering"
    /\ submitted' = resumed
    /\ framebuffer' = resumed
    /\ image' = NoImage
    /\ UNCHANGED <<scan, stream, slotVars, fileVars>>

Start ==
    \/ StartRender(0)
    \/ file # Absent /\ StartRender(file)

\* Nothing but a bound on the number of starts keeps it from being killed again.
Kill == host # "off" /\ starts < MaxStarts /\ Die
-----------------------------------------------------------------------------
(* The main thread.                                                        *)

\* The kernels of one sample, and whether a checkpoint is due behind them.
RenderSample ==
    /\ host = "rendering"
    /\ submitted < SamplesPerPixel
    /\ submitted' = submitted + 1
    /\ stream' = Append(stream, Sample)
    /\ IF submitted' % CheckpointStep = 0 /\ submitted' < SamplesPerPixel
       THEN host' = "scanning" /\ scan' = 0
       ELSE UNCHANGED <<host, scan>>
    /\ UNCHANGED <<starts, framebuffer, slotVars, image, fileVars>>

\* compare_exchange_strong on one slot after the other; the checkpoint is skipped
\* if all of them are busy when they are tried.
TrySlot ==
    /\ host = "scanning"
    /\ \/ /\ scan = SlotCount
          /\ host' = "rendering"
          /\ UNCHANGED <<scan, busy>>
       \/ /\ scan < SlotCount /\ busy[scan]
          /\ scan' = scan + 1
          /\ UNCHANGED <<host, busy>>
       \/ /\ scan < SlotCount /\ ~busy[scan]
          /\ busy' = [busy EXCEPT ![scan] = TRUE]
          /\ host' = "joining"
          /\ UNCHANGED scan
    /\ UNCHANGED <<starts, submitted, stream, framebuffer, thread, copied, pixels,
                   sampleIndex, lockHolder, latestWritten, image, fileVars>>

\* The slot's last thread is joined, the copy and its event are enqueued, and a
\* thread is started for it.
StartThread ==
    /\ host = "joining"
    /\ thread[scan] \in {"none", "exited"}
    /\ stream' = Append(stream, Copy(scan))
    /\ copied' = [copied EXCEPT ![scan] = FALSE]
    /\ sampleIndex' = [sampleIndex EXCEPT ![scan] = submitted]
    /\ thread' = [thread EXCEPT ![scan] = "awaiting"]
    /\ host' = "rendering"
    /\ UNCHANGED <<starts, submitted, scan, framebuffer, busy, pixels, lockHolder,
                   latestWritten, image, fileVars>>

EndLoop ==
    /\ host = "rendering"
    /\ submitted = SamplesPerPixel
    /\ host' = "draining"
    /\ UNCHANGED <<starts, submitted, scan, stream, framebuffer, slotVars, image, fileVars>>

\* What the event recorded behind the last sample waits for.
StreamDone == stream = <<>>

\* writeFinalImage
WriteImage ==
    /\ host = "draining"
    /\ StreamDone
    /\ image' = framebuffer
    /\ host' = "finishing"
    /\ UNCHANGED <<starts, submitted, scan, stream, framebuffer, slotVars, fileVars>>

\* RenderResources::release waits for the stream and for every thread.
Release ==
    /\ host = "finishing"
    /\ stream = <<>>
    /\ \A slot \in Writers : thread[slot] \in {"none", "exited"}
    /\ Die
-----------------------------------------------------------------------------
(* The device.                                                             *)

Execute ==
    /\ stream # <<>>
    /\ stream' = Tail(stream)
    /\ IF Head(stream) = Sample
       THEN framebuffer' = framebuffer + 1 /\ UNCHANGED <<pixels, copied>>
       ELSE LET slot == Head(stream).slot IN
            /\ pixels' = [pixels EXCEPT ![slot] = framebuffer]
            /\ copied' = [copied EXCEPT ![slot] = TRUE]
            /\ UNCHANGED framebuffer
    /\ UNCHANGED <<hostVars, busy, thread, sampleIndex, lockHolder, latestWritten,
                   image, fileVars>>
-----------------------------------------------------------------------------
(* The threads of the slots.                                               *)

Go(slot, to) == thread' = [thread EXCEPT ![slot] = to]

\* cudaEventSynchronize
CopyComplete(slot) == copied[slot]

AwaitCopy(slot) ==
    /\ thread[slot] = "awaiting"
    /\ CopyComplete(slot)
    /\ Go(slot, "locking")
    /\ UNCHANGED <<hostVars, stream, framebuffer, busy, copied, pixels, sampleIndex,
                   lockHolder, latestWritten, image, fileVars>>

\* A checkpoint that is older than one in the file is not written.
Newest(slot) == sampleIndex[slot] >= latestWritten

LockAndTest(slot) ==
    /\ thread[slot] = "locking"
    /\ lockHolder = Nobody
    /\ lockHolder' = slot
    /\ IF Newest(slot)
       THEN Go(slot, "writing") /\ BeginWrite(slot)
       ELSE Go(slot, "unlocking") /\ UNCHANGED fileVars
    /\ UNCHANGED <<hostVars, stream, framebuffer, busy, copied, pixels, sampleIndex,
                   latestWritten, image>>

\* The file is whole if the pixels are those of the sample in its header.
Content(slot) == IF pixels[slot] = sampleIndex[slot] THEN sampleIndex[slot] ELSE Partial

WriteCheckpoint(slot) ==
    /\ thread[slot] = "writing"
    /\ \/ OpenTemporary(slot)
       \/ FillTemporary(slot, Content(slot))
       \/ RenameTemporary(slot)
    /\ IF step'[slot] = "none"
       THEN Go(slot, "unlocking") /\ latestWritten' = sampleIndex[slot]
       ELSE UNCHANGED <<thread, latestWritten>>
    /\ UNCHANGED <<hostVars, stream, framebuffer, busy, copied, pixels, sampleIndex,
                   lockHolder, image>>

\* fail() calls exit, from whichever thread.
WriteFails(slot) == thread[slot] = "writing" /\ Die

Released(slot) == Nobody

Unlock(slot) ==
    /\ thread[slot] = "unlocking"
    /\ lockHolder' = Released(slot)
    /\ Go(slot, "clearing")
    /\ UNCHANGED <<hostVars, stream, framebuffer, busy, copied, pixels, sampleIndex,
                   latestWritten, image, fileVars>>

\* The slot may be taken again from here on, though its thread still exists.
ClearBusy(slot) ==
    /\ thread[slot] = "clearing"
    /\ busy' = [busy EXCEPT ![slot] = FALSE]
    /\ Go(slot, "exited")
    /\ UNCHANGED <<hostVars, stream, framebuffer, copied, pixels, sampleIndex,
                   lockHolder, latestWritten, image, fileVars>>

ThreadStep(slot) ==
    \/ AwaitCopy(slot)
    \/ LockAndTest(slot)
    \/ WriteCheckpoint(slot)
    \/ Unlock(slot)
    \/ ClearBusy(slot)

HostStep ==
    \/ RenderSample
    \/ TrySlot
    \/ StartThread
    \/ EndLoop
    \/ WriteImage
    \/ Release

Next ==
    \/ Start
    \/ Kill
    \/ HostStep
    \/ Execute
    \/ \E slot \in Writers : ThreadStep(slot) \/ WriteFails(slot)

\* The scheduler runs every thread and the device; a mutex that is free again and
\* again is taken. Nothing makes anybody start the process.
Fairness ==
    /\ WF_vars(HostStep)
    /\ WF_vars(Execute)
    /\ \A slot \in Writers : WF_vars(ThreadStep(slot)) /\ SF_vars(LockAndTest(slot))

Spec == Init /\ [][Next]_vars /\ Fairness
-----------------------------------------------------------------------------
(* Properties.                                                             *)

\* A process never replaces a checkpoint it has written by an older one, in
\* whatever order the threads get the mutex; the file is never partial nor one whose
\* pixels are not those of the sample in its header, and never says more samples than
\* the device has finished.
CheckpointsAdvance ==
    [][file' # file =>
        /\ file' \in Sequences
        /\ file' > latestWritten
        /\ file' <= framebuffer]_vars

\* The image of a process that was not killed has every sample, each once, also
\* when it was resumed from what an earlier process left.
ImageIsComplete == image \in {NoImage, SamplesPerPixel}

\* Every process ends: no slot stays busy and no thread waits for ever.
EveryRunEnds == host # "off" ~> host = "off"
=============================================================================
