-------------------------- MODULE LocalRenderProofs --------------------------
(***************************************************************************)
(* Proofs about LocalRender, for every number of samples, slots and starts *)
(* and every distance between checkpoints.                                 *)
(*                                                                         *)
(* The stream makes what the host enqueues come true in its order. So the  *)
(* framebuffer behind each operation that is still to come is known when   *)
(* it is enqueued: behind a copy it has the samples the copy's thread was  *)
(* started for. What the threads hold are copies of different samples, of  *)
(* which the mutex lets through only one newer than the file.              *)
(***************************************************************************)
EXTENDS LocalRender, SequenceTheorems, TLAPS

HostPlaces == {"off", "rendering", "scanning", "joining", "draining", "finishing"}

\* A thread that has still to write its copy, or to find it outdated.
Holds(slot) == thread[slot] \in {"awaiting", "locking", "writing"}

SlotPlaces == {"none", "awaiting", "locking", "writing", "unlocking", "clearing", "exited"}

Operations == {Sample} \cup {Copy(slot) : slot \in Writers}

LocalTypes ==
    /\ host \in HostPlaces
    /\ submitted \in 0..SamplesPerPixel
    /\ scan \in 0..SlotCount
    /\ stream \in Seq(Operations)
    /\ framebuffer \in Nat
    /\ busy \in [Writers -> BOOLEAN]
    /\ thread \in [Writers -> SlotPlaces]
    /\ copied \in [Writers -> BOOLEAN]
    /\ pixels \in [Writers -> Nat]
    /\ sampleIndex \in [Writers -> Nat]
    /\ lockHolder \in Writers \cup {Nobody}
    /\ latestWritten \in Nat
    /\ file \in Sequences \cup {Absent}
    /\ step \in [Writers -> Steps]
    /\ wrote \in [Writers -> BOOLEAN]

\* What the framebuffer has behind each operation of the stream: the samples
\* enqueued so far behind the last, those of its header behind a copy.
Foretells(after) ==
    /\ after[0] = framebuffer
    /\ after[Len(stream)] = submitted
    /\ \A k \in 1..Len(stream) :
          after[k] = IF stream[k] = Sample THEN after[k - 1] + 1 ELSE after[k - 1]
    /\ \A k \in 1..Len(stream), slot \in Writers :
          stream[k] = Copy(slot) => after[k] = sampleIndex[slot]

StreamKeepsItsWord == \E after \in [0..Len(stream) -> Nat] : Foretells(after)

\* A copy in the stream is awaited, and no slot has two.
CopiesAreAwaited ==
    /\ \A k \in 1..Len(stream), slot \in Writers :
          stream[k] = Copy(slot) => thread[slot] = "awaiting" /\ ~copied[slot]
    /\ \A j, k \in 1..Len(stream), slot \in Writers :
          stream[j] = Copy(slot) /\ stream[k] = Copy(slot) => j = k

\* A complete copy is that of the sample in its header, and no thread goes on
\* without one.
CopiesAreWhole ==
    \A slot \in Writers : Holds(slot) =>
        /\ copied[slot] => pixels[slot] = sampleIndex[slot] /\ sampleIndex[slot] <= framebuffer
        /\ thread[slot] # "awaiting" => copied[slot]

\* No two checkpoints are of the same sample, and the next one is of a later sample
\* than all that are under way.
CheckpointsDiffer ==
    /\ \A slot \in Writers : Holds(slot) =>
          /\ sampleIndex[slot] \in 1..submitted
          /\ sampleIndex[slot] # latestWritten
          /\ host \in {"scanning", "joining"} => sampleIndex[slot] < submitted
    /\ \A s, t \in Writers : Holds(s) /\ Holds(t) /\ sampleIndex[s] = sampleIndex[t] => s = t
    /\ host \in {"scanning", "joining"} => submitted # 0
    /\ host = "joining" => scan \in Writers
    /\ latestWritten <= submitted
    /\ host \in {"scanning", "joining"} => latestWritten < submitted

\* One thread writes at a time, and what it writes is newer than the file.
OneWriter ==
    /\ \A slot \in Writers : lockHolder = slot <=> thread[slot] \in {"writing", "unlocking"}
    /\ \A slot \in Writers : step[slot] # "none" <=> thread[slot] = "writing"
    /\ \A slot \in Writers : thread[slot] = "writing" => latestWritten < sampleIndex[slot]
    /\ \A slot \in Writers : step[slot] = "rename" => temporary = sampleIndex[slot]

\* Nothing of a process outlives it but its files.
NothingIsLeft ==
    host = "off" =>
        /\ stream = <<>> /\ latestWritten = 0 /\ lockHolder = Nobody
        /\ \A slot \in Writers : thread[slot] = "none"

\* The image is taken from a complete framebuffer.
ImageInv ==
    /\ host \in {"draining", "finishing"} => submitted = SamplesPerPixel
    /\ ImageIsComplete

LocalIInv ==
    /\ LocalTypes
    /\ StreamKeepsItsWord
    /\ CopiesAreAwaited
    /\ CopiesAreWhole
    /\ CheckpointsDiffer
    /\ OneWriter
    /\ NothingIsLeft
    /\ ImageInv
-----------------------------------------------------------------------------
(* The stream.                                                             *)

\* No slot is taken for nobody.
LEMMA NobodyIsNoSlot == Nobody \notin Writers
BY LocalAssumption DEF Nobody

\* The operations of a stream can be told apart.
LEMMA CopiesAreNoSamples ==
    /\ \A slot \in Writers : Copy(slot) # Sample /\ Copy(slot).slot = slot
    /\ \A s, t \in Writers : Copy(s) = Copy(t) => s = t
<1>1. \A slot \in Writers : Copy(slot).kind = "copy" /\ Copy(slot).slot = slot
    BY DEF Copy
<1>2. Sample.kind = "sample"
    BY DEF Sample
<1> QED
    BY <1>1, <1>2

\* An operation is enqueued behind those that are there.
LEMMA StreamGrows ==
    ASSUME stream \in Seq(Operations), NEW op \in Operations, stream' = Append(stream, op)
    PROVE  /\ stream' \in Seq(Operations)
           /\ Len(stream) \in Nat /\ Len(stream') = Len(stream) + 1
           /\ \A k \in 1..Len(stream) : stream'[k] = stream[k]
           /\ stream'[Len(stream) + 1] = op
OBVIOUS

\* The device takes the first operation, and the others move up.
LEMMA StreamShrinks ==
    ASSUME stream \in Seq(Operations), stream # <<>>, stream' = Tail(stream)
    PROVE  /\ stream' \in Seq(Operations)
           /\ Len(stream) \in Nat \ {0} /\ Len(stream') = Len(stream) - 1
           /\ \A k \in 1..Len(stream') : stream'[k] = stream[k + 1]
           /\ Head(stream) = stream[1] /\ stream[1] \in Operations
BY HeadTailProperties, EmptySeq, ElementOfSeq

\* What no step of a thread changes.
LEMMA WordIsKept ==
    ASSUME StreamKeepsItsWord, UNCHANGED <<stream, framebuffer, submitted, sampleIndex>>
    PROVE  StreamKeepsItsWord'
BY DEF StreamKeepsItsWord, Foretells

\* With nothing to do the framebuffer has what was enqueued.
LEMMA EmptyStreamKeepsItsWord ==
    ASSUME stream' = <<>>, framebuffer' \in Nat, framebuffer' = submitted'
    PROVE  StreamKeepsItsWord'
<1>1. PICK samples \in Nat : framebuffer' = samples /\ submitted' = samples
    OBVIOUS
<1> DEFINE after == [k \in 0..0 |-> samples]
<1>2. Len(stream') = 0 /\ after \in [0..Len(stream') -> Nat] /\ after[0] = samples
    BY EmptySeq
<1> HIDE DEF after
<1> QED
    BY <1>1, <1>2 DEF StreamKeepsItsWord, Foretells

LEMMA CopiesStayAwaited ==
    ASSUME CopiesAreAwaited, UNCHANGED stream,
           \A slot \in Writers : thread[slot] = "awaiting" /\ ~copied[slot] =>
              thread'[slot] = "awaiting" /\ ~copied'[slot]
    PROVE  CopiesAreAwaited'
BY DEF CopiesAreAwaited
\* The thread that writes has the mutex to itself, a whole copy and a new checkpoint.
LEMMA WriterIsReady ==
    ASSUME LocalIInv, NEW s \in Writers, thread[s] = "writing"
    PROVE  /\ lockHolder = s /\ copied[s] /\ pixels[s] = sampleIndex[s]
           /\ latestWritten < sampleIndex[s]
           /\ sampleIndex[s] \in 1..SamplesPerPixel /\ sampleIndex[s] <= framebuffer
           /\ step[s] = "rename" => temporary = sampleIndex[s]
           /\ \A t \in Writers : t # s => thread[t] \notin {"writing", "unlocking"}
<1>1. Holds(s)
    BY DEF Holds
<1>2. submitted \in 0..SamplesPerPixel /\ SamplesPerPixel \in Nat
    BY FileAssumption DEF LocalIInv, LocalTypes, SamplesPerPixel
<1> QED
    BY <1>1, <1>2 DEF LocalIInv, OneWriter, CopiesAreWhole, CheckpointsDiffer

-----------------------------------------------------------------------------
(* One lemma per kind of step: each keeps every part of the invariant.      *)

\* A process that ends leaves its files.
LEMMA DieKeepsLocalIInv ==
    ASSUME LocalIInv, Die
    PROVE  LocalIInv'
<1> USE FileAssumption, LocalAssumption
        DEF Die, ForEachSlot, hostVars, slotVars, fileVars
<1>0. LocalTypes
    BY DEF LocalIInv
<1>1. LocalTypes'
    <2>1. /\ stream' \in Seq(Operations) /\ lockHolder' \in Writers \cup {Nobody}
          /\ scan' \in 0..SlotCount /\ submitted' \in 0..SamplesPerPixel
        BY EmptySeq DEF SamplesPerPixel
    <2>2. /\ busy' \in [Writers -> BOOLEAN] /\ copied' \in [Writers -> BOOLEAN]
          /\ pixels' \in [Writers -> Nat] /\ sampleIndex' \in [Writers -> Nat]
        OBVIOUS
    <2>3. thread' \in [Writers -> SlotPlaces] /\ step' \in [Writers -> Steps]
        BY DEF SlotPlaces, Steps
    <2>4. /\ host' \in HostPlaces /\ framebuffer' \in Nat /\ latestWritten' \in Nat
          /\ file' \in Sequences \cup {Absent} /\ wrote' \in [Writers -> BOOLEAN]
        BY <1>0 DEF LocalTypes, HostPlaces
    <2> QED
        BY <2>1, <2>2, <2>3, <2>4 DEF LocalTypes
<1>2. StreamKeepsItsWord'
    BY EmptyStreamKeepsItsWord
<1>3. CopiesAreAwaited'
    BY <1>0 DEF LocalIInv, LocalTypes, CopiesAreAwaited
<1>4. CopiesAreWhole'
    BY <1>0 DEF LocalIInv, LocalTypes, CopiesAreWhole, Holds, CopiesAreAwaited
<1>5. CheckpointsDiffer'
    BY <1>0 DEF LocalIInv, LocalTypes, CheckpointsDiffer, Holds, HostPlaces
<1>6. OneWriter'
    BY <1>0, NobodyIsNoSlot DEF OneWriter
<1>7. NothingIsLeft'
    BY <1>0 DEF LocalIInv, LocalTypes, NothingIsLeft
<1>8. ImageInv'
    BY <1>0 DEF LocalIInv, LocalTypes, ImageInv, ImageIsComplete, NothingIsLeft
<1> QED
    BY <1>1, <1>2, <1>3, <1>4, <1>5, <1>6, <1>7, <1>8 DEF LocalIInv

\* A new process starts from nothing or from the checkpoint.
LEMMA StartKeepsLocalIInv ==
    ASSUME LocalIInv, Start
    PROVE  LocalIInv'
<1> USE FileAssumption, LocalAssumption
        DEF Start, StartRender, hostVars, slotVars, fileVars
<1>0. LocalTypes
    BY DEF LocalIInv
<1>1. LocalTypes'
    BY <1>0 DEF LocalTypes, HostPlaces, Sequences, SamplesPerPixel
<1>2. StreamKeepsItsWord'
    <2>1. framebuffer' \in Nat
        BY <1>0 DEF LocalTypes, Sequences
    <2> QED
        BY <2>1, EmptyStreamKeepsItsWord DEF LocalIInv, NothingIsLeft
<1>3. CopiesAreAwaited'
    <2>1. stream' = <<>>
        BY DEF LocalIInv, NothingIsLeft
    <2> QED
        BY <2>1 DEF CopiesAreAwaited
<1>4. CopiesAreWhole'
    <2>1. \A slot \in Writers : ~Holds(slot)'
        BY DEF LocalIInv, NothingIsLeft, Holds
    <2> QED
        BY <2>1 DEF CopiesAreWhole
<1>5. CheckpointsDiffer'
    <2>1. \A slot \in Writers : ~Holds(slot)'
        BY DEF LocalIInv, NothingIsLeft, Holds
    <2>2. submitted' \in Nat /\ latestWritten' = 0 /\ host' = "rendering"
        BY <1>0 DEF LocalIInv, NothingIsLeft, LocalTypes, Sequences
    <2> QED
        BY <2>1, <2>2 DEF CheckpointsDiffer
<1>6. OneWriter'
    <2>1. UNCHANGED <<lockHolder, thread, step, latestWritten, sampleIndex, temporary>>
        BY DEF fileVars
    <2> QED
        BY <2>1 DEF LocalIInv, OneWriter
<1>7. NothingIsLeft'
    BY <1>0 DEF LocalIInv, LocalTypes, NothingIsLeft
<1>8. ImageInv'
    BY <1>0 DEF LocalIInv, LocalTypes, ImageInv, ImageIsComplete, NothingIsLeft
<1> QED
    BY <1>1, <1>2, <1>3, <1>4, <1>5, <1>6, <1>7, <1>8 DEF LocalIInv

\* A sample is enqueued behind everything else, and its number is new.
LEMMA SampleKeepsLocalIInv ==
    ASSUME LocalIInv, RenderSample
    PROVE  LocalIInv'
<1> USE FileAssumption, LocalAssumption
        DEF RenderSample, hostVars, slotVars, fileVars
<1>0. LocalTypes
    BY DEF LocalIInv
<1>1. LocalTypes'
    <2>1. stream' \in Seq(Operations)
        BY <1>0, StreamGrows DEF LocalTypes, Operations
    <2> QED
        BY <1>0, <2>1 DEF LocalTypes, HostPlaces, SamplesPerPixel
<1>2. StreamKeepsItsWord'
    <2>1. /\ Len(stream) \in Nat /\ Len(stream') = Len(stream) + 1
          /\ \A k \in 1..Len(stream) : stream'[k] = stream[k]
          /\ stream'[Len(stream) + 1] = Sample
        BY <1>0, StreamGrows DEF LocalTypes, Operations
    <2>2. PICK after \in [0..Len(stream) -> Nat] : Foretells(after)
        BY DEF LocalIInv, StreamKeepsItsWord
    <2> DEFINE next == [k \in 0..Len(stream') |->
                          IF k <= Len(stream) THEN after[k] ELSE submitted + 1]
    <2>3. next \in [0..Len(stream') -> Nat]
        BY <1>0, <2>1 DEF LocalTypes
    <2>4. /\ next[0] = framebuffer' /\ next[Len(stream')] = submitted'
        BY <2>1, <2>2 DEF Foretells
    <2>5. ASSUME NEW k \in 1..Len(stream')
          PROVE  /\ next[k] = IF stream'[k] = Sample THEN next[k - 1] + 1 ELSE next[k - 1]
                 /\ \A slot \in Writers : stream'[k] = Copy(slot) => next[k] = sampleIndex'[slot]
        <3>1. CASE k \in 1..Len(stream)
            BY <2>1, <2>2, <3>1 DEF Foretells
        <3>2. CASE k = Len(stream) + 1
            BY <2>1, <2>2, <3>2, CopiesAreNoSamples DEF Foretells
        <3> QED
            BY <2>1, <3>1, <3>2
    <2> QED
        BY <2>3, <2>4, <2>5 DEF StreamKeepsItsWord, Foretells
<1>3. CopiesAreAwaited'
    <2>1. /\ Len(stream) \in Nat /\ Len(stream') = Len(stream) + 1
          /\ \A k \in 1..Len(stream) : stream'[k] = stream[k]
          /\ stream'[Len(stream) + 1] = Sample
        BY <1>0, StreamGrows DEF LocalTypes, Operations
    <2>2. \A k \in 1..Len(stream'), slot \in Writers :
             stream'[k] = Copy(slot) => k \in 1..Len(stream) /\ stream[k] = Copy(slot)
        BY <2>1, CopiesAreNoSamples
    <2>3. CopiesAreAwaited /\ UNCHANGED <<thread, copied>>
        BY DEF LocalIInv
    <2> HIDE DEF RenderSample
    <2> QED
        BY <2>2, <2>3 DEF CopiesAreAwaited
<1>4. CopiesAreWhole'
    BY <1>0 DEF LocalIInv, LocalTypes, CopiesAreWhole, Holds, CopiesAreAwaited
<1>5. CheckpointsDiffer'
    <2> HIDE DEF RenderSample
    <2>1. /\ submitted \in Nat /\ submitted' = submitted + 1 /\ host = "rendering"
          /\ host' \in {"rendering", "scanning"}
          /\ UNCHANGED <<thread, sampleIndex, latestWritten>>
        BY <1>0 DEF LocalTypes, RenderSample
    <2>2. \A slot \in Writers : Holds(slot)' = Holds(slot)
        BY <2>1 DEF Holds
    <2>3. latestWritten \in Nat /\ sampleIndex \in [Writers -> Nat]
        BY <1>0 DEF LocalTypes
    <2> QED
        BY <2>1, <2>2, <2>3 DEF LocalIInv, CheckpointsDiffer
<1>6. OneWriter'
    BY <1>0 DEF LocalIInv, LocalTypes, OneWriter, CheckpointsDiffer, Holds
<1>7. NothingIsLeft'
    BY <1>0 DEF LocalIInv, LocalTypes, NothingIsLeft
<1>8. ImageInv'
    BY <1>0 DEF LocalIInv, LocalTypes, ImageInv, ImageIsComplete, NothingIsLeft
<1> QED
    BY <1>1, <1>2, <1>3, <1>4, <1>5, <1>6, <1>7, <1>8 DEF LocalIInv

\* A slot that is not busy is taken.
LEMMA TryKeepsLocalIInv ==
    ASSUME LocalIInv, TrySlot
    PROVE  LocalIInv'
<1> USE FileAssumption, LocalAssumption
        DEF TrySlot, hostVars, slotVars, fileVars
<1>0. LocalTypes
    BY DEF LocalIInv
<1>1. LocalTypes'
    <2>1. scan' \in 0..SlotCount /\ host' \in HostPlaces
        BY <1>0 DEF LocalTypes, HostPlaces
    <2>2. busy' \in [Writers -> BOOLEAN]
        BY <1>0 DEF LocalTypes
    <2> QED
        BY <1>0, <2>1, <2>2 DEF LocalTypes
<1>2. StreamKeepsItsWord'
    BY WordIsKept DEF LocalIInv
<1>3. CopiesAreAwaited'
    <2>1. \A slot \in Writers : thread[slot] = "awaiting" /\ ~copied[slot] =>
             thread'[slot] = "awaiting" /\ ~copied'[slot]
        BY <1>0 DEF LocalTypes
    <2> QED
        BY <2>1, CopiesStayAwaited DEF LocalIInv
<1>4. CopiesAreWhole'
    BY <1>0 DEF LocalIInv, LocalTypes, CopiesAreWhole, Holds, CopiesAreAwaited
<1>5. CheckpointsDiffer'
    BY <1>0 DEF LocalIInv, LocalTypes, CheckpointsDiffer, Holds, HostPlaces
<1>6. OneWriter'
    BY <1>0 DEF LocalIInv, LocalTypes, OneWriter, CheckpointsDiffer, Holds
<1>7. NothingIsLeft'
    BY <1>0 DEF LocalIInv, LocalTypes, NothingIsLeft
<1>8. ImageInv'
    BY <1>0 DEF LocalIInv, LocalTypes, ImageInv, ImageIsComplete, NothingIsLeft
<1> QED
    BY <1>1, <1>2, <1>3, <1>4, <1>5, <1>6, <1>7, <1>8 DEF LocalIInv

\* The copy behind the samples enqueued so far.
LEMMA StartThreadKeepsLocalIInv ==
    ASSUME LocalIInv, StartThread
    PROVE  LocalIInv'
<1> USE FileAssumption, LocalAssumption
        DEF StartThread, hostVars, slotVars, fileVars
<1>0. LocalTypes
    BY DEF LocalIInv
<1>1. LocalTypes'
    <2>1. scan \in Writers
        BY DEF LocalIInv, CheckpointsDiffer
    <2>2. stream' \in Seq(Operations)
        BY <1>0, <2>1, StreamGrows DEF LocalTypes, Operations
    <2> QED
        BY <1>0, <2>1, <2>2 DEF LocalTypes, HostPlaces, SlotPlaces
<1>2. StreamKeepsItsWord'
    <2>1. /\ Len(stream) \in Nat /\ Len(stream') = Len(stream) + 1
          /\ \A k \in 1..Len(stream) : stream'[k] = stream[k]
          /\ stream'[Len(stream) + 1] = Copy(scan)
        BY <1>0, StreamGrows DEF LocalIInv, CheckpointsDiffer, LocalTypes, Operations
    <2>2. /\ scan \in Writers /\ thread[scan] # "awaiting"
          /\ \A k \in 1..Len(stream) : stream[k] # Copy(scan)
        BY <1>0 DEF LocalIInv, CheckpointsDiffer, CopiesAreAwaited
    <2>3. PICK after \in [0..Len(stream) -> Nat] : Foretells(after)
        BY DEF LocalIInv, StreamKeepsItsWord
    <2> DEFINE next == [k \in 0..Len(stream') |->
                          IF k <= Len(stream) THEN after[k] ELSE submitted]
    <2>4. next \in [0..Len(stream') -> Nat]
        BY <1>0, <2>1 DEF LocalTypes
    <2>5. /\ next[0] = framebuffer' /\ next[Len(stream')] = submitted'
        BY <2>1, <2>3 DEF Foretells
    <2>6. /\ sampleIndex'[scan] = submitted
          /\ \A slot \in Writers : slot # scan => sampleIndex'[slot] = sampleIndex[slot]
        BY <1>0, <2>2 DEF LocalTypes
    <2>7. ASSUME NEW k \in 1..Len(stream')
          PROVE  /\ next[k] = IF stream'[k] = Sample THEN next[k - 1] + 1 ELSE next[k - 1]
                 /\ \A slot \in Writers : stream'[k] = Copy(slot) => next[k] = sampleIndex'[slot]
        <3>1. CASE k \in 1..Len(stream)
            BY <2>1, <2>2, <2>3, <2>6, <3>1 DEF Foretells
        <3>2. CASE k = Len(stream) + 1
            BY <2>1, <2>2, <2>3, <2>6, <3>2, CopiesAreNoSamples DEF Foretells
        <3> QED
            BY <2>1, <3>1, <3>2
    <2> QED
        BY <2>4, <2>5, <2>7 DEF StreamKeepsItsWord, Foretells
<1>3. CopiesAreAwaited'
    <2>1. /\ Len(stream) \in Nat /\ Len(stream') = Len(stream) + 1
          /\ \A k \in 1..Len(stream) : stream'[k] = stream[k]
          /\ stream'[Len(stream) + 1] = Copy(scan)
        BY <1>0, StreamGrows DEF LocalIInv, CheckpointsDiffer, LocalTypes, Operations
    <2>2. /\ scan \in Writers /\ thread[scan] # "awaiting"
          /\ \A k \in 1..Len(stream) : stream[k] # Copy(scan)
        BY <1>0 DEF LocalIInv, CheckpointsDiffer, CopiesAreAwaited
    <2>3. CopiesAreAwaited
        BY DEF LocalIInv
    <2>4. /\ thread'[scan] = "awaiting" /\ ~copied'[scan]
          /\ \A slot \in Writers : slot # scan =>
                thread'[slot] = thread[slot] /\ copied'[slot] = copied[slot]
        BY <1>0, <2>2 DEF LocalTypes
    <2>5. ASSUME NEW k \in 1..Len(stream'), NEW slot \in Writers, stream'[k] = Copy(slot)
          PROVE  \/ k \in 1..Len(stream) /\ stream[k] = Copy(slot) /\ slot # scan
                 \/ k = Len(stream) + 1 /\ slot = scan
        BY <2>1, <2>2, <2>5, CopiesAreNoSamples
    <2> QED
        BY <2>1, <2>3, <2>4, <2>5 DEF CopiesAreAwaited
<1>4. CopiesAreWhole'
    BY <1>0 DEF LocalIInv, LocalTypes, CopiesAreWhole, Holds, CopiesAreAwaited
<1>5. CheckpointsDiffer'
    BY <1>0 DEF LocalIInv, LocalTypes, CheckpointsDiffer, Holds, HostPlaces
<1>6. OneWriter'
    BY <1>0 DEF LocalIInv, LocalTypes, OneWriter, CheckpointsDiffer, Holds
<1>7. NothingIsLeft'
    BY <1>0 DEF LocalIInv, LocalTypes, NothingIsLeft
<1>8. ImageInv'
    BY <1>0 DEF LocalIInv, LocalTypes, ImageInv, ImageIsComplete, NothingIsLeft
<1> QED
    BY <1>1, <1>2, <1>3, <1>4, <1>5, <1>6, <1>7, <1>8 DEF LocalIInv

\* The image is taken once nothing is left in the stream.
LEMMA ImageKeepsLocalIInv ==
    ASSUME LocalIInv, EndLoop \/ WriteImage
    PROVE  LocalIInv'
<1> USE FileAssumption, LocalAssumption
        DEF EndLoop, WriteImage, StreamDone, hostVars, slotVars, fileVars
<1>0. LocalTypes
    BY DEF LocalIInv
<1>1. LocalTypes'
    BY <1>0 DEF LocalIInv, LocalTypes, HostPlaces, SlotPlaces, Steps
<1>2. StreamKeepsItsWord'
    BY WordIsKept DEF LocalIInv
<1>3. CopiesAreAwaited'
    <2>1. \A slot \in Writers : thread[slot] = "awaiting" /\ ~copied[slot] =>
             thread'[slot] = "awaiting" /\ ~copied'[slot]
        BY <1>0 DEF LocalTypes
    <2> QED
        BY <2>1, CopiesStayAwaited DEF LocalIInv
<1>4. CopiesAreWhole'
    BY <1>0 DEF LocalIInv, LocalTypes, CopiesAreWhole, Holds, CopiesAreAwaited
<1>5. CheckpointsDiffer'
    BY <1>0 DEF LocalIInv, LocalTypes, CheckpointsDiffer, Holds, HostPlaces
<1>6. OneWriter'
    BY <1>0 DEF LocalIInv, LocalTypes, OneWriter, CheckpointsDiffer, Holds
<1>7. NothingIsLeft'
    BY <1>0 DEF LocalIInv, LocalTypes, NothingIsLeft
<1>8. ImageInv'
    <2>1. CASE WriteImage
        <3>1. PICK after \in [0..Len(stream) -> Nat] : Foretells(after)
            BY DEF LocalIInv, StreamKeepsItsWord
        <3>2. framebuffer = submitted
            BY <2>1, <3>1 DEF Foretells
        <3> QED
            BY <2>1, <3>2 DEF LocalIInv, ImageInv, ImageIsComplete
    <2>2. CASE EndLoop
        BY <2>2 DEF LocalIInv, ImageInv, ImageIsComplete
    <2> QED
        BY <2>1, <2>2
<1> QED
    BY <1>1, <1>2, <1>3, <1>4, <1>5, <1>6, <1>7, <1>8 DEF LocalIInv

\* The device does what the stream foretold.
LEMMA ExecuteKeepsLocalIInv ==
    ASSUME LocalIInv, Execute
    PROVE  LocalIInv'
<1> USE FileAssumption, LocalAssumption
        DEF Execute, hostVars, slotVars, fileVars
<1>0. LocalTypes
    BY DEF LocalIInv
<1>1. LocalTypes'
    <2>1. stream' \in Seq(Operations) /\ Head(stream) \in Operations
        BY <1>0, StreamShrinks DEF LocalTypes
    <2>2. Head(stream) = Sample \/ Head(stream).slot \in Writers
        BY <2>1, CopiesAreNoSamples DEF Operations
    <2>3. /\ framebuffer' \in Nat /\ pixels' \in [Writers -> Nat]
          /\ copied' \in [Writers -> BOOLEAN]
        <3>1. CASE Head(stream) = Sample
            BY <1>0, <3>1 DEF LocalTypes
        <3>2. CASE Head(stream) # Sample
            <4>1. PICK t \in Writers : t = Head(stream).slot
                BY <2>2, <3>2
            <4>2. /\ pixels' = [pixels EXCEPT ![t] = framebuffer]
                  /\ copied' = [copied EXCEPT ![t] = TRUE]
                  /\ framebuffer' = framebuffer
                BY <3>2, <4>1
            <4> HIDE DEF Execute
            <4> QED
                BY <1>0, <4>2 DEF LocalTypes
        <3> QED
            BY <3>1, <3>2
    <2>4. UNCHANGED <<host, submitted, scan, busy, thread, sampleIndex, lockHolder,
                      latestWritten, file, step, wrote>>
        OBVIOUS
    <2> HIDE DEF Execute
    <2> QED
        BY <1>0, <2>1, <2>3, <2>4 DEF LocalTypes
<1>2. StreamKeepsItsWord'
    <2>1. /\ Len(stream) \in Nat \ {0} /\ Len(stream') = Len(stream) - 1
          /\ \A k \in 1..Len(stream') : stream'[k] = stream[k + 1]
          /\ Head(stream) = stream[1] /\ stream[1] \in Operations
        BY <1>0, StreamShrinks DEF LocalTypes
    <2>2. PICK after \in [0..Len(stream) -> Nat] : Foretells(after)
        BY DEF LocalIInv, StreamKeepsItsWord
    <2> DEFINE next == [k \in 0..Len(stream') |-> after[k + 1]]
    <2>3. next \in [0..Len(stream') -> Nat]
        BY <2>1
    <2>4. framebuffer' = IF stream[1] = Sample THEN framebuffer + 1 ELSE framebuffer
        BY <2>1
    <2>5. /\ next[0] = framebuffer' /\ next[Len(stream')] = submitted'
        BY <2>1, <2>2, <2>4 DEF Foretells
    <2>6. ASSUME NEW k \in 1..Len(stream')
          PROVE  /\ next[k] = IF stream'[k] = Sample THEN next[k - 1] + 1 ELSE next[k - 1]
                 /\ \A slot \in Writers : stream'[k] = Copy(slot) => next[k] = sampleIndex'[slot]
        <3>1. /\ k + 1 \in 1..Len(stream) /\ stream'[k] = stream[k + 1]
              /\ next[k] = after[k + 1] /\ next[k - 1] = after[k]
            BY <2>1
        <3> QED
            BY <2>2, <3>1 DEF Foretells
    <2> QED
        BY <2>3, <2>5, <2>6 DEF StreamKeepsItsWord, Foretells
<1>3. CopiesAreAwaited'
    <2>1. /\ Len(stream) \in Nat \ {0} /\ Len(stream') = Len(stream) - 1
          /\ \A k \in 1..Len(stream') : stream'[k] = stream[k + 1]
          /\ Head(stream) = stream[1] /\ stream[1] \in Operations
        BY <1>0, StreamShrinks DEF LocalTypes
    <2>2. CopiesAreAwaited
        BY DEF LocalIInv
    <2>3. ASSUME NEW k \in 1..Len(stream'), NEW slot \in Writers, stream'[k] = Copy(slot)
          PROVE  k + 1 \in 1..Len(stream) /\ stream[k + 1] = Copy(slot) /\ stream[1] # Copy(slot)
        BY <2>1, <2>2, <2>3 DEF CopiesAreAwaited
    <2>4. \A slot \in Writers : stream[1] # Copy(slot) => copied'[slot] = copied[slot]
        <3>1. CASE stream[1] = Sample
            BY <2>1, <3>1
        <3>2. CASE stream[1] # Sample
            <4>1. PICK t \in Writers : stream[1] = Copy(t)
                BY <2>1, <3>2 DEF Operations
            <4>2. copied' = [copied EXCEPT ![t] = TRUE]
                BY <2>1, <3>2, <4>1, CopiesAreNoSamples
            <4> QED
                BY <1>0, <4>1, <4>2 DEF LocalTypes
        <3> QED
            BY <3>1, <3>2
    <2>5. thread' = thread
        OBVIOUS
    <2> HIDE DEF Execute
    <2>6. ASSUME NEW k \in 1..Len(stream'), NEW slot \in Writers, stream'[k] = Copy(slot)
          PROVE  thread'[slot] = "awaiting" /\ ~copied'[slot]
        BY <2>2, <2>3, <2>4, <2>5, <2>6 DEF CopiesAreAwaited
    <2>7. ASSUME NEW j \in 1..Len(stream'), NEW k \in 1..Len(stream'), NEW slot \in Writers,
                 stream'[j] = Copy(slot), stream'[k] = Copy(slot)
          PROVE  j = k
        <3>1. /\ j + 1 \in 1..Len(stream) /\ stream[j + 1] = Copy(slot)
              /\ k + 1 \in 1..Len(stream) /\ stream[k + 1] = Copy(slot)
            BY <2>3, <2>7
        <3>2. \A a, b \in 1..Len(stream) :
                 stream[a] = Copy(slot) /\ stream[b] = Copy(slot) => a = b
            BY <2>2 DEF CopiesAreAwaited
        <3>3. j + 1 = k + 1
            BY <3>1, <3>2
        <3> QED
            BY <2>1, <3>3
    <2> QED
        BY <2>6, <2>7 DEF CopiesAreAwaited
<1>4. CopiesAreWhole'
    <2>1. /\ Len(stream) \in Nat \ {0} /\ Len(stream') = Len(stream) - 1
          /\ \A k \in 1..Len(stream') : stream'[k] = stream[k + 1]
          /\ Head(stream) = stream[1] /\ stream[1] \in Operations
        BY <1>0, StreamShrinks DEF LocalTypes
    <2>2. CASE stream[1] = Sample
        <3>1. framebuffer' = framebuffer + 1 /\ UNCHANGED <<thread, copied, pixels,
            sampleIndex>>
            BY <2>1, <2>2
        <3>2. \A slot \in Writers : sampleIndex[slot] \in Nat
            BY <1>0 DEF LocalTypes
        <3>3. framebuffer \in Nat
            BY <1>0 DEF LocalTypes
        <3> HIDE DEF Execute
        <3> QED
            BY <3>1, <3>2, <3>3 DEF LocalIInv, CopiesAreWhole, Holds
    <2>3. CASE \E slot \in Writers : stream[1] = Copy(slot)
        <3>1. PICK slot \in Writers : stream[1] = Copy(slot)
            BY <2>3
        <3>2. PICK after \in [0..Len(stream) -> Nat] : Foretells(after)
            BY DEF LocalIInv, StreamKeepsItsWord
        <3>3. framebuffer = sampleIndex[slot]
            BY <2>1, <3>1, <3>2, CopiesAreNoSamples DEF Foretells
        <3>4. /\ pixels' = [pixels EXCEPT ![slot] = framebuffer]
              /\ copied' = [copied EXCEPT ![slot] = TRUE]
              /\ framebuffer' = framebuffer
            BY <2>1, <3>1, CopiesAreNoSamples
        <3> HIDE DEF Execute
        <3>5. UNCHANGED <<thread, sampleIndex>>
            BY DEF Execute, slotVars
        <3> QED
            BY <1>0, <3>3, <3>4, <3>5 DEF LocalIInv, LocalTypes, CopiesAreWhole, Holds
    <2> QED
        BY <2>1, <2>2, <2>3 DEF Operations
<1>5. CheckpointsDiffer'
    BY <1>0 DEF LocalIInv, LocalTypes, CheckpointsDiffer, Holds, HostPlaces
<1>6. OneWriter'
    BY <1>0 DEF LocalIInv, LocalTypes, OneWriter, CheckpointsDiffer, Holds
<1>7. NothingIsLeft'
    BY <1>0 DEF LocalIInv, LocalTypes, NothingIsLeft
<1>8. ImageInv'
    BY <1>0 DEF LocalIInv, LocalTypes, ImageInv, ImageIsComplete, NothingIsLeft
<1> QED
    BY <1>1, <1>2, <1>3, <1>4, <1>5, <1>6, <1>7, <1>8 DEF LocalIInv

\* The copy is complete.
LEMMA AwaitKeepsLocalIInv ==
    ASSUME LocalIInv, NEW s \in Writers, AwaitCopy(s)
    PROVE  LocalIInv'
<1> USE FileAssumption, LocalAssumption
        DEF AwaitCopy, CopyComplete, Go, hostVars, slotVars, fileVars
<1>0. LocalTypes
    BY DEF LocalIInv
<1>1. LocalTypes'
    BY <1>0 DEF LocalIInv, LocalTypes, HostPlaces, SlotPlaces, Steps
<1>2. StreamKeepsItsWord'
    BY WordIsKept DEF LocalIInv
<1>3. CopiesAreAwaited'
    <2>1. \A slot \in Writers : thread[slot] = "awaiting" /\ ~copied[slot] =>
             thread'[slot] = "awaiting" /\ ~copied'[slot]
        BY <1>0 DEF LocalTypes
    <2> QED
        BY <2>1, CopiesStayAwaited DEF LocalIInv
<1>4. CopiesAreWhole'
    BY <1>0 DEF LocalIInv, LocalTypes, CopiesAreWhole, Holds, CopiesAreAwaited
<1>5. CheckpointsDiffer'
    BY <1>0 DEF LocalIInv, LocalTypes, CheckpointsDiffer, Holds, HostPlaces
<1>6. OneWriter'
    BY <1>0 DEF LocalIInv, LocalTypes, OneWriter, CheckpointsDiffer, Holds
<1>7. NothingIsLeft'
    BY <1>0 DEF LocalIInv, LocalTypes, NothingIsLeft
<1>8. ImageInv'
    BY <1>0 DEF LocalIInv, LocalTypes, ImageInv, ImageIsComplete, NothingIsLeft
<1> QED
    BY <1>1, <1>2, <1>3, <1>4, <1>5, <1>6, <1>7, <1>8 DEF LocalIInv

\* Only a newer checkpoint goes on to be written.
LEMMA LockKeepsLocalIInv ==
    ASSUME LocalIInv, NEW s \in Writers, LockAndTest(s)
    PROVE  LocalIInv'
<1> USE FileAssumption, LocalAssumption
        DEF LockAndTest, Newest, BeginWrite, Go, hostVars, slotVars, fileVars
<1>0. LocalTypes
    BY DEF LocalIInv
<1>1. LocalTypes'
    BY <1>0 DEF LocalIInv, LocalTypes, HostPlaces, SlotPlaces, Steps
<1>2. StreamKeepsItsWord'
    BY WordIsKept DEF LocalIInv
<1>3. CopiesAreAwaited'
    <2>1. \A slot \in Writers : thread[slot] = "awaiting" /\ ~copied[slot] =>
             thread'[slot] = "awaiting" /\ ~copied'[slot]
        BY <1>0 DEF LocalTypes
    <2> QED
        BY <2>1, CopiesStayAwaited DEF LocalIInv
<1>4. CopiesAreWhole'
    BY <1>0 DEF LocalIInv, LocalTypes, CopiesAreWhole, Holds, CopiesAreAwaited
<1>5. CheckpointsDiffer'
    <2>1. \A t \in Writers : Holds(t)' => Holds(t)
        BY <1>0 DEF LocalTypes, Holds
    <2>2. UNCHANGED <<host, scan, submitted, sampleIndex, latestWritten>>
        OBVIOUS
    <2> HIDE DEF LockAndTest
    <2> QED
        BY <2>1, <2>2 DEF LocalIInv, CheckpointsDiffer
<1>6. OneWriter'
    <2>1. /\ thread[s] = "locking" /\ thread'[s] = IF Newest(s) THEN "writing" ELSE "unlocking"
          /\ \A t \in Writers : t # s => thread'[t] = thread[t]
        BY <1>0 DEF LocalTypes
    <2>2. /\ step'[s] = IF Newest(s) THEN "open" ELSE step[s]
          /\ \A t \in Writers : t # s => step'[t] = step[t]
        BY <1>0 DEF LocalTypes
    <2>3. /\ lockHolder = Nobody /\ lockHolder' = s
          /\ UNCHANGED <<latestWritten, sampleIndex, temporary>>
        OBVIOUS
    <2>4. Newest(s) => latestWritten < sampleIndex[s]
        BY <1>0, <2>1 DEF LocalIInv, CheckpointsDiffer, Holds, LocalTypes, Newest
    <2> HIDE DEF LockAndTest, Newest
    <2>5. \A t \in Writers : lockHolder' = t <=> thread'[t] \in {"writing", "unlocking"}
        BY <2>1, <2>3, NobodyIsNoSlot DEF LocalIInv, OneWriter
    <2>6. \A t \in Writers : step'[t] # "none" <=> thread'[t] = "writing"
        BY <2>1, <2>2 DEF LocalIInv, OneWriter
    <2>7. \A t \in Writers : thread'[t] = "writing" => latestWritten' < sampleIndex'[t]
        BY <2>1, <2>3, <2>4 DEF LocalIInv, OneWriter
    <2>8. \A t \in Writers : step'[t] = "rename" => temporary' = sampleIndex'[t]
        BY <2>1, <2>2, <2>3 DEF LocalIInv, OneWriter
    <2> QED
        BY <2>5, <2>6, <2>7, <2>8 DEF OneWriter
<1>7. NothingIsLeft'
    BY <1>0 DEF LocalIInv, LocalTypes, NothingIsLeft
<1>8. ImageInv'
    BY <1>0 DEF LocalIInv, LocalTypes, ImageInv, ImageIsComplete, NothingIsLeft
<1> QED
    BY <1>1, <1>2, <1>3, <1>4, <1>5, <1>6, <1>7, <1>8 DEF LocalIInv

\* The one thread that writes renames what it has filled.
LEMMA WriteKeepsLocalIInv ==
    ASSUME LocalIInv, NEW s \in Writers, WriteCheckpoint(s)
    PROVE  LocalIInv'
<1> USE FileAssumption, LocalAssumption
        DEF WriteCheckpoint, OpenTemporary, FillTemporary, RenameTemporary, Content, Go,
            hostVars, slotVars, fileVars
<1>0. LocalTypes
    BY DEF LocalIInv
<1>1. LocalTypes'
    <2>1. file' \in Sequences \cup {Absent} /\ latestWritten' \in Nat
        BY <1>0, WriterIsReady DEF LocalTypes, Sequences, SamplesPerPixel
    <2>2. thread' \in [Writers -> SlotPlaces]
        BY <1>0 DEF LocalTypes, SlotPlaces
    <2>3. step' \in [Writers -> Steps]
        BY <1>0 DEF LocalTypes, Steps
    <2>4. wrote' \in [Writers -> BOOLEAN]
        BY <1>0 DEF LocalTypes
    <2>5. UNCHANGED <<host, submitted, scan, stream, framebuffer, busy, copied, pixels,
                      sampleIndex, lockHolder>>
        OBVIOUS
    <2> HIDE DEF WriteCheckpoint
    <2> QED
        BY <1>0, <2>1, <2>2, <2>3, <2>4, <2>5 DEF LocalTypes
<1>2. StreamKeepsItsWord'
    BY WordIsKept DEF LocalIInv
<1>3. CopiesAreAwaited'
    <2>1. \A slot \in Writers : thread[slot] = "awaiting" /\ ~copied[slot] =>
             thread'[slot] = "awaiting" /\ ~copied'[slot]
        BY <1>0 DEF LocalTypes
    <2> QED
        BY <2>1, CopiesStayAwaited DEF LocalIInv
<1>4. CopiesAreWhole'
    BY <1>0 DEF LocalIInv, LocalTypes, CopiesAreWhole, Holds, CopiesAreAwaited
<1>5. CheckpointsDiffer'
    <2>1. /\ \A t \in Writers : Holds(t)' => Holds(t)
          /\ latestWritten' # latestWritten =>
                latestWritten' = sampleIndex[s] /\ ~Holds(s)'
        BY <1>0 DEF LocalTypes, Holds
    <2>2. UNCHANGED <<host, scan, submitted, sampleIndex>> /\ Holds(s)
        BY DEF Holds
    <2> HIDE DEF WriteCheckpoint
    <2>3. sampleIndex \in [Writers -> Nat] /\ submitted \in Nat
        BY <1>0 DEF LocalTypes
    <2>4. \A t \in Writers : Holds(t)' /\ latestWritten' # latestWritten =>
             sampleIndex[t] # latestWritten'
        BY <2>1, <2>2 DEF LocalIInv, CheckpointsDiffer
    <2> QED
        BY <2>1, <2>2, <2>3, <2>4 DEF LocalIInv, CheckpointsDiffer
<1>6. OneWriter'
    <2>1. /\ \A t \in Writers : t # s => thread'[t] = thread[t] /\ step'[t] = step[t]
          /\ step'[s] = "none" => thread'[s] = "unlocking" /\ latestWritten' = sampleIndex[s]
          /\ step'[s] # "none" => thread'[s] = "writing" /\ latestWritten' = latestWritten
          /\ step'[s] = "rename" => temporary' = sampleIndex[s]
        BY <1>0, WriterIsReady DEF LocalTypes
    <2>2. UNCHANGED <<lockHolder, sampleIndex>>
        OBVIOUS
    <2>3. /\ thread[s] = "writing" /\ lockHolder = s /\ latestWritten < sampleIndex[s]
          /\ \A t \in Writers : t # s => thread[t] \notin {"writing", "unlocking"}
        BY WriterIsReady
    <2>4. \A t \in Writers : t # s => step[t] = "none"
        BY <2>3 DEF LocalIInv, OneWriter
    <2> HIDE DEF WriteCheckpoint
    <2> QED
        BY <2>1, <2>2, <2>3, <2>4 DEF OneWriter
<1>7. NothingIsLeft'
    BY <1>0 DEF LocalIInv, LocalTypes, NothingIsLeft
<1>8. ImageInv'
    BY <1>0 DEF LocalIInv, LocalTypes, ImageInv, ImageIsComplete, NothingIsLeft
<1> QED
    BY <1>1, <1>2, <1>3, <1>4, <1>5, <1>6, <1>7, <1>8 DEF LocalIInv

\* The mutex and the slot are given back.
LEMMA UnlockKeepsLocalIInv ==
    ASSUME LocalIInv, NEW s \in Writers, Unlock(s) \/ ClearBusy(s)
    PROVE  LocalIInv'
<1> USE FileAssumption, LocalAssumption
        DEF Unlock, ClearBusy, Released, Go, hostVars, slotVars, fileVars
<1>0. LocalTypes
    BY DEF LocalIInv
<1>1. LocalTypes'
    BY <1>0 DEF LocalIInv, LocalTypes, HostPlaces, SlotPlaces, Steps
<1>2. StreamKeepsItsWord'
    BY WordIsKept DEF LocalIInv
<1>3. CopiesAreAwaited'
    <2>1. \A slot \in Writers : thread[slot] = "awaiting" /\ ~copied[slot] =>
             thread'[slot] = "awaiting" /\ ~copied'[slot]
        BY <1>0 DEF LocalTypes
    <2> QED
        BY <2>1, CopiesStayAwaited DEF LocalIInv
<1>4. CopiesAreWhole'
    BY <1>0 DEF LocalIInv, LocalTypes, CopiesAreWhole, Holds, CopiesAreAwaited
<1>5. CheckpointsDiffer'
    <2>1. \A t \in Writers : Holds(t)' => Holds(t)
        BY <1>0 DEF LocalTypes, Holds
    <2>2. UNCHANGED <<host, scan, submitted, sampleIndex, latestWritten>>
        OBVIOUS
    <2> HIDE DEF Unlock, ClearBusy
    <2> QED
        BY <2>1, <2>2 DEF LocalIInv, CheckpointsDiffer
<1>6. OneWriter'
    <2>1. /\ thread'[s] \in {"clearing", "exited"} /\ thread[s] # "writing"
          /\ thread[s] = "unlocking" <=> lockHolder' = Nobody /\ lockHolder = s
          /\ thread[s] # "unlocking" => lockHolder' = lockHolder /\ lockHolder # s
          /\ \A t \in Writers : t # s => thread'[t] = thread[t]
        BY <1>0, NobodyIsNoSlot DEF LocalIInv, LocalTypes, OneWriter
    <2>2. UNCHANGED <<step, latestWritten, sampleIndex, temporary>>
        OBVIOUS
    <2> HIDE DEF Unlock, ClearBusy
    <2> QED
        BY <2>1, <2>2, NobodyIsNoSlot DEF LocalIInv, OneWriter
<1>7. NothingIsLeft'
    BY <1>0 DEF LocalIInv, LocalTypes, NothingIsLeft
<1>8. ImageInv'
    BY <1>0 DEF LocalIInv, LocalTypes, ImageInv, ImageIsComplete, NothingIsLeft
<1> QED
    BY <1>1, <1>2, <1>3, <1>4, <1>5, <1>6, <1>7, <1>8 DEF LocalIInv

LEMMA StutterKeepsLocalIInv ==
    ASSUME LocalIInv, UNCHANGED vars
    PROVE  LocalIInv'
<1> USE FileAssumption, LocalAssumption
        DEF vars, hostVars, slotVars, fileVars
<1>0. LocalTypes
    BY DEF LocalIInv
<1>1. LocalTypes'
    BY <1>0 DEF LocalIInv, LocalTypes, HostPlaces, SlotPlaces, Steps
<1>2. StreamKeepsItsWord'
    BY WordIsKept DEF LocalIInv
<1>3. CopiesAreAwaited'
    <2>1. \A slot \in Writers : thread[slot] = "awaiting" /\ ~copied[slot] =>
             thread'[slot] = "awaiting" /\ ~copied'[slot]
        BY <1>0 DEF LocalTypes
    <2> QED
        BY <2>1, CopiesStayAwaited DEF LocalIInv
<1>4. CopiesAreWhole'
    BY <1>0 DEF LocalIInv, LocalTypes, CopiesAreWhole, Holds, CopiesAreAwaited
<1>5. CheckpointsDiffer'
    BY <1>0 DEF LocalIInv, LocalTypes, CheckpointsDiffer, Holds, HostPlaces
<1>6. OneWriter'
    BY <1>0 DEF LocalIInv, LocalTypes, OneWriter, CheckpointsDiffer, Holds
<1>7. NothingIsLeft'
    BY <1>0 DEF LocalIInv, LocalTypes, NothingIsLeft
<1>8. ImageInv'
    BY <1>0 DEF LocalIInv, LocalTypes, ImageInv, ImageIsComplete, NothingIsLeft
<1> QED
    BY <1>1, <1>2, <1>3, <1>4, <1>5, <1>6, <1>7, <1>8 DEF LocalIInv

LEMMA InitGivesLocalIInv == Init => LocalIInv
<1> SUFFICES ASSUME Init PROVE LocalIInv
    OBVIOUS
<1> USE FileAssumption, LocalAssumption DEF Init, FileInit, ForEachSlot
<1>1. LocalTypes
    <2>1. /\ stream \in Seq(Operations) /\ lockHolder \in Writers \cup {Nobody}
          /\ scan \in 0..SlotCount /\ submitted \in 0..SamplesPerPixel
        BY EmptySeq DEF SamplesPerPixel
    <2>2. /\ busy \in [Writers -> BOOLEAN] /\ copied \in [Writers -> BOOLEAN]
          /\ pixels \in [Writers -> Nat] /\ sampleIndex \in [Writers -> Nat]
          /\ wrote \in [Writers -> BOOLEAN]
        OBVIOUS
    <2>3. thread \in [Writers -> SlotPlaces] /\ step \in [Writers -> Steps]
        BY DEF SlotPlaces, Steps
    <2>4. /\ host \in HostPlaces /\ framebuffer \in Nat /\ latestWritten \in Nat
          /\ file \in Sequences \cup {Absent}
        BY DEF HostPlaces
    <2> QED
        BY <2>1, <2>2, <2>3, <2>4 DEF LocalTypes
<1>2. StreamKeepsItsWord
    <2> DEFINE after == [k \in 0..0 |-> 0]
    <2>1. Len(stream) = 0 /\ after \in [0..Len(stream) -> Nat] /\ after[0] = 0
        BY EmptySeq
    <2> HIDE DEF after
    <2> QED
        BY <2>1 DEF StreamKeepsItsWord, Foretells
<1>3. CopiesAreAwaited /\ CopiesAreWhole
    BY DEF CopiesAreAwaited, CopiesAreWhole, Holds
<1>4. CheckpointsDiffer /\ OneWriter
    BY NobodyIsNoSlot DEF CheckpointsDiffer, OneWriter, Holds
<1>5. NothingIsLeft /\ ImageInv
    BY DEF NothingIsLeft, ImageInv, ImageIsComplete
<1> QED
    BY <1>1, <1>2, <1>3, <1>4, <1>5 DEF LocalIInv

LEMMA NextKeepsLocalIInv == LocalIInv /\ [Next]_vars => LocalIInv'
<1> SUFFICES ASSUME LocalIInv, [Next]_vars PROVE LocalIInv'
    OBVIOUS
<1>1. CASE Start \/ Kill
    BY <1>1, StartKeepsLocalIInv, DieKeepsLocalIInv DEF Kill
<1>2. CASE HostStep
    BY <1>2, SampleKeepsLocalIInv, TryKeepsLocalIInv, StartThreadKeepsLocalIInv,
       ImageKeepsLocalIInv, DieKeepsLocalIInv DEF HostStep, Release
<1>3. CASE Execute \/ UNCHANGED vars
    BY <1>3, ExecuteKeepsLocalIInv, StutterKeepsLocalIInv
<1>4. ASSUME NEW s \in Writers, ThreadStep(s) \/ WriteFails(s)
      PROVE  LocalIInv'
    BY <1>4, AwaitKeepsLocalIInv, LockKeepsLocalIInv, WriteKeepsLocalIInv,
       UnlockKeepsLocalIInv, DieKeepsLocalIInv DEF ThreadStep, WriteFails
<1> QED
    BY <1>1, <1>2, <1>3, <1>4 DEF Next

\* What ties host, stream, slots and file together holds in every reachable state.
THEOREM LocalInvariant == Spec => []LocalIInv
<1> QED
    BY InitGivesLocalIInv, NextKeepsLocalIInv, PTL DEF Spec
-----------------------------------------------------------------------------
(* The properties.                                                         *)

\* A render that is not killed writes an image with every sample once, whatever
\* checkpoint it was resumed from (RenderDriver::writeFinalImage).
THEOREM EverySampleIsInTheImage == Spec => []ImageIsComplete
<1>1. LocalIInv => ImageIsComplete
    BY DEF LocalIInv, ImageInv
<1> QED
    BY <1>1, LocalInvariant, PTL

\* Only the rename of the thread that has the mutex changes the checkpoint.
LEMMA OnlyAWriterReplaces ==
    ASSUME LocalIInv, [Next]_vars, file' # file
    PROVE  \E s \in Writers : WriteCheckpoint(s) /\ RenameTemporary(s)
<1> USE DEF fileVars, slotVars
<1>1. ~(Start \/ Execute \/ Die \/ UNCHANGED vars)
    BY DEF Start, StartRender, Execute, Die, vars
<1>2. ~HostStep
    BY <1>1 DEF HostStep, RenderSample, TrySlot, StartThread, EndLoop, WriteImage, Release
<1>3. \A s \in Writers : ~(AwaitCopy(s) \/ LockAndTest(s) \/ Unlock(s) \/ ClearBusy(s))
    BY DEF AwaitCopy, LockAndTest, BeginWrite, Unlock, ClearBusy
<1>4. PICK s \in Writers : WriteCheckpoint(s)
    BY <1>1, <1>2, <1>3 DEF Next, Kill, WriteFails, ThreadStep
<1>5. RenameTemporary(s)
    BY <1>4 DEF WriteCheckpoint, OpenTemporary, FillTemporary
<1> QED
    BY <1>4, <1>5

\* The local checkpoint only advances within a process, is whole, and has the
\* samples its header says and no more than the device has finished
\* (writeCheckpoint, enqueueRenderSessionCheckpoint).
THEOREM CheckpointsOnlyAdvance == Spec => CheckpointsAdvance
<1>1. ASSUME LocalIInv, [Next]_vars, file' # file
      PROVE  /\ file' \in Sequences
             /\ file' > latestWritten
             /\ file' <= framebuffer
    <2>1. PICK s \in Writers : WriteCheckpoint(s) /\ RenameTemporary(s)
        BY <1>1, OnlyAWriterReplaces
    <2>2. thread[s] = "writing" /\ step[s] = "rename" /\ file' = temporary
        BY <2>1 DEF WriteCheckpoint, RenameTemporary
    <2>3. file' = sampleIndex[s]
        BY <1>1, <2>2, WriterIsReady
    <2>4. sampleIndex[s] \in Nat /\ latestWritten \in Nat
        BY <1>1 DEF LocalIInv, LocalTypes
    <2> QED
        BY <1>1, <2>2, <2>3, <2>4, WriterIsReady DEF SamplesPerPixel, Sequences
<1> QED
    BY <1>1, LocalInvariant, PTL DEF Spec, CheckpointsAdvance
=============================================================================
