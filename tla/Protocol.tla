------------------------------ MODULE Protocol ------------------------------
(***************************************************************************)
(* The messages between worker and coordinator as bytes:                   *)
(* encodeDistributedMessage and decodeDistributedMessage                   *)
(* (src/distributed/protocol.cpp) and the part of a configuration that     *)
(* travels (include/distributed/job_config.hpp).                           *)
(*                                                                         *)
(* A byte has Base values and the limits are constants; the widths, the    *)
(* order of the bytes and of the fields, and every test of the reader are  *)
(* the code's. Writer and reader are separate functions of the code, so    *)
(* are their field lists here. A string is the sequence of its bytes, a    *)
(* float the 32 bits it is copied from. A message is a record of its type  *)
(* and fields, those of nested structures included; `resultSampleCount` is *)
(* DistributedTaskResult::sampleCount, which is not the task's.            *)
(***************************************************************************)
EXTENDS Integers, Sequences, SequencesExt

CONSTANTS
    Base,               \* 256
    MaxMessageBytes,    \* distributedMaxMessageBytes
    MaxStringBytes,     \* maxStringBytes
    MaxAssetFiles,      \* maxAssetFiles
    ChunkBytes          \* distributedAssetChunkBytes

\* The types fit a byte of the model.
ASSUME ProtocolAssumption ==
    /\ {Base, MaxMessageBytes, MaxStringBytes, MaxAssetFiles, ChunkBytes} \subseteq Nat \ {0}
    /\ Base > 3

ProtocolVersion == 5

TypeCode ==
    [WorkerHello |-> 1, WorkerHelloAccepted |-> 2, RequestTask |-> 3, TaskAssignment |-> 4,
     TaskResult |-> 5, ResultAck |-> 6, NoTask |-> 7, Heartbeat |-> 8, HeartbeatAck |-> 9,
     Error |-> 10, AssetRequest |-> 11, AssetChunk |-> 12]

\* The greatest value of each enumeration, as the reader tests it.
EnumLimit ==
    [rngStrategy |-> 1, preset |-> 7, objectSource |-> 2, lightProfile |-> 2,
     acceleration |-> 4, status |-> 2]

\* The fields of a message and those of a structure nested in it.
With(m, nested) ==
    [f \in DOMAIN m \cup DOMAIN nested |-> IF f \in DOMAIN m THEN m[f] ELSE nested[f]]

As(kind, names) == [i \in DOMAIN names |-> <<kind, names[i]>>]
One(kind, name) == <<<<kind, name>>>>
-----------------------------------------------------------------------------
(* What the writer appends, in its order.                                  *)

TileWrites == As("u32", <<"x", "y", "width", "height">>)
TaskIdWrites == As("u32", <<"tileOrdinal", "sampleStart", "sampleCount">>)
AssignmentWrites ==
    One("u64", "jobFingerprint") \o TaskIdWrites \o TileWrites \o One("u64", "leaseExpiresAtMs")

ConfigurationWrites ==
    As("u32", <<"width", "height", "tileWidth", "tileHeight", "maxDepth",
                "russianRouletteStartDepth", "samplesPerPixel", "blockSize", "rngStrategy">>)
    \o As("bool", <<"tiledRendering", "intersectionDebug", "shadingNormalDebug",
                    "persistentWavefront", "profileQueues", "enableCaustics",
                    "enableCausticGather">>)
    \o As("u32", <<"causticPhotonCount", "causticMaxDepth", "causticGatherRadius">>)
    \o One("bool", "pushAssets")
    \o One("u32", "preset")
    \o As("string", <<"name", "objectFilename", "gltfFilename">>)
    \o As("u32", <<"gltfScale", "objectScale", "translationX", "translationY", "translationZ",
                   "objectSource", "lightProfile", "acceleration">>)
    \o As("bool", <<"neutralRoom", "removeBackdrop", "convertObjectMaterialsToDielectric">>)
    \o One("u32", "objectMaterialOverride")
    \o As("bool", <<"addSponzaTopLight", "ignoreSponzaLightOcclusion", "useNormalMaps">>)
    \o One("u32", "normalMapMinimumCosine")

Writes(m) ==
    CASE m.type = "WorkerHello" -> One("u64", "jobFingerprint") \o One("string", "workerId")
      [] m.type = "WorkerHelloAccepted" ->
            One("bool", "accepted") \o One("string", "message") \o One("u64", "jobFingerprint")
            \o One("string", "primaryAssetPath") \o One("assets", "assets")
            \o One("bool", "hasConfiguration")
            \o (IF m.hasConfiguration THEN ConfigurationWrites ELSE <<>>)
      [] m.type \in {"RequestTask", "Heartbeat"} -> One("string", "workerId")
      [] m.type = "TaskAssignment" -> AssignmentWrites
      [] m.type = "TaskResult" ->
            One("u64", "jobFingerprint") \o TaskIdWrites \o TileWrites
            \o One("u32", "resultSampleCount") \o One("pixels", "radiance")
      [] m.type = "ResultAck" ->
            As("u32", <<"ackOrdinal", "ackStart", "ackCount", "status">>)
            \o One("bool", "hasNextTask")
            \o (IF m.hasNextTask THEN AssignmentWrites ELSE <<>>)
      [] m.type = "NoTask" -> One("u32", "retryAfterMs") \o One("bool", "jobComplete")
      [] m.type = "HeartbeatAck" -> One("u32", "renewedLeaseCount")
      [] m.type = "AssetRequest" ->
            As("string", <<"workerId", "relativePath">>) \o One("u64", "offset")
      [] m.type = "AssetChunk" ->
            One("string", "relativePath") \o As("u64", <<"offset", "totalSize", "checksum">>)
            \o One("bool", "finalChunk") \o One("bytes", "bytes")
      [] m.type = "Error" -> One("string", "message")

\* The lowest byte comes first.
Bytes(number, width) == [i \in 1..width |-> (number \div Base^(i - 1)) % Base]

Counted(s) == Bytes(Len(s), 4) \o s

Write(kind, value) ==
    CASE kind = "bool" -> <<IF value THEN 1 ELSE 0>>
      [] kind = "u32" -> Bytes(value, 4)
      [] kind = "u64" -> Bytes(value, 8)
      [] kind \in {"string", "bytes"} -> Counted(value)
      [] kind = "pixels" ->
            Bytes(Len(value), 4) \o FlattenSeq([i \in DOMAIN value |->
                FlattenSeq([channel \in 1..3 |-> Bytes(value[i][channel], 4)])])
      [] kind = "assets" ->
            Bytes(Len(value), 4) \o FlattenSeq([i \in DOMAIN value |->
                Counted(value[i].relativePath) \o Bytes(value[i].byteSize, 8)
                \o Bytes(value[i].checksum, 8)])

\* What the writer refuses.
Oversized(kind, value) ==
    \/ kind = "string" /\ Len(value) > MaxStringBytes
    \/ kind = "bytes" /\ Len(value) > ChunkBytes
    \/ kind = "assets" /\ (\/ Len(value) > MaxAssetFiles
                           \/ \E i \in DOMAIN value :
                                Len(value[i].relativePath) > MaxStringBytes)

Payload(m) ==
    FlattenSeq([i \in DOMAIN Writes(m) |-> Write(Writes(m)[i][1], m[Writes(m)[i][2]])])

Header(m) == Bytes(ProtocolVersion, 4) \o Bytes(TypeCode[m.type], 4)
Frame(m) == Header(m) \o Payload(m)

Encodes(m) ==
    /\ \A i \in DOMAIN Writes(m) : ~ Oversized(Writes(m)[i][1], m[Writes(m)[i][2]])
    /\ Len(Frame(m)) <= MaxMessageBytes
-----------------------------------------------------------------------------
(* What the reader takes, in its order. A third component names the flag   *)
(* without which the field is not there.                                   *)

TileReads == As("u32", <<"x", "y", "width", "height">>)
TaskIdReads == As("u32", <<"tileOrdinal", "sampleStart", "sampleCount">>)
AssignmentReads ==
    One("u64", "jobFingerprint") \o TaskIdReads \o TileReads \o One("u64", "leaseExpiresAtMs")

ConfigurationReads ==
    As("u32", <<"width", "height", "tileWidth", "tileHeight", "maxDepth",
                "russianRouletteStartDepth", "samplesPerPixel", "blockSize">>)
    \o One("enum", "rngStrategy")
    \o As("bool", <<"tiledRendering", "intersectionDebug", "shadingNormalDebug",
                    "persistentWavefront", "profileQueues", "enableCaustics",
                    "enableCausticGather">>)
    \o As("u32", <<"causticPhotonCount", "causticMaxDepth", "causticGatherRadius">>)
    \o One("bool", "pushAssets")
    \o One("enum", "preset")
    \o As("string", <<"name", "objectFilename", "gltfFilename">>)
    \o As("u32", <<"gltfScale", "objectScale", "translationX", "translationY", "translationZ">>)
    \o As("enum", <<"objectSource", "lightProfile", "acceleration">>)
    \o As("bool", <<"neutralRoom", "removeBackdrop", "convertObjectMaterialsToDielectric">>)
    \o One("u32", "objectMaterialOverride")
    \o As("bool", <<"addSponzaTopLight", "ignoreSponzaLightOcclusion", "useNormalMaps">>)
    \o One("u32", "normalMapMinimumCosine")

If(flag, fields) == [i \in DOMAIN fields |-> Append(fields[i], flag)]

Reads(type) ==
    CASE type = "WorkerHello" -> One("u64", "jobFingerprint") \o One("string", "workerId")
      [] type = "WorkerHelloAccepted" ->
            One("bool", "accepted") \o One("string", "message") \o One("u64", "jobFingerprint")
            \o One("string", "primaryAssetPath") \o One("assets", "assets")
            \o One("bool", "hasConfiguration") \o If("hasConfiguration", ConfigurationReads)
      [] type \in {"RequestTask", "Heartbeat"} -> One("string", "workerId")
      [] type = "TaskAssignment" -> AssignmentReads
      [] type = "TaskResult" ->
            One("u64", "jobFingerprint") \o TaskIdReads \o TileReads
            \o One("u32", "resultSampleCount") \o One("pixels", "radiance")
      [] type = "ResultAck" ->
            As("u32", <<"ackOrdinal", "ackStart", "ackCount">>) \o One("enum", "status")
            \o One("bool", "hasNextTask") \o If("hasNextTask", AssignmentReads)
      [] type = "NoTask" -> One("u32", "retryAfterMs") \o One("bool", "jobComplete")
      [] type = "HeartbeatAck" -> One("u32", "renewedLeaseCount")
      [] type = "AssetRequest" ->
            As("string", <<"workerId", "relativePath">>) \o One("u64", "offset")
      [] type = "AssetChunk" ->
            One("string", "relativePath") \o As("u64", <<"offset", "totalSize", "checksum">>)
            \o One("bool", "finalChunk") \o One("bytes", "bytes")
      [] type = "Error" -> One("string", "message")

\* What a read takes off the front of the bytes is a set: the one value with the
\* bytes behind it, or nothing where the read fails.
Took(value, rest) == [value |-> value, rest |-> rest]

Drop(s, n) == SubSeq(s, n + 1, Len(s))
NumberOf(s) == FoldRight(LAMBDA byte, higher : byte + Base * higher, s, 0)

TakeNumber(bytes, width) ==
    IF Len(bytes) < width THEN {}
    ELSE {Took(NumberOf(SubSeq(bytes, 1, width)), Drop(bytes, width))}

AtMost(taken, maximum) == {t \in taken : t.value <= maximum}

\* A fault: every byte but zero is taken for TRUE.
TakeBool_AnyByte(bytes) == {Took(t.value # 0, t.rest) : t \in TakeNumber(bytes, 1)}

TakeBool(bytes) == {Took(t.value # 0, t.rest) : t \in AtMost(TakeNumber(bytes, 1), 1)}

TakeCounted(bytes, maximum) ==
    {Took(SubSeq(t.rest, 1, t.value), Drop(t.rest, t.value)) :
        t \in {u \in AtMost(TakeNumber(bytes, 4), maximum) : u.value <= Len(u.rest)}}

TakePixel(bytes) ==
    IF Len(bytes) < 12 THEN {}
    ELSE {Took([c \in 1..3 |-> NumberOf(SubSeq(bytes, 4 * c - 3, 4 * c))], Drop(bytes, 12))}

TakeAsset(bytes) ==
    UNION {{Took([relativePath |-> path.value, byteSize |-> NumberOf(SubSeq(path.rest, 1, 8)),
                  checksum |-> checksum.value], checksum.rest) :
               checksum \in TakeNumber(Drop(path.rest, 8), 8)} :
              path \in TakeCounted(bytes, MaxStringBytes)}

\* The elements of a list, one after the other.
TakeList(kind, bytes, maximum) ==
    LET elements(rest) == IF kind = "pixels" THEN TakePixel(rest) ELSE TakeAsset(rest)
        more(lists, i) ==
            UNION {{Took(Append(list.value, e.value), e.rest) : e \in elements(list.rest)} :
                      list \in lists}
    IN  UNION {FoldLeft(more, {Took(<<>>, size.rest)}, [i \in 1..size.value |-> i]) :
                  size \in AtMost(TakeNumber(bytes, 4), maximum)}

Take(kind, name, bytes) ==
    CASE kind = "bool" -> TakeBool(bytes)
      [] kind = "u32" -> TakeNumber(bytes, 4)
      [] kind = "u64" -> TakeNumber(bytes, 8)
      [] kind = "enum" -> AtMost(TakeNumber(bytes, 4), EnumLimit[name])
      [] kind = "string" -> TakeCounted(bytes, MaxStringBytes)
      [] kind = "bytes" -> TakeCounted(bytes, ChunkBytes)
      [] kind = "pixels" -> TakeList(kind, bytes, MaxMessageBytes \div 12)
      [] kind = "assets" -> TakeList(kind, bytes, MaxAssetFiles)

\* The value of a field joins the message.
ReadField(readers, field) ==
    LET joined(m, value) ==
            [f \in DOMAIN m \cup {field[2]} |-> IF f = field[2] THEN value ELSE m[f]]
        next(reader) ==
            IF Len(field) = 3 /\ ~ reader.value[field[3]] THEN {reader}
            ELSE {Took(joined(reader.value, taken.value), taken.rest) :
                     taken \in Take(field[1], field[2], reader.rest)}
    IN  UNION {next(reader) : reader \in readers}

\* The message the bytes are read as, if any.
Decode(bytes) ==
    LET codes == UNION {TakeNumber(version.rest, 4) :
                           version \in {v \in TakeNumber(bytes, 4) : v.value = ProtocolVersion}}
        typed(type) == {Took([type |-> type], code.rest) :
                           code \in {c \in codes : c.value = TypeCode[type]}}
        read == UNION {FoldLeft(ReadField, typed(type), Reads(type)) : type \in DOMAIN TypeCode}
    IN  IF Len(bytes) > MaxMessageBytes THEN {} ELSE {r.value : r \in {q \in read : q.rest = <<>>}}
-----------------------------------------------------------------------------
(* The settings that travel with a job.                                    *)

RenderFields ==
    {"width", "height", "tileWidth", "tileHeight", "maxDepth", "russianRouletteStartDepth",
     "samplesPerPixel", "blockSize", "rngStrategy", "tiledRendering", "intersectionDebug",
     "shadingNormalDebug", "persistentWavefront", "profileQueues", "enableCaustics",
     "enableCausticGather", "causticPhotonCount", "causticMaxDepth", "causticGatherRadius",
     "pushAssets"}
SceneFields ==
    {"preset", "name", "objectFilename", "gltfFilename", "gltfScale", "objectScale",
     "translationX", "translationY", "translationZ", "objectSource", "lightProfile",
     "acceleration", "neutralRoom", "removeBackdrop", "convertObjectMaterialsToDielectric",
     "objectMaterialOverride", "addSponzaTopLight", "ignoreSponzaLightOcclusion",
     "useNormalMaps", "normalMapMinimumCosine"}

\* makeDistributedWorkerConfiguration: other settings stay with the process.
WorkerConfiguration(config) == [f \in RenderFields \cup SceneFields |-> config[f]]

\* applyDistributedWorkerConfiguration
Configured(config, configuration) ==
    [f \in DOMAIN config |->
        IF f \in RenderFields \cup SceneFields THEN configuration[f] ELSE config[f]]
-----------------------------------------------------------------------------
(* Properties.                                                             *)

\* What is written is read; nothing else is taken for it: no part of it, not with
\* another byte behind it; and of the frames that differ in one byte the reader
\* takes only such as the writer would have written.
ReadsBack(m) ==
    Encodes(m) =>
        /\ Decode(Frame(m)) = {m}
        /\ \A n \in 0..Len(Frame(m)) - 1 : Decode(SubSeq(Frame(m), 1, n)) = {}
        /\ Decode(Append(Frame(m), 0)) = {}
        /\ \A i \in 1..Len(Frame(m)), byte \in 0..Base - 1 :
              LET frame == [Frame(m) EXCEPT ![i] = byte] IN
              \A taken \in Decode(frame) : Encodes(taken) /\ Frame(taken) = frame
=============================================================================
