----------------------------- MODULE AssetCatalog -----------------------------
(***************************************************************************)
(* What a coordinator offers its workers: buildDistributedAssetCatalog     *)
(* (src/distributed/assets.cpp), and what the loaders of a worker open     *)
(* (src/scene/obj_loader.cpp, gltf_loader.cpp).                            *)
(*                                                                         *)
(* A path is the sequence of its names, from the root of the disk or from  *)
(* a folder. A disk maps the paths of its files to records: `kind`, the    *)
(* `bytes`, the paths the file names (`requests`: the URIs of a glTF file, *)
(* the mtllib names of an OBJ file, the textures of a material library)    *)
(* and which of those textures are map_Kd. FNV-1a is taken for an          *)
(* injection, of the bytes and their number.                               *)
(***************************************************************************)
EXTENDS Protocol

Up == 0                     \* ".."
NoPath == <<>>              \* also a data URI or an empty name

\* ScenePreset and CornellObjectSource
Sponza == 0
Prism == 3
Demo == 6
ProceduralPrism == 2

\* A disk: no file is a folder of another, and its paths hold no "..".
IsFile(file) ==
    /\ DOMAIN file = {"kind", "bytes", "requests", "mapKd"}
    /\ file.bytes \in Seq(0..Base - 1)
    /\ file.requests \in Seq(Seq(Nat))
    /\ file.mapKd \subseteq DOMAIN file.requests

IsDisk(disk) ==
    /\ DOMAIN disk \subseteq Seq(Nat \ {Up}) \ {NoPath}
    /\ \A path \in DOMAIN disk :
         /\ IsFile(disk[path])
         /\ \A other \in DOMAIN disk : IsPrefix(path, other) => other = path

\* One name after the other, where ".." takes back the one before.
Enter(done, name) ==
    IF name # Up THEN Append(done, name) ELSE IF done = <<>> THEN <<>> ELSE Front(done)
Normal(path) ==
    LET done[n \in 0..Len(path)] == IF n = 0 THEN <<>> ELSE Enter(done[n - 1], path[n])
    IN  done[Len(path)]

Folder(path) == Front(path)
Relative(root, path) == Drop(path, Len(root))

\* hashFile: the size and the checksum of what is read.
Checksum(bytes) == NumberOf(Append(bytes, 1))

\* Paths that are requested, from the folder they are taken relative to.
In(root, paths) == [i \in DOMAIN paths |-> [root |-> root, path |-> paths[i]]]
PathOf(request) == Normal(request.root \o request.path)
-----------------------------------------------------------------------------
(* Faults.                                                                 *)

\* The textures of a material library are forgotten.
ObjRequests_LibrariesOnly(disk, primary) == In(Folder(primary), disk[primary].requests)

\* The file is hashed as far as its first byte.
Descriptor_FirstByte(disk, root, path) ==
    [relativePath |-> Relative(root, path), sourcePath |-> path,
     byteSize |-> Len(disk[path].bytes),
     checksum |-> Checksum(SubSeq(disk[path].bytes, 1, 1))]
-----------------------------------------------------------------------------
(* The dependencies.                                                       *)

\* What the files of an OBJ scene request: first every library the OBJ file names,
\* then the textures of each, relative to the library.
ObjRequests(disk, primary) ==
    LET libraries == In(Folder(primary), disk[primary].requests) IN
    libraries \o FlattenSeq([i \in DOMAIN libraries |->
        In(Folder(PathOf(libraries[i])), disk[PathOf(libraries[i])].requests)])

LibrariesOpen(disk, primary) ==
    \A i \in DOMAIN disk[primary].requests :
        Normal(Folder(primary) \o disk[primary].requests[i]) \in DOMAIN disk

Requests(disk, primary) ==
    CASE disk[primary].kind = "gltf" -> In(Folder(primary), disk[primary].requests)
      [] disk[primary].kind = "obj" -> ObjRequests(disk, primary)
      [] OTHER -> <<>>

\* addAssetPath: a path must stay below the folder it is taken from. The first of
\* several requests of the same path, relative to its own folder, counts.
StaysBelow(request) == request.path = NoPath \/ IsPrefix(request.root, PathOf(request))
KeyOf(request) == Relative(request.root, PathOf(request))

AddedPaths(primary, requests) ==
    LET added == {i \in DOMAIN requests :
                    /\ requests[i].path # NoPath /\ KeyOf(requests[i]) # <<Last(primary)>>
                    /\ \A j \in 1..i - 1 :
                         requests[j].path # NoPath => KeyOf(requests[j]) # KeyOf(requests[i])}
        nth(n) == CHOOSE i \in added : Cardinality({j \in added : j < i}) = n - 1
    IN  <<primary>> \o [n \in 1..Cardinality(added) |-> PathOf(requests[nth(n)])]

\* primaryAssetPath
PrimaryAsset(config) ==
    IF config.preset = Sponza THEN config.gltfFilename
    ELSE IF config.preset = Demo \/ config.objectSource = ProceduralPrism THEN NoPath
    ELSE config.objectFilename

Descriptor(disk, root, path) ==
    [relativePath |-> Relative(root, path), sourcePath |-> path,
     byteSize |-> Len(disk[path].bytes), checksum |-> Checksum(disk[path].bytes)]

NoCatalog == [ok |-> FALSE, primary |-> NoPath, files |-> <<>>]

BuildAssetCatalog(config, disk) ==
    LET primary == PrimaryAsset(config)
        requests == Requests(disk, primary)
        paths == AddedPaths(primary, requests)
    IN  IF primary = NoPath THEN [NoCatalog EXCEPT !.ok = TRUE]
        ELSE IF /\ primary \in DOMAIN disk
                /\ disk[primary].kind = "obj" => LibrariesOpen(disk, primary)
                /\ \A i \in DOMAIN requests : StaysBelow(requests[i])
                /\ \A i \in DOMAIN paths :
                     IsPrefix(Folder(primary), paths[i]) /\ paths[i] \in DOMAIN disk
             THEN [ok |-> TRUE, primary |-> <<Last(primary)>>,
                   files |-> [i \in DOMAIN paths |-> Descriptor(disk, Folder(primary), paths[i])]]
             ELSE NoCatalog

FindAsset(catalog, path) == {i \in DOMAIN catalog.files : catalog.files[i].relativePath = path}

\* readDistributedAssetChunk: the file as it is now, of the size it had; an empty
\* set if it cannot be read.
ReadChunk(disk, file, offset, maximum) ==
    LET left == file.byteSize - offset
        size == IF left < maximum THEN left ELSE maximum
    IN  IF \/ offset > file.byteSize
           \/ file.sourcePath \notin DOMAIN disk
           \/ offset + size > Len(disk[file.sourcePath].bytes)
        THEN {}
        ELSE {[bytes |-> SubSeq(disk[file.sourcePath].bytes, offset + 1, offset + size),
               finalChunk |-> offset + size = file.byteSize]}
-----------------------------------------------------------------------------
(* The fingerprint and the loaders.                                        *)

\* appendSceneFingerprint, appendAsset: the bytes of one file, zero if there is
\* none to open.
FingerprintedBytes(config, disk) ==
    LET path == IF config.preset = Sponza THEN config.gltfFilename ELSE config.objectFilename
    IN  IF config.preset \in {Prism, Demo} \/ path \notin DOMAIN disk THEN 0
        ELSE Checksum(disk[path].bytes)

\* loadObjScene opens the material libraries and every map_Kd texture in the folder
\* of the OBJ file, loadGltfScene the URIs in that of the glTF file.
LoaderOpens(disk, primary) ==
    LET folder == Folder(primary)
        named(path) == {Normal(folder \o disk[path].requests[i]) :
                          i \in {j \in DOMAIN disk[path].requests : disk[path].requests[j] # NoPath}}
        libraries == named(primary) \cap DOMAIN disk
        diffuse(library) ==
            {Normal(folder \o disk[library].requests[i]) :
                i \in {k \in disk[library].mapKd : disk[library].requests[k] # NoPath}}
    IN  IF primary = NoPath \/ primary \notin DOMAIN disk THEN {primary} \ {NoPath}
        ELSE {primary} \cup
             CASE disk[primary].kind = "obj" ->
                    named(primary) \cup UNION {diffuse(library) : library \in libraries}
               [] disk[primary].kind \in {"gltf", "glb"} -> named(primary)

\* Without a material library the OBJ file is loaded with default materials; any
\* other file must be there.
LoaderNeeds(disk, primary) ==
    IF primary \in DOMAIN disk /\ disk[primary].kind = "obj"
    THEN LoaderOpens(disk, primary) \
            ({Normal(Folder(primary) \o disk[primary].requests[i]) :
                i \in DOMAIN disk[primary].requests} \ {primary})
    ELSE LoaderOpens(disk, primary)

\* What the loaders and the catalog agree on: the name of the primary file tells its
\* kind, the libraries lie in the folder of their OBJ file, and a binary glTF file
\* holds all its buffers and images.
Flat(disk, primary) ==
    /\ disk[primary].kind \in {"obj", "gltf", "glb"}
    /\ disk[primary].kind = "obj" =>
         \A i \in DOMAIN disk[primary].requests :
            Folder(Normal(Folder(primary) \o disk[primary].requests[i])) = Folder(primary)
    /\ disk[primary].kind = "glb" => LoaderOpens(disk, primary) = {primary}

\* safeAssetPath of the worker
SafePath(path) == path # <<>> /\ Up \notin Range(path)

\* A catalog names every file that the loaders open.
NamesWhatIsLoaded(catalog, config, disk) ==
    LET primary == PrimaryAsset(config) IN
    catalog.ok /\ primary # NoPath /\ Flat(disk, primary) =>
        LoaderOpens(disk, primary) \subseteq
            {catalog.files[i].sourcePath : i \in DOMAIN catalog.files}
=============================================================================
