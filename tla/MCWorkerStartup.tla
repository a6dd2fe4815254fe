--------------------------- MODULE MCWorkerStartup ---------------------------
(* Instances of WorkerStartup: one worker and several kinds of jobs.        *)
EXTENDS WorkerStartup

MCCacheOf == [w \in Workers |-> w]

Flags == {"intersectionDebug", "shadingNormalDebug", "persistentWavefront",
          "profileQueues", "enableCaustics", "enableCausticGather", "pushAssets", "neutralRoom",
          "removeBackdrop", "convertObjectMaterialsToDielectric", "addSponzaTopLight",
          "ignoreSponzaLightOcclusion", "useNormalMaps", "pushConfigurationToWorkers"}
Names == {"name", "objectFilename", "gltfFilename"}

Scene == <<1, 2>>           \* a folder and the primary file in it
Settings ==
    [f \in RenderFields \cup SceneFields \cup {"samplesPerTask", "pushConfigurationToWorkers"} |->
        CASE f = "tiledRendering" -> TRUE
          [] f \in Flags -> FALSE
          [] f = "name" -> <<>>
          [] f \in Names -> Scene
          [] OTHER -> 1]

File(kind, bytes, requests) ==
    [kind |-> kind, bytes |-> bytes, requests |-> requests, mapKd |-> DOMAIN requests]

Pushed == [Settings EXCEPT !.pushAssets = TRUE]
Told == [Pushed EXCEPT !.pushConfigurationToWorkers = TRUE]
Sponzas == [Told EXCEPT !.preset = Sponza]
Wider == [Settings EXCEPT !.width = 2]

\* An OBJ file with a material library and a texture of two chunks; the library in
\* a folder of its own; a glTF file with an empty buffer; one of more files than a
\* message may list; one that reaches outside.
ObjTree == (Scene :> File("obj", <<1>>, <<<<3>>>>))
           @@ (<<1, 3>> :> File("mtl", <<2>>, <<<<2, Up, 1>>>>))
           @@ (<<1, 1>> :> File("image", <<1, 2, 3>>, <<>>))
NestedTree == (Scene :> File("obj", <<1>>, <<<<1, 3>>>>))
              @@ (<<1, 1, 3>> :> File("mtl", <<2>>, <<<<1>>>>))
              @@ (<<1, 1, 1>> :> File("image", <<1>>, <<>>))
GltfTree == (Scene :> File("gltf", <<1>>, <<<<3, 3>>, NoPath>>))
            @@ (<<1, 3, 3>> :> File("bin", <<>>, <<>>))
WideTree == (Scene :> File("gltf", <<1>>, <<<<1, 3>>, <<3>>, <<1, 1>>>>))
            @@ (<<1, 1, 3>> :> File("bin", <<>>, <<>>))
            @@ (<<1, 3>> :> File("bin", <<>>, <<>>))
            @@ (<<1, 1, 1>> :> File("image", <<>>, <<>>))
EscapingTree == (Scene :> File("gltf", <<1>>, <<<<Up, 3>>>>)) @@ (<<3>> :> File("bin", <<>>, <<>>))

Job(settings, tree, own, local, n) ==
    [settings |-> settings, disk |-> tree, own |-> own, local |-> local,
     maxEdits |-> n, maxRestarts |-> n, maxFaults |-> n]

\* The assets are sent, to workers that have none or some of them.
TransferJobs ==
    {Job(Told, ObjTree, Wider, <<>>, 1),
     Job(Sponzas, GltfTree, Wider, GltfTree, 1),
     Job(Pushed, ObjTree, Pushed, <<>>, 0),
     Job([Told EXCEPT !.preset = Prism], ObjTree, Pushed, <<>>, 0),
     Job([Told EXCEPT !.preset = Demo], ObjTree, Wider, <<>>, 0),
     Job([Told EXCEPT !.preset = 1, !.objectSource = ProceduralPrism], ObjTree, Pushed, ObjTree, 0),
     Job(Told, NestedTree, Settings, <<>>, 0),
     Job(Sponzas, WideTree, Settings, <<>>, 0),
     Job(Sponzas, EscapingTree, Settings, <<>>, 0)}

\* The workers have their own files.
LocalJobs ==
    {Job(Settings, ObjTree, Settings, ObjTree, 1),
     Job(Settings, ObjTree, Pushed, ObjTree, 0),
     Job(Pushed, ObjTree, Settings, ObjTree, 0),
     Job([Told EXCEPT !.pushAssets = FALSE], ObjTree, Pushed, [ObjTree EXCEPT ![Scene].bytes = <<>>], 1),
     Job([Told EXCEPT !.pushAssets = FALSE], ObjTree, Pushed, Scene :> ObjTree[Scene], 0)}

Sized(settings, size) == size @@ settings
Size(width, height, tileWidth, tileHeight, samples, batch) ==
    [width |-> width, height |-> height, tileWidth |-> tileWidth, tileHeight |-> tileHeight,
     samplesPerPixel |-> samples, samplesPerTask |-> batch]

\* Several tasks; a tile whose result no message can hold.
TaskJobs ==
    {Job(Sized(Settings, size), ObjTree, Sized(Settings, size), ObjTree, 0) :
        size \in {Size(3, 1, 2, 2, 3, 2), Size(5, 4, 5, 4, 1, 1)}}

\* The table is all that is asked of these: there is no scene. The last of the sizes
\* reach the end of a word, and pass it; of tiles there are as many as a word numbers,
\* and one row more.
PlanSizes ==
    {Size(w, h, tw, 2, s, b) : w \in 3..5, h \in {1, 4}, tw \in {2, 3, 7}, s \in {1, 5}, b \in 2..3}
    \cup {Size(1, 0, 1, 1, 1, 1), Size(30, 1, 2, 1, 1, 2), Size(31, 1, 2, 1, 1, 1),
          Size(1, 1, 1, 1, 31, 16), Size(8, 4, 1, 1, 1, 1), Size(8, 5, 1, 1, 1, 1)}
PlanJobs == {Job(Sized(Pushed, size), <<>>, Settings, <<>>, 0) : size \in PlanSizes}

WireJob == Job(Sponzas, GltfTree, Wider, <<>>, 0)

MCStartJobs == TransferJobs \cup LocalJobs \cup TaskJobs \cup PlanJobs \cup {WireJob}
MCWireJobs == {WireJob}
MCEdits == {<<1>>, <<1, 1>>}
=============================================================================
