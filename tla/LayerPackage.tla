---------------------------- MODULE LayerPackage ----------------------------
(***************************************************************************)
(* The packages of real-layer streaming: one data file with the tensors of *)
(* a decoder layer at aligned offsets, and a manifest with their offsets,  *)
(* written last. A session packs what has no manifest, and loads and uses  *)
(* what has one, whatever it is of; it may end at any step, by an error or *)
(* by Ctrl+C, and the files stay as they are.                              *)
(*                                                                         *)
(* A byte of a data file is <<model, layer, tensor>>, or Zero.             *)
(***************************************************************************)
EXTENDS Integers, Sequences

CONSTANTS
    Alignment, \* ALIGNMENT
    Models,    \* --model-dir
    Layers,    \* indices of decoder layers
    Dirs,      \* --package-dir, or the directories under --package-root
    Nbytes     \* sizes of the tensors of a layer, in the order of their names

ASSUME PackageAssumption ==
    /\ Alignment \in Nat \ {0}
    /\ Nbytes \in [Layers -> Seq(Nat \ {0})]
    /\ Models # {} /\ Layers # {}

VARIABLES
    data,     \* bytes of the data file, per directory and layer
    manifest, \* per directory
    step,     \* where the session is
    model,    \* --model-dir
    todo,     \* the packages the session needs: directory and layer
    at,       \* the one it is at
    strict,   \* whether it compares the layer of a manifest
    specs,    \* the tensors packed so far
    offset    \* the end of the last one

disk == <<data, manifest>>
request == <<model, todo, strict>>
packing == <<specs, offset>>
packageVars == <<disk, step, request, at, packing>>

Zero == <<>>
Todo == [dir : Dirs, layer : Layers]
Dir == todo[at].dir
Layer == todo[at].layer
File == <<Dir, Layer>>

AlignDown(value) == (value \div Alignment) * Alignment
AlignUp(value) == ((value + Alignment - 1) \div Alignment) * Alignment

\* The bytes of a file after count bytes of one content were written at start,
\* at or after its end; and after it was cut or extended to a length.
Written(bytes, start, count, content) ==
    [b \in 0 .. start + count - 1 |->
        IF b >= start THEN content ELSE IF b \in DOMAIN bytes THEN bytes[b] ELSE Zero]
Resized(bytes, length) ==
    [b \in 0 .. length - 1 |-> IF b \in DOMAIN bytes THEN bytes[b] ELSE Zero]

NoManifest ==
    [status |-> "none", model |-> CHOOSE m \in Models : TRUE,
     layer |-> CHOOSE l \in Layers : TRUE, specs |-> <<>>, length |-> 0]

PackageInit ==
    /\ data = [f \in Dirs \X Layers |-> <<>>]
    /\ manifest = [d \in Dirs |-> NoManifest]
    /\ step = "idle" /\ todo = <<>> /\ at = 1 /\ strict \in BOOLEAN
    /\ model \in Models /\ specs = <<>> /\ offset = 0

Begin(m, packages) ==
    /\ step = "idle" /\ step' = "check"
    /\ model' = m /\ todo' = packages /\ at' = 1
    /\ UNCHANGED <<disk, strict, packing>>

\* A manifest that exists is trusted to be of the model.
FindManifest ==
    /\ step = "check" /\ manifest[Dir].status # "none" /\ step' = "load"
    /\ UNCHANGED <<disk, request, at, packing>>

OpenData ==
    /\ step = "check" /\ manifest[Dir].status = "none" /\ step' = "tensors"
    /\ data' = [data EXCEPT ![File] = <<>>]
    /\ specs' = <<>> /\ offset' = 0
    /\ UNCHANGED <<manifest, request, at>>

PackTensorAt(start) ==
    LET count == Nbytes[Layer][Len(specs) + 1]
    IN /\ step = "tensors" /\ Len(specs) < Len(Nbytes[Layer])
       /\ data' = [data EXCEPT ![File] =
                       Written(@, start, count, <<model, Layer, Len(specs) + 1>>)]
       /\ specs' = Append(specs, [offset |-> start, nbytes |-> count])
       /\ offset' = start + count
       /\ UNCHANGED <<manifest, step, request, at>>

\* write is taken to store all bytes or to raise. The file is not buffered and the
\* count is not looked at, so a disk that fills up within a tensor would cut it
\* short, and only the next write or the manifest raise.
PackTensorBelow == PackTensorAt(AlignDown(offset))
PackTensor == PackTensorAt(AlignUp(offset))

TruncateData ==
    /\ step = "tensors" /\ Len(specs) = Len(Nbytes[Layer]) /\ step' = "manifest"
    /\ data' = [data EXCEPT ![File] = Resized(@, AlignUp(offset))]
    /\ UNCHANGED <<manifest, request, at, packing>>

\* write_text truncates the manifest, then writes it.
OpenManifest ==
    /\ step = "manifest" /\ step' = "write"
    /\ manifest' = [manifest EXCEPT ![Dir].status = "torn"]
    /\ UNCHANGED <<data, request, at, packing>>

WriteManifest ==
    /\ step = "write" /\ step' = "load"
    /\ manifest' = [manifest EXCEPT ![Dir] =
           [status |-> "ok", model |-> model, layer |-> Layer, specs |-> specs,
            length |-> AlignUp(offset)]]
    /\ UNCHANGED <<data, request, at, packing>>

Accepted(found) ==
    /\ found.status = "ok"
    /\ \A k \in DOMAIN found.specs :
        found.specs[k].offset % Alignment = 0 /\ found.specs[k].nbytes > 0
    /\ strict => found.layer = Layer

LoadManifest ==
    /\ step = "load" /\ Accepted(manifest[Dir])
    /\ IF at = Len(todo) THEN step' = "loaded" /\ UNCHANGED at
       ELSE step' = "check" /\ at' = at + 1
    /\ UNCHANGED <<disk, request, packing>>

\* The end of the process, after the measurements, an error or Ctrl+C.
Leave ==
    /\ step # "idle" /\ step' = "idle"
    /\ specs' = <<>> /\ offset' = 0
    /\ UNCHANGED <<disk, request, at>>

PackageStep ==
    \/ FindManifest \/ OpenData \/ PackTensor \/ TruncateData
    \/ OpenManifest \/ WriteManifest \/ LoadManifest

PackageNext ==
    \/ \E m \in Models, packages \in Seq(Todo) \ {<<>>} : Begin(m, packages)
    \/ PackageStep \/ Leave

PackageSpec == PackageInit /\ [][PackageNext]_packageVars

------------------------------------------------------------------------------

Extent(spec) == spec.offset .. spec.offset + spec.nbytes - 1

\* Every tensor of a list has all its bytes in a file, at an aligned offset.
Holds(bytes, list, m, l) ==
    \A k \in DOMAIN list :
        /\ list[k].offset % Alignment = 0
        /\ \A b \in Extent(list[k]) : b \in DOMAIN bytes /\ bytes[b] = <<m, l, k>>

\* A package is complete from the moment its manifest can be read, whatever
\* interrupted the sessions before: the data file has the length and, for every
\* tensor, the bytes the manifest tells, of the model and the layer it names.
\* An interrupted pack leaves no manifest or one that cannot be read.
ManifestDescribes ==
    \A d \in Dirs : manifest[d].status = "ok" =>
        LET file == data[<<d, manifest[d].layer>>]
        IN /\ DOMAIN file = 0 .. manifest[d].length - 1
           /\ Len(manifest[d].specs) = Len(Nbytes[manifest[d].layer])
           /\ Holds(file, manifest[d].specs, manifest[d].model, manifest[d].layer)
==============================================================================
